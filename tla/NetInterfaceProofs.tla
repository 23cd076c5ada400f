------------------------- MODULE NetInterfaceProofs -------------------------
(***************************************************************************)
(* Type correctness of NetInterface, and the arguments that available()    *)
(* always finds a queue and that the first queue is always served: for     *)
(* every number of threads and queues with no more threads than queues.    *)
(***************************************************************************)
EXTENDS NetInterface, FiniteSetTheorems, TLAPS

\* TypeOK with the strengthening that makes it inductive.
TypeInv == TypeOK /\ LocalsOK

\* A request has a positive frame size, and that size names its blocks.
LEMMA RequestTypes ==
  ASSUME NEW r \in Requests
  PROVE  /\ r \in Request
         /\ TotalSize(r) \in Nat
         /\ TotalSize(r) > 0
         /\ htons(r.protocol) \in Byte \X Byte
  BY DataAssumption DEF Request, TotalSize, EthHeaderSize, htons

\* The constants the initial heap is made of have their types.
LEMMA ZeroFrameType == ZeroFrame \in Frame
  BY DataAssumption DEF ZeroFrame, Frame, Byte

\* Queues are counted from 0, and NoQueue is not one of them.
LEMMA QueueTypes ==
  /\ TUN_QUEUES \in Nat
  /\ TUN_QUEUES > 0
  /\ NoQueue \in NoQueue..TUN_QUEUES
  /\ NoQueue \notin Queues
  /\ \A q \in Queues : q \in NoQueue..TUN_QUEUES /\ q + 1 \in NoQueue..TUN_QUEUES
  /\ 0 \in Queues
  BY TunAssumption DEF NoQueue, Queues

\* The initial state (net_interface_init and the static initialisers) is
\* well typed.
LEMMA InitTypeInv == Init => TypeInv
<1> SUFFICES ASSUME Init PROVE TypeInv
  OBVIOUS
<1>1. TunTypeOK
  BY TunAssumption DEF Init, TunInit, TunTypeOK
<1>2. TypeOK
  BY <1>1, ZeroFrameType, QueueTypes DEF Init, TypeOK, Label
<1>3. LocalsOK
  BY DEF Init, LocalsOK, InSend, InBuffer
<1> QED
  BY <1>2, <1>3 DEF TypeInv

\* The steps of net_interface_read keep the types.
LEMMA ReadTypeInv ==
  ASSUME TypeInv, NEW t \in Threads, ReadStep(t) \/ TunReadFails(t)
  PROVE  TypeInv'
<1> USE DEF TypeInv, TypeOK, LocalsOK, InSend, InBuffer, Goto, Alive, Label,
            localVars, bufferVars, tunVars
<1>1. CASE ReadAvailable(t)
  BY <1>1, QueueTypes DEF ReadAvailable, TunTypeOK
<1>2. CASE ReadBusy(t)
  BY <1>2, Zenon DEF ReadBusy, set_busy, TunTypeOK
<1>3. CASE TunRead(t)
  <2>1. CASE fi[t] \in Queues
    <3>1. rx[fi[t]] - 1 \in 0..Backlog
      BY <1>3, <2>1, TunAssumption DEF TunRead, tun_read, TunTypeOK
    <3> QED
      BY <1>3, <2>1, <3>1 DEF TunRead, tun_read, TunTypeOK
  <2>2. CASE fi[t] \notin Queues
    BY <1>3, <2>2, Zenon DEF TunRead, tun_read, TunTypeOK
  <2> QED
    BY <2>1, <2>2
<1>4. CASE ReadDone(t)
  BY <1>4, QueueTypes, Zenon DEF ReadDone, set_busy, TunTypeOK
<1>5. CASE TunReadFails(t)
  BY <1>5 DEF TunReadFails, TunTypeOK
<1> QED
  BY <1>1, <1>2, <1>3, <1>4, <1>5 DEF ReadStep

\* The choices of handle_frame keep the types.
LEMMA HandleTypeInv ==
  ASSUME TypeInv, NEW t \in Threads, HandleStep(t)
  PROVE  TypeInv'
<1> USE DEF TypeInv, TypeOK, TunTypeOK, LocalsOK, InSend, InBuffer, Goto,
            Alive, Label, localVars, bufferVars, tunVars
<1>1. CASE HandleDrops(t) \/ HandleExits(t)
  BY <1>1 DEF HandleDrops, HandleExits
<1>2. ASSUME NEW r \in Requests, HandleSends(t, r)
      PROVE  TypeInv'
  BY <1>2 DEF HandleSends
<1> QED
  BY <1>1, <1>2 DEF HandleStep

\* exit() and net_interface_destroy keep the types.
LEMMA ExitTypeInv ==
  ASSUME TypeInv, NEW t \in Threads, ExitStep(t)
  PROVE  TypeInv'
<1> USE DEF TypeInv, TypeOK, TunTypeOK, LocalsOK, InSend, InBuffer, Goto,
            Alive, Label, localVars, bufferVars, tunVars
<1>1. CASE Exit(t)
  BY <1>1, QueueTypes DEF Exit
<1>2. CASE ExitAgain(t)
  BY <1>2 DEF ExitAgain
<1>3. CASE Destroy(t)
  <2>1. heap' \in [Block -> [live : BOOLEAN, room : Nat]]
    BY <1>3, Zenon DEF Destroy
  <2>2. fi' \in [Threads -> NoQueue..TUN_QUEUES]
    BY <1>3, QueueTypes DEF Destroy
  <2> QED
    BY <1>3, <2>1, <2>2 DEF Destroy
<1>4. CASE Destroyed(t)
  BY <1>4 DEF Destroyed
<1> QED
  BY <1>1, <1>2, <1>3, <1>4 DEF ExitStep

\* The steps of net_interface_send that leave the heap alone keep the types.
LEMMA SendLocalTypeInv ==
  ASSUME TypeInv, NEW t \in Threads,
         \/ SendAvailable(t) \/ HasSize(t) \/ ReallocOfFreed(t)
         \/ StoreBuffer(t) \/ LoadBuffer(t)
         \/ SendBusy(t) \/ TunWrite(t) \/ SendDone(t)
  PROVE  TypeInv'
<1> USE DEF TypeInv, TypeOK, TunTypeOK, LocalsOK, InSend, InBuffer, Goto,
            Alive, Label, localVars, bufferVars, tunVars
<1>1. CASE SendAvailable(t)
  <2>1. shared' \in [Threads -> BOOLEAN]
    BY <1>1, Zenon DEF SendAvailable
  <2>2. PICK q \in Queues \cup {NoQueue} :
          /\ pc' = [pc EXCEPT ![t] = "ensure_has_size"]
          /\ fi' = [fi EXCEPT ![t] = q]
          /\ status' = IF q = NoQueue THEN "aborted" ELSE status
    BY <1>1, Zenon DEF SendAvailable
  <2>3. UNCHANGED <<tunVars, req, ptr, bufferVars>> /\ pc[t] = "send_available"
        /\ status # "aborted"
    BY <1>1 DEF SendAvailable
  <2>4. TypeOK'
    BY <2>1, <2>2, <2>3, QueueTypes
  <2>5. LocalsOK'
    BY <2>2, <2>3, QueueTypes
  <2> QED
    BY <2>4, <2>5
<1>2. CASE HasSize(t)
  BY <1>2 DEF HasSize
<1>3. CASE ReallocOfFreed(t)
  BY <1>3 DEF ReallocOfFreed
<1>4. CASE StoreBuffer(t)
  BY <1>4, RequestTypes DEF StoreBuffer
<1>5. CASE LoadBuffer(t)
  BY <1>5 DEF LoadBuffer
<1>6. CASE SendBusy(t)
  BY <1>6 DEF SendBusy, set_busy
<1>7. CASE TunWrite(t)
  BY <1>7 DEF TunWrite
<1>8. CASE SendDone(t)
  BY <1>8, QueueTypes DEF SendDone, set_busy, Return
<1> QED
  BY <1>1, <1>2, <1>3, <1>4, <1>5, <1>6, <1>7, <1>8

\* Filling in one field of one block leaves frames.
LEMMA FieldTypes ==
  ASSUME NEW f \in [Block -> Frame], NEW b
  PROVE  /\ \A x \in Byte \X Byte :
              [f EXCEPT ![b].ether_type = x] \in [Block -> Frame]
         /\ \A x \in MacAddr : [f EXCEPT ![b].dst_mac = x] \in [Block -> Frame]
         /\ \A x \in Content : [f EXCEPT ![b].payload = x] \in [Block -> Frame]
         /\ [f EXCEPT ![b].ether_type = htons(@)] \in [Block -> Frame]
  BY Zenon DEF Frame, htons

\* What realloc does to the heap when it moves a block.
LEMMA MoveHeapType ==
  ASSUME NEW h \in [Block -> [live : BOOLEAN, room : Nat]],
         NEW b \in Block, NEW c \in Block, NEW size \in Nat
  PROVE  [h EXCEPT ![b] = [live |-> TRUE, room |-> size], ![c].live = FALSE]
           \in [Block -> [live : BOOLEAN, room : Nat]]
<1> DEFINE g == [h EXCEPT ![b] = [live |-> TRUE, room |-> size]]
<1>1. g \in [Block -> [live : BOOLEAN, room : Nat]]
  OBVIOUS
<1> HIDE DEF g
<1>2. [g EXCEPT ![c].live = FALSE] \in [Block -> [live : BOOLEAN, room : Nat]]
  BY <1>1, Zenon
<1> QED
  BY <1>2, Zenon DEF g

\* The steps of net_interface_send that change the heap keep the types.
LEMMA SendHeapTypeInv ==
  ASSUME TypeInv, NEW t \in Threads,
         \/ EnsureHasSize(t)
         \/ CopyType(t) \/ CopyMac(t) \/ CopyPayload(t) \/ Hton(t)
  PROVE  TypeInv'
<1> DEFINE HeapType == [Block -> [live : BOOLEAN, room : Nat]]
<1> USE DEF TypeInv, TypeOK, TunTypeOK, LocalsOK, InSend, InBuffer, Goto,
            Alive, Label, localVars, bufferVars, tunVars
<1>1. CASE EnsureHasSize(t)
  <2>1. PICK b \in Block :
          /\ \/ Calloc(fi[t], TotalSize(req[t]), b)
             \/ ReallocInPlace(fi[t], TotalSize(req[t]), b)
             \/ ReallocMoves(fi[t], TotalSize(req[t]), b)
          /\ ptr' = [ptr EXCEPT ![t] = b]
    BY <1>1, Zenon DEF EnsureHasSize
  <2>2. TotalSize(req[t]) \in Nat /\ fi[t] \in Queues
    BY <1>1, RequestTypes DEF EnsureHasSize
  <2>3. heap' \in HeapType /\ frame' \in [Block -> Frame]
    <3>1. CASE Calloc(fi[t], TotalSize(req[t]), b)
      BY <2>1, <2>2, <3>1, ZeroFrameType DEF Calloc
    <3>2. CASE ReallocInPlace(fi[t], TotalSize(req[t]), b)
      BY <2>1, <2>2, <3>2 DEF ReallocInPlace
    <3>3. CASE ReallocMoves(fi[t], TotalSize(req[t]), b)
      <4>1. buffers[fi[t]] \in Block
        BY <2>2, <3>3 DEF ReallocMoves
      <4>2. frame' \in [Block -> Frame]
        BY <3>3, <4>1 DEF ReallocMoves
      <4>3. heap' \in HeapType
        <5>1. heap' = [heap EXCEPT ![b] = [live |-> TRUE,
                                           room |-> TotalSize(req[t])],
                                   ![buffers[fi[t]]].live = FALSE]
          BY <3>3, Zenon DEF ReallocMoves
        <5>2. heap \in HeapType
          OBVIOUS
        <5> QED
          BY <2>2, <4>1, <5>1, <5>2, MoveHeapType, Zenon
      <4> QED
        BY <4>2, <4>3
    <3> QED
      BY <2>1, <3>1, <3>2, <3>3
  <2> QED
    BY <1>1, <2>1, <2>3 DEF EnsureHasSize
<1>2. CASE CopyType(t)
  <2>1. req[t].protocol \in Byte \X Byte
    BY <1>2, RequestTypes DEF CopyType, Request
  <2>2. frame' \in [Block -> Frame]
    BY <1>2, <2>1, FieldTypes, Zenon DEF CopyType
  <2> QED
    BY <1>2, <2>2 DEF CopyType
<1>3. CASE CopyMac(t)
  <2>1. req[t].dst_mac \in MacAddr
    BY <1>3, RequestTypes DEF CopyMac, Request
  <2>2. frame' \in [Block -> Frame]
    BY <1>3, <2>1, FieldTypes, Zenon DEF CopyMac
  <2> QED
    BY <1>3, <2>2 DEF CopyMac
<1>4. CASE CopyPayload(t)
  <2>1. req[t].content \in Content
    BY <1>4, RequestTypes DEF CopyPayload, Request
  <2>2. frame' \in [Block -> Frame]
    BY <1>4, <2>1, FieldTypes, Zenon DEF CopyPayload
  <2> QED
    BY <1>4, <2>2 DEF CopyPayload
<1>5. CASE Hton(t)
  <2>1. frame' \in [Block -> Frame]
    BY <1>5, FieldTypes, Zenon DEF Hton
  <2> QED
    BY <1>5, <2>1 DEF Hton
<1> QED
  BY <1>1, <1>2, <1>3, <1>4, <1>5

\* Every step keeps the types.
LEMMA NextTypeInv == TypeInv /\ [Next]_vars => TypeInv'
<1> SUFFICES ASSUME TypeInv, [Next]_vars PROVE TypeInv'
  OBVIOUS
<1>1. ASSUME NEW t \in Threads, ThreadStep(t) \/ TunReadFails(t)
      PROVE  TypeInv'
  BY <1>1, ReadTypeInv, HandleTypeInv, SendLocalTypeInv, SendHeapTypeInv,
     ExitTypeInv DEF ThreadStep, SendStep
<1>2. CASE KernelStep
  <2>1. PICK q \in Queues : FrameArrives(q)
    BY <1>2 DEF KernelStep
  <2>2. rx' \in [Queues -> 0..Backlog]
    BY <2>1, TunAssumption DEF FrameArrives, TypeInv, TypeOK, TunTypeOK
  <2> QED
    BY <1>2, <2>1, <2>2 DEF KernelStep, FrameArrives, TypeInv, TypeOK,
       TunTypeOK, LocalsOK, InSend, InBuffer, localVars, bufferVars
<1>3. CASE Terminated \/ UNCHANGED vars
  BY <1>3 DEF Terminated, vars, localVars, bufferVars, tunVars, TypeInv,
     TypeOK, TunTypeOK, LocalsOK, InSend, InBuffer
<1> QED
  BY <1>1, <1>2, <1>3 DEF Next

\* Every state the threads of process_io reach has the declared types, for
\* any number of threads, queues and kinds of frame.
THEOREM TypeCorrect == Spec => []TypeOK
<1>1. TypeInv => TypeOK
  BY DEF TypeInv
<1> QED
  BY InitTypeInv, NextTypeInv, <1>1, PTL DEF Spec

\* The same for the strengthening, which the other proofs rest on.
LEMMA TypeInvariant == Spec => []TypeInv
  BY InitTypeInv, NextTypeInv, PTL DEF Spec

-----------------------------------------------------------------------------
(***************************************************************************)
(* available() finds a queue.  Were every flag set, BusyIsHeld would give  *)
(* each queue a holder, two queues never the same one; the caller holds    *)
(* none, so there would be fewer holders than queues.                      *)
(***************************************************************************)

\* A thread that is about to call available() finds a queue.
LEMMA SomeQueueIsFree ==
  ASSUME TypeInv, BusyIsHeld, NEW t \in Threads, ~ Holds(t)
  PROVE  ~ available(NoQueue)
<1> SUFFICES ASSUME available(NoQueue) PROVE FALSE
  OBVIOUS
<1> DEFINE Others == Threads \ {t}
           holder == [q \in Queues |->
                        CHOOSE u \in Others : Holds(u) /\ fi[u] = q]
<1>1. \A q \in Queues : \E u \in Others : Holds(u) /\ fi[u] = q
  BY DEF BusyIsHeld, available
<1>2. \A q \in Queues : holder[q] \in Others /\ fi[holder[q]] = q
  BY <1>1
<1>3. IsFiniteSet(Others) /\ Cardinality(Others) = Cardinality(Threads) - 1
  BY ThreadsAssumption, FS_RemoveElement
<1>4. IsFiniteSet(Queues) /\ Cardinality(Queues) = TUN_QUEUES
  BY FS_Interval, TunAssumption DEF Queues
<1>5. Cardinality(Threads) \in Nat /\ Cardinality(Threads) <= TUN_QUEUES
  BY ThreadsAssumption, FS_CardinalityType
<1>6. Cardinality(Others) < Cardinality(Queues)
  BY <1>3, <1>4, <1>5, TunAssumption
<1>7. holder \in [Queues -> Others]
  BY <1>2
<1> HIDE DEF holder, Others
<1>8. PICK p \in Queues, q \in Queues : p # q /\ holder[p] = holder[q]
  BY <1>3, <1>4, <1>6, <1>7, FS_PigeonHole
<1> QED
  BY <1>2, <1>8

QueueInv == TypeInv /\ BusyIsHeld /\ status # "aborted"

\* The steps outside available(), set_busy() and their callers' holding
\* sections cannot leave a flag without a holder.
LEMMA OtherStepsKeepBusy ==
  ASSUME TypeInv, BusyIsHeld, NEW t \in Threads,
         ~ Holds(t), ~ Holds(t)',
         UNCHANGED busy_status,
         \A u \in Threads \ {t} : pc'[u] = pc[u] /\ fi'[u] = fi[u]
  PROVE  BusyIsHeld'
  BY DEF BusyIsHeld, Holds

\* A step of a thread keeps QueueInv.
LEMMA ThreadKeepsQueueInv ==
  ASSUME QueueInv, NEW t \in Threads, ThreadStep(t) \/ TunReadFails(t)
  PROVE  BusyIsHeld' /\ status' # "aborted"
<1> USE DEF QueueInv, TypeInv, TypeOK, TunTypeOK, Goto, Alive, localVars,
            bufferVars, tunVars
<1>1. CASE ReadAvailable(t)
  BY <1>1, OtherStepsKeepBusy DEF ReadAvailable, Holds
<1>2. CASE ReadBusy(t)
  BY <1>2 DEF ReadBusy, set_busy, BusyIsHeld, Holds
<1>3. CASE TunRead(t) \/ TunReadFails(t)
  BY <1>3 DEF TunRead, TunReadFails, BusyIsHeld, Holds
<1>4. CASE ReadDone(t)
  BY <1>4 DEF ReadDone, set_busy, BusyIsHeld, Holds
<1>5. CASE HandleDrops(t) \/ HandleExits(t)
  BY <1>5, OtherStepsKeepBusy DEF HandleDrops, HandleExits, Holds
<1>6. ASSUME NEW r \in Requests, HandleSends(t, r)
      PROVE  BusyIsHeld' /\ status' # "aborted"
  BY <1>6, OtherStepsKeepBusy DEF HandleSends, Holds
<1>7. CASE SendAvailable(t)
  <2>1. ~ available(NoQueue)
    BY <1>7, SomeQueueIsFree DEF SendAvailable, Holds
  <2>2. status' = status
    BY <1>7, <2>1 DEF SendAvailable
  <2> QED
    BY <1>7, <2>2, OtherStepsKeepBusy DEF SendAvailable, Holds
<1>8. CASE EnsureHasSize(t) \/ HasSize(t) \/ ReallocOfFreed(t)
           \/ StoreBuffer(t) \/ LoadBuffer(t)
  BY <1>8, OtherStepsKeepBusy DEF EnsureHasSize, HasSize, ReallocOfFreed,
     StoreBuffer, LoadBuffer, Holds
<1>9. CASE CopyType(t) \/ CopyMac(t) \/ CopyPayload(t) \/ Hton(t)
  BY <1>9, OtherStepsKeepBusy DEF CopyType, CopyMac, CopyPayload, Hton, Holds
<1>10. CASE SendBusy(t)
  BY <1>10 DEF SendBusy, set_busy, BusyIsHeld, Holds
<1>11. CASE TunWrite(t)
  BY <1>11 DEF TunWrite, BusyIsHeld, Holds
<1>12. CASE SendDone(t)
  BY <1>12 DEF SendDone, set_busy, BusyIsHeld, Holds, Return
<1>13. CASE ExitStep(t)
  BY <1>13, OtherStepsKeepBusy DEF ExitStep, Exit, ExitAgain, Destroy,
     Destroyed, Holds
<1> QED
  BY <1>1, <1>2, <1>3, <1>4, <1>5, <1>6, <1>7, <1>8, <1>9, <1>10, <1>11,
     <1>12, <1>13 DEF ThreadStep, ReadStep, HandleStep, SendStep

\* The invariant holds in every state.
LEMMA QueueInvariant == Spec => []QueueInv
<1>1. Init => QueueInv
  BY InitTypeInv DEF Init, TunInit, QueueInv, BusyIsHeld
<1>2. QueueInv /\ [Next]_vars => QueueInv'
  <2> SUFFICES ASSUME QueueInv, [Next]_vars PROVE QueueInv'
    OBVIOUS
  <2>1. TypeInv'
    BY NextTypeInv DEF QueueInv
  <2>2. ASSUME NEW t \in Threads, ThreadStep(t) \/ TunReadFails(t)
        PROVE  QueueInv'
    BY <2>1, <2>2, ThreadKeepsQueueInv DEF QueueInv
  <2>3. CASE KernelStep \/ Terminated \/ UNCHANGED vars
    BY <2>1, <2>3 DEF KernelStep, FrameArrives, Terminated, QueueInv,
       BusyIsHeld, Holds, vars, tunVars, localVars, bufferVars
  <2> QED
    BY <2>2, <2>3 DEF Next
<1> QED
  BY <1>1, <1>2, PTL DEF Spec

\* No busy flag is left behind by the unlocked gap between available() and
\* set_busy(), whoever shares a queue with whom.
THEOREM BusyFlagsAreHeld == Spec => []BusyIsHeld
<1>1. QueueInv => BusyIsHeld
  BY DEF QueueInv
<1> QED
  BY QueueInvariant, <1>1, PTL

\* With no more threads than queues, no call of available() fails: the
\* abort() of net_interface_send and the scan past the end of busy_status
\* are never reached.
THEOREM AvailableSucceeds == Spec => []AvailableNeverFails
<1>1. QueueInv => AvailableNeverFails
  BY SomeQueueIsFree DEF QueueInv, AvailableNeverFails, Holds
<1> QED
  BY QueueInvariant, <1>1, PTL

\* Init aside, all threads come to wait by the call of available() of the last
\* one: it is given the first queue, unless that is held, by a thread that
\* waits on it already.
LEMMA ThreadKeepsReader ==
  ASSUME QueueInv, FirstQueueHasReader, NEW t \in Threads,
         ThreadStep(t) \/ TunReadFails(t)
  PROVE  FirstQueueHasReader'
<1> SUFFICES ASSUME \A u \in Threads : Waiting(u)'
             PROVE  \E u \in Threads : fi'[u] = 0
  BY DEF FirstQueueHasReader
<1> USE DEF QueueInv, TypeInv, TypeOK, Goto, localVars, bufferVars
<1>1. ReadAvailable(t) \/ ReadBusy(t) \/ UNCHANGED <<pc, fi>>
  BY DEF Waiting, ThreadStep, ReadStep, HandleStep, SendStep, ExitStep,
     TunRead, TunReadFails, ReadDone, HandleDrops, HandleExits, HandleSends,
     SendAvailable,
     EnsureHasSize, HasSize, ReallocOfFreed, StoreBuffer, LoadBuffer, CopyType,
     CopyMac, CopyPayload, Hton, SendBusy, TunWrite, SendDone, Return, Exit,
     ExitAgain, Destroy, Destroyed
<1>2. CASE ReadAvailable(t)
  <2>1. PICK q \in Queues \cup {NoQueue} :
          /\ available(q)
          /\ pc' = [pc EXCEPT ![t] = IF q = NoQueue THEN "handle_frame"
                                                    ELSE "read_busy"]
          /\ fi' = [fi EXCEPT ![t] = q]
    BY <1>2 DEF ReadAvailable
  <2>2. q \in Queues /\ pc[t] = "read_available"
    BY <1>2, <2>1 DEF Waiting, ReadAvailable
  <2>3. CASE q = 0
    BY <2>1, <2>3
  <2>4. CASE q # 0
    <3>1. busy_status[0]
      BY <2>1, <2>2, <2>4, QueueTypes DEF available, Queues
    <3>2. PICK u \in Threads : Holds(u) /\ fi[u] = 0
      BY <3>1, QueueTypes DEF BusyIsHeld
    <3> QED
      BY <2>1, <2>2, <3>2 DEF Holds
  <2> QED
    BY <2>3, <2>4
<1>3. CASE ReadBusy(t)
  BY <1>3 DEF ReadBusy, Waiting, FirstQueueHasReader
<1>4. CASE UNCHANGED <<pc, fi>>
  BY <1>4 DEF Waiting, FirstQueueHasReader
<1> QED
  BY <1>1, <1>2, <1>3, <1>4

\* However many threads and queues there are, when all threads wait for frames
\* one of them waits on the first queue.
THEOREM FirstQueueIsServed == Spec => []FirstQueueHasReader
<1>1. Init => FirstQueueHasReader
  BY ThreadsAssumption DEF Init, FirstQueueHasReader, Waiting
<1>2. QueueInv /\ FirstQueueHasReader /\ [Next]_vars => FirstQueueHasReader'
  <2> SUFFICES ASSUME QueueInv, FirstQueueHasReader, [Next]_vars
               PROVE  FirstQueueHasReader'
    OBVIOUS
  <2>1. ASSUME NEW t \in Threads, ThreadStep(t) \/ TunReadFails(t)
        PROVE  FirstQueueHasReader'
    BY <2>1, ThreadKeepsReader
  <2>2. CASE KernelStep \/ Terminated \/ UNCHANGED vars
    BY <2>2 DEF KernelStep, Terminated, FirstQueueHasReader, Waiting, vars,
       localVars
  <2> QED
    BY <2>1, <2>2 DEF Next
<1> QED
  BY <1>1, <1>2, QueueInvariant, PTL DEF Spec
=============================================================================
