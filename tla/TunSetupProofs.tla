-------------------------- MODULE TunSetupProofs --------------------------
(***************************************************************************)
(* tun_alloc opens all queues or none, and main only goes on with all of   *)
(* them, for every number of queues.                                       *)
(***************************************************************************)
EXTENDS TunSetup, TLAPS

\* The queues below j.
Below(j) == {q \in Queues : q < j}

\* Which files are open at each place: in the loop of tun_alloc the queues
\* below i, the new file included once it is open; on the error path the queues
\* up to i; after it all or none, and the name tells which.
FilesInv ==
  /\ pc = "open" => i >= 0 /\ files = Below(i) /\ ~ named
  /\ pc = "ioctl" => i \in Queues /\ files = Below(i) \cup {-1} /\ ~ named
  /\ pc = "close" => i < TUN_QUEUES /\ files = Below(i + 1) /\ ~ named
  /\ pc \in {"alloc_done", "up"} => files = IF named THEN Queues ELSE {}
  /\ pc \in {"route", "main"} => files = Queues
  /\ status = "running" => pc = "main"

SetupInv == TypeOK /\ FilesInv

\* Before the first open() no queue is open.
LEMMA InitSetupInv == Init => SetupInv
<1> SUFFICES ASSUME Init PROVE SetupInv
  OBVIOUS
<1>1. TypeOK
  <2>1. 0 \in -1..TUN_QUEUES
    BY SetupAssumption
  <2> QED
    BY <2>1, Zenon DEF Init, TypeOK
<1>2. files = Below(0)
  BY SetupAssumption DEF Init, Below, Queues
<1> QED
  BY <1>1, <1>2 DEF Init, SetupInv, FilesInv

\* A step of the loop of tun_alloc, or out of it.
LEMMA OpenKeepsInv ==
  ASSUME SetupInv,
         Open \/ OpenFails \/ Ioctl \/ IoctlFails \/ Allocated
  PROVE  SetupInv'
<1> USE SetupAssumption DEF SetupInv, TypeOK, FilesInv, Goto, Below, Queues
<1>1. CASE Open
  BY <1>1 DEF Open
<1>2. CASE OpenFails
  BY <1>2 DEF OpenFails
<1>3. CASE Ioctl
  BY <1>3 DEF Ioctl
<1>4. CASE IoctlFails
  BY <1>4 DEF IoctlFails
<1>5. CASE Allocated
  <2>1. Below(i) = Queues
    BY <1>5 DEF Allocated
  <2>2. TypeOK'
    BY <1>5, Zenon DEF Allocated
  <2> QED
    BY <1>5, <2>1, <2>2, Zenon DEF Allocated
<1> QED
  BY <1>1, <1>2, <1>3, <1>4, <1>5

\* A step of the error path of tun_alloc, or of tun_init.
LEMMA FinishKeepsInv ==
  ASSUME SetupInv,
         \/ Close \/ ReturnErr \/ AllocFailed \/ AllocSucceeded
         \/ InterfaceUp \/ InterfaceNotUp \/ Route \/ RouteFails \/ SetUp
  PROVE  SetupInv'
<1> USE SetupAssumption DEF SetupInv, TypeOK, FilesInv, Goto, Below, Queues
<1>1. CASE Close
  BY <1>1 DEF Close, MoreToClose
<1>2. CASE ReturnErr
  <2>1. returned' \in {0, -1}
    BY <1>2 DEF ReturnErr
  <2> QED
    BY <1>2, <2>1 DEF ReturnErr, MoreToClose
<1>3. CASE AllocFailed \/ InterfaceNotUp \/ RouteFails
  <2>1. status' = "aborted" /\ UNCHANGED <<pc, i, err, files, named, returned>>
    BY <1>3, Zenon DEF AllocFailed, InterfaceNotUp, RouteFails, Abort
  <2>2. TypeOK'
    BY <2>1, Zenon
  <2> QED
    BY <2>1, <2>2, Zenon
<1>4. CASE AllocSucceeded
  BY <1>4 DEF AllocSucceeded
<1>5. CASE InterfaceUp
  BY <1>5 DEF InterfaceUp
<1>6. CASE Route
  BY <1>6 DEF Route
<1>7. CASE SetUp
  BY <1>7 DEF SetUp, vars
<1> QED
  BY <1>1, <1>2, <1>3, <1>4, <1>5, <1>6, <1>7

\* The invariant holds in every state.
LEMMA SetupInvariant == Spec => []SetupInv
<1>1. SetupInv /\ [Next]_vars => SetupInv'
  <2> SUFFICES ASSUME SetupInv, [Next]_vars PROVE SetupInv'
    OBVIOUS
  <2>1. CASE UNCHANGED vars
    BY <2>1 DEF vars, SetupInv, TypeOK, FilesInv, Below
  <2> QED
    BY <2>1, OpenKeepsInv, FinishKeepsInv DEF Next
<1> QED
  BY InitSetupInv, <1>1, PTL DEF Spec

\* The variables of tun_alloc keep their ranges: no loop runs past an end of
\* the table of files.
THEOREM SetupTypeCorrect == Spec => []TypeOK
<1>1. SetupInv => TypeOK
  BY DEF SetupInv
<1> QED
  BY SetupInvariant, <1>1, PTL

\* A tun_alloc that fails at any call has closed every queue.
THEOREM AllocLeavesAllOrNone == Spec => []AllOrNothing
<1>1. SetupInv => AllOrNothing
  BY DEF SetupInv, FilesInv, AllOrNothing
<1> QED
  BY SetupInvariant, <1>1, PTL

\* main goes on with every queue open, although tun_alloc may return 0 when
\* the first open() fails: without a name the interface cannot be brought up.
THEOREM MainHasAllQueues == Spec => []RunsWithAllQueues
<1>1. SetupInv => RunsWithAllQueues
  BY DEF SetupInv, FilesInv, RunsWithAllQueues
<1> QED
  BY SetupInvariant, <1>1, PTL
=============================================================================
