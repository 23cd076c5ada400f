-------------------------- MODULE NetBufferProofs --------------------------
(***************************************************************************)
(* The send buffers of NetInterface: ensure_has_size keeps its promise to  *)
(* every sender, and a sender that shares its queue with no other writes   *)
(* exactly the frame it composed.  Proved for every number of threads and  *)
(* queues and every set of frame sizes and contents.                       *)
(***************************************************************************)
EXTENDS NetInterfaceProofs

Ensured(t) ==
  InBuffer(t) /\ pc[t] \notin {"ensure_has_size", "store_buffer"}

Loaded(t) == Ensured(t) /\ pc[t] # "load_buffer"

\* mut_buffer is held exactly while a result of realloc waits to be stored.
MutexInv == \A t \in Threads : pc[t] = "store_buffer" <=> mut_buffer = t

\* The blocks of a queue are named for sizes up to the recorded one, so the
\* next, larger block is a new one.
BlockInv ==
  \A q \in Queues :
    /\ buffers[q] = NULL <=> buffers_size[q] = 0
    /\ buffers[q] # NULL => /\ buffers[q][1] = q
                            /\ buffers[q][2] <= buffers_size[q]

\* What ensure_has_size is about to store is a larger block of its queue.
StoreInv ==
  \A t \in Threads : pc[t] = "store_buffer" =>
    /\ ptr[t] \in Block
    /\ ptr[t][1] = fi[t]
    /\ ptr[t][2] <= TotalSize(req[t])
    /\ buffers_size[fi[t]] <= TotalSize(req[t])
    /\ status = "running" => /\ heap[ptr[t]].live
                             /\ heap[ptr[t]].room = TotalSize(req[t])

\* A sender only writes to blocks of its own queue.
LoadedInv ==
  \A t \in Threads : Loaded(t) => ptr[t] \in Block /\ ptr[t][1] = fi[t]

\* Two senders in one buffer both know it.
SharedInv ==
  \A t, u \in Threads :
    t # u /\ InBuffer(t) /\ InBuffer(u) /\ fi[t] = fi[u]
      => shared[t] /\ shared[u]

\* What t has copied to its block so far, and that the block is its queue's.
Copied(t) ==
  /\ ptr[t] = buffers[fi[t]]
  /\ pc[t] \in {"copy_mac", "copy_payload", "hton"}
       => frame[ptr[t]].ether_type = req[t].protocol
  /\ pc[t] \in {"copy_payload", "hton", "send_busy", "tun_write"}
       => frame[ptr[t]].dst_mac = req[t].dst_mac
  /\ pc[t] \in {"hton", "send_busy", "tun_write"}
       => frame[ptr[t]].payload = req[t].content
  /\ pc[t] \in {"send_busy", "tun_write"}
       => frame[ptr[t]].ether_type = htons(req[t].protocol)

\* A sender alone in its buffer still writes to the queue's present block,
\* which holds what it has copied so far.
FrameInv == \A t \in Threads : Loaded(t) /\ ~ shared[t] => Copied(t)

\* What ensure_has_size maintains, whoever shares what with whom.
GrowthInv == MutexInv /\ BlockInv /\ StoreInv /\ EnsuredSize /\ SizeIsReal

\* net_interface_destroy only runs once the process is in exit().
ExitInv == \A t \in Threads : pc[t] = "destroy" => status # "running"

\* What the copies rest on.
CopyInv == LoadedInv /\ SharedInv /\ FrameInv

BufferInv == TypeInv /\ GrowthInv /\ CopyInv /\ ExitInv

\* What of the state of u, a thread that takes no step, BufferInv reads.
Still(u) == /\ pc'[u] = pc[u] /\ fi'[u] = fi[u] /\ req'[u] = req[u]
            /\ ptr'[u] = ptr[u] /\ shared'[u] = shared[u]

-----------------------------------------------------------------------------
\* The value of a free mut_buffer is not a thread.
LEMMA NoThreadIsNone == NoThread \notin Threads
  BY ThreadsAssumption

\* A buffer that was never allocated is not a block.
LEMMA NullIsNoBlock == NULL \notin Block
  BY DataAssumption, RequestTypes DEF Block

\* While the process is alive, a sender in a buffer has its arguments and a
\* queue.
LEMMA SenderLocals ==
  ASSUME TypeInv, Alive, NEW u \in Threads, InBuffer(u)
  PROVE  fi[u] \in Queues /\ req[u] \in Requests
<1>1. status # "aborted"
  BY DEF Alive
<1> QED
  BY <1>1, Zenon DEF TypeInv, LocalsOK, InSend

\* A thread that stays where it is keeps its standing in the buffer.
LEMMA SamePlace ==
  ASSUME NEW u \in Threads, pc'[u] = pc[u]
  PROVE  /\ InBuffer(u)' <=> InBuffer(u)
         /\ Ensured(u)' <=> Ensured(u)
         /\ Loaded(u)' <=> Loaded(u)
  BY DEF InBuffer, Ensured, Loaded

\* Where a thread that is loaded, ensured or in a buffer is not.
LEMMA Places ==
  ASSUME NEW u \in Threads
  PROVE  /\ Loaded(u) => Ensured(u)
         /\ Ensured(u) => InBuffer(u)
         /\ InBuffer(u) <=> Ensured(u) \/ pc[u] \in {"ensure_has_size",
                                                     "store_buffer"}
         /\ Ensured(u) => pc[u] \notin {"ensure_has_size", "store_buffer"}
  BY DEF InBuffer, Ensured, Loaded

\* A step that leaves the buffers and their blocks alone keeps what
\* ensure_has_size maintains, if a sender it lets through has its room.
LEMMA GrowthKept ==
  ASSUME GrowthInv,
         UNCHANGED <<buffers, buffers_size, mut_buffer, heap, fi, req>>,
         status' = "running" => status = "running",
         \A u \in Threads : /\ pc'[u] = "store_buffer" <=> pc[u] = "store_buffer"
                            /\ pc[u] = "store_buffer" => ptr'[u] = ptr[u]
                            /\ Ensured(u)' => \/ Ensured(u)
                                              \/ buffers_size[fi[u]] >= TotalSize(req[u])
  PROVE  GrowthInv'
<1>1. MutexInv /\ BlockInv /\ StoreInv /\ EnsuredSize /\ SizeIsReal
  BY DEF GrowthInv
<1>2. MutexInv'
  BY <1>1 DEF MutexInv
<1>3. BlockInv'
  BY <1>1 DEF BlockInv
<1>4. StoreInv'
  BY <1>1 DEF StoreInv
<1>5. EnsuredSize'
  BY <1>1 DEF EnsuredSize, Ensured
<1>6. SizeIsReal'
  BY <1>1 DEF SizeIsReal
<1> QED
  BY <1>2, <1>3, <1>4, <1>5, <1>6 DEF GrowthInv

-----------------------------------------------------------------------------
\* A step of a thread that is in no buffer, before or after, keeps the
\* invariant if it leaves the buffers alone (or the process is exiting).
LEMMA OutsideStep ==
  ASSUME BufferInv, TypeInv', NEW t \in Threads,
         ~ InBuffer(t), ~ InBuffer(t)', pc'[t] # "destroy" \/ status' # "running",
         UNCHANGED <<buffers, buffers_size, mut_buffer, frame>>,
         status' = "running" => status = "running" /\ UNCHANGED heap,
         \A u \in Threads \ {t} : Still(u)
  PROVE  BufferInv'
<1>1. \A u \in Threads \ {t} : /\ InBuffer(u)' <=> InBuffer(u)
                               /\ Ensured(u)' <=> Ensured(u)
                               /\ Loaded(u)' <=> Loaded(u)
  BY SamePlace DEF Still
<1>2. /\ ~ Loaded(t) /\ ~ Loaded(t)' /\ ~ Ensured(t) /\ ~ Ensured(t)'
      /\ pc[t] # "store_buffer" /\ pc'[t] # "store_buffer"
  BY DEF Loaded, Ensured, InBuffer
<1>3. MutexInv'
  BY <1>2 DEF BufferInv, GrowthInv, MutexInv, Still
<1>4. BlockInv'
  BY DEF BufferInv, GrowthInv, BlockInv
<1>5. StoreInv'
  BY <1>2 DEF BufferInv, GrowthInv, StoreInv, Still
<1>6. EnsuredSize'
  BY <1>1, <1>2 DEF BufferInv, GrowthInv, EnsuredSize, Ensured, Still
<1>7. SizeIsReal'
  <2>1. \A u \in Threads : mut_buffer = u => fi'[u] = fi[u]
    BY <1>2 DEF BufferInv, GrowthInv, MutexInv, Still
  <2> QED
    BY <2>1 DEF BufferInv, GrowthInv, SizeIsReal
<1>8. LoadedInv'
  BY <1>1, <1>2 DEF BufferInv, CopyInv, LoadedInv, Still
<1>9. SharedInv'
  BY <1>1 DEF BufferInv, CopyInv, SharedInv, Still
<1>10. FrameInv'
  BY <1>1, <1>2 DEF BufferInv, CopyInv, FrameInv, Copied, Still
<1>11. ExitInv'
  BY DEF BufferInv, ExitInv, Still
<1> QED
  BY <1>3, <1>4, <1>5, <1>6, <1>7, <1>8, <1>9, <1>10, <1>11
     DEF BufferInv, GrowthInv, CopyInv

\* Reading, handling and exiting happen outside the buffers.
LEMMA OutsideActions ==
  ASSUME BufferInv, NEW t \in Threads,
         ReadStep(t) \/ TunReadFails(t) \/ HandleStep(t) \/ SendDone(t)
           \/ ExitStep(t)
  PROVE  BufferInv'
<1>0. TypeInv /\ TypeInv'
  BY ReadTypeInv, HandleTypeInv, SendLocalTypeInv, ExitTypeInv DEF BufferInv
<1>1. /\ pc \in [Threads -> Label]
      /\ fi \in [Threads -> NoQueue..TUN_QUEUES]
      /\ req \in [Threads -> Requests \cup {NoRequest}]
      /\ ptr \in [Threads -> Block \cup {NULL}]
      /\ shared \in [Threads -> BOOLEAN]
  BY <1>0 DEF TypeInv, TypeOK
<1> USE <1>1 DEF Goto, InBuffer, Still, localVars, bufferVars
<1>2. CASE ReadAvailable(t)
  BY <1>0, <1>2, OutsideStep DEF ReadAvailable
<1>3. CASE ReadBusy(t) \/ TunRead(t)
  BY <1>0, <1>3, OutsideStep, Zenon DEF ReadBusy, TunRead
<1>4. CASE ReadDone(t) \/ TunReadFails(t)
  BY <1>0, <1>4, OutsideStep, Zenon DEF ReadDone, TunReadFails
<1>5. CASE HandleDrops(t) \/ HandleExits(t)
  BY <1>0, <1>5, OutsideStep DEF HandleDrops, HandleExits
<1>6. ASSUME NEW r \in Requests, HandleSends(t, r)
      PROVE  BufferInv'
  BY <1>0, <1>6, OutsideStep, Zenon DEF HandleSends
<1>7. CASE SendDone(t)
  BY <1>0, <1>7, OutsideStep, Zenon DEF SendDone, Return
<1>8. CASE Exit(t)
  BY <1>0, <1>8, OutsideStep DEF Exit
<1>9. CASE ExitAgain(t) \/ Destroyed(t)
  <2>1. /\ status' = "ended" /\ pc[t] \in {"exit", "destroy"}
        /\ UNCHANGED <<pc, fi, req, ptr, shared, buffers, buffers_size,
                       mut_buffer, frame>>
    BY <1>9 DEF ExitAgain, Destroyed
  <2> QED
    BY <1>0, <2>1, OutsideStep
<1>10. CASE Destroy(t)
  <2>1. status # "running"
    BY <1>10 DEF Destroy, BufferInv, ExitInv
  <2> QED
    BY <1>0, <1>10, <2>1, OutsideStep DEF Destroy
<1> QED
  BY <1>2, <1>3, <1>4, <1>5, <1>6, <1>7, <1>8, <1>9, <1>10
     DEF ReadStep, HandleStep, ExitStep

\* A sender that picks a queue finds out who is already in its buffer.
LEMMA SendAvailableStep ==
  ASSUME BufferInv, NEW t \in Threads, SendAvailable(t)
  PROVE  BufferInv'
<1>0. TypeInv /\ TypeInv'
  BY SendLocalTypeInv DEF BufferInv
<1>1. PICK q \in Queues \cup {NoQueue} :
        /\ fi' = [fi EXCEPT ![t] = q]
        /\ shared' = [u \in Threads |->
                        IF u = t
                        THEN {v \in Threads \ {t} : InBuffer(v) /\ fi[v] = q} # {}
                        ELSE \/ shared[u]
                             \/ u \in {v \in Threads \ {t} :
                                        InBuffer(v) /\ fi[v] = q}]
  BY Zenon DEF SendAvailable
<1>2. /\ pc[t] = "send_available"
      /\ pc' = [pc EXCEPT ![t] = "ensure_has_size"]
      /\ UNCHANGED <<req, ptr, bufferVars>>
      /\ status' = "running" => status = "running"
  BY DEF SendAvailable, Goto
<1>3. \A u \in Threads \ {t} : /\ pc'[u] = pc[u] /\ fi'[u] = fi[u]
                               /\ shared[u] => shared'[u]
  BY <1>0, <1>1, <1>2 DEF TypeInv, TypeOK
<1>4. pc'[t] = "ensure_has_size" /\ fi'[t] = q
  BY <1>0, <1>1, <1>2 DEF TypeInv, TypeOK
<1>5. \A u \in Threads \ {t} : InBuffer(u) /\ fi[u] = q => shared'[u] /\ shared'[t]
  BY <1>1, Zenon
<1>6. \A u \in Threads \ {t} : /\ InBuffer(u)' <=> InBuffer(u)
                               /\ Ensured(u)' <=> Ensured(u)
                               /\ Loaded(u)' <=> Loaded(u)
  BY <1>3, SamePlace
<1>7. ~ Loaded(t)' /\ ~ Ensured(t)'
  BY <1>4 DEF Loaded, Ensured
<1>8. UNCHANGED <<req, ptr, buffers, buffers_size, mut_buffer, heap, frame>>
  BY <1>2 DEF bufferVars
<1>9. MutexInv' /\ BlockInv'
  BY <1>2, <1>3, <1>4, <1>8 DEF BufferInv, GrowthInv, MutexInv, BlockInv
<1>10. StoreInv'
  BY <1>2, <1>3, <1>4, <1>8 DEF BufferInv, GrowthInv, StoreInv
<1>11. EnsuredSize'
  BY <1>3, <1>6, <1>7, <1>8 DEF BufferInv, GrowthInv, EnsuredSize, Ensured
<1>12. SizeIsReal'
  <2>1. \A u \in Threads : mut_buffer = u => fi'[u] = fi[u]
    BY <1>2, <1>3 DEF BufferInv, GrowthInv, MutexInv
  <2> QED
    BY <1>2, <1>8, <2>1 DEF BufferInv, GrowthInv, SizeIsReal
<1>13. LoadedInv'
  BY <1>3, <1>6, <1>7, <1>8 DEF BufferInv, CopyInv, LoadedInv
<1>14. SharedInv'
  BY <1>3, <1>4, <1>5, <1>6 DEF BufferInv, CopyInv, SharedInv
<1>15. FrameInv'
  BY <1>3, <1>6, <1>7, <1>8 DEF BufferInv, CopyInv, FrameInv, Copied
<1>16. ExitInv'
  BY <1>2, <1>3, <1>4 DEF BufferInv, ExitInv
<1> QED
  BY <1>0, <1>9, <1>10, <1>11, <1>12, <1>13, <1>14, <1>15, <1>16
     DEF BufferInv, GrowthInv, CopyInv

\* A step inside the buffer that changes nothing but the thread's own place
\* and, in load_buffer, its pointer.
LEMMA InsideActions ==
  ASSUME BufferInv, NEW t \in Threads,
         \/ HasSize(t) \/ ReallocOfFreed(t) \/ LoadBuffer(t)
         \/ SendBusy(t) \/ TunWrite(t)
  PROVE  BufferInv'
<1>0. TypeInv /\ TypeInv'
  BY SendLocalTypeInv DEF BufferInv
<1>1. /\ pc \in [Threads -> Label] /\ ptr \in [Threads -> Block \cup {NULL}]
      /\ buffers \in [Queues -> Block \cup {NULL}]
      /\ buffers_size \in [Queues -> Nat]
  BY <1>0 DEF TypeInv, TypeOK
<1>2. InBuffer(t) /\ Alive => fi[t] \in Queues /\ req[t] \in Requests
  BY <1>0, SenderLocals
<1>3. /\ UNCHANGED <<buffers, buffers_size, mut_buffer, heap, frame>>
      /\ UNCHANGED <<fi, req, shared>>
      /\ status' = "running" => status = "running"
      /\ Alive
  BY Zenon DEF HasSize, ReallocOfFreed, LoadBuffer, SendBusy, TunWrite, Goto,
     Alive, localVars, bufferVars
<1>4. \/ /\ HasSize(t) /\ pc[t] = "ensure_has_size"
         /\ pc' = [pc EXCEPT ![t] = "load_buffer"] /\ ptr' = ptr
      \/ pc[t] = "ensure_has_size" /\ pc' = pc /\ ptr' = ptr
      \/ /\ LoadBuffer(t) /\ pc[t] = "load_buffer"
         /\ pc' = [pc EXCEPT ![t] = "copy_type"]
         /\ ptr' = [ptr EXCEPT ![t] = buffers[fi[t]]]
      \/ /\ pc[t] = "send_busy"
         /\ pc' = [pc EXCEPT ![t] = "tun_write"] /\ ptr' = ptr
      \/ /\ pc[t] = "tun_write"
         /\ pc' = [pc EXCEPT ![t] = "send_done"] /\ ptr' = ptr
  BY Zenon DEF HasSize, ReallocOfFreed, LoadBuffer, SendBusy, TunWrite, Goto,
     localVars
<1>5. \A u \in Threads \ {t} : pc'[u] = pc[u] /\ ptr'[u] = ptr[u]
  BY <1>1, <1>4
<1>6. \/ /\ HasSize(t) /\ pc[t] = "ensure_has_size"
         /\ pc'[t] = "load_buffer" /\ ptr'[t] = ptr[t]
      \/ pc[t] = "ensure_has_size" /\ pc'[t] = pc[t] /\ ptr'[t] = ptr[t]
      \/ /\ LoadBuffer(t) /\ pc[t] = "load_buffer" /\ pc'[t] = "copy_type"
         /\ ptr'[t] = buffers[fi[t]]
      \/ pc[t] = "send_busy" /\ pc'[t] = "tun_write" /\ ptr'[t] = ptr[t]
      \/ pc[t] = "tun_write" /\ pc'[t] = "send_done" /\ ptr'[t] = ptr[t]
  BY <1>1, <1>4
<1>7. /\ InBuffer(t)
      /\ pc[t] # "store_buffer" /\ pc'[t] # "store_buffer"
      /\ pc'[t] # "destroy"
      /\ Loaded(t)' => \/ /\ Loaded(t) /\ ptr'[t] = ptr[t]
                          /\ pc[t] = "send_busy" /\ pc'[t] = "tun_write"
                       \/ LoadBuffer(t)
      /\ Ensured(t)' => Ensured(t) \/ HasSize(t)
  BY <1>6 DEF Loaded, Ensured, InBuffer
<1>8. HasSize(t) => buffers_size[fi[t]] >= TotalSize(req[t])
  <2> SUFFICES ASSUME HasSize(t)
               PROVE  buffers_size[fi[t]] >= TotalSize(req[t])
    OBVIOUS
  <2>1. fi[t] \in Queues /\ req[t] \in Requests
    BY <1>2, <1>3, <1>7
  <2>2. buffers_size[fi[t]] \in Nat /\ TotalSize(req[t]) \in Nat
    BY <1>1, <2>1, RequestTypes
  <2> QED
    BY <2>2 DEF HasSize, TooSmall
<1>9. GrowthInv'
  <2>1. \A u \in Threads :
          /\ pc'[u] = "store_buffer" <=> pc[u] = "store_buffer"
          /\ pc[u] = "store_buffer" => ptr'[u] = ptr[u]
          /\ Ensured(u)' => \/ Ensured(u)
                            \/ buffers_size[fi[u]] >= TotalSize(req[u])
    BY <1>5, <1>7, <1>8, SamePlace
  <2> QED
    BY <1>3, <2>1, GrowthKept DEF BufferInv
<1>10. LoadBuffer(t) => /\ ptr'[t] = buffers[fi[t]] /\ pc'[t] = "copy_type"
                       /\ ptr'[t] \in Block /\ ptr'[t][1] = fi[t]
  <2> SUFFICES ASSUME LoadBuffer(t)
               PROVE  /\ ptr'[t] = buffers[fi[t]] /\ pc'[t] = "copy_type"
                      /\ ptr'[t] \in Block /\ ptr'[t][1] = fi[t]
    OBVIOUS
  <2>1. fi[t] \in Queues /\ req[t] \in Requests /\ pc[t] = "load_buffer"
    BY <1>2, <1>3, <1>7 DEF LoadBuffer, Goto
  <2>2. /\ buffers_size[fi[t]] >= TotalSize(req[t])
        /\ buffers_size[fi[t]] \in Nat
    BY <1>1, <1>7, <2>1 DEF BufferInv, GrowthInv, EnsuredSize
  <2>3. buffers_size[fi[t]] # 0
    BY <2>1, <2>2, RequestTypes
  <2>4. buffers[fi[t]] \in Block /\ buffers[fi[t]][1] = fi[t]
    BY <1>1, <2>1, <2>3 DEF BufferInv, GrowthInv, BlockInv
  <2> QED
    BY <1>6, <2>1, <2>4
<1>11. LoadedInv'
  BY <1>3, <1>5, <1>7, <1>10, SamePlace DEF BufferInv, CopyInv, LoadedInv
<1>12. SharedInv'
  <2>1. \A u \in Threads : InBuffer(u)' => InBuffer(u)
    BY <1>5, <1>7, SamePlace
  <2> QED
    BY <1>3, <2>1 DEF BufferInv, CopyInv, SharedInv
<1>13. FrameInv'
  <2>1. FrameInv
    BY DEF BufferInv, CopyInv
  <2>2. ASSUME NEW u \in Threads, Loaded(u)', ~ shared[u]
        PROVE  Copied(u)'
    <3>1. CASE u # t
      BY <1>3, <1>5, <2>1, <2>2, <3>1, SamePlace DEF FrameInv, Copied
    <3>2. CASE u = t /\ LoadBuffer(t)
      BY <1>3, <1>10, <3>2 DEF Copied
    <3>3. CASE /\ u = t /\ Loaded(t) /\ ptr'[t] = ptr[t]
               /\ pc[t] = "send_busy" /\ pc'[t] = "tun_write"
      BY <1>3, <2>1, <2>2, <3>3 DEF FrameInv, Copied
    <3> QED
      BY <1>7, <2>2, <3>1, <3>2, <3>3
  <2> QED
    BY <1>3, <2>2 DEF FrameInv
<1>14. ExitInv'
  BY <1>3, <1>5, <1>7 DEF BufferInv, ExitInv
<1> QED
  BY <1>0, <1>9, <1>11, <1>12, <1>13, <1>14 DEF BufferInv, CopyInv

\* A copy into the block a sender loaded only touches that block, and so no
\* sender of another queue.
LEMMA CopyActions ==
  ASSUME BufferInv, NEW t \in Threads,
         CopyType(t) \/ CopyMac(t) \/ CopyPayload(t) \/ Hton(t)
  PROVE  BufferInv'
<1>0. TypeInv /\ TypeInv'
  BY SendHeapTypeInv DEF BufferInv
<1>1. /\ pc \in [Threads -> Label] /\ frame \in [Block -> Frame]
      /\ MutexInv /\ LoadedInv /\ SharedInv /\ FrameInv
  BY <1>0 DEF TypeInv, TypeOK, BufferInv, GrowthInv, CopyInv
<1>2. /\ UNCHANGED <<buffers, buffers_size, mut_buffer, heap, status>>
      /\ UNCHANGED <<fi, req, ptr, shared>>
  BY Zenon DEF CopyType, CopyMac, CopyPayload, Hton, localVars
<1>3. /\ \A u \in Threads \ {t} : pc'[u] = pc[u]
      /\ \/ pc[t] = "copy_type" /\ pc'[t] = "copy_mac"
         \/ pc[t] = "copy_mac" /\ pc'[t] = "copy_payload"
         \/ pc[t] = "copy_payload" /\ pc'[t] = "hton"
         \/ pc[t] = "hton" /\ pc'[t] = "send_busy"
  BY <1>1 DEF CopyType, CopyMac, CopyPayload, Hton, Goto
<1>4. /\ \A u \in Threads : /\ InBuffer(u)' <=> InBuffer(u)
                            /\ Ensured(u)' <=> Ensured(u)
                            /\ Loaded(u)' <=> Loaded(u)
      /\ Loaded(t) /\ InBuffer(t)
  <2>1. \A u \in Threads \ {t} : /\ InBuffer(u)' <=> InBuffer(u)
                                 /\ Ensured(u)' <=> Ensured(u)
                                 /\ Loaded(u)' <=> Loaded(u)
    BY <1>3, SamePlace
  <2>2. /\ InBuffer(t)' /\ Ensured(t)' /\ Loaded(t)'
        /\ InBuffer(t) /\ Ensured(t) /\ Loaded(t)
    BY <1>3 DEF InBuffer, Ensured, Loaded
  <2> QED
    BY <2>1, <2>2
<1>5. \A b \in Block : b # ptr[t] => frame'[b] = frame[b]
  BY <1>1 DEF CopyType, CopyMac, CopyPayload, Hton
<1>6. ptr[t] \in Block /\ ptr[t][1] = fi[t]
  BY <1>1, <1>4 DEF LoadedInv
<1>7. GrowthInv'
  <2>1. \A u \in Threads : pc'[u] = "store_buffer" <=> pc[u] = "store_buffer"
    BY <1>3
  <2> QED
    BY <1>2, <1>4, <2>1, GrowthKept DEF BufferInv
<1>8. LoadedInv' /\ SharedInv'
  BY <1>1, <1>2, <1>4 DEF LoadedInv, SharedInv
<1>9. FrameInv'
  <2>1. ASSUME NEW u \in Threads \ {t}, Loaded(u), ~ shared[u]
        PROVE  Copied(u)'
    <3>1. Copied(u) /\ ptr[u] \in Block /\ ptr[u][1] = fi[u] /\ InBuffer(u)
      BY <1>1, <2>1, Places DEF FrameInv, LoadedInv
    <3>2. fi[u] # fi[t]
      BY <1>1, <1>4, <2>1, <3>1 DEF SharedInv
    <3>3. frame'[ptr[u]] = frame[ptr[u]]
      BY <1>5, <1>6, <3>1, <3>2
    <3> QED
      BY <1>2, <1>3, <2>1, <3>1, <3>3 DEF Copied
  <2>2. ASSUME ~ shared[t]
        PROVE  Copied(t)'
    <3> DEFINE f == frame[ptr[t]]
               r == req[t]
    <3>1. Copied(t) /\ f \in Frame
      BY <1>1, <1>4, <1>6, <2>2 DEF FrameInv
    <3>2. \/ /\ pc[t] = "copy_type" /\ pc'[t] = "copy_mac"
             /\ frame'[ptr[t]] = [f EXCEPT !.ether_type = r.protocol]
          \/ /\ pc[t] = "copy_mac" /\ pc'[t] = "copy_payload"
             /\ frame'[ptr[t]] = [f EXCEPT !.dst_mac = r.dst_mac]
          \/ /\ pc[t] = "copy_payload" /\ pc'[t] = "hton"
             /\ frame'[ptr[t]] = [f EXCEPT !.payload = r.content]
          \/ /\ pc[t] = "hton" /\ pc'[t] = "send_busy"
             /\ frame'[ptr[t]] = [f EXCEPT !.ether_type = htons(f.ether_type)]
      BY <1>1, <1>3, <1>6 DEF CopyType, CopyMac, CopyPayload, Hton, Goto
    <3> HIDE DEF f
    <3> QED
      BY <1>2, <3>1, <3>2 DEF Copied, Frame, f
  <2> QED
    BY <1>2, <1>4, <2>1, <2>2 DEF FrameInv
<1>10. ExitInv'
  BY <1>2, <1>3 DEF BufferInv, ExitInv
<1> QED
  BY <1>0, <1>7, <1>8, <1>9, <1>10 DEF BufferInv, CopyInv

-----------------------------------------------------------------------------
(***************************************************************************)
(* The two halves of ensure_has_size.                                      *)
(***************************************************************************)

\* realloc works on the block of a queue that is too small for its sender:
\* the only sender of that queue that may rely on it is a sharing one.
LEMMA EnsureStep ==
  ASSUME BufferInv, NEW t \in Threads, EnsureHasSize(t)
  PROVE  BufferInv'
<1> DEFINE q == fi[t]
           size == TotalSize(req[t])
<1>0. TypeInv /\ TypeInv'
  BY SendHeapTypeInv DEF BufferInv
<1>1. /\ MutexInv /\ BlockInv /\ StoreInv /\ EnsuredSize /\ SizeIsReal
      /\ LoadedInv /\ SharedInv /\ FrameInv /\ ExitInv
  BY DEF BufferInv, GrowthInv, CopyInv
<1>2. /\ pc \in [Threads -> Label] /\ ptr \in [Threads -> Block \cup {NULL}]
      /\ buffers \in [Queues -> Block \cup {NULL}]
      /\ buffers_size \in [Queues -> Nat]
      /\ heap \in [Block -> [live : BOOLEAN, room : Nat]]
      /\ frame \in [Block -> Frame]
  BY <1>0 DEF TypeInv, TypeOK
<1>3. /\ pc[t] = "ensure_has_size" /\ mut_buffer = NoThread /\ Alive
      /\ TooSmall(q, size) /\ mut_buffer' = t
      /\ UNCHANGED <<fi, req, shared, buffers, buffers_size, status>>
      /\ pc' = [pc EXCEPT ![t] = "store_buffer"]
  BY Zenon DEF EnsureHasSize, Goto
<1>4. PICK b \in Block :
        /\ \/ Calloc(q, size, b)
           \/ ReallocInPlace(q, size, b)
           \/ ReallocMoves(q, size, b)
        /\ ptr' = [ptr EXCEPT ![t] = b]
  BY Zenon DEF EnsureHasSize
<1>5. q \in Queues /\ req[t] \in Requests /\ InBuffer(t)
  <2>1. InBuffer(t)
    BY <1>3 DEF InBuffer
  <2> QED
    BY <1>0, <1>3, <2>1, SenderLocals
<1>6. size \in Nat /\ buffers_size[q] \in Nat /\ buffers_size[q] < size
  <2>1. size \in Nat /\ buffers_size[q] \in Nat /\ size > 0
    BY <1>2, <1>5, RequestTypes
  <2> QED
    BY <1>3, <2>1 DEF TooSmall
<1> HIDE DEF q, size
<1>7. /\ pc'[t] = "store_buffer" /\ ptr'[t] = b
      /\ \A u \in Threads \ {t} : pc'[u] = pc[u] /\ ptr'[u] = ptr[u]
  BY <1>2, <1>3, <1>4
<1>8. UNCHANGED <<fi, req, shared, buffers, buffers_size, status>>
  BY <1>3
<1>9. \A u \in Threads : /\ InBuffer(u)' => InBuffer(u)
                         /\ Ensured(u)' => Ensured(u)
                         /\ Loaded(u)' => Loaded(u) /\ u # t
  <2>1. ~ Ensured(t)' /\ ~ Loaded(t)'
    BY <1>7 DEF Ensured, Loaded
  <2> QED
    BY <1>5, <1>7, <2>1, SamePlace
<1>10. b[1] = q /\ b[2] <= size
  <2>1. b[2] \in Nat
    BY RequestTypes DEF Block
  <2>2. CASE b = <<q, size>>
    BY <1>6, <2>2
  <2>3. CASE b = buffers[q] /\ buffers[q] # NULL
    BY <1>1, <1>5, <1>6, <2>1, <2>3 DEF BlockInv
  <2> QED
    BY <1>4, <2>2, <2>3 DEF Calloc, ReallocInPlace, ReallocMoves
<1>11. \A c \in Block : c[1] # q => heap'[c] = heap[c] /\ frame'[c] = frame[c]
  <2> SUFFICES ASSUME NEW c \in Block, c # b, c # buffers[q]
               PROVE  heap'[c] = heap[c] /\ frame'[c] = frame[c]
    BY <1>1, <1>2, <1>5, <1>10, NullIsNoBlock DEF BlockInv
  <2> QED
    BY <1>2, <1>4 DEF Calloc, ReallocInPlace, ReallocMoves
<1>12. ASSUME status = "running"
       PROVE  heap'[b].live /\ heap'[b].room = size
  <2>1. CASE Calloc(q, size, b)
    BY <1>2, <2>1 DEF Calloc
  <2>2. CASE ReallocInPlace(q, size, b)
    <3>1. heap[b].live
      BY <1>1, <1>3, <1>5, <1>12, <2>2, NoThreadIsNone
         DEF SizeIsReal, ReallocInPlace
    <3> QED
      BY <1>2, <2>2, <3>1 DEF ReallocInPlace
  <2>3. CASE ReallocMoves(q, size, b)
    <3>1. buffers[q] # b /\ buffers[q] \in Block
      BY <1>1, <1>2, <1>5, <1>6, <2>3 DEF ReallocMoves, BlockInv
    <3> QED
      BY <1>2, <2>3, <3>1 DEF ReallocMoves
  <2> QED
    BY <1>4, <2>1, <2>2, <2>3
<1>13. MutexInv' /\ BlockInv'
  BY <1>1, <1>3, <1>7, <1>8, NoThreadIsNone DEF MutexInv, BlockInv
<1>14. EnsuredSize'
  BY <1>1, <1>8, <1>9 DEF EnsuredSize, Ensured
<1>15. StoreInv'
  <2>1. \A u \in Threads : pc'[u] = "store_buffer" => u = t
    BY <1>1, <1>3, <1>7, NoThreadIsNone DEF MutexInv
  <2>2. buffers_size[q] <= size
    BY <1>6
  <2> QED
    BY <1>7, <1>8, <1>10, <1>12, <2>1, <2>2 DEF StoreInv, q, size
<1>16. SizeIsReal'
  <2> DEFINE Real(p) == IF buffers[p] = NULL THEN buffers_size[p] = 0
                        ELSE /\ heap[buffers[p]].live
                             /\ heap[buffers[p]].room = buffers_size[p]
  <2>1. ASSUME status = "running", NEW p \in Queues, p # q
        PROVE  Real(p)'
    <3>1. Real(p)
      BY <1>1, <1>3, <2>1, NoThreadIsNone DEF SizeIsReal
    <3>2. buffers[p] # NULL => buffers[p] \in Block /\ buffers[p][1] # q
      BY <1>1, <1>2, <2>1 DEF BlockInv
    <3> QED
      BY <1>8, <1>11, <3>1, <3>2
  <2>2. status' = "running" =>
          \A p \in Queues : (\A u \in Threads : mut_buffer' = u => fi'[u] # p)
                            => Real(p)'
    BY <1>3, <1>8, <2>1 DEF q
  <2> QED
    BY <2>2 DEF SizeIsReal
<1>17. LoadedInv'
  BY <1>1, <1>7, <1>8, <1>9 DEF LoadedInv
<1>18. SharedInv'
  BY <1>1, <1>8, <1>9 DEF SharedInv
<1>19. FrameInv'
  <2> SUFFICES ASSUME NEW u \in Threads, Loaded(u)', ~ shared[u]
               PROVE  Copied(u)'
    BY <1>8 DEF FrameInv
  <2>1. u # t /\ Loaded(u) /\ InBuffer(u) /\ Copied(u)
    BY <1>1, <1>9, Places DEF FrameInv
  <2>2. ptr[u] \in Block /\ ptr[u][1] # q
    BY <1>1, <1>5, <2>1 DEF LoadedInv, SharedInv, q
  <2> QED
    BY <1>7, <1>8, <1>11, <2>1, <2>2 DEF Copied
<1>20. ExitInv'
  BY <1>1, <1>7, <1>8 DEF ExitInv
<1> QED
  BY <1>0, <1>13, <1>14, <1>15, <1>16, <1>17, <1>18, <1>19, <1>20
     DEF BufferInv, GrowthInv, CopyInv

\* Storing the grown block makes it the queue's buffer.
LEMMA StoreStep ==
  ASSUME BufferInv, NEW t \in Threads, StoreBuffer(t)
  PROVE  BufferInv'
<1> DEFINE q == fi[t]
           size == TotalSize(req[t])
<1>0. TypeInv /\ TypeInv'
  BY SendLocalTypeInv DEF BufferInv
<1>1. /\ MutexInv /\ BlockInv /\ StoreInv /\ EnsuredSize /\ SizeIsReal
      /\ LoadedInv /\ SharedInv /\ FrameInv /\ ExitInv
  BY DEF BufferInv, GrowthInv, CopyInv
<1>2. /\ pc \in [Threads -> Label]
      /\ buffers \in [Queues -> Block \cup {NULL}]
      /\ buffers_size \in [Queues -> Nat]
  BY <1>0 DEF TypeInv, TypeOK
<1>3. /\ pc[t] = "store_buffer" /\ Alive /\ mut_buffer' = NoThread
      /\ UNCHANGED <<fi, req, ptr, shared, heap, frame, status>>
  BY Zenon DEF StoreBuffer, Goto, localVars
<1>4. /\ pc' = [pc EXCEPT ![t] = "load_buffer"]
      /\ buffers' = [buffers EXCEPT ![q] = ptr[t]]
      /\ buffers_size' = [buffers_size EXCEPT ![q] = size]
  BY Zenon DEF StoreBuffer, Goto
<1>5. \A u \in Threads : InBuffer(u) => fi[u] \in Queues /\ req[u] \in Requests
  BY <1>0, <1>3, SenderLocals
<1>6. InBuffer(t) /\ q \in Queues /\ size \in Nat /\ size > 0
  <2>1. InBuffer(t)
    BY <1>3 DEF InBuffer
  <2> QED
    BY <1>5, <2>1, RequestTypes
<1>7. /\ ptr[t] \in Block /\ ptr[t][1] = q /\ ptr[t][2] <= size
      /\ buffers_size[q] <= size /\ mut_buffer = t /\ ptr[t] # NULL
      /\ status = "running" => /\ heap[ptr[t]].live
                               /\ heap[ptr[t]].room = size
  BY <1>1, <1>3, NullIsNoBlock DEF StoreInv, MutexInv
<1>8. /\ pc'[t] = "load_buffer"
      /\ \A u \in Threads \ {t} : pc'[u] = pc[u]
      /\ buffers'[q] = ptr[t] /\ buffers_size'[q] = size
      /\ \A p \in Queues \ {q} : /\ buffers'[p] = buffers[p]
                                 /\ buffers_size'[p] = buffers_size[p]
  BY <1>2, <1>4, <1>6
<1>9. \A u \in Threads : /\ InBuffer(u)' => InBuffer(u)
                         /\ Ensured(u)' => Ensured(u) \/ u = t
                         /\ Loaded(u)' => Loaded(u) /\ u # t
                         /\ pc'[u] # "store_buffer"
  <2>1. ~ Loaded(t)'
    BY <1>8 DEF Loaded
  <2>2. \A u \in Threads : pc'[u] # "store_buffer"
    BY <1>1, <1>7, <1>8 DEF MutexInv
  <2> QED
    BY <1>6, <1>8, <2>1, <2>2, SamePlace
<1> HIDE DEF q, size
<1>10. MutexInv' /\ StoreInv'
  BY <1>3, <1>9, NoThreadIsNone DEF MutexInv, StoreInv
<1>11. BlockInv'
  BY <1>1, <1>6, <1>7, <1>8 DEF BlockInv
<1>12. EnsuredSize'
  <2> SUFFICES ASSUME NEW u \in Threads, Ensured(u)'
               PROVE  buffers_size'[fi[u]] >= TotalSize(req[u])
    BY <1>3 DEF EnsuredSize, Ensured
  <2>1. CASE u = t
    BY <1>6, <1>8, <2>1 DEF q, size
  <2>2. CASE u # t
    <3>1. Ensured(u) /\ InBuffer(u)
      BY <1>9, <2>2, Places
    <3>2. fi[u] \in Queues /\ TotalSize(req[u]) \in Nat
      BY <1>5, <3>1, RequestTypes
    <3>3. buffers_size[fi[u]] >= TotalSize(req[u])
      BY <1>1, <3>1 DEF EnsuredSize, Ensured
    <3>4. /\ buffers_size'[fi[u]] >= buffers_size[fi[u]]
          /\ buffers_size[fi[u]] \in Nat /\ buffers_size'[fi[u]] \in Nat
      BY <1>2, <1>6, <1>7, <1>8, <3>2
    <3> QED
      BY <3>2, <3>3, <3>4
  <2> QED
    BY <2>1, <2>2
<1>13. SizeIsReal'
  <2> DEFINE Real(p) == IF buffers[p] = NULL THEN buffers_size[p] = 0
                        ELSE /\ heap[buffers[p]].live
                             /\ heap[buffers[p]].room = buffers_size[p]
  <2>1. ASSUME status = "running", NEW p \in Queues
        PROVE  Real(p)'
    <3>1. CASE p = q
      BY <1>3, <1>7, <1>8, <2>1, <3>1
    <3>2. CASE p # q
      <4>1. Real(p)
        BY <1>1, <1>7, <2>1, <3>2 DEF SizeIsReal, q
      <4> QED
        BY <1>3, <1>8, <3>2, <4>1
    <3> QED
      BY <3>1, <3>2
  <2>2. status' = "running" => \A p \in Queues : Real(p)'
    BY <1>3, <2>1
  <2> QED
    BY <2>2 DEF SizeIsReal
<1>14. LoadedInv'
  BY <1>1, <1>3, <1>9 DEF LoadedInv
<1>15. SharedInv'
  BY <1>1, <1>3, <1>9 DEF SharedInv
<1>16. FrameInv'
  <2> SUFFICES ASSUME NEW u \in Threads, Loaded(u)', ~ shared[u]
               PROVE  Copied(u)'
    BY <1>3 DEF FrameInv
  <2>1. u # t /\ Loaded(u) /\ InBuffer(u) /\ Copied(u)
    BY <1>1, <1>9, Places DEF FrameInv
  <2>2. fi[u] \in Queues /\ fi[u] # q
    BY <1>1, <1>5, <1>6, <2>1 DEF SharedInv, q
  <2> QED
    BY <1>3, <1>8, <2>1, <2>2 DEF Copied
<1>17. ExitInv'
  BY <1>1, <1>3, <1>8 DEF ExitInv
<1> QED
  BY <1>0, <1>10, <1>11, <1>12, <1>13, <1>14, <1>15, <1>16, <1>17
     DEF BufferInv, GrowthInv, CopyInv

-----------------------------------------------------------------------------
\* The invariant holds in every state.
LEMMA BufferInvariant == Spec => []BufferInv
<1>1. Init => BufferInv
  BY InitTypeInv, ThreadsAssumption DEF Init, BufferInv, GrowthInv, CopyInv,
     MutexInv, BlockInv, StoreInv, EnsuredSize, SizeIsReal, LoadedInv,
     SharedInv, FrameInv, ExitInv, Loaded, Ensured, InBuffer
<1>2. BufferInv /\ [Next]_vars => BufferInv'
  <2> SUFFICES ASSUME BufferInv, [Next]_vars PROVE BufferInv'
    OBVIOUS
  <2>1. ASSUME NEW t \in Threads, ThreadStep(t) \/ TunReadFails(t)
        PROVE  BufferInv'
    BY <2>1, OutsideActions, SendAvailableStep, InsideActions, CopyActions,
       EnsureStep, StoreStep DEF ThreadStep, SendStep
  <2>2. CASE KernelStep \/ Terminated \/ UNCHANGED vars
    <3>1. TypeInv'
      BY NextTypeInv DEF BufferInv
    <3>2. UNCHANGED <<pc, fi, req, ptr, shared, buffers, buffers_size,
                      mut_buffer, heap, frame, status>>
      BY <2>2 DEF KernelStep, Terminated, vars, localVars, bufferVars
    <3>3. \A u \in Threads : /\ InBuffer(u)' <=> InBuffer(u)
                             /\ Ensured(u)' <=> Ensured(u)
                             /\ Loaded(u)' <=> Loaded(u)
      BY <3>2, SamePlace
    <3>4. GrowthInv'
      BY <3>2, <3>3, GrowthKept DEF BufferInv
    <3>5. LoadedInv' /\ SharedInv'
      BY <3>2, <3>3 DEF BufferInv, CopyInv, LoadedInv, SharedInv
    <3>6. FrameInv' /\ ExitInv'
      BY <3>2, <3>3 DEF BufferInv, CopyInv, FrameInv, Copied, ExitInv
    <3> QED
      BY <3>1, <3>4, <3>5, <3>6 DEF BufferInv, CopyInv
  <2> QED
    BY <2>1, <2>2 DEF Next
<1> QED
  BY <1>1, <1>2, PTL DEF Spec

\* ensure_has_size keeps its promise until the sender is done, although the
\* buffer is used after mut_buffer is released and others may grow it.
THEOREM SizeStaysEnsured == Spec => []EnsuredSize
<1>1. BufferInv => EnsuredSize
  BY DEF BufferInv, GrowthInv
<1> QED
  BY BufferInvariant, <1>1, PTL

\* Outside the locked section buffers_size never lies about the block.
THEOREM RecordedSizeIsReal == Spec => []SizeIsReal
<1>1. BufferInv => SizeIsReal
  BY DEF BufferInv, GrowthInv
<1> QED
  BY BufferInvariant, <1>1, PTL

\* A sender that shares its queue with no other sender hands tun_write the
\* frame it was asked to send, complete and in network order, from a block
\* that is allocated and large enough.
THEOREM UnsharedFramesAreIntact == Spec => []IntactUnlessShared
<1>1. BufferInv => IntactUnlessShared
  <2> SUFFICES ASSUME BufferInv, NEW t \in Threads, status = "running",
                      pc[t] = "tun_write", ~ shared[t]
               PROVE  /\ heap[ptr[t]].live
                      /\ heap[ptr[t]].room >= TotalSize(req[t])
                      /\ frame[ptr[t]] = WireFrame(req[t])
    BY DEF IntactUnlessShared
  <2> USE DEF BufferInv, GrowthInv, CopyInv
  <2>1. Loaded(t) /\ ptr[t] = buffers[fi[t]] /\ ptr[t] \in Block
    BY DEF FrameInv, Copied, LoadedInv, Loaded, Ensured, InBuffer
  <2>2. fi[t] \in Queues /\ req[t] \in Requests
    BY DEF TypeInv, LocalsOK, InSend, InBuffer
  <2>3. \A u \in Threads : mut_buffer = u => fi[u] # fi[t]
    BY DEF MutexInv, SharedInv, InBuffer
  <2>4. ptr[t] # NULL
    BY <2>1, <2>2, DataAssumption, RequestTypes DEF Block
  <2>5. heap[ptr[t]].live /\ heap[ptr[t]].room = buffers_size[fi[t]]
    BY <2>1, <2>2, <2>3, <2>4 DEF SizeIsReal
  <2>6. buffers_size[fi[t]] >= TotalSize(req[t])
    BY DEF EnsuredSize, InBuffer
  <2>7. frame[ptr[t]] = WireFrame(req[t])
    <3>1. frame[ptr[t]] \in Frame
      BY <2>1 DEF TypeInv, TypeOK
    <3>2. /\ frame[ptr[t]].ether_type = htons(req[t].protocol)
          /\ frame[ptr[t]].dst_mac = req[t].dst_mac
          /\ frame[ptr[t]].payload = req[t].content
      BY <2>1 DEF FrameInv, Copied
    <3> QED
      BY <3>1, <3>2 DEF Frame, WireFrame
  <2> QED
    BY <2>5, <2>6, <2>7
<1> QED
  BY BufferInvariant, <1>1, PTL
=============================================================================
