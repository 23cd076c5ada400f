---------------------------- MODULE NetInterface ----------------------------
(***************************************************************************)
(* The worker threads of src/main.c reading from and sending through       *)
(* src/net_interface.c.                                                    *)
(*                                                                         *)
(* Every thread runs process_io: it reads a frame (net_interface_read),    *)
(* hands it to a protocol handler, and the handler answers with at most    *)
(* one frame (net_interface_send) or none.  The handlers are abstracted to *)
(* the set Requests of the calls they make; what they decide is the        *)
(* subject of other modules.  The threads share the busy flags of the tap  *)
(* queues and one send buffer per queue, a heap block that                 *)
(* ensure_has_size grows under mut_buffer and net_interface_send fills     *)
(* without it.                                                             *)
(*                                                                         *)
(* A step is what another thread can see done at once: a section under a   *)
(* mutex, or one access to shared memory.                                  *)
(***************************************************************************)
EXTENDS TunDevice, FiniteSets

CONSTANTS Threads,      \* the workers that main() creates (THREADS, 10)
          Requests,     \* the calls of net_interface_send handlers make
          MacAddr,      \* destination addresses
          Content,      \* payloads
          ZeroMac,      \* what calloc leaves in a fresh block
          ZeroContent,
          NoRequest,    \* a thread that sends nothing
          NoThread,     \* nobody holds the mutex
          NULL          \* the null pointer

Byte == 0..255

\* One call of net_interface_send(content, len, dst_mac, protocol), protocol
\* being the two bytes of the uint16_t as a little-endian host stores it.
\* "exits" marks the ARP request ip_send_packet broadcasts for an address it
\* cannot resolve: its caller runs exit(1) as soon as the call returns.
Request == [content : Content, len : Nat, dst_mac : MacAddr,
            protocol : Byte \X Byte, exits : BOOLEAN]

ASSUME ThreadsAssumption ==
  /\ IsFiniteSet(Threads) /\ Threads # {}
  /\ Cardinality(Threads) <= TUN_QUEUES      \* THREADS = TUN_QUEUES = 10
  /\ NoThread \notin Threads

ASSUME DataAssumption ==
  /\ Requests \subseteq Request
  /\ NoRequest \notin Requests
  /\ ZeroMac \in MacAddr
  /\ ZeroContent \in Content
  /\ NULL \notin Queues \X Nat       \* no block is the null pointer

\* sizeof(struct eth_header): two addresses and the ether_type.
EthHeaderSize == 14

\* total_size of net_interface_send.
TotalSize(r) == r.len + EthHeaderSize

\* htons of a little-endian build swaps the two bytes.
htons(v) == <<v[2], v[1]>>

\* The part of a frame the senders fill in.  The source address is always
\* the interface's own.
Frame == [ether_type : Byte \X Byte, dst_mac : MacAddr, payload : Content]

ZeroFrame ==
  [ether_type |-> <<0, 0>>, dst_mac |-> ZeroMac, payload |-> ZeroContent]

\* The frame a request stands for, as it has to look on the wire.
WireFrame(r) == [ether_type |-> htons(r.protocol),
                 dst_mac    |-> r.dst_mac,
                 payload    |-> r.content]

\* A heap block is named by the queue and the size it was allocated for.  A
\* queue's buffer is only ever replaced by a larger one, so no name is used
\* for two blocks.
Block == Queues \X {TotalSize(r) : r \in Requests}

VARIABLES
  pc,            \* pc[t]: what thread t does next
  fi,            \* fi[t]: the queue in t's local variable fi
  req,           \* req[t]: the arguments of t's net_interface_send
  ptr,           \* ptr[t]: the block t's local eth_header points to
  buffers,       \* buffers[q]: the send buffer of queue q
  buffers_size,  \* buffers_size[q]: its recorded size
  mut_buffer,    \* the holder of mut_buffer
  heap,          \* heap[b]: is block b allocated, and what room it has
  frame,         \* frame[b]: what block b holds
  status,        \* the process: running, in exit(), ended, or aborted
  shared         \* history: shared[t], another sender was in queue fi[t]'s
                 \* buffer at some point of t's present send

localVars  == <<fi, req, ptr, shared>>
bufferVars == <<buffers, buffers_size, mut_buffer, heap, frame>>
vars == <<tunVars, pc, localVars, bufferVars, status>>

Label == {"read_available", "read_busy", "tun_read", "read_done",
          "handle_frame", "send_available", "ensure_has_size",
          "store_buffer", "load_buffer", "copy_type", "copy_mac",
          "copy_payload", "hton", "send_busy", "tun_write", "send_done",
          "exit", "destroy"}

TypeOK ==
  /\ TunTypeOK
  /\ pc \in [Threads -> Label]
  /\ fi \in [Threads -> NoQueue..TUN_QUEUES]
  /\ req \in [Threads -> Requests \cup {NoRequest}]
  /\ ptr \in [Threads -> Block \cup {NULL}]
  /\ buffers \in [Queues -> Block \cup {NULL}]
  /\ buffers_size \in [Queues -> Nat]
  /\ mut_buffer \in Threads \cup {NoThread}
  /\ heap \in [Block -> [live : BOOLEAN, room : Nat]]
  /\ frame \in [Block -> Frame]
  /\ status \in {"running", "exiting", "ended", "aborted"}
  /\ shared \in [Threads -> BOOLEAN]

Init ==
  /\ TunInit
  /\ pc = [t \in Threads |-> "read_available"]
  /\ fi = [t \in Threads |-> NoQueue]
  /\ req = [t \in Threads |-> NoRequest]
  /\ ptr = [t \in Threads |-> NULL]
  /\ buffers = [q \in Queues |-> NULL]
  /\ buffers_size = [q \in Queues |-> 0]
  /\ mut_buffer = NoThread
  /\ heap = [b \in Block |-> [live |-> FALSE, room |-> 0]]
  /\ frame = [b \in Block |-> ZeroFrame]
  /\ status = "running"
  /\ shared = [t \in Threads |-> FALSE]

\* Threads run until the process ends, the other threads' exit() included.
Alive == status \in {"running", "exiting"}

Goto(t, from, to) ==
  /\ Alive
  /\ pc[t] = from
  /\ pc' = [pc EXCEPT ![t] = to]

-----------------------------------------------------------------------------
(***************************************************************************)
(* net_interface_read, called by process_io.                               *)
(***************************************************************************)

\* fi = available().  With no queue the call returns -1; process_io reports
\* the error and handles what its buffer already holds.
ReadAvailable(t) ==
  \E q \in Queues \cup {NoQueue} :
    /\ available(q)
    /\ Goto(t, "read_available",
            IF q = NoQueue THEN "handle_frame" ELSE "read_busy")
    /\ fi' = [fi EXCEPT ![t] = q]
    /\ UNCHANGED <<tunVars, req, ptr, shared, bufferVars, status>>

ReadBusy(t) ==
  /\ Goto(t, "read_busy", "tun_read")
  /\ set_busy(fi[t], TRUE)
  /\ UNCHANGED <<rx, localVars, bufferVars, status>>

TunRead(t) ==
  /\ Goto(t, "tun_read", "read_done")
  /\ tun_read(fi[t])
  /\ UNCHANGED <<busy_status, localVars, bufferVars, status>>

\* read() returns -1 (the interface goes down, a signal): process_io carries
\* on just as after a success.
TunReadFails(t) ==
  /\ Goto(t, "tun_read", "read_done")
  /\ UNCHANGED <<tunVars, localVars, bufferVars, status>>

\* A faulty net_interface_read that returns without clearing the flag.
ReadDoneStillBusy(t) ==
  /\ Goto(t, "read_done", "handle_frame")
  /\ fi' = [fi EXCEPT ![t] = NoQueue]
  /\ UNCHANGED <<tunVars, req, ptr, shared, bufferVars, status>>

ReadDone(t) ==
  /\ Goto(t, "read_done", "handle_frame")
  /\ set_busy(fi[t], FALSE)
  /\ fi' = [fi EXCEPT ![t] = NoQueue]
  /\ UNCHANGED <<rx, req, ptr, shared, bufferVars, status>>

-----------------------------------------------------------------------------
(***************************************************************************)
(* handle_frame: the handler drops the frame, calls net_interface_send, or *)
(* exits.                                                                  *)
(***************************************************************************)

HandleDrops(t) ==
  /\ Goto(t, "handle_frame", "read_available")
  /\ UNCHANGED <<tunVars, localVars, bufferVars, status>>

HandleSends(t, r) ==
  /\ Goto(t, "handle_frame", "send_available")
  /\ req' = [req EXCEPT ![t] = r]
  /\ UNCHANGED <<tunVars, fi, ptr, shared, bufferVars, status>>

\* ip_send_packet runs exit(1) without a request having been sent: the address
\* is in the ARP cache, but hashmap_get has missed it.
HandleExits(t) ==
  /\ Goto(t, "handle_frame", "exit")
  /\ UNCHANGED <<tunVars, localVars, bufferVars, status>>

-----------------------------------------------------------------------------
(***************************************************************************)
(* net_interface_send.                                                     *)
(***************************************************************************)

\* The part of a send in which the thread may touch the buffer of fi[t].
InBuffer(t) == pc[t] \in {"ensure_has_size", "store_buffer", "load_buffer",
                          "copy_type", "copy_mac", "copy_payload", "hton",
                          "send_busy", "tun_write"}

InSend(t) == InBuffer(t) \/ pc[t] \in {"send_available", "send_done"}

\* fi = available(), and abort() when there is none.
SendAvailable(t) ==
  \E q \in Queues \cup {NoQueue} :
    LET others == {u \in Threads \ {t} : InBuffer(u) /\ fi[u] = q} IN
    /\ available(q)
    /\ Goto(t, "send_available", "ensure_has_size")
    /\ fi' = [fi EXCEPT ![t] = q]
    /\ shared' = [u \in Threads |-> IF u = t THEN others # {}
                                    ELSE shared[u] \/ u \in others]
    /\ status' = IF q = NoQueue THEN "aborted" ELSE status
    /\ UNCHANGED <<tunVars, req, ptr, bufferVars>>

\* A faulty test that grows the buffer only when there is none yet.
TooSmallOnlyWhenEmpty(q, size) == buffers_size[q] = 0

\* The test of ensure_has_size.
TooSmall(q, size) == size > buffers_size[q] \/ buffers_size[q] = 0

\* calloc(1, size), as the new buffer of queue q.
Calloc(q, size, b) ==
  /\ buffers[q] = NULL
  /\ b = <<q, size>>
  /\ heap' = [heap EXCEPT ![b] = [live |-> TRUE, room |-> size]]
  /\ frame' = [frame EXCEPT ![b] = ZeroFrame]

\* realloc(buffers[q], size) extends the block where it is ...
ReallocInPlace(q, size, b) ==
  /\ buffers[q] # NULL
  /\ b = buffers[q]
  /\ heap' = [heap EXCEPT ![b].room = size]
  /\ UNCHANGED frame

\* ... or moves the contents to a new one and frees the old.
ReallocMoves(q, size, b) ==
  /\ buffers[q] # NULL
  /\ b = <<q, size>>
  /\ heap' = [heap EXCEPT ![b] = [live |-> TRUE, room |-> size],
                          ![buffers[q]].live = FALSE]
  /\ frame' = [frame EXCEPT ![b] = frame[buffers[q]]]

\* ensure_has_size up to the return of calloc or realloc; the mutex stays
\* held until the result is stored.
EnsureHasSize(t) ==
  LET size == TotalSize(req[t]) IN
  /\ Goto(t, "ensure_has_size", "store_buffer")
  /\ mut_buffer = NoThread
  /\ TooSmall(fi[t], size)
  /\ \E b \in Block :
       /\ \/ Calloc(fi[t], size, b)
          \/ ReallocInPlace(fi[t], size, b)
          \/ ReallocMoves(fi[t], size, b)
       /\ ptr' = [ptr EXCEPT ![t] = b]
  /\ mut_buffer' = t
  /\ UNCHANGED <<tunVars, fi, req, shared, buffers, buffers_size, status>>

\* ensure_has_size when the buffer is large enough.
HasSize(t) ==
  /\ Goto(t, "ensure_has_size", "load_buffer")
  /\ mut_buffer = NoThread
  /\ ~ TooSmall(fi[t], TotalSize(req[t]))
  /\ UNCHANGED <<tunVars, localVars, bufferVars, status>>

\* realloc of a block that net_interface_destroy freed: undefined, and here
\* the allocator kills the process (that it goes unnoticed is EnsureHasSize).
ReallocOfFreed(t) ==
  /\ Alive
  /\ pc[t] = "ensure_has_size"
  /\ mut_buffer = NoThread
  /\ TooSmall(fi[t], TotalSize(req[t]))
  /\ buffers[fi[t]] # NULL
  /\ ~ heap[buffers[fi[t]]].live
  /\ status' = "ended"
  /\ UNCHANGED <<tunVars, pc, localVars, bufferVars>>

\* A faulty ensure_has_size that returns without unlocking mut_buffer.
StoreBufferStillLocked(t) ==
  /\ Goto(t, "store_buffer", "load_buffer")
  /\ buffers' = [buffers EXCEPT ![fi[t]] = ptr[t]]
  /\ buffers_size' = [buffers_size EXCEPT ![fi[t]] = TotalSize(req[t])]
  /\ UNCHANGED <<tunVars, localVars, mut_buffer, heap, frame, status>>

\* A faulty ensure_has_size that forgets to record the size.
StoreBufferOldSize(t) ==
  /\ Goto(t, "store_buffer", "load_buffer")
  /\ buffers' = [buffers EXCEPT ![fi[t]] = ptr[t]]
  /\ mut_buffer' = NoThread
  /\ UNCHANGED <<tunVars, localVars, buffers_size, heap, frame, status>>

\* The rest of ensure_has_size: buffers[fi], buffers_size[fi], unlock.
StoreBuffer(t) ==
  /\ Goto(t, "store_buffer", "load_buffer")
  /\ buffers' = [buffers EXCEPT ![fi[t]] = ptr[t]]
  /\ buffers_size' = [buffers_size EXCEPT ![fi[t]] = TotalSize(req[t])]
  /\ mut_buffer' = NoThread
  /\ UNCHANGED <<tunVars, localVars, heap, frame, status>>

\* eth_header = buffers[fi], read without the mutex.
LoadBuffer(t) ==
  /\ Goto(t, "load_buffer", "copy_type")
  /\ ptr' = [ptr EXCEPT ![t] = buffers[fi[t]]]
  /\ UNCHANGED <<tunVars, fi, req, shared, bufferVars, status>>

CopyType(t) ==
  /\ Goto(t, "copy_type", "copy_mac")
  /\ frame' = [frame EXCEPT ![ptr[t]].ether_type = req[t].protocol]
  /\ UNCHANGED <<tunVars, localVars, buffers, buffers_size, mut_buffer, heap,
                 status>>

CopyMac(t) ==
  /\ Goto(t, "copy_mac", "copy_payload")
  /\ frame' = [frame EXCEPT ![ptr[t]].dst_mac = req[t].dst_mac]
  /\ UNCHANGED <<tunVars, localVars, buffers, buffers_size, mut_buffer, heap,
                 status>>

CopyPayload(t) ==
  /\ Goto(t, "copy_payload", "hton")
  /\ frame' = [frame EXCEPT ![ptr[t]].payload = req[t].content]
  /\ UNCHANGED <<tunVars, localVars, buffers, buffers_size, mut_buffer, heap,
                 status>>

\* A faulty send that leaves the ether_type in host order.
HtonSkipped(t) ==
  /\ Goto(t, "hton", "send_busy")
  /\ UNCHANGED <<tunVars, localVars, bufferVars, status>>

\* eth_header_hton.
Hton(t) ==
  /\ Goto(t, "hton", "send_busy")
  /\ frame' = [frame EXCEPT ![ptr[t]].ether_type = htons(@)]
  /\ UNCHANGED <<tunVars, localVars, buffers, buffers_size, mut_buffer, heap,
                 status>>

SendBusy(t) ==
  /\ Goto(t, "send_busy", "tun_write")
  /\ set_busy(fi[t], TRUE)
  /\ UNCHANGED <<rx, localVars, bufferVars, status>>

\* tun_write hands frame[ptr[t]] to the kernel.
TunWrite(t) ==
  /\ Goto(t, "tun_write", "send_done")
  /\ UNCHANGED <<tunVars, localVars, bufferVars, status>>

\* What the caller of net_interface_send does next.
Return(t) == IF req[t] # NoRequest /\ req[t].exits
             THEN "exit" ELSE "read_available"

SendDone(t) ==
  /\ Goto(t, "send_done", Return(t))
  /\ set_busy(fi[t], FALSE)
  /\ fi' = [fi EXCEPT ![t] = NoQueue]
  /\ req' = [req EXCEPT ![t] = NoRequest]
  /\ ptr' = [ptr EXCEPT ![t] = NULL]
  /\ shared' = [shared EXCEPT ![t] = FALSE]
  /\ UNCHANGED <<rx, bufferVars, status>>

-----------------------------------------------------------------------------
(***************************************************************************)
(* exit(1): the atexit handler destroy() runs net_interface_destroy in the *)
(* exiting thread while the others go on.  fi[t] is its loop index i.      *)
(***************************************************************************)

Exit(t) ==
  /\ status = "running"
  /\ Goto(t, "exit", "destroy")
  /\ status' = "exiting"
  /\ fi' = [fi EXCEPT ![t] = 0]
  /\ UNCHANGED <<tunVars, req, ptr, shared, bufferVars>>

\* A second exit() finds no handler left to run and ends the process.
ExitAgain(t) ==
  /\ status = "exiting"
  /\ pc[t] = "exit"
  /\ status' = "ended"
  /\ UNCHANGED <<tunVars, pc, localVars, bufferVars>>

\* A faulty net_interface_destroy whose loop runs up to i <= TUN_QUEUES.
DestroyOnePast(t) ==
  /\ fi[t] \in 0..TUN_QUEUES
  /\ Goto(t, "destroy", "destroy")
  /\ heap' = IF fi[t] \notin Queues \/ buffers[fi[t]] = NULL THEN heap
             ELSE [heap EXCEPT ![buffers[fi[t]]].live = FALSE]
  /\ fi' = [fi EXCEPT ![t] = @ + 1]
  /\ UNCHANGED <<tunVars, req, ptr, shared, buffers, buffers_size, mut_buffer,
                 frame, status>>

\* One iteration of net_interface_destroy: free buffers[i].
Destroy(t) ==
  /\ fi[t] \in Queues
  /\ Goto(t, "destroy", "destroy")
  /\ heap' = IF buffers[fi[t]] = NULL THEN heap
             ELSE [heap EXCEPT ![buffers[fi[t]]].live = FALSE]
  /\ fi' = [fi EXCEPT ![t] = @ + 1]
  /\ UNCHANGED <<tunVars, req, ptr, shared, buffers, buffers_size, mut_buffer,
                 frame, status>>

Destroyed(t) ==
  /\ Alive
  /\ pc[t] = "destroy"
  /\ fi[t] = TUN_QUEUES
  /\ status' = "ended"
  /\ UNCHANGED <<tunVars, pc, localVars, bufferVars>>

Terminated ==
  /\ ~ Alive
  /\ UNCHANGED vars

-----------------------------------------------------------------------------
ReadStep(t) == ReadAvailable(t) \/ ReadBusy(t) \/ TunRead(t) \/ ReadDone(t)

HandleStep(t) ==
  \/ HandleDrops(t)
  \/ \E r \in Requests : HandleSends(t, r)
  \/ HandleExits(t)

SendStep(t) ==
  \/ SendAvailable(t)
  \/ EnsureHasSize(t) \/ HasSize(t) \/ ReallocOfFreed(t) \/ StoreBuffer(t)
  \/ LoadBuffer(t) \/ CopyType(t) \/ CopyMac(t) \/ CopyPayload(t) \/ Hton(t)
  \/ SendBusy(t) \/ TunWrite(t) \/ SendDone(t)

ExitStep(t) == Exit(t) \/ ExitAgain(t) \/ Destroy(t) \/ Destroyed(t)

ThreadStep(t) == ReadStep(t) \/ HandleStep(t) \/ SendStep(t) \/ ExitStep(t)

KernelStep ==
  /\ Alive
  /\ \E q \in Queues : FrameArrives(q)
  /\ UNCHANGED <<pc, localVars, bufferVars, status>>

Next ==
  \/ \E t \in Threads : ThreadStep(t) \/ TunReadFails(t)
  \/ KernelStep
  \/ Terminated

Spec == Init /\ [][Next]_vars

\* The scheduler runs every thread that can run; a thread blocked in read()
\* or on the mutex cannot.  Nothing forces frames to arrive or read() to fail.
Fairness == \A t \in Threads : WF_vars(ThreadStep(t))

FairSpec == Spec /\ Fairness

-----------------------------------------------------------------------------
(***************************************************************************)
(* Properties.                                                             *)
(***************************************************************************)

\* The thread is between the set_busy(fi, true) and the set_busy(fi, false)
\* of one net_interface_read or net_interface_send.
Holds(t) == pc[t] \in {"tun_read", "read_done", "tun_write", "send_done"}

\* No busy flag is left behind: a queue flagged busy has a thread that is
\* still going to clear it, although two threads may share a queue and the
\* first to finish clears the flag for both (tun_device.c:73, the unlocked
\* gap between available() and set_busy() in net_interface.c:53-80, 90-98).
BusyIsHeld ==
  \A q \in Queues : busy_status[q] => \E t \in Threads : Holds(t) /\ fi[t] = q

\* With no more threads than queues available() always finds a queue, so
\* net_interface_send never reaches its abort() and available() never scans
\* past the end of busy_status (tun_device.c:81, net_interface.c:56-59).
AvailableNeverFails ==
  /\ status # "aborted"
  /\ \A t \in Threads : pc[t] \in {"read_available", "send_available"}
                          => ~ available(NoQueue)

\* The thread is in read(), or about to be.
Waiting(t) == pc[t] \in {"read_busy", "tun_read"}

\* However threads share queues and clear each other's flags, they never all
\* wait for frames on other queues: one of them waits on the first, so that a
\* frame there finds a reader (tun_device.c:78-87, net_interface.c:89-98).
FirstQueueHasReader ==
  (\A t \in Threads : Waiting(t)) => \E t \in Threads : fi[t] = 0

\* Outside the locked section, buffers_size tells the real size of the block
\* in buffers, and that block is allocated (net_interface.c:38-43).
SizeIsReal ==
  status = "running" =>
    \A q \in Queues :
      (\A t \in Threads : mut_buffer = t => fi[t] # q) =>
        IF buffers[q] = NULL
        THEN buffers_size[q] = 0
        ELSE /\ heap[buffers[q]].live
             /\ heap[buffers[q]].room = buffers_size[q]

\* From the return of ensure_has_size on, the recorded size of the thread's
\* queue covers its frame, whatever other senders do to that buffer
\* (net_interface.c:61-79).
EnsuredSize ==
  \A t \in Threads :
    InBuffer(t) /\ pc[t] \notin {"ensure_has_size", "store_buffer"}
      => buffers_size[fi[t]] >= TotalSize(req[t])

\* A sender that had its queue's buffer for itself writes exactly the frame
\* it was asked for, in network order, from an allocated block with room for
\* it: sharing a queue is the only way to spoil a frame
\* (net_interface.c:61-79).
IntactUnlessShared ==
  \A t \in Threads :
    status = "running" /\ pc[t] = "tun_write" /\ ~ shared[t] =>
      /\ heap[ptr[t]].live
      /\ heap[ptr[t]].room >= TotalSize(req[t])
      /\ frame[ptr[t]] = WireFrame(req[t])

\* A call of net_interface_send returns (net_interface.c:50-81), unless the
\* process is on its way out.
SendReturns ==
  \A t \in Threads :
    pc[t] = "send_available"
      ~> (pc[t] \in {"read_available", "exit"} \/ status # "running")

\* What makes TypeOK inductive: a thread inside net_interface_send has its
\* arguments, and once it has a queue the queue is one of the device's.
LocalsOK ==
  \A t \in Threads :
    /\ InSend(t) => req[t] \in Requests
    /\ InBuffer(t) \/ pc[t] = "send_done"
         => fi[t] \in Queues \/ status = "aborted"
=============================================================================
