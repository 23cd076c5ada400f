----------------------------- MODULE TunDevice -----------------------------
(***************************************************************************)
(* The multi-queue tap device of src/tun_device.c: the table of busy flags *)
(* that the worker threads share, and the kernel's side of the queues.     *)
(*                                                                         *)
(* available() and set_busy() hold mut_status for their whole body, so     *)
(* each of them is one atomic step; choosing a queue with available() and  *)
(* claiming it with set_busy() are two.  tun_fds never changes once        *)
(* tun_init has filled it, so a queue is named by its index.               *)
(***************************************************************************)
EXTENDS Integers

CONSTANTS TUN_QUEUES,   \* number of queues of the device (10 in the build)
          Backlog       \* how many unread frames the kernel keeps per queue

ASSUME TunAssumption ==
  /\ TUN_QUEUES \in 1..127         \* available() returns an int8_t
  /\ Backlog \in Nat \ {0}

VARIABLES busy_status,  \* busy_status[q]: the flag of queue q
          rx            \* rx[q]: number of frames waiting in queue q (kernel)

tunVars == <<busy_status, rx>>

Queues == 0..(TUN_QUEUES - 1)

\* The -1 that available() returns when it finds no queue.
NoQueue == -1

TunTypeOK ==
  /\ busy_status \in [Queues -> BOOLEAN]
  /\ rx \in [Queues -> 0..Backlog]

TunInit ==
  /\ busy_status = [q \in Queues |-> FALSE]
  /\ rx = [q \in Queues |-> 0]

-----------------------------------------------------------------------------
\* A faulty available() that stops one queue short, as an i < TUN_QUEUES - 1
\* in the scan would.
AvailableOneShort(i) ==
  /\ i # TUN_QUEUES - 1
  /\ \A j \in 0..(TUN_QUEUES - 2) : (j < i \/ i = NoQueue) => busy_status[j]
  /\ i # NoQueue => ~ busy_status[i]

\* available() returns i: the first queue, from 0 on, that is not flagged
\* busy, or NoQueue when every flag is set.  The loop has no bound: with every
\* flag set it reads past the array before the test for -1.  NetInterface's
\* AvailableNeverFails says that no call meets that case.
available(i) ==
  /\ \A j \in Queues : (j < i \/ i = NoQueue) => busy_status[j]
  /\ i # NoQueue => ~ busy_status[i]

\* set_busy(fi, busy).
set_busy(i, busy) == busy_status' = [busy_status EXCEPT ![i] = busy]

-----------------------------------------------------------------------------
\* The kernel queues one more frame on queue q; the flow decides which queue.
FrameArrives(q) ==
  /\ rx[q] < Backlog
  /\ rx' = [rx EXCEPT ![q] = @ + 1]
  /\ UNCHANGED busy_status

\* A read() on queue q returns: it blocks until there is a frame, and takes it.
tun_read(q) ==
  /\ rx[q] > 0
  /\ rx' = [rx EXCEPT ![q] = @ - 1]
=============================================================================
