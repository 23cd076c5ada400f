----------------------------- MODULE TunSetup -----------------------------
(***************************************************************************)
(* tun_init and tun_alloc of src/tun_device.c: opening the queues of the   *)
(* TAP device and bringing the interface up, any call of which can fail.   *)
(***************************************************************************)
EXTENDS Integers

CONSTANTS TUN_QUEUES,
          Unset      \* the value of a variable nothing was assigned to

ASSUME SetupAssumption == TUN_QUEUES \in Nat \ {0} /\ Unset \notin Int

VARIABLES pc,
          i, err,    \* tun_alloc: its variables
          files,     \* the open files: a queue's, or -1 for one not in fds yet
          named,     \* the name of the device was copied to dev
          returned,  \* what tun_alloc returned, or Unset
          status     \* of the process

vars == <<pc, i, err, files, named, returned, status>>

Queues == 0..(TUN_QUEUES - 1)

TypeOK ==
  /\ pc \in {"open", "ioctl", "close", "alloc_done", "up", "route", "main"}
  /\ i \in -1..TUN_QUEUES
  /\ err \in {Unset, 0, -1}
  /\ files \subseteq Queues \cup {-1}
  /\ named \in BOOLEAN
  /\ returned \in {Unset, 0, -1}
  /\ status \in {"starting", "running", "aborted"}

Init ==
  /\ pc = "open" /\ i = 0 /\ err = Unset
  /\ files = {} /\ named = FALSE
  /\ returned = Unset
  /\ status = "starting"

Goto(from, to) == status = "starting" /\ pc = from /\ pc' = to

\* open("/dev/net/tun").
Open ==
  /\ Goto("open", "ioctl")
  /\ i < TUN_QUEUES
  /\ files' = files \cup {-1}
  /\ UNCHANGED <<i, err, named, returned, status>>

OpenFails ==
  /\ Goto("open", "close")
  /\ i < TUN_QUEUES
  /\ i' = i - 1
  /\ UNCHANGED <<err, files, named, returned, status>>

\* ioctl(fd, TUNSETIFF, &ifr), and fds[i] = fd.
Ioctl ==
  /\ Goto("ioctl", "open")
  /\ err' = 0
  /\ files' = (files \ {-1}) \cup {i}
  /\ i' = i + 1
  /\ UNCHANGED <<named, returned, status>>

IoctlFails ==
  /\ Goto("ioctl", "close")
  /\ err' = -1
  /\ files' = files \ {-1}
  /\ i' = i - 1
  /\ UNCHANGED <<named, returned, status>>

\* The loop ends: the name is copied.
Allocated ==
  /\ Goto("open", "alloc_done")
  /\ i = TUN_QUEUES
  /\ named' = TRUE
  /\ returned' = 0
  /\ UNCHANGED <<i, err, files, status>>

\* A faulty error path that does not close the first queue.
MoreThanFirst == i > 0

\* A faulty error path that goes one step too far.
MoreThanAll == i >= -1

\* The condition of the loop after the label err.
MoreToClose == i >= 0

Close ==
  /\ Goto("close", "close")
  /\ MoreToClose
  /\ files' = files \ {i}
  /\ i' = i - 1
  /\ UNCHANGED <<err, named, returned, status>>

\* return err.  Nothing was assigned to it when the first open failed.
ReturnErr ==
  /\ Goto("close", "alloc_done")
  /\ ~ MoreToClose
  /\ returned' \in IF err = Unset THEN {0, -1} ELSE {err}
  /\ UNCHANGED <<i, err, files, named, status>>

Abort ==
  /\ status' = "aborted"
  /\ UNCHANGED <<pc, i, err, files, named, returned>>

\* tun_init: the test of what tun_alloc returned.
AllocFailed ==
  /\ status = "starting" /\ pc = "alloc_done"
  /\ returned # 0
  /\ Abort

AllocSucceeded ==
  /\ Goto("alloc_done", "up")
  /\ returned = 0
  /\ UNCHANGED <<i, err, files, named, returned, status>>

\* A faulty tun_init that only reports that the interface is not up.
InterfaceNotUpIgnored ==
  /\ Goto("up", "route")
  /\ UNCHANGED <<i, err, files, named, returned, status>>

\* ip link set dev <dev> up, which cannot succeed without a name.
InterfaceUp ==
  /\ Goto("up", "route")
  /\ named
  /\ UNCHANGED <<i, err, files, named, returned, status>>

InterfaceNotUp ==
  /\ status = "starting" /\ pc = "up"
  /\ Abort

\* ip route add dev <dev> 10.0.0.0/24; main goes on.
Route ==
  /\ Goto("route", "main")
  /\ status' = "running"
  /\ UNCHANGED <<i, err, files, named, returned>>

RouteFails ==
  /\ status = "starting" /\ pc = "route"
  /\ Abort

SetUp == status # "starting" /\ UNCHANGED vars

Next ==
  \/ Open \/ OpenFails
  \/ Ioctl \/ IoctlFails
  \/ Allocated \/ Close \/ ReturnErr
  \/ AllocFailed \/ AllocSucceeded
  \/ InterfaceUp \/ InterfaceNotUp
  \/ Route \/ RouteFails
  \/ SetUp

Spec == Init /\ [][Next]_vars

-----------------------------------------------------------------------------
(***************************************************************************)
(* Properties.                                                             *)
(***************************************************************************)

\* main only goes on with every queue open, even when tun_alloc hides that it
\* failed (tun_device.c:100-115).
RunsWithAllQueues == status = "running" => files = Queues

\* tun_alloc leaves all of the queues open or none, at whichever call of
\* whichever queue it failed (tun_device.c:52-68).
AllOrNothing == pc = "alloc_done" => files \in {{}, Queues}
=============================================================================
