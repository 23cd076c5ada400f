----------------------------- MODULE ArpCache -----------------------------
(***************************************************************************)
(* The ARP cache of src/protocols/arp.c, shared by the threads of main.c.  *)
(*                                                                         *)
(* The cache is the table of module Hashmap: a key is a (protocol type,    *)
(* IPv4 address) pair, a value the address of a 6-byte cell on the heap    *)
(* that holds a MAC address.  cache_mutex is held for lookups by           *)
(* is_in_arp_cache and for hashmap_put.  hashmap_get is called without it, *)
(* and is modelled one memory access at a time; the cells are written and  *)
(* read without it too, as the two words memcpy moves.                     *)
(*                                                                         *)
(* What a thread sends is composed from the frame it handles and, for an   *)
(* echo reply, from the cell arp_resolve_ipv4 returned; module             *)
(* NetInterface models the sending.                                        *)
(***************************************************************************)
EXTENDS Hashmap

CONSTANTS Threads,
          Frames,    \* the frames that arrive, each once and in any order
          Word,      \* the values of one word of a MAC address
          ZeroWord,
          NULL, NoFrame, NoThread

Mac == Word \X Word

\* arp: ARP packet whose sender is key; known: its hardware and protocol type
\* are supported; target: it is addressed to us.  echo: ICMP echo request that
\* ip_receive and icmp_receive accept, from key.
Frame == [kind : {"arp", "echo"}, key : Keys, mac : Mac, known : BOOLEAN,
          target : BOOLEAN, opcode : {"request", "reply", "other"}]

ASSUME ArpAssumption ==
  /\ Frames \subseteq Frame /\ NoFrame \notin Frame
  /\ ZeroWord \in Word
  /\ NULL \notin Values /\ NULL \notin Keys /\ NoThread \notin Threads

VARIABLES pc,           \* what the thread does next
          pkt,          \* the frame it handles, or NoFrame
          index,        \* hashmap_indexof: index; arp_destroy: the iterator's
          el,           \* hashmap_get: which array el points into, and where
          dst_mac,      \* the cell the thread writes to or sends to, or NULL
          mac,          \* net_interface_send: the address copied so far
          mem,          \* the contents of the cells
          owner,        \* history: the key a cell was allocated for, or NULL
          cache_mutex,  \* its holder, or NoThread
          generation,   \* how often map->array was replaced
          freed,        \* how often arp_destroy freed a cell
          gone,         \* the keys whose memory arp_destroy freed
          pending,      \* the frames that have not arrived
          status,       \* of the process
          overlap       \* history: the table grew under an unlocked reader

localVars == <<pkt, index, el, dst_mac, mac>>
cellVars == <<mem, owner>>
exitVars == <<freed, gone, status>>
sharedVars == <<mapVars, cellVars, cache_mutex, generation, exitVars, pending>>
arpVars == <<pc, localVars, sharedVars, overlap>>

Label == {"read", "check", "hash", "element", "probe", "fetch", "value",
          "merge", "merge_low", "set", "add", "put", "expand", "reply",
          "resolved", "copy", "send", "exit", "destroy"}

ArpTypeOK ==
  /\ TypeOK
  /\ pc \in [Threads -> Label]
  /\ pkt \in [Threads -> Frames \cup {NoFrame}]
  /\ index \in [Threads -> Nat]
  /\ el \in [Threads -> [gen : Nat, at : Nat]]
  /\ dst_mac \in [Threads -> Values \cup {NULL}]
  /\ mac \in [Threads -> Mac]
  /\ mem \in [Values -> Mac]
  /\ owner \in [Values -> Keys \cup {NULL}]
  /\ cache_mutex \in Threads \cup {NoThread}
  /\ generation \in Nat
  /\ freed \in [Values -> Nat]
  /\ gone \subseteq Keys
  /\ pending \subseteq Frames
  /\ status \in {"running", "exiting", "ended", "aborted", "undefined"}
  /\ overlap \in BOOLEAN

\* arp_init, and the threads main starts.
ArpInit ==
  /\ Init
  /\ pc = [t \in Threads |-> "read"]
  /\ pkt = [t \in Threads |-> NoFrame]
  /\ index = [t \in Threads |-> 0]
  /\ el = [t \in Threads |-> [gen |-> 0, at |-> 0]]
  /\ dst_mac = [t \in Threads |-> NULL]
  /\ mac = [t \in Threads |-> <<ZeroWord, ZeroWord>>]
  /\ mem = [c \in Values |-> <<ZeroWord, ZeroWord>>]
  /\ owner = [c \in Values |-> NULL]
  /\ cache_mutex = NoThread
  /\ generation = 0
  /\ freed = [c \in Values |-> 0]
  /\ gone = {}
  /\ pending = Frames
  /\ status = "running"
  /\ overlap = FALSE

Alive == status \in {"running", "exiting"}

Goto(t, from, to) == pc[t] = from /\ pc' = [pc EXCEPT ![t] = to]

\* Locals that are gone when their function returns: back in process_io the
\* frame is dealt with ...
LeaveHandler(t) ==
  pkt' = [pkt EXCEPT ![t] = IF pc'[t] = "read" THEN NoFrame ELSE @]

\* ... and so is what hashmap_indexof used.
LeaveGet(t) ==
  /\ index' = [index EXCEPT ![t] = 0]
  /\ el' = [el EXCEPT ![t] = [gen |-> 0, at |-> 0]]

-----------------------------------------------------------------------------
(***************************************************************************)
(* Frames and lookups.                                                     *)
(***************************************************************************)

\* process_io reads a frame and hands it to arp_receive, which drops what it
\* does not support, or by way of ip_receive, icmp_receive and ip_send_packet
\* to arp_resolve_ipv4.
Receive(t) ==
  \E f \in pending :
    /\ Goto(t, "read", IF f.known THEN "check" ELSE "read")
    /\ pkt' = [pkt EXCEPT ![t] = IF f.known THEN f ELSE NoFrame]
    /\ pending' = pending \ {f}
    /\ UNCHANGED <<index, el, dst_mac, mac, mapVars, cellVars, cache_mutex,
                   generation, exitVars>>

\* A faulty arp_receive that answers without adding the sender.
AbsentAnswers(f) == CASE f.kind = "echo" -> "exit"
                      [] f.kind = "arp" /\ f.target -> "reply"
                      [] OTHER -> "read"

\* Where the code goes when the key is not in the cache: a sender that
\* addresses us is added; ip_send_packet gives up, once arp_resolve_ipv4 has
\* broadcast a request.
Absent(f) == CASE f.kind = "echo" -> "exit"
               [] f.kind = "arp" /\ f.target -> "add"
               [] OTHER -> "read"

\* is_in_arp_cache.  It changes nothing and nobody changes the table while it
\* holds the mutex, so it is one step.
is_in_arp_cache(t) ==
  /\ cache_mutex = NoThread
  /\ pc[t] = "check"
  /\ Goto(t, "check", IF hashmap_contains_key(pkt[t].key) THEN "hash"
                                                       ELSE Absent(pkt[t]))
  /\ LeaveHandler(t)
  /\ UNCHANGED <<index, el, dst_mac, mac, sharedVars>>

\* hashmap_get, without the mutex: hash & (map->capacity - 1) ...
GetHash(t) ==
  /\ Goto(t, "hash", "element")
  /\ index' = [index EXCEPT ![t] = Hash[pkt[t].key] % capacity]
  /\ UNCHANGED <<pkt, el, dst_mac, mac, sharedVars>>

\* ... &(map->array[index]), in hashmap_indexof and again in
\* hashmap_get_or_default ...
GetElement(t, from, to) ==
  /\ Goto(t, from, to)
  /\ el' = [el EXCEPT ![t] = [gen |-> generation, at |-> index[t]]]
  /\ UNCHANGED <<pkt, index, dst_mac, mac, sharedVars>>

\* What a read of *el can see: the array in use, the one hashmap_expand is
\* moving, or anything once that one is freed.
Element(t) == CASE el[t].gen = generation -> {array[el[t].at]}
                [] el[t].gen = generation - 1 /\ ~ Idle -> {old[el[t].at]}
                [] OTHER -> Slot

\* A faulty hashmap_indexof that stops at the first used slot.
StopsAtUsed(slot, k) == FALSE

\* The test of the loop of hashmap_indexof.
HoldsOther(slot, k) == slot # Unused /\ slot.key # k

\* ... the loop ...
GetProbe(t) ==
  /\ pc[t] = "probe"
  /\ \E slot \in Element(t) :
       LET collides == HoldsOther(slot, pkt[t].key) IN
       /\ Goto(t, "probe", IF collides THEN "element" ELSE "fetch")
       /\ index' = IF collides THEN [index EXCEPT ![t] = (@ + 1) % capacity]
                               ELSE index
  /\ UNCHANGED <<pkt, el, dst_mac, mac, sharedVars>>

\* ... and the value of the element, or NULL.
GetValue(t) ==
  /\ pc[t] = "value"
  /\ \E slot \in Element(t) :
       dst_mac' = [dst_mac EXCEPT ![t] = IF slot = Unused THEN NULL
                                                          ELSE slot.value]
  /\ Goto(t, "value", IF pkt[t].kind = "arp" THEN "merge" ELSE "resolved")
  /\ LeaveGet(t)
  /\ UNCHANGED <<pkt, mac, sharedVars>>

\* A faulty hashmap_indexof that loads map->array before map->capacity.
GetArrayFirst(t) ==
  \/ /\ Goto(t, "hash", "element")
     /\ el' = [el EXCEPT ![t].gen = generation]
     /\ UNCHANGED <<pkt, index, dst_mac, mac, sharedVars>>
  \/ /\ Goto(t, "element", "probe")
     /\ index' = [index EXCEPT ![t] = Hash[pkt[t].key] % capacity]
     /\ el' = [el EXCEPT ![t].at = index'[t]]
     /\ UNCHANGED <<pkt, dst_mac, mac, sharedVars>>
  \/ GetProbe(t)
  \/ GetElement(t, "fetch", "value")
  \/ GetValue(t)

hashmap_get(t) ==
  \/ GetHash(t)
  \/ GetElement(t, "element", "probe")
  \/ GetProbe(t)
  \/ GetElement(t, "fetch", "value")
  \/ GetValue(t)

-----------------------------------------------------------------------------
(***************************************************************************)
(* Changing the cache.                                                     *)
(***************************************************************************)

\* set_in_arp_cache: the assertion at line 60 ...
AssertFails(t) ==
  /\ pc[t] = "merge" /\ dst_mac[t] = NULL
  /\ status' = "aborted"
  /\ UNCHANGED <<pc, localVars, mapVars, cellVars, cache_mutex, generation,
                 freed, gone, pending>>

\* ... and memcpy(dst_mac, src_mac, 6), w being the word it writes.
MergeWord(t, w, from, to) ==
  /\ Goto(t, from, to)
  /\ dst_mac[t] # NULL
  /\ mem' = [mem EXCEPT ![dst_mac[t]][w] = pkt[t].mac[w]]
  /\ UNCHANGED <<localVars, mapVars, owner, cache_mutex, generation, exitVars,
                 pending>>

\* A faulty add_to_arp_cache that keeps addresses in one static buffer.
StaticCell == Values

\* What calloc can return.
NewCell == {c \in Values : owner[c] = NULL}

\* A faulty add_to_arp_cache that forgets to copy the address.
LeaveZero(t, c) == mem' = [mem EXCEPT ![c] = <<ZeroWord, ZeroWord>>]

\* memcpy(dst_mac, src_mac, 6) into a cell nobody else can reach yet.
FillCell(t, c) == mem' = [mem EXCEPT ![c] = pkt[t].mac]

\* add_to_arp_cache up to its hashmap_put.  Cells only differ in what is kept
\* about them, so it does not matter which one calloc returns.
AddCell(t) ==
  /\ Goto(t, "add", "put")
  /\ NewCell # {}
  /\ LET c == CHOOSE c \in NewCell : TRUE IN
     /\ dst_mac' = [dst_mac EXCEPT ![t] = c]
     /\ FillCell(t, c)
     /\ owner' = [owner EXCEPT ![c] = pkt[t].key]
  /\ UNCHANGED <<pkt, index, el, mac, mapVars, cache_mutex, generation,
                 exitVars, pending>>

\* arp_receive answers a request; NetInterface takes over from there.
Answered(t) == IF pkt[t].target /\ pkt[t].opcode = "request" THEN "reply"
                                                           ELSE "read"

\* A faulty add_to_arp_cache that forgets the cell.
CellForgotten(t) == [key |-> pkt[t].key, value |-> NULL]

\* What hashmap_put is given.
Cell(t) == [key |-> pkt[t].key, value |-> dst_mac[t]]

\* hashmap_put under the mutex, from set_in_arp_cache and add_to_arp_cache.
PutInCache(t, from) ==
  /\ cache_mutex = NoThread
  /\ pc[t] = from
  /\ Goto(t, from, Answered(t))
  /\ hashmap_put(Cell(t))
  /\ LeaveHandler(t)
  /\ dst_mac' = [dst_mac EXCEPT ![t] = NULL]
  /\ UNCHANGED <<index, el, mac, cellVars, cache_mutex, generation, exitVars,
                 pending>>

\* A hashmap_put that grows the table keeps the mutex until it is done.
PutGrowsCache(t, from) ==
  /\ cache_mutex = NoThread
  /\ pc[t] = from
  /\ Goto(t, from, "expand")
  /\ PutExpands(Cell(t))
  /\ generation' = generation + 1
  /\ cache_mutex' = t
  /\ dst_mac' = [dst_mac EXCEPT ![t] = NULL]
  /\ UNCHANGED <<pkt, index, el, mac, cellVars, exitVars, pending>>

Expand(t) ==
  /\ Goto(t, "expand", "expand")
  /\ ExpandMoves \/ ExpandSkips
  /\ UNCHANGED <<localVars, cellVars, cache_mutex, generation, exitVars,
                 pending>>

\* A faulty set_in_arp_cache that returns without releasing the mutex.
StaysLocked == UNCHANGED cache_mutex

unlock == cache_mutex' = NoThread

Expanded(t) ==
  /\ pc[t] = "expand"
  /\ Goto(t, "expand", Answered(t))
  /\ ExpandEnds
  /\ unlock
  /\ LeaveHandler(t)
  /\ UNCHANGED <<index, el, dst_mac, mac, cellVars, generation, exitVars,
                 pending>>

arp_reply(t) ==
  /\ Goto(t, "reply", "read")
  /\ LeaveHandler(t)
  /\ UNCHANGED <<index, el, dst_mac, mac, sharedVars>>

-----------------------------------------------------------------------------
(***************************************************************************)
(* Using the cache, and exit().                                            *)
(***************************************************************************)

\* ip_send_packet exits when arp_resolve_ipv4 returned NULL.
Unresolved(t) ==
  /\ dst_mac[t] = NULL
  /\ Goto(t, "resolved", "exit")
  /\ UNCHANGED <<localVars, sharedVars>>

\* net_interface_send copies the address out of the cell, word w next.
CopyWord(t, w, from, to) ==
  /\ Goto(t, from, to)
  /\ dst_mac[t] # NULL
  /\ mac' = [mac EXCEPT ![t][w] = mem[dst_mac[t]][w]]
  /\ UNCHANGED <<pkt, index, el, dst_mac, sharedVars>>

Sent(t) ==
  /\ Goto(t, "send", "read")
  /\ LeaveHandler(t)
  /\ dst_mac' = [dst_mac EXCEPT ![t] = NULL]
  /\ mac' = [mac EXCEPT ![t] = <<ZeroWord, ZeroWord>>]
  /\ UNCHANGED <<index, el, sharedVars>>

\* exit(1) runs destroy(), and so arp_destroy(), once; a second exit() finds
\* no handler left and ends the process.
Exit(t) ==
  /\ status = "running"
  /\ Goto(t, "exit", "destroy")
  /\ status' = "exiting"
  /\ UNCHANGED <<localVars, mapVars, cellVars, cache_mutex, generation, freed,
                 gone, pending>>

Ends ==
  /\ status' = "ended"
  /\ UNCHANGED <<pc, localVars, mapVars, cellVars, cache_mutex, generation,
                 freed, gone, pending>>

ExitAgain(t) == status = "exiting" /\ pc[t] = "exit" /\ Ends

\* One iteration of the loop of arp_destroy, without the mutex: the iterator's
\* next used slot (HashmapIterator), whose key and cell are freed.
DestroyEntry(t) ==
  /\ pc[t] = "destroy"
  /\ \E j \in Used :
       /\ j >= index[t] /\ \A n \in Used : n >= index[t] => j <= n
       /\ freed' = [freed EXCEPT ![array[j].value] = @ + 1]
       /\ gone' = gone \cup {array[j].key}
       /\ index' = [index EXCEPT ![t] = j + 1]
  /\ UNCHANGED <<pc, pkt, el, dst_mac, mac, mapVars, cellVars, cache_mutex,
                 generation, status, pending>>

\* free_hashmap, after which little is left of the process.
DestroyEnds(t) ==
  /\ pc[t] = "destroy"
  /\ \A j \in Used : j < index[t]
  /\ Ends

\* hashmap_indexof(k) compares k with a key that was freed.
ComparesFreed(k) ==
  \E d \in Index : LET slot == array[Probe(k, d)] IN
    /\ slot # Unused /\ slot.key \in gone
    /\ \A e \in Index : e < d => Collides(k, e)

\* The next step of the thread reads or writes what arp_destroy has freed.
UsesFreed(t) ==
  /\ gone # {}
  /\ CASE pc[t] \in {"check", "set", "put"} ->
             cache_mutex = NoThread /\ ComparesFreed(pkt[t].key)
       [] pc[t] = "probe" ->
             \E slot \in Element(t) : slot # Unused /\ slot.key \in gone
       [] pc[t] = "expand" ->
             LET e == IF Moving THEN old[i] ELSE todo IN
             e # Unused /\ (e.key \in gone \/ ComparesFreed(e.key))
       [] pc[t] \in {"merge", "merge_low", "resolved", "copy"} ->
             dst_mac[t] # NULL /\ freed[dst_mac[t]] > 0
       [] OTHER -> FALSE

\* That is undefined, and so is everything after it.
UseFreed(t) ==
  /\ UsesFreed(t)
  /\ status' = "undefined"
  /\ UNCHANGED <<pc, localVars, mapVars, cellVars, cache_mutex, generation,
                 freed, gone, pending>>

-----------------------------------------------------------------------------
set_in_arp_cache(t) ==
  \/ AssertFails(t)
  \/ MergeWord(t, 1, "merge", "merge_low")
  \/ MergeWord(t, 2, "merge_low", "set")
  \/ PutInCache(t, "set")
  \/ PutGrowsCache(t, "set")

add_to_arp_cache(t) ==
  \/ AddCell(t)
  \/ PutInCache(t, "put")
  \/ PutGrowsCache(t, "put")

ip_send_packet(t) ==
  \/ Unresolved(t)
  \/ CopyWord(t, 1, "resolved", "copy")
  \/ CopyWord(t, 2, "copy", "send")
  \/ Sent(t)

arp_destroy(t) == DestroyEntry(t) \/ DestroyEnds(t)

ExitStep(t) == Exit(t) \/ ExitAgain(t) \/ arp_destroy(t)

\* A thread uses the table without the mutex.
Reading(t) == pc[t] \in {"element", "probe", "fetch", "value", "destroy"}

Growing == old # NoArray

Handle(t) ==
  \/ Receive(t)
  \/ is_in_arp_cache(t)
  \/ hashmap_get(t)
  \/ set_in_arp_cache(t)
  \/ add_to_arp_cache(t)
  \/ Expand(t) \/ Expanded(t)
  \/ arp_reply(t)
  \/ ip_send_packet(t)
  \/ ExitStep(t)

ThreadStep(t) ==
  /\ Alive
  /\ UseFreed(t) \/ (~ UsesFreed(t) /\ Handle(t))
  /\ overlap' = (overlap \/ (Growing' /\ \E u \in Threads : Reading(u)'))

\* The process has ended, or every thread waits for a frame.
Stopped ==
  /\ ~ Alive \/ (pending = {} /\ \A t \in Threads : pc[t] = "read")
  /\ UNCHANGED arpVars

ArpNext == (\E t \in Threads : ThreadStep(t)) \/ Stopped

ArpSpec == ArpInit /\ [][ArpNext]_arpVars

\* The scheduler runs every thread that can run.
ArpFairSpec == ArpSpec /\ \A t \in Threads : WF_arpVars(ThreadStep(t))

-----------------------------------------------------------------------------
(***************************************************************************)
(* Properties.                                                             *)
(***************************************************************************)

CachedKeys == {e.key : e \in Entries}

\* set_in_arp_cache is called "only if (pro_type, src_ip) is in the transition
\* table" (arp.c:53) and this stays so until its hashmap_put, which therefore
\* never stores the address of its local variable key (arp.c:57, 63); and a
\* request is only answered once its sender is in the cache, so that an echo
\* request sent upon the answer is resolved (arp.c:179-197).
MergedIsCached ==
  \A t \in Threads :
    pc[t] \in {"hash", "element", "probe", "fetch", "value", "merge",
              "merge_low", "set", "resolved", "reply"}
      => pkt[t].key \in CachedKeys

\* While the table does not grow under it, the unlocked hashmap_get of a key
\* that was in the cache returns a cell of that key, though other threads add
\* and replace entries meanwhile (arp.c:59, 220).
GetsOwnCell ==
  ~ overlap => \A t \in Threads : pc[t] \in {"merge", "set", "resolved"} =>
                 dst_mac[t] # NULL /\ owner[dst_mac[t]] = pkt[t].key

\* The unlocked hashmap_get reads no slot past the end of the array it looks at,
\* be it the array in use or the smaller one hashmap_expand is still moving: an
\* index reduced by the new capacity is only ever used with the new array, which
\* is installed first and loaded last (arp.c:59, 220; hashmap.c:60-61, 66-67,
\* 90, 179-181).
ReadsInBounds ==
  \A t \in Threads : pc[t] \in {"probe", "value"} =>
    /\ el[t].gen = generation => el[t].at \in Index
    /\ el[t].gen = generation - 1 /\ Growing => el[t].at \in OldIndex

\* Unless the table grew under a thread that used it without the mutex,
\* arp_destroy frees no cell twice: no two entries ever come to share one, in
\* whichever order threads add and merge them before it and, up to the first
\* use of what is freed, during it (arp.c:61-63, 69-74, 120-121).
FreedOnce == ~ overlap => \A c \in Values : freed[c] <= 1

\* The MAC addresses the sender of a key announced.
Announced(k) == {f.mac : f \in {g \in Frames : g.kind = "arp" /\ g.key = k}}

\* Unless the table grew under a reader, each word of the address an echo reply
\* is sent to was announced by its destination, although the cell may be
\* rewritten while it is copied: the reply may go to half an old and half a new
\* address of the host, but to no part of another host's and to no cell that
\* was not filled yet (arp.c:61, 69-74; net_interface.c:67).
SentToHost ==
  \A t \in Threads : ~ overlap /\ pc[t] = "send" =>
    \A w \in 1..2 : \E m \in Announced(pkt[t].key) : mac[t][w] = m[w]

\* Every frame is dealt with: a thread comes back to read the next one, unless
\* the process ends (cache_mutex is always released).
FramesAreHandled ==
  \A t \in Threads : pc[t] = "check" ~> (pc[t] = "read" \/ status # "running")

\* The assertion at arp.c:60.  It does not hold.
AssertionHolds == status # "aborted"
=============================================================================
