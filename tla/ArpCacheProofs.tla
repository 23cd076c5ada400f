--------------------------- MODULE ArpCacheProofs ---------------------------
(***************************************************************************)
(* Proofs about ArpCache, for any number of threads, any frames and any    *)
(* hash function and capacity: cache_mutex makes the cache a table of      *)
(* module Hashmap although hashmap_get is called without it, and what      *)
(* set_in_arp_cache relies on holds whenever it is called.                 *)
(***************************************************************************)
EXTENDS ArpCache, HashmapProofs

\* ArpTypeOK, but for the table and the history.
LocalTypes ==
  /\ pc \in [Threads -> Label]
  /\ pkt \in [Threads -> Frames \cup {NoFrame}]
  /\ index \in [Threads -> Nat]
  /\ el \in [Threads -> [gen : Nat, at : Nat]]
  /\ dst_mac \in [Threads -> Values \cup {NULL}]
  /\ mac \in [Threads -> Mac]

SharedTypes ==
  /\ mem \in [Values -> Mac]
  /\ owner \in [Values -> Keys \cup {NULL}]
  /\ cache_mutex \in Threads \cup {NoThread}
  /\ generation \in Nat
  /\ freed \in [Values -> Nat]
  /\ gone \subseteq Keys
  /\ pending \subseteq Frames
  /\ status \in {"running", "exiting", "ended", "aborted", "undefined"}

\* A thread that handles a frame has one, and one that writes to, stores or
\* sends to a cell has one.
HasData(t) ==
  /\ pc[t] # "read" => pkt[t] \in Frames
  /\ pc[t] \in {"merge_low", "set", "put", "copy", "send"} => dst_mac[t] \in Values

\* hashmap_get stays inside the array it looks at.
InBounds(t) ==
  /\ pc[t] # "destroy" => index[t] \in Index
  /\ el[t].gen <= generation
  /\ el[t].gen = generation => el[t].at \in Index
  /\ el[t].gen = generation - 1 /\ ~ Idle => el[t].at \in OldIndex

\* Only the holder of the mutex is growing the table, for the key it handles.
Expanding(t) ==
  pc[t] = "expand" => /\ cache_mutex = t
                      /\ ~ Idle
                      /\ todo \in Entry /\ todo.key = pkt[t].key

Lookup == {"hash", "element", "probe", "fetch", "value", "merge",
           "merge_low", "set", "resolved", "reply"}

KeyCached(t) == pc[t] \in Lookup => pkt[t].key \in CachedKeys

LockInv ==
  /\ cache_mutex = NoThread => Idle
  /\ \A t \in Threads : cache_mutex = t => pc[t] = "expand"

ThreadInv(t) == HasData(t) /\ InBounds(t) /\ Expanding(t) /\ KeyCached(t)

ArpInv ==
  /\ LookupInv /\ LocalTypes /\ SharedTypes /\ LockInv /\ overlap \in BOOLEAN
  /\ \A t \in Threads : ThreadInv(t)

-----------------------------------------------------------------------------
\* A frame that arrives has a key and an address.
LEMMA FrameFacts ==
  ASSUME NEW f \in Frames
  PROVE  f.key \in Keys /\ f.mac \in Mac
BY ArpAssumption DEF Frame

\* Hash codes are reduced to indices.
LEMMA RemainderInIndex ==
  ASSUME TypeOK, NEW x \in Nat
  PROVE  x % capacity \in Index
BY HashmapAssumption DEF TypeOK, Index

\* The table is never empty of slots.
LEMMA FirstInIndex == TypeOK => 0 \in Index
BY HashmapAssumption DEF TypeOK, Index

\* The unlocked read of an element yields a slot.
LEMMA ElementIsSlot ==
  ASSUME TypeOK, NEW t \in Threads, InBounds(t)
  PROVE  Element(t) \subseteq Slot
<1>1. CASE el[t].gen = generation
  BY <1>1 DEF Element, InBounds, TypeOK
<1>2. CASE el[t].gen # generation /\ el[t].gen = generation - 1 /\ ~ Idle
  BY <1>2 DEF Element, InBounds, TypeOK
<1>3. CASE el[t].gen # generation /\ ~ (el[t].gen = generation - 1 /\ ~ Idle)
  BY <1>3 DEF Element
<1> QED
  BY <1>1, <1>2, <1>3

\* memcpy of one word keeps an address an address.
LEMMA WordOfMac ==
  ASSUME NEW m \in Mac, NEW x \in Word
  PROVE  /\ [m EXCEPT ![1] = x] \in Mac
         /\ [m EXCEPT ![2] = x] \in Mac
         /\ m[1] \in Word /\ m[2] \in Word
BY DEF Mac

\* A key that is found in the table is the key of an entry.
LEMMA FoundIsCached ==
  ASSUME LookupInv, Idle, NEW k \in Keys, hashmap_contains_key(k)
  PROVE  k \in CachedKeys
<1>1. PICK v \in Values : Found(k, v)
  BY DEF hashmap_contains_key
<1>2. PICK j \in Index : hashmap_indexof(k, j) /\ array[j] # Unused
  BY <1>1 DEF Found
<1>3. array[j].key = k
  BY <1>2 DEF hashmap_indexof, Collides
<1>4. array[j] \in Entries
  BY <1>2 DEF Entries, Used
<1> QED
  BY <1>3, <1>4 DEF CachedKeys

\* Putting an entry adds its key.
LEMMA PutAddsKey ==
  ASSUME NEW e, Dict!DictPut(e)
  PROVE  CachedKeys' = CachedKeys \cup {e.key}
BY DEF Dict!DictPut, CachedKeys

-----------------------------------------------------------------------------
(***************************************************************************)
(* Steps that leave the table and the mutex alone.                         *)
(***************************************************************************)
Quiet == UNCHANGED <<mapVars, cache_mutex, generation>>

\* The step is not one of thread u.
Same(u) ==
  /\ pc'[u] = pc[u] /\ pkt'[u] = pkt[u] /\ index'[u] = index[u]
  /\ el'[u] = el[u] /\ dst_mac'[u] = dst_mac[u]

\* Nothing that is said about the table changes.
LEMMA QuietTable ==
  ASSUME Quiet
  PROVE  /\ (LookupInv' <=> LookupInv)
         /\ Entries' = Entries /\ CachedKeys' = CachedKeys
         /\ Index' = Index /\ OldIndex' = OldIndex /\ (Idle' <=> Idle)
         /\ todo' = todo /\ cache_mutex' = cache_mutex
         /\ generation' = generation /\ capacity' = capacity
<1>1. UNCHANGED <<array, capacity, size, old, i, todo, cache_mutex, generation>>
  BY DEF Quiet, mapVars
<1>2. /\ Index' = Index /\ OldIndex' = OldIndex /\ Used' = Used
      /\ (Reach' <=> Reach)
  BY <1>1, ReachKept
<1>3. (Idle' <=> Idle) /\ NoArray' = NoArray
  BY <1>1 DEF Idle, NoArray
<1>4. Entries' = Entries
  BY <1>1, <1>2, <1>3 DEF Entries
<1>5. TypeOK' <=> TypeOK
  BY <1>1, <1>2, <1>3 DEF TypeOK, Slot
<1>6. OldInv' <=> OldInv
  BY <1>1, <1>2, <1>3 DEF OldInv
<1> QED
  BY <1>1, <1>2, <1>3, <1>4, <1>5, <1>6 DEF LookupInv, CachedKeys

\* Nor do the facts of the other threads.
LEMMA QuietOther ==
  ASSUME Quiet, NEW u \in Threads, ThreadInv(u), Same(u)
  PROVE  ThreadInv(u)'
BY QuietTable DEF ThreadInv, Same, HasData, InBounds, Expanding, KeyCached

\* What such a step of t has to establish about t.
Proceeds(t) ==
  /\ LocalTypes' /\ (\A u \in Threads \ {t} : Same(u))
  /\ HasData(t)' /\ InBounds(t)' /\ Expanding(t)' /\ KeyCached(t)'
  /\ cache_mutex = t => pc'[t] = "expand"

\* process_io reads a frame.
LEMMA ReceiveProceeds ==
  ASSUME ArpInv, NEW t \in Threads, Receive(t)
  PROVE  Quiet /\ Proceeds(t)
<1>1. Quiet
  BY DEF Receive, Quiet
<1>2. /\ LocalTypes /\ SharedTypes /\ InBounds(t) /\ LockInv
  BY DEF ArpInv, ThreadInv
<1>3. PICK f \in pending :
        /\ Goto(t, "read", IF f.known THEN "check" ELSE "read")
        /\ pkt' = [pkt EXCEPT ![t] = IF f.known THEN f ELSE NoFrame]
        /\ UNCHANGED <<index, el, dst_mac, mac>>
  BY Zenon DEF Receive
<1>4. f \in Frames
  BY <1>2 DEF SharedTypes
<1>5. LocalTypes' /\ \A u \in Threads \ {t} : Same(u)
  BY <1>2, <1>3, <1>4 DEF LocalTypes, Same, Goto, Label
<1>6. pc'[t] \in {"read", "check"} /\ (pc'[t] # "read" => pkt'[t] \in Frames)
  BY <1>2, <1>3, <1>4 DEF LocalTypes, Goto
<1>7. pc[t] = "read" /\ index'[t] = index[t] /\ el'[t] = el[t]
  BY <1>3 DEF Goto
<1> QED
  BY <1>1, <1>2, <1>5, <1>6, <1>7, QuietTable
     DEF Proceeds, HasData, InBounds, Expanding, KeyCached, Lookup, LockInv

\* is_in_arp_cache sends a thread to hashmap_get only for a key it found.
LEMMA CheckProceeds ==
  ASSUME ArpInv, NEW t \in Threads, is_in_arp_cache(t)
  PROVE  Quiet /\ Proceeds(t)
<1>1. Quiet
  BY DEF is_in_arp_cache, Quiet, sharedVars
<1>2. /\ LocalTypes /\ InBounds(t) /\ HasData(t) /\ LockInv /\ LookupInv
      /\ cache_mutex = NoThread /\ pc[t] = "check"
  BY DEF ArpInv, ThreadInv, is_in_arp_cache
<1>3. pkt[t] \in Frames /\ Absent(pkt[t]) \in {"exit", "add", "read"}
  BY <1>2 DEF HasData, Absent
<1>4. pc'[t] = "hash" => pkt[t].key \in CachedKeys
  <2>1. pkt[t].key \in Keys /\ Idle
    BY <1>2, <1>3, FrameFacts DEF LockInv
  <2>2. pc'[t] = "hash" => hashmap_contains_key(pkt[t].key)
    BY <1>2, <1>3 DEF is_in_arp_cache, Goto, LocalTypes
  <2> QED
    BY <1>2, <2>1, <2>2, FoundIsCached
<1>5. LocalTypes' /\ \A u \in Threads \ {t} : Same(u)
  BY <1>2, <1>3 DEF is_in_arp_cache, LeaveHandler, LocalTypes, Same, Goto, Label
<1>6. /\ pc'[t] \in {"hash", "exit", "add", "read"}
      /\ pc'[t] # "read" => pkt'[t] = pkt[t]
      /\ index'[t] = index[t] /\ el'[t] = el[t]
  BY <1>2, <1>3 DEF is_in_arp_cache, LeaveHandler, LocalTypes, Goto
<1> QED
  BY <1>1, <1>2, <1>3, <1>4, <1>5, <1>6, QuietTable, ArpAssumption
     DEF Proceeds, HasData, InBounds, Expanding, KeyCached, Lookup, LockInv

\* The unlocked hashmap_get stays in bounds, whatever it reads.
LEMMA GetProceeds ==
  ASSUME ArpInv, NEW t \in Threads, hashmap_get(t)
  PROVE  Quiet /\ Proceeds(t)
<1>1. Quiet
  BY DEF hashmap_get, GetHash, GetElement, GetProbe, GetValue, Quiet, sharedVars
<1>2. /\ LocalTypes /\ InBounds(t) /\ HasData(t) /\ KeyCached(t) /\ LockInv
      /\ TypeOK /\ SharedTypes
  BY DEF ArpInv, ThreadInv, LookupInv
<1>3. /\ pc[t] \in {"hash", "element", "probe", "fetch", "value"}
      /\ pkt[t] \in Frames /\ pkt[t].key \in CachedKeys /\ index[t] \in Index
  <2>1. pc[t] \in {"hash", "element", "probe", "fetch", "value"}
    BY DEF hashmap_get, GetHash, GetElement, GetProbe, GetValue, Goto
  <2> QED
    BY <1>2, <2>1 DEF HasData, KeyCached, InBounds, Lookup
<1>4. \A x \in Nat : x % capacity \in Index /\ x % capacity \in Nat
  BY <1>2, RemainderInIndex DEF Index
<1>5. pkt' = pkt /\ mac' = mac
  BY DEF hashmap_get, GetHash, GetElement, GetProbe, GetValue
<1>6. CASE GetHash(t)
  <2>1. Hash[pkt[t].key] \in Nat
    BY <1>3, FrameFacts, HashmapAssumption
  <2>2. LocalTypes' /\ \A u \in Threads \ {t} : Same(u)
    BY <1>2, <1>4, <1>5, <1>6, <2>1 DEF GetHash, LocalTypes, Same, Goto, Label
  <2>3. pc'[t] = "element" /\ index'[t] \in Index /\ el'[t] = el[t]
    BY <1>2, <1>4, <1>6, <2>1 DEF GetHash, LocalTypes, Goto
  <2> QED
    BY <1>1, <1>2, <1>3, <1>5, <2>2, <2>3, QuietTable
       DEF Proceeds, HasData, InBounds, Expanding, KeyCached, Lookup, LockInv
<1>7. ASSUME NEW from, NEW to \in {"probe", "value"}, GetElement(t, from, to)
      PROVE  Proceeds(t)
  <2>1. index[t] \in Nat /\ generation \in Nat
    BY <1>2 DEF LocalTypes, SharedTypes
  <2>2. LocalTypes' /\ \A u \in Threads \ {t} : Same(u)
    BY <1>2, <1>5, <1>7, <2>1 DEF GetElement, LocalTypes, Same, Goto, Label
  <2>3. /\ pc'[t] = to /\ index'[t] = index[t]
        /\ el'[t] = [gen |-> generation, at |-> index[t]]
    BY <1>2, <1>7 DEF GetElement, LocalTypes, Goto
  <2>4. InBounds(t)'
    BY <1>1, <1>3, <2>1, <2>3, QuietTable DEF InBounds
  <2> QED
    BY <1>1, <1>2, <1>3, <1>5, <2>2, <2>3, <2>4, QuietTable
       DEF Proceeds, HasData, Expanding, KeyCached, Lookup, LockInv
<1>8. CASE GetProbe(t)
  <2>1. index[t] + 1 \in Nat
    BY <1>2 DEF LocalTypes
  <2>2. /\ pc'[t] \in {"element", "fetch"} /\ pc' = [pc EXCEPT ![t] = pc'[t]]
        /\ index' = index \/ index' = [index EXCEPT ![t] = (@ + 1) % capacity]
        /\ UNCHANGED <<el, dst_mac>>
    BY <1>2, <1>8 DEF GetProbe, Goto, LocalTypes
  <2>3. index'[t] \in Index /\ el'[t] = el[t]
    BY <1>2, <1>3, <1>4, <2>1, <2>2 DEF LocalTypes
  <2>4. LocalTypes' /\ \A u \in Threads \ {t} : Same(u)
    BY <1>2, <1>4, <1>5, <2>1, <2>2 DEF LocalTypes, Same, Label
  <2> QED
    BY <1>1, <1>2, <1>3, <1>5, <2>2, <2>3, <2>4, QuietTable
       DEF Proceeds, HasData, InBounds, Expanding, KeyCached, Lookup, LockInv
<1>9. CASE GetValue(t)
  <2>1. PICK slot \in Element(t) :
          dst_mac' = [dst_mac EXCEPT ![t] = IF slot = Unused THEN NULL
                                                             ELSE slot.value]
    BY <1>9, Zenon DEF GetValue
  <2>2. (IF slot = Unused THEN NULL ELSE slot.value) \in Values \cup {NULL}
    BY <1>2, <2>1, ElementIsSlot DEF Slot, Entry
  <2>3. dst_mac' \in [Threads -> Values \cup {NULL}]
    BY <1>2, <2>1, <2>2 DEF LocalTypes
  <2>4. LocalTypes' /\ \A u \in Threads \ {t} : Same(u)
    BY <1>2, <1>5, <1>9, <2>1, <2>3
       DEF GetValue, LeaveGet, LocalTypes, Same, Goto, Label
  <2>5. /\ pc'[t] \in {"merge", "resolved"} /\ index'[t] = 0
        /\ el'[t] = [gen |-> 0, at |-> 0]
    BY <1>2, <1>9 DEF GetValue, LeaveGet, LocalTypes, Goto
  <2>6. 0 \in Index /\ 0 \in OldIndex
    BY <1>2, FirstInIndex, HashmapAssumption DEF OldIndex, TypeOK
  <2>7. InBounds(t)'
    BY <1>1, <1>2, <2>5, <2>6, QuietTable DEF InBounds, SharedTypes
  <2> QED
    BY <1>1, <1>2, <1>3, <1>5, <2>4, <2>5, <2>7, QuietTable
       DEF Proceeds, HasData, Expanding, KeyCached, Lookup, LockInv
<1> QED
  BY <1>1, <1>6, <1>7, <1>8, <1>9 DEF hashmap_get

\* Steps after which every thread is where it was.
LEMMA StayProceeds ==
  ASSUME ArpInv, NEW t \in Threads, UNCHANGED <<pc, localVars>>, Quiet
  PROVE  Proceeds(t)
<1>1. /\ LocalTypes /\ ThreadInv(t) /\ LockInv
  BY DEF ArpInv
<1>2. LocalTypes' /\ \A u \in Threads : Same(u)
  BY <1>1 DEF LocalTypes, Same, localVars
<1>3. ThreadInv(t)'
  BY <1>1, <1>2, QuietOther, SMTT(20)
<1> QED
  BY <1>1, <1>2, <1>3 DEF Proceeds, ThreadInv, LockInv, Same

\* Steps that only move the program counter, or leave the handler.
LEMMA JumpProceeds ==
  ASSUME ArpInv, NEW t \in Threads, Quiet,
         NEW to \in {"read", "exit", "destroy", "merge_low", "set"},
         pc' = [pc EXCEPT ![t] = to], pc[t] # "read", pc[t] # "expand",
         UNCHANGED <<index, el, dst_mac, mac>>, pc[t] # "destroy",
         IF to = "read" THEN LeaveHandler(t) ELSE pkt' = pkt,
         to \in {"merge_low", "set"} =>
           dst_mac[t] \in Values /\ pc[t] \in {"merge", "merge_low"}
  PROVE  Proceeds(t)
<1>1. /\ LocalTypes /\ HasData(t) /\ InBounds(t) /\ KeyCached(t) /\ LockInv
  BY DEF ArpInv, ThreadInv
<1>2. LocalTypes' /\ \A u \in Threads \ {t} : Same(u)
  BY <1>1 DEF LocalTypes, Same, Label, LeaveHandler
<1>3. pc'[t] = to /\ index'[t] = index[t] /\ el'[t] = el[t]
  BY <1>1 DEF LocalTypes
<1>4. HasData(t)' /\ KeyCached(t)'
  BY <1>1, <1>3, QuietTable DEF HasData, KeyCached, Lookup
<1> QED
  BY <1>1, <1>2, <1>3, <1>4, QuietTable
     DEF Proceeds, InBounds, Expanding, LockInv

\* add_to_arp_cache allocates a cell.
LEMMA AddProceeds ==
  ASSUME ArpInv, NEW t \in Threads, AddCell(t)
  PROVE  Quiet /\ Proceeds(t)
<1>1. Quiet
  BY DEF AddCell, Quiet
<1>2. /\ LocalTypes /\ HasData(t) /\ InBounds(t) /\ LockInv
  BY DEF ArpInv, ThreadInv
<1>3. PICK c \in Values : dst_mac' = [dst_mac EXCEPT ![t] = c]
  BY Zenon DEF AddCell, NewCell
<1>4. /\ pc[t] = "add" /\ pc' = [pc EXCEPT ![t] = "put"]
      /\ UNCHANGED <<pkt, index, el, mac>>
  BY DEF AddCell, Goto
<1>5. LocalTypes' /\ \A u \in Threads \ {t} : Same(u)
  BY <1>2, <1>3, <1>4 DEF LocalTypes, Same, Label
<1>6. pc'[t] = "put" /\ dst_mac'[t] = c
  BY <1>2, <1>3, <1>4, SMTT(20) DEF LocalTypes
<1> QED
  BY <1>1, <1>2, <1>3, <1>4, <1>5, <1>6, QuietTable
     DEF Proceeds, HasData, InBounds, Expanding, KeyCached, Lookup, LockInv

\* net_interface_send copies a word of the address.
LEMMA CopyProceeds ==
  ASSUME ArpInv, NEW t \in Threads,
         CopyWord(t, 1, "resolved", "copy") \/ CopyWord(t, 2, "copy", "send")
  PROVE  Quiet /\ Proceeds(t)
<1>1. Quiet
  BY DEF CopyWord, Quiet, sharedVars
<1>2. /\ LocalTypes /\ HasData(t) /\ InBounds(t) /\ LockInv /\ SharedTypes
  BY DEF ArpInv, ThreadInv
<1>3. PICK to \in {"copy", "send"} : pc' = [pc EXCEPT ![t] = to]
  BY DEF CopyWord, Goto
<1>4. /\ pc[t] \in {"resolved", "copy"} /\ UNCHANGED <<pkt, index, el, dst_mac>>
      /\ dst_mac[t] \in Values
  BY <1>2 DEF CopyWord, Goto, LocalTypes
<1>5. mem[dst_mac[t]] \in Mac /\ mac[t] \in Mac
  BY <1>2, <1>4 DEF SharedTypes, LocalTypes
<1>6. PICK m \in Mac : mac' = [mac EXCEPT ![t] = m]
  <2> DEFINE m(w) == [mac[t] EXCEPT ![w] = mem[dst_mac[t]][w]]
  <2>1. m(1) \in Mac /\ m(2) \in Mac
    <3>1. mem[dst_mac[t]][1] \in Word /\ mem[dst_mac[t]][2] \in Word
      BY <1>5 DEF Mac
    <3> QED
      BY <1>5, <3>1, WordOfMac, Zenon
  <2>2. mac' = [mac EXCEPT ![t] = m(1)] \/ mac' = [mac EXCEPT ![t] = m(2)]
    BY DEF CopyWord
  <2> HIDE DEF m
  <2> QED
    BY <2>1, <2>2
<1>7. LocalTypes' /\ \A u \in Threads \ {t} : Same(u)
  BY <1>2, <1>3, <1>4, <1>6 DEF LocalTypes, Same, Label
<1>8. pc'[t] = to
  BY <1>2, <1>3 DEF LocalTypes
<1> QED
  BY <1>1, <1>2, <1>4, <1>7, <1>8, QuietTable
     DEF Proceeds, HasData, InBounds, Expanding, KeyCached, Lookup, LockInv

\* The frame is sent.
LEMMA SentProceeds ==
  ASSUME ArpInv, NEW t \in Threads, Sent(t)
  PROVE  Quiet /\ Proceeds(t)
<1>1. Quiet
  BY DEF Sent, Quiet, sharedVars
<1>2. /\ LocalTypes /\ HasData(t) /\ InBounds(t) /\ LockInv
  BY DEF ArpInv, ThreadInv
<1>3. LocalTypes' /\ \A u \in Threads \ {t} : Same(u)
  BY <1>2, ArpAssumption DEF Sent, LeaveHandler, Goto, LocalTypes, Same, Label, Mac
<1>4. /\ pc[t] = "send" /\ pc'[t] = "read"
      /\ index'[t] = index[t] /\ el'[t] = el[t]
  BY <1>2 DEF Sent, Goto, LocalTypes
<1> QED
  BY <1>1, <1>2, <1>3, <1>4, QuietTable, Zenon
     DEF Proceeds, HasData, InBounds, Expanding, KeyCached, Lookup, LockInv

\* arp_destroy frees an entry.
LEMMA DestroyProceeds ==
  ASSUME ArpInv, NEW t \in Threads, DestroyEntry(t)
  PROVE  Quiet /\ Proceeds(t)
<1>1. Quiet
  BY Zenon DEF DestroyEntry, Quiet
<1>2. /\ LocalTypes /\ HasData(t) /\ InBounds(t) /\ LockInv
  BY DEF ArpInv, ThreadInv
<1>3. PICK j \in Used : index' = [index EXCEPT ![t] = j + 1]
  BY Zenon DEF DestroyEntry
<1>4. j + 1 \in Nat
  BY SMTT(20) DEF Used, Index
<1>5. pc[t] = "destroy" /\ UNCHANGED <<pc, pkt, el, dst_mac, mac>>
  BY DEF DestroyEntry
<1>6. LocalTypes' /\ \A u \in Threads \ {t} : Same(u)
  BY <1>2, <1>3, <1>4, <1>5 DEF LocalTypes, Same
<1> QED
  BY <1>1, <1>2, <1>5, <1>6, QuietTable, Zenon
     DEF Proceeds, HasData, InBounds, Expanding, KeyCached, Lookup, LockInv

\* The cells, the mutex and what is kept about the process.
LEMMA SharedStep ==
  ASSUME ArpInv, NEW t \in Threads, Handle(t)
  PROVE  SharedTypes'
<1>1. LocalTypes /\ SharedTypes /\ HasData(t) /\ TypeOK
  BY DEF ArpInv, ThreadInv, LookupInv
<1>2. CASE Receive(t)
  BY <1>1, <1>2 DEF SharedTypes, Receive, cellVars, exitVars
<1>3. CASE UNCHANGED sharedVars
  BY <1>1, <1>3 DEF SharedTypes, sharedVars, cellVars, exitVars
<1>4. CASE AssertFails(t) \/ Exit(t) \/ Ends
  BY <1>1, <1>4 DEF SharedTypes, AssertFails, Exit, Ends, cellVars
<1>5. CASE MergeWord(t, 1, "merge", "merge_low")
             \/ MergeWord(t, 2, "merge_low", "set")
  <2>1. /\ dst_mac[t] \in Values /\ pkt[t] \in Frames
        /\ UNCHANGED <<owner, cache_mutex, generation, exitVars, pending>>
    BY <1>1, <1>5 DEF MergeWord, Goto, LocalTypes, HasData
  <2>2. pkt[t].mac \in Mac /\ mem[dst_mac[t]] \in Mac
    BY <1>1, <2>1, FrameFacts DEF SharedTypes
  <2> DEFINE m(w) == [mem[dst_mac[t]] EXCEPT ![w] = pkt[t].mac[w]]
  <2>3. m(1) \in Mac /\ m(2) \in Mac
    <3>1. pkt[t].mac[1] \in Word /\ pkt[t].mac[2] \in Word
      BY <2>2 DEF Mac
    <3> QED
      BY <2>2, <3>1, WordOfMac, Zenon
  <2>4. \/ mem' = [mem EXCEPT ![dst_mac[t]] = m(1)]
        \/ mem' = [mem EXCEPT ![dst_mac[t]] = m(2)]
    BY <1>5 DEF MergeWord
  <2> HIDE DEF m
  <2>5. mem' \in [Values -> Mac]
    BY <1>1, <2>1, <2>3, <2>4 DEF SharedTypes
  <2> QED
    BY <1>1, <2>1, <2>5 DEF SharedTypes, exitVars
<1>6. CASE AddCell(t)
  <2>1. pkt[t] \in Frames /\ pkt[t].mac \in Mac /\ pkt[t].key \in Keys
    BY <1>1, <1>6, FrameFacts DEF AddCell, Goto, HasData
  <2>2. PICK c \in Values : /\ mem' = [mem EXCEPT ![c] = pkt[t].mac]
                            /\ owner' = [owner EXCEPT ![c] = pkt[t].key]
    BY <1>6, Zenon DEF AddCell, NewCell, FillCell
  <2>3. mem' \in [Values -> Mac] /\ owner' \in [Values -> Keys \cup {NULL}]
    BY <1>1, <2>1, <2>2 DEF SharedTypes
  <2> QED
    BY <1>1, <1>6, <2>3 DEF SharedTypes, AddCell, exitVars
<1>7. ASSUME NEW from, PutInCache(t, from) \/ PutGrowsCache(t, from)
      PROVE  SharedTypes'
  BY <1>1, <1>7 DEF SharedTypes, PutInCache, PutGrowsCache, cellVars, exitVars
<1>8. CASE Expand(t) \/ Expanded(t)
  BY <1>1, <1>8 DEF SharedTypes, Expand, Expanded, unlock, cellVars, exitVars
<1>9. CASE DestroyEntry(t)
  <2>1. PICK j \in Used : /\ freed' = [freed EXCEPT ![array[j].value] = @ + 1]
                          /\ gone' = gone \cup {array[j].key}
    BY <1>9, Zenon DEF DestroyEntry
  <2>2. array[j].value \in Values /\ array[j].key \in Keys
    BY <1>1 DEF Used, TypeOK, Slot, Entry
  <2>3. freed' \in [Values -> Nat] /\ gone' \subseteq Keys
    BY <1>1, <2>1, <2>2 DEF SharedTypes
  <2> QED
    BY <1>1, <1>9, <2>3 DEF SharedTypes, DestroyEntry, cellVars
<1>10. CASE \/ is_in_arp_cache(t) \/ hashmap_get(t) \/ arp_reply(t)
            \/ Unresolved(t) \/ Sent(t)
            \/ CopyWord(t, 1, "resolved", "copy")
            \/ CopyWord(t, 2, "copy", "send")
  BY <1>3, <1>10 DEF is_in_arp_cache, hashmap_get, GetHash, GetElement,
     GetProbe, GetValue, arp_reply, Unresolved, Sent, CopyWord
<1> QED
  BY <1>2, <1>4, <1>5, <1>6, <1>7, <1>8, <1>9, <1>10, Zenon
     DEF Handle, set_in_arp_cache, add_to_arp_cache, ip_send_packet, ExitStep,
         ExitAgain, arp_destroy, DestroyEnds

-----------------------------------------------------------------------------
(***************************************************************************)
(* Steps that change the table, under the mutex.                           *)
(***************************************************************************)

\* What such a step of t has to establish.
Advances ==
  /\ Next /\ LookupInv' /\ LocalTypes' /\ LockInv'
  /\ \A u \in Threads : ThreadInv(u)'

\* The mutex keeps other threads from growing the table.
LEMMA NoOtherExpands ==
  ASSUME ArpInv, NEW t \in Threads, cache_mutex \in {NoThread, t},
         NEW u \in Threads \ {t}
  PROVE  pc[u] # "expand"
BY ArpAssumption DEF ArpInv, ThreadInv, Expanding

\* Keys stay in the cache, and hashmap_get stays inside the array it looks at,
\* whether the table grows meanwhile or not.
LEMMA TableOther ==
  ASSUME ArpInv, NEW u \in Threads, Same(u), pc[u] # "expand",
         CachedKeys \subseteq CachedKeys',
         \/ /\ Index' = Index /\ OldIndex' = OldIndex
            /\ generation' = generation /\ (Idle => Idle')
         \/ /\ Index \subseteq Index' /\ OldIndex' = Index
            /\ generation' = generation + 1
  PROVE  ThreadInv(u)'
<1>1. ThreadInv(u) /\ generation \in Nat /\ el[u].gen \in Nat
  BY DEF ArpInv, SharedTypes, LocalTypes
<1>2. HasData(u)' /\ Expanding(u)' /\ KeyCached(u)'
  BY <1>1 DEF ThreadInv, Same, HasData, Expanding, KeyCached
<1>3. InBounds(u)'
  BY <1>1 DEF ThreadInv, Same, InBounds
<1> QED
  BY <1>2, <1>3 DEF ThreadInv

\* The entry that is put is one of the table's.
LEMMA CellIsEntry ==
  ASSUME ArpInv, NEW t \in Threads, pc[t] \in {"set", "put"}
  PROVE  Cell(t) \in Entry /\ Cell(t).key = pkt[t].key /\ pkt[t] \in Frames
<1>1. pkt[t] \in Frames /\ dst_mac[t] \in Values
  BY DEF ArpInv, ThreadInv, HasData
<1> QED
  BY <1>1, FrameFacts DEF Cell, Entry

\* hashmap_put that does not grow the table.
LEMMA PutAdvances ==
  ASSUME ArpInv, NEW t \in Threads, NEW from \in {"set", "put"},
         PutInCache(t, from)
  PROVE  Advances
<1>1. /\ LocalTypes /\ InBounds(t) /\ LockInv /\ LookupInv /\ SharedTypes
      /\ cache_mutex = NoThread /\ cache_mutex' = cache_mutex
      /\ generation' = generation /\ pc[t] = from /\ hashmap_put(Cell(t))
  BY DEF ArpInv, ThreadInv, PutInCache
<1>2. Cell(t) \in Entry /\ Cell(t).key = pkt[t].key /\ pkt[t] \in Frames
  BY <1>1, CellIsEntry
<1>3. LookupInv' /\ CachedKeys' = CachedKeys \cup {pkt[t].key}
  BY <1>1, <1>2, PutStep, PutAddsKey
<1>4. Index' = Index /\ OldIndex' = OldIndex /\ Idle /\ Idle'
  BY <1>1 DEF hashmap_put, Index, OldIndex, Idle, NoArray
<1>5. Next
  BY <1>1, <1>2 DEF Next
<1>6. Answered(t) \in {"read", "reply"}
  BY DEF Answered
<1>7. LocalTypes' /\ \A u \in Threads \ {t} : Same(u)
  BY <1>1, <1>6 DEF PutInCache, LeaveHandler, Goto, LocalTypes, Same, Label
<1>8. /\ pc'[t] \in {"read", "reply"} /\ (pc'[t] = "reply" => pkt'[t] = pkt[t])
      /\ index'[t] = index[t] /\ el'[t] = el[t]
  BY <1>1, <1>6 DEF PutInCache, LeaveHandler, Goto, LocalTypes
<1>9. ThreadInv(t)'
  BY <1>1, <1>2, <1>3, <1>4, <1>8, SMTT(20)
     DEF ThreadInv, HasData, InBounds, Expanding, KeyCached, Lookup
<1>10. \A u \in Threads \ {t} : ThreadInv(u)'
  BY <1>1, <1>3, <1>4, <1>7, NoOtherExpands, TableOther, SMTT(20)
<1>11. LockInv'
  BY <1>1, <1>4, ArpAssumption DEF LockInv
<1> QED
  BY <1>3, <1>5, <1>7, <1>9, <1>10, <1>11 DEF Advances

\* hashmap_put that begins to grow the table, and keeps the mutex.
LEMMA GrowAdvances ==
  ASSUME ArpInv, NEW t \in Threads, NEW from \in {"set", "put"},
         PutGrowsCache(t, from)
  PROVE  Advances
<1>1. /\ LocalTypes /\ InBounds(t) /\ LockInv /\ LookupInv /\ SharedTypes
      /\ cache_mutex = NoThread /\ cache_mutex' = t
      /\ generation' = generation + 1 /\ pc[t] = from /\ PutExpands(Cell(t))
  BY DEF ArpInv, ThreadInv, PutGrowsCache
<1>2. Cell(t) \in Entry /\ Cell(t).key = pkt[t].key /\ pkt[t] \in Frames
  BY <1>1, CellIsEntry
<1>3. LookupInv' /\ ~ Idle' /\ CachedKeys' = CachedKeys
  BY <1>1, <1>2, BeginExpandStep DEF PutExpands, Slot, CachedKeys
<1>4. Index \subseteq Index' /\ OldIndex' = Index /\ todo' = Cell(t)
  <2>1. capacity' = 2 * capacity /\ capacity \in Nat /\ todo' = Cell(t)
    BY <1>1 DEF PutExpands, BeginExpand, LookupInv, TypeOK
  <2> QED
    BY <2>1 DEF Index, OldIndex
<1>5. Next
  BY <1>1, <1>2 DEF Next
<1>6. LocalTypes' /\ \A u \in Threads \ {t} : Same(u)
  BY <1>1 DEF PutGrowsCache, Goto, LocalTypes, Same, Label
<1>7. /\ pc'[t] = "expand" /\ pkt'[t] = pkt[t]
      /\ index'[t] = index[t] /\ el'[t] = el[t]
  BY <1>1 DEF PutGrowsCache, Goto, LocalTypes
<1>8. InBounds(t)'
  <2>1. generation \in Nat /\ el[t].gen \in Nat
    BY <1>1 DEF SharedTypes, LocalTypes
  <2>2. /\ index[t] \in Index
        /\ el[t].gen <= generation
        /\ el[t].gen = generation => el[t].at \in Index
    BY <1>1 DEF InBounds
  <2>3. index'[t] \in Index'
    BY <1>4, <1>7, <2>2
  <2>4. el[t].gen <= generation' /\ el[t].gen # generation'
    BY <1>1, <2>1, <2>2
  <2>5. el[t].gen = generation' - 1 => el[t].at \in OldIndex'
    <3>1. generation' - 1 = generation
      BY <1>1, <2>1, SMTT(20)
    <3> QED
      BY <1>4, <2>2, <3>1
  <2> QED
    BY <1>7, <2>3, <2>4, <2>5 DEF InBounds
<1>9. HasData(t)' /\ Expanding(t)' /\ KeyCached(t)'
  BY <1>1, <1>2, <1>3, <1>4, <1>7 DEF HasData, Expanding, KeyCached, Lookup, Entry
<1>10. \A u \in Threads \ {t} : ThreadInv(u)'
  BY <1>1, <1>3, <1>4, <1>6, NoOtherExpands, TableOther
<1>11. LockInv'
  BY <1>1, <1>7, ArpAssumption DEF LockInv
<1> QED
  BY <1>3, <1>5, <1>6, <1>8, <1>9, <1>10, <1>11 DEF Advances, ThreadInv

\* An iteration of hashmap_expand.
LEMMA ExpandAdvances ==
  ASSUME ArpInv, NEW t \in Threads, Expand(t)
  PROVE  Advances
<1>1. /\ LocalTypes /\ ThreadInv(t) /\ LockInv /\ LookupInv
      /\ UNCHANGED <<cache_mutex, generation, pkt, index, el, dst_mac, mac>>
      /\ pc[t] = "expand" /\ pc' = [pc EXCEPT ![t] = "expand"]
  BY DEF ArpInv, Expand, Goto, localVars
<1>2. Next /\ LookupInv' /\ CachedKeys' = CachedKeys
  BY <1>1, MoveStep, SkipStep DEF Expand, Next, CachedKeys
<1>3. /\ UNCHANGED <<capacity, old, todo>> /\ ~ Idle
  BY DEF Expand, ExpandMoves, ExpandSkips
<1>4. Index' = Index /\ OldIndex' = OldIndex /\ ~ Idle'
  BY <1>3 DEF Index, OldIndex, Idle, NoArray
<1>5. LocalTypes' /\ \A u \in Threads : Same(u)
  BY <1>1 DEF LocalTypes, Same
<1>6. cache_mutex = t
  BY <1>1, Zenon DEF ThreadInv, Expanding
<1>7. ThreadInv(t)'
  BY <1>1, <1>2, <1>3, <1>4, <1>5, Zenon
     DEF ThreadInv, HasData, InBounds, Expanding, KeyCached, Lookup, Same, Entry
<1>8. \A u \in Threads \ {t} : ThreadInv(u)'
  BY <1>1, <1>2, <1>3, <1>4, <1>5, <1>6, NoOtherExpands, TableOther
<1>9. LockInv'
  BY <1>1, <1>5, <1>6, ArpAssumption DEF LockInv, Same
<1> QED
  BY <1>2, <1>5, <1>7, <1>8, <1>9 DEF Advances

\* hashmap_expand is done: the entry is stored and the mutex released.
LEMMA ExpandedAdvances ==
  ASSUME ArpInv, NEW t \in Threads, Expanded(t)
  PROVE  Advances
<1>1. /\ LocalTypes /\ ThreadInv(t) /\ LockInv /\ LookupInv
      /\ generation' = generation /\ cache_mutex' = NoThread
      /\ pc[t] = "expand" /\ ExpandEnds
  BY DEF ArpInv, Expanded, unlock
<1>2. /\ cache_mutex = t /\ todo \in Entry /\ todo.key = pkt[t].key
      /\ todo # Unused /\ pkt[t] \in Frames
  BY <1>1, HashmapAssumption DEF ThreadInv, Expanding, HasData
<1>3. Next /\ LookupInv' /\ CachedKeys' = CachedKeys \cup {pkt[t].key}
  BY <1>1, <1>2, EndStep, PutAddsKey DEF Next
<1>4. Index' = Index /\ OldIndex' = OldIndex /\ Idle'
  BY <1>1 DEF ExpandEnds, Index, OldIndex, Idle, NoArray
<1>5. Answered(t) \in {"read", "reply"}
  BY DEF Answered
<1>6. LocalTypes' /\ \A u \in Threads \ {t} : Same(u)
  BY <1>1, <1>5 DEF Expanded, LeaveHandler, Goto, LocalTypes, Same, Label
<1>7. /\ pc'[t] \in {"read", "reply"} /\ (pc'[t] = "reply" => pkt'[t] = pkt[t])
      /\ index'[t] = index[t] /\ el'[t] = el[t]
  BY <1>1, <1>5 DEF Expanded, LeaveHandler, Goto, LocalTypes
<1>8. ThreadInv(t)'
  BY <1>1, <1>2, <1>3, <1>4, <1>7
     DEF ThreadInv, HasData, InBounds, Expanding, KeyCached, Lookup
<1>9. \A u \in Threads \ {t} : ThreadInv(u)'
  BY <1>1, <1>2, <1>3, <1>4, <1>6, NoOtherExpands, TableOther, Zenon
<1>10. LockInv'
  BY <1>1, <1>4, ArpAssumption DEF LockInv
<1> QED
  BY <1>3, <1>6, <1>8, <1>9, <1>10 DEF Advances

-----------------------------------------------------------------------------
(***************************************************************************)
(* The inductive invariant, and what follows.                              *)
(***************************************************************************)

\* The invariant holds once arp_init has returned.
LEMMA InitArpInv == ArpInit => ArpInv
<1> SUFFICES ASSUME ArpInit PROVE ArpInv
  OBVIOUS
<1>1. LookupInv /\ Idle /\ 0 \in Index
  BY InitLookupInv, FirstInIndex DEF ArpInit, LookupInv
<1>2. LocalTypes /\ SharedTypes
  BY ArpAssumption DEF ArpInit, LocalTypes, SharedTypes, Label, Mac
<1>3. LockInv
  BY <1>1, ArpAssumption DEF ArpInit, LockInv
<1>4. ASSUME NEW t \in Threads
      PROVE  ThreadInv(t)
  BY <1>1 DEF ArpInit, ThreadInv, HasData, InBounds, Expanding, KeyCached, Lookup
<1> QED
  BY <1>1, <1>2, <1>3, <1>4, Zenon DEF ArpInv, ArpInit

\* A quiet step of t keeps the invariant.
LEMMA QuietAdvances ==
  ASSUME ArpInv, NEW t \in Threads, Quiet, Proceeds(t)
  PROVE  LookupInv' /\ LocalTypes' /\ LockInv' /\ \A u \in Threads : ThreadInv(u)'
<1>1. \A u \in Threads \ {t} : ThreadInv(u)'
  BY QuietOther DEF ArpInv, Proceeds
<1>2. LockInv'
  BY QuietTable, Zenon DEF ArpInv, LockInv, Proceeds, Same
<1> QED
  BY <1>1, <1>2, QuietTable DEF ArpInv, Proceeds, ThreadInv

\* Every step of a thread is a step of the table, or leaves it alone.
LEMMA HandleStep ==
  ASSUME ArpInv, NEW t \in Threads, Handle(t)
  PROVE  /\ [Next]_mapVars
         /\ LookupInv' /\ LocalTypes' /\ LockInv'
         /\ \A u \in Threads : ThreadInv(u)'
<1>1. CASE Quiet /\ Proceeds(t)
  BY <1>1, QuietAdvances DEF Quiet
<1>2. CASE Advances
  BY <1>2 DEF Advances
<1>3. CASE Receive(t) \/ is_in_arp_cache(t) \/ hashmap_get(t) \/ AddCell(t)
  BY <1>1, <1>3, ReceiveProceeds, CheckProceeds, GetProceeds, AddProceeds
<1>4. CASE AssertFails(t) \/ ExitAgain(t) \/ DestroyEnds(t)
  <2>1. Quiet /\ UNCHANGED <<pc, localVars>>
    BY <1>4, Zenon DEF AssertFails, ExitAgain, DestroyEnds, Ends, Quiet
  <2> QED
    BY <1>1, <2>1, StayProceeds
<1>5. CASE MergeWord(t, 1, "merge", "merge_low")
  <2>1. /\ Quiet /\ pc[t] = "merge" /\ pc' = [pc EXCEPT ![t] = "merge_low"]
        /\ UNCHANGED <<pkt, index, el, dst_mac, mac>> /\ dst_mac[t] \in Values
    BY <1>5 DEF MergeWord, Goto, Quiet, localVars, ArpInv, LocalTypes
  <2> QED
    BY <1>1, <2>1, JumpProceeds, Zenon
<1>6. CASE MergeWord(t, 2, "merge_low", "set")
  <2>1. /\ Quiet /\ pc[t] = "merge_low" /\ pc' = [pc EXCEPT ![t] = "set"]
        /\ UNCHANGED <<pkt, index, el, dst_mac, mac>> /\ dst_mac[t] \in Values
    BY <1>6 DEF MergeWord, Goto, Quiet, localVars, ArpInv, LocalTypes
  <2> QED
    BY <1>1, <2>1, JumpProceeds, Zenon
<1>7. CASE arp_reply(t)
  <2>1. /\ Quiet /\ pc[t] = "reply" /\ pc' = [pc EXCEPT ![t] = "read"]
        /\ LeaveHandler(t) /\ UNCHANGED <<index, el, dst_mac, mac>>
    BY <1>7 DEF arp_reply, Goto, Quiet, sharedVars
  <2> QED
    BY <1>1, <2>1, JumpProceeds, Zenon
<1>8. CASE Unresolved(t)
  <2>1. /\ Quiet /\ pc[t] = "resolved" /\ pc' = [pc EXCEPT ![t] = "exit"]
        /\ UNCHANGED <<pkt, index, el, dst_mac, mac>>
    BY <1>8 DEF Unresolved, Goto, Quiet, localVars, sharedVars
  <2> QED
    BY <1>1, <2>1, JumpProceeds, Zenon
<1>9. CASE Exit(t)
  <2>1. /\ Quiet /\ pc[t] = "exit" /\ pc' = [pc EXCEPT ![t] = "destroy"]
        /\ UNCHANGED <<pkt, index, el, dst_mac, mac>>
    BY <1>9 DEF Exit, Goto, Quiet, localVars
  <2> QED
    BY <1>1, <2>1, JumpProceeds, Zenon
<1>10. CASE \/ CopyWord(t, 1, "resolved", "copy")
            \/ CopyWord(t, 2, "copy", "send")
            \/ Sent(t) \/ DestroyEntry(t)
  BY <1>1, <1>10, CopyProceeds, SentProceeds, DestroyProceeds
<1>11. CASE \/ PutInCache(t, "set") \/ PutGrowsCache(t, "set")
            \/ PutInCache(t, "put") \/ PutGrowsCache(t, "put")
            \/ Expand(t) \/ Expanded(t)
  BY <1>2, <1>11, PutAdvances, GrowAdvances, ExpandAdvances, ExpandedAdvances
<1> QED
  BY <1>3, <1>4, <1>5, <1>6, <1>7, <1>8, <1>9, <1>10, <1>11
     DEF Handle, set_in_arp_cache, add_to_arp_cache, ip_send_packet, ExitStep,
         arp_destroy

\* The invariant is inductive, and every step is one of the table or none.
LEMMA NextArpInv ==
  ASSUME ArpInv, [ArpNext]_arpVars
  PROVE  ArpInv' /\ [Next]_mapVars
<1>1. CASE UNCHANGED arpVars
  <2>1. /\ Quiet /\ overlap' = overlap
        /\ UNCHANGED <<pc, pkt, index, el, dst_mac, mac, mem, owner, freed,
                       gone, status, pending>>
    BY <1>1 DEF arpVars, localVars, sharedVars, cellVars, exitVars, Quiet
  <2>2. LocalTypes' /\ SharedTypes'
    BY <2>1 DEF ArpInv, LocalTypes, SharedTypes, Quiet
  <2>3. \A u \in Threads : ThreadInv(u)'
    BY <2>1, QuietOther, Zenon DEF ArpInv, Same
  <2>4. LockInv'
    BY <2>1, QuietTable DEF ArpInv, LockInv
  <2> QED
    BY <2>1, <2>2, <2>3, <2>4, QuietTable DEF ArpInv, Quiet
<1>2. ASSUME NEW t \in Threads, ThreadStep(t)
      PROVE  ArpInv' /\ [Next]_mapVars
  <2>1. overlap' \in BOOLEAN
    BY <1>2 DEF ThreadStep
  <2>2. CASE UseFreed(t)
    <3>1. Quiet /\ UNCHANGED <<pc, localVars>>
      BY <2>2 DEF UseFreed, Quiet
    <3>2. SharedTypes'
      BY <2>2 DEF UseFreed, ArpInv, SharedTypes, cellVars
    <3> QED
      BY <2>1, <3>1, <3>2, StayProceeds, QuietAdvances DEF ArpInv, Quiet
  <2>3. CASE Handle(t)
    BY <2>1, <2>3, HandleStep, SharedStep DEF ArpInv
  <2> QED
    BY <1>2, <2>2, <2>3 DEF ThreadStep
<1> QED
  BY <1>1, <1>2 DEF ArpNext, Stopped

\* The invariant holds throughout.
LEMMA ArpInvariant == ArpSpec => []ArpInv
<1>1. ArpInv /\ [ArpNext]_arpVars => ArpInv'
  BY NextArpInv
<1> QED
  BY InitArpInv, <1>1, PTL DEF ArpSpec

\* Every state of the cache and of the threads has the declared types, however
\* many threads there are and whatever frames arrive.
THEOREM CacheTypeCorrect == ArpSpec => []ArpTypeOK
<1>1. ArpInv => ArpTypeOK
  BY DEF ArpInv, LookupInv, LocalTypes, SharedTypes, ArpTypeOK
<1> QED
  BY ArpInvariant, <1>1, PTL

\* set_in_arp_cache is only called for a key that is in the cache, which it
\* still is at its hashmap_put, and only senders in the cache are answered
\* (arp.c:53-63, 179-197), for any number of threads.
THEOREM MergesWhatIsCached == ArpSpec => []MergedIsCached
<1>1. ArpInv => MergedIsCached
  BY DEF ArpInv, ThreadInv, KeyCached, Lookup, MergedIsCached
<1> QED
  BY ArpInvariant, <1>1, PTL

\* The unlocked hashmap_get never reads past the end of an array, however often
\* and whenever other threads grow the table (arp.c:59, 220; hashmap.c:60-67).
THEOREM UnlockedGetStaysInBounds == ArpSpec => []ReadsInBounds
<1>1. ArpInv => ReadsInBounds
  BY DEF ArpInv, ThreadInv, InBounds, ReadsInBounds, Growing, Idle
<1> QED
  BY ArpInvariant, <1>1, PTL

\* cache_mutex serialises what the threads do to the table: the cache behaves
\* like the table of module Hashmap used by one caller, although hashmap_get
\* and arp_destroy do not take the mutex (arp.c:39-76).
THEOREM CacheIsHashmap == ArpSpec => Spec
<1>1. ArpInit => Init
  BY DEF ArpInit
<1>2. ArpInv /\ [ArpNext]_arpVars => [Next]_mapVars
  BY NextArpInv
<1> QED
  BY <1>1, <1>2, ArpInvariant, PTL DEF ArpSpec, Spec

\* Hence the table of the ARP cache is a dictionary, whichever way its threads
\* add, update and grow it.
THEOREM CacheImplementsDictionary == ArpSpec => ImplementsDictionary
  BY CacheIsHashmap, HashmapImplementsDictionary, PTL

\* Hence, whenever the table is not growing, a lookup under the mutex finds
\* exactly the hosts that were added: is_in_arp_cache misses none and finds no
\* other (arp.c:39-47).
THEOREM CacheLookupsAgree == ArpSpec => []LookupsAgree
  BY CacheIsHashmap, LookupsFindEntries, PTL
=============================================================================
