--------------------------- MODULE ArpCellProofs ---------------------------
(***************************************************************************)
(* Proofs about the cells of ArpCache, for any number of threads: as long  *)
(* as the table did not grow under a thread that reads it without the      *)
(* mutex, the unlocked hashmap_get returns a cell of the key it looks for, *)
(* what is sent goes to addresses its host announced, and arp_destroy      *)
(* frees no cell twice.                                                    *)
(***************************************************************************)
EXTENDS ArpCacheProofs

\* The unlocked hashmap_get has only passed slots that hold other keys, and
\* has found the slot of its key when the loop is left.
OnTrack(t) ==
  /\ pc[t] \in {"element", "probe", "fetch", "value"} =>
       \E d \in Index : /\ index[t] = Probe(pkt[t].key, d)
                        /\ \A e \in Index : e < d => Collides(pkt[t].key, e)
  /\ pc[t] \in {"probe", "value"} =>
       el[t].gen = generation /\ el[t].at = index[t]
  /\ pc[t] \in {"fetch", "value"} =>
       array[index[t]] # Unused /\ array[index[t]].key = pkt[t].key

\* The cell a thread writes to, stores or sends to is one of its key.
HoldsOwn(t) ==
  pc[t] \in {"merge", "merge_low", "set", "put", "resolved", "copy", "send"}
    => dst_mac[t] \in Values /\ owner[dst_mac[t]] = pkt[t].key

\* Cells are filled from ARP packets.
FillsFromArp(t) ==
  pc[t] \in {"add", "put", "merge", "merge_low", "set"} => pkt[t].kind = "arp"

\* Word w of an address the host of key k announced.
IsWord(k, w, x) == \E m \in Announced(k) : x = m[w]

Copied(t) ==
  /\ pc[t] \in {"copy", "send"} => IsWord(pkt[t].key, 1, mac[t][1])
  /\ pc[t] = "send" => IsWord(pkt[t].key, 2, mac[t][2])

\* Every entry has a cell of its key, and cells are filled.
EntriesOwned == \A e \in Entries : owner[e.value] = e.key

TodoOwned == todo # Unused => owner[todo.value] = todo.key

CellsFilled ==
  \A c \in Values : owner[c] # NULL =>
    IsWord(owner[c], 1, mem[c][1]) /\ IsWord(owner[c], 2, mem[c][2])

\* What arp_destroy has freed is behind its iterator.
Behind(t) ==
  pc[t] = "destroy" =>
    \A c \in Values : freed[c] > 0 =>
      \E j \in Used : j < index[t] /\ array[j].key = owner[c]

\* exit() runs its handlers once.
OneDestroys ==
  /\ status = "running" => /\ \A t \in Threads : pc[t] # "destroy"
                           /\ \A c \in Values : freed[c] = 0
  /\ \A t, u \in Threads : pc[t] = "destroy" /\ pc[u] = "destroy" => t = u

CellThread(t) ==
  /\ Reading(t) => Idle
  /\ OnTrack(t) /\ HoldsOwn(t) /\ FillsFromArp(t) /\ Copied(t) /\ Behind(t)

CellInv ==
  /\ EntriesOwned /\ TodoOwned /\ CellsFilled
  /\ \A c \in Values : freed[c] <= 1
  /\ \A t \in Threads : CellThread(t)

CleanInv == OneDestroys /\ (~ overlap => CellInv)

-----------------------------------------------------------------------------
\* hashmap_indexof goes round the table one slot at a time.
LEMMA NextRemainder ==
  ASSUME NEW a \in Nat, NEW m \in Nat, m > 0
  PROVE  ((a % m) + 1) % m = (a + 1) % m
<1> DEFINE q == a \div m
           r == a % m
<1>1. q \in Nat /\ r \in 0..(m - 1) /\ a = m * q + r
  OBVIOUS
<1> HIDE DEF q, r
<1>2. CASE r + 1 < m
  <2>1. (m * q + (r + 1)) % m = r + 1
    BY <1>1, <1>2
  <2> QED
    BY <1>1, <1>2, <2>1
<1>3. CASE r + 1 = m
  <2>1. (m * (q + 1)) % m = 0
    BY <1>1, <1>3
  <2> QED
    BY <1>1, <1>3, <2>1
<1> QED
  BY <1>1, <1>2, <1>3 DEF r

\* A step leaves the table and the mutex alone, or is one of those under the
\* mutex.
LEMMA HandleCases ==
  ASSUME NEW t \in Threads, Handle(t)
  PROVE  \/ Quiet
         \/ \E from \in {"set", "put"} : PutInCache(t, from)
         \/ \E from \in {"set", "put"} : PutGrowsCache(t, from)
         \/ Expand(t) \/ Expanded(t)
<1>1. is_in_arp_cache(t) \/ hashmap_get(t) \/ arp_reply(t) => Quiet
  BY DEF is_in_arp_cache, hashmap_get, GetHash, GetElement, GetProbe, GetValue,
         arp_reply, Quiet, sharedVars
<1>2. ip_send_packet(t) => Quiet
  BY DEF ip_send_packet, Unresolved, CopyWord, Sent, Quiet, sharedVars
<1>3. ExitStep(t) => Quiet
  BY DEF ExitStep, Exit, ExitAgain, arp_destroy, DestroyEntry, DestroyEnds, Ends,
         Quiet
<1>4. Receive(t) \/ AssertFails(t) \/ AddCell(t) => Quiet
  BY DEF Receive, AssertFails, AddCell, Quiet
<1>5. \A w, from, to : MergeWord(t, w, from, to) => Quiet
  BY DEF MergeWord, Quiet
<1> QED
  BY <1>1, <1>2, <1>3, <1>4, <1>5 DEF Handle, set_in_arp_cache, add_to_arp_cache

\* While the table does not grow, slots in use keep their keys.
Stable ==
  /\ capacity' = capacity /\ generation' = generation /\ Index' = Index
  /\ \A j \in Index : array[j] # Unused =>
                        array'[j] # Unused /\ array'[j].key = array[j].key

\* Keys and slots only change place when the table grows.
LEMMA Stability ==
  ASSUME ArpInv, NEW t \in Threads, Handle(t), Idle, Idle'
  PROVE  Stable
<1>1. TypeOK /\ Reach /\ LookupInv
  BY DEF ArpInv, LookupInv
<1>2. CASE Quiet
  BY <1>2, QuietTable DEF Stable, Quiet, mapVars
<1>3. ASSUME NEW from \in {"set", "put"}, PutInCache(t, from)
      PROVE  Stable
  <2>1. Cell(t) \in Entry /\ hashmap_put(Cell(t)) /\ generation' = generation
    BY <1>3, CellIsEntry DEF PutInCache
  <2>2. Store(Cell(t)) /\ capacity' = capacity /\ Index' = Index
    BY <2>1 DEF hashmap_put, Index
  <2>3. PICK j \in Index :
          /\ array' = [array EXCEPT ![j] = Cell(t)]
          /\ array[j] = Unused \/ array[j].key = Cell(t).key
    BY <1>1, <2>1, <2>2, StoreFacts
  <2>4. array \in [Index -> Slot] /\ Cell(t) # Unused
    BY <1>1, <2>1, HashmapAssumption DEF TypeOK
  <2> QED
    BY <2>1, <2>2, <2>3, <2>4 DEF Stable
<1>4. ASSUME NEW from \in {"set", "put"}, PutGrowsCache(t, from)
      PROVE  FALSE
  <2>1. Cell(t) \in Slot /\ BeginExpand(Cell(t))
    BY <1>4, CellIsEntry DEF PutGrowsCache, PutExpands, Slot
  <2> QED
    BY <1>1, <2>1, BeginExpandStep
<1>5. ~ Expand(t) /\ ~ Expanded(t)
  BY DEF Expand, Expanded, ExpandMoves, ExpandSkips, ExpandEnds
<1> QED
  BY <1>2, <1>3, <1>4, <1>5, HandleCases

\* Entries have a key and a value, those still to be moved included.
LEMMA EntriesAreEntries == TypeOK => Entries \subseteq Entry
<1> SUFFICES ASSUME TypeOK, NEW e \in Entries PROVE e \in Entry
  OBVIOUS
<1>1. CASE e \in {array[j] : j \in Used}
  BY <1>1 DEF Used, TypeOK, Slot
<1>2. CASE ~ Idle /\ e \in {old[j] : j \in {n \in DOMAIN old : n >= i /\ old[n] # Unused}}
  BY <1>2 DEF TypeOK, Slot
<1> QED
  BY <1>1, <1>2 DEF Entries

\* Passed slots stay passed.
LEMMA StillOnTrack ==
  ASSUME TypeOK, Stable, NEW k \in Keys, NEW d \in Index
  PROVE  /\ Probe(k, d) \in Index /\ Probe(k, d)' = Probe(k, d)
         /\ Collides(k, d) => Collides(k, d)'
<1>1. Hash[k] \in Nat /\ d \in Nat
  BY HashmapAssumption DEF Index
<1>2. Probe(k, d) \in Index
  BY <1>1, RemainderInIndex DEF Probe
<1>3. Probe(k, d)' = Probe(k, d)
  BY DEF Probe, Stable
<1> QED
  BY <1>2, <1>3 DEF Collides, Stable

-----------------------------------------------------------------------------
(***************************************************************************)
(* What a step of t leaves of the other threads' facts.                    *)
(***************************************************************************)

\* Cells keep their owner.
OwnersStay == \A c \in Values : owner[c] # NULL => owner'[c] = owner[c]

\* A cell is given to a key once.
LEMMA OwnersStep ==
  ASSUME ArpInv, NEW t \in Threads, Handle(t)
  PROVE  OwnersStay
<1>1. CASE AddCell(t)
  <2>1. PICK c \in Values : owner[c] = NULL
                            /\ owner' = [owner EXCEPT ![c] = pkt[t].key]
    BY <1>1, Zenon DEF AddCell, NewCell
  <2>2. owner \in [Values -> Keys \cup {NULL}]
    BY DEF ArpInv, SharedTypes
  <2> QED
    BY <2>1, <2>2 DEF OwnersStay
<1>2. CASE owner' = owner
  BY <1>2 DEF OwnersStay
<1>3. is_in_arp_cache(t) \/ hashmap_get(t) \/ arp_reply(t) => owner' = owner
  BY DEF is_in_arp_cache, hashmap_get, GetHash, GetElement, GetProbe, GetValue,
         arp_reply, sharedVars, cellVars
<1>4. ip_send_packet(t) => owner' = owner
  BY DEF ip_send_packet, Unresolved, CopyWord, Sent, sharedVars, cellVars
<1>5. ExitStep(t) => owner' = owner
  BY DEF ExitStep, Exit, ExitAgain, arp_destroy, DestroyEntry, DestroyEnds, Ends,
         cellVars
<1>6. Receive(t) \/ AssertFails(t) \/ Expand(t) \/ Expanded(t) => owner' = owner
  BY DEF Receive, AssertFails, Expand, Expanded, cellVars
<1>7. \A w, from, to : (\/ MergeWord(t, w, from, to) \/ PutInCache(t, from)
                        \/ PutGrowsCache(t, from)) => owner' = owner
  BY DEF MergeWord, PutInCache, PutGrowsCache, cellVars
<1> QED
  BY <1>1, <1>2, <1>3, <1>4, <1>5, <1>6, <1>7
     DEF Handle, set_in_arp_cache, add_to_arp_cache

\* A step of t leaves the locals of the other threads alone.
LEMMA OtherThreads ==
  ASSUME ArpInv, NEW t \in Threads, Handle(t), NEW u \in Threads \ {t}
  PROVE  Same(u) /\ mac'[u] = mac[u]
<1>1. LocalTypes
  BY DEF ArpInv
<1>2. mac'[u] = mac[u]
  <2>1. CASE mac' = mac
    BY <2>1
  <2>2. CASE Sent(t) \/ CopyWord(t, 1, "resolved", "copy")
               \/ CopyWord(t, 2, "copy", "send")
    BY <1>1, <2>2 DEF Sent, CopyWord, LocalTypes
  <2>3. Receive(t) \/ is_in_arp_cache(t) \/ hashmap_get(t) => mac' = mac
    BY DEF Receive, is_in_arp_cache, hashmap_get, GetHash, GetElement, GetProbe,
           GetValue
  <2>4. ExitStep(t) \/ AssertFails(t) \/ Unresolved(t) => mac' = mac
    BY DEF ExitStep, Exit, ExitAgain, arp_destroy, DestroyEntry, DestroyEnds,
           Ends, AssertFails, Unresolved, localVars
  <2>5. AddCell(t) \/ arp_reply(t) \/ Expand(t) \/ Expanded(t) => mac' = mac
    BY DEF AddCell, arp_reply, Expand, Expanded, localVars
  <2>6. \A w, from, to : (\/ MergeWord(t, w, from, to) \/ PutInCache(t, from)
                          \/ PutGrowsCache(t, from)) => mac' = mac
    BY DEF MergeWord, PutInCache, PutGrowsCache, localVars
  <2> QED
    BY <2>1, <2>2, <2>3, <2>4, <2>5, <2>6
       DEF Handle, set_in_arp_cache, add_to_arp_cache, ip_send_packet
<1>3. Same(u)
  <2>1. CASE Receive(t)
    BY <1>1, <2>1 DEF Receive, Goto, LocalTypes, Same
  <2>2. CASE is_in_arp_cache(t) \/ arp_reply(t) \/ Expanded(t)
    BY <1>1, <2>2
       DEF is_in_arp_cache, arp_reply, Expanded, LeaveHandler, Goto, LocalTypes,
           Same
  <2>3. CASE hashmap_get(t)
    BY <2>3, GetProceeds DEF Proceeds
  <2>4. CASE UNCHANGED <<pc, localVars>>
    BY <2>4 DEF localVars, Same
  <2>5. CASE AddCell(t)
    BY <2>5, AddProceeds DEF Proceeds
  <2>6. CASE Unresolved(t) \/ Exit(t) \/ Expand(t)
    BY <1>1, <2>6 DEF Unresolved, Exit, Expand, Goto, LocalTypes, Same, localVars
  <2>7. CASE DestroyEntry(t)
    BY <2>7, DestroyProceeds DEF Proceeds
  <2>8. CASE Sent(t) \/ CopyWord(t, 1, "resolved", "copy")
               \/ CopyWord(t, 2, "copy", "send")
    BY <2>8, SentProceeds, CopyProceeds DEF Proceeds
  <2>9. ASSUME NEW w, NEW from, NEW to, MergeWord(t, w, from, to)
        PROVE  Same(u)
    BY <1>1, <2>9 DEF MergeWord, Goto, LocalTypes, Same, localVars
  <2>10. ASSUME NEW from, PutInCache(t, from) \/ PutGrowsCache(t, from)
         PROVE  Same(u)
    BY <1>1, <2>10
       DEF PutInCache, PutGrowsCache, LeaveHandler, Goto, LocalTypes, Same
  <2>11. AssertFails(t) \/ ExitAgain(t) \/ DestroyEnds(t)
           => UNCHANGED <<pc, localVars>>
    BY DEF AssertFails, ExitAgain, DestroyEnds, Ends
  <2> QED
    BY <2>1, <2>2, <2>3, <2>4, <2>5, <2>6, <2>7, <2>8, <2>9, <2>10, <2>11
       DEF Handle, set_in_arp_cache, add_to_arp_cache, ip_send_packet, ExitStep,
           arp_destroy
<1> QED
  BY <1>2, <1>3

\* Only the thread in arp_destroy frees cells.
LEMMA FreedStep ==
  ASSUME NEW t \in Threads, Handle(t), ~ DestroyEntry(t)
  PROVE  freed' = freed
<1>1. Receive(t) \/ is_in_arp_cache(t) \/ hashmap_get(t) => freed' = freed
  BY DEF Receive, is_in_arp_cache, hashmap_get, GetHash, GetElement, GetProbe,
         GetValue, sharedVars, exitVars
<1>2. ip_send_packet(t) \/ arp_reply(t) => freed' = freed
  BY DEF ip_send_packet, Unresolved, CopyWord, Sent, arp_reply, sharedVars,
         exitVars
<1>3. ExitStep(t) => freed' = freed
  BY DEF ExitStep, Exit, ExitAgain, arp_destroy, DestroyEnds, Ends
<1>4. AssertFails(t) \/ AddCell(t) \/ Expand(t) \/ Expanded(t) => freed' = freed
  BY DEF AssertFails, AddCell, Expand, Expanded, exitVars
<1>5. \A w, from, to : (\/ MergeWord(t, w, from, to) \/ PutInCache(t, from)
                        \/ PutGrowsCache(t, from)) => freed' = freed
  BY DEF MergeWord, PutInCache, PutGrowsCache, exitVars
<1> QED
  BY <1>1, <1>2, <1>3, <1>4, <1>5 DEF Handle, set_in_arp_cache, add_to_arp_cache

\* A thread's facts survive a step that leaves its locals alone.
LEMMA KeptCell ==
  ASSUME ArpInv, NEW u \in Threads, CellThread(u), Same(u), mac'[u] = mac[u],
         OwnersStay, Reading(u)' => Idle', Idle /\ Idle' => Stable,
         pc[u] = "destroy" => freed' = freed
  PROVE  CellThread(u)'
<1>1. /\ TypeOK /\ HasData(u) /\ pc'[u] = pc[u] /\ pkt'[u] = pkt[u]
      /\ index'[u] = index[u] /\ el'[u] = el[u] /\ dst_mac'[u] = dst_mac[u]
  BY DEF ArpInv, LookupInv, ThreadInv, Same
<1>2. FillsFromArp(u)' /\ Copied(u)'
  BY <1>1, Zenon DEF CellThread, FillsFromArp, Copied, IsWord
<1>3. HoldsOwn(u)'
  <2> SUFFICES ASSUME pc[u] \in {"merge", "merge_low", "set", "put", "resolved",
                                "copy", "send"}
               PROVE  dst_mac[u] \in Values /\ owner'[dst_mac[u]] = pkt[u].key
    BY <1>1, Zenon DEF HoldsOwn
  <2>1. dst_mac[u] \in Values /\ owner[dst_mac[u]] = pkt[u].key
    BY DEF CellThread, HoldsOwn
  <2>2. pkt[u].key # NULL
    BY <1>1, FrameFacts, ArpAssumption DEF HasData
  <2> QED
    BY <2>1, <2>2 DEF OwnersStay
<1>4. Reading(u) => Stable
  BY <1>1 DEF Reading, CellThread
<1>5. OnTrack(u)'
  <2> SUFFICES ASSUME pc[u] \in {"element", "probe", "fetch", "value"}
               PROVE  OnTrack(u)'
    BY <1>1 DEF OnTrack
  <2>1. Stable /\ OnTrack(u)
    BY <1>4 DEF Reading, CellThread
  <2>2. PICK k \in Keys : k = pkt[u].key
    BY <1>1, FrameFacts DEF HasData
  <2>3. PICK d \in Index : /\ index[u] = Probe(k, d)
                           /\ \A e \in Index : e < d => Collides(k, e)
    BY <2>1, <2>2 DEF OnTrack
  <2>4. /\ index[u] \in Index /\ Index' = Index /\ index'[u] = Probe(k, d)'
        /\ \A e \in Index : e < d => Collides(k, e)'
    BY <1>1, <2>1, <2>3, StillOnTrack, Zenon DEF Stable
  <2>5. pc[u] \in {"fetch", "value"} =>
          array'[index[u]] # Unused /\ array'[index[u]].key = pkt[u].key
    BY <2>1, <2>4 DEF OnTrack, Stable
  <2>6. pc[u] \in {"probe", "value"} =>
          el[u].gen = generation' /\ el[u].at = index[u]
    BY <2>1 DEF OnTrack, Stable
  <2> QED
    <3>1. k = pkt'[u].key
      BY <1>1, <2>2
    <3>2. \E f \in Index' : /\ index'[u] = Probe(k, f)'
                            /\ \A e \in Index' : e < f => Collides(k, e)'
      BY <2>4, SMTT(20)
    <3> QED
      BY <1>1, <2>5, <2>6, <3>1, <3>2, Zenon DEF OnTrack
<1>6. Behind(u)'
  <2> SUFFICES ASSUME pc[u] = "destroy", NEW c \in Values, freed[c] > 0
               PROVE  \E j \in Used' : j < index[u] /\ array'[j].key = owner'[c]
    BY <1>1 DEF Behind
  <2>1. PICK j \in Used : j < index[u] /\ array[j].key = owner[c]
    BY DEF CellThread, Behind
  <2>2. array[j] \in Entry /\ j \in Index /\ array[j] # Unused
    BY <1>1 DEF Used, TypeOK, Slot
  <2>3. owner[c] # NULL
    BY <2>1, <2>2, ArpAssumption DEF Entry
  <2>4. j \in Used' /\ array'[j].key = array[j].key
    BY <1>4, <2>2 DEF Stable, Used, Reading
  <2> QED
    BY <2>1, <2>3, <2>4 DEF OwnersStay
<1> QED
  BY <1>2, <1>3, <1>5, <1>6, SMTT(20) DEF CellThread

-----------------------------------------------------------------------------
(***************************************************************************)
(* The table and the cells.                                                *)
(***************************************************************************)

\* Entries that were there keep their cells.
LEMMA OwnedStay ==
  ASSUME ArpInv, EntriesOwned, OwnersStay
  PROVE  \A e \in Entries : e \in Entry /\ owner'[e.value] = e.key
<1>1. Entries \subseteq Entry
  BY EntriesAreEntries DEF ArpInv, LookupInv
<1> QED
  BY <1>1, ArpAssumption DEF EntriesOwned, OwnersStay, Entry

\* Every entry, and the one waiting for the table to grow, has a cell of its key.
LEMMA OwnedStep ==
  ASSUME ArpInv, CellInv, NEW t \in Threads, Handle(t)
  PROVE  EntriesOwned' /\ TodoOwned'
<1>1. /\ LookupInv /\ HasData(t) /\ Expanding(t) /\ HoldsOwn(t)
      /\ EntriesOwned /\ TodoOwned
  BY DEF ArpInv, ThreadInv, CellInv, CellThread
<1>2. OwnersStay /\ \A e \in Entries : e \in Entry /\ owner'[e.value] = e.key
  BY <1>1, OwnersStep, OwnedStay
<1>3. todo # Unused => owner'[todo.value] = todo.key
  BY <1>1, <1>2, ArpAssumption DEF TodoOwned, OwnersStay, LookupInv, TypeOK,
     Slot, Entry
<1>4. ASSUME NEW from \in {"set", "put"}, pc[t] = from, owner' = owner
      PROVE  Cell(t) \in Entry /\ owner'[Cell(t).value] = Cell(t).key
  BY <1>1, <1>4, CellIsEntry DEF HoldsOwn, Cell
<1>5. CASE Quiet
  BY <1>2, <1>3, <1>5, QuietTable DEF EntriesOwned, TodoOwned
<1>6. ASSUME NEW from \in {"set", "put"}, PutInCache(t, from)
      PROVE  EntriesOwned' /\ TodoOwned'
  <2>1. /\ hashmap_put(Cell(t)) /\ pc[t] = from /\ owner' = owner
        /\ todo' = todo
    BY <1>6 DEF PutInCache, hashmap_put, cellVars
  <2>2. Cell(t) \in Entry /\ owner'[Cell(t).value] = Cell(t).key
    BY <1>4, <2>1
  <2>3. Entries' \subseteq Entries \cup {Cell(t)}
    BY <1>1, <2>1, <2>2, PutStep DEF Dict!DictPut
  <2> QED
    BY <1>2, <1>3, <2>1, <2>2, <2>3 DEF EntriesOwned, TodoOwned
<1>7. ASSUME NEW from \in {"set", "put"}, PutGrowsCache(t, from)
      PROVE  EntriesOwned' /\ TodoOwned'
  <2>1. /\ PutExpands(Cell(t)) /\ pc[t] = from /\ owner' = owner
        /\ todo' = Cell(t)
    BY <1>7 DEF PutGrowsCache, PutExpands, BeginExpand, cellVars
  <2>2. Cell(t) \in Entry /\ owner'[Cell(t).value] = Cell(t).key
    BY <1>4, <2>1
  <2>3. Entries' = Entries
    BY <1>1, <2>1, <2>2, BeginExpandStep DEF PutExpands, Slot
  <2> QED
    BY <1>2, <2>1, <2>2, <2>3 DEF EntriesOwned, TodoOwned
<1>8. CASE Expand(t)
  <2>1. Entries' = Entries /\ todo' = todo
    BY <1>1, <1>8, MoveStep, SkipStep DEF Expand, ExpandMoves, ExpandSkips
  <2> QED
    BY <1>2, <1>3, <2>1 DEF EntriesOwned, TodoOwned
<1>9. CASE Expanded(t)
  <2>1. /\ ExpandEnds /\ todo' = Unused /\ owner' = owner /\ todo \in Entry
        /\ todo # Unused
    BY <1>1, <1>9, HashmapAssumption
       DEF Expanded, ExpandEnds, cellVars, Expanding
  <2>2. Entries' \subseteq Entries \cup {todo}
    BY <1>1, <2>1, EndStep DEF Dict!DictPut
  <2> QED
    BY <1>2, <1>3, <2>1, <2>2 DEF EntriesOwned, TodoOwned
<1> QED
  BY <1>5, <1>6, <1>7, <1>8, <1>9, HandleCases

\* The address of an ARP packet was announced by its sender.
LEMMA ArpAnnounces ==
  ASSUME NEW f \in Frames, f.kind = "arp"
  PROVE  IsWord(f.key, 1, f.mac[1]) /\ IsWord(f.key, 2, f.mac[2])
BY DEF IsWord, Announced

\* Cells are filled from the ARP packets of their owner, word by word.
LEMMA FilledStep ==
  ASSUME ArpInv, CellInv, NEW t \in Threads, Handle(t)
  PROVE  CellsFilled'
<1>1. /\ HasData(t) /\ HoldsOwn(t) /\ FillsFromArp(t) /\ CellsFilled
      /\ mem \in [Values -> Mac] /\ owner \in [Values -> Keys \cup {NULL}]
      /\ LocalTypes
  BY DEF ArpInv, SharedTypes, ThreadInv, CellInv, CellThread
<1>2. CASE UNCHANGED cellVars
  BY <1>1, <1>2 DEF CellsFilled, cellVars, IsWord
<1>3. CASE MergeWord(t, 1, "merge", "merge_low")
             \/ MergeWord(t, 2, "merge_low", "set")
  <2> DEFINE c == dst_mac[t]
             k == pkt[t].key
  <2>1. /\ pkt[t] \in Frames /\ pkt[t].kind = "arp" /\ c \in Values
        /\ owner[c] = k /\ owner' = owner
    BY <1>1, <1>3 DEF MergeWord, Goto, HasData, HoldsOwn, FillsFromArp
  <2>2. IsWord(k, 1, pkt[t].mac[1]) /\ IsWord(k, 2, pkt[t].mac[2])
    BY <2>1, ArpAnnounces
  <2>3. k # NULL
    BY <2>1, FrameFacts, ArpAssumption
  <2>4. IsWord(k, 1, mem[c][1]) /\ IsWord(k, 2, mem[c][2])
    BY <1>1, <2>1, <2>3, SMTT(20) DEF CellsFilled
  <2>5. /\ \A b \in Values \ {c} : mem'[b] = mem[b]
        /\ mem'[c][1] \in {mem[c][1], pkt[t].mac[1]}
        /\ mem'[c][2] \in {mem[c][2], pkt[t].mac[2]}
    <3>1. mem[c] \in Mac
      BY <1>1, <2>1, SMTT(20)
    <3>2. CASE MergeWord(t, 1, "merge", "merge_low")
      <4>1. mem' = [mem EXCEPT ![c] = [mem[c] EXCEPT ![1] = pkt[t].mac[1]]]
        BY <3>2 DEF MergeWord
      <4> QED
        BY <1>1, <2>1, <3>1, <4>1 DEF Mac
    <3>3. CASE MergeWord(t, 2, "merge_low", "set")
      <4>1. mem' = [mem EXCEPT ![c] = [mem[c] EXCEPT ![2] = pkt[t].mac[2]]]
        BY <3>3, SMTT(20) DEF MergeWord
      <4> QED
        BY <1>1, <2>1, <3>1, <4>1 DEF Mac
    <3> QED
      BY <1>3, <3>2, <3>3
  <2> HIDE DEF c, k
  <2>6. ASSUME NEW b \in Values, owner'[b] # NULL
        PROVE  IsWord(owner'[b], 1, mem'[b][1]) /\ IsWord(owner'[b], 2, mem'[b][2])
    <3>1. CASE b = c
      BY <2>1, <2>2, <2>4, <2>5, <3>1
    <3>2. CASE b # c
      BY <1>1, <2>1, <2>5, <2>6, <3>2 DEF CellsFilled
    <3> QED
      BY <3>1, <3>2
  <2> QED
    BY <2>6 DEF CellsFilled, IsWord
<1>4. CASE AddCell(t)
  <2>1. pkt[t] \in Frames /\ pkt[t].kind = "arp"
    BY <1>1, <1>4 DEF AddCell, Goto, HasData, FillsFromArp
  <2>2. IsWord(pkt[t].key, 1, pkt[t].mac[1]) /\ IsWord(pkt[t].key, 2, pkt[t].mac[2])
    BY <2>1, ArpAnnounces
  <2>3. PICK c \in Values : /\ mem' = [mem EXCEPT ![c] = pkt[t].mac]
                            /\ owner' = [owner EXCEPT ![c] = pkt[t].key]
    BY <1>4, Zenon DEF AddCell, NewCell, FillCell
  <2>4. ASSUME NEW b \in Values, owner'[b] # NULL
        PROVE  IsWord(owner'[b], 1, mem'[b][1]) /\ IsWord(owner'[b], 2, mem'[b][2])
    <3>1. CASE b = c
      BY <1>1, <2>2, <2>3, <3>1
    <3>2. CASE b # c
      <4>1. mem'[b] = mem[b] /\ owner'[b] = owner[b]
        BY <1>1, <2>3, <3>2
      <4> QED
        BY <1>1, <2>4, <4>1 DEF CellsFilled
    <3> QED
      BY <3>1, <3>2
  <2> QED
    BY <2>4 DEF CellsFilled, IsWord
<1>5. is_in_arp_cache(t) \/ hashmap_get(t) \/ arp_reply(t) => UNCHANGED cellVars
  BY Zenon
     DEF is_in_arp_cache, hashmap_get, GetHash, GetElement, GetProbe, GetValue,
         arp_reply, sharedVars
<1>6. ip_send_packet(t) => UNCHANGED cellVars
  BY DEF ip_send_packet, Unresolved, CopyWord, Sent, sharedVars
<1>7. ExitStep(t) => UNCHANGED cellVars
  BY DEF ExitStep, Exit, ExitAgain, arp_destroy, DestroyEntry, DestroyEnds, Ends
<1>8. Receive(t) \/ AssertFails(t) \/ Expand(t) \/ Expanded(t)
        => UNCHANGED cellVars
  BY DEF Receive, AssertFails, Expand, Expanded
<1>9. \A from : PutInCache(t, from) \/ PutGrowsCache(t, from)
                  => UNCHANGED cellVars
  BY DEF PutInCache, PutGrowsCache
<1> QED
  BY <1>2, <1>3, <1>4, <1>5, <1>6, <1>7, <1>8, <1>9
     DEF Handle, set_in_arp_cache, add_to_arp_cache

-----------------------------------------------------------------------------
(***************************************************************************)
(* arp_destroy.                                                            *)
(***************************************************************************)

\* One thread runs the exit handlers, and nothing is freed before it does.
LEMMA DestroysStep ==
  ASSUME ArpInv, OneDestroys, NEW t \in Threads, Handle(t)
  PROVE  OneDestroys'
<1>1. LocalTypes /\ \A u \in Threads \ {t} : pc'[u] = pc[u]
  BY OtherThreads DEF ArpInv, Same
<1>2. CASE Exit(t)
  <2>1. status = "running" /\ status' = "exiting"
    BY <1>2 DEF Exit
  <2> QED
    BY <1>1, <2>1 DEF OneDestroys
<1>3. CASE DestroyEntry(t)
  <2>1. pc' = pc /\ status' = status /\ pc[t] = "destroy"
    BY <1>3 DEF DestroyEntry
  <2> QED
    BY <2>1 DEF OneDestroys
<1>4. ASSUME ~ Exit(t), ~ DestroyEntry(t)
      PROVE  /\ pc'[t] = "destroy" => pc[t] = "destroy"
             /\ status' = "running" => status = "running"
  <2>1. Receive(t) => pc'[t] # "destroy" /\ status' = status
    BY <1>1 DEF Receive, Goto, LocalTypes, exitVars
  <2>2. is_in_arp_cache(t) => pc'[t] # "destroy" /\ status' = status
    BY <1>1 DEF is_in_arp_cache, Absent, Goto, LocalTypes, sharedVars, exitVars
  <2>3. hashmap_get(t) => pc'[t] # "destroy" /\ status' = status
    BY <1>1, Zenon
       DEF hashmap_get, GetHash, GetElement, GetProbe, GetValue, Goto,
       LocalTypes, sharedVars, exitVars
  <2>4. ip_send_packet(t) \/ arp_reply(t) => pc'[t] # "destroy" /\ status' = status
    BY <1>1, Zenon
       DEF ip_send_packet, Unresolved, CopyWord, Sent, arp_reply, Goto,
       LocalTypes, sharedVars, exitVars
  <2>5. ExitAgain(t) \/ DestroyEnds(t) \/ AssertFails(t)
          => pc' = pc /\ status' # "running"
    BY Zenon DEF ExitAgain, DestroyEnds, Ends, AssertFails
  <2>6. AddCell(t) \/ Expand(t) => pc'[t] # "destroy" /\ status' = status
    BY <1>1 DEF AddCell, Expand, Goto, LocalTypes, exitVars
  <2>7. Expanded(t) => pc'[t] # "destroy" /\ status' = status
    BY <1>1 DEF Expanded, Answered, Goto, LocalTypes, exitVars
  <2>8. \A from : PutInCache(t, from) \/ PutGrowsCache(t, from)
                    => pc'[t] # "destroy" /\ status' = status
    BY <1>1 DEF PutInCache, PutGrowsCache, Answered, Goto, LocalTypes, exitVars
  <2>9. (\/ MergeWord(t, 1, "merge", "merge_low")
         \/ MergeWord(t, 2, "merge_low", "set"))
          => pc'[t] # "destroy" /\ status' = status
    BY <1>1 DEF MergeWord, Goto, LocalTypes, exitVars
  <2> QED
    BY <1>4, <2>1, <2>2, <2>3, <2>4, <2>5, <2>6, <2>7, <2>8, <2>9
       DEF Handle, set_in_arp_cache, add_to_arp_cache, ExitStep, arp_destroy
<1>5. CASE ~ Exit(t) /\ ~ DestroyEntry(t)
  <2>1. freed' = freed
    BY <1>5, FreedStep
  <2> QED
    BY <1>1, <1>4, <1>5, <2>1 DEF OneDestroys
<1> QED
  BY <1>2, <1>3, <1>5, SMTT(20)

\* The iterator of arp_destroy goes up, and no two slots share a cell.
LEMMA DestroyFrees ==
  ASSUME ArpInv, CellInv, NEW t \in Threads, DestroyEntry(t)
  PROVE  Behind(t)' /\ \A c \in Values : freed'[c] <= 1
<1>1. /\ TypeOK /\ Reach /\ LocalTypes /\ freed \in [Values -> Nat]
      /\ EntriesOwned /\ Behind(t) /\ \A c \in Values : freed[c] <= 1
  BY DEF ArpInv, LookupInv, SharedTypes, CellInv, CellThread
<1>2. /\ pc[t] = "destroy" /\ UNCHANGED <<pc, array, capacity, owner>>
  BY DEF DestroyEntry, mapVars, cellVars
<1>3. PICK j \in Used : /\ j >= index[t]
                        /\ freed' = [freed EXCEPT ![array[j].value] = @ + 1]
                        /\ index' = [index EXCEPT ![t] = j + 1]
  BY Zenon DEF DestroyEntry
<1>4. array[j] \in Entry /\ j \in Nat /\ array[j] \in Entries
  BY <1>1 DEF Used, TypeOK, Slot, Index, Entries
<1>5. PICK c \in Values : c = array[j].value /\ owner[c] = array[j].key
  BY <1>1, <1>4 DEF Entry, EntriesOwned
<1>6. index[t] \in Nat /\ index'[t] = j + 1 /\ Used' = Used
  BY <1>1, <1>2, <1>3 DEF LocalTypes, Used, Index
<1>7. freed[c] = 0
  <2> SUFFICES ASSUME freed[c] > 0 PROVE FALSE
    BY <1>1, SMTT(20)
  <2>1. PICK l \in Used : l < index[t] /\ array[l].key = owner[c]
    BY <1>1, <1>2 DEF Behind
  <2>2. l = j
    BY <1>1, <1>5, <2>1, KeysAreUnique
  <2> QED
    BY <1>3, <1>4, <1>6, <2>1, <2>2
<1>8. freed'[c] = 1 /\ \A b \in Values \ {c} : freed'[b] = freed[b]
  BY <1>1, <1>3, <1>5, <1>7
<1>9. ASSUME NEW b \in Values, freed'[b] > 0
      PROVE  \E l \in Used : l < index'[t] /\ array[l].key = owner[b]
  <2>1. CASE b = c
    BY <1>4, <1>5, <1>6, <2>1
  <2>2. CASE b # c
    <3>1. PICK l \in Used : l < index[t] /\ array[l].key = owner[b]
      BY <1>1, <1>2, <1>8, <1>9, <2>2 DEF Behind
    <3>2. l \in Nat
      BY DEF Used, Index
    <3> QED
      BY <1>3, <1>4, <1>6, <3>1, <3>2, SMTT(20)
  <2> QED
    BY <2>1, <2>2
<1>10. Behind(t)'
  BY <1>2, <1>6, <1>9 DEF Behind
<1> QED
  BY <1>1, <1>8, <1>10

-----------------------------------------------------------------------------
(***************************************************************************)
(* What a step of t establishes about t.                                   *)
(***************************************************************************)

\* Where a thread neither reads the table nor has a cell.
LEMMA ElsewhereCell ==
  ASSUME NEW t \in Threads,
         pc'[t] \in {"read", "check", "hash", "exit", "reply", "expand"}
  PROVE  CellThread(t)'
BY Zenon
   DEF CellThread, Reading, OnTrack, HoldsOwn, FillsFromArp, Copied, Behind

\* The unlocked hashmap_get advances along the probe sequence of its key, which
\* ends at the key's slot.
LEMMA GetCell ==
  ASSUME ArpInv, CellInv, NEW t \in Threads, hashmap_get(t),
         Reading(t)' => Idle'
  PROVE  CellThread(t)'
<1>1. /\ TypeOK /\ Reach /\ LocalTypes /\ HasData(t) /\ KeyCached(t)
      /\ CellThread(t) /\ OnTrack(t) /\ EntriesOwned /\ SharedTypes
  BY DEF ArpInv, LookupInv, ThreadInv, CellInv, CellThread
<1>2. Quiet
  BY GetProceeds
<1>3. /\ UNCHANGED <<array, capacity, generation, owner, pkt>>
      /\ Index' = Index /\ (Idle' <=> Idle) /\ pc[t] # "read"
  <2>1. owner' = owner /\ pkt' = pkt /\ pc[t] # "read"
    BY Zenon
       DEF hashmap_get, GetHash, GetElement, GetProbe, GetValue, sharedVars,
           cellVars, Goto
  <2> QED
    BY <1>2, <2>1, QuietTable DEF Quiet, mapVars
<1>4. PICK k \in Keys : k = pkt[t].key
  BY <1>1, <1>3, FrameFacts, Zenon DEF HasData
<1>5. \A d : Probe(k, d)' = Probe(k, d) /\ (Collides(k, d)' <=> Collides(k, d))
  BY <1>3 DEF Probe, Collides
<1>6. /\ pc[t] \in {"hash", "element", "probe", "fetch", "value"}
      /\ k \in CachedKeys
  <2>1. pc[t] \in {"hash", "element", "probe", "fetch", "value"}
    BY Zenon DEF hashmap_get, GetHash, GetElement, GetProbe, GetValue, Goto
  <2> QED
    BY <1>1, <1>4, <2>1, Zenon DEF KeyCached, Lookup
<1>7. ASSUME pc'[t] \in {"element", "probe", "fetch", "value"},
             NEW d \in Index, index'[t] = Probe(k, d),
             \A e \in Index : e < d => Collides(k, e),
             pc'[t] \in {"probe", "value"} =>
               el'[t].gen = generation /\ el'[t].at = index'[t],
             pc'[t] \in {"fetch", "value"} =>
               array[index'[t]] # Unused /\ array[index'[t]].key = k
      PROVE  CellThread(t)'
  <2>1. k = pkt'[t].key
    BY <1>3, <1>4
  <2>2. OnTrack(t)'
    <3>1. \E f \in Index' : /\ index'[t] = Probe(k, f)'
                            /\ \A e \in Index' : e < f => Collides(k, e)'
      BY <1>3, <1>5, <1>7, SMTT(20)
    <3> QED
      BY <1>3, <1>7, <2>1, <3>1, Zenon DEF OnTrack
  <2> QED
    BY <1>7, <2>2, Zenon DEF CellThread, HoldsOwn, FillsFromArp, Copied, Behind
<1>8. CASE GetHash(t)
  <2>1. pc'[t] = "element" /\ index'[t] = Hash[k] % capacity
    BY <1>1, <1>4, <1>8, Zenon DEF GetHash, Goto, LocalTypes
  <2>2. 0 \in Index /\ Probe(k, 0) = Hash[k] % capacity
    BY <1>1, FirstInIndex, HashmapAssumption DEF Probe
  <2>3. \A e \in Index : ~ (e < 0)
    BY DEF Index
  <2> QED
    BY <1>7, <2>1, <2>2, <2>3
<1>9. ASSUME pc[t] # "hash"
      PROVE  \E d \in Index : /\ index[t] = Probe(k, d)
                              /\ \A e \in Index : e < d => Collides(k, e)
  BY <1>1, <1>4, <1>6, <1>9, Zenon DEF OnTrack
<1>10. CASE GetElement(t, "element", "probe") \/ GetElement(t, "fetch", "value")
  <2>1. /\ pc[t] \in {"element", "fetch"} /\ pc'[t] \in {"probe", "value"}
        /\ pc'[t] = "value" => pc[t] = "fetch"
        /\ index'[t] = index[t]
        /\ el'[t].gen = generation /\ el'[t].at = index[t]
    BY <1>1, <1>10 DEF GetElement, Goto, LocalTypes
  <2>2. pc'[t] = "value" => array[index[t]] # Unused /\ array[index[t]].key = k
    BY <1>1, <1>4, <2>1, Zenon DEF OnTrack
  <2> QED
    BY <1>7, <1>9, <2>1, <2>2, Zenon
<1>11. CASE GetProbe(t)
  <2>1. pc[t] = "probe" /\ Element(t) = {array[index[t]]}
    <3>1. pc[t] = "probe" /\ el[t].gen = generation /\ el[t].at = index[t]
      BY <1>1, <1>11, Zenon DEF GetProbe, OnTrack
    <3>2. generation # generation - 1
      BY <1>1 DEF SharedTypes
    <3> QED
      BY <3>1, <3>2 DEF Element
  <2>2. PICK d \in Index : /\ index[t] = Probe(k, d)
                           /\ \A e \in Index : e < d => Collides(k, e)
    BY <1>9, <2>1, Zenon
  <2>3. \* The key is in the table, where a probe for it ends.
        PICK j \in Used : array[j].key = k /\ hashmap_indexof(k, j)
    <3>1. PICK e \in Entries : e.key = k
      BY <1>6 DEF CachedKeys
    <3>2. Idle
      BY <1>1, <2>1, Zenon DEF CellThread, Reading
    <3>3. PICK j \in Used : array[j] = e
      BY <3>1, <3>2, Zenon DEF Entries
    <3> QED
      BY <1>1, <3>1, <3>3, SMTT(20) DEF Reach
  <2>4. PICK f \in Index : /\ j = Probe(k, f) /\ ~ Collides(k, f)
                           /\ \A e \in Index : e < f => Collides(k, e)
    BY <2>3 DEF hashmap_indexof
  <2>5. d \in Nat /\ f \in Nat /\ Hash[k] \in Nat /\ capacity \in Nat /\ capacity > 0
    BY <1>1, HashmapAssumption DEF Index, TypeOK
  <2>6. CASE HoldsOther(array[index[t]], k)
    <3>1. pc'[t] = "element" /\ index'[t] = (index[t] + 1) % capacity
      BY <1>1, <1>4, <1>11, <2>1, <2>6 DEF GetProbe, Goto, LocalTypes
    <3>2. Collides(k, d)
      BY <2>2, <2>6, Zenon DEF HoldsOther, Collides
    <3>3. d + 1 \in Index
      <4>1. ~ (f < d) /\ f # d
        BY <2>2, <2>4, <3>2
      <4>2. f < capacity /\ f >= d + 1
        BY <2>5, <4>1, SMTT(20) DEF Index
      <4> QED
        BY <2>5, <4>2 DEF Index
    <3>4. Probe(k, d + 1) = index'[t]
      <4> DEFINE a == Hash[k] + d
      <4>1. a \in Nat /\ Hash[k] + (d + 1) = a + 1
        BY <2>5
      <4>2. a % capacity = index[t]
        BY <2>2 DEF Probe
      <4> HIDE DEF a
      <4>3. ((a % capacity) + 1) % capacity = (a + 1) % capacity
        BY <2>5, <4>1, NextRemainder, Zenon
      <4> QED
        BY <3>1, <4>1, <4>2, <4>3 DEF Probe
    <3>5. \A e \in Index : e < d + 1 => Collides(k, e)
      <4>1. \A e \in Index : e < d + 1 => e < d \/ e = d
        BY <2>5 DEF Index
      <4> QED
        BY <2>2, <3>2, <4>1
    <3> QED
      BY <1>7, <3>1, <3>3, <3>4, <3>5, Zenon
  <2>7. CASE ~ HoldsOther(array[index[t]], k)
    <3>1. pc'[t] = "fetch" /\ index'[t] = index[t]
      BY <1>1, <1>4, <1>11, <2>1, <2>7 DEF GetProbe, Goto, LocalTypes
    <3>2. ~ Collides(k, d)
      BY <2>2, <2>7, Zenon DEF HoldsOther, Collides
    <3>3. d = f
      BY <2>2, <2>4, <2>5, <3>2
    <3>4. array[index[t]] # Unused /\ array[index[t]].key = k
      BY <2>2, <2>3, <2>4, <3>3 DEF Used
    <3> QED
      BY <1>7, <2>2, <3>1, <3>4
  <2> QED
    BY <2>6, <2>7, Zenon
<1>12. CASE GetValue(t)
  <2>1. /\ pc[t] = "value" /\ Element(t) = {array[index[t]]}
        /\ array[index[t]] # Unused /\ array[index[t]].key = k
    <3>1. pc[t] = "value" /\ el[t].gen = generation /\ el[t].at = index[t]
      BY <1>1, <1>12, Zenon DEF GetValue, OnTrack
    <3>2. array[index[t]] # Unused /\ array[index[t]].key = k
      BY <1>1, <1>4, <3>1, Zenon DEF OnTrack
    <3>3. generation # generation - 1
      BY <1>1 DEF SharedTypes
    <3> QED
      BY <3>1, <3>2, <3>3 DEF Element
  <2>2. /\ pc'[t] = IF pkt[t].kind = "arp" THEN "merge" ELSE "resolved"
        /\ dst_mac'[t] = array[index[t]].value
    BY <1>1, <1>12, <2>1, Zenon DEF GetValue, Goto, LocalTypes
  <2>3. index[t] \in Index
    BY <2>1, Zenon DEF ArpInv, ThreadInv, InBounds
  <2>4. array[index[t]] \in Entry /\ array[index[t]] \in Entries
    BY <1>1, <2>1, <2>3 DEF TypeOK, Slot, Entries, Used
  <2>5. dst_mac'[t] \in Values /\ owner'[dst_mac'[t]] = pkt'[t].key
    BY <1>1, <1>3, <1>4, <2>1, <2>2, <2>4, Zenon DEF EntriesOwned, Entry
  <2>6. FillsFromArp(t)'
    BY <1>3, <2>2, Zenon DEF FillsFromArp
  <2> QED
    BY <2>2, <2>5, <2>6, Zenon
       DEF CellThread, Reading, OnTrack, HoldsOwn, Copied, Behind
<1> QED
  BY <1>8, <1>10, <1>11, <1>12 DEF hashmap_get

\* set_in_arp_cache writes a word.
LEMMA MergeCell ==
  ASSUME ArpInv, CellInv, NEW t \in Threads,
         \/ MergeWord(t, 1, "merge", "merge_low")
         \/ MergeWord(t, 2, "merge_low", "set")
  PROVE  CellThread(t)'
<1>1. LocalTypes /\ HoldsOwn(t) /\ FillsFromArp(t)
  BY DEF ArpInv, CellInv, CellThread
<1>2. /\ pc[t] \in {"merge", "merge_low"} /\ pc'[t] \in {"merge_low", "set"}
      /\ UNCHANGED <<pkt, dst_mac, owner>>
  BY <1>1 DEF MergeWord, Goto, LocalTypes, localVars
<1> QED
  BY <1>1, <1>2, Zenon
     DEF CellThread, Reading, OnTrack, HoldsOwn, FillsFromArp, Copied, Behind

\* add_to_arp_cache has a new cell.
LEMMA AddedCell ==
  ASSUME ArpInv, CellInv, NEW t \in Threads, AddCell(t)
  PROVE  CellThread(t)'
<1>1. LocalTypes /\ SharedTypes /\ FillsFromArp(t)
  BY DEF ArpInv, CellInv, CellThread
<1>2. PICK c \in Values : /\ dst_mac' = [dst_mac EXCEPT ![t] = c]
                          /\ owner' = [owner EXCEPT ![c] = pkt[t].key]
  BY Zenon DEF AddCell, NewCell
<1>3. pc[t] = "add" /\ pc'[t] = "put" /\ pkt' = pkt
  BY <1>1 DEF AddCell, Goto, LocalTypes
<1>4. dst_mac'[t] = c /\ owner'[c] = pkt[t].key
  BY <1>1, <1>2 DEF LocalTypes, SharedTypes
<1> QED
  BY <1>1, <1>3, <1>4, Zenon
     DEF CellThread, Reading, OnTrack, HoldsOwn, FillsFromArp, Copied, Behind

\* A word of the address is copied.
LEMMA CopiedCell ==
  ASSUME ArpInv, CellInv, NEW t \in Threads,
         CopyWord(t, 1, "resolved", "copy") \/ CopyWord(t, 2, "copy", "send")
  PROVE  CellThread(t)'
<1>1. /\ LocalTypes /\ HoldsOwn(t) /\ HasData(t) /\ Copied(t) /\ CellsFilled
      /\ mac[t] \in Mac
  BY DEF ArpInv, ThreadInv, CellInv, CellThread, LocalTypes
<1>2. /\ pc[t] \in {"resolved", "copy"} /\ pc'[t] \in {"copy", "send"}
      /\ UNCHANGED <<pkt, dst_mac, owner>>
  BY <1>1, Zenon DEF CopyWord, Goto, LocalTypes, sharedVars, cellVars
<1>3. /\ dst_mac[t] \in Values /\ owner[dst_mac[t]] = pkt[t].key
      /\ pkt[t].key # NULL
  BY <1>1, <1>2, FrameFacts, ArpAssumption, Zenon DEF HoldsOwn, HasData
<1>4. /\ IsWord(pkt[t].key, 1, mem[dst_mac[t]][1])
      /\ IsWord(pkt[t].key, 2, mem[dst_mac[t]][2])
  BY <1>1, <1>3, Zenon DEF CellsFilled
<1>5. Copied(t)'
  <2>1. CASE CopyWord(t, 1, "resolved", "copy")
    <3>1. mac' = [mac EXCEPT ![t] = [mac[t] EXCEPT ![1] = mem[dst_mac[t]][1]]]
      BY <2>1, SMTT(20) DEF CopyWord
    <3>2. mac'[t][1] = mem[dst_mac[t]][1]
      BY <1>1, <3>1, SMTT(20) DEF LocalTypes, Mac
    <3>3. pc'[t] = "copy"
      BY <1>1, <2>1 DEF LocalTypes, CopyWord, Goto
    <3> QED
      BY <1>2, <1>4, <3>2, <3>3, Zenon DEF Copied, IsWord
  <2>2. CASE CopyWord(t, 2, "copy", "send")
    <3>1. mac' = [mac EXCEPT ![t] = [mac[t] EXCEPT ![2] = mem[dst_mac[t]][2]]]
      BY <2>2, SMTT(20) DEF CopyWord
    <3>2. mac'[t][2] = mem[dst_mac[t]][2] /\ mac'[t][1] = mac[t][1]
      BY <1>1, <3>1 DEF LocalTypes, Mac
    <3>3. IsWord(pkt[t].key, 1, mac[t][1])
      BY <1>1, <2>2 DEF Copied, CopyWord, Goto
    <3> QED
      BY <1>2, <1>4, <3>2, <3>3 DEF Copied, IsWord
  <2> QED
    BY <2>1, <2>2
<1> QED
  BY <1>2, <1>3, <1>5, Zenon
     DEF CellThread, Reading, OnTrack, HoldsOwn, FillsFromArp, Behind

\* Every step of t establishes its facts.
LEMMA OwnCellStep ==
  ASSUME ArpInv, CellInv, OneDestroys, NEW t \in Threads, Handle(t),
         Reading(t)' => Idle'
  PROVE  CellThread(t)'
<1>1. LocalTypes /\ CellThread(t)
  BY DEF ArpInv, CellInv
<1>2. CASE pc'[t] \in {"read", "check", "hash", "exit", "reply", "expand"}
  BY <1>2, ElsewhereCell
<1>3. CASE is_in_arp_cache(t)
  <2>1. /\ pc'[t] \in {"hash", "exit", "add", "read"}
        /\ pc'[t] = "add" => pkt[t].kind = "arp" /\ pkt'[t] = pkt[t]
    BY <1>1, <1>3 DEF is_in_arp_cache, Absent, LeaveHandler, Goto, LocalTypes
  <2>2. CASE pc'[t] = "add"
    BY <2>1, <2>2, Zenon
       DEF CellThread, Reading, OnTrack, HoldsOwn, FillsFromArp, Copied, Behind
  <2> QED
    BY <1>2, <2>1, <2>2
<1>4. CASE AssertFails(t) \/ ExitAgain(t) \/ DestroyEnds(t)
  <2>1. /\ UNCHANGED <<pc, localVars>> /\ Quiet /\ freed' = freed
    BY <1>4 DEF AssertFails, ExitAgain, DestroyEnds, Ends, Quiet
  <2>2. Same(t) /\ mac'[t] = mac[t]
    BY <2>1 DEF Same, localVars
  <2> QED
    BY <1>1, <2>1, <2>2, KeptCell, OwnersStep, Stability, Zenon
<1>5. CASE Exit(t)
  <2>1. pc'[t] = "destroy" /\ \A c \in Values : freed'[c] = 0
    BY <1>1, <1>5 DEF Exit, Goto, LocalTypes, OneDestroys
  <2>2. Behind(t)'
    <3>1. \A c \in Values : ~ (freed'[c] > 0)
      BY <2>1
    <3> QED
      BY <3>1 DEF Behind
  <2>3. OnTrack(t)' /\ HoldsOwn(t)' /\ FillsFromArp(t)' /\ Copied(t)'
    BY <2>1, Zenon DEF OnTrack, HoldsOwn, FillsFromArp, Copied
  <2> QED
    BY <2>2, <2>3 DEF CellThread
<1>6. CASE DestroyEntry(t)
  <2>1. pc'[t] = "destroy" /\ Behind(t)'
    BY <1>6, DestroyFrees, Zenon DEF DestroyEntry
  <2> QED
    BY <2>1, Zenon DEF CellThread, OnTrack, HoldsOwn, FillsFromArp, Copied
<1>7. CASE Receive(t) \/ arp_reply(t) \/ Unresolved(t) \/ Sent(t) \/ Expand(t)
  <2>1. pc'[t] \in {"read", "check", "exit", "expand"}
    BY <1>1, <1>7
       DEF Receive, arp_reply, Unresolved, Sent, Expand, Goto, LocalTypes
  <2> QED
    BY <1>2, <2>1
<1>8. ASSUME NEW from, \/ PutInCache(t, from) \/ PutGrowsCache(t, from)
                       \/ Expanded(t)
      PROVE  CellThread(t)'
  <2>1. pc'[t] \in {"read", "reply", "expand"}
    BY <1>1, <1>8
       DEF PutInCache, PutGrowsCache, Expanded, Answered, Goto, LocalTypes
  <2> QED
    BY <1>2, <2>1
<1> QED
  BY <1>3, <1>4, <1>5, <1>6, <1>7, <1>8, GetCell, MergeCell, AddedCell, CopiedCell
     DEF Handle, set_in_arp_cache, add_to_arp_cache, ip_send_packet, ExitStep,
         arp_destroy

-----------------------------------------------------------------------------
(***************************************************************************)
(* The invariant, and what follows.                                        *)
(***************************************************************************)

\* The invariant holds once arp_init has returned.
LEMMA InitCleanInv == ArpInit => CleanInv
<1> SUFFICES ASSUME ArpInit PROVE CleanInv
  OBVIOUS
<1>1. Entries = {}
  BY InitLookupInv DEF ArpInit
<1>2. todo = Unused
  BY DEF ArpInit, Init, hashmap_alloc
<1>3. OneDestroys /\ CellsFilled /\ \A c \in Values : freed[c] <= 1
  BY DEF ArpInit, OneDestroys, CellsFilled
<1>4. ASSUME NEW t \in Threads PROVE CellThread(t)
  BY Zenon
     DEF ArpInit, CellThread, Reading, OnTrack, HoldsOwn, FillsFromArp, Copied,
         Behind
<1> QED
  BY <1>1, <1>2, <1>3, <1>4 DEF CleanInv, CellInv, EntriesOwned, TodoOwned

\* A step without growth under a reader keeps the invariant.
LEMMA CellStep ==
  ASSUME ArpInv, CellInv, OneDestroys, NEW t \in Threads, Handle(t),
         \A u \in Threads : Reading(u)' => Idle'
  PROVE  CellInv'
<1>1. EntriesOwned' /\ TodoOwned' /\ CellsFilled'
  BY OwnedStep, FilledStep
<1>2. \A c \in Values : freed'[c] <= 1
  BY DestroyFrees, FreedStep DEF CellInv
<1>3. ASSUME NEW u \in Threads PROVE CellThread(u)'
  <2>1. CASE u = t
    BY <2>1, OwnCellStep
  <2>2. CASE u # t
    <3>1. Same(u) /\ mac'[u] = mac[u] /\ OwnersStay /\ CellThread(u)
      BY <2>2, OtherThreads, OwnersStep DEF CellInv
    <3>2. pc[u] = "destroy" => freed' = freed
      BY <2>2, FreedStep DEF OneDestroys, DestroyEntry
    <3> QED
      BY <3>1, <3>2, Stability, KeptCell
  <2> QED
    BY <2>1, <2>2
<1> QED
  BY <1>1, <1>2, <1>3 DEF CellInv

\* A step of none of the threads.
LEMMA CellStutter ==
  ASSUME ArpInv, CellInv, Quiet, UNCHANGED <<pc, localVars, cellVars, freed>>
  PROVE  CellInv'
<1>1. /\ Entries' = Entries /\ todo' = todo /\ owner' = owner /\ mem' = mem
      /\ (Idle' <=> Idle) /\ freed' = freed /\ array' = array
  BY QuietTable DEF cellVars, Quiet, mapVars
<1>2. EntriesOwned' /\ TodoOwned' /\ CellsFilled' /\ OwnersStay
  BY <1>1, Zenon
     DEF CellInv, EntriesOwned, TodoOwned, CellsFilled, IsWord, OwnersStay
<1>3. Stable
  BY <1>1, QuietTable DEF Stable
<1>4. ASSUME NEW u \in Threads PROVE CellThread(u)'
  <2>1. Same(u) /\ mac'[u] = mac[u] /\ CellThread(u)
    BY DEF Same, localVars, CellInv
  <2>2. Reading(u)' => Idle'
    BY <1>1, <2>1, Zenon DEF CellThread, Reading, Same
  <2> QED
    BY <1>1, <1>2, <1>3, <2>1, <2>2, KeptCell
<1> QED
  BY <1>1, <1>2, <1>4 DEF CellInv

\* The invariant is inductive together with ArpInv.
LEMMA NextCleanInv ==
  ASSUME ArpInv, CleanInv, [ArpNext]_arpVars
  PROVE  CleanInv'
<1>1. OneDestroys /\ (~ overlap => CellInv)
  BY DEF CleanInv
<1>2. CASE UNCHANGED arpVars
  <2>1. /\ Quiet /\ UNCHANGED <<pc, localVars, cellVars, freed>>
        /\ overlap' = overlap /\ status' = status
    BY <1>2 DEF arpVars, sharedVars, exitVars, Quiet
  <2>2. OneDestroys'
    BY <1>1, <2>1 DEF OneDestroys
  <2> QED
    BY <1>1, <2>1, <2>2, CellStutter DEF CleanInv
<1>3. ASSUME NEW t \in Threads, ThreadStep(t)
      PROVE  CleanInv'
  <2>1. ~ overlap' => /\ ~ overlap
                      /\ \A u \in Threads : Reading(u)' => Idle'
    BY <1>3, Zenon DEF ThreadStep, Growing, Idle
  <2>2. CASE UseFreed(t)
    <3>1. /\ Quiet /\ UNCHANGED <<pc, localVars, cellVars, freed>>
          /\ status' = "undefined"
      BY <2>2 DEF UseFreed, Quiet
    <3>2. OneDestroys'
      BY <1>1, <3>1 DEF OneDestroys
    <3> QED
      BY <1>1, <2>1, <3>1, <3>2, CellStutter DEF CleanInv
  <2>3. CASE Handle(t)
    BY <1>1, <2>1, <2>3, DestroysStep, CellStep DEF CleanInv
  <2> QED
    BY <1>3, <2>2, <2>3 DEF ThreadStep
<1> QED
  BY <1>2, <1>3 DEF ArpNext, Stopped

\* The invariant holds throughout.
LEMMA CleanInvariant == ArpSpec => []CleanInv
<1>1. ArpInv /\ CleanInv /\ [ArpNext]_arpVars => CleanInv'
  BY NextCleanInv
<1> QED
  BY InitCleanInv, ArpInvariant, <1>1, PTL DEF ArpSpec

\* Unless the table grew under a thread that used it without the mutex, the
\* unlocked hashmap_get of set_in_arp_cache and arp_resolve_ipv4 returns a cell
\* of the key it was called for (arp.c:59, 220), for any number of threads.
THEOREM UnlockedGetFindsCell == ArpSpec => []GetsOwnCell
<1>1. CleanInv => GetsOwnCell
  <2> SUFFICES ASSUME CleanInv, ~ overlap, NEW t \in Threads,
                      pc[t] \in {"merge", "set", "resolved"}
               PROVE  dst_mac[t] # NULL /\ owner[dst_mac[t]] = pkt[t].key
    BY DEF GetsOwnCell
  <2> QED
    BY ArpAssumption DEF CleanInv, CellInv, CellThread, HoldsOwn
<1> QED
  BY CleanInvariant, <1>1, PTL

\* Under the same condition each word of the address a reply is sent to was
\* announced by its host (arp.c:61, 69-74; net_interface.c:67), for any number
\* of threads and frames.
THEOREM RepliesGoToHost == ArpSpec => []SentToHost
<1>1. CleanInv => SentToHost
  <2> SUFFICES ASSUME CleanInv, ~ overlap, NEW t \in Threads, pc[t] = "send",
                      NEW w \in 1..2
               PROVE  \E m \in Announced(pkt[t].key) : mac[t][w] = m[w]
    BY DEF SentToHost
  <2>1. IsWord(pkt[t].key, 1, mac[t][1]) /\ IsWord(pkt[t].key, 2, mac[t][2])
    BY DEF CleanInv, CellInv, CellThread, Copied
  <2>2. w = 1 \/ w = 2
    OBVIOUS
  <2> QED
    BY <2>1, <2>2 DEF IsWord
<1> QED
  BY CleanInvariant, <1>1, PTL

\* Under the same condition arp_destroy frees no cell twice, although other
\* threads go on adding and merging entries while it runs (arp.c:112-124).
THEOREM CellsAreFreedOnce == ArpSpec => []FreedOnce
<1>1. CleanInv => FreedOnce
  BY DEF CleanInv, CellInv, FreedOnce
<1> QED
  BY CleanInvariant, <1>1, PTL
=============================================================================
