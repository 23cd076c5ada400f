--------------------------- MODULE HashmapProofs ---------------------------
(***************************************************************************)
(* Proofs about Hashmap, for every set of keys and values, every hash      *)
(* function, capacity and sequence of calls that removes nothing: a lookup *)
(* finds exactly the entries of the table, the table implements a          *)
(* dictionary, and its size is the number of used slots.                   *)
(***************************************************************************)
EXTENDS Hashmap, TLAPS

\* Every entry is where a probe for its key ends.
Reach == \A j \in Used : hashmap_indexof(array[j].key, j)

\* While the table grows: no key twice in the old array, and the new array
\* holds entries of the part already moved.
OldInv ==
  ~ Idle =>
    /\ \A j, l \in OldIndex :
         old[j] # Unused /\ old[l] # Unused /\ old[j].key = old[l].key => j = l
    /\ \A j \in Used : \E l \in OldIndex : l < i /\ old[l] = array[j]

LookupInv == TypeOK /\ Reach /\ OldInv

-----------------------------------------------------------------------------
\* A probe for a key ends at one index only.
LEMMA ProbeIsUnique ==
  ASSUME TypeOK, NEW k \in Keys, NEW j \in Index, NEW l \in Index,
         hashmap_indexof(k, j), hashmap_indexof(k, l)
  PROVE  j = l
<1>1. PICK d \in Index : /\ j = Probe(k, d) /\ ~ Collides(k, d)
                         /\ \A e \in Index : e < d => Collides(k, e)
  BY DEF hashmap_indexof
<1>2. PICK f \in Index : /\ l = Probe(k, f) /\ ~ Collides(k, f)
                         /\ \A e \in Index : e < f => Collides(k, e)
  BY DEF hashmap_indexof
<1>3. ~ (d < f) /\ ~ (f < d)
  BY <1>1, <1>2
<1>4. d \in Int /\ f \in Int
  BY DEF Index, TypeOK
<1> QED
  BY <1>1, <1>2, <1>3, <1>4

\* Reachability is about the slots and the capacity only.
LEMMA ReachKept ==
  ASSUME UNCHANGED <<array, capacity>>
  PROVE  /\ Reach' <=> Reach
         /\ Index' = Index /\ OldIndex' = OldIndex /\ Used' = Used
<1>1. Index' = Index /\ OldIndex' = OldIndex /\ Used' = Used
  BY DEF Index, OldIndex, Used
<1>2. \A k, j : hashmap_indexof(k, j)' <=> hashmap_indexof(k, j)
  BY <1>1 DEF hashmap_indexof, Collides, Probe
<1> QED
  BY <1>1, <1>2 DEF Reach

\* Two used slots hold different keys.
LEMMA KeysAreUnique ==
  ASSUME TypeOK, Reach, NEW j \in Used, NEW l \in Used,
         array[j].key = array[l].key
  PROVE  j = l
<1>1. array[j] \in Entry /\ j \in Index /\ l \in Index
  BY DEF Used, TypeOK, Slot
<1>2. array[j].key \in Keys
  BY <1>1 DEF Entry
<1> QED
  BY <1>1, <1>2, ProbeIsUnique DEF Reach

\* What Store(e) does to the slots.
LEMMA StoreFacts ==
  ASSUME TypeOK, Reach, NEW e \in Entry, Store(e), capacity' = capacity
  PROVE  /\ array' \in [Index -> Slot]
         /\ Reach'
         /\ \E j \in Index :
              /\ array' = [array EXCEPT ![j] = e]
              /\ array[j] = Unused \/ array[j].key = e.key
              /\ array[j] = Unused => \A l \in Used : array[l].key # e.key
              /\ size' = IF array[j] = Unused THEN size + 1 ELSE size
<1>0. PICK j \in Index : /\ hashmap_indexof(e.key, j)
                         /\ array' = [array EXCEPT ![j] = e]
                         /\ size' = IF array[j] = Unused THEN size + 1 ELSE size
  BY Zenon DEF Store
<1>1. e.key \in Keys /\ Index' = Index
  BY DEF Entry, Index
<1>2. array' \in [Index -> Slot]
  BY <1>0 DEF TypeOK, Slot
<1>3. array[j] = Unused \/ array[j].key = e.key
  BY <1>0 DEF hashmap_indexof, Collides
<1>4. array[j] = Unused => \A l \in Used : array[l].key # e.key
  <2> SUFFICES ASSUME array[j] = Unused, NEW l \in Used, array[l].key = e.key
               PROVE  FALSE
    OBVIOUS
  <2>1. hashmap_indexof(e.key, l) /\ l \in Index
    BY DEF Reach, Used
  <2> QED
    BY <1>0, <1>1, <2>1, ProbeIsUnique DEF Used
<1>5. ASSUME NEW k \in Keys, NEW d \in Index, Collides(k, d)
      PROVE  Collides(k, d)'
  <2>1. Probe(k, d)' = Probe(k, d) /\ Probe(k, d) \in Index
    BY HashmapAssumption DEF Probe, Index, TypeOK
  <2>2. array'[Probe(k, d)] = IF Probe(k, d) = j THEN e ELSE array[Probe(k, d)]
    BY <1>0, <2>1 DEF TypeOK
  <2>3. e # Unused
    BY HashmapAssumption
  <2> QED
    BY <1>3, <1>5, <2>1, <2>2, <2>3 DEF Collides
<1>6. ASSUME NEW l \in Used'
      PROVE  hashmap_indexof(array[l].key, l)'
  <2>1. l \in Index /\ array'[l] \in Entry
    BY <1>1, <1>2, <1>6 DEF Used, Slot
  <2>2. PICK k \in Keys : k = array'[l].key
    BY <2>1 DEF Entry
  <2>3. hashmap_indexof(k, l)
    <3>1. CASE l = j
      BY <1>0, <1>1, <2>1, <2>2, <3>1 DEF TypeOK
    <3>2. CASE l # j
      BY <1>0, <2>1, <2>2, <3>2, HashmapAssumption DEF Reach, Used, TypeOK
    <3> QED
      BY <3>1, <3>2
  <2>4. PICK d \in Index : /\ l = Probe(k, d)
                           /\ \A f \in Index : f < d => Collides(k, f)
    BY <2>3 DEF hashmap_indexof
  <2>5. l = Probe(k, d)'
    BY <2>4 DEF Probe
  <2>6. ~ Collides(k, d)'
    BY <2>2, <2>5 DEF Collides
  <2>7. \A f \in Index : f < d => Collides(k, f)'
    BY <1>5, <2>4
  <2>8. hashmap_indexof(k, l)'
    BY <1>1, <2>5, <2>6, <2>7 DEF hashmap_indexof
  <2> QED
    BY <2>2, <2>8
<1>7. Reach'
  BY <1>6 DEF Reach
<1> QED
  BY <1>0, <1>2, <1>3, <1>4, <1>7, Zenon

-----------------------------------------------------------------------------
\* hashmap_alloc returns an empty table.
LEMMA InitLookupInv == Init => LookupInv /\ Idle /\ Entries = {}
<1> SUFFICES ASSUME Init PROVE LookupInv /\ Idle /\ Entries = {}
  OBVIOUS
<1>1. PICK n \in InitialSizes : hashmap_alloc(n)
  BY DEF Init
<1>2. PICK h \in Nat :
        capacity = IF h * 2 < MinCapacity THEN MinCapacity ELSE h * 2
  BY <1>1 DEF hashmap_alloc
<1>3. capacity \in Nat /\ capacity >= MinCapacity
  BY <1>2, HashmapAssumption
<1>4. /\ array = [j \in Index |-> Unused] /\ size = 0 /\ old = NoArray
      /\ i = 0 /\ todo = Unused
  BY <1>1 DEF hashmap_alloc
<1>5. Used = {} /\ Idle
  BY <1>4 DEF Used, Idle
<1>6. TypeOK
  BY <1>3, <1>4 DEF TypeOK, Slot, Idle
<1> QED
  BY <1>5, <1>6 DEF LookupInv, Reach, OldInv, Entries

\* Storing an entry in a table that is not growing replaces the entry of its
\* key.
LEMMA StorePuts ==
  ASSUME LookupInv, NEW e \in Entry, Store(e), capacity' = capacity
  PROVE  /\ array' \in [Index -> Slot] /\ Reach' /\ size' \in Int
         /\ {array'[j] : j \in Used'}
              = {f \in {array[j] : j \in Used} : f.key # e.key} \cup {e}
<1>1. PICK j \in Index :
        /\ array' = [array EXCEPT ![j] = e]
        /\ array[j] = Unused \/ array[j].key = e.key
        /\ array[j] = Unused => \A l \in Used : array[l].key # e.key
        /\ size' = IF array[j] = Unused THEN size + 1 ELSE size
  BY StoreFacts DEF LookupInv
<1>2. array' \in [Index -> Slot] /\ Reach' /\ Index' = Index
  BY StoreFacts DEF LookupInv, Index
<1>3. \A l \in Index : array'[l] = IF l = j THEN e ELSE array[l]
  BY <1>1 DEF LookupInv, TypeOK
<1>4. e # Unused
  BY HashmapAssumption
<1>5. \A l \in Used : l # j => array[l].key # e.key
  <2> SUFFICES ASSUME NEW l \in Used, l # j, array[l].key = e.key
               PROVE  FALSE
    OBVIOUS
  <2>1. array[j] # Unused /\ array[j].key = e.key
    BY <1>1
  <2> QED
    BY <2>1, KeysAreUnique DEF LookupInv, Used
<1>6. Used' = Used \cup {j}
  BY <1>2, <1>3, <1>4 DEF Used
<1>7. \A l \in Used : l = j => array[l].key = e.key
  BY <1>1 DEF Used
<1>8. {array'[l] : l \in Used'}
        = {f \in {array[l] : l \in Used} : f.key # e.key} \cup {e}
  BY <1>3, <1>5, <1>6, <1>7 DEF Used
<1>9. size' \in Int
  BY <1>1 DEF LookupInv, TypeOK
<1> QED
  BY <1>2, <1>8, <1>9

\* Starting to grow moves every entry to the old array.
LEMMA BeginExpandStep ==
  ASSUME LookupInv, Idle, NEW e \in Slot, BeginExpand(e)
  PROVE  LookupInv' /\ ~ Idle' /\ Entries' = Entries
<1>1. /\ old' = array /\ array' = [j \in 0..(2 * capacity - 1) |-> Unused]
      /\ capacity' = 2 * capacity /\ i' = 0 /\ size' = 0 /\ todo' = e
  BY DEF BeginExpand
<1>2. capacity' \in Nat /\ capacity' >= MinCapacity
  BY <1>1, HashmapAssumption DEF LookupInv, TypeOK
<1>3. Index' = 0..(2 * capacity - 1) /\ OldIndex' = Index
  BY <1>1 DEF Index, OldIndex, LookupInv, TypeOK
<1>4. ~ Idle'
  <2>1. 0 \in DOMAIN array
    BY HashmapAssumption DEF LookupInv, TypeOK, Index
  <2>2. 0 \notin DOMAIN NoArray
    BY DEF NoArray
  <2> QED
    BY <1>1, <2>1, <2>2 DEF Idle
<1>5. Used' = {}
  BY <1>1, <1>3 DEF Used
<1>6. TypeOK'
  BY <1>1, <1>2, <1>3 DEF TypeOK, LookupInv, Slot
<1>7. OldInv'
  <2>1. \A j, l \in Index : array[j] # Unused /\ array[l] # Unused
                              /\ array[j].key = array[l].key => j = l
    BY KeysAreUnique DEF LookupInv, Used
  <2> QED
    BY <1>1, <1>3, <1>5, <2>1 DEF OldInv
<1>8. Entries' = Entries
  <2>1. DOMAIN old' = Index /\ \A n \in Index : n >= 0
    BY <1>1 DEF LookupInv, TypeOK, Index
  <2> QED
    BY <1>1, <1>4, <1>5, <2>1 DEF Entries, Used
<1> QED
  BY <1>4, <1>5, <1>6, <1>7, <1>8 DEF LookupInv, Reach

\* hashmap_put without growth replaces the entry of its key.
LEMMA PutStep ==
  ASSUME LookupInv, NEW e \in Entry, hashmap_put(e)
  PROVE  LookupInv' /\ Dict!DictPut(e)
<1>1. /\ Idle /\ Idle' /\ Store(e) /\ Index' = Index
      /\ capacity' = capacity /\ i' = i /\ todo' = todo
  BY DEF hashmap_put, Idle, Index
<1>2. /\ array' \in [Index -> Slot] /\ Reach' /\ size' \in Int
      /\ {array'[j] : j \in Used'}
           = {f \in {array[j] : j \in Used} : f.key # e.key} \cup {e}
  BY <1>1, StorePuts
<1>3. TypeOK'
  BY <1>1, <1>2 DEF TypeOK, LookupInv, Slot
<1> QED
  BY <1>1, <1>2, <1>3 DEF LookupInv, OldInv, Entries, Dict!DictPut

\* An iteration of hashmap_expand that moves an entry changes none.
LEMMA MoveStep ==
  ASSUME LookupInv, ExpandMoves
  PROVE  LookupInv' /\ Entries' = Entries
<1> DEFINE A == {array[j] : j \in Used}
           e == old[i]
<1>1. /\ ~ Idle /\ ~ Idle' /\ i \in OldIndex /\ e # Unused /\ Store(e)
      /\ capacity' = capacity /\ i' = i + 1 /\ old' = old /\ todo' = todo
  BY DEF ExpandMoves, Idle, Moving
<1>2. e \in Entry /\ DOMAIN old = OldIndex /\ OldIndex' = OldIndex
  BY <1>1 DEF LookupInv, TypeOK, Slot, OldIndex, Index
<1>3. /\ array' \in [Index -> Slot] /\ Reach' /\ size' \in Int
      /\ {array'[j] : j \in Used'} = {f \in A : f.key # e.key} \cup {e}
  BY <1>1, <1>2, StorePuts
<1>4. \A f \in A : f.key # e.key
  <2> SUFFICES ASSUME NEW j \in Used, array[j].key = e.key PROVE FALSE
    OBVIOUS
  <2>1. PICK l \in OldIndex : l < i /\ old[l] = array[j]
    BY <1>1 DEF LookupInv, OldInv
  <2>2. old[l] # Unused
    BY <2>1 DEF Used
  <2> QED
    BY <1>1, <2>1, <2>2 DEF LookupInv, OldInv, OldIndex, Index
<1>5. {array'[j] : j \in Used'} = A \cup {e}
  BY <1>3, <1>4
<1>6. TypeOK'
  BY <1>1, <1>2, <1>3 DEF LookupInv, TypeOK, Index, OldIndex, Slot
<1>7. i \in Nat /\ \A l \in OldIndex : l \in Nat
  BY <1>1 DEF LookupInv, TypeOK, OldIndex, Index
<1>8. OldInv'
  <2>1. ASSUME NEW j \in Used'
        PROVE  \E l \in OldIndex : l < i + 1 /\ old[l] = array'[j]
    <3>1. array'[j] \in A \cup {e}
      BY <1>5
    <3>2. CASE array'[j] = e
      BY <1>1, <1>7, <3>2
    <3>3. CASE array'[j] \in A
      <4>1. PICK m \in Used : array[m] = array'[j]
        BY <3>3
      <4>2. PICK l \in OldIndex : l < i /\ old[l] = array[m]
        BY <1>1 DEF LookupInv, OldInv
      <4> QED
        BY <1>7, <4>1, <4>2
    <3> QED
      BY <3>1, <3>2, <3>3
  <2> QED
    BY <1>1, <1>2, <2>1 DEF OldInv, LookupInv
<1>9. Entries' = Entries
  <2> DEFINE Rest(m) == {old[j] : j \in {n \in OldIndex : n >= m /\ old[n] # Unused}}
  <2>1. \A n \in OldIndex : n >= i <=> n = i \/ n >= i + 1
    BY <1>7
  <2>2. Rest(i) = Rest(i + 1) \cup {e}
    BY <1>1, <2>1
  <2>3. Entries = A \cup Rest(i)
    BY <1>1, <1>2 DEF Entries
  <2>4. Entries' = (A \cup {e}) \cup Rest(i + 1)
    BY <1>1, <1>2, <1>5 DEF Entries
  <2> QED
    BY <2>2, <2>3, <2>4
<1> QED
  BY <1>3, <1>6, <1>8, <1>9 DEF LookupInv

\* Neither does one that skips an unused slot.
LEMMA SkipStep ==
  ASSUME LookupInv, ExpandSkips
  PROVE  LookupInv' /\ Entries' = Entries
<1>1. /\ ~ Idle /\ ~ Idle' /\ i \in OldIndex /\ old[i] = Unused /\ i' = i + 1
      /\ UNCHANGED <<array, capacity, size, old, todo>>
  BY DEF ExpandSkips, Idle, Moving
<1>2. /\ Index' = Index /\ OldIndex' = OldIndex /\ Used' = Used
      /\ Reach' /\ DOMAIN old = OldIndex
  BY <1>1, ReachKept DEF LookupInv, TypeOK
<1>3. i \in Nat /\ \A l \in OldIndex : l \in Nat
  BY <1>1 DEF LookupInv, TypeOK, OldIndex, Index
<1>4. TypeOK' /\ OldInv'
  BY <1>1, <1>2, <1>3 DEF LookupInv, TypeOK, OldInv
<1>5. \A n \in OldIndex : n >= i /\ old[n] # Unused
                           <=> n >= i + 1 /\ old[n] # Unused
  BY <1>1, <1>3
<1>6. Entries' = Entries
  BY <1>1, <1>2, <1>5 DEF Entries
<1> QED
  BY <1>2, <1>4, <1>6 DEF LookupInv

\* The end of hashmap_expand loses nothing, and stores what hashmap_put came
\* for.
LEMMA EndStep ==
  ASSUME LookupInv, ExpandEnds
  PROVE  /\ LookupInv'
         /\ IF todo = Unused THEN Entries' = Entries ELSE Dict!DictPut(todo)
<1>1. /\ ~ Idle /\ Idle' /\ i \notin OldIndex /\ capacity' = capacity
      /\ i' = 0 /\ todo' = Unused /\ todo \in Slot /\ Index' = Index
  BY DEF ExpandEnds, Idle, Moving, LookupInv, TypeOK, Index
<1>2. Entries = {array[j] : j \in Used}
  <2>1. \A n \in OldIndex : ~ (n >= i)
    BY <1>1 DEF LookupInv, TypeOK, OldIndex, Index
  <2>2. DOMAIN old = OldIndex
    BY <1>1 DEF LookupInv, TypeOK
  <2> QED
    BY <1>1, <2>1, <2>2 DEF Entries
<1>3. CASE todo = Unused
  <2>1. array' = array /\ size' = size /\ Used' = Used /\ Reach'
    BY <1>1, <1>3, ReachKept DEF ExpandEnds, LookupInv
  <2>2. TypeOK' /\ OldInv'
    BY <1>1, <2>1 DEF LookupInv, TypeOK, OldInv, Slot
  <2>3. Entries' = Entries
    BY <1>1, <1>2, <2>1 DEF Entries
  <2> QED
    BY <1>3, <2>1, <2>2, <2>3 DEF LookupInv
<1>4. CASE todo # Unused
  <2>1. todo \in Entry /\ Store(todo)
    BY <1>1, <1>4 DEF ExpandEnds, Slot
  <2>2. /\ array' \in [Index -> Slot] /\ Reach' /\ size' \in Int
        /\ {array'[j] : j \in Used'}
             = {f \in {array[j] : j \in Used} : f.key # todo.key} \cup {todo}
    BY <1>1, <2>1, StorePuts
  <2>3. TypeOK' /\ OldInv'
    BY <1>1, <2>2 DEF LookupInv, TypeOK, OldInv, Slot
  <2>4. Dict!DictPut(todo)
    BY <1>1, <1>2, <2>2 DEF Entries, Dict!DictPut
  <2> QED
    BY <1>4, <2>2, <2>3, <2>4 DEF LookupInv
<1> QED
  BY <1>3, <1>4

\* hashmap_clear empties the table.
LEMMA ClearStep ==
  ASSUME LookupInv, hashmap_clear
  PROVE  LookupInv' /\ Dict!DictClear
<1>1. /\ Idle' /\ array' = [j \in Index |-> Unused] /\ size' = 0
      /\ Index' = Index /\ UNCHANGED <<capacity, i, todo>>
  BY DEF hashmap_clear, Idle, Index
<1>2. Used' = {}
  BY <1>1 DEF Used
<1> QED
  BY <1>1, <1>2 DEF LookupInv, TypeOK, Reach, OldInv, Entries, Slot,
     Dict!DictClear

\* Every step keeps the invariant, and is a call's effect on the dictionary
\* or leaves it alone.
LEMMA NextLookupInv ==
  ASSUME LookupInv, [Next]_mapVars
  PROVE  LookupInv' /\ [Dict!DictNext]_Entries
<1>1. ASSUME NEW e \in Entry, hashmap_put(e)
      PROVE  LookupInv' /\ [Dict!DictNext]_Entries
  BY <1>1, PutStep DEF Dict!DictNext, Dict!Entry, Entry
<1>2. ASSUME NEW e \in Entry, PutExpands(e)
      PROVE  LookupInv' /\ [Dict!DictNext]_Entries
  BY <1>2, BeginExpandStep DEF PutExpands, Slot
<1>3. CASE hashmap_expand
  BY <1>3, BeginExpandStep DEF hashmap_expand, Slot
<1>4. CASE ExpandMoves
  BY <1>4, MoveStep
<1>5. CASE ExpandSkips
  BY <1>5, SkipStep
<1>6. CASE ExpandEnds
  <2>1. todo # Unused => todo \in Entry
    BY DEF LookupInv, TypeOK, Slot
  <2> QED
    BY <1>6, <2>1, EndStep DEF Dict!DictNext, Dict!Entry, Entry
<1>7. CASE hashmap_clear
  BY <1>7, ClearStep DEF Dict!DictNext
<1>8. CASE UNCHANGED mapVars
  <2>1. UNCHANGED <<array, capacity, size, old, i, todo>>
    BY <1>8 DEF mapVars
  <2>2. /\ Reach' /\ Index' = Index /\ OldIndex' = OldIndex /\ Used' = Used
        /\ Idle' <=> Idle
    BY <2>1, ReachKept DEF LookupInv, Idle
  <2>3. TypeOK' /\ OldInv'
    BY <2>1, <2>2 DEF LookupInv, TypeOK, OldInv
  <2>4. Entries' = Entries
    BY <2>1, <2>2 DEF Entries
  <2> QED
    BY <2>2, <2>3, <2>4 DEF LookupInv
<1> QED
  BY <1>1, <1>2, <1>3, <1>4, <1>5, <1>6, <1>7, <1>8 DEF Next

\* The three parts hold together in every state, expansions included.
LEMMA LookupInvariant == Spec => []LookupInv
<1>1. Init => LookupInv
  BY InitLookupInv
<1>2. LookupInv /\ [Next]_mapVars => LookupInv'
  BY NextLookupInv
<1> QED
  BY <1>1, <1>2, PTL DEF Spec

\* Every state of the table has the declared types, at any capacity.
THEOREM HashmapTypeCorrect == Spec => []TypeOK
<1>1. LookupInv => TypeOK
  BY DEF LookupInv
<1> QED
  BY LookupInvariant, <1>1, PTL

\* Between two calls, hashmap_get finds exactly the entries of the table:
\* collisions, updates and growth hide no entry and leave no second copy.
THEOREM LookupsFindEntries == Spec => []LookupsAgree
<1>1. LookupInv => LookupsAgree
  <2> SUFFICES ASSUME LookupInv, Idle, NEW e \in Entry
               PROVE  Found(e.key, e.value) <=> e \in Entries
    BY DEF LookupsAgree
  <2>1. Entries = {array[j] : j \in Used}
    BY DEF Entries
  <2>2. ASSUME Found(e.key, e.value)
        PROVE  e \in Entries
    <3>1. PICK j \in Index : /\ hashmap_indexof(e.key, j)
                             /\ array[j] # Unused /\ array[j].value = e.value
      BY <2>2 DEF Found
    <3>2. array[j].key = e.key
      BY <3>1 DEF hashmap_indexof, Collides
    <3>3. array[j] \in Entry /\ j \in Used
      BY <3>1 DEF LookupInv, TypeOK, Slot, Used
    <3>4. array[j] = e
      BY <3>1, <3>2, <3>3 DEF Entry
    <3> QED
      BY <2>1, <3>3, <3>4
  <2>3. ASSUME e \in Entries
        PROVE  Found(e.key, e.value)
    <3>1. PICK j \in Used : array[j] = e
      BY <2>1, <2>3
    <3> QED
      BY <3>1 DEF LookupInv, Reach, Found, Used
  <2> QED
    BY <2>2, <2>3
<1> QED
  BY LookupInvariant, <1>1, PTL

\* Each call has its own effect on the dictionary, and growth has none.
LEMMA StepsTakeEffect ==
  ASSUME LookupInv
  PROVE  CallsTakeEffect
<1>1. ASSUME NEW e \in Entry, hashmap_put(e)
      PROVE  Dict!DictPut(e)
  BY <1>1, PutStep
<1>2. ASSUME ExpandEnds, todo # Unused
      PROVE  Dict!DictPut(todo)
  BY <1>2, EndStep
<1>3. ASSUME hashmap_clear
      PROVE  Dict!DictClear
  BY <1>3, ClearStep
<1>4. ASSUME Grows
      PROVE  Entries' = Entries
  <2>1. ASSUME NEW e \in Entry, PutExpands(e)
        PROVE  Entries' = Entries
    BY <2>1, BeginExpandStep DEF PutExpands, Slot
  <2>2. CASE hashmap_expand
    BY <2>2, BeginExpandStep DEF hashmap_expand, Slot
  <2>3. CASE ExpandMoves
    BY <2>3, MoveStep
  <2>4. CASE ExpandSkips
    BY <2>4, SkipStep
  <2>5. CASE ExpandEnds /\ todo = Unused
    BY <2>5, EndStep
  <2> QED
    BY <1>4, <2>1, <2>2, <2>3, <2>4, <2>5 DEF Grows
<1> QED
  BY <1>1, <1>2, <1>3, <1>4 DEF CallsTakeEffect

\* The table implements the dictionary its callers rely on, call by call.
THEOREM HashmapImplementsDictionary == Spec => ImplementsDictionary
<1>1. Init => Dict!DictInit
  BY InitLookupInv DEF Dict!DictInit
<1>2. LookupInv /\ [Next]_mapVars => [Dict!DictNext]_Entries
  BY NextLookupInv
<1>3. LookupInv /\ [Next]_mapVars => [CallsTakeEffect]_mapVars
  BY StepsTakeEffect
<1> QED
  BY <1>1, <1>2, <1>3, LookupInvariant, PTL DEF Spec, ImplementsDictionary,
     Dict!DictSpec
=============================================================================
