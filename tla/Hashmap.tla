------------------------------ MODULE Hashmap ------------------------------
(***************************************************************************)
(* The open-addressing table of src/collections/hashmap.c.                 *)
(*                                                                         *)
(* Pointers to keys are abstracted to the keys the caller's equals() tells *)
(* apart.  A slot that was never used, or whose used flag was cleared, is  *)
(* Unused: the code never reads the rest of such a slot.  hashmap_expand   *)
(* moves one slot per step, so that code which looks at the table without  *)
(* the caller's lock can be put between the steps.                         *)
(***************************************************************************)
EXTENDS Integers, FiniteSets

CONSTANTS Keys, Values,
          Hash,          \* Hash[k]: what the caller's hash() returns
          MinCapacity,   \* the least capacity hashmap_alloc uses (16)
          InitialSizes,  \* the arguments hashmap_alloc is called with
          MaxCapacity,   \* a bound on explicit calls of hashmap_expand
          Unused         \* a slot with its used flag clear

Entry == [key : Keys, value : Values]

\* The value of ret in highest_bit after e iterations.
pow2[e \in Nat] == IF e = 0 THEN 1 ELSE 2 * pow2[e - 1]

IsPowerOfTwo(c) == \E e \in 0..c : c = pow2[e]

ASSUME HashmapAssumption ==
  /\ Hash \in [Keys -> Nat]
  /\ MinCapacity \in Nat /\ MinCapacity >= 4 /\ IsPowerOfTwo(MinCapacity)
  /\ InitialSizes \subseteq Nat
  /\ MaxCapacity \in Nat
  /\ Unused \notin Entry

VARIABLES array,     \* map->array: a slot for each index below capacity
          capacity,  \* map->capacity
          size,      \* map->size
          old,       \* hashmap_expand: the array being moved, or NoArray
          i,         \* hashmap_expand: the next index of old to move
          todo       \* the entry hashmap_put stores once the table has grown

mapVars == <<array, capacity, size, old, i, todo>>

Index == 0..(capacity - 1)

\* Below old_capacity: hashmap_expand has doubled the capacity.
OldIndex == {j \in Index : 2 * j < capacity}
Moving == i \in OldIndex

Slot == Entry \cup {Unused}

\* old when no expansion is running.
NoArray == [j \in {} |-> Unused]

Idle == old = NoArray

-----------------------------------------------------------------------------
(***************************************************************************)
(* Probing.                                                                *)
(***************************************************************************)

\* The index hashmap_indexof looks at after d collisions.  The capacity is a
\* power of two, so hash & (capacity - 1) is a remainder.
Probe(k, d) == (Hash[k] + d) % capacity

\* The loop of hashmap_indexof goes on past a slot that holds another key.
Collides(k, d) == LET slot == array[Probe(k, d)]
                  IN  slot # Unused /\ slot.key # k

\* hashmap_indexof(map, k) returns j.  No j does when every slot is used and
\* none holds k: the loop does not end.
hashmap_indexof(k, j) ==
  \E d \in Index : /\ j = Probe(k, d)
                   /\ ~ Collides(k, d)
                   /\ \A e \in Index : e < d => Collides(k, e)

\* hashmap_contains_key(map, k) is true and hashmap_get(map, k) returns v.
Found(k, v) ==
  \E j \in Index : /\ hashmap_indexof(k, j)
                   /\ array[j] # Unused
                   /\ array[j].value = v

hashmap_contains_key(k) == \E v \in Values : Found(k, v)

\* How many slots are in use.
Used == {j \in Index : array[j] # Unused}

hashmap_load_factor == (size * 100) \div capacity

-----------------------------------------------------------------------------
(***************************************************************************)
(* Changing the table.                                                     *)
(***************************************************************************)

\* A faulty hashmap_put that counts an entry it only updates.
StoreCountsUpdates(e) ==
  \E j \in Index : /\ hashmap_indexof(e.key, j)
                   /\ array' = [array EXCEPT ![j] = e]
                   /\ size' = size + 1

\* A faulty hashmap_put that looks for an unused slot without comparing keys.
StoreWithoutComparing(e) ==
  \E d \in Index :
    /\ array[Probe(e.key, d)] = Unused
    /\ \A f \in Index : f < d => array[Probe(e.key, f)] # Unused
    /\ array' = [array EXCEPT ![Probe(e.key, d)] = e]
    /\ size' = size + 1

\* hashmap_put after the test of the load factor.
Store(e) ==
  \E j \in Index : /\ hashmap_indexof(e.key, j)
                   /\ array' = [array EXCEPT ![j] = e]
                   /\ size' = IF array[j] = Unused THEN size + 1 ELSE size

\* A faulty hashmap_put that lets the table fill up before it grows.
GrowsWhenFull == size > capacity

\* The test of hashmap_put.
MustGrow == hashmap_load_factor > 70

\* A faulty hashmap_expand that keeps the count of the old table.
BeginExpandOldSize(e) ==
  /\ old' = array
  /\ array' = [j \in 0..(2 * capacity - 1) |-> Unused]
  /\ capacity' = 2 * capacity
  /\ i' = 0
  /\ todo' = e
  /\ UNCHANGED size

\* A faulty hashmap_expand that forgets to record the new capacity.
BeginExpandOldCapacity(e) ==
  /\ old' = array
  /\ array' = [j \in 0..(2 * capacity - 1) |-> Unused]
  /\ size' = 0
  /\ i' = 0
  /\ todo' = e
  /\ UNCHANGED capacity

\* hashmap_expand up to its loop.
BeginExpand(e) ==
  /\ old' = array
  /\ array' = [j \in 0..(2 * capacity - 1) |-> Unused]
  /\ size' = 0
  /\ capacity' = 2 * capacity
  /\ i' = 0
  /\ todo' = e

hashmap_put(e) ==
  /\ Idle
  /\ ~ MustGrow
  /\ Store(e)
  /\ UNCHANGED <<capacity, old, i, todo>>

\* hashmap_put that has to grow the table first.
PutExpands(e) ==
  /\ Idle
  /\ MustGrow
  /\ BeginExpand(e)

hashmap_expand ==
  /\ Idle
  /\ 2 * capacity <= MaxCapacity
  /\ BeginExpand(Unused)

\* One iteration of the loop of hashmap_expand.  Its call of hashmap_put finds
\* a table at most half full, and so never grows it again.
ExpandMoves ==
  /\ ~ Idle
  /\ Moving
  /\ old[i] # Unused
  /\ ~ MustGrow
  /\ Store(old[i])
  /\ i' = i + 1
  /\ UNCHANGED <<capacity, old, todo>>

ExpandSkips ==
  /\ ~ Idle
  /\ Moving
  /\ old[i] = Unused
  /\ i' = i + 1
  /\ UNCHANGED <<array, capacity, size, old, todo>>

\* A faulty hashmap_expand whose loop leaves out the last slot.
ExpandEndsEarly ==
  /\ ~ Idle
  /\ 2 * (i + 1) >= capacity
  /\ IF todo = Unused THEN UNCHANGED <<array, size>> ELSE Store(todo)
  /\ old' = NoArray
  /\ i' = 0
  /\ todo' = Unused
  /\ UNCHANGED capacity

\* hashmap_expand returns, to the caller or to the hashmap_put that called it
\* and now stores its entry.
ExpandEnds ==
  /\ ~ Idle
  /\ ~ Moving
  /\ IF todo = Unused THEN UNCHANGED <<array, size>> ELSE Store(todo)
  /\ old' = NoArray
  /\ i' = 0
  /\ todo' = Unused
  /\ UNCHANGED capacity

\* hashmap_remove: the slot the probe ends at becomes unused, the entries
\* behind it stay where they are, and the size is decremented in any case.
hashmap_remove(k) ==
  /\ Idle
  /\ size' = size - 1
  /\ \E j \in Index : /\ hashmap_indexof(k, j)
                      /\ array' = [array EXCEPT ![j] = Unused]
  /\ UNCHANGED <<capacity, old, i, todo>>

hashmap_clear ==
  /\ Idle
  /\ array' = [j \in Index |-> Unused]
  /\ size' = 0
  /\ UNCHANGED <<capacity, old, i, todo>>

-----------------------------------------------------------------------------
\* highest_bit(n) returns h: half of the first power of two not below n.
highest_bit(n, h) ==
  \E e \in 0..n : /\ pow2[e] >= n
                  /\ \A f \in 0..(e - 1) : pow2[f] < n
                  /\ h = pow2[e] \div 2

\* A faulty hashmap_alloc that takes the requested size as it is.
AllocUnrounded(initial_size) ==
  /\ capacity = IF initial_size < MinCapacity THEN MinCapacity ELSE initial_size
  /\ array = [j \in Index |-> Unused]
  /\ size = 0
  /\ old = NoArray
  /\ i = 0
  /\ todo = Unused

\* hashmap_alloc(initial_size, ...).
hashmap_alloc(initial_size) ==
  \E h \in 0..initial_size :
    /\ highest_bit(initial_size, h)
    /\ capacity = IF h * 2 < MinCapacity THEN MinCapacity ELSE h * 2
    /\ array = [j \in Index |-> Unused]
    /\ size = 0
    /\ old = NoArray
    /\ i = 0
    /\ todo = Unused

Init == \E n \in InitialSizes : hashmap_alloc(n)

\* What the ARP cache does: entries are added and updated, never removed.
Next ==
  \/ \E e \in Entry : hashmap_put(e) \/ PutExpands(e)
  \/ hashmap_expand
  \/ ExpandMoves \/ ExpandSkips \/ ExpandEnds
  \/ hashmap_clear

Spec == Init /\ [][Next]_mapVars

\* Callers that remove only what is there.
NextRemovingPresent ==
  Next \/ \E k \in Keys : hashmap_contains_key(k) /\ hashmap_remove(k)

RemovingPresentSpec == Init /\ [][NextRemovingPresent]_mapVars

-----------------------------------------------------------------------------
(***************************************************************************)
(* Properties.                                                             *)
(***************************************************************************)

TypeOK ==
  /\ capacity \in Nat /\ capacity >= MinCapacity
  /\ array \in [Index -> Slot]
  /\ size \in Int
  /\ i \in Nat
  /\ todo \in Slot
  /\ ~ Idle => old \in [OldIndex -> Slot]

\* The comment at hashmap.c:15, on which the index computations rest: the
\* capacity stays a power of two.
CapacityIsPowerOfTwo == IsPowerOfTwo(capacity)

\* The entries in the table, those still to be moved included.
Entries ==
  {array[j] : j \in Used}
    \cup (IF Idle THEN {}
          ELSE {old[j] : j \in {n \in DOMAIN old : n >= i /\ old[n] # Unused}})

\* Collisions, updates, wrap-around and growth never hide an entry or leave a
\* second copy of it: between two calls hashmap_get finds exactly the entries
\* of the table (hashmap.c:56-71, 82-96, 139-154, 170-189).
LookupsAgree ==
  Idle => \A e \in Entry : Found(e.key, e.value) <=> e \in Entries

\* map->size is "the number of elements in use" (hashmap.c:16), in the middle
\* of an expansion too.  It holds for callers that only remove what is there:
\* hashmap_remove lowers the size for an absent key too (hashmap.c:116-117).
SizeCountsUsed == size = Cardinality(Used)

\* The load factor keeps a slot free, so hashmap_indexof ends for every key,
\* present or not (hashmap.c:62, 143).
ProbesEnd == \A k \in Keys : \E j \in Index : hashmap_indexof(k, j)

\* The hashmap_put inside the loop of hashmap_expand never calls
\* hashmap_expand again (hashmap.c:143, 185).
ExpansionNeverNests == ~ Idle /\ Moving => ~ MustGrow

Dict == INSTANCE Dictionary WITH entries <- Entries

\* The steps that grow the table, up to the return of hashmap_expand.
Grows ==
  \/ \E e \in Entry : PutExpands(e)
  \/ hashmap_expand
  \/ ExpandMoves \/ ExpandSkips
  \/ ExpandEnds /\ todo = Unused

\* Each step has the effect of its own call on the dictionary.
CallsTakeEffect ==
  /\ \A e \in Entry : hashmap_put(e) => Dict!DictPut(e)
  /\ ExpandEnds /\ todo # Unused => Dict!DictPut(todo)
  /\ hashmap_clear => Dict!DictClear
  /\ Grows => UNCHANGED Entries

\* The table is a dictionary from which nothing disappears but by
\* hashmap_clear: hashmap_put adds or replaces the one entry it is given, at
\* once or after the table has grown, and no step of hashmap_expand drops,
\* doubles or changes an entry (hashmap.c:120-130, 139-154, 170-189).
ImplementsDictionary == Dict!DictSpec /\ [][CallsTakeEffect]_mapVars

\* What the code does not give once entries are removed: a lookup finds every
\* entry of the table.
EntriesAreFound == Idle => \A e \in Entries : hashmap_contains_key(e.key)
=============================================================================
