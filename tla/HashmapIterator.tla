-------------------------- MODULE HashmapIterator --------------------------
(***************************************************************************)
(* The iterator of src/collections/hashmap.c, used by arp_destroy to free  *)
(* every key and address of the ARP cache once, on a table that its owner  *)
(* may change between two calls.                                           *)
(*                                                                         *)
(* The owner may remove a key that is not there, which makes map->size     *)
(* wrong.  The iterator never reads the size, so to save states it is only *)
(* given tables on which that has not happened since they were counted.    *)
(***************************************************************************)
EXTENDS Hashmap

CONSTANTS MaxSkip,   \* the largest n hashmap_it_skip is called with
          NoSkip,    \* no hashmap_it_skip is running
          MaxMissed  \* a bound on missed

ASSUME IteratorAssumption ==
  MaxSkip \in Nat /\ NoSkip \notin Nat /\ MaxMissed \in Nat

VARIABLES it_map,    \* it->map is set
          it_index,  \* it->index
          consumed,  \* it->consumed
          n,         \* the parameter n hashmap_it_skip counts down, or NoSkip
          changed,   \* history: the table was changed since the last reset
          seen,      \* history: indices returned since then, if unchanged
          returned,  \* history: how many entries were returned, if unchanged
          missed     \* history: how often a key was removed that was not
                     \* there, since the entries were last counted anew

itVars == <<it_map, it_index, consumed, n>>
historyVars == <<changed, seen, returned>>
iteratorVars == <<mapVars, itVars, historyVars, missed>>

ItTypeOK ==
  /\ TypeOK
  /\ it_map \in BOOLEAN /\ consumed \in BOOLEAN /\ changed \in BOOLEAN
  /\ it_index \in Nat /\ returned \in Nat /\ missed \in Nat
  /\ n \in 0..MaxSkip \cup {NoSkip}
  /\ seen \subseteq Nat

\* hashmap_it_alloc.
ItInit ==
  /\ Init
  /\ it_map = FALSE /\ it_index = 0 /\ consumed = FALSE
  /\ n = NoSkip
  /\ seen = {} /\ returned = 0 /\ changed = FALSE /\ missed = 0

\* The search of hashmap_it_has_next and hashmap_it_next: the first used slot
\* from an index on, or the capacity.
FirstUsed(from) ==
  CHOOSE j \in from..capacity :
    /\ j = capacity \/ array[j] # Unused
    /\ \A l \in from..(j - 1) : array[l] = Unused

\* Where the search starts.
From == IF consumed THEN it_index + 1 ELSE it_index

\* The early return of both.
AtEnd == ~ it_map \/ it_index >= capacity

\* What hashmap_it_has_next answers.
HasNext == ~ AtEnd /\ FirstUsed(From) < capacity

Restart ==
  /\ it_index' = 0
  /\ consumed' = FALSE
  /\ seen' = {} /\ returned' = 0 /\ changed' = FALSE

Calling == Idle /\ n = NoSkip

hashmap_it_set_map ==
  /\ Calling
  /\ missed = 0
  /\ it_map' = TRUE
  /\ Restart
  /\ UNCHANGED <<mapVars, n>>

hashmap_it_reset ==
  /\ Calling
  /\ Restart
  /\ UNCHANGED <<mapVars, it_map, n>>

hashmap_it_has_next ==
  /\ Calling
  /\ ~ AtEnd
  /\ it_index' = FirstUsed(From)
  /\ consumed' = FALSE
  /\ UNCHANGED <<mapVars, it_map, n, historyVars>>

\* History: the slot j is returned, unless j is the end.
Record(j) ==
  IF j < capacity /\ ~ changed
    THEN seen' = seen \cup {j} /\ returned' = returned + 1 /\ UNCHANGED changed
    ELSE UNCHANGED historyVars

\* A faulty hashmap_it_next that does not mark what it returned.
NextNotConsumed ==
  LET j == FirstUsed(From) IN
  /\ ~ AtEnd
  /\ it_index' = j
  /\ consumed' = FALSE
  /\ Record(j)
  /\ UNCHANGED <<mapVars, it_map>>

\* The body of hashmap_it_next.
NextEntry ==
  LET j == FirstUsed(From) IN
  /\ ~ AtEnd
  /\ it_index' = j
  /\ consumed' = (j < capacity)
  /\ Record(j)
  /\ UNCHANGED <<mapVars, it_map>>

hashmap_it_next ==
  /\ Calling
  /\ NextEntry
  /\ UNCHANGED n

\* hashmap_it_skip(m).
hashmap_it_skip(m) ==
  /\ Calling
  /\ n' = m
  /\ UNCHANGED <<mapVars, it_map, it_index, consumed, historyVars>>

\* A faulty loop that does not look at n.
SkipUnbounded ==
  /\ n # NoSkip
  /\ HasNext
  /\ NextEntry
  /\ n' = n - 1

\* One iteration of its loop.
SkipOne ==
  /\ n # NoSkip
  /\ n > 0
  /\ HasNext
  /\ NextEntry
  /\ n' = n - 1

\* It returns, the last hashmap_it_has_next having moved to the end.
SkipReturns ==
  /\ n # NoSkip
  /\ n = 0 \/ ~ HasNext
  /\ n' = NoSkip
  /\ IF n = 0 \/ AtEnd THEN UNCHANGED <<it_index, consumed>>
                       ELSE it_index' = FirstUsed(From) /\ consumed' = FALSE
  /\ UNCHANGED <<mapVars, it_map, historyVars>>

\* The owner of the table changes it between two calls of the iterator.
MapStep ==
  /\ n = NoSkip
  /\ \/ /\ NextRemovingPresent
        /\ missed' = IF hashmap_clear \/ capacity' # capacity THEN 0 ELSE missed
     \/ \E k \in Keys :
          /\ missed < MaxMissed /\ ~ it_map
          /\ ~ hashmap_contains_key(k)
          /\ hashmap_remove(k)
          /\ missed' = missed + 1
  /\ changed' = TRUE /\ seen' = {} /\ returned' = 0
  /\ UNCHANGED itVars

IteratorStep ==
  \/ hashmap_it_set_map \/ hashmap_it_reset
  \/ hashmap_it_has_next \/ hashmap_it_next
  \/ \E m \in 0..MaxSkip : hashmap_it_skip(m)
  \/ SkipOne \/ SkipReturns

ItNext == MapStep \/ (IteratorStep /\ UNCHANGED missed)

ItSpec == ItInit /\ [][ItNext]_iteratorVars

-----------------------------------------------------------------------------
\* A pass over a table that nobody changes has returned each used slot it has
\* gone past, and none twice, however calls of has_next, next and skip are
\* mixed; at the end, that is every entry once (hashmap.c:220-283;
\* test_hashmap.c:129, arp.c:108-122).
EveryEntryOnce ==
  ~ changed => /\ returned = Cardinality(seen)
               /\ seen = {j \in Used : j < From}

\* hashmap_put stores an entry when less than 71% of the capacity is counted,
\* so a slot stays unused, and hashmap_indexof ends for every key, as long as
\* the uncounted ones fit beside it (hashmap.c:62, 117, 143).
ProbesEndDespiteMisses ==
  (71 * capacity) \div 100 + 1 + missed < capacity => ProbesEnd
=============================================================================
