----------------------------- MODULE Dictionary -----------------------------
(***************************************************************************)
(* What a caller of src/collections/hashmap.c relies on: a set of entries, *)
(* at most one per key, that only the caller's own calls change.  A caller *)
(* that does not remove keys loses an entry only by clearing the whole.    *)
(* How it is stored, and when the storage grows, is invisible.             *)
(***************************************************************************)
CONSTANTS Keys, Values

VARIABLE entries

Entry == [key : Keys, value : Values]

DictInit == entries = {}

DictPut(e) == entries' = {f \in entries : f.key # e.key} \cup {e}

DictClear == entries' = {}

DictNext == \/ \E e \in Entry : DictPut(e)
            \/ DictClear

DictSpec == DictInit /\ [][DictNext]_entries
=============================================================================
