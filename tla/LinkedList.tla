----------------------------- MODULE LinkedList -----------------------------
(***************************************************************************)
(* The doubly linked lists of src/collections/linked_list.c and their      *)
(* iterator, used by one thread.                                           *)
(*                                                                         *)
(* A node is named by its address, which malloc may give out again after   *)
(* free.  Two functions leave a list of which only a part can be used, and *)
(* the caller modelled here keeps to that part:                            *)
(*  - linked_list_concat sets no prev pointer across the join, so a joined *)
(*    list is not popped at its tail; and it copies pointers, so the       *)
(*    second list is given up;                                             *)
(*  - linked_list_it_remove neither counts the size down nor corrects the  *)
(*    prev pointer of the next node, so a list from which an element was   *)
(*    removed is only added to and iterated over.                          *)
(***************************************************************************)
EXTENDS Integers, Sequences, SequencesExt, FiniteSets

CONSTANTS Lists, Contents,
          Nodes,       \* the addresses malloc returns
          MaxSkip,     \* the largest n linked_list_it_skip is called with
          NULL,
          Free         \* a node that is not allocated

ASSUME ListAssumption ==
  /\ IsFiniteSet(Nodes) /\ NULL \notin Nodes \cup Lists
  /\ MaxSkip \in Nat

VARIABLES node,      \* the heap: content, next and prev of a node, or Free
          list,      \* the struct linked_list of each list
          owned,     \* the lists the caller has allocated and not given up
          it_list,   \* it->list; NULL if it is not set or was given up
          cursor,    \* it->cursor; Free if its node or its list is gone
          consumed,  \* it->consumed
          joined,    \* history: lists with a join since they were empty
          removed,   \* history: lists from which the iterator removed
          seen,      \* history: what the iterator returned since its reset
          changed    \* history: the list was changed behind the iterator

listVars == <<node, list, owned, joined, removed>>
itVars == <<it_list, cursor, consumed, seen, changed>>
vars == <<listVars, itVars>>

Pointer == Nodes \cup {NULL}
Node == [content : Contents, next : Pointer, prev : Pointer]

ListTypeOK ==
  /\ node \in [Nodes -> Node \cup {Free}]
  /\ list \in [Lists -> [size : 0..Cardinality(Nodes) + 1,
                         head : Pointer, tail : Pointer]]
  /\ owned \subseteq Lists /\ joined \subseteq Lists /\ removed \subseteq Lists
  /\ it_list \in Lists \cup {NULL}
  /\ cursor \in Pointer \cup {Free}
  /\ consumed \in BOOLEAN /\ changed \in BOOLEAN
  /\ seen \in Seq(Contents)

Empty == [size |-> 0, head |-> NULL, tail |-> NULL]

\* Before anything is allocated, and linked_list_it_alloc.
Init ==
  /\ node = [n \in Nodes |-> Free]
  /\ list = [l \in Lists |-> Empty]
  /\ owned = {} /\ joined = {} /\ removed = {}
  /\ it_list = NULL /\ cursor = NULL /\ consumed = FALSE
  /\ seen = <<>> /\ changed = FALSE

linked_list_is_empty(l) == list[l].size = 0

-----------------------------------------------------------------------------
(***************************************************************************)
(* Walking along the pointers, for the iterator's loop and the properties. *)
(***************************************************************************)

Follow(p, link) == IF p = NULL \/ node[p] = Free THEN NULL ELSE node[p][link]

\* The nodes from p on; no longer than the heap, should there be a cycle.
Walk(p, link) ==
  LET from[x \in Pointer, n \in 0..Cardinality(Nodes)] ==
        IF x = NULL \/ n = 0 THEN <<>>
                             ELSE <<x>> \o from[Follow(x, link), n - 1]
  IN  from[p, Cardinality(Nodes)]

ContentsOf(ns) == [n \in DOMAIN ns |-> node[ns[n]].content]

Chain(l) == IF l \in owned THEN Walk(list[l].head, "next") ELSE <<>>

-----------------------------------------------------------------------------
(***************************************************************************)
(* Lists.                                                                  *)
(***************************************************************************)

linked_list_alloc(l) ==
  /\ l \notin owned
  /\ list' = [list EXCEPT ![l] = Empty]
  /\ owned' = owned \cup {l}
  /\ UNCHANGED <<node, joined, removed, itVars>>

\* History: the iterator's pass is no longer one over its list as it is now,
\* if the condition holds.
Disturbs(condition) ==
  /\ changed' = (changed \/ condition)
  /\ seen' = IF changed' THEN <<>> ELSE seen

linked_list_push_tail(l, c) ==
  /\ l \in owned
  /\ \E n \in Nodes :
       LET tail == list[l].tail IN
       /\ node[n] = Free
       /\ node' = [m \in Nodes |->
            CASE m = n -> [content |-> c, next |-> NULL, prev |-> tail]
              [] m = tail -> [node[m] EXCEPT !.next = n]
              [] OTHER -> node[m]]
       /\ list' = [list EXCEPT ![l] =
            [size |-> @.size + 1, tail |-> n,
             head |-> IF @.head = NULL THEN n ELSE @.head]]
  /\ Disturbs(it_list = l /\ cursor = NULL)
  /\ UNCHANGED <<owned, joined, removed, it_list, cursor, consumed>>

\* A faulty linked_list_push_head that forgets the old head's prev pointer.
NewHeadUnlinked(l, n, c) ==
  [node EXCEPT ![n] = [content |-> c, next |-> list[l].head, prev |-> NULL]]

\* A faulty linked_list_push_head that forgets the new node's next pointer.
NewHeadAlone(l, n, c) ==
  [m \in Nodes |->
    CASE m = n -> [content |-> c, next |-> NULL, prev |-> NULL]
      [] m = list[l].head -> [node[m] EXCEPT !.prev = n]
      [] OTHER -> node[m]]

\* The nodes once n, with content c, is in front of list l.
NewHead(l, n, c) ==
  [m \in Nodes |->
    CASE m = n -> [content |-> c, next |-> list[l].head, prev |-> NULL]
      [] m = list[l].head -> [node[m] EXCEPT !.prev = n]
      [] OTHER -> node[m]]

linked_list_push_head(l, c) ==
  /\ l \in owned
  /\ \E n \in Nodes :
       /\ node[n] = Free
       /\ node' = NewHead(l, n, c)
       /\ list' = [list EXCEPT ![l] =
            [size |-> @.size + 1, head |-> n,
             tail |-> IF @.tail = NULL THEN n ELSE @.tail]]
  /\ Disturbs(it_list = l)
  /\ UNCHANGED <<owned, joined, removed, it_list, cursor, consumed>>

\* A faulty pop that does not free the node.
UnlinkOnly(n, other, link) ==
  [m \in Nodes |-> IF m = other THEN [node[m] EXCEPT ![link] = NULL]
                                ELSE node[m]]

\* The nodes once n is freed and the pointer of its neighbour is cleared.
Unlink(n, other, link) ==
  [m \in Nodes |-> CASE m = n -> Free
                     [] m = other -> [node[m] EXCEPT ![link] = NULL]
                     [] OTHER -> node[m]]

\* What both pops do besides: the assertion that the list is not empty, which
\* callers heed, and the history of a pop of node n.
Pop(l, n) ==
  /\ l \in owned \ removed
  /\ ~ linked_list_is_empty(l)
  /\ joined' = IF list[l].size = 1 THEN joined \ {l} ELSE joined
  /\ cursor' = IF cursor = n THEN Free ELSE cursor
  /\ Disturbs(it_list = l)
  /\ UNCHANGED <<owned, removed, it_list, consumed>>

linked_list_pop_tail(l) ==
  /\ l \notin joined
  /\ Pop(l, list[l].tail)
  /\ LET new_tail == node[list[l].tail].prev IN
     /\ node' = Unlink(list[l].tail, new_tail, "next")
     /\ list' = [list EXCEPT ![l] =
          [size |-> @.size - 1, tail |-> new_tail,
           head |-> IF @.size = 1 THEN NULL ELSE @.head]]

linked_list_pop_head(l) ==
  /\ Pop(l, list[l].head)
  /\ LET new_head == node[list[l].head].next IN
     /\ node' = Unlink(list[l].head, new_head, "prev")
     /\ list' = [list EXCEPT ![l] =
          [size |-> @.size - 1, head |-> new_head,
           tail |-> IF @.size = 1 THEN NULL ELSE @.tail]]

\* A faulty linked_list_concat that adds the size of the wrong list.
AppendedOwnSize(a, b) == [list[a] EXCEPT !.size = @ + @,
                                         !.tail = list[b].tail]

\* A faulty linked_list_concat that does not add the sizes.
AppendedSizeKept(a, b) == [list[a] EXCEPT !.tail = list[b].tail]

\* The struct of a after the elements of b were appended to it.
Appended(a, b) == [list[a] EXCEPT !.size = @ + list[b].size,
                                  !.tail = list[b].tail]

\* The struct of b is copied or its nodes are appended; the caller frees it.
linked_list_concat(a, b) ==
  /\ {a, b} \subseteq owned \ removed /\ a # b
  /\ \/ /\ linked_list_is_empty(a)
        /\ list' = [list EXCEPT ![a] = list[b], ![b] = Empty]
        /\ joined' = IF b \in joined THEN joined \cup {a} ELSE joined
        /\ UNCHANGED node
     \/ /\ ~ linked_list_is_empty(a) /\ ~ linked_list_is_empty(b)
        /\ node' = [node EXCEPT ![list[a].tail].next = list[b].head]
        /\ list' = [list EXCEPT ![a] = Appended(a, b), ![b] = Empty]
        /\ joined' = joined \cup {a}
     \/ /\ ~ linked_list_is_empty(a) /\ linked_list_is_empty(b)
        /\ UNCHANGED <<node, list, joined>>
  /\ owned' = owned \ {b}
  /\ it_list' = IF it_list = b THEN NULL ELSE it_list
  /\ cursor' = IF it_list = b THEN Free ELSE cursor
  /\ Disturbs(it_list = b \/ (it_list = a /\ cursor = NULL))
  /\ UNCHANGED <<removed, consumed>>

-----------------------------------------------------------------------------
(***************************************************************************)
(* The iterator.  When its node is gone it can only be reset, and when its *)
(* list is gone only be given another.                                     *)
(***************************************************************************)

Restart(l) ==
  /\ it_list' = l
  /\ cursor' = list[l].head
  /\ consumed' = FALSE
  /\ seen' = <<>> /\ changed' = FALSE
  /\ UNCHANGED listVars

linked_list_it_set_list(l) == l \in owned /\ Restart(l)

linked_list_it_reset == it_list # NULL /\ Restart(it_list)

\* The early return, with a cursor that is NULL, changes nothing.
Iterating == cursor \in Nodes

\* Where the cursor is once what it stands on was consumed.
Current == IF consumed THEN node[cursor].next ELSE cursor

\* History: what was returned, with the nodes ns, in an undisturbed pass.
Returning(ns) == IF changed THEN <<>> ELSE seen \o ContentsOf(ns)

linked_list_it_has_next ==
  /\ Iterating
  /\ cursor' = Current
  /\ consumed' = FALSE
  /\ UNCHANGED <<listVars, it_list, seen, changed>>

\* A faulty linked_list_it_next that does not mark what it returned.
NextNotConsumed ==
  /\ Iterating
  /\ cursor' = Current
  /\ consumed' = FALSE
  /\ seen' = IF Current = NULL THEN seen
                               ELSE Returning(<<Current>>)
  /\ UNCHANGED <<listVars, it_list, changed>>

linked_list_it_next ==
  /\ Iterating
  /\ cursor' = Current
  /\ consumed' = (Current # NULL)
  /\ seen' = IF Current = NULL THEN seen
                               ELSE Returning(<<Current>>)
  /\ UNCHANGED <<listVars, it_list, changed>>

\* m times next, or up to the end, which the last has_next then moves to.
linked_list_it_skip(m) ==
  LET rest == Walk(Current, "next") IN
  /\ Iterating
  /\ m > 0
  /\ IF m <= Len(rest) THEN cursor' = rest[m] /\ consumed' = TRUE
                       ELSE cursor' = NULL /\ consumed' = FALSE
  /\ seen' = Returning(SubSeq(rest, 1, IF m <= Len(rest) THEN m ELSE Len(rest)))
  /\ UNCHANGED <<listVars, it_list, changed>>

\* linked_list_it_remove with nothing left to remove.
RemoveAtEnd ==
  /\ Iterating
  /\ Current = NULL
  /\ cursor' = NULL /\ consumed' = FALSE
  /\ UNCHANGED <<listVars, it_list, seen, changed>>

\* It unlinks the next node going forward, frees it and steps back to the one
\* before.  The first has none before it: the cursor is then NULL, and stays it.
linked_list_it_remove ==
  /\ Iterating
  /\ it_list \notin joined \cup removed
  /\ Current # NULL
  /\ LET n == Current
         prev == node[n].prev
         next == node[n].next
     IN  /\ node' = [m \in Nodes |->
                      CASE m = n -> Free
                        [] m = prev -> [node[m] EXCEPT !.next = next]
                        [] OTHER -> node[m]]
         /\ list' = [list EXCEPT
                      ![it_list].head = IF prev = NULL THEN next ELSE @,
                      ![it_list].tail = IF next = NULL THEN prev ELSE @]
         /\ cursor' = prev
  /\ consumed' = TRUE
  /\ removed' = removed \cup {it_list}
  /\ UNCHANGED <<owned, joined, it_list, seen, changed>>

-----------------------------------------------------------------------------
ListStep(l) ==
  \/ linked_list_alloc(l)
  \/ \E c \in Contents : linked_list_push_tail(l, c) \/ linked_list_push_head(l, c)
  \/ linked_list_pop_tail(l) \/ linked_list_pop_head(l)
  \/ \E b \in Lists : linked_list_concat(l, b)

IteratorStep ==
  \/ \E l \in Lists : linked_list_it_set_list(l)
  \/ linked_list_it_reset
  \/ linked_list_it_has_next \/ linked_list_it_next
  \/ \E m \in 1..MaxSkip : linked_list_it_skip(m)
  \/ RemoveAtEnd \/ linked_list_it_remove

Next == (\E l \in Lists : ListStep(l)) \/ IteratorStep

Spec == Init /\ [][Next]_vars

-----------------------------------------------------------------------------
(***************************************************************************)
(* Properties.                                                             *)
(***************************************************************************)

\* The contents of each list, seen from its head.
Queue == [l \in Lists |-> ContentsOf(Chain(l))]

Sequences == INSTANCE Deque WITH q <- Queue

\* Each step has the effect of its own call on the sequences.
CallsTakeEffect ==
  /\ \A l \in Lists :
       /\ \A c \in Contents :
            /\ linked_list_push_tail(l, c) => Sequences!PushTail(l, c)
            /\ linked_list_push_head(l, c) => Sequences!PushHead(l, c)
       /\ linked_list_pop_tail(l) => Sequences!PopTail(l)
       /\ linked_list_pop_head(l) => Sequences!PopHead(l)
       /\ \A b \in Lists : linked_list_concat(l, b) => Sequences!Concat(l, b)
       /\ linked_list_alloc(l) => UNCHANGED Queue
  /\ linked_list_it_remove =>
       \E n \in DOMAIN Chain(it_list) : /\ Chain(it_list)[n] = Current
                                        /\ Sequences!RemoveNth(it_list, n)
  /\ UNCHANGED listVars => UNCHANGED Queue

\* Each list is the sequence its calls make of it, joined or not: a push or a
\* pop works on its own end, a removal takes out the element the iterator was
\* to return next, and the iterator's other calls change nothing
\* (linked_list.c:42-107, 143-164).
ImplementsDeque == Sequences!DequeSpec /\ [][CallsTakeEffect]_vars

\* The prev pointers lead from the tail through the same nodes backwards, so
\* both ends can be popped in any order down to the empty list, except where
\* a list was joined or an element removed (linked_list.c:42-96).
BackLinksMirror ==
  \A l \in owned \ (joined \cup removed) :
    Walk(list[l].tail, "prev") = Reverse(Chain(l))

\* list->size, by which linked_list_is_empty answers, is the number of
\* elements, one more if the iterator removed one (linked_list.c:33-40, 157).
SizeIsLength ==
  \A l \in owned :
    list[l].size = Len(Chain(l)) + IF l \in removed THEN 1 ELSE 0

\* Every allocated node is in exactly one list that is in use, once: nothing
\* leaks, and nothing is freed that a list still reaches (linked_list.c:47,
\* 75, 98-107).
NodesAreOwned ==
  LET ls == SetToSeq(Lists)
      all == FlattenSeq([i \in DOMAIN ls |-> Chain(ls[i])])
  IN  IsInjective(all) /\ ToSet(all) = {n \in Nodes : node[n] # Free}

\* linked_list_it_remove has removed the first element: it is the only call
\* that leaves a cursor that is NULL and consumed.
FirstRemoved == cursor = NULL /\ consumed

\* What the iterator has returned and what it is still to return are the list,
\* in order, however has_next, next and skip are mixed, with the elements
\* appended on the way, and with one other than the first removed.  Removing
\* the first element ends the pass: it can only be the first thing the pass
\* does, and no element of the list is returned after it
\* (linked_list.c:121-187, the end of the pass at 159-161).
PassInOrder ==
  it_list # NULL /\ ~ changed =>
    IF FirstRemoved
      THEN it_list \in removed /\ seen = <<>>
      ELSE seen \o (IF cursor = NULL THEN <<>>
                                    ELSE ContentsOf(Walk(Current, "next")))
             = ContentsOf(Chain(it_list))
=============================================================================
