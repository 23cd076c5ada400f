------------------------------- MODULE Deque -------------------------------
(***************************************************************************)
(* What a caller of linked_list.c relies on: each list is a sequence that  *)
(* grows and shrinks at both ends.                                         *)
(***************************************************************************)
EXTENDS Naturals, Sequences, SequencesExt

CONSTANTS Lists, Contents

VARIABLE q     \* q[l]: the contents of list l

PushTail(l, c) == q' = [q EXCEPT ![l] = Append(@, c)]

PushHead(l, c) == q' = [q EXCEPT ![l] = <<c>> \o @]

PopTail(l) == q[l] # <<>> /\ q' = [q EXCEPT ![l] = Front(@)]

PopHead(l) == q[l] # <<>> /\ q' = [q EXCEPT ![l] = Tail(@)]

\* The elements of b come to be at the end of a.
Concat(a, b) == q' = [q EXCEPT ![a] = @ \o q[b], ![b] = <<>>]

RemoveNth(l, n) == q' = [q EXCEPT ![l] = RemoveAt(@, n)]

DequeInit == q = [l \in Lists |-> <<>>]

DequeNext ==
  \E l \in Lists :
    \/ \E c \in Contents : PushTail(l, c) \/ PushHead(l, c)
    \/ PopTail(l) \/ PopHead(l)
    \/ \E b \in Lists \ {l} : Concat(l, b)
    \/ \E n \in DOMAIN q[l] : RemoveNth(l, n)

DequeSpec == DequeInit /\ [][DequeNext]_q
=============================================================================
