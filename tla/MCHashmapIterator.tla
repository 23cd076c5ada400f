------------------------- MODULE MCHashmapIterator -------------------------
(***************************************************************************)
(* A small instance of HashmapIterator for TLC.                            *)
(***************************************************************************)
EXTENDS HashmapIterator, TLC

\* With capacity 4, "a" and "b" collide and "c" sits where "b" then goes; with
\* capacity 8 only "a" and "b" collide.
MCHash == [a |-> 0, b |-> 8, c |-> 5]
ThreeKeys == {"a", "b", "c"}
=============================================================================
