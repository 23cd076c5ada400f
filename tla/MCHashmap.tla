----------------------------- MODULE MCHashmap -----------------------------
(***************************************************************************)
(* Small instances of Hashmap for TLC.                                     *)
(***************************************************************************)
EXTENDS Hashmap, TLC

\* With capacity 4, "a" and "b" collide, "c" sits at the end of the array so
\* that its probe wraps around, and "d" collides with "a" only until the
\* capacity is 8.
MCHash == [a |-> 0, b |-> 8, c |-> 3, d |-> 4, e |-> 1]
FiveKeys == {"a", "b", "c", "d", "e"}

MCHashOfThree == [a |-> 0, b |-> 8, c |-> 3]
ThreeKeys == {"a", "b", "c"}
=============================================================================
