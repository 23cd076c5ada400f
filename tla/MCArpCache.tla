---------------------------- MODULE MCArpCache ----------------------------
(***************************************************************************)
(* Small instances of ArpCache for TLC.                                    *)
(***************************************************************************)
EXTENDS ArpCache, TLC

\* The keys collide in a table of four slots, "a" and "c" in one of eight slots
\* too, and "b" moves to the half that a table of four does not have.
MCHash == [a |-> 1, b |-> 5, c |-> 9]
MCKeys == DOMAIN MCHash

Arp(k, m) == [kind |-> "arp", key |-> k, mac |-> m, known |-> TRUE,
              target |-> TRUE, opcode |-> "request"]
Heard(k, m) == [Arp(k, m) EXCEPT !.target = FALSE]
Reply(k, m) == [Arp(k, m) EXCEPT !.opcode = "reply"]
Odd(k, m) == [Arp(k, m) EXCEPT !.opcode = "other"]
Unsupported(k, m) == [Arp(k, m) EXCEPT !.known = FALSE]
Echo(k) == [Arp(k, <<0, 0>>) EXCEPT !.kind = "echo"]

\* Three hosts fill the table, and the next hashmap_put makes it grow, while
\* two of them are heard again and one sends an echo request.
ThreeHosts ==
  {Arp("a", <<1, 1>>), Reply("b", <<3, 3>>), Odd("c", <<1, 1>>),
   Heard("b", <<4, 4>>), Arp("a", <<2, 2>>), Echo("b"), Unsupported("b", <<2, 2>>)}

\* One is heard again, and two send echo requests.
HeardOnce ==
  {Arp("a", <<1, 1>>), Reply("b", <<3, 3>>), Odd("c", <<1, 1>>),
   Heard("b", <<4, 4>>), Echo("a"), Echo("b")}

\* Two are heard again, and none sends an echo request.
NoEcho == ThreeHosts \ {Echo("b"), Unsupported("b", <<2, 2>>)}

ThreadSymmetry == Permutations(Threads)
=============================================================================
