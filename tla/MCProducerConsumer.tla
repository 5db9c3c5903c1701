------------------------- MODULE MCProducerConsumer -------------------------
(* Instances of ProducerConsumer for TLC.                                  *)
EXTENDS ProducerConsumer, TLC

CONSTANTS p1, p2, p3, c1, c2, c3

(* Lengths alternate around L = 5, so that some lines match and some not.  *)
MCStrlen == [l \in 1 .. FileLines |-> 3 + 2 * (l % 3)]

Threads == Permutations(Producers) \cup Permutations(Consumers)
=============================================================================
