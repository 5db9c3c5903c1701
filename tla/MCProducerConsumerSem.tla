----------------------- MODULE MCProducerConsumerSem -----------------------
(* Instances of ProducerConsumerSem for TLC.                               *)
EXTENDS ProducerConsumerSem, TLC

CONSTANTS p1, p2, p3, c1, c2, c3

MCStrlen == [l \in 1 .. FileLines |-> 3 + 2 * (l % 3)]

Threads == Permutations(Producers) \cup Permutations(Consumers)
=============================================================================
