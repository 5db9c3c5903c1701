------------------------ MODULE MCCalculatorDatagram ------------------------
(* Instances of CalculatorDatagram for TLC.                                *)
EXTENDS CalculatorDatagram, TLC

CONSTANTS k1, k2, k3

(* Two clients of the local socket and one that uses UDP.                  *)
MCVia == [c \in Clients |-> IF c = k1 THEN "ip" ELSE "name"]

LocalClients == Permutations({k2, k3})
=============================================================================
