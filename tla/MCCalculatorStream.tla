------------------------- MODULE MCCalculatorStream -------------------------
(* Instances of CalculatorStream for TLC.                                  *)
EXTENDS CalculatorStream, TLC

CONSTANTS k1, k2

(* One client on each socket.                                              *)
MCVia == [c \in Clients |-> IF c = k1 THEN "ip" ELSE "name"]
=============================================================================
