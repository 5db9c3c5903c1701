-------------------------- MODULE MCSleepingBarber --------------------------
(* Instances of SleepingBarber for TLC.                                    *)
EXTENDS SleepingBarber, TLC

CONSTANTS k1, k2, k3

ClientPerms == Permutations(Clients)
=============================================================================
