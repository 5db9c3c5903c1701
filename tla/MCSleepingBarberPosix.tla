----------------------- MODULE MCSleepingBarberPosix -----------------------
(* Instances of SleepingBarberPosix for TLC.                               *)
EXTENDS SleepingBarberPosix, TLC

CONSTANTS k1, k2, k3

ClientPerms == Permutations(Clients)
=============================================================================
