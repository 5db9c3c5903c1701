------------------------ MODULE MCMessageServerPosix ------------------------
(* Instances of MessageServerPosix for TLC.                                *)
EXTENDS MessageServerPosix, TLC

CONSTANTS c1, c2, c3

(* One that ends the server, one that asks twice, with a pipe.             *)
MCPrograms == {<<"OTHER", "END">>, <<"TIME", "MIRROR">>}

AllSymmetry == Permutations(Clients)
=============================================================================
