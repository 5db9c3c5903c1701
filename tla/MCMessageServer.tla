-------------------------- MODULE MCMessageServer --------------------------
EXTENDS MessageServer

CONSTANTS s1, s2, c1, c2, c3

(* One that sends END and goes on, and one whose second request has the    *)
(* lower type.                                                             *)
MCPrograms == {<<"END", "MIRROR">>, <<"TIME", "CALC">>}

(* With two requests for the time, so that pipes run out.                  *)
MCCrashPrograms == {<<"TIME", "TIME", "MIRROR">>, <<"OTHER", "END", "CALC">>}

AllSymmetry == Permutations(Clients) \cup Permutations(Servers)

=============================================================================
