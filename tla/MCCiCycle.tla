------------------------------ MODULE MCCiCycle ------------------------------
(* Two runners; the name of the one begins the name of the other, as ci-1 does *)
(* the name of ci-10.                                                          *)
EXTENDS CiCycle

CONSTANTS r1, r2

OneAlike == {<<r1, r2>>}

=============================================================================
