------------------------------ MODULE MCVesta ------------------------------
(* Two requests of any kind on one path.                                    *)
EXTENDS Vesta, TLC

CONSTANTS r1, r2

MCRequests == {r1, r2}

MCSymmetry == Permutations(MCRequests)

=============================================================================
