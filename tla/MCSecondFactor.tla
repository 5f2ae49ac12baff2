--------------------------- MODULE MCSecondFactor ---------------------------
(* Values for the model checking of SecondFactor.                          *)
EXTENDS SecondFactor, TLC

CONSTANTS k1, k2, k3, w1, w2

Symmetric == Permutations(Secret) \cup Permutations(Worker)
=============================================================================
