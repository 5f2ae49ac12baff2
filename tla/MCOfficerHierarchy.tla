------------------------- MODULE MCOfficerHierarchy -------------------------
(* Values for the model checking of OfficerHierarchy.                      *)
EXTENDS OfficerHierarchy, TLC

CONSTANTS s1, o2, o3, o4, w1, w2

Symmetric == Permutations(Officer \ Supervisor) \cup Permutations(Worker)
=============================================================================
