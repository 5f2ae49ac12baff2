------------------------- MODULE MCAccessExceptions -------------------------
(* Values for the model checking of AccessExceptions.                      *)
EXTENDS AccessExceptions, TLC

CONSTANTS d1, s1, s2, c1, c2, w1, w2

(* A detective d1 without cases at home, cleared for c1 and not for c2;    *)
(* two supervisors, cleared for both.                                      *)
NobodyHome == [o \in Officer |-> {}]
Tiers == [o \in Officer |-> IF o \in Reviewer THEN Case ELSE {c1}]

Symmetric == Permutations(Reviewer) \cup Permutations(Worker)
=============================================================================
