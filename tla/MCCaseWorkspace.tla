-------------------------- MODULE MCCaseWorkspace --------------------------
(* Values for the model checking of CaseWorkspace.                         *)
EXTENDS CaseWorkspace, TLC

CONSTANTS o1, o2, w1, w2, home, away

(* o1 works in one district; o2 is cleared for both and works in the other.*)
MCScope == o1 :> {home} @@ o2 :> {away}
MCCleared == o1 :> {home} @@ o2 :> {home, away}

Workers == Permutations({w1, w2})
=============================================================================
