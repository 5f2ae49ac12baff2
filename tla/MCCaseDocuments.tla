-------------------------- MODULE MCCaseDocuments ---------------------------
(* Values for the model checking of CaseDocuments.                         *)
EXTENDS CaseDocuments, TLC

CONSTANTS lead, member, boss, d1, d2, nobody

MCRole == lead :> "OFFICER" @@ member :> "OFFICER" @@ boss :> "SUPERVISOR"
MCClearance == lead :> 1 @@ member :> 0 @@ boss :> 1

(* A supervisor with one subordinate and one officer of another unit.      *)
MCUnit == {lead :> boss @@ member :> nobody @@ boss :> nobody}

Desks == Permutations({d1, d2})
=============================================================================
