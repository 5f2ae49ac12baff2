------------------------- MODULE MCEntityResolution -------------------------
(* Values for the model checking of EntityResolution.                      *)
EXTENDS EntityResolution, TLC

CONSTANTS p1, p2, p3, w1, w2, w3, n1, n2, n3, d1, d2


(* Three people with names of their own, created one after the other.      *)
Names == p1 :> n1 @@ p2 :> n2 @@ p3 :> n3
Created == p1 :> 1 @@ p2 :> 2 @@ p3 :> 3

(* Races: people differ in nothing but their rows.                         *)
SameName == [p \in Person |-> n1]
SameAge == [p \in Person |-> 1]

Row(isProtected, rank, dob, aliases) ==
  [mergedInto |-> Nil, protected |-> isProtected,
   rank |-> rank, dob |-> dob, aliases |-> aliases]

PlainRows == {Row(isProtected, 1, Nil, {}) : isProtected \in BOOLEAN}
VariedRows == {Row(FALSE, 0, d1, {}), Row(FALSE, 1, Nil, {n3})}

Threads == Permutations(Request)
PeopleAndThreads == Permutations({p1, p2, p3}) \cup Threads
=============================================================================
