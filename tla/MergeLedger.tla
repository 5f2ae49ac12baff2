---------------------------- MODULE MergeLedger ----------------------------
(***************************************************************************)
(* What entity resolution promises to its readers, with no sessions, locks *)
(* or events: every person is independent or hidden behind one survivor,   *)
(* an absorption is a single step between two independent, unprotected     *)
(* people, and a reversal makes the absorbed person independent again.     *)
(* EntityResolution.tla is shown to implement this specification.          *)
(***************************************************************************)
CONSTANTS Person,   \* rows of the persons table
          Nil       \* a NULL column

VARIABLES parent,     \* persons.merged_into_id
          protected   \* persons.is_protected_subject

vars == <<parent, protected>>

Independent(p) == parent[p] = Nil

Init ==
  /\ parent = [p \in Person |-> Nil]
  /\ protected \in [Person -> BOOLEAN]

Absorb(p, a) ==
  /\ p # a
  /\ Independent(p) /\ Independent(a)
  /\ ~protected[p] /\ ~protected[a]
  /\ parent' = [parent EXCEPT ![a] = p]
  /\ UNCHANGED protected

Free(a) ==
  /\ ~Independent(a)
  /\ parent' = [parent EXCEPT ![a] = Nil]
  /\ UNCHANGED protected

Protect(p, v) ==
  /\ protected' = [protected EXCEPT ![p] = v]
  /\ UNCHANGED parent

Next ==
  \/ \E p, a \in Person : Absorb(p, a)
  \/ \E a \in Person : Free(a)
  \/ \E p \in Person, v \in BOOLEAN : Protect(p, v)

Spec == Init /\ [][Next]_vars

-----------------------------------------------------------------------------

LedgerTypeOK ==
  /\ parent \in [Person -> Person \cup {Nil}]
  /\ protected \in [Person -> BOOLEAN]

(* Following survivors always ends: no set of people is closed under       *)
(* "merged into", so no cycle of absorptions hides everybody in it.        *)
Acyclic ==
  \A S \in SUBSET Person :
     S # {} => \E p \in S : parent[p] \notin S

=============================================================================
