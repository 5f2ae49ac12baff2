------------------------------ MODULE Policies ------------------------------
(***************************************************************************)
(* The registries an administrator keeps: redaction policies               *)
(* (services/redaction_service.py), retention policies                     *)
(* (services/retention_service.py) and data sources                        *)
(* (services/data_source_service.py). Rows are created active, deactivated *)
(* and never deleted. CaseDocuments composes this module with the readers  *)
(* that redaction policies apply to.                                       *)
(***************************************************************************)
EXTENDS Naturals, Sequences

CONSTANTS Desk,   \* requests of administrators served at once
          Idle,   \* a desk without a request
          Target, \* what a redaction policy masks: a field of notes, cases, entities
          Tier,   \* classification ranks
          Name    \* names of data sources

ASSUME TierAssumption == Tier \subseteq Nat

VARIABLES policies,    \* the rows of the three tables; an id is a position
          deactivated, \* deactivated[p]: ..._deactivated rows in the audit log
          desk,        \* what each request is doing
          twice        \* HISTORY: rows that two overlapping requests deactivated

policyVars == <<policies, deactivated, desk, twice>>

PolicyId == DOMAIN policies

DeskTask == [op : {"register"}, name : Name] \cup [op : {"deactivate"}, policy : PolicyId]

EndDesk(d) == desk' = [desk EXCEPT ![d] = Idle]

AtDesk(d, op) == desk[d] # Idle /\ desk[d].op = op

Redaction(t, tier) == [kind |-> "redaction", target |-> t, min |-> tier, active |-> TRUE]
Retention == [kind |-> "retention", active |-> TRUE]
Source(n) == [kind |-> "source", name |-> n, active |-> TRUE]

(* One INSERT and its audit row.                                           *)
Insert(row) ==
  /\ policies' = Append(policies, row)
  /\ deactivated' = Append(deactivated, 0)

PoliciesInit == policies = <<>> /\ deactivated = <<>> /\ desk = [d \in Desk |-> Idle] /\ twice = {}

CreatePolicy(t, tier) == Insert(Redaction(t, tier)) /\ UNCHANGED <<desk, twice>>

CreateRetention == Insert(Retention) /\ UNCHANGED <<desk, twice>>

NameFree(n) ==
  \A p \in PolicyId : policies[p].kind = "source" => policies[p].name # n

BeginRegister(d, n) ==
  /\ desk[d] = Idle /\ NameFree(n)
  /\ desk' = [desk EXCEPT ![d] = [op |-> "register", name |-> n]]
  /\ UNCHANGED <<policies, deactivated, twice>>

(* Mutant: the column name without its unique constraint.                  *)
Registrable_Any(n) == TRUE

(* The unique column.                                                      *)
Registrable(n) == NameFree(n)

Register(d) ==
  /\ AtDesk(d, "register") /\ Registrable(desk[d].name)
  /\ Insert(Source(desk[d].name))
  /\ EndDesk(d)
  /\ UNCHANGED twice

(* Mutant: a row that is inactive already is taken.                        *)
Deactivatable_Any(p) == TRUE

Deactivatable(p) == policies[p].active

BeginDeactivate(d, p) ==
  /\ desk[d] = Idle /\ Deactivatable(p)
  /\ desk' = [desk EXCEPT ![d] = [op |-> "deactivate", policy |-> p]]
  /\ UNCHANGED <<policies, deactivated, twice>>

(* HISTORY: another request for p is under way.                            *)
Contended(d, p) == \E e \in Desk \ {d} : AtDesk(e, "deactivate") /\ desk[e].policy = p

(* An UPDATE by id and the audit row.                                      *)
WriteDeactivation(d) ==
  /\ AtDesk(d, "deactivate")
  /\ LET p == desk[d].policy IN
       /\ policies' = [policies EXCEPT ![p].active = FALSE]
       /\ deactivated' = [deactivated EXCEPT ![p] = @ + 1]
       /\ twice' = IF Contended(d, p) THEN twice \cup {p} ELSE twice
  /\ EndDesk(d)

(* A duplicate name (500), or a request that is broken off.                *)
FailDesk(d) ==
  /\ desk[d] # Idle
  /\ EndDesk(d)
  /\ UNCHANGED <<policies, deactivated, twice>>

DeskNext ==
  \/ \E t \in Target, tier \in Tier : CreatePolicy(t, tier)
  \/ CreateRetention
  \/ \E d \in Desk :
       \/ \E n \in Name : BeginRegister(d, n)
       \/ \E p \in PolicyId : BeginDeactivate(d, p)
       \/ Register(d)
       \/ WriteDeactivation(d)
       \/ FailDesk(d)

(* Redaction policies in force.                                            *)
Active == {p \in PolicyId : policies[p].kind = "redaction" /\ policies[p].active}

PolicyRow ==
  [kind : {"redaction"}, target : Target, min : Tier, active : BOOLEAN]
    \cup [kind : {"retention"}, active : BOOLEAN]
    \cup [kind : {"source"}, name : Name, active : BOOLEAN]

PoliciesTypeOK ==
  /\ policies \in Seq(PolicyRow)
  /\ deactivated \in Seq(Nat) /\ Len(deactivated) = Len(policies)
  /\ desk \in [Desk -> DeskTask \cup {Idle}]
  /\ twice \subseteq PolicyId

(* A registry row is inactive exactly when the audit log has its           *)
(* deactivation, once unless two requests for it overlapped; a name is     *)
(* registered once, inactive rows included.                                *)
RegistryAccounted ==
  /\ \A p \in PolicyId :
       /\ policies[p].active = (deactivated[p] = 0)
       /\ deactivated[p] <= 1 \/ p \in twice
  /\ \A p, q \in PolicyId :
       (/\ policies[p].kind = "source" /\ policies[q].kind = "source"
        /\ policies[p].name = policies[q].name) => p = q

=============================================================================
