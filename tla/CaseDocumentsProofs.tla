------------------------ MODULE CaseDocumentsProofs -------------------------
(***************************************************************************)
(* Theorems about CaseDocuments and the registries it is composed with,    *)
(* for any number of officers, notes, policies and changes, and whatever   *)
(* tiers and visibilities there are.                                       *)
(***************************************************************************)
EXTENDS CaseDocuments, FiniteSetTheorems, WellFoundedInduction, TLAPS

(* A deactivation under way is of a row nobody has deactivated, unless two *)
(* requests for it overlapped.                                             *)
Fresh(d) ==
  AtDesk(d, "deactivate") => \/ deactivated[desk[d].policy] = 0
                             \/ desk[d].policy \in twice

RegistryInv == RegistryAccounted /\ \A d \in Desk : Fresh(d)

Assembled == At("redact") \/ At("done")

(* What the history has seen: all the reader can see now, and of the       *)
(* policies in force now those that were so from the beginning.            *)
HistoryInv ==
  /\ Underway => Readable(reader.by) \subseteq entitled /\ lasting \subseteq Active
  /\ \A p \in lasting : policies[p].kind = "redaction"

(* The hierarchy without the manager of o.                                 *)
Without(o) == [manager EXCEPT ![o] = Nobody]

Below(m, r, q) == q = r \/ q \in Subordinates(m, r)

(* The reader could see all that q has written for the chain of command.   *)
Shown(q) ==
  \A i \in reader.rows :
    (notes[i].visibility = "supervisory_chain" /\ notes[i].author = q) => i \in entitled

(* Whom the search has found, if nobody but o was reassigned during it:    *)
(* subordinates whatever o's manager is, and once o is found those of o,   *)
(* all of whose notes the reader could see at that moment.                 *)
FoundUnder(o) ==
  /\ \A q \in reader.found :
       \/ Below(Without(o), reader.by, q)
       \/ o \in reader.found /\ Below(Without(o), o, q)
  /\ o \in reader.found =>
       \A q \in Officer : (q # reader.by /\ Below(Without(o), o, q)) => Shown(q)

SearchInv ==
  reader # Idle =>
    /\ At("search") =>
         /\ Role[reader.by] = "SUPERVISOR" /\ reader.depth < MaxChainDepth
         /\ reader.by \notin reader.found
         /\ reader.frontier \subseteq reader.found \cup {reader.by}
         /\ \A o \in Officer : moved \subseteq {o} => FoundUnder(o)
    /\ (At("visible") /\ Role[reader.by] = "SUPERVISOR" /\ ~Reshuffled) =>
         \A q \in reader.found : Shown(q)
    /\ (At("notes") \/ At("team")) =>
         moved = {} /\ reader.found = {} /\ reader.depth = 0

(* What the reader may be shown of the notes it selected.                  *)
Passes(i) ==
  i \in entitled \/ (notes[i].visibility = "supervisory_chain" /\ Reshuffled)

(* A request decides on notes that existed when it read the team: a member *)
(* it has found there saw them at that moment.                             *)
NotesInv ==
  reader # Idle =>
    /\ \A i \in reader.rows : notes[i].tier <= Clearance[reader.by]
    /\ ((At("search") \/ At("visible")) /\ reader.by \in reader.members) =>
         \A i \in reader.rows : notes[i].visibility = "case_team" => i \in entitled
    /\ Assembled => \A i \in NotesOf(reader.items) : Passes(i)

LabelInv ==
  (Assembled /\ reader.op = "export") =>
    /\ \A item \in reader.items : TierOf(item) <= reader.label
    /\ reader.label <= Clearance[reader.by]

(* The entry of an export.                                                 *)
Names(e, r) ==
  e.action = "export" /\ e.label = r.label /\ e.notes = Cardinality(NotesOf(r.items))

(* Nothing is masked or logged as masked before the last step.             *)
AuditInv ==
  reader # Idle =>
    /\ ~Assembled => reader.logged = {}
    /\ ~At("done") =>
         reader.masked = {} /\ \A e \in reader.logged : e.action # "redaction"
    /\ (Assembled /\ reader.op = "export") =>
         \E e \in reader.logged : Names(e, reader)

IInv ==
  /\ TypeOK
  /\ RegistryInv
  /\ HistoryInv
  /\ SearchInv
  /\ NotesInv
  /\ LabelInv
  /\ AuditInv
  /\ LastingPoliciesMask
  /\ DocumentsAudited

-----------------------------------------------------------------------------
(* Numbers and sequences                                                   *)

(* A bounded set of naturals has a greatest element.                       *)
LEMMA Greatest ==
  ASSUME NEW T \in SUBSET Nat, T # {}, NEW b \in Nat, \A t \in T : t <= b
  PROVE  \E m \in T : \A t \in T : t <= m
<1>1. PICK D : D = {b - t : t \in T}
  OBVIOUS
<1>2. D \subseteq Nat /\ D # {}
  <2>1. \A t \in T : b - t \in Nat
    OBVIOUS
  <2> QED
    BY <1>1, <2>1
<1>3. PICK R : R = OpToRel(<, Nat)
  OBVIOUS
<1>4. PICK x \in D : \A y \in D : ~(<<y, x>> \in R)
  BY <1>2, <1>3, WFMin, NatLessThanWellFounded
<1>5. \A y \in D : ~(y < x)
  BY <1>2, <1>3, <1>4 DEF OpToRel
<1>6. PICK m \in T : x = b - m
  BY <1>1, <1>4
<1>7. ASSUME NEW t \in T
      PROVE  t <= m
  <2>1. b - t \in D
    BY <1>1
  <2>2. ~(b - t < b - m)
    BY <1>5, <1>6, <2>1
  <2> QED
    BY <2>2
<1> QED
  BY <1>7

(* What appending a row does.                                              *)
LEMMA Appended ==
  ASSUME NEW S, NEW s \in Seq(S), NEW e \in S
  PROVE  /\ Append(s, e) \in Seq(S)
         /\ Len(Append(s, e)) = Len(s) + 1
         /\ DOMAIN Append(s, e) = DOMAIN s \cup {Len(s) + 1}
         /\ \A i \in DOMAIN s : Append(s, e)[i] = s[i]
         /\ Append(s, e)[Len(s) + 1] = e
         /\ Len(s) + 1 \notin DOMAIN s
OBVIOUS

(* What changing a row does.                                               *)
LEMMA Updated ==
  ASSUME NEW S, NEW s \in Seq(S), NEW i \in DOMAIN s, NEW e \in S
  PROVE  /\ [s EXCEPT ![i] = e] \in Seq(S)
         /\ Len([s EXCEPT ![i] = e]) = Len(s)
         /\ DOMAIN [s EXCEPT ![i] = e] = DOMAIN s
         /\ [s EXCEPT ![i] = e][i] = e
         /\ \A j \in DOMAIN s : j # i => [s EXCEPT ![i] = e][j] = s[j]
OBVIOUS

LEMMA Rows ==
  ASSUME NEW S, NEW s \in Seq(S)
  PROVE  Len(s) \in Nat /\ DOMAIN s = 1..Len(s) /\ \A i \in DOMAIN s : s[i] \in S
OBVIOUS

-----------------------------------------------------------------------------
(* The registries                                                          *)

(* A row that is deactivated keeps all its other fields.                   *)
LEMMA Deactivated ==
  ASSUME NEW row \in PolicyRow
  PROVE  /\ [row EXCEPT !.active = FALSE] \in PolicyRow
         /\ [row EXCEPT !.active = FALSE].active = FALSE
         /\ [row EXCEPT !.active = FALSE].kind = row.kind
         /\ row.kind = "redaction" =>
              /\ [row EXCEPT !.active = FALSE].target = row.target
              /\ [row EXCEPT !.active = FALSE].min = row.min
         /\ row.kind = "source" => [row EXCEPT !.active = FALSE].name = row.name
<1>1. CASE row \in [kind : {"redaction"}, target : Target, min : Tier, active : BOOLEAN]
  BY <1>1 DEF PolicyRow
<1>2. CASE row \in [kind : {"retention"}, active : BOOLEAN]
  BY <1>2 DEF PolicyRow
<1>3. CASE row \in [kind : {"source"}, name : Name, active : BOOLEAN]
  BY <1>3 DEF PolicyRow
<1> QED
  BY <1>1, <1>2, <1>3 DEF PolicyRow

LEMMA NewRows ==
  /\ \A t \in Target, tier \in Tier : /\ Redaction(t, tier) \in PolicyRow
                                      /\ Redaction(t, tier).active = TRUE
                                      /\ Redaction(t, tier).kind = "redaction"
  /\ Retention \in PolicyRow /\ Retention.active = TRUE /\ Retention.kind = "retention"
  /\ \A n \in Name : /\ Source(n) \in PolicyRow /\ Source(n).active = TRUE
                     /\ Source(n).kind = "source" /\ Source(n).name = n
BY DEF Redaction, Retention, Source, PolicyRow

LEMMA Registries ==
  ASSUME PoliciesTypeOK
  PROVE  /\ DOMAIN deactivated = PolicyId
         /\ \A p \in PolicyId : policies[p] \in PolicyRow /\ deactivated[p] \in Nat
         /\ \A d \in Desk : AtDesk(d, "register") => desk[d].name \in Name
         /\ \A d \in Desk : AtDesk(d, "deactivate") => desk[d].policy \in PolicyId
<1>1. /\ DOMAIN deactivated = PolicyId
      /\ \A p \in PolicyId : policies[p] \in PolicyRow /\ deactivated[p] \in Nat
  BY Rows DEF PoliciesTypeOK, PolicyId
<1>2. ASSUME NEW d \in Desk
      PROVE  /\ AtDesk(d, "register") => desk[d].name \in Name
             /\ AtDesk(d, "deactivate") => desk[d].policy \in PolicyId
  BY DEF PoliciesTypeOK, DeskTask, AtDesk
<1> QED
  BY <1>1, <1>2

(* What a step of an administrator's request can do to the tables.         *)
Inserted(row) ==
  /\ policies' = Append(policies, row) /\ deactivated' = Append(deactivated, 0)
  /\ UNCHANGED twice

(* An insertion: the row is new and active.                                *)
LEMMA RowInserted ==
  ASSUME PoliciesTypeOK, NEW row \in PolicyRow, Inserted(row), NEW n, n = Len(policies) + 1
  PROVE  /\ policies' \in Seq(PolicyRow) /\ deactivated' \in Seq(Nat)
         /\ Len(deactivated') = Len(policies')
         /\ PolicyId' = PolicyId \cup {n} /\ n \notin PolicyId
         /\ policies'[n] = row /\ deactivated'[n] = 0
         /\ \A p \in PolicyId : policies'[p] = policies[p] /\ deactivated'[p] = deactivated[p]
<1>1. /\ policies' \in Seq(PolicyRow) /\ Len(policies') = Len(policies) + 1
      /\ PolicyId' = PolicyId \cup {n} /\ n \notin PolicyId
      /\ policies'[n] = row /\ \A p \in PolicyId : policies'[p] = policies[p]
  BY Appended DEF PoliciesTypeOK, PolicyId, Inserted
<1>2. 0 \in Nat /\ Len(deactivated) + 1 = n
  BY DEF PoliciesTypeOK
<1>3. deactivated' = Append(deactivated, 0)
  BY DEF Inserted
<1>4. /\ deactivated' \in Seq(Nat) /\ Len(deactivated') = Len(deactivated) + 1
      /\ deactivated'[n] = 0 /\ \A p \in PolicyId : deactivated'[p] = deactivated[p]
  BY <1>2, <1>3, Appended, Registries DEF PoliciesTypeOK
<1> QED
  BY <1>1, <1>2, <1>4 DEF PoliciesTypeOK

(* A deactivation: the row stays, and is counted once more.                *)
LEMMA RowDeactivated ==
  ASSUME PoliciesTypeOK, NEW d \in Desk, WriteDeactivation(d), NEW p, p = desk[d].policy
  PROVE  /\ p \in PolicyId /\ policies[p] \in PolicyRow
         /\ policies' \in Seq(PolicyRow) /\ deactivated' \in Seq(Nat)
         /\ Len(deactivated') = Len(policies') /\ PolicyId' = PolicyId
         /\ policies'[p] = [policies[p] EXCEPT !.active = FALSE]
         /\ deactivated'[p] = deactivated[p] + 1
         /\ \A q \in PolicyId : q # p => /\ policies'[q] = policies[q]
                                         /\ deactivated'[q] = deactivated[q]
<1>1. p \in PolicyId /\ policies[p] \in PolicyRow /\ deactivated[p] \in Nat
  BY Registries DEF WriteDeactivation
<1>2. PICK row : row = [policies[p] EXCEPT !.active = FALSE]
  OBVIOUS
<1>3. row \in PolicyRow
  BY <1>1, <1>2, Deactivated
<1>4. policies' = [policies EXCEPT ![p] = row]
  BY <1>2 DEF WriteDeactivation
<1>5. PICK k : k = deactivated[p] + 1
  OBVIOUS
<1>6. k \in Nat /\ deactivated' = [deactivated EXCEPT ![p] = k]
  BY <1>1, <1>5 DEF WriteDeactivation
<1>7. /\ policies' \in Seq(PolicyRow) /\ Len(policies') = Len(policies)
      /\ PolicyId' = PolicyId /\ policies'[p] = row
      /\ \A q \in PolicyId : q # p => policies'[q] = policies[q]
  BY <1>1, <1>3, <1>4, Updated DEF PoliciesTypeOK, PolicyId
<1>8. p \in DOMAIN deactivated
  BY <1>1, Registries
<1>9. /\ deactivated' \in Seq(Nat) /\ Len(deactivated') = Len(deactivated)
      /\ deactivated'[p] = k
      /\ \A q \in DOMAIN deactivated : q # p => deactivated'[q] = deactivated[q]
  BY <1>6, <1>8, Updated DEF PoliciesTypeOK
<1> QED
  BY <1>1, <1>2, <1>5, <1>7, <1>9, Registries DEF PoliciesTypeOK

(* The three kinds of step: a row is inserted, a request goes on without   *)
(* touching a row, a row is deactivated.                                   *)
Freed == desk' = desk \/ \E d \in Desk : desk' = [desk EXCEPT ![d] = Idle]

NewTask(t) ==
  \/ t = Idle
  \/ t \in DeskTask /\ t.op = "register"
  \/ t \in DeskTask /\ t.op = "deactivate" /\ policies[t.policy].active

LEMMA DeskCases ==
  ASSUME PoliciesTypeOK, DeskNext
  PROVE  \/ \E row \in PolicyRow :
              /\ Inserted(row) /\ Freed /\ row.active = TRUE
              /\ row.kind = "source" => NameFree(row.name)
         \/ /\ UNCHANGED <<policies, deactivated, twice>>
            /\ \E d \in Desk : \E t : NewTask(t) /\ desk' = [desk EXCEPT ![d] = t]
         \/ \E d \in Desk : WriteDeactivation(d)
<1>1. ASSUME NEW t \in Target, NEW tier \in Tier, CreatePolicy(t, tier)
      PROVE  \E row \in PolicyRow : /\ Inserted(row) /\ Freed /\ row.active = TRUE
                                    /\ row.kind = "source" => NameFree(row.name)
  <2>1. PICK row : row = Redaction(t, tier)
    OBVIOUS
  <2>2. row \in PolicyRow /\ row.active = TRUE /\ row.kind = "redaction"
    BY <2>1, NewRows
  <2> QED
    BY <1>1, <2>1, <2>2 DEF CreatePolicy, Insert, Inserted, Freed
<1>2. ASSUME CreateRetention
      PROVE  \E row \in PolicyRow : /\ Inserted(row) /\ Freed /\ row.active = TRUE
                                    /\ row.kind = "source" => NameFree(row.name)
  <2>1. PICK row : row = Retention
    OBVIOUS
  <2>2. row \in PolicyRow /\ row.active = TRUE /\ row.kind = "retention"
    BY <2>1, NewRows
  <2> QED
    BY <1>2, <2>1, <2>2 DEF CreateRetention, Insert, Inserted, Freed
<1>3. ASSUME NEW d \in Desk, Register(d)
      PROVE  \E row \in PolicyRow : /\ Inserted(row) /\ Freed /\ row.active = TRUE
                                    /\ row.kind = "source" => NameFree(row.name)
  <2>1. PICK n : n = desk[d].name
    OBVIOUS
  <2>2. n \in Name /\ NameFree(n)
    BY <1>3, <2>1, Registries DEF Register, Registrable
  <2>3. PICK row : row = Source(n)
    OBVIOUS
  <2>4. row \in PolicyRow /\ row.active = TRUE /\ row.name = n
    BY <2>2, <2>3, NewRows
  <2> QED
    BY <1>3, <2>1, <2>2, <2>3, <2>4 DEF Register, Insert, Inserted, EndDesk, Freed
<1>4. ASSUME NEW d \in Desk, NEW n \in Name, BeginRegister(d, n)
      PROVE  /\ UNCHANGED <<policies, deactivated, twice>>
             /\ \E t : NewTask(t) /\ desk' = [desk EXCEPT ![d] = t]
  <2>1. PICK t : t = [op |-> "register", name |-> n]
    OBVIOUS
  <2>2. NewTask(t)
    BY <2>1 DEF NewTask, DeskTask
  <2> QED
    BY <1>4, <2>1, <2>2 DEF BeginRegister
<1>5. ASSUME NEW d \in Desk, NEW p \in PolicyId, BeginDeactivate(d, p)
      PROVE  /\ UNCHANGED <<policies, deactivated, twice>>
             /\ \E t : NewTask(t) /\ desk' = [desk EXCEPT ![d] = t]
  <2>1. PICK t : t = [op |-> "deactivate", policy |-> p]
    OBVIOUS
  <2>2. t \in DeskTask /\ t.op = "deactivate" /\ t.policy = p
    BY <2>1 DEF DeskTask
  <2>3. NewTask(t)
    BY <1>5, <2>2 DEF NewTask, BeginDeactivate, Deactivatable
  <2> QED
    BY <1>5, <2>1, <2>3 DEF BeginDeactivate
<1>6. ASSUME NEW d \in Desk, FailDesk(d)
      PROVE  /\ UNCHANGED <<policies, deactivated, twice>>
             /\ \E t : NewTask(t) /\ desk' = [desk EXCEPT ![d] = t]
  BY <1>6 DEF FailDesk, EndDesk, NewTask
<1>7. CASE \/ \E t \in Target, tier \in Tier : CreatePolicy(t, tier)
           \/ CreateRetention
           \/ \E d \in Desk : Register(d)
  <2>1. \E row \in PolicyRow : /\ Inserted(row) /\ Freed /\ row.active = TRUE
                               /\ row.kind = "source" => NameFree(row.name)
    BY <1>1, <1>2, <1>3, <1>7
  <2> QED
    BY <2>1
<1>8. CASE \E d \in Desk : \/ \E n \in Name : BeginRegister(d, n)
                           \/ \E p \in PolicyId : BeginDeactivate(d, p)
                           \/ FailDesk(d)
  <2>1. PICK d \in Desk : \/ \E n \in Name : BeginRegister(d, n)
                          \/ \E p \in PolicyId : BeginDeactivate(d, p)
                          \/ FailDesk(d)
    BY <1>8
  <2>2. /\ UNCHANGED <<policies, deactivated, twice>>
        /\ \E t : NewTask(t) /\ desk' = [desk EXCEPT ![d] = t]
    BY <1>4, <1>5, <1>6, <2>1
  <2> QED
    BY <2>2
<1> QED
  BY <1>7, <1>8 DEF DeskNext

LEMMA PoliciesTypes ==
  ASSUME PoliciesTypeOK, DeskNext
  PROVE  PoliciesTypeOK'
<1>1. ASSUME NEW row \in PolicyRow, Inserted(row), Freed
      PROVE  PoliciesTypeOK'
  <2>1. PICK n : n = Len(policies) + 1
    OBVIOUS
  <2>2. /\ policies' \in Seq(PolicyRow) /\ deactivated' \in Seq(Nat)
        /\ Len(deactivated') = Len(policies') /\ PolicyId \subseteq PolicyId'
    BY <1>1, <2>1, RowInserted
  <2>3. desk \in [Desk -> DeskTask' \cup {Idle}]
    BY <2>2 DEF PoliciesTypeOK, DeskTask
  <2>4. desk' \in [Desk -> DeskTask' \cup {Idle}]
    BY <1>1, <2>3 DEF Freed
  <2>5. twice' \subseteq PolicyId'
    BY <1>1, <2>2 DEF Inserted, PoliciesTypeOK
  <2> QED
    BY <2>2, <2>4, <2>5 DEF PoliciesTypeOK, PolicyRow
<1>2. ASSUME UNCHANGED <<policies, deactivated, twice>>,
             NEW d \in Desk, NEW t, NewTask(t), desk' = [desk EXCEPT ![d] = t]
      PROVE  PoliciesTypeOK'
  <2>1. t \in DeskTask \cup {Idle}
    BY <1>2 DEF NewTask
  <2>2. desk' \in [Desk -> DeskTask \cup {Idle}]
    BY <1>2, <2>1 DEF PoliciesTypeOK
  <2>3. PolicyId' = PolicyId /\ DeskTask' = DeskTask
    BY <1>2 DEF PolicyId, DeskTask
  <2> QED
    BY <1>2, <2>2, <2>3 DEF PoliciesTypeOK, PolicyRow
<1>3. ASSUME NEW d \in Desk, WriteDeactivation(d)
      PROVE  PoliciesTypeOK'
  <2>1. PICK p : p = desk[d].policy
    OBVIOUS
  <2>2. /\ policies' \in Seq(PolicyRow) /\ deactivated' \in Seq(Nat)
        /\ Len(deactivated') = Len(policies') /\ PolicyId' = PolicyId /\ p \in PolicyId
    BY <1>3, <2>1, RowDeactivated
  <2>3. twice' \subseteq PolicyId'
    BY <1>3, <2>1, <2>2 DEF WriteDeactivation, PoliciesTypeOK
  <2>4. desk' \in [Desk -> DeskTask \cup {Idle}] /\ DeskTask' = DeskTask
    BY <1>3, <2>2 DEF WriteDeactivation, EndDesk, PoliciesTypeOK, DeskTask
  <2> QED
    BY <2>2, <2>3, <2>4 DEF PoliciesTypeOK, PolicyRow
<1> QED
  BY <1>1, <1>2, <1>3, DeskCases

(* What a policy masks never changes, nor does what a row is.              *)
LEMMA TablesGrow ==
  ASSUME PoliciesTypeOK, DeskNext
  PROVE  /\ PolicyId \subseteq PolicyId'
         /\ \A p \in PolicyId :
              /\ policies'[p].kind = policies[p].kind
              /\ policies[p].kind = "redaction" =>
                   policies'[p].target = policies[p].target /\ policies'[p].min = policies[p].min
<1>1. ASSUME NEW row \in PolicyRow, Inserted(row)
      PROVE  PolicyId \subseteq PolicyId' /\ \A p \in PolicyId : policies'[p] = policies[p]
  <2>1. PICK n : n = Len(policies) + 1
    OBVIOUS
  <2> QED
    BY <1>1, <2>1, RowInserted
<1>2. ASSUME UNCHANGED policies
      PROVE  PolicyId \subseteq PolicyId' /\ \A p \in PolicyId : policies'[p] = policies[p]
  BY <1>2 DEF PolicyId
<1>3. ASSUME NEW d \in Desk, WriteDeactivation(d), NEW p \in PolicyId
      PROVE  /\ PolicyId' = PolicyId /\ policies'[p].kind = policies[p].kind
             /\ policies[p].kind = "redaction" =>
                  policies'[p].target = policies[p].target /\ policies'[p].min = policies[p].min
  <2>1. PICK q : q = desk[d].policy
    OBVIOUS
  <2>2. /\ policies[q] \in PolicyRow /\ PolicyId' = PolicyId
        /\ policies'[q] = [policies[q] EXCEPT !.active = FALSE]
        /\ \A r \in PolicyId : r # q => policies'[r] = policies[r]
    BY <1>3, <2>1, RowDeactivated
  <2>3. CASE p = q
    BY <2>2, <2>3, Deactivated
  <2>4. CASE p # q
    BY <2>2, <2>4
  <2> QED
    BY <2>3, <2>4
<1>4. ASSUME NEW d \in Desk, WriteDeactivation(d)
      PROVE  PolicyId' = PolicyId
  <2>1. PICK q : q = desk[d].policy
    OBVIOUS
  <2> QED
    BY <1>4, <2>1, RowDeactivated
<1> QED
  BY <1>1, <1>2, <1>3, <1>4, DeskCases

-----------------------------------------------------------------------------
(* The registry and its audit log                                          *)

LEMMA RegistryInserted ==
  ASSUME PoliciesTypeOK, RegistryInv, NEW row \in PolicyRow, Inserted(row), Freed,
         row.active = TRUE, row.kind = "source" => NameFree(row.name)
  PROVE  RegistryInv'
<1>1. PICK n : n = Len(policies) + 1
  OBVIOUS
<1>2. /\ PolicyId' = PolicyId \cup {n} /\ n \notin PolicyId
      /\ policies'[n] = row /\ deactivated'[n] = 0
      /\ \A p \in PolicyId : policies'[p] = policies[p] /\ deactivated'[p] = deactivated[p]
  BY <1>1, RowInserted
<1>3. UNCHANGED twice
  BY DEF Inserted
<1>4. \A p \in PolicyId' : /\ policies'[p].active = (deactivated'[p] = 0)
                           /\ deactivated'[p] <= 1 \/ p \in twice'
  <2>1. policies'[n].active = TRUE /\ (deactivated'[n] = 0) = TRUE
    BY <1>2
  <2>2. policies'[n].active = (deactivated'[n] = 0)
    BY <2>1, Zenon
  <2>3. deactivated'[n] <= 1
    BY <1>2
  <2>4. ASSUME NEW p \in PolicyId
        PROVE  /\ policies'[p].active = (deactivated'[p] = 0)
               /\ deactivated'[p] <= 1 \/ p \in twice'
    BY <1>2, <1>3, <2>4 DEF RegistryInv, RegistryAccounted
  <2> QED
    BY <1>2, <2>2, <2>3, <2>4, Zenon
<1>5. \A p, q \in PolicyId' :
        (/\ policies'[p].kind = "source" /\ policies'[q].kind = "source"
         /\ policies'[p].name = policies'[q].name) => p = q
  BY <1>2 DEF RegistryInv, RegistryAccounted, NameFree
<1>6. ASSUME NEW d \in Desk
      PROVE  Fresh(d)'
  <2>1. CASE desk'[d] = desk[d]
    <3>1. Fresh(d) /\ (AtDesk(d, "deactivate") => desk[d].policy \in PolicyId)
      BY Registries DEF RegistryInv
    <3> QED
      BY <1>2, <1>3, <2>1, <3>1 DEF Fresh, AtDesk
  <2>2. CASE desk'[d] = Idle
    BY <2>2 DEF Fresh, AtDesk
  <2> QED
    BY <2>1, <2>2 DEF Freed, PoliciesTypeOK
<1> QED
  BY <1>4, <1>5, <1>6 DEF RegistryInv, RegistryAccounted

LEMMA RegistryTask ==
  ASSUME PoliciesTypeOK, RegistryInv, UNCHANGED <<policies, deactivated, twice>>,
         NEW d \in Desk, NEW t, NewTask(t), desk' = [desk EXCEPT ![d] = t]
  PROVE  RegistryInv'
<1>1. RegistryAccounted'
  BY DEF RegistryInv, RegistryAccounted, PolicyId
<1>2. ASSUME NEW e \in Desk
      PROVE  Fresh(e)'
  <2>1. CASE e # d
    <3>1. desk'[e] = desk[e] /\ Fresh(e)
      BY <2>1 DEF PoliciesTypeOK, RegistryInv
    <3> QED
      BY <3>1 DEF Fresh, AtDesk
  <2>2. CASE e = d
    <3>1. desk'[e] = t
      BY <2>2 DEF PoliciesTypeOK
    <3>2. CASE t # Idle /\ t.op = "deactivate"
      <4>1. t.policy \in PolicyId /\ policies[t.policy].active
        BY <3>2 DEF NewTask, DeskTask
      <4>2. deactivated[t.policy] = 0
        BY <4>1 DEF RegistryInv, RegistryAccounted
      <4> QED
        BY <3>1, <4>2 DEF Fresh
    <3> QED
      BY <3>1, <3>2 DEF Fresh, AtDesk
  <2> QED
    BY <2>1, <2>2
<1> QED
  BY <1>1, <1>2 DEF RegistryInv

(* Two requests that overlap deactivate a row twice; one alone finds it as *)
(* it was when it began.                                                   *)
LEMMA RegistryDeactivated ==
  ASSUME PoliciesTypeOK, RegistryInv, NEW d \in Desk, WriteDeactivation(d)
  PROVE  RegistryInv'
<1>1. PICK p : p = desk[d].policy
  OBVIOUS
<1>2. /\ p \in PolicyId /\ policies[p] \in PolicyRow /\ PolicyId' = PolicyId
      /\ policies'[p] = [policies[p] EXCEPT !.active = FALSE]
      /\ deactivated'[p] = deactivated[p] + 1
      /\ \A q \in PolicyId : q # p => /\ policies'[q] = policies[q]
                                      /\ deactivated'[q] = deactivated[q]
  BY <1>1, RowDeactivated
<1>3. /\ policies'[p].active = FALSE /\ policies'[p].kind = policies[p].kind
      /\ policies[p].kind = "source" => policies'[p].name = policies[p].name
  BY <1>2, Deactivated
<1>4. /\ AtDesk(d, "deactivate") /\ desk' = [desk EXCEPT ![d] = Idle]
      /\ twice' = IF Contended(d, p) THEN twice \cup {p} ELSE twice
  BY <1>1 DEF WriteDeactivation, EndDesk
<1>5. deactivated[p] \in Nat /\ (deactivated[p] = 0 \/ p \in twice)
  BY <1>1, <1>2, <1>4, Registries DEF RegistryInv, Fresh
<1>6. \A q \in PolicyId' : /\ policies'[q].active = (deactivated'[q] = 0)
                           /\ deactivated'[q] <= 1 \/ q \in twice'
  <2>0. policies'[p].active = FALSE /\ (deactivated'[p] = 0) = FALSE
    BY <1>2, <1>3, <1>5
  <2>1. policies'[p].active = (deactivated'[p] = 0)
    BY <2>0, Zenon
  <2>2. deactivated'[p] <= 1 \/ p \in twice'
    BY <1>2, <1>4, <1>5
  <2>3. ASSUME NEW q \in PolicyId, q # p
        PROVE  /\ policies'[q].active = (deactivated'[q] = 0)
               /\ deactivated'[q] <= 1 \/ q \in twice'
    BY <1>2, <1>4, <2>3 DEF RegistryInv, RegistryAccounted
  <2> QED
    BY <1>2, <2>1, <2>2, <2>3
<1>7. \A q, r \in PolicyId' :
        (/\ policies'[q].kind = "source" /\ policies'[r].kind = "source"
         /\ policies'[q].name = policies'[r].name) => q = r
  <2>1. ASSUME NEW q \in PolicyId
        PROVE  /\ policies'[q].kind = policies[q].kind
               /\ policies[q].kind = "source" => policies'[q].name = policies[q].name
    <3>1. CASE q = p
      BY <1>3, <3>1
    <3>2. CASE q # p
      BY <1>2, <3>2
    <3> QED
      BY <3>1, <3>2
  <2> QED
    BY <1>2, <2>1 DEF RegistryInv, RegistryAccounted
<1>8. ASSUME NEW e \in Desk
      PROVE  Fresh(e)'
  <2>1. CASE e = d
    <3>1. desk'[e] = Idle
      BY <1>4, <2>1 DEF PoliciesTypeOK
    <3> QED
      BY <3>1 DEF Fresh, AtDesk
  <2>2. CASE e # d
    <3>1. desk'[e] = desk[e] /\ Fresh(e)
      BY <1>4, <2>2 DEF PoliciesTypeOK, RegistryInv
    <3>2. AtDesk(e, "deactivate") => desk[e].policy \in PolicyId
      BY Registries
    <3>3. AtDesk(e, "deactivate") /\ desk[e].policy = p => p \in twice'
      BY <1>4, <2>2 DEF Contended
    <3>4. twice \subseteq twice'
      BY <1>4
    <3> QED
      BY <1>2, <3>1, <3>2, <3>3, <3>4 DEF Fresh, AtDesk
  <2> QED
    BY <2>1, <2>2
<1> QED
  BY <1>6, <1>7, <1>8 DEF RegistryInv, RegistryAccounted

LEMMA RegistryNext ==
  ASSUME PoliciesTypeOK, RegistryInv, DeskNext
  PROVE  RegistryInv'
BY DeskCases, RegistryInserted, RegistryTask, RegistryDeactivated

LEMMA RegistrySame ==
  ASSUME RegistryInv, UNCHANGED policyVars
  PROVE  RegistryInv'
BY DEF RegistryInv, RegistryAccounted, Fresh, AtDesk, PolicyId, policyVars

-----------------------------------------------------------------------------
(* The chain of command                                                    *)

(* The reports of the officer and of its subordinates are subordinates.    *)
LEMMA ReportsAreBelow ==
  ASSUME NEW m, NEW r, NEW q \in Officer, Below(m, r, m[q])
  PROVE  Below(m, r, q)
BY DEF Below, Subordinates, ClosedDown

(* Fewer lines, fewer subordinates.                                        *)
LEMMA FewerLines ==
  ASSUME NEW m, NEW n, \A q \in Officer : n[q] \in Officer => n[q] = m[q],
         NEW r, NEW q, Below(n, r, q)
  PROVE  Below(m, r, q)
<1>1. ASSUME NEW S \in SUBSET Officer, ClosedDown(m, S)
      PROVE  ClosedDown(n, S)
  BY <1>1 DEF ClosedDown
<1> QED
  BY <1>1 DEF Below, Subordinates

(* Subordinates of subordinates are subordinates.                          *)
LEMMA BelowBelow ==
  ASSUME NEW m, NEW r, NEW o, NEW q, Below(m, r, o), Below(m, o, q)
  PROVE  Below(m, r, q)
BY DEF Below, Subordinates

LEMMA Lines ==
  ASSUME TypeOK, NEW o
  PROVE  /\ \A q \in Officer : q # o => Without(o)[q] = manager[q]
         /\ \A q \in Officer : Without(o)[q] \in Officer => Without(o)[q] = manager[q]
         /\ \A r, q : Below(Without(o), r, q) => Below(manager, r, q)
<1>1. manager \in [Officer -> Officer \cup {Nobody}] /\ Nobody \notin Officer
  BY OfficerAssumption DEF TypeOK
<1>2. \A q \in Officer : q # o => Without(o)[q] = manager[q]
  BY <1>1 DEF Without
<1>3. \A q \in Officer : Without(o)[q] \in Officer => Without(o)[q] = manager[q]
  BY <1>1, <1>2 DEF Without
<1>4. ASSUME NEW r, NEW q, Below(Without(o), r, q)
      PROVE  Below(manager, r, q)
  <2>1. PICK n : n = Without(o)
    OBVIOUS
  <2> QED
    BY <1>3, <1>4, <2>1, FewerLines
<1> QED
  BY <1>2, <1>3, <1>4

(* A subordinate's notes for the chain of command are open to a supervisor.*)
LEMMA SubordinatesShown ==
  ASSUME TypeOK, HistoryInv, NotesInv, Underway, Role[reader.by] = "SUPERVISOR",
         NEW q, q # reader.by, Below(manager, reader.by, q)
  PROVE  Shown(q)
<1>1. q \in Subordinates(manager, reader.by)
  BY DEF Below
<1>2. /\ reader # Idle /\ reader.rows \subseteq NoteId
      /\ Readable(reader.by) \subseteq entitled
  BY DEF Underway, TypeOK, Request, HistoryInv
<1> QED
  BY <1>1, <1>2 DEF Shown, NotesInv, Readable, TierRows, NoteVisible

(* One level: a report of somebody found before is found.                  *)
LEMMA LevelFound ==
  ASSUME TypeOK, HistoryInv, NotesInv, At("search"), SearchInv,
         NEW o \in Officer, moved \subseteq {o}, NEW q \in NewIds(reader)
  PROVE  /\ q \in Officer /\ q # reader.by /\ q \notin reader.found
         /\ \/ Below(Without(o), reader.by, q)
            \/ o \in reader.found \cup {q} /\ Below(Without(o), o, q)
         /\ q = o => \A x \in Officer :
                       (x # reader.by /\ Below(Without(o), o, x)) => Shown(x)
<1>1. /\ q \in Officer /\ q # reader.by /\ q \notin reader.found
      /\ manager[q] \in reader.frontier
  BY DEF NewIds
<1>2. /\ reader # Idle /\ FoundUnder(o) /\ Role[reader.by] = "SUPERVISOR" /\ Underway
      /\ manager[q] \in reader.found \cup {reader.by}
  BY <1>1 DEF SearchInv, At, Underway
<1>3. PICK p : p = manager[q]
  OBVIOUS
<1>4. \/ Below(Without(o), reader.by, p)
      \/ o \in reader.found /\ Below(Without(o), o, p)
  BY <1>2, <1>3 DEF FoundUnder, Below
<1>5. CASE q # o
  <2>1. Without(o)[q] = p
    BY <1>1, <1>3, <1>5, Lines
  <2> QED
    BY <1>1, <1>4, <1>5, <2>1, ReportsAreBelow
<1>6. CASE q = o
  <2>1. Below(manager, reader.by, p)
    BY <1>1, <1>4, <1>6, Lines
  <2>2. Below(manager, reader.by, o)
    BY <1>1, <1>3, <1>6, <2>1, ReportsAreBelow
  <2>3. ASSUME NEW x \in Officer, x # reader.by, Below(Without(o), o, x)
        PROVE  Shown(x)
    <3>1. Below(manager, o, x)
      BY <2>3, Lines
    <3>2. Below(manager, reader.by, x)
      BY <2>2, <3>1, BelowBelow
    <3> QED
      BY <1>2, <2>3, <3>2, SubordinatesShown
  <2> QED
    BY <1>1, <1>6, <2>3 DEF Below
<1> QED
  BY <1>5, <1>6

(* All that a search has found the reader could see the notes of.          *)
LEMMA FoundShown ==
  ASSUME TypeOK, HistoryInv, NotesInv, Underway, Role[reader.by] = "SUPERVISOR",
         NEW o \in Officer, NEW F, reader.by \notin F, F \subseteq Officer,
         \A q \in F : Below(Without(o), reader.by, q) \/ (o \in F /\ Below(Without(o), o, q)),
         o \in F => \A q \in Officer :
                      (q # reader.by /\ Below(Without(o), o, q)) => Shown(q),
         NEW q \in F
  PROVE  Shown(q)
<1>1. CASE Below(Without(o), reader.by, q)
  BY <1>1, Lines, SubordinatesShown
<1>2. CASE o \in F /\ Below(Without(o), o, q)
  BY <1>2
<1> QED
  BY <1>1, <1>2

-----------------------------------------------------------------------------
(* Notes and documents                                                     *)

Note == [author : Officer, visibility : Visibility, tier : Tier]

(* Notes are filed, never changed or removed.                              *)
NotesGrow == NoteId \subseteq NoteId' /\ \A i \in NoteId : notes'[i] = notes[i]

LEMMA NotesAre ==
  ASSUME TypeOK, NEW i \in NoteId
  PROVE  notes[i] \in Note
BY Rows DEF TypeOK, NoteId, Note

LEMMA Items ==
  ASSUME NEW item \in Item
  PROVE  /\ item[1] = "note" => item[2] \in NoteId /\ item = <<"note", item[2]>>
         /\ item[1] # "note" => item \in {<<"case", 0>>, <<"entity", 0>>}
BY DEF Item

LEMMA ItemsKept ==
  ASSUME NotesGrow
  PROVE  /\ Item \subseteq Item' /\ Request \subseteq Request'
         /\ \A item \in Item : TierOf(item)' = TierOf(item)
<1>1. Item \subseteq Item' /\ Entry \subseteq Entry'
  <2>1. Item \subseteq Item'
    BY DEF NotesGrow, Item
  <2> QED
    BY <2>1 DEF Entry
<1>2. ASSUME NEW r \in Request
      PROVE  r \in Request'
  BY <1>1 DEF NotesGrow, Request
<1>3. ASSUME NEW item \in Item
      PROVE  TierOf(item)' = TierOf(item)
  BY Items DEF NotesGrow, TierOf
<1> QED
  BY <1>1, <1>2, <1>3

LEMMA TiersAre ==
  ASSUME TypeOK, NEW item \in Item
  PROVE  TierOf(item) \in Tier
BY Items, NotesAre, OfficerAssumption DEF TierOf, Note

(* What an officer may read are notes.                                     *)
LEMMA ReadableAre == \A o : Readable(o) \subseteq NoteId
BY DEF Readable, TierRows

LEMMA ReadableSame ==
  ASSUME UNCHANGED <<notes, team, manager>>
  PROVE  \A o \in Officer : Readable(o)' = Readable(o)
<1>1. NoteId' = NoteId /\ ActiveTeam' = ActiveTeam
  BY DEF NoteId, ActiveTeam
<1>2. \A o : TierRows(o)' = TierRows(o)
  BY <1>1 DEF TierRows
<1>3. \A o : Subordinates(manager, o)' = Subordinates(manager, o)
  BY DEF Subordinates, ClosedDown
<1> QED
  BY <1>1, <1>2, <1>3 DEF Readable, NoteVisible

LEMMA NotesOfItems ==
  ASSUME NEW items \in SUBSET Item, NEW i \in NotesOf(items)
  PROVE  i \in NoteId
BY Items DEF NotesOf

LEMMA NotesCounted ==
  ASSUME TypeOK, NEW items \in SUBSET Item
  PROVE  Cardinality(NotesOf(items)) \in Nat
<1>1. NoteId = 1..Len(notes) /\ Len(notes) \in Nat
  BY Rows DEF TypeOK, NoteId
<1>2. NotesOf(items) \subseteq NoteId
  BY NotesOfItems
<1>3. IsFiniteSet(NoteId)
  BY <1>1, FS_Interval
<1> QED
  BY <1>2, <1>3, FS_Subset, FS_CardinalityType

(* A reader's decision is about the notes it selected.                     *)
LEMMA DecidedItems ==
  ASSUME TypeOK, reader # Idle
  PROVE  /\ reader \in Request /\ Decided(reader) \subseteq Item
         /\ \A item \in Decided(reader) : item[1] = "note" /\ item[2] \in reader.rows
<1>1. reader \in Request /\ reader.rows \subseteq NoteId
  BY DEF TypeOK, Request
<1> QED
  BY <1>1 DEF Decided, Item

(* A note passes because of what never changes, because of a membership    *)
(* that held when the note was there already, or because its author was    *)
(* found.                                                                  *)
LEMMA DecidedPass ==
  ASSUME TypeOK, HistoryInv, NotesInv, SearchInv, At("visible")
  PROVE  \A i \in NotesOf(Decided(reader)) : Passes(i)
<1>1. /\ reader # Idle /\ reader \in Request /\ reader.rows \subseteq NoteId
      /\ Readable(reader.by) \subseteq entitled
  BY DEF At, TypeOK, Request, HistoryInv, Underway
<1>2. ASSUME NEW j \in reader.rows,
             NoteVisible(notes[j], reader.by, reader.members, reader.found)
      PROVE  Passes(j)
  <2>1. CASE notes[j].visibility = "case_team" /\ reader.by \in reader.members
    BY <1>1, <2>1 DEF NotesInv, Passes
  <2>2. CASE /\ notes[j].visibility = "supervisory_chain" /\ Role[reader.by] = "SUPERVISOR"
             /\ notes[j].author \in reader.found
    BY <1>1, <2>2 DEF SearchInv, Shown, Passes
  <2>3. CASE NoteVisible(notes[j], reader.by, ActiveTeam, Subordinates(manager, reader.by))
    <3>1. notes[j].tier <= Clearance[reader.by]
      BY <1>1 DEF NotesInv
    <3> QED
      BY <1>1, <2>3, <3>1 DEF Readable, TierRows, Passes
  <2> QED
    BY <1>2, <2>1, <2>2, <2>3 DEF NoteVisible
<1> QED
  BY <1>2 DEF NotesOf, Decided

(* The label of an export lies between what it covers and the clearance of *)
(* the officer all of it is open to.                                       *)
LEMMA HighestTier ==
  ASSUME TypeOK, NEW items \in SUBSET Item, NEW o \in Officer,
         \A item \in items : TierOf(item) <= Clearance[o]
  PROVE  /\ Highest(items) \in Tier /\ Highest(items) <= Clearance[o]
         /\ \A item \in items : TierOf(item) <= Highest(items)
<1>1. PICK T : T = {CaseTier} \cup {TierOf(item) : item \in items}
  OBVIOUS
<1>2. \A item \in items : TierOf(item) \in Tier
  BY TiersAre
<1>3. CaseTier \in Tier /\ CaseTier <= Clearance[o] /\ Clearance[o] \in Nat
  BY OfficerAssumption, TierAssumption
<1>4. T \subseteq Tier /\ T # {} /\ \A t \in T : t <= Clearance[o]
  BY <1>1, <1>2, <1>3
<1>5. PICK m \in T : \A t \in T : t <= m
  <2>1. T \in SUBSET Nat
    BY <1>4, TierAssumption
  <2> QED
    BY <1>3, <1>4, <2>1, Greatest
<1>6. \A item \in items : TierOf(item) <= m /\ CaseTier <= m
  BY <1>1, <1>5
<1>7. Highest(items) = CHOOSE t \in T : \A item \in items : TierOf(item) <= t /\ CaseTier <= t
  BY <1>1 DEF Highest
<1>8. Highest(items) \in T /\ \A item \in items : TierOf(item) <= Highest(items)
  BY <1>6, <1>7
<1> QED
  BY <1>4, <1>8

-----------------------------------------------------------------------------
(* Changes under a reader                                                  *)

Masking == LastingPoliciesMask /\ DocumentsAudited

(* A step that leaves the reader alone and reassigns one officer at most:  *)
(* what the search has found stays explained.                              *)
LEMMA SearchStays ==
  ASSUME IInv, NotesGrow, UNCHANGED reader, Observe,
         UNCHANGED manager \/ \E x \in Officer : \E m :
                                manager' = [manager EXCEPT ![x] = m]
  PROVE  SearchInv' /\ (At("search") \/ UNCHANGED moved)
<1>1. /\ \A stage : At(stage)' = At(stage) /\ Underway' = Underway
      /\ At("search") \/ At("visible") \/ At("notes") \/ At("team") => Underway
  BY DEF At, Underway
<1>2. At("search") => moved' = moved \cup {o \in Officer : manager'[o] # manager[o]}
  BY <1>1 DEF Observe, Underway, At
<1>3. ~At("search") => UNCHANGED moved
  BY DEF Observe, Underway
<1>4. entitled \subseteq entitled'
  BY DEF Observe, Underway
<1>5. reader # Idle => reader.rows \subseteq NoteId
  BY DEF IInv, TypeOK, Request
<1>6. ASSUME NEW q, reader # Idle, Shown(q)
      PROVE  Shown(q)'
  BY <1>4, <1>5, <1>6 DEF Shown, NotesGrow
<1>7. ASSUME At("search"), NEW o \in Officer, moved' \subseteq {o}
      PROVE  FoundUnder(o)'
  <2>1. reader # Idle /\ moved \subseteq {o}
    BY <1>2, <1>7 DEF At
  <2>2. FoundUnder(o)
    BY <1>7, <2>1 DEF IInv, SearchInv
  <2>3. \A x \in Officer : x # o => manager'[x] = manager[x]
    BY <1>2, <1>7
  <2>4. [manager' EXCEPT ![o] = Nobody] = [manager EXCEPT ![o] = Nobody]
    <3>1. manager \in [Officer -> Officer \cup {Nobody}]
      BY DEF IInv, TypeOK
    <3>2. DOMAIN manager' = Officer /\ manager' = [x \in Officer |-> manager'[x]]
      BY <3>1
    <3> QED
      BY <2>3, <3>1, <3>2
  <2>5. Without(o)' = Without(o)
    BY <2>4 DEF Without
  <2>6. \A r, q : Below(Without(o), r, q)' <=> Below(Without(o), r, q)
    BY <2>5 DEF Below, Subordinates, ClosedDown
  <2>7. \A q \in reader.found :
          Below(Without(o)', reader.by, q) \/ (o \in reader.found /\ Below(Without(o)', o, q))
    BY <2>2, <2>5 DEF FoundUnder
  <2>8. o \in reader.found =>
          \A q \in Officer : (q # reader.by /\ Below(Without(o)', o, q)) => Shown(q)'
    BY <1>6, <2>1, <2>2, <2>5 DEF FoundUnder
  <2> QED
    BY <2>7, <2>8 DEF FoundUnder, Below, Subordinates, ClosedDown
<1>8. ASSUME At("visible"), Role[reader.by] = "SUPERVISOR", ~Reshuffled', NEW q \in reader.found
      PROVE  Shown(q)'
  <2>1. ~At("search") /\ reader # Idle
    BY <1>8 DEF At
  <2>2. ~Reshuffled
    BY <1>3, <1>8, <2>1 DEF Reshuffled
  <2> QED
    BY <1>6, <1>8, <2>1, <2>2 DEF IInv, SearchInv
<1>9. At("notes") \/ At("team") => moved' = {}
  BY <1>3 DEF IInv, SearchInv, At
<1> QED
  BY <1>1, <1>3, <1>7, <1>8, <1>9 DEF IInv, SearchInv

(* A reader that takes no step.                                            *)
LEMMA ReaderStays ==
  ASSUME IInv, NotesGrow, UNCHANGED reader, Observe, PoliciesTypeOK',
         \A p \in PolicyId :
           /\ policies'[p].kind = policies[p].kind
           /\ policies[p].kind = "redaction" =>
                policies'[p].target = policies[p].target /\ policies'[p].min = policies[p].min,
         PolicyId \subseteq PolicyId',
         At("search") \/ UNCHANGED moved, SearchInv'
  PROVE  /\ reader' \in Request' \cup {Idle}
         /\ entitled' \subseteq NoteId' /\ lasting' \subseteq PolicyId'
         /\ moved' \subseteq Officer
         /\ HistoryInv' /\ NotesInv' /\ LabelInv' /\ AuditInv' /\ Masking'
<1>1. /\ reader \in Request \cup {Idle} /\ entitled \subseteq NoteId /\ lasting \subseteq PolicyId
      /\ Underway' = Underway /\ Delivered' = Delivered /\ Assembled' = Assembled
      /\ \A stage : At(stage)' = At(stage)
  BY DEF IInv, TypeOK, Underway, Delivered, Assembled, At
<1>2. reader # Idle => /\ reader.rows \subseteq NoteId /\ reader.items \subseteq Item
                       /\ reader \in Request
  BY <1>1 DEF Request
<1>3. Readable(reader.by)' \subseteq NoteId' /\ Active' \subseteq PolicyId'
  BY DEF Readable, TierRows, Active
<1>4. Underway => entitled' = entitled \cup Readable(reader.by)' /\ lasting' = lasting \cap Active'
  BY DEF Observe, Underway
<1>5. ~Underway => entitled' = entitled /\ lasting' = lasting
  BY DEF Observe
<1>6. entitled \subseteq entitled' /\ lasting' \subseteq lasting
  BY <1>4, <1>5
<1>7. entitled' \subseteq NoteId' /\ lasting' \subseteq PolicyId'
  BY <1>1, <1>3, <1>4, <1>5 DEF NotesGrow
<1>8. HistoryInv'
  <2>1. Underway' => Readable(reader.by)' \subseteq entitled' /\ lasting' \subseteq Active'
    BY <1>1 DEF Observe, Underway
  <2>2. \A p \in lasting' : policies'[p].kind = "redaction"
    BY <1>1, <1>6 DEF IInv, HistoryInv
  <2> QED
    BY <2>1, <2>2 DEF HistoryInv
<1>9. NotesInv'
  <2>1. SUFFICES ASSUME reader # Idle
                 PROVE  NotesInv'
    BY DEF NotesInv
  <2>2. \A i \in reader.rows : notes'[i] = notes[i]
    BY <1>2, <2>1 DEF NotesGrow
  <2>3. \A i \in reader.rows : notes'[i].tier <= Clearance[reader.by]
    BY <2>1, <2>2 DEF IInv, NotesInv
  <2>4. ((At("search") \/ At("visible")) /\ reader.by \in reader.members) =>
          \A i \in reader.rows : notes'[i].visibility = "case_team" => i \in entitled'
    BY <1>6, <2>1, <2>2 DEF IInv, NotesInv
  <2>5. ASSUME Assembled, NEW i \in NotesOf(reader.items)
        PROVE  Passes(i)'
    <3>1. notes'[i] = notes[i]
      BY <1>2, <2>1, <2>5, NotesOfItems DEF NotesGrow
    <3>2. Passes(i) /\ (Reshuffled' <=> Reshuffled)
      BY <2>1, <2>5 DEF IInv, NotesInv, Reshuffled, Assembled, At
    <3> QED
      BY <1>6, <3>1, <3>2 DEF Passes
  <2> QED
    BY <1>1, <2>1, <2>3, <2>4, <2>5 DEF NotesInv, NotesOf
<1>10. \A item \in Item : TierOf(item)' = TierOf(item)
  BY ItemsKept
<1>11. LabelInv'
  <2>1. SUFFICES ASSUME Assembled, reader.op = "export"
                 PROVE  /\ \A item \in reader.items : TierOf(item)' <= reader.label
                        /\ reader.label <= Clearance[reader.by]
    BY <1>1 DEF LabelInv
  <2>2. reader.items \subseteq Item
    BY <1>2, <2>1 DEF Assembled, At
  <2> QED
    BY <1>10, <2>1, <2>2 DEF IInv, LabelInv
<1>12. AuditInv'
  BY <1>1 DEF IInv, AuditInv, Names, NotesOf
<1>13. LastingPoliciesMask'
  <2>1. SUFFICES ASSUME Delivered
                 PROVE  LastingPoliciesMask'
    BY <1>1 DEF LastingPoliciesMask
  <2>2. reader.items \subseteq Item /\ lasting \subseteq PolicyId /\ lasting' = lasting
    BY <1>1, <1>2, <1>5, <2>1 DEF Delivered, Underway, Observe
  <2>3. \A p \in lasting :
          policies'[p].target = policies[p].target /\ policies'[p].min = policies[p].min
    BY <2>2 DEF IInv, HistoryInv
  <2>4. ASSUME NEW p \in lasting, NEW item \in reader.items,
               policies'[p].target = item[1], TierOf(item)' >= policies'[p].min
        PROVE  item \in reader.masked
    BY <1>10, <2>1, <2>2, <2>3, <2>4 DEF IInv, LastingPoliciesMask
  <2>5. NotesOf(reader.items) \cap reader.manual \subseteq NotesOf(reader.masked)
    BY <2>1 DEF IInv, LastingPoliciesMask
  <2> QED
    BY <2>2, <2>4, <2>5 DEF LastingPoliciesMask, NotesOf
<1>14. DocumentsAudited'
  BY <1>1 DEF IInv, DocumentsAudited, NotesOf
<1>15. reader' \in Request' \cup {Idle}
  BY <1>1, ItemsKept
<1>16. moved' \subseteq Officer
  BY DEF Observe, IInv, TypeOK
<1> QED
  BY <1>16, <1>7, <1>8, <1>9, <1>11, <1>12, <1>13, <1>14, <1>15 DEF Masking

LEMMA RegistriesStay ==
  ASSUME PoliciesTypeOK, UNCHANGED policyVars
  PROVE  /\ PoliciesTypeOK' /\ UNCHANGED policies
         /\ PolicyId \subseteq PolicyId' /\ Active' = Active
BY DEF PoliciesTypeOK, policyVars, PolicyId, DeskTask, PolicyRow, Active

LEMMA NotesStay ==
  ASSUME UNCHANGED notes
  PROVE  NotesGrow
BY DEF NotesGrow, NoteId

LEMMA ChangesBounded ==
  ASSUME TypeOK, Change \/ UNCHANGED changes
  PROVE  changes' \in 0..MaxChanges
BY BoundAssumption DEF TypeOK, Change

LEMMA NoteAdded ==
  ASSUME IInv, NEW o \in Officer, NEW v \in Visibility, NEW tier \in Tier,
         AddNote(o, v, tier), Observe
  PROVE  IInv'
<1>1. PICK n : n = NewNote(o, v, tier)
  OBVIOUS
<1>2. n \in Note
  BY <1>1 DEF NewNote, Note
<1>3. notes \in Seq(Note) /\ notes' = Append(notes, n)
  BY <1>1 DEF IInv, TypeOK, Note, AddNote
<1>4. notes' \in Seq(Note) /\ NotesGrow
  BY <1>2, <1>3, Appended DEF NotesGrow, NoteId
<1>5. UNCHANGED <<policyVars, team, manager, reader>>
  BY DEF AddNote
<1>6. PoliciesTypeOK' /\ UNCHANGED policies /\ PolicyId \subseteq PolicyId' /\ RegistryInv'
  BY <1>5, RegistriesStay, RegistrySame DEF IInv, TypeOK
<1>7. /\ reader' \in Request' \cup {Idle}
      /\ entitled' \subseteq NoteId' /\ lasting' \subseteq PolicyId' /\ moved' \subseteq Officer
      /\ HistoryInv' /\ SearchInv' /\ NotesInv' /\ LabelInv' /\ AuditInv' /\ Masking'
  BY SearchStays, <1>4, <1>5, <1>6, ReaderStays
<1>8. changes' \in 0..MaxChanges
  BY ChangesBounded DEF AddNote, IInv
<1>9. TypeOK'
  BY <1>4, <1>5, <1>6, <1>7, <1>8 DEF IInv, TypeOK, Note
<1> QED
  BY <1>6, <1>7, <1>9 DEF IInv, Masking

LEMMA TeamChanged ==
  ASSUME IInv, NEW o \in Officer, ChangeTeam(o), Observe
  PROVE  IInv'
<1>1. UNCHANGED <<policyVars, notes, manager, reader>>
  BY DEF ChangeTeam
<1>2. team' \in [Officer -> {"never", "on", "left"}]
  BY DEF IInv, TypeOK, ChangeTeam
<1>3. PoliciesTypeOK' /\ UNCHANGED policies /\ PolicyId \subseteq PolicyId' /\ RegistryInv'
  BY <1>1, RegistriesStay, RegistrySame DEF IInv, TypeOK
<1>4. NotesGrow
  BY <1>1, NotesStay
<1>5. /\ reader' \in Request' \cup {Idle}
      /\ entitled' \subseteq NoteId' /\ lasting' \subseteq PolicyId' /\ moved' \subseteq Officer
      /\ HistoryInv' /\ SearchInv' /\ NotesInv' /\ LabelInv' /\ AuditInv' /\ Masking'
  BY SearchStays, <1>1, <1>3, <1>4, ReaderStays
<1>6. changes' \in 0..MaxChanges
  BY ChangesBounded DEF ChangeTeam, IInv
<1>7. TypeOK'
  BY <1>1, <1>2, <1>3, <1>5, <1>6 DEF IInv, TypeOK
<1> QED
  BY <1>3, <1>5, <1>7 DEF IInv, Masking

LEMMA OfficerReassigned ==
  ASSUME IInv, NEW o \in Officer, NEW m \in Officer \cup {Nobody}, Reassign(o, m), Observe
  PROVE  IInv'
<1>1. UNCHANGED <<policyVars, notes, team, reader>>
  BY DEF Reassign
<1>2. /\ manager' \in [Officer -> Officer \cup {Nobody}]
      /\ \E x \in Officer : \E k : manager' = [manager EXCEPT ![x] = k]
  BY DEF IInv, TypeOK, Reassign
<1>3. PoliciesTypeOK' /\ UNCHANGED policies /\ PolicyId \subseteq PolicyId' /\ RegistryInv'
  BY <1>1, RegistriesStay, RegistrySame DEF IInv, TypeOK
<1>4. NotesGrow
  BY <1>1, NotesStay
<1>5. /\ reader' \in Request' \cup {Idle}
      /\ entitled' \subseteq NoteId' /\ lasting' \subseteq PolicyId' /\ moved' \subseteq Officer
      /\ HistoryInv' /\ SearchInv' /\ NotesInv' /\ LabelInv' /\ AuditInv' /\ Masking'
  BY SearchStays, <1>1, <1>2, <1>3, <1>4, ReaderStays
<1>6. changes' \in 0..MaxChanges
  BY ChangesBounded DEF Reassign, IInv
<1>7. TypeOK'
  BY <1>1, <1>2, <1>3, <1>5, <1>6 DEF IInv, TypeOK
<1> QED
  BY <1>3, <1>5, <1>7 DEF IInv, Masking

LEMMA PoliciesChanged ==
  ASSUME IInv, ChangePolicies, Observe
  PROVE  IInv'
<1>1. UNCHANGED <<notes, team, manager, reader>> /\ DeskNext
  BY DEF ChangePolicies, workspace
<1>2. PoliciesTypeOK' /\ RegistryInv'
  BY <1>1, PoliciesTypes, RegistryNext DEF IInv, TypeOK
<1>3. NotesGrow
  BY <1>1, NotesStay
<1>4. /\ PolicyId \subseteq PolicyId'
      /\ \A p \in PolicyId :
           /\ policies'[p].kind = policies[p].kind
           /\ policies[p].kind = "redaction" =>
                policies'[p].target = policies[p].target /\ policies'[p].min = policies[p].min
  BY <1>1, TablesGrow DEF IInv, TypeOK
<1>5. /\ reader' \in Request' \cup {Idle}
      /\ entitled' \subseteq NoteId' /\ lasting' \subseteq PolicyId' /\ moved' \subseteq Officer
      /\ HistoryInv' /\ SearchInv' /\ NotesInv' /\ LabelInv' /\ AuditInv' /\ Masking'
  BY SearchStays, <1>1, <1>2, <1>3, <1>4, ReaderStays
<1>6. changes' \in 0..MaxChanges
  BY ChangesBounded DEF ChangePolicies, IInv
<1>7. TypeOK'
  BY <1>1, <1>2, <1>5, <1>6 DEF IInv, TypeOK
<1> QED
  BY <1>2, <1>5, <1>7 DEF IInv, Masking

-----------------------------------------------------------------------------
(* Steps of the reader                                                     *)

Quiet == UNCHANGED <<policyVars, workspace, changes>>

(* A step of a request observes what the request has seen already.         *)
LEMMA ReaderMoves ==
  ASSUME IInv, Underway, Quiet, Observe,
         NEW r \in Request, reader' = r, r # Idle, r.by = reader.by
  PROVE  /\ TypeOK' /\ RegistryInv' /\ HistoryInv'
         /\ UNCHANGED <<notes, manager, policies, entitled, lasting, moved>>
         /\ \A i : Passes(i)' <=> Passes(i)
<1>1. UNCHANGED <<policyVars, notes, team, manager, changes>>
  BY DEF Quiet, workspace
<1>2. PoliciesTypeOK' /\ RegistryInv' /\ UNCHANGED policies /\ Active' = Active
  BY <1>1, RegistriesStay, RegistrySame DEF IInv, TypeOK
<1>3. NoteId' = NoteId /\ PolicyId' = PolicyId
  BY <1>1, <1>2 DEF NoteId, PolicyId
<1>4. Readable(reader.by)' = Readable(reader.by)
  <2>1. PICK o \in Officer : o = reader.by /\ o = reader'.by
    BY DEF Request
  <2>2. Readable(o)' = Readable(o)
    BY <1>1, ReadableSame
  <2> QED
    BY <2>1, <2>2 DEF Readable, TierRows, NoteVisible, ActiveTeam
<1>5. /\ entitled' = entitled /\ lasting' = lasting /\ moved' = moved
      /\ \A i : Passes(i)' <=> Passes(i)
  <2>1. entitled' = entitled /\ lasting' = lasting
    BY <1>2, <1>4 DEF Observe, IInv, HistoryInv
  <2>2. moved' = moved
    BY <1>1 DEF Observe
  <2> QED
    BY <1>1, <2>1, <2>2 DEF Passes, Reshuffled
<1>6. HistoryInv'
  BY <1>2, <1>4, <1>5 DEF IInv, HistoryInv
<1>7. r \in Request'
  BY <1>1, NotesStay, ItemsKept
<1>8. TypeOK'
  BY <1>1, <1>2, <1>3, <1>5, <1>7 DEF IInv, TypeOK
<1> QED
  BY <1>1, <1>2, <1>5, <1>6, <1>8

LEMMA ReaderGone ==
  ASSUME IInv, Underway, Quiet, Observe, reader' = Idle
  PROVE  IInv'
<1>1. UNCHANGED <<policyVars, notes, team, manager, changes>>
  BY DEF Quiet, workspace
<1>2. PoliciesTypeOK' /\ RegistryInv'
  BY <1>1, RegistriesStay, RegistrySame DEF IInv, TypeOK
<1>3. entitled' = {} /\ lasting' = {} /\ moved' = {}
  BY DEF Observe
<1>4. TypeOK'
  BY <1>1, <1>2, <1>3 DEF IInv, TypeOK
<1>5. ~Underway' /\ ~Delivered' /\ ~Assembled'
  BY DEF Underway, Delivered, Assembled, At
<1>6. HistoryInv' /\ SearchInv' /\ NotesInv' /\ AuditInv'
  BY <1>3, <1>5 DEF HistoryInv, SearchInv, NotesInv, AuditInv
<1>7. LabelInv' /\ LastingPoliciesMask' /\ DocumentsAudited'
  BY <1>5 DEF LabelInv, LastingPoliciesMask, DocumentsAudited
<1> QED
  BY <1>2, <1>4, <1>6, <1>7 DEF IInv

LEMMA Reading ==
  ASSUME IInv, NEW stage, stage # "done", At(stage)
  PROVE  /\ Underway /\ reader # Idle /\ reader \in Request /\ reader.stage = stage
         /\ \A s : At(s) <=> s = stage
BY DEF IInv, TypeOK, At, Underway

(* Before the notes are decided on nothing is promised of the document.    *)
LEMMA Unassembled ==
  ASSUME AuditInv, reader # Idle, ~Assembled, reader' # Idle,
         reader'.stage \notin {"redact", "done"},
         reader'.logged = reader.logged, reader'.masked = reader.masked
  PROVE  LabelInv' /\ AuditInv' /\ LastingPoliciesMask' /\ DocumentsAudited'
<1>1. ~Delivered' /\ ~Assembled' /\ ~At("done")' /\ ~At("done")
  BY DEF Delivered, Assembled, At
<1>2. AuditInv'
  BY <1>1 DEF AuditInv
<1> QED
  BY <1>1, <1>2 DEF LabelInv, LastingPoliciesMask, DocumentsAudited

LEMMA NotesSelected ==
  ASSUME IInv, SelectNotes, Observe
  PROVE  IInv'
<1>1. PICK r : r = [reader EXCEPT !.rows = TierRows(reader.by), !.stage = "team"]
  OBVIOUS
<1>2. reader' = r /\ Quiet /\ At("notes")
  BY <1>1 DEF SelectNotes, Step, Quiet
<1>3. Underway /\ reader # Idle /\ reader \in Request /\ \A s : At(s) <=> s = "notes"
  BY <1>2, Reading
<1>4. TierRows(reader.by) \subseteq NoteId
  BY DEF TierRows
<1>5. /\ r \in Request /\ r.by = reader.by /\ r.stage = "team"
      /\ r.rows = TierRows(reader.by) /\ r.found = reader.found /\ r.depth = reader.depth
      /\ r.logged = reader.logged /\ r.masked = reader.masked
  BY <1>1, <1>3, <1>4 DEF Request
<1>6. CASE r = Idle
  BY <1>2, <1>3, <1>6, ReaderGone
<1>7. CASE r # Idle
  <2>1. TypeOK' /\ RegistryInv' /\ HistoryInv' /\ UNCHANGED <<notes, moved>>
    BY <1>2, <1>3, <1>5, <1>7, ReaderMoves
  <2>2. LabelInv' /\ AuditInv' /\ LastingPoliciesMask' /\ DocumentsAudited'
    BY <1>2, <1>3, <1>5, <1>7, Unassembled DEF IInv, Assembled
  <2>3. \A i \in r.rows : notes[i].tier <= Clearance[r.by]
    BY <1>5 DEF TierRows
  <2>4. ~At("search")' /\ ~At("visible")' /\ ~Assembled'
    BY <1>2, <1>5 DEF At, Assembled
  <2>5. NotesInv'
    BY <1>2, <2>1, <2>3, <2>4 DEF NotesInv
  <2>6. moved = {} /\ r.found = {} /\ r.depth = 0
    BY <1>3, <1>5 DEF IInv, SearchInv
  <2>7. SearchInv'
    BY <1>2, <2>1, <2>4, <2>6 DEF SearchInv
  <2> QED
    BY <2>1, <2>2, <2>5, <2>7 DEF IInv
<1> QED
  BY <1>6, <1>7

(* Whoever is a member when the team is read sees the notes for the team   *)
(* at this moment. A supervisor's search begins.                           *)
LEMMA TeamSelected ==
  ASSUME IInv, SelectTeam, Observe
  PROVE  IInv'
<1>1. PICK r : \/ /\ Role[reader.by] = "SUPERVISOR"
                  /\ r = [reader EXCEPT !.members = ActiveTeam, !.frontier = {reader.by},
                                        !.stage = "search"]
               \/ /\ Role[reader.by] # "SUPERVISOR"
                  /\ r = [reader EXCEPT !.members = ActiveTeam, !.stage = "visible"]
  OBVIOUS
<1>2. reader' = r /\ Quiet /\ At("team")
  BY <1>1 DEF SelectTeam, Step, Quiet
<1>3. Underway /\ reader # Idle /\ reader \in Request /\ \A s : At(s) <=> s = "team"
  BY <1>2, Reading
<1>4. ActiveTeam \subseteq Officer
  BY DEF ActiveTeam
<1>5. /\ r \in Request /\ r.by = reader.by
      /\ r.rows = reader.rows /\ r.members = ActiveTeam
      /\ r.found = reader.found /\ r.depth = reader.depth
      /\ r.logged = reader.logged /\ r.masked = reader.masked
      /\ \/ r.stage = "search" /\ Role[r.by] = "SUPERVISOR" /\ r.frontier = {r.by}
         \/ r.stage = "visible" /\ Role[r.by] # "SUPERVISOR"
  <2>1. reader.by \in Officer /\ {reader.by} \subseteq Officer
    BY <1>3 DEF Request
  <2>2. CASE /\ Role[reader.by] = "SUPERVISOR"
             /\ r = [reader EXCEPT !.members = ActiveTeam, !.frontier = {reader.by},
                                   !.stage = "search"]
    BY <1>3, <1>4, <2>1, <2>2 DEF Request
  <2>3. CASE /\ Role[reader.by] # "SUPERVISOR"
             /\ r = [reader EXCEPT !.members = ActiveTeam, !.stage = "visible"]
    BY <1>3, <1>4, <2>3 DEF Request
  <2> QED
    BY <1>1, <2>2, <2>3
<1>6. CASE r = Idle
  BY <1>2, <1>3, <1>6, ReaderGone
<1>7. CASE r # Idle
  <2>1. TypeOK' /\ RegistryInv' /\ HistoryInv' /\ UNCHANGED <<notes, entitled>>
    BY <1>2, <1>3, <1>5, <1>7, ReaderMoves
  <2>2. LabelInv' /\ AuditInv' /\ LastingPoliciesMask' /\ DocumentsAudited'
    BY <1>2, <1>3, <1>5, <1>7, Unassembled DEF IInv, Assembled
  <2>3. \A i \in r.rows : i \in NoteId /\ notes[i].tier <= Clearance[r.by]
    BY <1>3, <1>5 DEF IInv, NotesInv, Request
  <2>4. ASSUME r.by \in r.members, NEW i \in r.rows, notes[i].visibility = "case_team"
        PROVE  i \in entitled
    <3>1. i \in Readable(r.by)
      BY <1>5, <2>3, <2>4 DEF Readable, TierRows, NoteVisible
    <3> QED
      BY <1>3, <1>5, <3>1 DEF IInv, HistoryInv
  <2>5. ~Assembled'
    BY <1>2, <1>5 DEF At, Assembled
  <2>6. NotesInv'
    BY <1>2, <2>1, <2>3, <2>4, <2>5 DEF NotesInv
  <2>7. r.found = {} /\ r.depth = 0
    BY <1>3, <1>5 DEF IInv, SearchInv
  <2>8. SearchInv'
    BY <1>2, <1>5, <2>7, BoundAssumption DEF SearchInv, At, FoundUnder
  <2> QED
    BY <2>1, <2>2, <2>6, <2>8 DEF IInv
<1> QED
  BY <1>6, <1>7

(* One level of the chain of command: what is found now is explained by    *)
(* what was found before, and when the search ends without two officers    *)
(* reassigned all it has found are whose notes the reader could see.       *)
LEMMA LevelSelected ==
  ASSUME IInv, SelectLevel, Observe
  PROVE  IInv'
<1>1. PICK new : new = NewIds(reader)
  OBVIOUS
<1>2. PICK found : found = reader.found \cup new
  OBVIOUS
<1>3. PICK r : \/ /\ reader.depth + 1 < MaxChainDepth
                  /\ r = [reader EXCEPT !.found = found, !.frontier = new,
                                        !.depth = reader.depth + 1, !.stage = "search"]
                  /\ reader' = r
               \/ /\ r = [reader EXCEPT !.found = found, !.frontier = {},
                                        !.depth = 0, !.stage = "visible"]
                  /\ reader' = r
  <2>1. CASE new # {} /\ reader.depth + 1 < MaxChainDepth
    BY <1>1, <1>2, <2>1 DEF SelectLevel, Step
  <2>2. CASE ~(new # {} /\ reader.depth + 1 < MaxChainDepth)
    BY <1>1, <1>2, <2>2 DEF SelectLevel, Step
  <2> QED
    BY <2>1, <2>2
<1>4. reader' = r /\ Quiet /\ At("search")
  BY <1>3 DEF SelectLevel, Step, Quiet
<1>5. Underway /\ reader # Idle /\ reader \in Request /\ \A s : At(s) <=> s = "search"
  BY <1>4, Reading
<1>6. /\ new \subseteq Officer /\ found \subseteq Officer /\ reader.by \notin found
      /\ Role[reader.by] = "SUPERVISOR" /\ new \subseteq found
  BY <1>1, <1>2, <1>5 DEF NewIds, IInv, SearchInv, Request
<1>7. /\ r \in Request /\ r.by = reader.by /\ r.rows = reader.rows
      /\ r.members = reader.members /\ r.found = found
      /\ r.logged = reader.logged /\ r.masked = reader.masked
      /\ \/ r.stage = "search" /\ r.depth < MaxChainDepth /\ r.frontier \subseteq r.found
         \/ r.stage = "visible"
  <2>1. /\ reader.depth + 1 \in Nat /\ 0 \in 0..MaxChainDepth
        /\ reader.depth + 1 < MaxChainDepth => reader.depth + 1 \in 0..MaxChainDepth
    BY <1>5, BoundAssumption DEF Request
  <2>2. PICK d : d = reader.depth + 1
    OBVIOUS
  <2>3. CASE /\ d < MaxChainDepth
             /\ r = [reader EXCEPT !.found = found, !.frontier = new,
                                   !.depth = d, !.stage = "search"]
    BY <1>5, <1>6, <2>1, <2>2, <2>3 DEF Request
  <2>4. CASE r = [reader EXCEPT !.found = found, !.frontier = {}, !.depth = 0,
                                !.stage = "visible"]
    BY <1>5, <1>6, <2>1, <2>4 DEF Request
  <2> QED
    BY <1>3, <2>2, <2>3, <2>4
<1>8. ASSUME NEW o \in Officer, moved \subseteq {o}
      PROVE  /\ \A q \in found :
                  Below(Without(o), reader.by, q) \/ (o \in found /\ Below(Without(o), o, q))
             /\ o \in found => \A q \in Officer :
                                 (q # reader.by /\ Below(Without(o), o, q)) => Shown(q)
  <2>1. FoundUnder(o)
    BY <1>5, <1>8 DEF IInv, SearchInv
  <2>2. ASSUME NEW q \in new
        PROVE  /\ \/ Below(Without(o), reader.by, q)
                  \/ o \in reader.found \cup {q} /\ Below(Without(o), o, q)
               /\ q = o => \A x \in Officer :
                             (x # reader.by /\ Below(Without(o), o, x)) => Shown(x)
    BY <1>1, <1>4, <1>8, <2>2, LevelFound DEF IInv
  <2> QED
    BY <1>2, <2>1, <2>2 DEF FoundUnder
<1>9. CASE r = Idle
  BY <1>4, <1>5, <1>9, ReaderGone
<1>10. CASE r # Idle
  <2>1. /\ TypeOK' /\ RegistryInv' /\ HistoryInv'
        /\ UNCHANGED <<notes, manager, entitled, moved>>
    BY <1>4, <1>5, <1>7, <1>10, ReaderMoves
  <2>2. LabelInv' /\ AuditInv' /\ LastingPoliciesMask' /\ DocumentsAudited'
    BY <1>4, <1>5, <1>7, <1>10, Unassembled DEF IInv, Assembled
  <2>3. ~Assembled'
    BY <1>4, <1>7 DEF At, Assembled
  <2>4. NotesInv'
    BY <1>4, <1>5, <1>7, <2>1, <2>3 DEF IInv, NotesInv
  <2>5. \A q : Shown(q)' <=> Shown(q)
    BY <1>4, <1>7, <2>1 DEF Shown
  <2>6. ASSUME NEW o \in Officer, moved \subseteq {o}
        PROVE  FoundUnder(o)'
    <3>1. \A p, q : Below(Without(o), p, q)' <=> Below(Without(o), p, q)
      BY <2>1 DEF Without, Below, Subordinates, ClosedDown
    <3>2. /\ \A q \in found :
               Below(Without(o), r.by, q) \/ (o \in found /\ Below(Without(o), o, q))
          /\ o \in found => \A q \in Officer :
                              (q # r.by /\ Below(Without(o), o, q)) => Shown(q)
      BY <1>7, <1>8, <2>6
    <3> QED
      BY <1>4, <1>7, <2>1, <2>5, <3>2 DEF FoundUnder, Without, Below, Subordinates, ClosedDown
  <2>7. ASSUME ~Reshuffled, NEW q \in found
        PROVE  Shown(q)
    <3>1. PICK o \in Officer : moved \subseteq {o}
      BY <1>5, <2>7 DEF Reshuffled, IInv, TypeOK, Request
    <3> QED
      BY <1>5, <1>6, <1>8, <2>7, <3>1, FoundShown DEF IInv
  <2>8. SearchInv'
    <3>1. CASE r.stage = "search"
      BY <1>4, <1>6, <1>7, <2>1, <2>6, <3>1 DEF SearchInv, At
    <3>2. CASE r.stage = "visible"
      BY <1>4, <1>7, <2>1, <2>5, <2>7, <3>2 DEF SearchInv, At, Reshuffled
    <3> QED
      BY <1>7, <3>1, <3>2
  <2> QED
    BY <2>1, <2>2, <2>4, <2>8 DEF IInv
<1> QED
  BY <1>9, <1>10

LEMMA NotesListed ==
  ASSUME IInv, ListNotes, Observe
  PROVE  IInv'
<1>1. PICK items : items = Decided(reader)
  OBVIOUS
<1>2. PICK r : r = [reader EXCEPT !.items = items, !.stage = "redact"]
  OBVIOUS
<1>3. reader' = r /\ Quiet /\ At("visible") /\ reader.op = "list"
  BY <1>1, <1>2 DEF ListNotes, Step, Quiet
<1>4. Underway /\ reader # Idle /\ reader \in Request /\ \A s : At(s) <=> s = "visible"
  BY <1>3, Reading
<1>5. items \subseteq Item /\ \A i \in NotesOf(items) : Passes(i)
  BY <1>1, <1>3, <1>4, DecidedItems, DecidedPass DEF IInv
<1>6. /\ r \in Request /\ r.by = reader.by /\ r.stage = "redact" /\ r.op = "list"
      /\ r.rows = reader.rows /\ r.items = items
      /\ r.logged = reader.logged /\ r.masked = reader.masked
  BY <1>2, <1>3, <1>4, <1>5 DEF Request
<1>7. CASE r = Idle
  BY <1>3, <1>4, <1>7, ReaderGone
<1>8. CASE r # Idle
  <2>1. /\ TypeOK' /\ RegistryInv' /\ HistoryInv' /\ UNCHANGED notes
        /\ \A i : Passes(i)' <=> Passes(i)
    BY <1>3, <1>4, <1>6, <1>8, ReaderMoves
  <2>2. /\ ~Delivered' /\ ~At("done")' /\ ~At("visible")' /\ ~At("search")'
        /\ Assembled' /\ SearchInv'
    BY <1>3, <1>6, <1>8 DEF Delivered, At, Assembled, SearchInv
  <2>3. \A i \in r.rows : notes[i].tier <= Clearance[r.by]
    BY <1>4, <1>6 DEF IInv, NotesInv
  <2>4. NotesInv'
    BY <1>3, <1>5, <1>6, <2>1, <2>2, <2>3 DEF NotesInv, NotesOf
  <2>5. reader.masked = {} /\ reader.logged = {}
    BY <1>4 DEF IInv, AuditInv, Assembled
  <2>6. AuditInv'
    BY <1>3, <1>6, <2>2, <2>5 DEF AuditInv
  <2>7. LabelInv' /\ LastingPoliciesMask' /\ DocumentsAudited'
    BY <1>3, <1>6, <2>2 DEF LabelInv, LastingPoliciesMask, DocumentsAudited
  <2> QED
    BY <2>1, <2>2, <2>4, <2>6, <2>7 DEF IInv
<1> QED
  BY <1>7, <1>8

(* All that an exporter's clearance lets into the document is below it.    *)
LEMMA ExportTiers ==
  ASSUME IInv, At("visible")
  PROVE  \A item \in Decided(reader) \cup {<<"case", 0>>} : TierOf(item) <= Clearance[reader.by]
<1>1. reader # Idle /\ reader \in Request
  BY Reading
<1>2. ASSUME NEW item \in Decided(reader)
      PROVE  TierOf(item) <= Clearance[reader.by]
  <2>1. item[1] = "note" /\ item[2] \in reader.rows
    BY <1>1, DecidedItems DEF IInv
  <2>2. notes[item[2]].tier <= Clearance[reader.by]
    BY <1>1, <2>1 DEF IInv, NotesInv
  <2> QED
    BY <2>1, <2>2 DEF TierOf
<1>3. TierOf(<<"case", 0>>) <= Clearance[reader.by]
  BY <1>1, OfficerAssumption DEF TierOf, Request
<1> QED
  BY <1>2, <1>3

LEMMA CaseExported ==
  ASSUME IInv, ExportCase, Observe
  PROVE  IInv'
<1>1. PICK items : items = Decided(reader) \cup {<<"case", 0>>}
  OBVIOUS
<1>2. PICK entry : entry = ExportEntry(reader, items)
  OBVIOUS
<1>3. PICK label : label = Highest(items)
  OBVIOUS
<1>4. PICK r : r = [reader EXCEPT !.items = items, !.label = label, !.stage = "redact",
                                  !.logged = {entry}]
  OBVIOUS
<1>5. reader' = r /\ Quiet /\ At("visible") /\ reader.op = "export"
  BY <1>1, <1>2, <1>3, <1>4 DEF ExportCase, Step, Quiet
<1>6. Underway /\ reader # Idle /\ reader \in Request /\ \A s : At(s) <=> s = "visible"
  BY <1>5, Reading
<1>7. items \subseteq Item
  BY <1>1, <1>6, DecidedItems DEF IInv, Item
<1>8. \A i \in NotesOf(items) : Passes(i)
  <2>1. NotesOf(items) = NotesOf(Decided(reader))
    BY <1>1 DEF NotesOf
  <2> QED
    BY <1>5, <2>1, DecidedPass DEF IInv
<1>9. /\ label \in Tier /\ label <= Clearance[reader.by]
      /\ \A item \in items : TierOf(item) <= label
  <2>1. reader.by \in Officer /\ \A item \in items : TierOf(item) <= Clearance[reader.by]
    BY <1>1, <1>5, <1>6, ExportTiers DEF Request
  <2> QED
    BY <1>3, <1>7, <2>1, HighestTier DEF IInv
<1>10. /\ entry \in Entry /\ entry.action = "export" /\ entry.label = label
       /\ entry.notes = Cardinality(NotesOf(items))
  <2>1. PICK n \in Nat : n = Cardinality(NotesOf(items))
    BY <1>7, NotesCounted DEF IInv
  <2>2. entry = [action |-> "export", notes |-> n, label |-> label]
    BY <1>2, <1>3, <2>1 DEF ExportEntry
  <2> QED
    BY <1>9, <2>1, <2>2 DEF Entry
<1>11. /\ r \in Request /\ r.by = reader.by /\ r.stage = "redact" /\ r.op = "export"
       /\ r.rows = reader.rows /\ r.items = items /\ r.label = label
       /\ r.logged = {entry} /\ r.masked = reader.masked
  BY <1>4, <1>5, <1>6, <1>7, <1>9, <1>10 DEF Request
<1>12. CASE r = Idle
  BY <1>5, <1>6, <1>12, ReaderGone
<1>13. CASE r # Idle
  <2>1. /\ TypeOK' /\ RegistryInv' /\ HistoryInv' /\ UNCHANGED notes
        /\ \A i : Passes(i)' <=> Passes(i)
    BY <1>5, <1>6, <1>11, <1>13, ReaderMoves
  <2>2. /\ ~Delivered' /\ ~At("done")' /\ ~At("visible")' /\ ~At("search")'
        /\ Assembled' /\ SearchInv'
    BY <1>5, <1>11, <1>13 DEF Delivered, At, Assembled, SearchInv
  <2>3. \A i \in r.rows : notes[i].tier <= Clearance[r.by]
    BY <1>6, <1>11 DEF IInv, NotesInv
  <2>4. NotesInv'
    BY <1>5, <1>8, <1>11, <2>1, <2>2, <2>3 DEF NotesInv, NotesOf
  <2>5. reader.masked = {}
    BY <1>6 DEF IInv, AuditInv, Assembled
  <2>6. AuditInv'
    BY <1>5, <1>10, <1>11, <2>2, <2>5 DEF AuditInv, Names, NotesOf
  <2>7. LabelInv'
    BY <1>5, <1>9, <1>11, <2>1, <2>2 DEF LabelInv, TierOf
  <2>8. LastingPoliciesMask' /\ DocumentsAudited'
    BY <2>2 DEF LastingPoliciesMask, DocumentsAudited
  <2> QED
    BY <2>1, <2>2, <2>4, <2>6, <2>7, <2>8 DEF IInv
<1> QED
  BY <1>12, <1>13

(* What one look at the policies in force masks.                           *)
LEMMA MaskedItems ==
  ASSUME IInv, reader # Idle, reader \in Request, Underway
  PROVE  /\ MaskedNow(reader) \subseteq reader.items
         /\ \A p \in lasting, item \in reader.items :
              (/\ policies[p].target = item[1]
               /\ TierOf(item) >= policies[p].min) => item \in MaskedNow(reader)
         /\ NotesOf(reader.items) \cap reader.manual \subseteq NotesOf(MaskedNow(reader))
<1>1. ASSUME NEW p \in lasting, NEW item \in reader.items,
             policies[p].target = item[1], TierOf(item) >= policies[p].min
      PROVE  item \in MaskedNow(reader)
  <2>1. p \in Fired(item)
    BY <1>1 DEF IInv, HistoryInv, Fired, Matches
  <2> QED
    BY <1>1, <2>1 DEF MaskedNow, Masked
<1> QED
  BY <1>1 DEF MaskedNow, Masked, NotesOf

LEMMA DocumentRedacted ==
  ASSUME IInv, Redact, Observe
  PROVE  IInv'
<1>1. PICK masked : masked = MaskedNow(reader)
  OBVIOUS
<1>2. PICK entries : entries = RedactionEntry(reader, masked)
  OBVIOUS
<1>3. PICK r : r = [reader EXCEPT !.masked = masked, !.stage = "done",
                                  !.logged = @ \cup entries]
  OBVIOUS
<1>4. reader' = r /\ Quiet /\ At("redact")
  BY <1>1, <1>2, <1>3 DEF Redact, Step, Quiet
<1>5. Underway /\ reader # Idle /\ reader \in Request /\ \A s : At(s) <=> s = "redact"
  BY <1>4, Reading
<1>6. /\ masked \subseteq reader.items
      /\ \A p \in lasting, item \in reader.items :
           (/\ policies[p].target = item[1]
            /\ TierOf(item) >= policies[p].min) => item \in masked
      /\ NotesOf(reader.items) \cap reader.manual \subseteq NotesOf(masked)
  BY <1>1, <1>5, MaskedItems
<1>7. masked \subseteq Item
  BY <1>5, <1>6 DEF Request
<1>8. /\ entries \in SUBSET Entry
      /\ \A e \in entries : e.action = "redaction" /\ e.about = masked
      /\ masked # {} <=> entries # {}
  <2>1. PICK e : e = [action |-> "redaction", about |-> masked]
    OBVIOUS
  <2>2. e \in Entry /\ e.action = "redaction" /\ e.about = masked
    BY <1>7, <2>1 DEF Entry
  <2>3. entries = IF masked = {} THEN {} ELSE {e}
    BY <1>2, <2>1 DEF RedactionEntry
  <2> QED
    BY <2>2, <2>3
<1>9. /\ r \in Request /\ r.by = reader.by /\ r.stage = "done" /\ r.op = reader.op
      /\ r.rows = reader.rows /\ r.items = reader.items /\ r.label = reader.label
      /\ r.manual = reader.manual /\ r.logged = reader.logged \cup entries
      /\ r.masked = masked
  BY <1>3, <1>5, <1>7, <1>8 DEF Request
<1>10. Assembled
  BY <1>4 DEF Assembled
<1>11. CASE r = Idle
  BY <1>4, <1>5, <1>11, ReaderGone
<1>12. CASE r # Idle
  <2>1. /\ TypeOK' /\ RegistryInv' /\ HistoryInv'
        /\ UNCHANGED <<notes, policies, lasting>> /\ \A i : Passes(i)' <=> Passes(i)
    BY <1>4, <1>5, <1>9, <1>12, ReaderMoves
  <2>2. At("done")' /\ ~At("visible")' /\ ~At("search")' /\ Assembled' /\ SearchInv'
    BY <1>4, <1>9, <1>12 DEF At, Assembled, SearchInv
  <2>3. \A i \in r.rows : notes[i].tier <= Clearance[r.by]
    BY <1>5, <1>9 DEF IInv, NotesInv
  <2>4. \A i \in NotesOf(r.items) : Passes(i)
    BY <1>5, <1>9, <1>10 DEF IInv, NotesInv
  <2>5. NotesInv'
    BY <1>4, <2>1, <2>2, <2>3, <2>4 DEF NotesInv, NotesOf
  <2>6. /\ \A e \in reader.logged : e.action # "redaction"
        /\ reader.op = "export" => \E e \in reader.logged : Names(e, reader)
    BY <1>5, <1>10 DEF IInv, AuditInv
  <2>7. r.op = "export" => \E e \in r.logged : Names(e, r)
    BY <1>9, <2>6 DEF Names
  <2>8. AuditInv'
    BY <1>4, <2>2, <2>7 DEF AuditInv, Names, NotesOf
  <2>9. LabelInv'
    <3>1. r.op = "export" => /\ \A item \in r.items : TierOf(item) <= r.label
                             /\ r.label <= Clearance[r.by]
      BY <1>9, <1>10 DEF IInv, LabelInv
    <3> QED
      BY <1>4, <2>1, <3>1 DEF LabelInv, TierOf
  <2>10. LastingPoliciesMask'
    <3>1. /\ \A p \in lasting, item \in r.items :
               (/\ policies[p].target = item[1]
                /\ TierOf(item) >= policies[p].min) => item \in r.masked
          /\ NotesOf(r.items) \cap r.manual \subseteq NotesOf(r.masked)
      BY <1>6, <1>9
    <3> QED
      BY <1>4, <2>1, <3>1 DEF LastingPoliciesMask, TierOf, NotesOf
  <2>11. r.masked \subseteq r.items
    BY <1>6, <1>9
  <2>12. r.masked # {} <=> \E e \in r.logged : e.action = "redaction"
    BY <1>8, <1>9, <2>6
  <2>13. \A e \in r.logged : e.action = "redaction" => e.about = r.masked
    BY <1>8, <1>9, <2>6
  <2>14. DocumentsAudited'
    BY <1>4, <2>7, <2>11, <2>12, <2>13 DEF DocumentsAudited, Names, NotesOf
  <2> QED
    BY <2>1, <2>2, <2>5, <2>8, <2>9, <2>10, <2>14 DEF IInv
<1> QED
  BY <1>11, <1>12

LEMMA RequestAbandoned ==
  ASSUME IInv, Abandon, Observe
  PROVE  IInv'
BY ReaderGone DEF Abandon, Quiet

LEMMA RequestBegun ==
  ASSUME IInv, NEW op \in {"list", "export", "entity"}, NEW o \in Officer,
         NEW manual \in SUBSET NoteId, Begin(op, o, manual)
  PROVE  IInv'
<1>1. PICK items : items = {<<op, 0>>} \cap {<<"entity", 0>>}
  OBVIOUS
<1>2. PICK stage : stage = IF op = "entity" THEN "redact" ELSE "notes"
  OBVIOUS
<1>3. PICK r : r = [op |-> op, by |-> o, manual |-> manual, stage |-> stage,
                    rows |-> {}, members |-> {}, found |-> {}, frontier |-> {}, depth |-> 0,
                    items |-> items, masked |-> {}, label |-> CaseTier, logged |-> {}]
  OBVIOUS
<1>4. /\ reader' = r /\ entitled' = Readable(o) /\ lasting' = Active /\ moved' = {}
      /\ UNCHANGED <<policyVars, notes, team, manager, changes>>
  BY <1>1, <1>2, <1>3 DEF Begin, workspace
<1>5. items \subseteq Item /\ NotesOf(items) = {}
  BY <1>1 DEF Item, NotesOf
<1>6. /\ r \in Request /\ r.by = o /\ r.op = op /\ r.stage = stage
      /\ r.rows = {} /\ r.members = {} /\ r.found = {} /\ r.depth = 0 /\ r.items = items
      /\ r.masked = {} /\ r.logged = {}
  BY <1>2, <1>3, <1>5, OfficerAssumption, BoundAssumption DEF Request
<1>7. stage \in {"redact", "notes"} /\ (stage = "redact" => op # "export")
  BY <1>2
<1>8. /\ PoliciesTypeOK' /\ RegistryInv' /\ UNCHANGED policies
      /\ PolicyId \subseteq PolicyId' /\ Active' = Active
  BY <1>4, RegistriesStay, RegistrySame DEF IInv, TypeOK
<1>9. NoteId' = NoteId /\ Request \subseteq Request'
  BY <1>4, NotesStay, ItemsKept DEF NoteId
<1>10. Readable(o)' = Readable(o)
  BY <1>4, ReadableSame
<1>11. Readable(o) \subseteq NoteId /\ Active \subseteq PolicyId
  BY ReadableAre DEF Active
<1>12. TypeOK'
  BY <1>4, <1>6, <1>8, <1>9, <1>11 DEF IInv, TypeOK
<1>13. HistoryInv'
  <2>1. Readable(reader.by)' = Readable(o)
    BY <1>4, <1>6, <1>10 DEF Readable, TierRows, NoteVisible, ActiveTeam
  <2>2. \A p \in Active : policies[p].kind = "redaction"
    BY DEF Active
  <2> QED
    BY <1>4, <1>8, <2>1, <2>2 DEF HistoryInv
<1>14. ~Delivered' /\ ~At("done")' /\ ~At("visible")' /\ ~At("search")' /\ SearchInv'
  BY <1>4, <1>6, <1>7 DEF Delivered, At, SearchInv
<1>15. NotesInv'
  BY <1>4, <1>5, <1>6, <1>14 DEF NotesInv, NotesOf
<1>16. LabelInv' /\ AuditInv'
  BY <1>4, <1>6, <1>7, <1>14 DEF LabelInv, AuditInv, Assembled, At
<1>17. LastingPoliciesMask' /\ DocumentsAudited'
  BY <1>14 DEF LastingPoliciesMask, DocumentsAudited
<1> QED
  BY <1>8, <1>12, <1>13, <1>14, <1>15, <1>16, <1>17 DEF IInv

-----------------------------------------------------------------------------
(* Theorems                                                                *)

LEMMA InitInv == Init => IInv
<1> SUFFICES ASSUME Init
             PROVE  IInv
  OBVIOUS
<1>1. PoliciesTypeOK
  BY DEF Init, PoliciesInit, PoliciesTypeOK, PolicyId
<1>2. TypeOK
  BY <1>1, BoundAssumption, OfficerAssumption DEF Init, TypeOK
<1>3. RegistryInv
  BY DEF Init, PoliciesInit, RegistryInv, RegistryAccounted, PolicyId, Fresh, AtDesk
<1>4. reader = Idle /\ lasting = {}
  BY DEF Init
<1>5. ~Underway /\ ~Delivered /\ ~Assembled
  BY <1>4 DEF Underway, Delivered, Assembled, At
<1> QED
  BY <1>2, <1>3, <1>4, <1>5
     DEF IInv, HistoryInv, SearchInv, NotesInv, LabelInv, AuditInv, LastingPoliciesMask, DocumentsAudited

LEMMA Stutters ==
  ASSUME IInv, UNCHANGED vars
  PROVE  IInv'
<1>1. UNCHANGED <<policyVars, notes, team, manager, reader, changes, entitled, lasting, moved>>
  BY DEF vars, workspace
<1>2. /\ PoliciesTypeOK' /\ RegistryInv' /\ UNCHANGED policies
      /\ PolicyId \subseteq PolicyId' /\ Active' = Active
  BY <1>1, RegistriesStay, RegistrySame DEF IInv, TypeOK
<1>3. NoteId' = NoteId /\ Request \subseteq Request'
  BY <1>1, NotesStay, ItemsKept DEF NoteId
<1>4. TypeOK'
  BY <1>1, <1>2, <1>3 DEF IInv, TypeOK
<1>5. /\ Underway' = Underway /\ Delivered' = Delivered /\ Assembled' = Assembled
      /\ \A stage : At(stage)' = At(stage)
  BY <1>1 DEF Underway, Delivered, Assembled, At
<1>6. Readable(reader.by)' = Readable(reader.by)
  BY <1>1, <1>3 DEF Readable, TierRows, NoteVisible, ActiveTeam, Subordinates, ClosedDown
<1>7. HistoryInv'
  BY <1>1, <1>2, <1>5, <1>6 DEF IInv, HistoryInv
<1>8. SearchInv' /\ NotesInv' /\ AuditInv'
  <2>1. SearchInv'
    BY <1>1, <1>5 DEF IInv, SearchInv, FoundUnder, Below, Without, Subordinates, ClosedDown,
                      Shown, Reshuffled
  <2>2. NotesInv' /\ AuditInv'
    BY <1>1, <1>5 DEF IInv, NotesInv, AuditInv, NotesOf, Passes, Reshuffled, Names
  <2> QED
    BY <2>1, <2>2
<1>9. LabelInv' /\ LastingPoliciesMask' /\ DocumentsAudited'
  BY <1>1, <1>2, <1>5 DEF IInv, LabelInv, LastingPoliciesMask, DocumentsAudited, TierOf, NotesOf
<1> QED
  BY <1>2, <1>4, <1>7, <1>8, <1>9 DEF IInv

LEMMA NextInv ==
  ASSUME IInv, Next
  PROVE  IInv'
<1>1. CASE Observe /\ \/ \E o \in Officer, v \in Visibility, tier \in Tier : AddNote(o, v, tier)
                      \/ \E o \in Officer : ChangeTeam(o)
                      \/ \E o \in Officer, m \in Officer \cup {Nobody} : Reassign(o, m)
                      \/ ChangePolicies
  BY <1>1, NoteAdded, TeamChanged, OfficerReassigned, PoliciesChanged
<1>2. CASE Observe /\ \/ SelectNotes \/ SelectTeam \/ SelectLevel
                      \/ ListNotes \/ ExportCase
                      \/ Redact
                      \/ Abandon
  BY <1>2, NotesSelected, TeamSelected, LevelSelected, NotesListed, CaseExported, DocumentRedacted,
     RequestAbandoned
<1>3. CASE \E op \in {"list", "export", "entity"}, o \in Officer, manual \in SUBSET NoteId :
             Begin(op, o, manual)
  BY <1>3, RequestBegun
<1> QED
  BY <1>1, <1>2, <1>3 DEF Next

(* The inductive invariant: what the history of a request has seen, what   *)
(* it may decide on, and what its audit rows say before it is delivered.   *)
THEOREM Inductive == Spec => []IInv
<1>1. IInv /\ [Next]_vars => IInv'
  BY NextInv, Stutters
<1> QED
  BY <1>1, InitInv, PTL DEF Spec

(* The rows of the registries, the notes, the team and what a request has  *)
(* read keep their types (models/governance.py).                           *)
THEOREM Typing == Spec => []TypeOK
<1>1. IInv => TypeOK
  BY DEF IInv
<1> QED
  BY <1>1, Inductive, PTL

(* deactivate_policy, deactivate_retention_policy and                      *)
(* deactivate_data_source check a row before they write it: a row is       *)
(* inactive exactly when its deactivation is in the audit log, twice only  *)
(* if two requests overlapped, and no name of a data source is given       *)
(* twice.                                                                  *)
THEOREM RegistryAlwaysAccounted == Spec => []RegistryAccounted
<1>1. IInv => RegistryAccounted
  BY DEF IInv, RegistryInv
<1> QED
  BY <1>1, Inductive, PTL

(* _visible_notes reads the notes before the team and the chain of command *)
(* they are compared with, and get_subordinate_officer_ids searches that   *)
(* chain level by level: whoever is shown a note could see it at one       *)
(* moment of the request, whatever is filed or changed in between, unless  *)
(* it is for the chain of command and two officers were reassigned during  *)
(* the search, for any hierarchy, with or without cycles, and any bound on *)
(* its depth.                                                              *)
THEOREM ShownUnlessReshuffled == Spec => []EntitledUnlessReshuffled
<1>1. IInv => EntitledUnlessReshuffled
  BY DEF IInv, NotesInv, Passes, EntitledUnlessReshuffled, Delivered, Assembled, At
<1> QED
  BY <1>1, Inductive, PTL

(* apply_redactions, apply_note_list_redactions and                        *)
(* apply_entity_redactions read the active policies once, at the end: a    *)
(* policy in force all along masks what it targets, and redact_note_ids    *)
(* are masked under any policies.                                          *)
THEOREM LastingPoliciesAlwaysMask == Spec => []LastingPoliciesMask
<1>1. IInv => LastingPoliciesMask
  BY DEF IInv
<1> QED
  BY <1>1, Inductive, PTL

(* export_case logs the export before the notes are masked, the redaction  *)
(* service logs what it masked: a delivered export is in the log with the  *)
(* number of its notes and its label, and what is masked in a document is  *)
(* exactly what its redaction row names.                                   *)
THEOREM DocumentsAlwaysAudited == Spec => []DocumentsAudited
<1>1. IInv => DocumentsAudited
  BY DEF IInv
<1> QED
  BY <1>1, Inductive, PTL

(* The label that export_case computes covers the case and every note of   *)
(* the document, masked or not, and never exceeds the exporter's           *)
(* clearance, for any set of tiers.                                        *)
THEOREM LabelAlwaysCovers == Spec => []LabelCovers
<1>1. IInv => LabelCovers
  BY DEF IInv, LabelInv, LabelCovers, Delivered, Assembled, At
<1> QED
  BY <1>1, Inductive, PTL

=============================================================================
