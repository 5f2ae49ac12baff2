--------------------------- MODULE CaseDocuments ----------------------------
(***************************************************************************)
(* What leaves the workspace of one case: lists of its notes and exports   *)
(* (services/case_service.py, routers/cases.py), and the details of an     *)
(* entity, each with the redaction policies of services/redaction_service  *)
(* applied. Notes, the team, the chain of command and the policies change  *)
(* while a document is put together, one SELECT after the other; the chain *)
(* of command alone takes one for each of its levels.                      *)
(***************************************************************************)
EXTENDS Policies, ReportingLines, FiniteSets

CONSTANTS Lead,       \* cases.lead_officer_id
          Role,       \* Role[o]
          Clearance,  \* Clearance[o]: ROLE_MAX_CLASSIFICATION of that role
          CaseTier,   \* cases.classification, and that of the entity
          Visibility, \* Note.VALID_VISIBILITIES
          Nobody,     \* no manager
          Hierarchies, \* tables of managers there are at the start
          MaxChainDepth, \* MAX_CHAIN_DEPTH
          MaxChanges, \* BOUND: changes of rows that a document may depend on
          MaxRows     \* BOUND: notes, and rows of Policies

(* Officer: officers, all of whom pass the gate of the case.               *)
ASSUME OfficerAssumption ==
  /\ Nobody \notin Officer /\ Hierarchies \subseteq [Officer -> Officer \cup {Nobody}]
  /\ Lead \in Officer /\ CaseTier \in Tier
  /\ \A o \in Officer : Clearance[o] \in Tier /\ CaseTier <= Clearance[o]

ASSUME BoundAssumption == MaxChanges \in Nat /\ MaxChainDepth \in Nat \ {0}

VARIABLES notes,   \* rows of notes, in order of creation
          team,    \* team[o]: o's membership
          manager, \* manager_id of each officer
          reader,  \* the request that puts a document together
          changes, \* changes so far
          entitled, \* HISTORY: notes the reader could see at a moment of the request
          lasting, \* HISTORY: redaction policies in force since it began
          moved    \* HISTORY: officers reassigned while it searched the chain

workspace == <<notes, team, manager>>
vars == <<policyVars, workspace, reader, changes, entitled, lasting, moved>>

NoteId == DOMAIN notes

-----------------------------------------------------------------------------
(* Who sees a note                                                         *)

(* _active_team_officer_ids.                                               *)
ActiveTeam == {o \in Officer : team[o] = "on"}

(* _note_visible.                                                          *)
NoteVisible(n, o, members, subordinates) ==
  \/ n.visibility = "private_author" /\ n.author = o
  \/ n.visibility = "case_team" /\ (o = Lead \/ n.author = o \/ o \in members)
  \/ /\ n.visibility = "supervisory_chain"
     /\ \/ Role[o] = "ADMINISTRATOR"
        \/ Role[o] = "SUPERVISOR" /\ n.author \in subordinates
  \/ n.visibility = "inter_unit_approved"

(* The tier gate comes first.                                              *)
TierRows(o) == {i \in NoteId : notes[i].tier <= Clearance[o]}

(* What o could see if everything were read at once.                       *)
Readable(o) ==
  {i \in TierRows(o) : NoteVisible(notes[i], o, ActiveTeam, Subordinates(manager, o))}

-----------------------------------------------------------------------------
(* Masking                                                                 *)

(* Mutant: a policy fires above its minimum only.                          *)
Matches_Above(p, tier) == tier > policies[p].min

(* At or above its minimum.                                                *)
Matches(p, tier) == tier >= policies[p].min

(* What a document shows: notes, the summary of the case, or an entity.    *)
TierOf(item) == IF item[1] = "note" THEN notes[item[2]].tier ELSE CaseTier

Fired(item) == {p \in Active : policies[p].target = item[1] /\ Matches(p, TierOf(item))}

(* Mutant: the notes an exporter names are masked in the document or not   *)
(* in it.                                                                  *)
Masked_Named(items, manual) ==
  {item \in items : Fired(item) # {}} \cup {<<"note", i>> : i \in manual}

(* Policies first, then the notes an exporter names.                       *)
Masked(items, manual) ==
  {item \in items : Fired(item) # {} \/ (item[1] = "note" /\ item[2] \in manual)}

-----------------------------------------------------------------------------
(* The rows a document is made of change                                   *)

At(stage) == reader # Idle /\ reader.stage = stage

(* A document that is delivered stays until the next request.              *)
Delivered == reader # Idle /\ reader.stage = "done"

Underway == reader # Idle /\ reader.stage # "done"

(* HISTORY: what was true at every moment of a request, and at one of them.*)
Observe ==
  IF Underway
    THEN IF reader' = Idle
           THEN entitled' = {} /\ lasting' = {} /\ moved' = {}
           ELSE /\ entitled' = entitled \cup Readable(reader.by)'
                /\ lasting' = lasting \cap Active'
                /\ moved' = IF At("search")
                              THEN moved \cup {o \in Officer : manager'[o] # manager[o]}
                              ELSE moved
    ELSE UNCHANGED <<entitled, lasting, moved>>

Change == changes < MaxChanges /\ changes' = changes + 1

(* create_note: an author files nothing above the author's own tier.       *)
MayFile(o, tier) == tier <= Clearance[o]

NewNote(o, v, tier) == [author |-> o, visibility |-> v, tier |-> tier]

AddNote(o, v, tier) ==
  /\ MayFile(o, tier) /\ Len(notes) < MaxRows
  /\ notes' = Append(notes, NewNote(o, v, tier))
  /\ Change
  /\ UNCHANGED <<policyVars, team, manager, reader>>

(* add_team_member and remove_team_member (CaseWorkspace).                 *)
ChangeTeam(o) ==
  /\ o # Lead
  /\ team' = [team EXCEPT ![o] = IF @ = "on" THEN "left" ELSE "on"]
  /\ Change
  /\ UNCHANGED <<policyVars, notes, manager, reader>>

(* set_manager (OfficerHierarchy), also the assignments that race and      *)
(* close a cycle.                                                          *)
Reassign(o, m) ==
  /\ m # o /\ m # manager[o]
  /\ manager' = [manager EXCEPT ![o] = m]
  /\ Change
  /\ UNCHANGED <<policyVars, notes, team, reader>>

(* Administrators at work.                                                 *)
ChangePolicies ==
  /\ DeskNext
  /\ Len(policies') <= MaxRows
  /\ IF \E d \in Desk : desk'[d] = Idle /\ desk[d] # Idle
       THEN UNCHANGED changes ELSE Change
  /\ UNCHANGED <<workspace, reader>>

-----------------------------------------------------------------------------
(* Putting a document together                                             *)

Step(stage, next) ==
  /\ At(stage)
  /\ reader' = next
  /\ UNCHANGED <<policyVars, workspace, changes>>

(* The gate loads the case, which these requests read only in its fields   *)
(* that never change. manual: ExportRequest.redact_note_ids.               *)
Begin(op, o, manual) ==
  /\ ~Underway
  /\ manual # {} => op = "export"
  /\ reader' = [op |-> op, by |-> o, manual |-> manual,
                stage |-> IF op = "entity" THEN "redact" ELSE "notes",
                rows |-> {}, members |-> {}, found |-> {}, frontier |-> {}, depth |-> 0,
                items |-> {<<op, 0>>} \cap {<<"entity", 0>>},
                masked |-> {}, label |-> CaseTier, logged |-> {}]
  /\ entitled' = Readable(o)
  /\ lasting' = Active /\ moved' = {}
  /\ UNCHANGED <<policyVars, workspace, changes>>

(* _visible_notes: one SELECT of the notes, one of the team.               *)
SelectNotes == Step("notes", [reader EXCEPT !.rows = TierRows(reader.by), !.stage = "team"])

SelectTeam ==
  Step("team", IF Role[reader.by] = "SUPERVISOR"
                 THEN [reader EXCEPT !.members = ActiveTeam, !.frontier = {reader.by},
                                     !.stage = "search"]
                 ELSE [reader EXCEPT !.members = ActiveTeam, !.stage = "visible"])

(* get_subordinate_officer_ids for a supervisor, one SELECT for a level,   *)
(* as in OfficerHierarchy.                                                 *)
NewIds(r) == {o \in Officer : manager[o] \in r.frontier} \ (r.found \cup {r.by})

SelectLevel ==
  LET new == NewIds(reader)
      more == new # {} /\ reader.depth + 1 < MaxChainDepth
  IN Step("search",
          [reader EXCEPT !.found = @ \cup new, !.frontier = IF more THEN new ELSE {},
                         !.depth = IF more THEN @ + 1 ELSE 0,
                         !.stage = IF more THEN "search" ELSE "visible"])

(* Mutant: the notes are read after the team they are compared with.       *)
Decided_LateNotes(r) ==
  {<<"note", i>> : i \in {j \in TierRows(r.by) : NoteVisible(notes[j], r.by, r.members, r.found)}}

(* The notes as they were selected, with the team and the officers found.  *)
Decided(r) ==
  {<<"note", i>> : i \in {j \in r.rows : NoteVisible(notes[j], r.by, r.members, r.found)}}

(* list_notes hands the notes over to apply_note_list_redactions.          *)
ListNotes ==
  /\ reader # Idle /\ reader.op = "list"
  /\ Step("visible", [reader EXCEPT !.items = Decided(reader), !.stage = "redact"])

(* Mutant: the label looks at the case only.                               *)
Highest_Case(items) == CaseTier

(* The highest tier of the case and of the notes in the document.          *)
Highest(items) ==
  CHOOSE t \in {CaseTier} \cup {TierOf(item) : item \in items} :
    \A item \in items : TierOf(item) <= t /\ CaseTier <= t

NotesOf(items) == {item[2] : item \in {i \in items : i[1] = "note"}}

(* Mutant: the audit row counts the notes selected, visible or not.        *)
ExportEntry_Selected(r, items) ==
  [action |-> "export", notes |-> Cardinality(r.rows), label |-> Highest(items)]

(* Of the notes the audit log has only how many there are.                 *)
ExportEntry(r, items) ==
  [action |-> "export", notes |-> Cardinality(NotesOf(items)), label |-> Highest(items)]

(* export_case: the audit row is committed before the document is masked.  *)
ExportCase ==
  /\ reader # Idle /\ reader.op = "export"
  /\ LET items == Decided(reader) \cup {<<"case", 0>>} IN
       Step("visible",
            [reader EXCEPT !.items = items, !.label = Highest(items), !.stage = "redact",
                           !.logged = {ExportEntry(reader, items)}])

(* Mutant: without a policy in force the notes an exporter names stay.     *)
MaskedNow_PolicyOnly(r) == IF Active = {} THEN {} ELSE Masked(r.items, r.manual)

MaskedNow(r) == Masked(r.items, r.manual)

(* Mutant: an export that masks is taken as audited already.               *)
RedactionEntry_Once(r, masked) ==
  IF masked = {} \/ r.logged # {} THEN {}
  ELSE {[action |-> "redaction", about |-> masked]}

(* Audited if something was masked.                                        *)
RedactionEntry(r, masked) ==
  IF masked = {} THEN {} ELSE {[action |-> "redaction", about |-> masked]}

(* One SELECT of the active policies, the masks, one audit row, and the    *)
(* answer: the document is delivered.                                      *)
Redact ==
  LET masked == MaskedNow(reader) IN
  Step("redact", [reader EXCEPT !.masked = masked, !.stage = "done",
                                !.logged = @ \cup RedactionEntry(reader, masked)])

(* The request is broken off and nothing is delivered.                     *)
Abandon ==
  /\ Underway
  /\ reader' = Idle
  /\ UNCHANGED <<policyVars, workspace, changes>>

Init ==
  /\ PoliciesInit
  /\ notes = <<>>
  /\ team = [o \in Officer |-> "never"]
  /\ manager \in Hierarchies
  /\ reader = Idle /\ changes = 0
  /\ entitled = {} /\ lasting = {} /\ moved = {}

Next ==
  \/ /\ \/ \E o \in Officer, v \in Visibility, tier \in Tier : AddNote(o, v, tier)
        \/ \E o \in Officer : ChangeTeam(o)
        \/ \E o \in Officer, m \in Officer \cup {Nobody} : Reassign(o, m)
        \/ ChangePolicies
        \/ SelectNotes \/ SelectTeam \/ SelectLevel
        \/ ListNotes \/ ExportCase
        \/ Redact
        \/ Abandon
     /\ Observe
  \/ \E op \in {"list", "export", "entity"}, o \in Officer, manual \in SUBSET NoteId :
       Begin(op, o, manual)

Spec == Init /\ [][Next]_vars

-----------------------------------------------------------------------------
(* Properties                                                              *)

Item == ({"note"} \X NoteId) \cup {<<"case", 0>>, <<"entity", 0>>}

Entry ==
  [action : {"export"}, notes : Nat, label : Tier]
    \cup [action : {"redaction"}, about : SUBSET Item]

Request ==
  [op : {"list", "export", "entity"}, by : Officer, manual : SUBSET NoteId,
   stage : {"notes", "team", "search", "visible", "redact", "done"},
   rows : SUBSET NoteId, members : SUBSET Officer, found : SUBSET Officer,
   frontier : SUBSET Officer, depth : 0..MaxChainDepth, items : SUBSET Item,
   masked : SUBSET Item, label : Tier, logged : SUBSET Entry]

(* Rows of their types.                                                    *)
TypeOK ==
  /\ PoliciesTypeOK
  /\ notes \in Seq([author : Officer, visibility : Visibility, tier : Tier])
  /\ team \in [Officer -> {"never", "on", "left"}]
  /\ manager \in [Officer -> Officer \cup {Nobody}]
  /\ reader \in Request \cup {Idle}
  /\ changes \in 0..MaxChanges
  /\ entitled \subseteq NoteId /\ lasting \subseteq PolicyId /\ moved \subseteq Officer

(* Two officers were reassigned while the chain of command was searched.   *)
Reshuffled == \E o, p \in moved : o # p

(* A note is shown only to an officer who, at one moment of the request,   *)
(* could see it: a note filed after an officer left the team does not      *)
(* reach that officer by a request that was under way, and neither does    *)
(* one of a subordinate's that was none while the request was served.      *)
EntitledAtOneMoment == Delivered => NotesOf(reader.items) \subseteq entitled

(* The search takes one SELECT for each level, so that is true but for the *)
(* notes of the chain of command, and of them as long as no two officers   *)
(* are reassigned while it is searched, however often one of them is.      *)
EntitledUnlessReshuffled ==
  Delivered =>
    \A i \in NotesOf(reader.items) \ entitled :
      notes[i].visibility = "supervisory_chain" /\ Reshuffled

(* A policy in force from the beginning of a request to its end masks all  *)
(* it applies to in the document, however it is reached, and the notes an  *)
(* exporter named are masked with or without policies.                     *)
LastingPoliciesMask ==
  Delivered =>
    /\ \A p \in lasting, item \in reader.items :
         (/\ policies[p].target = item[1]
          /\ TierOf(item) >= policies[p].min) => item \in reader.masked
    /\ NotesOf(reader.items) \cap reader.manual \subseteq NotesOf(reader.masked)

(* A delivered export is in the audit log with the number of its notes    *)
(* and its label, masked or not, and what was masked in a document with    *)
(* exactly what was masked, all of it part of the document.                *)
DocumentsAudited ==
  Delivered =>
    /\ reader.masked \subseteq reader.items
    /\ reader.op = "export" =>
         \E e \in reader.logged :
           /\ e.action = "export" /\ e.label = reader.label
           /\ e.notes = Cardinality(NotesOf(reader.items))
    /\ reader.masked # {} <=> \E e \in reader.logged : e.action = "redaction"
    /\ \A e \in reader.logged : e.action = "redaction" => e.about = reader.masked

(* "redaction hides content but must never understate the sensitivity of   *)
(* what remains": the label of an export is at least the tier of all it    *)
(* was made of, masked or not, and no more than the exporter's clearance.  *)
LabelCovers ==
  (Delivered /\ reader.op = "export") =>
    /\ \A item \in reader.items : TierOf(item) <= reader.label
    /\ reader.label <= Clearance[reader.by]

=============================================================================
