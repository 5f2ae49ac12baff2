--------------------------- MODULE CaseWorkspace ----------------------------
(***************************************************************************)
(* The workspace of a case (services/case_service.py,                      *)
(* services/attachment_service.py and their endpoints in routers/cases.py):*)
(* creation, status, pins, team and attached files.                        *)
(*                                                                         *)
(* A request is served by one worker in a few transactions under READ      *)
(* COMMITTED: what it loads at the start may be out of date when it writes.*)
(* A refused request (404, 409, 422) changes nothing and has no action.    *)
(***************************************************************************)
EXTENDS Naturals, Sequences

CONSTANTS Officer,    \* officers with case:write and case:read
          Number,     \* case numbers, normalized
          Status,     \* Case.VALID_STATUSES
          Area,       \* a district together with a classification tier
          Scope,      \* Scope[o]: areas in o's districts and within o's clearance
          Cleared,    \* Cleared[o]: areas within o's clearance, of any district
          Worker,     \* requests served at once
          Idle,       \* a worker without a request
          MaxRequests \* BOUND: requests that change something

ASSUME ScopeAssumption ==
  \A o \in Officer : Scope[o] \subseteq Cleared[o] /\ Cleared[o] \subseteq Area

ASSUME RequestAssumption == MaxRequests \in Nat

VARIABLES cases,       \* rows of cases; an id is a position
          pins,        \* pins[c][o]: rows of case_pins
          team,        \* rows of case_team_members, removed ones included
          attachments, \* rows of attachments, committed or not, and their files
          statusLog,   \* statusLog[c]: case_status_changed in the audit log
          teamLog,     \* case_team_member_added and _removed, in order
          downloads,   \* attachment_downloaded in the audit log
          work,        \* what each worker is doing
          started,     \* requests so far
          opened,      \* HISTORY: opened[c] is the status c was created with
          stale,       \* HISTORY: memberships removed by two requests
          served,      \* HISTORY: who was sent which file
          overtaken    \* HISTORY: workers whose row another one inserted

auditLog == <<statusLog, teamLog, downloads>>
history == <<opened, stale, served>>
rows == <<cases, pins, team, attachments>>
vars == <<rows, auditLog, work, started, history, overtaken>>

CaseId == DOMAIN cases

-----------------------------------------------------------------------------
(* The record-level gate                                                   *)

(* _visible_case_stmt: the tier always, and the district unless an access  *)
(* exception is in force (AccessExceptions), which this model leaves open. *)
Gate(o, c) == cases[c].area \in Cleared[o]

(* Each request takes a worker.                                            *)
Arrive(w, task) ==
  /\ work[w] = Idle /\ started < MaxRequests
  /\ work' = [work EXCEPT ![w] = task]
  /\ started' = started + 1
  /\ UNCHANGED overtaken

Proceed(w, task) ==
  /\ work' = [work EXCEPT ![w] = task]
  /\ overtaken' = overtaken \ {w}
  /\ UNCHANGED started

End(w) == Proceed(w, Idle)

Doing(w, op) == work[w] # Idle /\ work[w].op = op

(* HISTORY: the row a request would insert, as its unique constraint       *)
(* knows it.                                                               *)
Key(t) ==
  CASE t.op = "create" -> <<"number", t.number>>
    [] t.op = "pin"    -> <<"pin", t.case, t.by>>
    [] t.op = "add"    -> <<"member", t.case, t.officer>>

Inserting(w) == \E op \in {"create", "pin", "add"} : Doing(w, op)

(* The request ends with its row inserted.                                 *)
EndInserted(w) ==
  /\ work' = [work EXCEPT ![w] = Idle]
  /\ overtaken' = (overtaken \cup {v \in Worker : Inserting(v) /\ Key(work[v]) = Key(work[w])}) \ {w}
  /\ UNCHANGED started

-----------------------------------------------------------------------------
(* Creating a case                                                         *)

NumberFree(n) == \A c \in CaseId : cases[c].number # n

(* Mutant: a number is looked for among the cases the creator can see.     *)
MayCreate_Visible(o, n, a) ==
  (\A c \in CaseId : Gate(o, c) => cases[c].number # n) /\ a \in Scope[o]

(* A creator files only what the creator can see.                          *)
MayCreate(o, n, a) == NumberFree(n) /\ a \in Scope[o]

BeginCreate(w, o, n, s, a) ==
  /\ MayCreate(o, n, a)
  /\ Arrive(w, [op |-> "create", by |-> o, number |-> n, status |-> s, area |-> a])
  /\ UNCHANGED <<rows, auditLog, history>>

(* Mutant: the column case_number without its unique constraint.           *)
Insertable_Any(n) == TRUE

(* The unique column decides, not the SELECT of BeginCreate.               *)
Insertable(n) == NumberFree(n)

InsertCase(w) ==
  /\ Doing(w, "create") /\ Insertable(work[w].number)
  /\ LET t == work[w] IN
       /\ cases' = Append(cases, [number |-> t.number, status |-> t.status,
                                  area |-> t.area, lead |-> t.by])
       /\ opened' = Append(opened, t.status)
  /\ pins' = Append(pins, [o \in Officer |-> 0])
  /\ statusLog' = Append(statusLog, <<>>)
  /\ teamLog' = Append(teamLog, [o \in Officer |-> <<>>])
  /\ EndInserted(w)
  /\ UNCHANGED <<team, attachments, downloads, stale, served>>

-----------------------------------------------------------------------------
(* Changing its status                                                     *)

(* A status that is the current one already is not written.                *)
MayChange(o, c, s) == Gate(o, c) /\ s # cases[c].status

BeginStatus(w, o, c, s) ==
  /\ MayChange(o, c, s)
  /\ Arrive(w, [op |-> "status", case |-> c, previous |-> cases[c].status, new |-> s])
  /\ UNCHANGED <<rows, auditLog, history>>

(* Mutant: the previous status is taken after the assignment.              *)
StatusEntry_After(t) == [previous |-> t.new, new |-> t.new]

(* What the audit log says of a change.                                    *)
StatusEntry(t) == [previous |-> t.previous, new |-> t.new]

WriteStatus(w) ==
  /\ Doing(w, "status")
  /\ LET t == work[w] IN
       /\ cases' = [cases EXCEPT ![t.case].status = t.new]
       /\ statusLog' = [statusLog EXCEPT ![t.case] = Append(@, StatusEntry(t))]
  /\ End(w)
  /\ UNCHANGED <<pins, team, attachments, teamLog, downloads, history>>

-----------------------------------------------------------------------------
(* Pins                                                                    *)

BeginPin(w, o, c) ==
  /\ Gate(o, c) /\ pins[c][o] = 0
  /\ Arrive(w, [op |-> "pin", by |-> o, case |-> c])
  /\ UNCHANGED <<rows, auditLog, history>>

(* Mutant: pins without their unique constraint.                           *)
Pinnable_Twice(c, o) == TRUE

(* uq_case_pins_case_officer.                                              *)
Pinnable(c, o) == pins[c][o] = 0

InsertPin(w) ==
  /\ Doing(w, "pin") /\ Pinnable(work[w].case, work[w].by)
  /\ pins' = [pins EXCEPT ![work[w].case][work[w].by] = @ + 1]
  /\ EndInserted(w)
  /\ UNCHANGED <<cases, team, attachments, auditLog, history>>

(* One DELETE, of all rows there are.                                      *)
Unpin(w, o, c) ==
  /\ Gate(o, c) /\ pins[c][o] > 0
  /\ work[w] = Idle /\ started < MaxRequests
  /\ started' = started + 1
  /\ pins' = [pins EXCEPT ![c][o] = 0]
  /\ UNCHANGED <<cases, team, attachments, auditLog, work, history, overtaken>>

-----------------------------------------------------------------------------
(* The team                                                                *)

ActiveRows(c, m) ==
  {r \in DOMAIN team : team[r].case = c /\ team[r].officer = m /\ ~team[r].removed}

(* list_team_members: the lead is always on the team.                      *)
Members(c) == {cases[c].lead} \cup {m \in Officer : ActiveRows(c, m) # {}}

MayAdd(o, c, m) == Gate(o, c) /\ m \notin Members(c)

BeginAdd(w, o, c, m) ==
  /\ MayAdd(o, c, m)
  /\ Arrive(w, [op |-> "add", case |-> c, officer |-> m])
  /\ UNCHANGED <<rows, auditLog, history>>

(* Mutant: no index over the active rows.                                  *)
Joinable_Twice(c, m) == TRUE

(* uq_case_team_members_active.                                            *)
Joinable(c, m) == ActiveRows(c, m) = {}

(* A row of its own, also for an officer who was removed before.           *)
InsertMember(w) ==
  /\ Doing(w, "add") /\ Joinable(work[w].case, work[w].officer)
  /\ LET t == work[w] IN
       /\ team' = Append(team, [case |-> t.case, officer |-> t.officer, removed |-> FALSE])
       /\ teamLog' = [teamLog EXCEPT ![t.case][t.officer] = Append(@, "added")]
  /\ EndInserted(w)
  /\ UNCHANGED <<cases, pins, attachments, statusLog, downloads, history>>

Removable(o, c, m) == IF Gate(o, c) /\ m # cases[c].lead THEN ActiveRows(c, m) ELSE {}

BeginRemove(w, o, c, m) ==
  /\ \E r \in Removable(o, c, m) : Arrive(w, [op |-> "remove", row |-> r])
  /\ UNCHANGED <<rows, auditLog, history>>

(* An UPDATE by id: it does not look whether the row is active still.      *)
WriteRemoval(w) ==
  /\ Doing(w, "remove")
  /\ LET r == work[w].row
         c == team[r].case
         m == team[r].officer
     IN /\ team' = [team EXCEPT ![r].removed = TRUE]
        /\ teamLog' = [teamLog EXCEPT ![c][m] = Append(@, "removed")]
        /\ stale' = IF team[r].removed THEN stale \cup {<<c, m>>} ELSE stale
  /\ End(w)
  /\ UNCHANGED <<cases, pins, attachments, statusLog, downloads, opened, served>>

-----------------------------------------------------------------------------
(* Attachments                                                             *)

(* create_attachment up to its flush, which draws the id. The tier of an   *)
(* attachment, checked like that of its case, is left out.                 *)
BeginUpload(w, o, c) ==
  /\ Gate(o, c)
  /\ attachments' = Append(attachments, [case |-> c, file |-> "none", committed |-> FALSE])
  /\ Arrive(w, [op |-> "write", file |-> Len(attachments) + 1])
  /\ UNCHANGED <<cases, pins, team, auditLog, history>>

(* Mutant: the row is committed before the file is written.                *)
WriteFile_RowFirst(w) ==
  /\ Doing(w, "write")
  /\ attachments' = [attachments EXCEPT ![work[w].file].committed = TRUE]
  /\ Proceed(w, [work[w] EXCEPT !.op = "commit"])
  /\ UNCHANGED <<cases, pins, team, auditLog, history>>

WriteFile(w) ==
  /\ Doing(w, "write")
  /\ attachments' = [attachments EXCEPT ![work[w].file].file = "whole"]
  /\ Proceed(w, [work[w] EXCEPT !.op = "commit"])
  /\ UNCHANGED <<cases, pins, team, auditLog, history>>

CommitRow(w) ==
  /\ Doing(w, "commit")
  /\ attachments' = [attachments EXCEPT ![work[w].file].committed = TRUE]
  /\ End(w)
  /\ UNCHANGED <<cases, pins, team, auditLog, history>>

Downloadable(o, f) == attachments[f].committed /\ Gate(o, attachments[f].case)

BeginDownload(w, o, f) ==
  /\ Downloadable(o, f)
  /\ Arrive(w, [op |-> "download", by |-> o, file |-> f])
  /\ UNCHANGED <<rows, auditLog, history>>

AuditDownload(w) ==
  /\ Doing(w, "download")
  /\ downloads' = downloads \cup {<<work[w].by, work[w].file>>}
  /\ Proceed(w, [work[w] EXCEPT !.op = "send"])
  /\ UNCHANGED <<rows, statusLog, teamLog, history>>

(* A row whose file is missing is answered with 404 (Fail).                *)
SendFile(w) ==
  /\ Doing(w, "send") /\ attachments[work[w].file].file # "none"
  /\ served' = served \cup {<<work[w].by, work[w].file>>}
  /\ End(w)
  /\ UNCHANGED <<rows, auditLog, opened, stale>>

-----------------------------------------------------------------------------
(* A request is broken off: a unique constraint (500), a full disk, a lost *)
(* connection, the end of the process. Its transaction is rolled back, and *)
(* a file that was being written stays in part or in whole.                *)
Fail(w) ==
  /\ work[w] # Idle
  /\ \/ UNCHANGED attachments
     \/ /\ Doing(w, "write")
        /\ \E f \in {"part", "whole"} :
             attachments' = [attachments EXCEPT ![work[w].file].file = f]
  /\ End(w)
  /\ UNCHANGED <<cases, pins, team, auditLog, history>>

Init ==
  /\ \E o \in Officer, n \in Number, s \in Status :
       \E a \in Scope[o] :
         /\ cases = <<[number |-> n, status |-> s, area |-> a, lead |-> o]>>
         /\ opened = <<s>>
  /\ pins = <<[o \in Officer |-> 0]>>
  /\ team = <<>> /\ attachments = <<>>
  /\ statusLog = << <<>> >>
  /\ teamLog = <<[o \in Officer |-> <<>>]>>
  /\ downloads = {} /\ stale = {} /\ served = {} /\ overtaken = {}
  /\ work = [w \in Worker |-> Idle]
  /\ started = 0

Begin(w, o) ==
  \/ \E n \in Number, s \in Status, a \in Area : BeginCreate(w, o, n, s, a)
  \/ \E c \in CaseId :
       \/ \E s \in Status : BeginStatus(w, o, c, s)
       \/ BeginPin(w, o, c)
       \/ Unpin(w, o, c)
       \/ \E m \in Officer : BeginAdd(w, o, c, m) \/ BeginRemove(w, o, c, m)
       \/ BeginUpload(w, o, c)
  \/ \E f \in DOMAIN attachments : BeginDownload(w, o, f)

Continue(w) ==
  \/ InsertCase(w)
  \/ WriteStatus(w)
  \/ InsertPin(w)
  \/ InsertMember(w) \/ WriteRemoval(w)
  \/ WriteFile(w) \/ CommitRow(w)
  \/ AuditDownload(w) \/ SendFile(w)
  \/ Fail(w)

Next == \E w \in Worker : Continue(w) \/ \E o \in Officer : Begin(w, o)

Spec == Init /\ [][Next]_vars

-----------------------------------------------------------------------------
(* Properties                                                              *)

Entry == [previous : Status, new : Status]

Task ==
  [op : {"create"}, by : Officer, number : Number, status : Status, area : Area]
    \cup [op : {"status"}, case : CaseId, previous : Status, new : Status]
    \cup [op : {"pin"}, by : Officer, case : CaseId]
    \cup [op : {"add"}, case : CaseId, officer : Officer]
    \cup [op : {"remove"}, row : DOMAIN team]
    \cup [op : {"write", "commit"}, file : DOMAIN attachments]
    \cup [op : {"download", "send"}, by : Officer, file : DOMAIN attachments]

CaseRow == [number : Number, status : Status, area : Area, lead : Officer]
MemberRow == [case : CaseId, officer : Officer, removed : BOOLEAN]
FileRow == [case : CaseId, file : {"none", "part", "whole"}, committed : BOOLEAN]

(* Rows and requests refer to rows that exist.                             *)
TablesOK ==
  /\ cases \in Seq(CaseRow) /\ opened \in Seq(Status)
  /\ pins \in Seq([Officer -> Nat])
  /\ team \in Seq(MemberRow)
  /\ attachments \in Seq(FileRow)
  /\ statusLog \in Seq(Seq(Entry))
  /\ teamLog \in Seq([Officer -> Seq({"added", "removed"})])
  /\ Len(pins) = Len(cases) /\ Len(statusLog) = Len(cases)
  /\ Len(teamLog) = Len(cases) /\ Len(opened) = Len(cases)
  /\ downloads \subseteq Officer \X DOMAIN attachments
  /\ served \subseteq Officer \X DOMAIN attachments
  /\ stale \subseteq CaseId \X Officer
  /\ work \in [Worker -> Task \cup {Idle}]
  /\ started \in 0..MaxRequests

TypeOK == TablesOK /\ overtaken \subseteq Worker

(* What scalar_one_or_none counts on: one row of a case number, of an      *)
(* officer's pin, of an active membership.                                 *)
AtMostOneRow ==
  /\ \A c, d \in CaseId : cases[c].number = cases[d].number => c = d
  /\ \A c \in CaseId, o \in Officer : pins[c][o] <= 1
  /\ \A r, q \in DOMAIN team :
       (/\ ~team[r].removed /\ ~team[q].removed
        /\ team[r].case = team[q].case /\ team[r].officer = team[q].officer) => r = q

(* The row a request is about to insert is there already.                  *)
Conflicts(w) ==
  \/ Doing(w, "create") /\ ~NumberFree(work[w].number)
  \/ Doing(w, "pin") /\ pins[work[w].case][work[w].by] > 0
  \/ Doing(w, "add") /\ ActiveRows(work[w].case, work[w].officer) # {}

(* Nothing but a race is answered with 500 for want of a check: a request  *)
(* that meets a unique constraint was checked before another request       *)
(* inserted the same row, and no lookup ever meets two rows, which would   *)
(* raise in each later request for that case, whatever it is. The checks   *)
(* of the services and the constraints of the schema must agree on what is *)
(* the same: cases nobody may see, memberships that ended, pins taken away.*)
ErrorsAreRaces ==
  /\ \A w \in Worker : Conflicts(w) => w \in overtaken
  /\ AtMostOneRow

(* The audit log accounts for the status of a case: it ends with the one   *)
(* the case has, and every previous status it names is one the case had    *)
(* before that entry, however requests overlap.                            *)
StatusTrail ==
  \A c \in CaseId :
    LET log == statusLog[c]
        had(i) == {opened[c]} \cup {log[j].new : j \in 1..(i - 1)}
    IN /\ cases[c].status = IF log = <<>> THEN opened[c] ELSE log[Len(log)].new
       /\ \A i \in DOMAIN log : log[i].previous \in had(i)

(* So does it for the team: an officer who left was last logged as removed *)
(* and one who is on it as added, unless two requests removed the same     *)
(* membership; nobody joins or leaves who is the lead.                     *)
TeamTrail ==
  \A c \in CaseId, m \in Officer :
    LET log == teamLog[c][m]
        last == log[Len(log)]
    IN /\ (log # <<>> /\ ActiveRows(c, m) = {}) => last = "removed"
       /\ (ActiveRows(c, m) # {} /\ <<c, m>> \notin stale) => last = "added"
       /\ m = cases[c].lead => log = <<>>

(* An administrator who reads the audit log of a case learns how it came   *)
(* to have its status and its team.                                        *)
AuditTrail == StatusTrail /\ TeamTrail

(* attachment_service: "a disk-write failure never leaves a committed row  *)
(* pointing at a missing file", whatever breaks off an upload; a file that *)
(* was sent is in the audit log.                                           *)
FilesBehindRows ==
  /\ \A f \in DOMAIN attachments :
       attachments[f].committed => attachments[f].file = "whole"
  /\ served \subseteq downloads

=============================================================================
