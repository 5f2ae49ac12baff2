------------------------ MODULE CaseWorkspaceProofs -------------------------
(***************************************************************************)
(* Theorems about CaseWorkspace, for any number of officers, cases and     *)
(* requests, and any vocabulary of statuses.                               *)
(***************************************************************************)
EXTENDS CaseWorkspace, TLAPS

(* Statuses a case has had: the one it was created with and what the audit *)
(* log says it was changed to.                                             *)
Had(c) == {opened[c]} \cup {statusLog[c][j].new : j \in DOMAIN statusLog[c]}

(* A change of status under way names a status the case has had.           *)
NamesHad(w) == Doing(w, "status") => work[w].previous \in Had(work[w].case)

StatusInv ==
  /\ StatusTrail
  /\ \A w \in Worker : NamesHad(w)

(* No membership, committed or under way, is the lead's; with the unique   *)
(* index a removal ends the only active membership there is.               *)
NotTheLead(w) == Doing(w, "add") => work[w].officer # cases[work[w].case].lead

TeamInv ==
  /\ TeamTrail
  /\ \A r \in DOMAIN team : team[r].officer # cases[team[r].case].lead
  /\ \A w \in Worker : NotTheLead(w)

Uploading(w) == Doing(w, "write") \/ Doing(w, "commit")

(* An upload has its row, not committed yet, and its file for itself, and  *)
(* commits only what it has written; a file is sent after its audit row.   *)
Orderly(w) ==
  /\ Uploading(w) => ~attachments[work[w].file].committed
  /\ Doing(w, "commit") => attachments[work[w].file].file = "whole"
  /\ Doing(w, "send") => <<work[w].by, work[w].file>> \in downloads

Apart(v, w) == (Uploading(v) /\ Uploading(w) /\ work[v].file = work[w].file) => v = w

FilesInv ==
  /\ FilesBehindRows
  /\ \A w \in Worker : Orderly(w)
  /\ \A v, w \in Worker : Apart(v, w)

(* A request whose row is there already was overtaken.                     *)
RacesInv ==
  /\ overtaken \subseteq Worker
  /\ \A w \in Worker : Conflicts(w) => w \in overtaken

IInv ==
  /\ TablesOK
  /\ AtMostOneRow
  /\ RacesInv
  /\ StatusInv
  /\ TeamInv
  /\ FilesInv

-----------------------------------------------------------------------------
(* Sequences                                                               *)

(* What appending a row does.                                              *)
LEMMA Appended ==
  ASSUME NEW S, NEW s \in Seq(S), NEW e \in S
  PROVE  /\ Append(s, e) \in Seq(S)
         /\ Len(Append(s, e)) = Len(s) + 1
         /\ DOMAIN Append(s, e) = DOMAIN s \cup {Len(s) + 1}
         /\ \A i \in DOMAIN s : Append(s, e)[i] = s[i]
         /\ Append(s, e)[Len(s) + 1] = e
         /\ Len(s) + 1 \notin DOMAIN s
         /\ Append(s, e) # <<>>
OBVIOUS

(* What changing a row does.                                               *)
LEMMA Updated ==
  ASSUME NEW S, NEW s \in Seq(S), NEW i \in DOMAIN s, NEW e \in S
  PROVE  /\ [s EXCEPT ![i] = e] \in Seq(S)
         /\ Len([s EXCEPT ![i] = e]) = Len(s)
         /\ DOMAIN [s EXCEPT ![i] = e] = DOMAIN s
         /\ [s EXCEPT ![i] = e][i] = e
         /\ \A j \in DOMAIN s : j # i => [s EXCEPT ![i] = e][j] = s[j]
OBVIOUS

LEMMA Widened ==
  ASSUME NEW S, NEW T, S \subseteq T, NEW s \in Seq(S)
  PROVE  s \in Seq(T)
OBVIOUS

LEMMA Rows ==
  ASSUME NEW S, NEW s \in Seq(S)
  PROVE  Len(s) \in Nat /\ DOMAIN s = 1..Len(s) /\ \A i \in DOMAIN s : s[i] \in S
OBVIOUS

-----------------------------------------------------------------------------
(* Types                                                                   *)

LEMMA Tables ==
  ASSUME TablesOK
  PROVE  /\ \A c \in CaseId : cases[c] \in CaseRow
         /\ DOMAIN pins = CaseId /\ DOMAIN statusLog = CaseId
         /\ DOMAIN teamLog = CaseId /\ DOMAIN opened = CaseId
         /\ \A c \in CaseId : /\ pins[c] \in [Officer -> Nat]
                              /\ statusLog[c] \in Seq(Entry)
                              /\ teamLog[c] \in [Officer -> Seq({"added", "removed"})]
                              /\ opened[c] \in Status
         /\ \A r \in DOMAIN team : team[r] \in MemberRow
         /\ \A f \in DOMAIN attachments : attachments[f] \in FileRow
         /\ Len(cases) \in Nat
<1>1. /\ \A c \in CaseId : cases[c] \in CaseRow
      /\ CaseId = 1..Len(cases) /\ Len(cases) \in Nat
  BY Rows DEF TablesOK, CaseId
<1>2. /\ DOMAIN pins = 1..Len(pins) /\ DOMAIN statusLog = 1..Len(statusLog)
      /\ DOMAIN teamLog = 1..Len(teamLog) /\ DOMAIN opened = 1..Len(opened)
  BY Rows DEF TablesOK
<1>3. /\ \A c \in DOMAIN pins : pins[c] \in [Officer -> Nat]
      /\ \A c \in DOMAIN statusLog : statusLog[c] \in Seq(Entry)
      /\ \A c \in DOMAIN teamLog : teamLog[c] \in [Officer -> Seq({"added", "removed"})]
      /\ \A c \in DOMAIN opened : opened[c] \in Status
  BY Rows DEF TablesOK
<1>4. /\ \A r \in DOMAIN team : team[r] \in MemberRow
      /\ \A f \in DOMAIN attachments : attachments[f] \in FileRow
  BY Rows DEF TablesOK
<1>5. /\ Len(pins) = Len(cases) /\ Len(statusLog) = Len(cases)
      /\ Len(teamLog) = Len(cases) /\ Len(opened) = Len(cases)
  BY DEF TablesOK
<1> QED
  BY <1>1, <1>2, <1>3, <1>4, <1>5

(* A request that is under way has the task it was given.                  *)
LEMMA TaskOf ==
  ASSUME TablesOK, NEW w \in Worker
  PROVE  /\ Doing(w, "create") =>
              work[w] \in [op : {"create"}, by : Officer, number : Number,
                           status : Status, area : Area]
         /\ Doing(w, "status") =>
              work[w] \in [op : {"status"}, case : CaseId, previous : Status, new : Status]
         /\ Doing(w, "pin") => work[w] \in [op : {"pin"}, by : Officer, case : CaseId]
         /\ Doing(w, "add") => work[w] \in [op : {"add"}, case : CaseId, officer : Officer]
         /\ Doing(w, "remove") => work[w] \in [op : {"remove"}, row : DOMAIN team]
         /\ Uploading(w) =>
              work[w] \in [op : {"write", "commit"}, file : DOMAIN attachments]
         /\ Doing(w, "download") \/ Doing(w, "send") =>
              work[w] \in [op : {"download", "send"}, by : Officer,
                           file : DOMAIN attachments]
<1>1. work[w] # Idle => work[w] \in Task
  BY DEF TablesOK
<1> QED
  BY <1>1 DEF Doing, Uploading, Task

(* One worker's task changes.                                              *)
LEMMA OneWorker ==
  ASSUME TablesOK, NEW w \in Worker, NEW t, work' = [work EXCEPT ![w] = t]
  PROVE  work'[w] = t /\ \A v \in Worker \ {w} : work'[v] = work[v]
BY DEF TablesOK

LEMMA WorkTypes ==
  ASSUME TablesOK, NEW w \in Worker, NEW t \in Task' \cup {Idle},
         work' = [work EXCEPT ![w] = t], CaseId \subseteq CaseId',
         DOMAIN team \subseteq DOMAIN team', DOMAIN attachments \subseteq DOMAIN attachments'
  PROVE  work' \in [Worker -> Task' \cup {Idle}]
<1>1. Task \subseteq Task'
  BY DEF Task
<1> QED
  BY <1>1 DEF TablesOK

(* A step that adds no row.                                                *)
LEMMA TypesKept ==
  ASSUME TablesOK, NEW w \in Worker, NEW t \in Task \cup {Idle},
         work' = [work EXCEPT ![w] = t], started' \in 0..MaxRequests,
         cases' \in Seq(CaseRow), Len(cases') = Len(cases), pins' \in Seq([Officer -> Nat]),
         Len(pins') = Len(pins), team' \in Seq(MemberRow), Len(team') = Len(team),
         attachments' \in Seq(FileRow), Len(attachments') = Len(attachments),
         statusLog' \in Seq(Seq(Entry)), Len(statusLog') = Len(statusLog),
         teamLog' \in Seq([Officer -> Seq({"added", "removed"})]),
         Len(teamLog') = Len(teamLog), UNCHANGED opened,
         downloads' \subseteq Officer \X DOMAIN attachments,
         served' \subseteq Officer \X DOMAIN attachments,
         stale' \subseteq CaseId \X Officer
  PROVE  TablesOK'
<1>1. DOMAIN cases' = DOMAIN cases /\ DOMAIN team' = DOMAIN team
      /\ DOMAIN attachments' = DOMAIN attachments
  BY DEF TablesOK
<1>2. CaseId' = CaseId
  BY <1>1 DEF CaseId
<1>3. Task' = Task /\ MemberRow' = MemberRow /\ FileRow' = FileRow
  BY <1>1, <1>2 DEF Task, MemberRow, FileRow
<1>4. work' \in [Worker -> Task' \cup {Idle}]
  BY <1>1, <1>2, <1>3, WorkTypes
<1> QED
  BY <1>1, <1>2, <1>3, <1>4 DEF TablesOK, CaseRow, Entry

(* A step that changes a worker's task and no row.                         *)
LEMMA TypesOfTask ==
  ASSUME TablesOK, NEW w \in Worker, NEW t \in Task \cup {Idle},
         work' = [work EXCEPT ![w] = t], started' \in 0..MaxRequests,
         UNCHANGED <<cases, pins, team, attachments, statusLog, teamLog, opened, stale>>,
         downloads' \subseteq Officer \X DOMAIN attachments,
         served' \subseteq Officer \X DOMAIN attachments
  PROVE  TablesOK'
<1>1. /\ cases' \in Seq(CaseRow) /\ pins' \in Seq([Officer -> Nat])
      /\ team' \in Seq(MemberRow) /\ attachments' \in Seq(FileRow)
      /\ statusLog' \in Seq(Seq(Entry))
      /\ teamLog' \in Seq([Officer -> Seq({"added", "removed"})])
      /\ stale' \subseteq CaseId \X Officer
  BY DEF TablesOK
<1> QED
  BY <1>1, TypesKept

LEMMA Counted ==
  ASSUME TablesOK
  PROVE  /\ started \in 0..MaxRequests
         /\ started < MaxRequests => started + 1 \in 0..MaxRequests
BY RequestAssumption DEF TablesOK

(* The requests that begin without a row.                                  *)
LEMMA TypesBegin ==
  ASSUME TablesOK, NEW w \in Worker, NEW t \in Task, Arrive(w, t),
         UNCHANGED <<rows, auditLog, history>>
  PROVE  TablesOK'
<1>1. /\ UNCHANGED <<cases, pins, team, attachments, statusLog, teamLog, opened, stale>>
      /\ downloads' = downloads /\ served' = served
  BY DEF rows, auditLog, history
<1>2. downloads' \subseteq Officer \X DOMAIN attachments
  BY <1>1 DEF TablesOK
<1>3. served' \subseteq Officer \X DOMAIN attachments
  BY <1>1 DEF TablesOK
<1> QED
  BY <1>1, <1>2, <1>3, Counted, TypesOfTask DEF Arrive

LEMMA TypesBegins ==
  ASSUME TablesOK, NEW w \in Worker, NEW o \in Officer, Begin(w, o),
         \A c \in CaseId : ~Unpin(w, o, c) /\ ~BeginUpload(w, o, c)
  PROVE  TablesOK'
<1>1. ASSUME NEW n \in Number, NEW s \in Status, NEW a \in Area, BeginCreate(w, o, n, s, a)
      PROVE  TablesOK'
  <2>1. [op |-> "create", by |-> o, number |-> n, status |-> s, area |-> a] \in Task
    BY DEF Task
  <2> QED
    BY <1>1, <2>1, TypesBegin DEF BeginCreate
<1>2. ASSUME NEW c \in CaseId, NEW s \in Status, BeginStatus(w, o, c, s)
      PROVE  TablesOK'
  <2>1. cases[c].status \in Status
    BY Tables DEF CaseRow
  <2>2. [op |-> "status", case |-> c, previous |-> cases[c].status, new |-> s] \in Task
    BY <2>1 DEF Task
  <2> QED
    BY <1>2, <2>2, TypesBegin DEF BeginStatus
<1>3. ASSUME NEW c \in CaseId, BeginPin(w, o, c)
      PROVE  TablesOK'
  <2>1. [op |-> "pin", by |-> o, case |-> c] \in Task
    BY DEF Task
  <2> QED
    BY <1>3, <2>1, TypesBegin DEF BeginPin
<1>4. ASSUME NEW c \in CaseId, NEW m \in Officer, BeginAdd(w, o, c, m)
      PROVE  TablesOK'
  <2>1. [op |-> "add", case |-> c, officer |-> m] \in Task
    BY DEF Task
  <2> QED
    BY <1>4, <2>1, TypesBegin DEF BeginAdd
<1>5. ASSUME NEW c \in CaseId, NEW m \in Officer, BeginRemove(w, o, c, m)
      PROVE  TablesOK'
  <2>1. PICK r \in DOMAIN team : Arrive(w, [op |-> "remove", row |-> r])
    BY <1>5 DEF BeginRemove, Removable, ActiveRows
  <2>2. [op |-> "remove", row |-> r] \in Task
    BY DEF Task
  <2> QED
    BY <1>5, <2>1, <2>2, TypesBegin DEF BeginRemove
<1>6. ASSUME NEW f \in DOMAIN attachments, BeginDownload(w, o, f)
      PROVE  TablesOK'
  <2>1. [op |-> "download", by |-> o, file |-> f] \in Task
    BY DEF Task
  <2> QED
    BY <1>6, <2>1, TypesBegin DEF BeginDownload
<1> QED
  BY <1>1, <1>2, <1>3, <1>4, <1>5, <1>6 DEF Begin

LEMMA TypesUnpin ==
  ASSUME TablesOK, NEW w \in Worker, NEW o \in Officer, NEW c \in CaseId, Unpin(w, o, c)
  PROVE  TablesOK'
<1>1. PICK row : row = [pins[c] EXCEPT ![o] = 0]
  OBVIOUS
<1>2. row \in [Officer -> Nat] /\ c \in DOMAIN pins
  BY <1>1, Tables
<1>3. pins' = [pins EXCEPT ![c] = row]
  BY <1>1 DEF Unpin
<1>4. pins' \in Seq([Officer -> Nat]) /\ Len(pins') = Len(pins)
  BY <1>2, <1>3, Updated DEF TablesOK
<1>5. work' = [work EXCEPT ![w] = Idle]
  BY DEF Unpin, TablesOK
<1>6. UNCHANGED <<cases, team, attachments, statusLog, teamLog, downloads, opened, stale, served>>
  BY DEF Unpin, auditLog, history
<1>7. started' \in 0..MaxRequests
  BY Counted DEF Unpin
<1>8. /\ cases' \in Seq(CaseRow)
      /\ team' \in Seq(MemberRow) /\ attachments' \in Seq(FileRow)
      /\ statusLog' \in Seq(Seq(Entry))
      /\ teamLog' \in Seq([Officer -> Seq({"added", "removed"})])
      /\ downloads' \subseteq Officer \X DOMAIN attachments
      /\ served' \subseteq Officer \X DOMAIN attachments
      /\ stale' \subseteq CaseId \X Officer
  BY <1>6 DEF TablesOK
<1> QED
  BY <1>4, <1>5, <1>6, <1>7, <1>8, TypesKept

LEMMA TypesUpload ==
  ASSUME TablesOK, NEW w \in Worker, NEW o \in Officer, NEW c \in CaseId, BeginUpload(w, o, c)
  PROVE  TablesOK'
<1>1. PICK row : row = [case |-> c, file |-> "none", committed |-> FALSE]
  OBVIOUS
<1>2. row \in FileRow
  BY <1>1 DEF FileRow
<1>3. attachments' = Append(attachments, row)
  BY <1>1 DEF BeginUpload
<1>4. /\ attachments' \in Seq(FileRow)
      /\ DOMAIN attachments' = DOMAIN attachments \cup {Len(attachments) + 1}
  BY <1>2, <1>3, Appended DEF TablesOK
<1>5. /\ UNCHANGED <<cases, pins, team, statusLog, teamLog, downloads, opened, stale, served>>
      /\ work' = [work EXCEPT ![w] = [op |-> "write", file |-> Len(attachments) + 1]]
      /\ started' \in 0..MaxRequests
  BY Counted DEF BeginUpload, Arrive, auditLog, history
<1>6. CaseId' = CaseId
  BY <1>5 DEF CaseId
<1>7. [op |-> "write", file |-> Len(attachments) + 1] \in Task'
  BY <1>4 DEF Task
<1>8. work' \in [Worker -> Task' \cup {Idle}]
  BY <1>4, <1>5, <1>6, <1>7, WorkTypes
<1>9. FileRow' = FileRow /\ MemberRow' = MemberRow /\ CaseRow' = CaseRow /\ Entry' = Entry
  BY <1>6 DEF FileRow, MemberRow, CaseRow, Entry
<1>10. /\ cases' \in Seq(CaseRow') /\ opened' \in Seq(Status)
       /\ pins' \in Seq([Officer -> Nat])
       /\ team' \in Seq(MemberRow') /\ attachments' \in Seq(FileRow')
       /\ statusLog' \in Seq(Seq(Entry'))
       /\ teamLog' \in Seq([Officer -> Seq({"added", "removed"})])
       /\ stale' \subseteq CaseId' \X Officer
  BY <1>4, <1>5, <1>6, <1>9 DEF TablesOK
<1>11. /\ downloads' \subseteq Officer \X DOMAIN attachments'
       /\ served' \subseteq Officer \X DOMAIN attachments'
  BY <1>4, <1>5 DEF TablesOK
<1> QED
  BY <1>5, <1>8, <1>10, <1>11 DEF TablesOK

(* The new case has a row of its own in each table.                        *)
LEMMA TypesInsertCase ==
  ASSUME TablesOK, NEW w \in Worker, InsertCase(w)
  PROVE  TablesOK'
<1>1. PICK row : row = [number |-> work[w].number, status |-> work[w].status,
                        area |-> work[w].area, lead |-> work[w].by]
  OBVIOUS
<1>2. row \in CaseRow /\ work[w].status \in Status
  BY <1>1, TaskOf DEF InsertCase, CaseRow
<1>3. /\ cases' = Append(cases, row) /\ opened' = Append(opened, work[w].status)
      /\ pins' = Append(pins, [o \in Officer |-> 0])
      /\ statusLog' = Append(statusLog, <<>>)
      /\ teamLog' = Append(teamLog, [o \in Officer |-> <<>>])
      /\ work' = [work EXCEPT ![w] = Idle]
      /\ UNCHANGED <<team, attachments, downloads, stale, served, started>>
  BY <1>1 DEF InsertCase, EndInserted
<1>4. /\ cases' \in Seq(CaseRow) /\ Len(cases') = Len(cases) + 1
      /\ DOMAIN cases' = DOMAIN cases \cup {Len(cases) + 1}
  BY <1>2, <1>3, Appended DEF TablesOK
<1>5. opened' \in Seq(Status) /\ Len(opened') = Len(opened) + 1
  BY <1>2, <1>3, Appended DEF TablesOK
<1>6. pins' \in Seq([Officer -> Nat]) /\ Len(pins') = Len(pins) + 1
  <2>1. pins \in Seq([Officer -> Nat]) /\ [o \in Officer |-> 0] \in [Officer -> Nat]
    BY DEF TablesOK
  <2> QED
    BY <1>3, <2>1, Appended
<1>7. statusLog' \in Seq(Seq(Entry)) /\ Len(statusLog') = Len(statusLog) + 1
  <2>1. <<>> \in Seq(Entry)
    OBVIOUS
  <2> QED
    BY <1>3, <2>1, Appended DEF TablesOK
<1>8. /\ teamLog' \in Seq([Officer -> Seq({"added", "removed"})])
      /\ Len(teamLog') = Len(teamLog) + 1
  <2>1. [o \in Officer |-> <<>>] \in [Officer -> Seq({"added", "removed"})]
    OBVIOUS
  <2> QED
    BY <1>3, <2>1, Appended DEF TablesOK
<1>9. CaseId \subseteq CaseId'
  BY <1>4 DEF CaseId
<1>10. work' \in [Worker -> Task' \cup {Idle}]
  BY <1>3, <1>9, WorkTypes
<1>11. team' \in Seq(MemberRow')
  <2>1. MemberRow \subseteq MemberRow'
    BY <1>9 DEF MemberRow
  <2> QED
    BY <1>3, <2>1, Widened DEF TablesOK
<1>12. attachments' \in Seq(FileRow')
  <2>1. FileRow \subseteq FileRow'
    BY <1>9 DEF FileRow
  <2> QED
    BY <1>3, <2>1, Widened DEF TablesOK
<1>13. CaseRow' = CaseRow /\ Entry' = Entry
  BY DEF CaseRow, Entry
<1>14. stale' \subseteq CaseId' \X Officer
  BY <1>3, <1>9 DEF TablesOK
<1>15. /\ downloads' \subseteq Officer \X DOMAIN attachments'
       /\ served' \subseteq Officer \X DOMAIN attachments'
       /\ started' \in 0..MaxRequests
  BY <1>3 DEF TablesOK
<1>16. /\ Len(pins') = Len(cases') /\ Len(statusLog') = Len(cases')
       /\ Len(teamLog') = Len(cases') /\ Len(opened') = Len(cases')
  BY <1>4, <1>5, <1>6, <1>7, <1>8 DEF TablesOK
<1> QED
  BY <1>4, <1>5, <1>6, <1>7, <1>8, <1>10, <1>11, <1>12, <1>13, <1>14, <1>15, <1>16 DEF TablesOK

LEMMA TypesStatus ==
  ASSUME TablesOK, NEW w \in Worker, WriteStatus(w)
  PROVE  TablesOK'
<1>1. PICK c : c = work[w].case
  OBVIOUS
<1>2. PICK row : row = [cases[c] EXCEPT !.status = work[w].new]
  OBVIOUS
<1>3. PICK log : log = Append(statusLog[c], StatusEntry(work[w]))
  OBVIOUS
<1>4. work[w] \in [op : {"status"}, case : CaseId, previous : Status, new : Status]
  BY TaskOf DEF WriteStatus
<1>5. c \in CaseId /\ row \in CaseRow /\ StatusEntry(work[w]) \in Entry
  BY <1>1, <1>2, <1>4, Tables DEF CaseRow, StatusEntry, Entry
<1>6. log \in Seq(Entry)
  BY <1>3, <1>5, Tables, Appended
<1>7. /\ cases' = [cases EXCEPT ![c] = row] /\ statusLog' = [statusLog EXCEPT ![c] = log]
      /\ work' = [work EXCEPT ![w] = Idle]
      /\ UNCHANGED <<pins, team, attachments, teamLog, downloads, opened, stale, served, started>>
  BY <1>1, <1>2, <1>3 DEF WriteStatus, End, Proceed, history
<1>8. cases' \in Seq(CaseRow) /\ Len(cases') = Len(cases)
  BY <1>5, <1>7, Updated DEF TablesOK, CaseId
<1>9. statusLog' \in Seq(Seq(Entry)) /\ Len(statusLog') = Len(statusLog)
  BY <1>5, <1>6, <1>7, Tables, Updated DEF TablesOK
<1>10. /\ pins' \in Seq([Officer -> Nat]) /\ team' \in Seq(MemberRow)
       /\ attachments' \in Seq(FileRow) /\ started' \in 0..MaxRequests
       /\ teamLog' \in Seq([Officer -> Seq({"added", "removed"})])
       /\ downloads' \subseteq Officer \X DOMAIN attachments
       /\ served' \subseteq Officer \X DOMAIN attachments
       /\ stale' \subseteq CaseId \X Officer
  BY <1>7 DEF TablesOK
<1> QED
  BY <1>7, <1>8, <1>9, <1>10, TypesKept

LEMMA TypesPin ==
  ASSUME TablesOK, NEW w \in Worker, InsertPin(w)
  PROVE  TablesOK'
<1>1. PICK c : c = work[w].case
  OBVIOUS
<1>2. PICK row : row = [pins[c] EXCEPT ![work[w].by] = pins[c][work[w].by] + 1]
  OBVIOUS
<1>3. c \in CaseId /\ work[w].by \in Officer
  BY <1>1, TaskOf DEF InsertPin
<1>4. row \in [Officer -> Nat] /\ c \in DOMAIN pins
  BY <1>2, <1>3, Tables
<1>5. /\ pins' = [pins EXCEPT ![c] = row] /\ work' = [work EXCEPT ![w] = Idle]
      /\ UNCHANGED <<cases, team, attachments, statusLog, teamLog, downloads, opened, stale,
                     served, started>>
  BY <1>1, <1>2 DEF InsertPin, EndInserted, auditLog, history
<1>6. pins' \in Seq([Officer -> Nat]) /\ Len(pins') = Len(pins)
  BY <1>4, <1>5, Updated DEF TablesOK
<1>7. /\ cases' \in Seq(CaseRow) /\ started' \in 0..MaxRequests
      /\ team' \in Seq(MemberRow) /\ attachments' \in Seq(FileRow)
      /\ statusLog' \in Seq(Seq(Entry))
      /\ teamLog' \in Seq([Officer -> Seq({"added", "removed"})])
      /\ downloads' \subseteq Officer \X DOMAIN attachments
      /\ served' \subseteq Officer \X DOMAIN attachments
      /\ stale' \subseteq CaseId \X Officer
  BY <1>5 DEF TablesOK
<1> QED
  BY <1>5, <1>6, <1>7, TypesKept

(* One entry is appended to one officer's log of one case.                 *)
LEMMA Logged ==
  ASSUME TablesOK, NEW c \in CaseId, NEW m \in Officer, NEW e \in {"added", "removed"},
         teamLog' = [teamLog EXCEPT ![c][m] = Append(@, e)]
  PROVE  /\ teamLog' \in Seq([Officer -> Seq({"added", "removed"})])
         /\ Len(teamLog') = Len(teamLog)
         /\ teamLog'[c][m] = Append(teamLog[c][m], e)
         /\ \A d \in CaseId, o \in Officer :
              (d # c \/ o # m) => teamLog'[d][o] = teamLog[d][o]
<1>1. PICK row : row = [teamLog[c] EXCEPT ![m] = Append(teamLog[c][m], e)]
  OBVIOUS
<1>2. teamLog[c] \in [Officer -> Seq({"added", "removed"})] /\ c \in DOMAIN teamLog
  BY Tables
<1>3. Append(teamLog[c][m], e) \in Seq({"added", "removed"})
  BY <1>2, Appended
<1>4. /\ row \in [Officer -> Seq({"added", "removed"})]
      /\ row[m] = Append(teamLog[c][m], e)
      /\ \A o \in Officer \ {m} : row[o] = teamLog[c][o]
  BY <1>1, <1>2, <1>3
<1>5. teamLog' = [teamLog EXCEPT ![c] = row]
  BY <1>1
<1>6. /\ teamLog' \in Seq([Officer -> Seq({"added", "removed"})])
      /\ Len(teamLog') = Len(teamLog) /\ teamLog'[c] = row
      /\ \A d \in DOMAIN teamLog : d # c => teamLog'[d] = teamLog[d]
  BY <1>2, <1>4, <1>5, Updated DEF TablesOK
<1> QED
  BY <1>4, <1>6, Tables

LEMMA MemberInserted ==
  ASSUME TablesOK, NEW w \in Worker, InsertMember(w)
  PROVE  /\ work[w].case \in CaseId /\ work[w].officer \in Officer
         /\ team' \in Seq(MemberRow)
         /\ DOMAIN team' = DOMAIN team \cup {Len(team) + 1} /\ Len(team) + 1 \notin DOMAIN team
         /\ \A r \in DOMAIN team : team'[r] = team[r]
         /\ team'[Len(team) + 1].case = work[w].case
         /\ team'[Len(team) + 1].officer = work[w].officer
         /\ team'[Len(team) + 1].removed = FALSE
         /\ teamLog' = [teamLog EXCEPT ![work[w].case][work[w].officer] = Append(@, "added")]
         /\ work' = [work EXCEPT ![w] = Idle]
         /\ UNCHANGED <<cases, pins, attachments, statusLog, downloads, opened, stale, served,
                        started>>
<1>1. PICK row : row = [case |-> work[w].case, officer |-> work[w].officer, removed |-> FALSE]
  OBVIOUS
<1>2. work[w] \in [op : {"add"}, case : CaseId, officer : Officer]
  BY TaskOf DEF InsertMember
<1>3. row \in MemberRow
  BY <1>1, <1>2 DEF MemberRow
<1>4. /\ team' = Append(team, row)
      /\ teamLog' = [teamLog EXCEPT ![work[w].case][work[w].officer] = Append(@, "added")]
      /\ work' = [work EXCEPT ![w] = Idle]
      /\ UNCHANGED <<cases, pins, attachments, statusLog, downloads, opened, stale, served,
                     started>>
  BY <1>1 DEF InsertMember, EndInserted, history
<1>5. /\ team' \in Seq(MemberRow)
      /\ DOMAIN team' = DOMAIN team \cup {Len(team) + 1} /\ Len(team) + 1 \notin DOMAIN team
      /\ \A r \in DOMAIN team : team'[r] = team[r]
      /\ team'[Len(team) + 1] = row
  BY <1>3, <1>4, Appended DEF TablesOK
<1> QED
  BY <1>1, <1>2, <1>4, <1>5

LEMMA TypesInsertMember ==
  ASSUME TablesOK, NEW w \in Worker, InsertMember(w)
  PROVE  TablesOK'
<1>1. CaseId' = CaseId
  BY MemberInserted DEF CaseId
<1>2. MemberRow' = MemberRow /\ FileRow' = FileRow /\ CaseRow' = CaseRow /\ Entry' = Entry
  BY <1>1 DEF MemberRow, FileRow, CaseRow, Entry
<1>3. /\ teamLog' \in Seq([Officer -> Seq({"added", "removed"})])
      /\ Len(teamLog') = Len(teamLog)
  <2>1. /\ work[w].case \in CaseId /\ work[w].officer \in Officer
        /\ teamLog' = [teamLog EXCEPT ![work[w].case][work[w].officer] = Append(@, "added")]
    BY MemberInserted
  <2>2. "added" \in {"added", "removed"}
    OBVIOUS
  <2> QED
    BY <2>1, <2>2, Logged
<1>4. work' \in [Worker -> Task' \cup {Idle}]
  BY <1>1, MemberInserted, WorkTypes
<1>5. /\ cases' \in Seq(CaseRow') /\ opened' \in Seq(Status)
      /\ pins' \in Seq([Officer -> Nat])
      /\ team' \in Seq(MemberRow') /\ attachments' \in Seq(FileRow')
      /\ statusLog' \in Seq(Seq(Entry')) /\ started' \in 0..MaxRequests
      /\ stale' \subseteq CaseId' \X Officer
      /\ downloads' \subseteq Officer \X DOMAIN attachments'
      /\ served' \subseteq Officer \X DOMAIN attachments'
  BY <1>1, <1>2, MemberInserted DEF TablesOK
<1>6. /\ Len(pins') = Len(cases') /\ Len(statusLog') = Len(cases')
      /\ Len(teamLog') = Len(cases') /\ Len(opened') = Len(cases')
  BY <1>3, MemberInserted DEF TablesOK
<1> QED
  BY <1>3, <1>4, <1>5, <1>6 DEF TablesOK

LEMMA RowEnded ==
  ASSUME TablesOK, NEW w \in Worker, WriteRemoval(w),
         NEW r, r = work[w].row
  PROVE  /\ r \in DOMAIN team /\ team[r] \in MemberRow
         /\ team' \in Seq(MemberRow) /\ Len(team') = Len(team)
         /\ DOMAIN team' = DOMAIN team
         /\ \A q \in DOMAIN team : q # r => team'[q] = team[q]
         /\ team'[r].case = team[r].case /\ team'[r].officer = team[r].officer
         /\ team'[r].removed = TRUE
<1>1. PICK row : row = [team[r] EXCEPT !.removed = TRUE]
  OBVIOUS
<1>2. r \in DOMAIN team
  BY TaskOf DEF WriteRemoval
<1>3. team[r] \in MemberRow
  BY <1>2, Tables
<1>4. /\ row \in MemberRow /\ row.case = team[r].case /\ row.officer = team[r].officer
      /\ row.removed = TRUE
  BY <1>1, <1>3 DEF MemberRow
<1>5. team' = [team EXCEPT ![r] = row]
  BY <1>1 DEF WriteRemoval
<1>6. /\ team' \in Seq(MemberRow) /\ Len(team') = Len(team) /\ DOMAIN team' = DOMAIN team
      /\ \A q \in DOMAIN team : q # r => team'[q] = team[q]
      /\ team'[r] = row
  BY <1>2, <1>4, <1>5, Updated DEF TablesOK
<1> QED
  BY <1>2, <1>3, <1>4, <1>6

LEMMA MemberRemoved ==
  ASSUME TablesOK, NEW w \in Worker, WriteRemoval(w),
         NEW r, r = work[w].row
  PROVE  /\ r \in DOMAIN team /\ team[r].case \in CaseId /\ team[r].officer \in Officer
         /\ team' \in Seq(MemberRow) /\ Len(team') = Len(team)
         /\ teamLog' = [teamLog EXCEPT ![team[r].case][team[r].officer] = Append(@, "removed")]
         /\ stale' = IF team[r].removed
                       THEN stale \cup {<<team[r].case, team[r].officer>>} ELSE stale
         /\ work' = [work EXCEPT ![w] = Idle]
         /\ UNCHANGED <<cases, pins, attachments, statusLog, downloads, opened, served, started>>
<1>1. /\ teamLog' = [teamLog EXCEPT ![team[r].case][team[r].officer] = Append(@, "removed")]
      /\ stale' = IF team[r].removed
                    THEN stale \cup {<<team[r].case, team[r].officer>>} ELSE stale
      /\ work' = [work EXCEPT ![w] = Idle]
      /\ UNCHANGED <<cases, pins, attachments, statusLog, downloads, opened, served, started>>
  BY DEF WriteRemoval, End, Proceed
<1> QED
  BY <1>1, RowEnded DEF MemberRow

LEMMA TypesRemoval ==
  ASSUME TablesOK, NEW w \in Worker, WriteRemoval(w)
  PROVE  TablesOK'
<1>1. PICK r : r = work[w].row
  OBVIOUS
<1>2. /\ team[r].case \in CaseId /\ team[r].officer \in Officer
      /\ team' \in Seq(MemberRow) /\ Len(team') = Len(team)
      /\ stale' \subseteq stale \cup {<<team[r].case, team[r].officer>>}
      /\ work' = [work EXCEPT ![w] = Idle]
      /\ UNCHANGED <<cases, pins, attachments, statusLog, downloads, opened, served, started>>
  BY <1>1, MemberRemoved
<1>3. /\ teamLog' \in Seq([Officer -> Seq({"added", "removed"})])
      /\ Len(teamLog') = Len(teamLog)
  <2>1. PICK c \in CaseId, m \in Officer : c = team[r].case /\ m = team[r].officer
    BY <1>2
  <2>2. teamLog' = [teamLog EXCEPT ![c][m] = Append(@, "removed")]
    BY <1>1, <2>1, MemberRemoved
  <2> QED
    BY <2>2, Logged
<1>4. /\ cases' \in Seq(CaseRow) /\ pins' \in Seq([Officer -> Nat])
      /\ attachments' \in Seq(FileRow) /\ started' \in 0..MaxRequests
      /\ statusLog' \in Seq(Seq(Entry))
      /\ downloads' \subseteq Officer \X DOMAIN attachments
      /\ served' \subseteq Officer \X DOMAIN attachments
      /\ stale' \subseteq CaseId \X Officer
  BY <1>2 DEF TablesOK
<1> QED
  BY <1>2, <1>3, <1>4, TypesKept

(* The row of one attachment is rewritten.                                 *)
LEMMA FileChanged ==
  ASSUME TablesOK, NEW f \in DOMAIN attachments, NEW row \in FileRow,
         attachments' = [attachments EXCEPT ![f] = row]
  PROVE  /\ attachments' \in Seq(FileRow) /\ Len(attachments') = Len(attachments)
         /\ DOMAIN attachments' = DOMAIN attachments /\ attachments'[f] = row
         /\ \A g \in DOMAIN attachments : g # f => attachments'[g] = attachments[g]
BY Updated DEF TablesOK

(* A step of an upload, or the end of any request.                         *)
LEMMA TypesFiles ==
  ASSUME TablesOK, NEW w \in Worker, NEW t \in Task \cup {Idle},
         work' = [work EXCEPT ![w] = t],
         attachments' \in Seq(FileRow), Len(attachments') = Len(attachments),
         UNCHANGED <<cases, pins, team, auditLog, history, started>>
  PROVE  TablesOK'
<1>1. UNCHANGED <<cases, pins, team, statusLog, teamLog, downloads, opened, stale, served, started>>
  BY DEF auditLog, history
<1>2. /\ cases' \in Seq(CaseRow) /\ started' \in 0..MaxRequests
      /\ pins' \in Seq([Officer -> Nat]) /\ team' \in Seq(MemberRow)
      /\ statusLog' \in Seq(Seq(Entry))
      /\ teamLog' \in Seq([Officer -> Seq({"added", "removed"})])
      /\ downloads' \subseteq Officer \X DOMAIN attachments
      /\ served' \subseteq Officer \X DOMAIN attachments
      /\ stale' \subseteq CaseId \X Officer
  BY <1>1 DEF TablesOK
<1> QED
  BY <1>1, <1>2, TypesKept

LEMMA FileWritten ==
  ASSUME TablesOK, NEW w \in Worker, Doing(w, "write"),
         NEW part \in {"part", "whole"},
         attachments' = [attachments EXCEPT ![work[w].file].file = part]
  PROVE  /\ attachments' \in Seq(FileRow) /\ Len(attachments') = Len(attachments)
         /\ DOMAIN attachments' = DOMAIN attachments /\ work[w].file \in DOMAIN attachments
         /\ attachments'[work[w].file].file = part
         /\ attachments'[work[w].file].committed = attachments[work[w].file].committed
         /\ \A g \in DOMAIN attachments : g # work[w].file => attachments'[g] = attachments[g]
<1>1. PICK f : f = work[w].file
  OBVIOUS
<1>2. PICK row : row = [attachments[f] EXCEPT !.file = part]
  OBVIOUS
<1>3. f \in DOMAIN attachments
  BY <1>1, TaskOf DEF Uploading
<1>4. row \in FileRow /\ row.file = part /\ row.committed = attachments[f].committed
  BY <1>2, <1>3, Tables DEF FileRow
<1>5. attachments' = [attachments EXCEPT ![f] = row]
  BY <1>1, <1>2
<1> QED
  BY <1>1, <1>3, <1>4, <1>5, FileChanged

LEMMA RowCommitted ==
  ASSUME TablesOK, NEW w \in Worker, CommitRow(w)
  PROVE  /\ attachments' \in Seq(FileRow) /\ Len(attachments') = Len(attachments)
         /\ DOMAIN attachments' = DOMAIN attachments /\ work[w].file \in DOMAIN attachments
         /\ attachments'[work[w].file].file = attachments[work[w].file].file
         /\ \A g \in DOMAIN attachments : g # work[w].file => attachments'[g] = attachments[g]
<1>1. PICK f : f = work[w].file
  OBVIOUS
<1>2. PICK row : row = [attachments[f] EXCEPT !.committed = TRUE]
  OBVIOUS
<1>3. f \in DOMAIN attachments
  BY <1>1, TaskOf DEF Uploading, CommitRow
<1>4. row \in FileRow /\ row.file = attachments[f].file
  BY <1>2, <1>3, Tables DEF FileRow
<1>5. attachments' = [attachments EXCEPT ![f] = row]
  BY <1>1, <1>2 DEF CommitRow
<1> QED
  BY <1>1, <1>3, <1>4, <1>5, FileChanged

(* The task an upload or a download goes on with.                          *)
LEMMA NextTask ==
  ASSUME TablesOK, NEW w \in Worker
  PROVE  /\ Doing(w, "write") =>
              [work[w] EXCEPT !.op = "commit"] = [op |-> "commit", file |-> work[w].file]
         /\ Doing(w, "write") => [op |-> "commit", file |-> work[w].file] \in Task
         /\ Doing(w, "download") =>
              [work[w] EXCEPT !.op = "send"] =
                [op |-> "send", by |-> work[w].by, file |-> work[w].file]
         /\ Doing(w, "download") =>
              [op |-> "send", by |-> work[w].by, file |-> work[w].file] \in Task
BY TaskOf DEF Task, Uploading

LEMMA TypesUploads ==
  ASSUME TablesOK, NEW w \in Worker, WriteFile(w) \/ CommitRow(w) \/ Fail(w)
  PROVE  TablesOK'
<1>1. CASE WriteFile(w)
  <2>1. /\ work' = [work EXCEPT ![w] = [op |-> "commit", file |-> work[w].file]]
        /\ UNCHANGED <<cases, pins, team, auditLog, history, started>>
    BY <1>1, NextTask DEF WriteFile, Proceed
  <2>2. attachments' \in Seq(FileRow) /\ Len(attachments') = Len(attachments)
    BY <1>1, FileWritten DEF WriteFile
  <2>3. [op |-> "commit", file |-> work[w].file] \in Task
    BY <1>1, NextTask DEF WriteFile
  <2> QED
    BY <2>1, <2>2, <2>3, TypesFiles
<1>2. CASE CommitRow(w)
  BY <1>2, RowCommitted, TypesFiles DEF CommitRow, End, Proceed
<1>3. CASE Fail(w)
  <2>1. attachments' \in Seq(FileRow) /\ Len(attachments') = Len(attachments)
    <3>1. CASE UNCHANGED attachments
      BY <3>1 DEF TablesOK
    <3>2. ASSUME Doing(w, "write"), NEW f \in {"part", "whole"},
                 attachments' = [attachments EXCEPT ![work[w].file].file = f]
          PROVE  attachments' \in Seq(FileRow) /\ Len(attachments') = Len(attachments)
      BY <3>2, FileWritten
    <3> QED
      BY <1>3, <3>1, <3>2 DEF Fail
  <2> QED
    BY <1>3, <2>1, TypesFiles DEF Fail, End, Proceed
<1> QED
  BY <1>1, <1>2, <1>3

LEMMA TypesDownloads ==
  ASSUME TablesOK, NEW w \in Worker, AuditDownload(w) \/ SendFile(w)
  PROVE  TablesOK'
<1>1. work[w].by \in Officer /\ work[w].file \in DOMAIN attachments
  BY TaskOf DEF AuditDownload, SendFile
<1>2. /\ downloads' \subseteq Officer \X DOMAIN attachments
      /\ served' \subseteq Officer \X DOMAIN attachments
  BY <1>1 DEF TablesOK, AuditDownload, SendFile, auditLog, history
<1>3. UNCHANGED <<cases, pins, team, attachments, statusLog, teamLog, opened, stale, started>>
  BY DEF AuditDownload, SendFile, rows, auditLog, history, End, Proceed
<1>4. CASE AuditDownload(w)
  <2>1. [op |-> "send", by |-> work[w].by, file |-> work[w].file] \in Task
    BY <1>4, NextTask DEF AuditDownload
  <2>2. work' = [work EXCEPT ![w] = [op |-> "send", by |-> work[w].by, file |-> work[w].file]]
    BY <1>4, NextTask DEF AuditDownload, Proceed
  <2> QED
    BY <1>2, <1>3, <2>1, <2>2, Counted, TypesOfTask
<1>5. CASE SendFile(w)
  <2>1. work' = [work EXCEPT ![w] = Idle]
    BY <1>5 DEF SendFile, End, Proceed
  <2> QED
    BY <1>2, <1>3, <2>1, Counted, TypesOfTask
<1> QED
  BY <1>4, <1>5

LEMMA TypesNext ==
  ASSUME TablesOK, Next
  PROVE  TablesOK'
<1>1. ASSUME NEW w \in Worker, Continue(w)
      PROVE  TablesOK'
  BY <1>1, TypesInsertCase, TypesStatus, TypesPin, TypesInsertMember, TypesRemoval,
     TypesUploads, TypesDownloads DEF Continue
<1>2. ASSUME NEW w \in Worker, NEW o \in Officer, Begin(w, o)
      PROVE  TablesOK'
  BY <1>2, TypesBegins, TypesUnpin, TypesUpload
<1> QED
  BY <1>1, <1>2 DEF Next

-----------------------------------------------------------------------------
(* What a step leaves alone                                                *)

(* Who is doing op after the step was doing the same before.               *)
Goes(v, op) == Doing(v, op)' => Doing(v, op) /\ work'[v] = work[v]

LEMMA OneGoes ==
  ASSUME TablesOK, NEW w \in Worker, NEW t, work' = [work EXCEPT ![w] = t],
         NEW op, t # Idle => t.op # op, NEW v \in Worker
  PROVE  Goes(v, op)
BY OneWorker DEF Goes, Doing

LEMMA ContinueTask ==
  ASSUME TablesOK, NEW w \in Worker, Continue(w)
  PROVE  \/ work' = [work EXCEPT ![w] = Idle]
         \/ WriteFile(w) /\ work' = [work EXCEPT ![w] = [op |-> "commit", file |-> work[w].file]]
         \/ /\ AuditDownload(w)
            /\ work' = [work EXCEPT ![w] =
                          [op |-> "send", by |-> work[w].by, file |-> work[w].file]]
<1>1. CASE WriteFile(w)
  BY <1>1, NextTask DEF WriteFile, Proceed
<1>2. CASE AuditDownload(w)
  BY <1>2, NextTask DEF AuditDownload, Proceed
<1> QED
  BY <1>1, <1>2 DEF Continue, InsertCase, WriteStatus, InsertPin, InsertMember, WriteRemoval,
     CommitRow, SendFile, Fail, End, EndInserted, Proceed

LEMMA ContinueGoes ==
  ASSUME TablesOK, NEW w \in Worker, Continue(w), NEW v \in Worker
  PROVE  /\ Goes(v, "status") /\ Goes(v, "add") /\ Goes(v, "write")
         /\ WriteFile(w) \/ Goes(v, "commit")
         /\ AuditDownload(w) \/ Goes(v, "send")
<1>1. CASE work' = [work EXCEPT ![w] = Idle]
  BY <1>1, OneGoes
<1>2. ASSUME WriteFile(w), NEW t, t = [op |-> "commit", file |-> work[w].file],
             work' = [work EXCEPT ![w] = t]
      PROVE  /\ Goes(v, "status") /\ Goes(v, "add") /\ Goes(v, "write")
             /\ Goes(v, "send")
  <2>1. t.op = "commit"
    BY <1>2
  <2> QED
    BY <1>2, <2>1, OneGoes
<1>3. ASSUME AuditDownload(w),
             NEW t, t = [op |-> "send", by |-> work[w].by, file |-> work[w].file],
             work' = [work EXCEPT ![w] = t]
      PROVE  /\ Goes(v, "status") /\ Goes(v, "add") /\ Goes(v, "write")
             /\ Goes(v, "commit")
  <2>1. t.op = "send"
    BY <1>3
  <2> QED
    BY <1>3, <2>1, OneGoes
<1> QED
  BY <1>1, <1>2, <1>3, ContinueTask

(* What a request asks for when it begins.                                 *)
LEMMA BeginTask ==
  ASSUME TablesOK, NEW w \in Worker, NEW o \in Officer, Begin(w, o)
  PROVE  \/ \E c \in CaseId : Unpin(w, o, c) /\ work' = [work EXCEPT ![w] = Idle]
         \/ \E c \in CaseId :
              /\ BeginUpload(w, o, c)
              /\ work' = [work EXCEPT ![w] = [op |-> "write", file |-> Len(attachments) + 1]]
         \/ /\ UNCHANGED <<rows, auditLog, history>>
            /\ \/ \E c \in CaseId, s \in Status :
                    work' = [work EXCEPT ![w] =
                      [op |-> "status", case |-> c, previous |-> cases[c].status, new |-> s]]
               \/ \E c \in CaseId, m \in Officer :
                    /\ MayAdd(o, c, m)
                    /\ work' = [work EXCEPT ![w] = [op |-> "add", case |-> c, officer |-> m]]
               \/ \E t : /\ work' = [work EXCEPT ![w] = t]
                         /\ t.op \in {"create", "pin", "remove", "download"}
<1>1. ASSUME NEW c \in CaseId, Unpin(w, o, c)
      PROVE  work' = [work EXCEPT ![w] = Idle]
  BY <1>1 DEF Unpin, TablesOK
<1>2. ASSUME NEW c \in CaseId, BeginUpload(w, o, c)
      PROVE  work' = [work EXCEPT ![w] = [op |-> "write", file |-> Len(attachments) + 1]]
  BY <1>2 DEF BeginUpload, Arrive
<1>3. ASSUME NEW n \in Number, NEW s \in Status, NEW a \in Area, BeginCreate(w, o, n, s, a)
      PROVE  /\ UNCHANGED <<rows, auditLog, history>>
             /\ \E t : /\ work' = [work EXCEPT ![w] = t]
                       /\ t.op \in {"create", "pin", "remove", "download"}
  <2>1. PICK t : t = [op |-> "create", by |-> o, number |-> n, status |-> s, area |-> a]
    OBVIOUS
  <2>2. t.op \in {"create", "pin", "remove", "download"}
    BY <2>1
  <2>3. work' = [work EXCEPT ![w] = t] /\ UNCHANGED <<rows, auditLog, history>>
    BY <1>3, <2>1 DEF BeginCreate, Arrive
  <2> QED
    BY <2>2, <2>3
<1>4. ASSUME NEW c \in CaseId, NEW s \in Status, BeginStatus(w, o, c, s)
      PROVE  /\ UNCHANGED <<rows, auditLog, history>>
             /\ work' = [work EXCEPT ![w] =
                  [op |-> "status", case |-> c, previous |-> cases[c].status, new |-> s]]
  BY <1>4 DEF BeginStatus, Arrive
<1>5. ASSUME NEW c \in CaseId, BeginPin(w, o, c)
      PROVE  /\ UNCHANGED <<rows, auditLog, history>>
             /\ \E t : /\ work' = [work EXCEPT ![w] = t]
                       /\ t.op \in {"create", "pin", "remove", "download"}
  <2>1. PICK t : t = [op |-> "pin", by |-> o, case |-> c]
    OBVIOUS
  <2>2. t.op \in {"create", "pin", "remove", "download"}
    BY <2>1
  <2>3. work' = [work EXCEPT ![w] = t] /\ UNCHANGED <<rows, auditLog, history>>
    BY <1>5, <2>1 DEF BeginPin, Arrive
  <2> QED
    BY <2>2, <2>3
<1>6. ASSUME NEW c \in CaseId, NEW m \in Officer, BeginAdd(w, o, c, m)
      PROVE  /\ UNCHANGED <<rows, auditLog, history>> /\ MayAdd(o, c, m)
             /\ work' = [work EXCEPT ![w] = [op |-> "add", case |-> c, officer |-> m]]
  BY <1>6 DEF BeginAdd, Arrive
<1>7. ASSUME NEW c \in CaseId, NEW m \in Officer, BeginRemove(w, o, c, m)
      PROVE  /\ UNCHANGED <<rows, auditLog, history>>
             /\ \E t : /\ work' = [work EXCEPT ![w] = t]
                       /\ t.op \in {"create", "pin", "remove", "download"}
  <2>1. PICK r : Arrive(w, [op |-> "remove", row |-> r])
    BY <1>7 DEF BeginRemove
  <2>2. PICK t : t = [op |-> "remove", row |-> r]
    OBVIOUS
  <2>3. t.op \in {"create", "pin", "remove", "download"}
    BY <2>2
  <2>4. work' = [work EXCEPT ![w] = t] /\ UNCHANGED <<rows, auditLog, history>>
    BY <1>7, <2>1, <2>2 DEF BeginRemove, Arrive
  <2> QED
    BY <2>3, <2>4
<1>8. ASSUME NEW f \in DOMAIN attachments, BeginDownload(w, o, f)
      PROVE  /\ UNCHANGED <<rows, auditLog, history>>
             /\ \E t : /\ work' = [work EXCEPT ![w] = t]
                       /\ t.op \in {"create", "pin", "remove", "download"}
  <2>1. PICK t : t = [op |-> "download", by |-> o, file |-> f]
    OBVIOUS
  <2>2. t.op \in {"create", "pin", "remove", "download"}
    BY <2>1
  <2>3. work' = [work EXCEPT ![w] = t] /\ UNCHANGED <<rows, auditLog, history>>
    BY <1>8, <2>1 DEF BeginDownload, Arrive
  <2> QED
    BY <2>2, <2>3
<1> QED
  BY <1>1, <1>2, <1>3, <1>4, <1>5, <1>6, <1>7, <1>8 DEF Begin

-----------------------------------------------------------------------------
(* At most one row                                                         *)

LEMMA SameRows ==
  ASSUME AtMostOneRow, UNCHANGED <<cases, pins, team>>
  PROVE  AtMostOneRow'
BY DEF AtMostOneRow, CaseId

LEMMA RowsInsertCase ==
  ASSUME TablesOK, AtMostOneRow, NEW w \in Worker, InsertCase(w)
  PROVE  AtMostOneRow'
<1>1. PICK row : row = [number |-> work[w].number, status |-> work[w].status,
                        area |-> work[w].area, lead |-> work[w].by]
  OBVIOUS
<1>2. row \in CaseRow
  BY <1>1, TaskOf DEF InsertCase, CaseRow
<1>3. /\ cases' = Append(cases, row) /\ pins' = Append(pins, [o \in Officer |-> 0])
      /\ UNCHANGED team /\ NumberFree(row.number)
  BY <1>1 DEF InsertCase, Insertable
<1>4. PICK n : n = Len(cases) + 1
  OBVIOUS
<1>5. /\ CaseId' = CaseId \cup {n} /\ cases'[n] = row
      /\ \A c \in CaseId : cases'[c] = cases[c]
  BY <1>2, <1>3, <1>4, Appended DEF TablesOK, CaseId
<1>6. /\ \A c \in CaseId : pins'[c] = pins[c]
      /\ pins'[n] = [o \in Officer |-> 0]
  <2>1. /\ pins \in Seq([Officer -> Nat]) /\ [o \in Officer |-> 0] \in [Officer -> Nat]
        /\ Len(pins) = Len(cases) /\ DOMAIN pins = CaseId
    BY Tables DEF TablesOK
  <2> QED
    BY <1>3, <1>4, <2>1, Appended
<1>7. ASSUME NEW c \in CaseId', NEW d \in CaseId', cases'[c].number = cases'[d].number
      PROVE  c = d
  <2>1. \A e \in CaseId : cases'[e].number # row.number
    BY <1>3, <1>5 DEF NumberFree
  <2>2. CASE c \in CaseId /\ d \in CaseId
    BY <1>5, <1>7, <2>2 DEF AtMostOneRow
  <2> QED
    BY <1>5, <1>7, <2>1, <2>2
<1>8. \A c \in CaseId', o \in Officer : pins'[c][o] <= 1
  BY <1>5, <1>6 DEF AtMostOneRow
<1> QED
  BY <1>3, <1>7, <1>8 DEF AtMostOneRow

LEMMA StatusWritten ==
  ASSUME TablesOK, NEW w \in Worker, WriteStatus(w), NEW k, k = work[w].case
  PROVE  /\ k \in CaseId /\ CaseId' = CaseId /\ work[w].new \in Status
         /\ work[w].previous \in Status
         /\ \A c \in CaseId : /\ cases'[c].number = cases[c].number
                              /\ cases'[c].lead = cases[c].lead
                              /\ c # k => cases'[c] = cases[c]
         /\ cases'[k].status = work[w].new
         /\ statusLog'[k] = Append(statusLog[k], StatusEntry(work[w]))
         /\ \A c \in CaseId : c # k => statusLog'[c] = statusLog[c]
<1>1. work[w] \in [op : {"status"}, case : CaseId, previous : Status, new : Status]
  BY TaskOf DEF WriteStatus
<1>2. PICK row : row = [cases[k] EXCEPT !.status = work[w].new]
  OBVIOUS
<1>3. /\ row \in CaseRow /\ row.number = cases[k].number /\ row.lead = cases[k].lead
      /\ row.status = work[w].new
  BY <1>1, <1>2, Tables DEF CaseRow
<1>4. cases' = [cases EXCEPT ![k] = row]
  BY <1>2 DEF WriteStatus
<1>5. /\ DOMAIN cases' = DOMAIN cases /\ cases'[k] = row
      /\ \A c \in DOMAIN cases : c # k => cases'[c] = cases[c]
  BY <1>1, <1>3, <1>4, Updated DEF TablesOK, CaseId
<1>6. k \in DOMAIN statusLog /\ statusLog[k] \in Seq(Entry)
  BY <1>1, Tables
<1>7. /\ StatusEntry(work[w]) \in Entry
      /\ statusLog' = [statusLog EXCEPT ![k] = Append(statusLog[k], StatusEntry(work[w]))]
  BY <1>1 DEF WriteStatus, StatusEntry, Entry
<1>8. /\ statusLog'[k] = Append(statusLog[k], StatusEntry(work[w]))
      /\ \A c \in DOMAIN statusLog : c # k => statusLog'[c] = statusLog[c]
  BY <1>6, <1>7, Appended, Updated DEF TablesOK
<1> QED
  BY <1>1, <1>3, <1>5, <1>8, Tables DEF CaseId

LEMMA RowsStatus ==
  ASSUME TablesOK, AtMostOneRow, NEW w \in Worker, WriteStatus(w)
  PROVE  AtMostOneRow'
<1>1. CaseId' = CaseId /\ \A c \in CaseId : cases'[c].number = cases[c].number
  BY StatusWritten
<1>2. UNCHANGED <<pins, team>>
  BY DEF WriteStatus
<1> QED
  BY <1>1, <1>2 DEF AtMostOneRow

LEMMA RowsPins ==
  ASSUME TablesOK, AtMostOneRow,
         NEW c \in CaseId, NEW o \in Officer, NEW n \in {0, 1},
         pins' = [pins EXCEPT ![c][o] = n], UNCHANGED <<cases, team>>
  PROVE  AtMostOneRow'
<1>1. PICK row : row = [pins[c] EXCEPT ![o] = n]
  OBVIOUS
<1>2. /\ row \in [Officer -> Nat] /\ \A m \in Officer : row[m] <= 1
      /\ c \in DOMAIN pins
  BY <1>1, Tables DEF AtMostOneRow
<1>3. pins' = [pins EXCEPT ![c] = row]
  BY <1>1
<1>4. /\ pins'[c] = row /\ \A d \in CaseId : d # c => pins'[d] = pins[d]
  BY <1>2, <1>3, Updated, Tables DEF TablesOK
<1>5. \A d \in CaseId, m \in Officer : pins'[d][m] <= 1
  BY <1>2, <1>4 DEF AtMostOneRow
<1> QED
  BY <1>5 DEF AtMostOneRow, CaseId

LEMMA RowsMember ==
  ASSUME TablesOK, AtMostOneRow, NEW w \in Worker, InsertMember(w)
  PROVE  AtMostOneRow'
<1>1. PICK n : n = Len(team) + 1
  OBVIOUS
<1>2. ActiveRows(work[w].case, work[w].officer) = {}
  BY DEF InsertMember, Joinable
<1>3. /\ DOMAIN team' = DOMAIN team \cup {n} /\ \A r \in DOMAIN team : team'[r] = team[r]
      /\ team'[n].case = work[w].case /\ team'[n].officer = work[w].officer
      /\ UNCHANGED <<cases, pins>>
  <2>1. DOMAIN team' = DOMAIN team \cup {n}
    BY <1>1, MemberInserted
  <2>2. \A r \in DOMAIN team : team'[r] = team[r]
    BY <1>1, MemberInserted
  <2>3. team'[n].case = work[w].case /\ team'[n].officer = work[w].officer
    BY <1>1, MemberInserted
  <2>4. UNCHANGED <<cases, pins>>
    BY <1>1, MemberInserted
  <2> QED
    BY <2>1, <2>2, <2>3, <2>4
<1>4. \A r \in DOMAIN team :
        ~(~team[r].removed /\ team[r].case = work[w].case /\ team[r].officer = work[w].officer)
  BY <1>2 DEF ActiveRows
<1>5. \A r, q \in DOMAIN team' :
        (/\ ~team'[r].removed /\ ~team'[q].removed
         /\ team'[r].case = team'[q].case /\ team'[r].officer = team'[q].officer) => r = q
  BY <1>3, <1>4 DEF AtMostOneRow
<1> QED
  BY <1>3, <1>5 DEF AtMostOneRow, CaseId

LEMMA RowsRemoval ==
  ASSUME TablesOK, AtMostOneRow, NEW w \in Worker, WriteRemoval(w)
  PROVE  AtMostOneRow'
<1>1. PICK n : n = work[w].row
  OBVIOUS
<1>2. /\ DOMAIN team' = DOMAIN team /\ \A r \in DOMAIN team : r # n => team'[r] = team[r]
      /\ team'[n].removed = TRUE /\ UNCHANGED <<cases, pins>>
  BY <1>1, RowEnded DEF WriteRemoval
<1>3. \A r, q \in DOMAIN team' :
        (/\ ~team'[r].removed /\ ~team'[q].removed
         /\ team'[r].case = team'[q].case /\ team'[r].officer = team'[q].officer) => r = q
  BY <1>2 DEF AtMostOneRow
<1> QED
  BY <1>2, <1>3 DEF AtMostOneRow, CaseId

LEMMA RowsNext ==
  ASSUME TablesOK, AtMostOneRow, Next
  PROVE  AtMostOneRow'
<1>1. ASSUME NEW w \in Worker, Continue(w)
      PROVE  AtMostOneRow'
  <2>1. ASSUME InsertPin(w)
        PROVE  AtMostOneRow'
    <3>1. work[w].case \in CaseId /\ work[w].by \in Officer
      BY <2>1, TaskOf DEF InsertPin
    <3>2. pins' = [pins EXCEPT ![work[w].case][work[w].by] = 1]
      BY <2>1 DEF InsertPin, Pinnable
    <3> QED
      BY <2>1, <3>1, <3>2, RowsPins DEF InsertPin
  <2>2. CASE \/ WriteFile(w) \/ CommitRow(w) \/ AuditDownload(w) \/ SendFile(w) \/ Fail(w)
    BY <2>2, SameRows DEF WriteFile, CommitRow, AuditDownload, SendFile, Fail, rows
  <2> QED
    BY <1>1, <2>1, <2>2, RowsInsertCase, RowsStatus, RowsMember, RowsRemoval DEF Continue
<1>2. ASSUME NEW w \in Worker, NEW o \in Officer, Begin(w, o)
      PROVE  AtMostOneRow'
  <2>1. ASSUME NEW c \in CaseId, Unpin(w, o, c)
        PROVE  AtMostOneRow'
    BY <2>1, RowsPins DEF Unpin
  <2>2. CASE \A c \in CaseId : ~Unpin(w, o, c)
    BY <1>2, <2>2, BeginTask, SameRows DEF rows, BeginUpload
  <2> QED
    BY <2>1, <2>2
<1> QED
  BY <1>1, <1>2 DEF Next

-----------------------------------------------------------------------------
(* Conflicts are races                                                     *)

(* The row a task would insert is there.                                   *)
Taken(t) ==
  \/ t.op = "create" /\ \E c \in DOMAIN cases : cases[c].number = t.number
  \/ t.op = "pin" /\ pins[t.case][t.by] > 0
  \/ t.op = "add" /\ \E r \in DOMAIN team : /\ team[r].case = t.case
                                            /\ team[r].officer = t.officer
                                            /\ ~team[r].removed

LEMMA ConflictTaken ==
  ASSUME NEW v \in Worker, NEW t
  PROVE  /\ work[v] = t => (Conflicts(v) <=> t # Idle /\ Taken(t))
         /\ work'[v] = t => (Conflicts(v)' <=> t # Idle /\ Taken(t)')
<1>1. work[v] = t => (Conflicts(v) <=> t # Idle /\ Taken(t))
  BY DEF Conflicts, Taken, Doing, NumberFree, ActiveRows, CaseId
<1>2. ASSUME work'[v] = t
      PROVE  Conflicts(v)' <=> t # Idle /\ Taken(t)'
  BY <1>2 DEF Conflicts, Taken, Doing, NumberFree, ActiveRows, CaseId
<1> QED
  BY <1>1, <1>2

(* Whoever finds the row of his task taken by this step is overtaken by it.*)
LEMMA RacesStep ==
  ASSUME TablesOK, RacesInv, NEW w \in Worker, NEW s, work' = [work EXCEPT ![w] = s],
         s # Idle => ~Taken(s)', overtaken' \subseteq Worker,
         \A v \in Worker \ {w} : v \in overtaken => v \in overtaken',
         \A v \in Worker \ {w}, t \in Task \ {Idle} :
           work[v] = t /\ Taken(t)' => Taken(t) \/ v \in overtaken'
  PROVE  RacesInv'
<1>1. ASSUME NEW v \in Worker, Conflicts(v)'
      PROVE  v \in overtaken'
  <2>1. CASE v = w
    <3>1. work'[w] = s
      BY OneWorker
    <3> QED
      BY <1>1, <2>1, <3>1, ConflictTaken
  <2>2. CASE v # w
    <3>1. PICK t : t = work[v]
      OBVIOUS
    <3>2. work'[v] = t
      BY <2>2, <3>1, OneWorker
    <3>3. t # Idle /\ Taken(t)'
      BY <1>1, <3>2, ConflictTaken
    <3>4. t \in Task
      BY <3>1, <3>3 DEF TablesOK
    <3>5. CASE Taken(t)
      <4>1. Conflicts(v)
        BY <3>1, <3>3, <3>5, ConflictTaken
      <4> QED
        BY <2>2, <4>1 DEF RacesInv
    <3> QED
      BY <2>2, <3>1, <3>3, <3>4, <3>5
  <2> QED
    BY <2>1, <2>2
<1> QED
  BY <1>1 DEF RacesInv

(* No row appears.                                                         *)
LEMMA RacesQuiet ==
  ASSUME TablesOK, RacesInv, NEW w \in Worker, NEW s, work' = [work EXCEPT ![w] = s],
         s # Idle => ~Taken(s), UNCHANGED <<cases, pins, team>>,
         overtaken' \in {overtaken, overtaken \ {w}}
  PROVE  RacesInv'
<1>1. \A t : Taken(t)' <=> Taken(t)
  BY DEF Taken
<1> QED
  BY <1>1, RacesStep DEF RacesInv

(* Those that would insert the same row are overtaken.                     *)
LEMMA Overtakes ==
  ASSUME RacesInv, NEW w \in Worker, EndInserted(w), Inserting(w)
  PROVE  /\ work' = [work EXCEPT ![w] = Idle] /\ overtaken' \subseteq Worker
         /\ \A v \in Worker \ {w} : v \in overtaken => v \in overtaken'
         /\ \A v \in Worker \ {w} :
              (/\ work[v] # Idle /\ work[v].op = work[w].op
               /\ Key(work[v]) = Key(work[w])) => v \in overtaken'
BY DEF EndInserted, RacesInv, Inserting, Doing

LEMMA RacesInsertCase ==
  ASSUME TablesOK, RacesInv, NEW w \in Worker, InsertCase(w)
  PROVE  RacesInv'
<1>1. PICK row : row = [number |-> work[w].number, status |-> work[w].status,
                        area |-> work[w].area, lead |-> work[w].by]
  OBVIOUS
<1>2. row \in CaseRow
  BY <1>1, TaskOf DEF InsertCase, CaseRow
<1>3. /\ cases' = Append(cases, row) /\ pins' = Append(pins, [o \in Officer |-> 0])
      /\ UNCHANGED team /\ row.number = work[w].number
  BY <1>1 DEF InsertCase
<1>4. PICK n : n = Len(cases) + 1
  OBVIOUS
<1>5. /\ DOMAIN cases' = DOMAIN cases \cup {n} /\ cases'[n] = row
      /\ \A c \in DOMAIN cases : cases'[c] = cases[c]
  BY <1>2, <1>3, <1>4, Appended DEF TablesOK
<1>6. \A c \in CaseId : pins'[c] = pins[c]
  <2>1. /\ pins \in Seq([Officer -> Nat]) /\ [o \in Officer |-> 0] \in [Officer -> Nat]
        /\ DOMAIN pins = CaseId
    BY Tables DEF TablesOK
  <2> QED
    BY <1>3, <2>1, Appended
<1>7. Doing(w, "create") /\ Inserting(w) /\ EndInserted(w)
  BY DEF InsertCase, Inserting
<1>8. ASSUME NEW v \in Worker \ {w}, NEW t \in Task, t # Idle, work[v] = t,
             Taken(t)', ~Taken(t)
      PROVE  v \in overtaken'
  <2>1. t.op = "create" /\ t.number = work[w].number
    <3>1. t.op = "pin" => t.case \in CaseId
      BY DEF Task
    <3> QED
      BY <1>3, <1>5, <1>6, <1>8, <3>1 DEF Taken
  <2>2. Key(work[v]) = Key(work[w])
    BY <1>7, <1>8, <2>1 DEF Key, Doing
  <2> QED
    BY <1>7, <1>8, <2>1, <2>2, Overtakes DEF Doing
<1> QED
  BY <1>7, <1>8, Overtakes, RacesStep

LEMMA RacesInsertPin ==
  ASSUME TablesOK, RacesInv, NEW w \in Worker, InsertPin(w)
  PROVE  RacesInv'
<1>1. Doing(w, "pin") /\ Inserting(w) /\ EndInserted(w) /\ UNCHANGED <<cases, team>>
  BY DEF InsertPin, Inserting
<1>2. PICK c \in CaseId, o \in Officer : c = work[w].case /\ o = work[w].by
  BY <1>1, TaskOf
<1>3. PICK row : row = [pins[c] EXCEPT ![o] = 1]
  OBVIOUS
<1>4. row \in [Officer -> Nat] /\ c \in DOMAIN pins /\ \A m \in Officer \ {o} : row[m] = pins[c][m]
  BY <1>2, <1>3, Tables
<1>5. pins' = [pins EXCEPT ![c] = row]
  BY <1>2, <1>3 DEF InsertPin, Pinnable
<1>6. pins'[c] = row /\ \A d \in CaseId : d # c => pins'[d] = pins[d]
  BY <1>4, <1>5, Updated, Tables DEF TablesOK
<1>7. ASSUME NEW v \in Worker \ {w}, NEW t \in Task, t # Idle, work[v] = t,
             Taken(t)', ~Taken(t)
      PROVE  v \in overtaken'
  <2>1. t.op = "pin"
    BY <1>1, <1>7 DEF Taken
  <2>2. t.case \in CaseId /\ t.by \in Officer
    BY <2>1 DEF Task
  <2>3. t.case = c /\ t.by = o
    BY <1>4, <1>6, <1>7, <2>1, <2>2 DEF Taken
  <2>4. Key(work[v]) = Key(work[w])
    BY <1>1, <1>2, <1>7, <2>1, <2>3 DEF Key, Doing
  <2> QED
    BY <1>1, <1>7, <2>1, <2>4, Overtakes DEF Doing
<1> QED
  BY <1>1, <1>7, Overtakes, RacesStep

LEMMA RacesInsertMember ==
  ASSUME TablesOK, RacesInv, NEW w \in Worker, InsertMember(w)
  PROVE  RacesInv'
<1>1. Doing(w, "add") /\ Inserting(w) /\ EndInserted(w)
  BY DEF InsertMember, Inserting
<1>2. PICK n : n = Len(team) + 1
  OBVIOUS
<1>3. DOMAIN team' = DOMAIN team \cup {n} /\ UNCHANGED <<cases, pins>>
  BY <1>2, MemberInserted
<1>4. \A r \in DOMAIN team : team'[r] = team[r]
  BY MemberInserted
<1>5. team'[n].case = work[w].case /\ team'[n].officer = work[w].officer
  BY <1>2, MemberInserted
<1>6. ASSUME NEW v \in Worker \ {w}, NEW t \in Task, t # Idle, work[v] = t,
             Taken(t)', ~Taken(t)
      PROVE  v \in overtaken'
  <2>1. t.op = "add" /\ t.case = work[w].case /\ t.officer = work[w].officer
    BY <1>3, <1>4, <1>5, <1>6 DEF Taken
  <2>2. Key(work[v]) = Key(work[w])
    BY <1>1, <1>6, <2>1 DEF Key, Doing
  <2> QED
    BY <1>1, <1>6, <2>1, <2>2, Overtakes DEF Doing
<1> QED
  BY <1>1, <1>6, Overtakes, RacesStep

LEMMA RacesContinue ==
  ASSUME TablesOK, RacesInv, NEW w \in Worker, Continue(w)
  PROVE  RacesInv'
<1>1. CASE WriteStatus(w)
  <2>1. PICK k : k = work[w].case
    OBVIOUS
  <2>2. /\ DOMAIN cases' = DOMAIN cases
        /\ \A c \in DOMAIN cases : cases'[c].number = cases[c].number
    BY <1>1, <2>1, StatusWritten DEF CaseId
  <2>3. /\ UNCHANGED <<pins, team>> /\ overtaken' = overtaken \ {w}
        /\ work' = [work EXCEPT ![w] = Idle]
    BY <1>1 DEF WriteStatus, End, Proceed
  <2>4. \A t : Taken(t)' <=> Taken(t)
    BY <2>2, <2>3 DEF Taken
  <2> QED
    BY <2>3, <2>4, RacesStep DEF RacesInv
<1>2. CASE WriteRemoval(w)
  <2>1. PICK n : n = work[w].row
    OBVIOUS
  <2>2. /\ DOMAIN team' = DOMAIN team /\ \A r \in DOMAIN team : r # n => team'[r] = team[r]
        /\ team'[n].removed = TRUE
    BY <1>2, <2>1, RowEnded
  <2>3. /\ UNCHANGED <<cases, pins>> /\ overtaken' = overtaken \ {w}
        /\ work' = [work EXCEPT ![w] = Idle]
    BY <1>2 DEF WriteRemoval, End, Proceed
  <2>4. \A t : Taken(t)' => Taken(t)
    BY <2>2, <2>3 DEF Taken
  <2> QED
    BY <2>3, <2>4, RacesStep DEF RacesInv
<1>3. CASE WriteFile(w)
  <2>1. PICK s : s = [op |-> "commit", file |-> work[w].file]
    OBVIOUS
  <2>2. work' = [work EXCEPT ![w] = s]
    BY <1>3, <2>1, NextTask DEF WriteFile, Proceed
  <2>3. UNCHANGED <<cases, pins, team>> /\ overtaken' = overtaken \ {w}
    BY <1>3 DEF WriteFile, Proceed
  <2>4. ~Taken(s)
    BY <2>1 DEF Taken
  <2> QED
    BY <2>2, <2>3, <2>4, RacesQuiet
<1>4. CASE AuditDownload(w)
  <2>1. PICK s : s = [op |-> "send", by |-> work[w].by, file |-> work[w].file]
    OBVIOUS
  <2>2. work' = [work EXCEPT ![w] = s]
    BY <1>4, <2>1, NextTask DEF AuditDownload, Proceed
  <2>3. UNCHANGED <<cases, pins, team>> /\ overtaken' = overtaken \ {w}
    BY <1>4 DEF AuditDownload, Proceed, rows
  <2>4. ~Taken(s)
    BY <2>1 DEF Taken
  <2> QED
    BY <2>2, <2>3, <2>4, RacesQuiet
<1>5. CASE CommitRow(w) \/ SendFile(w) \/ Fail(w)
  BY <1>5, RacesQuiet DEF CommitRow, SendFile, Fail, End, Proceed, rows
<1> QED
  BY <1>1, <1>2, <1>3, <1>4, <1>5, RacesInsertCase, RacesInsertPin, RacesInsertMember
     DEF Continue

(* A request was checked when it began.                                    *)
LEMMA RacesArrive ==
  ASSUME TablesOK, RacesInv, NEW w \in Worker, NEW s, Arrive(w, s), ~Taken(s),
         UNCHANGED <<cases, pins, team>>
  PROVE  RacesInv'
BY RacesQuiet DEF Arrive

LEMMA RacesBegin ==
  ASSUME TablesOK, RacesInv, NEW w \in Worker, NEW o \in Officer, Begin(w, o)
  PROVE  RacesInv'
<1>1. ASSUME NEW n \in Number, NEW s \in Status, NEW a \in Area, BeginCreate(w, o, n, s, a)
      PROVE  RacesInv'
  <2>1. PICK t : t = [op |-> "create", by |-> o, number |-> n, status |-> s, area |-> a]
    OBVIOUS
  <2>2. ~Taken(t)
    BY <1>1, <2>1 DEF Taken, BeginCreate, MayCreate, NumberFree, CaseId
  <2>3. Arrive(w, t) /\ UNCHANGED <<cases, pins, team>>
    BY <1>1, <2>1 DEF BeginCreate, rows
  <2> QED
    BY <2>2, <2>3, RacesArrive
<1>2. ASSUME NEW c \in CaseId, NEW s \in Status, BeginStatus(w, o, c, s)
      PROVE  RacesInv'
  <2>1. PICK t : t = [op |-> "status", case |-> c, previous |-> cases[c].status, new |-> s]
    OBVIOUS
  <2>2. ~Taken(t)
    BY <2>1 DEF Taken
  <2>3. Arrive(w, t) /\ UNCHANGED <<cases, pins, team>>
    BY <1>2, <2>1 DEF BeginStatus, rows
  <2> QED
    BY <2>2, <2>3, RacesArrive
<1>3. ASSUME NEW c \in CaseId, BeginPin(w, o, c)
      PROVE  RacesInv'
  <2>1. PICK t : t = [op |-> "pin", by |-> o, case |-> c]
    OBVIOUS
  <2>2. ~Taken(t)
    <3>1. pins[c][o] = 0
      BY <1>3 DEF BeginPin
    <3> QED
      BY <2>1, <3>1 DEF Taken
  <2>3. Arrive(w, t) /\ UNCHANGED <<cases, pins, team>>
    BY <1>3, <2>1 DEF BeginPin, rows
  <2> QED
    BY <2>2, <2>3, RacesArrive
<1>4. ASSUME NEW c \in CaseId, Unpin(w, o, c)
      PROVE  RacesInv'
  <2>1. PICK row : row = [pins[c] EXCEPT ![o] = 0]
    OBVIOUS
  <2>2. /\ row \in [Officer -> Nat] /\ c \in DOMAIN pins /\ row[o] = 0
        /\ \A m \in Officer \ {o} : row[m] = pins[c][m]
    BY <2>1, Tables
  <2>3. pins' = [pins EXCEPT ![c] = row]
    BY <1>4, <2>1 DEF Unpin
  <2>4. pins'[c] = row /\ \A d \in CaseId : d # c => pins'[d] = pins[d]
    BY <2>2, <2>3, Updated, Tables DEF TablesOK
  <2>5. \A d \in CaseId, m \in Officer : pins'[d][m] > 0 => pins[d][m] > 0
    BY <2>2, <2>4
  <2>6. /\ UNCHANGED <<cases, team, overtaken>> /\ work' = [work EXCEPT ![w] = Idle]
    BY <1>4 DEF Unpin, TablesOK
  <2>7. ASSUME NEW t \in Task, Taken(t)'
        PROVE  Taken(t)
    <3>1. t.op = "pin" => t.case \in CaseId /\ t.by \in Officer
      BY DEF Task
    <3> QED
      BY <2>5, <2>6, <2>7, <3>1 DEF Taken
  <2> QED
    BY <2>6, <2>7, RacesStep DEF RacesInv
<1>5. ASSUME NEW c \in CaseId, NEW m \in Officer, BeginAdd(w, o, c, m)
      PROVE  RacesInv'
  <2>1. PICK t : t = [op |-> "add", case |-> c, officer |-> m]
    OBVIOUS
  <2>2. ActiveRows(c, m) = {}
    BY <1>5 DEF BeginAdd, MayAdd, Members
  <2>3. ~Taken(t)
    BY <2>1, <2>2 DEF Taken, ActiveRows
  <2>4. Arrive(w, t) /\ UNCHANGED <<cases, pins, team>>
    BY <1>5, <2>1 DEF BeginAdd, rows
  <2> QED
    BY <2>3, <2>4, RacesArrive
<1>6. ASSUME NEW c \in CaseId, NEW m \in Officer, BeginRemove(w, o, c, m)
      PROVE  RacesInv'
  <2>1. PICK r : Arrive(w, [op |-> "remove", row |-> r])
    BY <1>6 DEF BeginRemove
  <2>2. PICK t : t = [op |-> "remove", row |-> r]
    OBVIOUS
  <2>3. ~Taken(t)
    BY <2>2 DEF Taken
  <2>4. Arrive(w, t) /\ UNCHANGED <<cases, pins, team>>
    BY <1>6, <2>1, <2>2 DEF BeginRemove, rows
  <2> QED
    BY <2>3, <2>4, RacesArrive
<1>7. ASSUME NEW c \in CaseId, BeginUpload(w, o, c)
      PROVE  RacesInv'
  <2>1. PICK t : t = [op |-> "write", file |-> Len(attachments) + 1]
    OBVIOUS
  <2>2. ~Taken(t)
    BY <2>1 DEF Taken
  <2>3. Arrive(w, t) /\ UNCHANGED <<cases, pins, team>>
    BY <1>7, <2>1 DEF BeginUpload
  <2> QED
    BY <2>2, <2>3, RacesArrive
<1>8. ASSUME NEW f \in DOMAIN attachments, BeginDownload(w, o, f)
      PROVE  RacesInv'
  <2>1. PICK t : t = [op |-> "download", by |-> o, file |-> f]
    OBVIOUS
  <2>2. ~Taken(t)
    BY <2>1 DEF Taken
  <2>3. Arrive(w, t) /\ UNCHANGED <<cases, pins, team>>
    BY <1>8, <2>1 DEF BeginDownload, rows
  <2> QED
    BY <2>2, <2>3, RacesArrive
<1> QED
  BY <1>1, <1>2, <1>3, <1>4, <1>5, <1>6, <1>7, <1>8 DEF Begin

LEMMA RacesNext ==
  ASSUME TablesOK, RacesInv, Next
  PROVE  RacesInv'
BY RacesContinue, RacesBegin DEF Next

-----------------------------------------------------------------------------
(* The audit trail of the status                                           *)

(* What the audit log says of the status of one case.                      *)
TrailOf(c) ==
  LET log == statusLog[c]
      had(i) == {opened[c]} \cup {log[j].new : j \in 1..(i - 1)}
  IN /\ cases[c].status = IF log = <<>> THEN opened[c] ELSE log[Len(log)].new
     /\ \A i \in DOMAIN log : log[i].previous \in had(i)

LEMMA TrailParts == StatusTrail <=> \A c \in CaseId : TrailOf(c)
BY DEF StatusTrail, TrailOf

(* The current status is one the case has had.                             *)
LEMMA CurrentHad ==
  ASSUME TablesOK, StatusTrail, NEW c \in CaseId
  PROVE  cases[c].status \in Had(c)
<1>1. TrailOf(c) /\ statusLog[c] \in Seq(Entry)
  BY TrailParts, Tables
<1>2. CASE statusLog[c] = <<>>
  BY <1>1, <1>2 DEF TrailOf, Had
<1>3. CASE statusLog[c] # <<>>
  <2>1. Len(statusLog[c]) \in DOMAIN statusLog[c]
    BY <1>1, <1>3
  <2> QED
    BY <1>1, <1>3, <2>1 DEF TrailOf, Had
<1> QED
  BY <1>2, <1>3

LEMMA SameStatus ==
  ASSUME TablesOK, StatusInv, UNCHANGED <<cases, statusLog, opened>>,
         \A v \in Worker : Goes(v, "status")
  PROVE  StatusInv'
<1>1. StatusTrail'
  BY DEF StatusInv, StatusTrail, CaseId
<1>2. ASSUME NEW v \in Worker
      PROVE  NamesHad(v)'
  BY DEF StatusInv, NamesHad, Goes, Doing, Had
<1> QED
  BY <1>1, <1>2 DEF StatusInv

LEMMA StatusBegin ==
  ASSUME TablesOK, StatusInv, NEW w \in Worker, NEW o \in Officer, Begin(w, o)
  PROVE  StatusInv'
<1>1. ASSUME NEW c \in CaseId, NEW s \in Status, NEW t,
             t = [op |-> "status", case |-> c, previous |-> cases[c].status, new |-> s],
             work' = [work EXCEPT ![w] = t], UNCHANGED <<rows, auditLog, history>>
      PROVE  StatusInv'
  <2>1. UNCHANGED <<cases, statusLog, opened>>
    BY <1>1 DEF rows, auditLog, history
  <2>2. StatusTrail'
    BY <2>1, SMTT(30) DEF StatusInv, StatusTrail, CaseId
  <2>3. t.previous \in Had(t.case)
    BY <1>1, CurrentHad DEF StatusInv
  <2>4. ASSUME NEW v \in Worker
        PROVE  NamesHad(v)'
    <3>1. CASE v = w
      <4>1. work'[v] = t
        BY <1>1, <3>1, OneWorker, ZenonT(40)
      <4> QED
        BY <2>1, <2>3, <4>1 DEF NamesHad, Had
    <3>2. CASE v # w
      <4>1. work'[v] = work[v]
        BY <1>1, <3>2, OneWorker
      <4> QED
        BY <2>1, <4>1 DEF StatusInv, NamesHad, Doing, Had
    <3> QED
      BY <3>1, <3>2
  <2> QED
    BY <2>2, <2>4 DEF StatusInv
<1>2. ASSUME NEW t, work' = [work EXCEPT ![w] = t], t # Idle => t.op # "status",
             UNCHANGED <<cases, statusLog, opened>>
      PROVE  StatusInv'
  BY <1>2, OneGoes, SameStatus
<1>3. ASSUME NEW c \in CaseId, Unpin(w, o, c), work' = [work EXCEPT ![w] = Idle]
      PROVE  StatusInv'
  BY <1>2, <1>3 DEF Unpin, auditLog, history
<1>4. ASSUME NEW c \in CaseId, BeginUpload(w, o, c),
             NEW t, t = [op |-> "write", file |-> Len(attachments) + 1],
             work' = [work EXCEPT ![w] = t]
      PROVE  StatusInv'
  <2>1. t.op # "status"
    BY <1>4
  <2> QED
    BY <1>2, <1>4, <2>1 DEF BeginUpload, auditLog, history
<1>5. ASSUME UNCHANGED <<rows, auditLog, history>>, NEW c \in CaseId, NEW m \in Officer,
             NEW t, t = [op |-> "add", case |-> c, officer |-> m],
             work' = [work EXCEPT ![w] = t]
      PROVE  StatusInv'
  <2>1. t.op # "status"
    BY <1>5
  <2> QED
    BY <1>2, <1>5, <2>1 DEF rows, auditLog, history
<1>6. ASSUME UNCHANGED <<rows, auditLog, history>>, NEW t, work' = [work EXCEPT ![w] = t],
             t.op \in {"create", "pin", "remove", "download"}
      PROVE  StatusInv'
  BY <1>2, <1>6 DEF rows, auditLog, history
<1> QED
  BY <1>1, <1>3, <1>4, <1>5, <1>6, BeginTask

(* The new case begins its log with the status it was opened with.         *)
LEMMA StatusInsertCase ==
  ASSUME TablesOK, StatusInv, NEW w \in Worker, InsertCase(w)
  PROVE  StatusInv'
<1>1. PICK row : row = [number |-> work[w].number, status |-> work[w].status,
                        area |-> work[w].area, lead |-> work[w].by]
  OBVIOUS
<1>2. PICK n : n = Len(cases) + 1
  OBVIOUS
<1>3. row \in CaseRow /\ row.status = work[w].status /\ work[w].status \in Status
  BY <1>1, TaskOf DEF InsertCase, CaseRow
<1>4. /\ cases' = Append(cases, row) /\ opened' = Append(opened, work[w].status)
      /\ statusLog' = Append(statusLog, <<>>)
  BY <1>1 DEF InsertCase
<1>5. /\ CaseId' = CaseId \cup {n} /\ cases'[n] = row
      /\ \A c \in CaseId : cases'[c] = cases[c]
  BY <1>2, <1>3, <1>4, Appended DEF TablesOK, CaseId
<1>6. /\ opened'[n] = work[w].status /\ \A c \in CaseId : opened'[c] = opened[c]
  BY <1>2, <1>3, <1>4, Appended, Tables DEF TablesOK
<1>7. /\ statusLog'[n] = <<>> /\ \A c \in CaseId : statusLog'[c] = statusLog[c]
  <2>1. <<>> \in Seq(Entry)
    OBVIOUS
  <2> QED
    BY <1>2, <1>4, <2>1, Appended, Tables DEF TablesOK
<1>8. ASSUME NEW c \in CaseId
      PROVE  TrailOf(c)'
  BY <1>5, <1>6, <1>7, TrailParts, SMTT(30) DEF StatusInv, TrailOf
<1>9. TrailOf(n)'
  BY <1>3, <1>5, <1>6, <1>7 DEF TrailOf
<1>10. StatusTrail'
  BY <1>5, <1>8, <1>9 DEF StatusTrail, TrailOf
<1>11. ASSUME NEW v \in Worker, Doing(v, "status")'
       PROVE  NamesHad(v)'
  <2>1. Doing(v, "status") /\ work'[v] = work[v]
    BY <1>11, ContinueGoes DEF Goes, Continue
  <2>2. work[v].case \in CaseId
    BY <2>1, TaskOf
  <2>3. work[v].previous \in Had(work[v].case)
    BY <2>1 DEF StatusInv, NamesHad
  <2> QED
    BY <1>6, <1>7, <2>1, <2>2, <2>3 DEF NamesHad, Had
<1> QED
  BY <1>10, <1>11 DEF StatusInv, NamesHad

(* A change logs the status its request loaded, which may be out of date   *)
(* but is one the case has had.                                            *)
LEMMA StatusWrite ==
  ASSUME TablesOK, StatusInv, NEW w \in Worker, WriteStatus(w)
  PROVE  StatusInv'
<1>1. PICK k : k = work[w].case
  OBVIOUS
<1>2. PICK e : e = StatusEntry(work[w])
  OBVIOUS
<1>3. /\ k \in CaseId /\ CaseId' = CaseId
      /\ \A c \in CaseId : c # k => cases'[c] = cases[c] /\ statusLog'[c] = statusLog[c]
      /\ cases'[k].status = work[w].new
      /\ statusLog'[k] = Append(statusLog[k], e)
  BY <1>1, <1>2, StatusWritten
<1>4. /\ e \in Entry /\ e.previous = work[w].previous /\ e.new = work[w].new
  BY <1>1, <1>2, StatusWritten DEF StatusEntry, Entry
<1>5. /\ UNCHANGED opened /\ e.previous \in Had(k)
  BY <1>1, <1>4 DEF WriteStatus, history, StatusInv, NamesHad
<1>6. PICK log : log = statusLog[k] /\ log \in Seq(Entry)
  BY <1>3, Tables
<1>7. PICK longer : longer = Append(log, e)
  OBVIOUS
<1>8. /\ longer \in Seq(Entry) /\ Len(longer) = Len(log) + 1 /\ longer # <<>>
      /\ DOMAIN longer = DOMAIN log \cup {Len(log) + 1}
      /\ \A i \in DOMAIN log : longer[i] = log[i]
      /\ longer[Len(log) + 1] = e /\ DOMAIN log = 1..Len(log) /\ Len(log) \in Nat
  BY <1>4, <1>6, <1>7, Appended, Rows
<1>9. TrailOf(k)'
  <2>1. /\ cases[k].status = IF log = <<>> THEN opened[k] ELSE log[Len(log)].new
        /\ \A i \in DOMAIN log :
             log[i].previous \in {opened[k]} \cup {log[j].new : j \in 1..(i - 1)}
    BY <1>3, <1>6, TrailParts DEF StatusInv, TrailOf
  <2>2. ASSUME NEW i \in DOMAIN longer
        PROVE  longer[i].previous \in {opened[k]} \cup {longer[j].new : j \in 1..(i - 1)}
    <3>1. CASE i \in DOMAIN log
      <4>1. \A j \in 1..(i - 1) : j \in DOMAIN log
        BY <1>8, <3>1
      <4> QED
        BY <1>8, <2>1, <3>1, <4>1, SMTT(30)
    <3>2. CASE i = Len(log) + 1
      <4>1. e.previous \in {opened[k]} \cup {log[j].new : j \in DOMAIN log}
        BY <1>5, <1>6 DEF Had
      <4>2. 1..(i - 1) = DOMAIN log
        BY <1>8, <3>2
      <4> QED
        BY <1>8, <3>2, <4>1, <4>2
    <3> QED
      BY <1>8, <3>1, <3>2
  <2>3. statusLog'[k] = longer /\ opened'[k] = opened[k]
    BY <1>3, <1>5, <1>6, <1>7
  <2>4. cases'[k].status = longer[Len(longer)].new
    BY <1>3, <1>4, <1>8
  <2> QED
    BY <1>8, <2>2, <2>3, <2>4 DEF TrailOf
<1>10. ASSUME NEW c \in CaseId, c # k
       PROVE  TrailOf(c)'
  BY <1>3, <1>5, <1>10, TrailParts, SMTT(30) DEF StatusInv, TrailOf
<1>11. StatusTrail'
  <2>1. \A c \in CaseId' : TrailOf(c)'
    BY <1>3, <1>9, <1>10
  <2> QED
    BY <2>1 DEF StatusTrail, TrailOf
<1>12. ASSUME NEW v \in Worker, Doing(v, "status")'
       PROVE  NamesHad(v)'
  <2>1. Doing(v, "status") /\ work'[v] = work[v]
    BY <1>12, ContinueGoes DEF Goes, Continue
  <2>2. work[v].case \in CaseId /\ work[v].previous \in Had(work[v].case)
    BY <2>1, TaskOf DEF StatusInv, NamesHad
  <2>3. CASE work[v].case # k
    BY <1>3, <1>5, <2>1, <2>2, <2>3 DEF NamesHad, Had
  <2>4. CASE work[v].case = k
    <3>1. work[v].previous \in {opened[k]} \cup {log[j].new : j \in DOMAIN log}
      BY <1>6, <2>2, <2>4 DEF Had
    <3>2. work[v].previous \in {opened[k]} \cup {longer[j].new : j \in DOMAIN longer}
      BY <1>8, <3>1
    <3>3. statusLog'[k] = longer /\ opened'[k] = opened[k]
      BY <1>3, <1>5, <1>6, <1>7
    <3> QED
      BY <2>1, <2>4, <3>2, <3>3 DEF NamesHad, Had
  <2> QED
    BY <2>3, <2>4
<1> QED
  BY <1>11, <1>12 DEF StatusInv, NamesHad

LEMMA StatusNext ==
  ASSUME TablesOK, StatusInv, Next
  PROVE  StatusInv'
<1>1. ASSUME NEW w \in Worker, Continue(w)
      PROVE  StatusInv'
  <2>1. CASE InsertCase(w)
    BY <2>1, StatusInsertCase
  <2>2. CASE WriteStatus(w)
    BY <2>2, StatusWrite
  <2>3. CASE ~InsertCase(w) /\ ~WriteStatus(w)
    <3>1. UNCHANGED <<cases, statusLog, opened>>
      BY <1>1, <2>3 DEF Continue, InsertPin, InsertMember, WriteRemoval, WriteFile, CommitRow,
         AuditDownload, SendFile, Fail, rows, auditLog, history
    <3> QED
      BY <1>1, <3>1, ContinueGoes, SameStatus
  <2> QED
    BY <2>1, <2>2, <2>3
<1> QED
  BY <1>1, StatusBegin DEF Next

-----------------------------------------------------------------------------
(* The audit trail of the team                                             *)

(* What the audit log says of one officer on the team of one case.         *)
MemberTrail(c, m) ==
  /\ (teamLog[c][m] # <<>> /\ ActiveRows(c, m) = {})
       => teamLog[c][m][Len(teamLog[c][m])] = "removed"
  /\ (ActiveRows(c, m) # {} /\ <<c, m>> \notin stale)
       => teamLog[c][m][Len(teamLog[c][m])] = "added"
  /\ m = cases[c].lead => teamLog[c][m] = <<>>

LEMMA MemberParts == TeamTrail <=> \A c \in CaseId, m \in Officer : MemberTrail(c, m)
BY DEF TeamTrail, MemberTrail

LEMMA SameTrail ==
  ASSUME TeamTrail, UNCHANGED <<team, teamLog, stale>>, CaseId' = CaseId,
         \A c \in CaseId : cases'[c].lead = cases[c].lead
  PROVE  TeamTrail'
<1>1. ASSUME NEW c \in CaseId, NEW m \in Officer
      PROVE  MemberTrail(c, m)'
  BY MemberParts DEF MemberTrail, ActiveRows
<1> QED
  BY <1>1, MemberParts DEF TeamTrail, MemberTrail

(* Nothing happens to the team, and no addition begins.                    *)
LEMMA SameTeam ==
  ASSUME TablesOK, TeamInv, UNCHANGED <<team, teamLog, stale>>, CaseId' = CaseId,
         \A c \in CaseId : cases'[c].lead = cases[c].lead,
         \A v \in Worker : Goes(v, "add")
  PROVE  TeamInv'
<1>2. TeamTrail'
  BY SameTrail DEF TeamInv
<1>3. \A r \in DOMAIN team' : team'[r].officer # cases'[team'[r].case].lead
  BY Tables DEF TeamInv, MemberRow
<1>4. ASSUME NEW v \in Worker
      PROVE  NotTheLead(v)'
  <2>1. CASE Doing(v, "add")'
    <3>1. Doing(v, "add") /\ work'[v] = work[v]
      BY <2>1 DEF Goes
    <3>2. work[v].case \in CaseId /\ work[v].officer # cases[work[v].case].lead
      BY <3>1, TaskOf DEF TeamInv, NotTheLead
    <3> QED
      BY <3>1, <3>2 DEF NotTheLead
  <2> QED
    BY <2>1 DEF NotTheLead
<1> QED
  BY <1>2, <1>3, <1>4 DEF TeamInv

(* The lead is on the team from the start and cannot be added to it.       *)
LEMMA TeamBegin ==
  ASSUME TablesOK, TeamInv, NEW w \in Worker, NEW o \in Officer, Begin(w, o)
  PROVE  TeamInv'
<1>1. ASSUME NEW t, work' = [work EXCEPT ![w] = t], t # Idle => t.op # "add",
             UNCHANGED <<cases, team, teamLog, stale>>
      PROVE  TeamInv'
  BY <1>1, OneGoes, SameTeam DEF CaseId
<1>2. ASSUME NEW c \in CaseId, NEW m \in Officer, MayAdd(o, c, m), NEW t,
             t = [op |-> "add", case |-> c, officer |-> m],
             work' = [work EXCEPT ![w] = t], UNCHANGED <<rows, auditLog, history>>
      PROVE  TeamInv'
  <2>1. UNCHANGED <<cases, team, teamLog, stale>>
    BY <1>2 DEF rows, auditLog, history
  <2>2. TeamTrail'
    BY <2>1, SameTrail DEF TeamInv, CaseId
  <2>3. m # cases[c].lead
    BY <1>2 DEF MayAdd, Members
  <2>4. ASSUME NEW v \in Worker
        PROVE  NotTheLead(v)'
    <3>1. CASE v = w
      <4>1. work'[v] = t
        BY <1>2, <3>1, OneWorker, ZenonT(40)
      <4> QED
        BY <1>2, <2>1, <2>3, <4>1 DEF NotTheLead
    <3>2. CASE v # w
      <4>1. work'[v] = work[v]
        BY <1>2, <3>2, OneWorker
      <4> QED
        BY <2>1, <4>1 DEF TeamInv, NotTheLead, Doing
    <3> QED
      BY <3>1, <3>2
  <2> QED
    BY <2>1, <2>2, <2>4 DEF TeamInv
<1>3. ASSUME NEW c \in CaseId, Unpin(w, o, c), work' = [work EXCEPT ![w] = Idle]
      PROVE  TeamInv'
  BY <1>1, <1>3 DEF Unpin, auditLog, history
<1>4. ASSUME NEW c \in CaseId, BeginUpload(w, o, c),
             NEW t, t = [op |-> "write", file |-> Len(attachments) + 1],
             work' = [work EXCEPT ![w] = t]
      PROVE  TeamInv'
  <2>1. t.op # "add"
    BY <1>4
  <2> QED
    BY <1>1, <1>4, <2>1 DEF BeginUpload, auditLog, history
<1>5. ASSUME UNCHANGED <<rows, auditLog, history>>, NEW c \in CaseId, NEW s \in Status,
             NEW t,
             t = [op |-> "status", case |-> c, previous |-> cases[c].status, new |-> s],
             work' = [work EXCEPT ![w] = t]
      PROVE  TeamInv'
  <2>1. t.op # "add"
    BY <1>5
  <2> QED
    BY <1>1, <1>5, <2>1 DEF rows, auditLog, history
<1>6. ASSUME UNCHANGED <<rows, auditLog, history>>, NEW t, work' = [work EXCEPT ![w] = t],
             t.op \in {"create", "pin", "remove", "download"}
      PROVE  TeamInv'
  BY <1>1, <1>6 DEF rows, auditLog, history
<1>7. ASSUME UNCHANGED <<rows, auditLog, history>>, NEW c \in CaseId, NEW m \in Officer,
             MayAdd(o, c, m), work' = [work EXCEPT ![w] = [op |-> "add", case |-> c, officer |-> m]]
      PROVE  TeamInv'
  BY <1>2, <1>7
<1> QED
  BY <1>3, <1>4, <1>5, <1>6, <1>7, BeginTask

(* A new case has no team but its lead, and no log.                        *)
LEMMA TeamInsertCase ==
  ASSUME TablesOK, TeamInv, NEW w \in Worker, InsertCase(w)
  PROVE  TeamInv'
<1>1. PICK row : row = [number |-> work[w].number, status |-> work[w].status,
                        area |-> work[w].area, lead |-> work[w].by]
  OBVIOUS
<1>2. PICK n : n = Len(cases) + 1
  OBVIOUS
<1>3. row \in CaseRow
  BY <1>1, TaskOf DEF InsertCase, CaseRow
<1>4. /\ CaseId' = CaseId \cup {n} /\ n \notin CaseId
      /\ \A c \in CaseId : cases'[c] = cases[c]
  BY <1>1, <1>2, <1>3, Appended DEF TablesOK, CaseId, InsertCase
<1>5. PICK none : none = [o \in Officer |-> <<>>]
  OBVIOUS
<1>6. /\ teamLog'[n] = none /\ \A c \in CaseId : teamLog'[c] = teamLog[c]
  <2>1. none \in [Officer -> Seq({"added", "removed"})]
    BY <1>5
  <2>2. teamLog' = Append(teamLog, none)
    BY <1>5 DEF InsertCase
  <2> QED
    BY <1>2, <2>1, <2>2, Appended, Tables, SMTT(30) DEF TablesOK
<1>7. UNCHANGED <<team, stale>>
  BY DEF InsertCase
<1>8. ASSUME NEW c \in CaseId, NEW m \in Officer
      PROVE  MemberTrail(c, m)'
  BY <1>4, <1>6, <1>7, MemberParts DEF TeamInv, MemberTrail, ActiveRows
<1>9. ASSUME NEW m \in Officer
      PROVE  MemberTrail(n, m)'
  <2>1. ActiveRows(n, m)' = {}
    BY <1>4, <1>7, Tables DEF ActiveRows, MemberRow
  <2>2. teamLog'[n][m] = <<>>
    BY <1>5, <1>6
  <2> QED
    BY <2>1, <2>2 DEF MemberTrail
<1>10. TeamTrail'
  <2>1. \A c \in CaseId', m \in Officer : MemberTrail(c, m)'
    BY <1>4, <1>8, <1>9
  <2> QED
    BY <2>1 DEF TeamTrail, MemberTrail
<1>11. \A r \in DOMAIN team' : team'[r].officer # cases'[team'[r].case].lead
  BY <1>4, <1>7, Tables DEF TeamInv, MemberRow
<1>12. ASSUME NEW v \in Worker, Doing(v, "add")'
       PROVE  NotTheLead(v)'
  <2>1. Doing(v, "add") /\ work'[v] = work[v]
    BY <1>12, ContinueGoes DEF Goes, Continue
  <2>2. work[v].case \in CaseId /\ work[v].officer # cases[work[v].case].lead
    BY <2>1, TaskOf DEF TeamInv, NotTheLead
  <2> QED
    BY <1>4, <2>1, <2>2 DEF NotTheLead
<1> QED
  BY <1>10, <1>11, <1>12 DEF TeamInv, NotTheLead

(* An addition is logged as one, and leaves an active row.                 *)
LEMMA TeamInsertMember ==
  ASSUME TablesOK, TeamInv, NEW w \in Worker, InsertMember(w)
  PROVE  TeamInv'
<1>1. PICK n : n = Len(team) + 1
  OBVIOUS
<1>2. PICK k : k = work[w].case
  OBVIOUS
<1>3. PICK o : o = work[w].officer
  OBVIOUS
<1>4. /\ DOMAIN team' = DOMAIN team \cup {n} /\ n \notin DOMAIN team
      /\ \A r \in DOMAIN team : team'[r] = team[r]
      /\ team'[n].case = k /\ team'[n].officer = o /\ team'[n].removed = FALSE
  BY <1>1, <1>2, <1>3, MemberInserted
<1>5. /\ k \in CaseId /\ o \in Officer /\ UNCHANGED <<cases, stale>>
      /\ teamLog' = [teamLog EXCEPT ![k][o] = Append(@, "added")]
  BY <1>2, <1>3, MemberInserted
<1>6. teamLog[k][o] \in Seq({"added", "removed"})
  BY <1>5, Tables
<1>7. teamLog'[k][o] = Append(teamLog[k][o], "added")
  BY <1>5, Logged
<1>8. \A d \in CaseId, m \in Officer : (d # k \/ m # o) => teamLog'[d][m] = teamLog[d][m]
  BY <1>5, Logged
<1>9. o # cases[k].lead
  BY <1>2, <1>3 DEF InsertMember, TeamInv, NotTheLead
<1>10. MemberTrail(k, o)'
  <2>1. n \in ActiveRows(k, o)'
    BY <1>4 DEF ActiveRows
  <2>2. teamLog'[k][o][Len(teamLog'[k][o])] = "added"
    BY <1>6, <1>7
  <2> QED
    BY <1>5, <1>9, <2>1, <2>2 DEF MemberTrail
<1>11. ASSUME NEW c \in CaseId, NEW m \in Officer, c # k \/ m # o
       PROVE  MemberTrail(c, m)'
  <2>1. ActiveRows(c, m)' = ActiveRows(c, m)
    BY <1>4, <1>11 DEF ActiveRows
  <2>2. teamLog'[c][m] = teamLog[c][m]
    BY <1>8, <1>11
  <2>3. MemberTrail(c, m)
    BY MemberParts DEF TeamInv
  <2> QED
    BY <1>5, <2>1, <2>2, <2>3 DEF MemberTrail
<1>12. TeamTrail'
  <2>1. \A c \in CaseId', m \in Officer : MemberTrail(c, m)'
    BY <1>5, <1>10, <1>11 DEF CaseId
  <2> QED
    BY <2>1 DEF TeamTrail, MemberTrail
<1>13. \A r \in DOMAIN team' : team'[r].officer # cases'[team'[r].case].lead
  BY <1>4, <1>5, <1>9 DEF TeamInv
<1>14. ASSUME NEW v \in Worker, Doing(v, "add")'
       PROVE  NotTheLead(v)'
  <2>1. Doing(v, "add") /\ work'[v] = work[v]
    BY <1>14, ContinueGoes DEF Goes, Continue
  <2> QED
    BY <1>5, <2>1 DEF TeamInv, NotTheLead
<1> QED
  BY <1>12, <1>13, <1>14 DEF TeamInv, NotTheLead

(* A removal is logged as one. It ends the only active membership of the   *)
(* officer, unless another request ended that one before.                  *)
LEMMA TeamRemoval ==
  ASSUME TablesOK, AtMostOneRow, TeamInv, NEW w \in Worker, WriteRemoval(w)
  PROVE  TeamInv'
<1>1. PICK n : n = work[w].row
  OBVIOUS
<1>2. PICK k : k = team[n].case
  OBVIOUS
<1>3. PICK o : o = team[n].officer
  OBVIOUS
<1>4. /\ n \in DOMAIN team /\ DOMAIN team' = DOMAIN team
      /\ \A q \in DOMAIN team : q # n => team'[q] = team[q]
      /\ team'[n].case = k /\ team'[n].officer = o /\ team'[n].removed = TRUE
  <2>1. /\ n \in DOMAIN team /\ DOMAIN team' = DOMAIN team
        /\ \A q \in DOMAIN team : q # n => team'[q] = team[q]
        /\ team'[n].case = team[n].case /\ team'[n].officer = team[n].officer
        /\ team'[n].removed = TRUE
    BY <1>1, RowEnded, ZenonT(30)
  <2> QED
    BY <1>2, <1>3, <2>1
<1>5. /\ k \in CaseId /\ o \in Officer /\ UNCHANGED cases
      /\ teamLog' = [teamLog EXCEPT ![k][o] = Append(@, "removed")]
      /\ stale' = IF team[n].removed THEN stale \cup {<<k, o>>} ELSE stale
  BY <1>1, <1>2, <1>3, MemberRemoved
<1>6. teamLog[k][o] \in Seq({"added", "removed"})
  BY <1>5, Tables
<1>7. teamLog'[k][o] = Append(teamLog[k][o], "removed")
  BY <1>5, Logged
<1>8. \A d \in CaseId, m \in Officer : (d # k \/ m # o) => teamLog'[d][m] = teamLog[d][m]
  BY <1>5, Logged
<1>9. o # cases[k].lead
  BY <1>2, <1>3, <1>4 DEF TeamInv
<1>10. MemberTrail(k, o)'
  <2>1. ASSUME ActiveRows(k, o)' # {}
        PROVE  <<k, o>> \in stale'
    <3>1. PICK q \in DOMAIN team : /\ team'[q].case = k /\ team'[q].officer = o
                                   /\ ~team'[q].removed
      BY <1>4, <2>1 DEF ActiveRows
    <3>2. q # n
      BY <1>4, <3>1
    <3>3. team[q].case = k /\ team[q].officer = o /\ ~team[q].removed
      BY <1>4, <3>1, <3>2
    <3>4. team[n].removed
      BY <1>2, <1>3, <1>4, <3>2, <3>3 DEF AtMostOneRow
    <3> QED
      BY <1>5, <3>4
  <2>2. teamLog'[k][o][Len(teamLog'[k][o])] = "removed"
    BY <1>6, <1>7
  <2> QED
    BY <1>5, <1>9, <2>1, <2>2 DEF MemberTrail
<1>11. ASSUME NEW c \in CaseId, NEW m \in Officer, c # k \/ m # o
       PROVE  MemberTrail(c, m)'
  <2>1. ActiveRows(c, m)' = ActiveRows(c, m)
    BY <1>2, <1>3, <1>4, <1>11 DEF ActiveRows
  <2>2. teamLog'[c][m] = teamLog[c][m] /\ stale \subseteq stale'
    BY <1>5, <1>8, <1>11
  <2>3. MemberTrail(c, m)
    BY MemberParts DEF TeamInv
  <2> QED
    BY <1>5, <2>1, <2>2, <2>3 DEF MemberTrail
<1>12. TeamTrail'
  <2>1. \A c \in CaseId', m \in Officer : MemberTrail(c, m)'
    BY <1>5, <1>10, <1>11 DEF CaseId
  <2> QED
    BY <2>1 DEF TeamTrail, MemberTrail
<1>13. \A r \in DOMAIN team' : team'[r].officer # cases'[team'[r].case].lead
  BY <1>4, <1>5, <1>9 DEF TeamInv
<1>14. ASSUME NEW v \in Worker, Doing(v, "add")'
       PROVE  NotTheLead(v)'
  <2>1. Doing(v, "add") /\ work'[v] = work[v]
    BY <1>14, ContinueGoes DEF Goes, Continue
  <2> QED
    BY <1>5, <2>1 DEF TeamInv, NotTheLead
<1> QED
  BY <1>12, <1>13, <1>14 DEF TeamInv, NotTheLead

LEMMA TeamNext ==
  ASSUME TablesOK, AtMostOneRow, TeamInv, Next
  PROVE  TeamInv'
<1>1. ASSUME NEW w \in Worker, Continue(w)
      PROVE  TeamInv'
  <2>1. CASE InsertCase(w)
    BY <2>1, TeamInsertCase
  <2>2. CASE InsertMember(w)
    BY <2>2, TeamInsertMember
  <2>3. CASE WriteRemoval(w)
    BY <2>3, TeamRemoval
  <2>4. CASE WriteStatus(w)
    <3>1. UNCHANGED <<team, teamLog, stale>>
      BY <2>4 DEF WriteStatus, history
    <3>2. CaseId' = CaseId /\ \A c \in CaseId : cases'[c].lead = cases[c].lead
      BY <2>4, StatusWritten
    <3> QED
      BY <1>1, <3>1, <3>2, ContinueGoes, SameTeam
  <2>5. CASE ~InsertCase(w) /\ ~InsertMember(w) /\ ~WriteRemoval(w) /\ ~WriteStatus(w)
    <3>1. UNCHANGED <<cases, team, teamLog, stale>>
      BY <1>1, <2>5 DEF Continue, InsertPin, WriteFile, CommitRow, AuditDownload, SendFile,
         Fail, rows, auditLog, history
    <3> QED
      BY <1>1, <3>1, ContinueGoes, SameTeam DEF CaseId
  <2> QED
    BY <2>1, <2>2, <2>3, <2>4, <2>5
<1> QED
  BY <1>1, TeamBegin DEF Next

-----------------------------------------------------------------------------
(* Files and their rows                                                    *)

LEMMA FileOf ==
  ASSUME TablesOK, NEW w \in Worker, Uploading(w)
  PROVE  work[w].file \in DOMAIN attachments
BY TaskOf

(* No file changes, and no upload or download comes to its next step.      *)
LEMMA FilesKept ==
  ASSUME TablesOK, FilesInv, FilesBehindRows', UNCHANGED attachments,
         downloads \subseteq downloads',
         \A v \in Worker : Goes(v, "write") /\ Goes(v, "commit") /\ Goes(v, "send")
  PROVE  FilesInv'
<1>1. ASSUME NEW v \in Worker
      PROVE  Orderly(v)'
  <2>1. Orderly(v)
    BY DEF FilesInv
  <2> QED
    BY <2>1 DEF Orderly, Uploading, Goes
<1>2. ASSUME NEW v \in Worker, NEW u \in Worker
      PROVE  Apart(v, u)'
  <2>1. Apart(v, u)
    BY DEF FilesInv
  <2> QED
    BY <2>1 DEF Apart, Uploading, Goes
<1> QED
  BY <1>1, <1>2 DEF FilesInv

LEMMA FilesSame ==
  ASSUME TablesOK, FilesInv, UNCHANGED <<attachments, downloads, served>>,
         \A v \in Worker : Goes(v, "write") /\ Goes(v, "commit") /\ Goes(v, "send")
  PROVE  FilesInv'
<1>1. FilesBehindRows'
  BY DEF FilesInv, FilesBehindRows
<1> QED
  BY <1>1, FilesKept

(* An upload changes its own file only, which no other upload is on.       *)
LEMMA FileTouched ==
  ASSUME TablesOK, FilesInv, NEW w \in Worker, Uploading(w),
         NEW f, f = work[w].file,
         DOMAIN attachments' = DOMAIN attachments,
         \A g \in DOMAIN attachments : g # f => attachments'[g] = attachments[g],
         attachments'[f].committed => attachments'[f].file = "whole",
         UNCHANGED <<downloads, served>>,
         NEW t, work' = [work EXCEPT ![w] = t],
         t # Idle => /\ t.op = "commit" /\ t.file = f
                     /\ ~attachments'[f].committed /\ attachments'[f].file = "whole"
  PROVE  FilesInv'
<1>1. work'[w] = t /\ \A v \in Worker : v # w => work'[v] = work[v]
  BY OneWorker
<1>2. FilesBehindRows'
  BY DEF FilesInv, FilesBehindRows
<1>3. ASSUME NEW v \in Worker, v # w
      PROVE  /\ Uploading(v)' => Uploading(v) /\ work[v].file \in DOMAIN attachments
             /\ Uploading(v)' => work[v].file # f
  <2>1. Uploading(v)' => Uploading(v)
    BY <1>1, <1>3 DEF Uploading, Doing
  <2>2. Apart(v, w)
    BY DEF FilesInv
  <2> QED
    BY <1>3, <2>1, <2>2, FileOf DEF Apart
<1>4. ASSUME NEW v \in Worker
      PROVE  Orderly(v)'
  <2>1. CASE v = w
    BY <1>1, <2>1 DEF Orderly, Uploading, Doing
  <2>2. CASE v # w
    <3>1. Orderly(v) /\ work'[v] = work[v]
      BY <1>1, <2>2 DEF FilesInv
    <3> QED
      BY <1>3, <2>2, <3>1 DEF Orderly, Uploading, Doing
  <2> QED
    BY <2>1, <2>2
<1>5. ASSUME NEW v \in Worker, NEW u \in Worker, v # u, Uploading(v)', Uploading(u)'
      PROVE  work'[v].file # work'[u].file
  <2>1. Apart(v, u)
    BY DEF FilesInv
  <2>2. CASE v # w /\ u # w
    BY <1>1, <1>3, <1>5, <2>1, <2>2 DEF Apart
  <2>3. CASE v = w
    <3>1. work'[v].file = f
      BY <1>1, <1>5, <2>3 DEF Uploading, Doing
    <3> QED
      BY <1>1, <1>3, <1>5, <2>3, <3>1
  <2>4. CASE u = w
    <3>1. work'[u].file = f
      BY <1>1, <1>5, <2>4 DEF Uploading, Doing
    <3> QED
      BY <1>1, <1>3, <1>5, <2>4, <3>1
  <2> QED
    BY <2>2, <2>3, <2>4
<1>6. \A v, u \in Worker : Apart(v, u)'
  BY <1>5 DEF Apart
<1> QED
  BY <1>2, <1>4, <1>6 DEF FilesInv

(* An upload begins with a row that nobody has seen.                       *)
LEMMA FilesUpload ==
  ASSUME TablesOK, FilesInv, NEW w \in Worker, NEW o \in Officer, NEW c \in CaseId,
         BeginUpload(w, o, c)
  PROVE  FilesInv'
<1>1. PICK f : f = Len(attachments) + 1
  OBVIOUS
<1>2. PICK row : row = [case |-> c, file |-> "none", committed |-> FALSE]
  OBVIOUS
<1>3. PICK t : t = [op |-> "write", file |-> f]
  OBVIOUS
<1>4. row \in FileRow /\ row.committed = FALSE
  BY <1>2 DEF FileRow
<1>5. attachments' = Append(attachments, row)
  BY <1>2 DEF BeginUpload
<1>6. /\ DOMAIN attachments' = DOMAIN attachments \cup {f} /\ f \notin DOMAIN attachments
      /\ \A g \in DOMAIN attachments : attachments'[g] = attachments[g]
      /\ attachments'[f] = row
  BY <1>1, <1>4, <1>5, Appended DEF TablesOK
<1>7. work' = [work EXCEPT ![w] = t] /\ UNCHANGED <<downloads, served>>
  BY <1>1, <1>3 DEF BeginUpload, Arrive, auditLog, history
<1>8. work'[w] = t /\ \A v \in Worker : v # w => work'[v] = work[v]
  BY <1>7, OneWorker
<1>9. t.op = "write" /\ t.file = f
  BY <1>3
<1>10. FilesBehindRows'
  BY <1>4, <1>6, <1>7 DEF FilesInv, FilesBehindRows
<1>11. ASSUME NEW v \in Worker, v # w, Uploading(v)'
       PROVE  Uploading(v) /\ work[v].file \in DOMAIN attachments
  <2>1. Uploading(v)
    BY <1>8, <1>11 DEF Uploading, Doing
  <2> QED
    BY <2>1, FileOf
<1>12. ASSUME NEW v \in Worker
       PROVE  Orderly(v)'
  <2>1. CASE v = w
    BY <1>4, <1>6, <1>8, <1>9, <2>1 DEF Orderly, Uploading, Doing
  <2>2. CASE v # w
    <3>1. Orderly(v) /\ work'[v] = work[v]
      BY <1>8, <2>2 DEF FilesInv
    <3> QED
      BY <1>6, <1>7, <1>11, <2>2, <3>1 DEF Orderly, Uploading, Doing
  <2> QED
    BY <2>1, <2>2
<1>13. ASSUME NEW v \in Worker, NEW u \in Worker, v # u, Uploading(v)', Uploading(u)'
       PROVE  work'[v].file # work'[u].file
  <2>1. Apart(v, u)
    BY DEF FilesInv
  <2>2. CASE v # w /\ u # w
    BY <1>8, <1>11, <1>13, <2>1, <2>2 DEF Apart
  <2>3. CASE v = w
    BY <1>6, <1>8, <1>9, <1>11, <1>13, <2>3
  <2>4. CASE u = w
    BY <1>6, <1>8, <1>9, <1>11, <1>13, <2>4
  <2> QED
    BY <2>2, <2>3, <2>4
<1>14. \A v, u \in Worker : Apart(v, u)'
  BY <1>13 DEF Apart
<1> QED
  BY <1>10, <1>12, <1>14 DEF FilesInv

LEMMA FilesBegin ==
  ASSUME TablesOK, FilesInv, NEW w \in Worker, NEW o \in Officer, Begin(w, o)
  PROVE  FilesInv'
<1>1. ASSUME NEW t, work' = [work EXCEPT ![w] = t],
             t # Idle => t.op \notin {"write", "commit", "send"},
             UNCHANGED <<attachments, downloads, served>>
      PROVE  FilesInv'
  <2>1. \A v \in Worker : Goes(v, "write") /\ Goes(v, "commit") /\ Goes(v, "send")
    BY <1>1, OneGoes
  <2> QED
    BY <1>1, <2>1, FilesSame
<1>2. ASSUME NEW c \in CaseId, Unpin(w, o, c), work' = [work EXCEPT ![w] = Idle]
      PROVE  FilesInv'
  BY <1>1, <1>2 DEF Unpin, auditLog, history
<1>3. ASSUME UNCHANGED <<rows, auditLog, history>>, NEW c \in CaseId, NEW s \in Status,
             NEW t,
             t = [op |-> "status", case |-> c, previous |-> cases[c].status, new |-> s],
             work' = [work EXCEPT ![w] = t]
      PROVE  FilesInv'
  <2>1. t.op \notin {"write", "commit", "send"}
    BY <1>3
  <2> QED
    BY <1>1, <1>3, <2>1 DEF rows, auditLog, history
<1>4. ASSUME UNCHANGED <<rows, auditLog, history>>, NEW c \in CaseId, NEW m \in Officer,
             NEW t, t = [op |-> "add", case |-> c, officer |-> m],
             work' = [work EXCEPT ![w] = t]
      PROVE  FilesInv'
  <2>1. t.op \notin {"write", "commit", "send"}
    BY <1>4
  <2> QED
    BY <1>1, <1>4, <2>1 DEF rows, auditLog, history
<1>5. ASSUME UNCHANGED <<rows, auditLog, history>>, NEW t, work' = [work EXCEPT ![w] = t],
             t.op \in {"create", "pin", "remove", "download"}
      PROVE  FilesInv'
  BY <1>1, <1>5 DEF rows, auditLog, history
<1>6. ASSUME NEW c \in CaseId, BeginUpload(w, o, c)
      PROVE  FilesInv'
  BY <1>6, FilesUpload
<1>7. CASE UNCHANGED <<rows, auditLog, history>>
  <2>1. CASE \E c \in CaseId, s \in Status :
               work' = [work EXCEPT ![w] =
                 [op |-> "status", case |-> c, previous |-> cases[c].status, new |-> s]]
    BY <1>3, <1>7, <2>1
  <2>2. CASE \E c \in CaseId, m \in Officer :
               work' = [work EXCEPT ![w] = [op |-> "add", case |-> c, officer |-> m]]
    BY <1>4, <1>7, <2>2
  <2>3. CASE \E t : work' = [work EXCEPT ![w] = t] /\ t.op \in {"create", "pin", "remove", "download"}
    BY <1>5, <1>7, <2>3
  <2>4. CASE \/ \E c \in CaseId : Unpin(w, o, c) /\ work' = [work EXCEPT ![w] = Idle]
             \/ \E c \in CaseId : BeginUpload(w, o, c)
    BY <1>2, <1>6, <2>4
  <2> QED
    BY <2>1, <2>2, <2>3, <2>4, BeginTask
<1> QED
  BY <1>2, <1>6, <1>7, BeginTask

(* The file first, then the row.                                           *)
LEMMA FilesOfUploads ==
  ASSUME TablesOK, FilesInv, NEW w \in Worker,
         WriteFile(w) \/ CommitRow(w) \/ (Fail(w) /\ ~UNCHANGED attachments)
  PROVE  FilesInv'
<1>1. PICK f : f = work[w].file
  OBVIOUS
<1>2. Orderly(w)
  BY DEF FilesInv
<1>3. CASE WriteFile(w)
  <2>1. PICK t : t = [op |-> "commit", file |-> f]
    OBVIOUS
  <2>2. t.op = "commit" /\ t.file = f
    BY <2>1
  <2>3. Doing(w, "write") /\ UNCHANGED <<downloads, served>>
    BY <1>3 DEF WriteFile, auditLog, history
  <2>4. work' = [work EXCEPT ![w] = t]
    BY <1>1, <1>3, <2>1, <2>3, NextTask DEF WriteFile, Proceed
  <2>5. /\ DOMAIN attachments' = DOMAIN attachments
        /\ \A g \in DOMAIN attachments : g # f => attachments'[g] = attachments[g]
        /\ attachments'[f].file = "whole"
        /\ attachments'[f].committed = attachments[f].committed
    BY <1>1, <1>3, <2>3, FileWritten DEF WriteFile
  <2>6. ~attachments'[f].committed /\ Uploading(w)
    BY <1>1, <1>2, <2>3, <2>5 DEF Orderly, Uploading
  <2> QED
    BY <1>1, <2>2, <2>3, <2>4, <2>5, <2>6, FileTouched
<1>4. CASE CommitRow(w)
  <2>1. /\ Doing(w, "commit") /\ UNCHANGED <<downloads, served>>
        /\ work' = [work EXCEPT ![w] = Idle]
    BY <1>4 DEF CommitRow, auditLog, history, End, Proceed
  <2>2. /\ DOMAIN attachments' = DOMAIN attachments
        /\ \A g \in DOMAIN attachments : g # f => attachments'[g] = attachments[g]
        /\ attachments'[f].file = attachments[f].file
    BY <1>1, <1>4, RowCommitted
  <2>3. attachments'[f].file = "whole" /\ Uploading(w)
    BY <1>1, <1>2, <2>1, <2>2 DEF Orderly, Uploading
  <2> QED
    BY <1>1, <2>1, <2>2, <2>3, FileTouched
<1>5. CASE Fail(w) /\ ~UNCHANGED attachments
  <2>1. /\ Doing(w, "write") /\ UNCHANGED <<downloads, served>>
        /\ work' = [work EXCEPT ![w] = Idle]
    BY <1>5 DEF Fail, auditLog, history, End, Proceed
  <2>2. PICK part \in {"part", "whole"} :
          attachments' = [attachments EXCEPT ![work[w].file].file = part]
    BY <1>5 DEF Fail
  <2>3. /\ DOMAIN attachments' = DOMAIN attachments
        /\ \A g \in DOMAIN attachments : g # f => attachments'[g] = attachments[g]
        /\ attachments'[f].committed = attachments[f].committed
    BY <1>1, <2>1, <2>2, FileWritten
  <2>4. ~attachments'[f].committed /\ Uploading(w)
    BY <1>1, <1>2, <2>1, <2>3 DEF Orderly, Uploading
  <2> QED
    BY <1>1, <2>1, <2>3, <2>4, FileTouched
<1> QED
  BY <1>3, <1>4, <1>5

(* The audit row first, then the file.                                     *)
LEMMA FilesOfDownloads ==
  ASSUME TablesOK, FilesInv, NEW w \in Worker, AuditDownload(w) \/ SendFile(w)
  PROVE  FilesInv'
<1>1. CASE AuditDownload(w)
  <2>1. PICK t : t = [op |-> "send", by |-> work[w].by, file |-> work[w].file]
    OBVIOUS
  <2>2. t.op = "send" /\ t.by = work[w].by /\ t.file = work[w].file
    BY <2>1
  <2>3. Doing(w, "download") /\ UNCHANGED <<attachments, served>>
    BY <1>1 DEF AuditDownload, rows, history
  <2>4. work' = [work EXCEPT ![w] = t]
    BY <1>1, <2>1, <2>3, NextTask DEF AuditDownload, Proceed
  <2>5. work'[w] = t /\ \A v \in Worker : v # w => work'[v] = work[v]
    BY <2>4, OneWorker
  <2>6. downloads' = downloads \cup {<<work[w].by, work[w].file>>}
    BY <1>1 DEF AuditDownload
  <2>7. FilesBehindRows'
    BY <2>3, <2>6 DEF FilesInv, FilesBehindRows
  <2>8. ASSUME NEW v \in Worker
        PROVE  Orderly(v)'
    <3>1. CASE v = w
      BY <2>2, <2>5, <2>6, <3>1 DEF Orderly, Uploading, Doing
    <3>2. CASE v # w
      <4>1. Orderly(v) /\ work'[v] = work[v]
        BY <2>5, <3>2 DEF FilesInv
      <4> QED
        BY <2>3, <2>6, <4>1 DEF Orderly, Uploading, Doing
    <3> QED
      BY <3>1, <3>2
  <2>9. ASSUME NEW v \in Worker
        PROVE  Uploading(v)' => Uploading(v) /\ work'[v] = work[v]
    BY <2>2, <2>5 DEF Uploading, Doing
  <2>10. \A v, u \in Worker : Apart(v, u)'
    BY <2>9 DEF FilesInv, Apart
  <2> QED
    BY <2>7, <2>8, <2>10 DEF FilesInv
<1>2. CASE SendFile(w)
  <2>1. Orderly(w)
    BY DEF FilesInv
  <2>2. /\ Doing(w, "send") /\ UNCHANGED <<attachments, downloads>>
        /\ work' = [work EXCEPT ![w] = Idle]
        /\ served' = served \cup {<<work[w].by, work[w].file>>}
    BY <1>2 DEF SendFile, rows, auditLog, End, Proceed
  <2>3. FilesBehindRows'
    BY <2>1, <2>2 DEF FilesInv, FilesBehindRows, Orderly
  <2>4. \A v \in Worker : Goes(v, "write") /\ Goes(v, "commit") /\ Goes(v, "send")
    BY <2>2, OneGoes
  <2> QED
    BY <2>2, <2>3, <2>4, FilesKept
<1> QED
  BY <1>1, <1>2

LEMMA FilesNext ==
  ASSUME TablesOK, FilesInv, Next
  PROVE  FilesInv'
<1>1. ASSUME NEW w \in Worker, Continue(w)
      PROVE  FilesInv'
  <2>1. CASE WriteFile(w) \/ CommitRow(w) \/ (Fail(w) /\ ~UNCHANGED attachments)
    BY <2>1, FilesOfUploads
  <2>2. CASE AuditDownload(w) \/ SendFile(w)
    BY <2>2, FilesOfDownloads
  <2>3. CASE /\ ~WriteFile(w) /\ ~CommitRow(w) /\ ~AuditDownload(w) /\ ~SendFile(w)
             /\ Fail(w) => UNCHANGED attachments
    <3>1. UNCHANGED <<attachments, downloads, served>>
      BY <1>1, <2>3 DEF Continue, InsertCase, WriteStatus, InsertPin, InsertMember,
         WriteRemoval, Fail, auditLog, history
    <3>2. \A v \in Worker : Goes(v, "write") /\ Goes(v, "commit") /\ Goes(v, "send")
      BY <1>1, <2>3, ContinueGoes
    <3> QED
      BY <3>1, <3>2, FilesSame
  <2> QED
    BY <2>1, <2>2, <2>3
<1> QED
  BY <1>1, FilesBegin DEF Next

-----------------------------------------------------------------------------
(* The inductive invariant                                                 *)

LEMMA InitTypes ==
  ASSUME Init
  PROVE  TablesOK
<1>1. PICK o \in Officer, n \in Number, s \in Status, a \in Area :
        /\ cases = <<[number |-> n, status |-> s, area |-> a, lead |-> o]>>
        /\ opened = <<s>>
  BY ScopeAssumption DEF Init
<1>3. PICK row : row = [number |-> n, status |-> s, area |-> a, lead |-> o]
  OBVIOUS
<1>4. row \in CaseRow /\ cases = <<row>>
  BY <1>1, <1>3 DEF CaseRow
<1>5. cases \in Seq(CaseRow) /\ Len(cases) = 1 /\ opened \in Seq(Status) /\ Len(opened) = 1
  BY <1>1, <1>4
<1>6. pins \in Seq([Officer -> Nat]) /\ Len(pins) = 1
  <2>1. PICK none : none = [m \in Officer |-> 0]
    OBVIOUS
  <2>2. none \in [Officer -> Nat] /\ pins = <<none>>
    BY <2>1 DEF Init
  <2> QED
    BY <2>2
<1>7. teamLog \in Seq([Officer -> Seq({"added", "removed"})]) /\ Len(teamLog) = 1
  <2>1. PICK none : none = [m \in Officer |-> <<>>]
    OBVIOUS
  <2>2. none \in [Officer -> Seq({"added", "removed"})] /\ teamLog = <<none>>
    BY <2>1 DEF Init
  <2> QED
    BY <2>2
<1>8. statusLog \in Seq(Seq(Entry)) /\ Len(statusLog) = 1
  <2>1. PICK none : none = <<>>
    OBVIOUS
  <2>2. none \in Seq(Entry) /\ statusLog = <<none>>
    BY <2>1 DEF Init
  <2> QED
    BY <2>2
<1>9. /\ team \in Seq(MemberRow) /\ attachments \in Seq(FileRow)
      /\ work \in [Worker -> Task \cup {Idle}] /\ started \in 0..MaxRequests
      /\ downloads = {} /\ served = {} /\ stale = {}
  BY RequestAssumption DEF Init
<1> QED
  BY <1>5, <1>6, <1>7, <1>8, <1>9 DEF TablesOK

LEMMA InitInv == Init => IInv
<1> SUFFICES ASSUME Init
             PROVE  IInv
  OBVIOUS
<1>1. TablesOK
  BY InitTypes
<1>2. PICK o \in Officer, n \in Number, s \in Status, a \in Area :
        /\ cases = <<[number |-> n, status |-> s, area |-> a, lead |-> o]>>
        /\ opened = <<s>>
  BY ScopeAssumption DEF Init
<1>3. CaseId = {1} /\ cases[1].status = s /\ opened[1] = s /\ statusLog[1] = <<>>
  BY <1>2 DEF CaseId, Init
<1>4. /\ \A m \in Officer : pins[1][m] = 0 /\ teamLog[1][m] = <<>>
      /\ team = <<>> /\ attachments = <<>> /\ served = {}
      /\ \A w \in Worker : work[w] = Idle
  <2>1. PICK p : p = [m \in Officer |-> 0]
    OBVIOUS
  <2>2. PICK g : g = [m \in Officer |-> <<>>]
    OBVIOUS
  <2>3. pins[1] = p /\ teamLog[1] = g
    BY <2>1, <2>2 DEF Init
  <2> QED
    BY <2>1, <2>2, <2>3 DEF Init
<1>5. AtMostOneRow
  BY <1>3, <1>4 DEF AtMostOneRow
<1>6. StatusInv
  <2>1. TrailOf(1)
    BY <1>3 DEF TrailOf
  <2>2. StatusTrail
    BY <1>3, <2>1, TrailParts
  <2> QED
    BY <1>4, <2>2 DEF StatusInv, NamesHad, Doing
<1>7. TeamInv
  <2>1. ASSUME NEW m \in Officer
        PROVE  MemberTrail(1, m)
    <3>1. ActiveRows(1, m) = {} /\ teamLog[1][m] = <<>>
      BY <1>4 DEF ActiveRows
    <3> QED
      BY <3>1 DEF MemberTrail
  <2> QED
    BY <1>3, <1>4, <2>1, MemberParts DEF TeamInv, NotTheLead, Doing
<1>8. FilesInv
  BY <1>4 DEF FilesInv, FilesBehindRows, Orderly, Apart, Uploading, Doing
<1>9. RacesInv
  BY <1>4 DEF Init, RacesInv, Conflicts, Doing
<1> QED
  BY <1>1, <1>5, <1>6, <1>7, <1>8, <1>9 DEF IInv

LEMMA StepInv == IInv /\ [Next]_vars => IInv'
<1> SUFFICES ASSUME IInv, [Next]_vars
             PROVE  IInv'
  OBVIOUS
<1>1. CASE Next
  BY <1>1, TypesNext, RowsNext, RacesNext, StatusNext, TeamNext, FilesNext DEF IInv
<1>2. CASE UNCHANGED vars
  <2>1. UNCHANGED <<cases, pins, team, attachments, statusLog, teamLog, downloads, work,
                    started, opened, stale, served, overtaken>>
    BY <1>2 DEF vars, rows, auditLog, history
  <2>2. \A v \in Worker : /\ Goes(v, "status") /\ Goes(v, "add") /\ Goes(v, "write")
                          /\ Goes(v, "commit") /\ Goes(v, "send")
    BY <2>1 DEF Goes, Doing
  <2>3. TablesOK'
    BY <2>1 DEF IInv, TablesOK, Task, CaseRow, MemberRow, FileRow, Entry, CaseId
  <2>4. RacesInv'
    BY <2>1 DEF IInv, RacesInv, Conflicts, Doing, NumberFree, ActiveRows, CaseId
  <2> QED
    BY <2>1, <2>2, <2>3, <2>4, SameRows, SameStatus, SameTeam, FilesSame DEF IInv, CaseId
<1> QED
  BY <1>1, <1>2

THEOREM Inductive == Spec => []IInv
BY InitInv, StepInv, PTL DEF Spec

-----------------------------------------------------------------------------
(* Results                                                                 *)

(* Rows and requests refer to rows that exist, and every table has one     *)
(* entry for each case, whatever was created, added and broken off.        *)
THEOREM Typing == Spec => []TypeOK
<1>1. IInv => TypeOK
  BY DEF IInv, TypeOK, RacesInv
<1> QED
  BY <1>1, Inductive, PTL

(* Where the checks of the services and the constraints of the schema do  *)
(* not disagree on what the same row is, a request is answered with 500    *)
(* only after another one inserted its row between its check and its       *)
(* INSERT, and no later lookup meets two rows (case_service.py             *)
(* create_case, pin_case, add_team_member).                                *)
THEOREM ConflictsOnlyByRaces == Spec => []ErrorsAreRaces
<1>1. IInv => ErrorsAreRaces
  BY DEF IInv, RacesInv, ErrorsAreRaces
<1> QED
  BY <1>1, Inductive, PTL

(* However changes of status, additions and removals overlap, the audit    *)
(* log of a case ends with what the case shows and names no previous       *)
(* status the case never had (update_case_status, add_team_member,         *)
(* remove_team_member).                                                    *)
THEOREM AuditTrailHolds == Spec => []AuditTrail
<1>1. IInv => AuditTrail
  BY DEF IInv, StatusInv, TeamInv, AuditTrail
<1> QED
  BY <1>1, Inductive, PTL

(* Wherever an upload is broken off, no committed attachment lacks its     *)
(* file, and no file is sent that the audit log does not name              *)
(* (attachment_service.py create_attachment, record_download).             *)
THEOREM FilesBehind == Spec => []FilesBehindRows
<1>1. IInv => FilesBehindRows
  BY DEF IInv, FilesInv
<1> QED
  BY <1>1, Inductive, PTL

=============================================================================
