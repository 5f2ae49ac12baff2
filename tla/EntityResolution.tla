-------------------------- MODULE EntityResolution --------------------------
(***************************************************************************)
(* Person merges, their reversal and the sensitive tag                     *)
(* (services/entity_resolution_service.py, services/                       *)
(* sensitive_tag_service.py) as concurrent requests on PostgreSQL.         *)
(*                                                                         *)
(* Each handler runs in its own thread with its own session: every SELECT  *)
(* is a step, SELECT ... FOR UPDATE waits for the row, and flush + commit  *)
(* is one step that needs the rows it updates to be free (READ COMMITTED). *)
(***************************************************************************)
EXTENDS Naturals, FiniteSets

CONSTANTS Person,      \* rows of persons
          Request,     \* threads of the server's pool
          MaxEvents,   \* BOUND: merge events ever inserted
          Ranks,       \* the CLASSIFICATION_RANK values in use
          Dobs,        \* dates of birth in use
          Name,        \* names and aliases in use
          FullName,    \* full_name of each person, never changed here
          CreatedAt,   \* created_at of each person
          InitRows,    \* what a person's other columns may hold at first
          Nil          \* a NULL column, a free row, an idle thread

ASSUME DataAssumption ==
  /\ MaxEvents \in Nat
  /\ Ranks \subseteq Nat
  /\ FullName \in [Person -> Name]
  /\ CreatedAt \in [Person -> Nat]

ASSUME NilAssumption == Nil \notin Person /\ Nil \notin Request /\ Nil \notin Dobs

VARIABLES person,   \* the persons table
          event,    \* the entity_resolution_events table
          lock,     \* the transaction holding each person row, or Nil
          pc,       \* where each request is in its handler
          job,      \* what each request was asked to do
          seen      \* the person rows each session has loaded

vars == <<person, event, lock, pc, job, seen>>

EventId == 1..MaxEvents

PersonRow == [mergedInto : Person \cup {Nil}, protected : BOOLEAN,
              rank : Ranks, dob : Dobs \cup {Nil}, aliases : SUBSET Name]

EventRow == [status : {"none", "active", "reversed"},
             primary : Person \cup {Nil}, absorbed : Person \cup {Nil}]

Job == [primary : Person \cup {Nil}, absorbed : Person \cup {Nil},
        event : EventId \cup {Nil}, flag : BOOLEAN]

MergePc == {"lockPrimary", "lockAbsorbed", "mergeWrite"}
Pc == MergePc \cup {"idle", "readAbsorbed", "reverseWrite", "tagWrite"}

ASSUME InitRowsAssumption ==
  \A r \in InitRows : r \in PersonRow /\ r.mergedInto = Nil

NoJob == [primary |-> Nil, absorbed |-> Nil, event |-> Nil, flag |-> FALSE]
NoEvent == [status |-> "none", primary |-> Nil, absorbed |-> Nil]

Init ==
  /\ person \in [Person -> InitRows]
  /\ event = [e \in EventId |-> NoEvent]
  /\ lock = [p \in Person |-> Nil]
  /\ pc = [w \in Request |-> "idle"]
  /\ job = [w \in Request |-> NoJob]
  /\ seen = [w \in Request |-> [primary |-> Nil, absorbed |-> Nil]]

-----------------------------------------------------------------------------
(* What every handler shares: how a request starts, waits for a row, ends. *)

Active(e) == event[e].status = "active"

(* Mutant: SELECT without FOR UPDATE and an UPDATE that waits for nobody.  *)
CanUpdate_Unlocked(w, p) == w \in Request /\ p \in Person

CanUpdate(w, p) == lock[p] \in {Nil, w}

Start(w, step, task) ==
  /\ pc[w] = "idle"
  /\ pc' = [pc EXCEPT ![w] = step]
  /\ job' = [job EXCEPT ![w] = task]
  /\ UNCHANGED <<person, event, lock, seen>>

(* Mutant: the session is never closed, so its rows stay locked.           *)
End_SessionLeaked(w) ==
  /\ pc' = [pc EXCEPT ![w] = "idle"]
  /\ UNCHANGED <<job, seen, lock>>

(* Commit, rollback or the end of a failed session: every row is released. *)
End(w) ==
  /\ pc' = [pc EXCEPT ![w] = "idle"]
  /\ job' = [job EXCEPT ![w] = NoJob]
  /\ seen' = [seen EXCEPT ![w] = [primary |-> Nil, absorbed |-> Nil]]
  /\ lock' = [p \in Person |-> IF lock[p] = w THEN Nil ELSE lock[p]]

Rollback(w) == End(w) /\ UNCHANGED <<person, event>>

-----------------------------------------------------------------------------
(* merge_entities *)

(* The bound on events is applied here, so that no merge stops half way.   *)
MergeStart(w, p, a) ==
  /\ p # a
  /\ Cardinality({e \in EventId : event[e].status = "none"})
       > Cardinality({v \in Request : pc[v] \in MergePc})
  /\ Start(w, "lockPrimary", [NoJob EXCEPT !.primary = p, !.absorbed = a])

LockPrimary(w) ==
  /\ pc[w] = "lockPrimary"
  /\ CanUpdate(w, job[w].primary)
  /\ lock' = [lock EXCEPT ![job[w].primary] = w]
  /\ seen' = [seen EXCEPT ![w].primary = person[job[w].primary]]
  /\ pc' = [pc EXCEPT ![w] = "lockAbsorbed"]
  /\ UNCHANGED <<person, event, job>>

LockAbsorbed(w) ==
  /\ pc[w] = "lockAbsorbed"
  /\ CanUpdate(w, job[w].absorbed)
  /\ lock' = [lock EXCEPT ![job[w].absorbed] = w]
  /\ seen' = [seen EXCEPT ![w].absorbed = person[job[w].absorbed]]
  /\ pc' = [pc EXCEPT ![w] = "mergeWrite"]
  /\ UNCHANGED <<person, event, job>>

MayMerge(primary, absorbed) ==
  /\ ~primary.protected /\ ~absorbed.protected
  /\ primary.mergedInto = Nil
  /\ absorbed.mergedInto = Nil

MergeReject(w) ==
  /\ pc[w] = "mergeWrite"
  /\ ~MayMerge(seen[w].primary, seen[w].absorbed)
  /\ Rollback(w)

(* Mutant: the newer record's value is taken even when it is NULL.         *)
MergeField_NewerWins(mine, theirs, mineIsNewer) == IF mineIsNewer THEN mine ELSE theirs

MergeField(mine, theirs, mineIsNewer) ==
  IF theirs = Nil \/ (mine # Nil /\ mineIsNewer) THEN mine ELSE theirs

(* Mutants: the absorbed tier replaces the survivor's; one tier too high.  *)
HigherRank_Theirs(r, s) == IF r = s THEN r ELSE s
HigherRank_OneAbove(r, s) == IF r > s THEN r ELSE s + 1

HigherRank(r, s) == IF r >= s THEN r ELSE s

MergeAliases(p, a, primary, absorbed) ==
  LET both == primary.aliases \cup absorbed.aliases
  IN  IF FullName[p] = FullName[a] THEN both ELSE both \cup {FullName[a]}

(* The UPDATE of the primary: three columns, from what the session read.   *)
SurvivorRow(row, p, a, mine, theirs) ==
  [mergedInto |-> row.mergedInto,
   protected |-> row.protected,
   rank |-> HigherRank(mine.rank, theirs.rank),
   dob |-> MergeField(mine.dob, theirs.dob, CreatedAt[p] > CreatedAt[a]),
   aliases |-> MergeAliases(p, a, mine, theirs)]

(* The partial unique index uq_entity_resolution_events_active_absorbed.   *)
IndexFree(a) == \A e \in EventId : ~(Active(e) /\ event[e].absorbed = a)

NextEvent(e) ==
  /\ event[e].status = "none"
  /\ \A f \in EventId : event[f].status = "none" => e <= f

NewEvent(p, a) == [status |-> "active", primary |-> p, absorbed |-> a]

MergeWrite(w) ==
  LET p == job[w].primary
      a == job[w].absorbed
      mine == seen[w].primary
      theirs == seen[w].absorbed
  IN  /\ pc[w] = "mergeWrite"
      /\ MayMerge(mine, theirs)
      /\ IndexFree(a)
      /\ person' = [person EXCEPT ![p] = SurvivorRow(@, p, a, mine, theirs),
                                  ![a].mergedInto = p]
      /\ \E e \in EventId :
           /\ NextEvent(e)
           /\ event' = [event EXCEPT ![e] = NewEvent(p, a)]
      /\ End(w)

(* db.flush() raises IntegrityError: nothing of the merge is kept.         *)
MergeIndexViolation(w) ==
  /\ pc[w] = "mergeWrite"
  /\ MayMerge(seen[w].primary, seen[w].absorbed)
  /\ ~IndexFree(job[w].absorbed)
  /\ Rollback(w)

(* PostgreSQL aborts a transaction that is on a cycle of lock waits. Only  *)
(* a merge waits while it holds a row, and only for its absorbed row.      *)
WaitsFor(w) == lock[job[w].absorbed]

DeadlockAbort(w) ==
  /\ \E C \in SUBSET {v \in Request : pc[v] = "lockAbsorbed"} :
       /\ w \in C
       /\ \A v \in C : WaitsFor(v) \in C \ {v}
       /\ \A v \in C : \E u \in C : WaitsFor(u) = v
  /\ Rollback(w)

-----------------------------------------------------------------------------
(* reverse_merge: two plain reads, then one flush of what was decided.     *)

ReverseStart(w, e) ==
  /\ Active(e)
  /\ Start(w, "readAbsorbed",
       [NoJob EXCEPT !.event = e, !.primary = event[e].primary, !.absorbed = event[e].absorbed])

(* Mutant: the pointer is compared with the wrong column of the event.     *)
PointsToPrimary_WrongColumn(w) == person[job[w].absorbed].mergedInto = job[w].absorbed

PointsToPrimary(w) == person[job[w].absorbed].mergedInto = job[w].primary

(* flag: the session found the pointer set and will clear it.              *)
ReadAbsorbed(w) ==
  /\ pc[w] = "readAbsorbed"
  /\ job' = [job EXCEPT ![w].flag = PointsToPrimary(w)]
  /\ pc' = [pc EXCEPT ![w] = "reverseWrite"]
  /\ UNCHANGED <<person, event, lock, seen>>

(* reversed_at is set, and an audit row is written with it.                *)
Stamped(row) == [row EXCEPT !.status = "reversed"]

ReverseWrite(w) ==
  /\ pc[w] = "reverseWrite"
  /\ IF job[w].flag
       THEN /\ CanUpdate(w, job[w].absorbed)
            /\ person' = [person EXCEPT ![job[w].absorbed].mergedInto = Nil]
       ELSE UNCHANGED person
  /\ event' = [event EXCEPT ![job[w].event] = Stamped(@)]
  /\ End(w)

-----------------------------------------------------------------------------
(* set_protected_subject: a no-op request returns without writing.         *)

TagStart(w, p, v) ==
  /\ person[p].protected # v
  /\ Start(w, "tagWrite", [NoJob EXCEPT !.primary = p, !.flag = v])

TagWrite(w) ==
  /\ pc[w] = "tagWrite"
  /\ CanUpdate(w, job[w].primary)
  /\ person' = [person EXCEPT ![job[w].primary].protected = job[w].flag]
  /\ UNCHANGED event
  /\ End(w)

-----------------------------------------------------------------------------

(* The connection or the process dies: PostgreSQL rolls the session back.  *)
ConnectionLost(w) == pc[w] # "idle" /\ Rollback(w)

Acquire(w) == LockPrimary(w) \/ LockAbsorbed(w)

Decide(w) ==
  \/ MergeReject(w)
  \/ MergeWrite(w)
  \/ MergeIndexViolation(w)
  \/ ReadAbsorbed(w)

Update(w) == ReverseWrite(w) \/ TagWrite(w)

Arrive(w) ==
  \/ \E p, a \in Person : MergeStart(w, p, a)
  \/ \E e \in EventId : ReverseStart(w, e)
  \/ \E p \in Person, v \in BOOLEAN : TagStart(w, p, v)

Next ==
  \E w \in Request :
    \/ Arrive(w)
    \/ Acquire(w)
    \/ Decide(w)
    \/ Update(w)
    \/ DeadlockAbort(w)
    \/ ConnectionLost(w)

Spec == Init /\ [][Next]_vars

(* A thread that can run does; a row that is released again and again is   *)
(* granted in turn (PostgreSQL queues its waiters); the deadlock detector  *)
(* runs. Nobody has to send a request and no connection has to break.      *)
Fairness ==
  \A w \in Request :
    /\ SF_vars(LockPrimary(w))
    /\ SF_vars(LockAbsorbed(w))
    /\ WF_vars(Decide(w))
    /\ SF_vars(Update(w))
    /\ WF_vars(DeadlockAbort(w))

FairSpec == Spec /\ Fairness
-----------------------------------------------------------------------------
(* Properties                                                              *)

(* Every row, event, lock and session holds values of its type.            *)
TypeOK ==
  /\ person \in [Person -> PersonRow]
  /\ event \in [EventId -> EventRow]
  /\ lock \in [Person -> Request \cup {Nil}]
  /\ pc \in [Request -> Pc]
  /\ job \in [Request -> Job]
  /\ seen \in [Request -> [primary : PersonRow \cup {Nil},
                           absorbed : PersonRow \cup {Nil}]]

(* A hidden person was hidden by a merge that is still in force: whoever   *)
(* has merged_into_id set is the absorbed side of an active event with     *)
(* that survivor, whatever merges and reversals overlap.                   *)
HiddenByActiveMerge ==
  \A a \in Person :
    person[a].mergedInto # Nil =>
      \E e \in EventId : /\ Active(e)
                         /\ event[e].absorbed = a
                         /\ event[e].primary = person[a].mergedInto

(* merge_entities keeps the absorbed identity on the survivor: its name    *)
(* and aliases stay searchable there, its tier is never above the          *)
(* survivor's, a known date of birth is not lost. It must hold for every   *)
(* absorbed person at once, so no merge may overwrite what another added.  *)
SurvivorCoversAbsorbed ==
  \A a \in Person :
    person[a].mergedInto # Nil =>
      LET a0 == person[a]
          p0 == person[a0.mergedInto]
      IN  /\ a0.rank <= p0.rank
          /\ a0.aliases \subseteq p0.aliases
          /\ FullName[a] \in p0.aliases \cup {FullName[a0.mergedInto]}
          /\ a0.dob # Nil => p0.dob # Nil

(* merge_entities' row locks: when an event is inserted, neither person    *)
(* carries the sensitive tag and neither is absorbed, in the committed     *)
(* rows and not only in the rows the session read.                         *)
MergesOnlyUnprotectedIndependents ==
  [][\A e \in EventId :
       (event[e].status = "none" /\ event'[e].status = "active") =>
         \A p \in {event'[e].primary, event'[e].absorbed} :
           person[p].mergedInto = Nil /\ ~person[p].protected]_vars

(* Classification is never downgraded, by a merge or by a reversal.        *)
NeverDowngraded ==
  [][\A p \in Person : person'[p].rank >= person[p].rank]_vars

(* Reversal has no undo of field copies: aliases only grow and a known     *)
(* date of birth stays known, also when a merge and a reversal overlap.    *)
FieldsSurviveReversal ==
  [][\A p \in Person : /\ person[p].aliases \subseteq person'[p].aliases
                       /\ person[p].dob # Nil => person'[p].dob # Nil]_vars

(* The merges and reversals seen through merged_into_id and the tag are    *)
(* those of the abstract ledger, one atomic step each.                     *)
Ledger == INSTANCE MergeLedger WITH
  parent <- [p \in Person |-> person[p].mergedInto],
  protected <- [p \in Person |-> person[p].protected]

ImplementsLedger == Ledger!Spec
NoMergeCycle == Ledger!Acyclic

(* Opposite merges, reversals and tag changes may wait for each other, but *)
(* every request is answered.                                              *)
RequestsEnd == \A w \in Request : pc[w] # "idle" ~> pc[w] = "idle"

(* The migration 7d2c1e4f9b3a: "Reversal clears the pointer and frees the  *)
(* row for a future re-merge": the absorbed person of an active event is   *)
(* hidden behind its primary. reverse_merge takes no lock.                 *)
ActiveMergeHides ==
  \A e \in EventId :
    Active(e) => person[event[e].absorbed].mergedInto = event[e].primary

-----------------------------------------------------------------------------
(* The inductive invariant behind the properties above.                    *)

(* What a handler that is still running knows about its own job.           *)
JobsWellFormed ==
  \A w \in Request :
    /\ pc[w] \in MergePc => /\ job[w].primary \in Person
                            /\ job[w].absorbed \in Person
                            /\ job[w].primary # job[w].absorbed
    /\ pc[w] = "tagWrite" => job[w].primary \in Person
    /\ pc[w] \in {"readAbsorbed", "reverseWrite"} =>
         /\ job[w].event \in EventId
         /\ event[job[w].event].status # "none"
         /\ job[w].primary = event[job[w].event].primary
         /\ job[w].absorbed = event[job[w].event].absorbed

(* The rows a merge has locked are still what its session read.            *)
LockedRowsCurrent ==
  \A w \in Request :
    /\ pc[w] \in {"lockAbsorbed", "mergeWrite"} =>
         /\ lock[job[w].primary] = w
         /\ seen[w].primary = person[job[w].primary]
    /\ pc[w] = "mergeWrite" =>
         /\ lock[job[w].absorbed] = w
         /\ seen[w].absorbed = person[job[w].absorbed]

EventsWellFormed ==
  \A e \in EventId :
    event[e].status # "none" => /\ event[e].primary \in Person
                                /\ event[e].absorbed \in Person

OneActiveEvent ==
  \A e, f \in EventId :
    (Active(e) /\ Active(f) /\ event[e].absorbed = event[f].absorbed) => e = f

(* A reversal that decided to leave the pointer alone, of an event that is *)
(* still in force, leaves an independent person.                           *)
SkippedPointerIsClear ==
  \A w \in Request :
    (pc[w] = "reverseWrite" /\ ~job[w].flag /\ Active(job[w].event)) =>
      person[job[w].absorbed].mergedInto = Nil

IInv ==
  /\ TypeOK
  /\ JobsWellFormed
  /\ LockedRowsCurrent
  /\ EventsWellFormed
  /\ OneActiveEvent
  /\ SkippedPointerIsClear
  /\ HiddenByActiveMerge

=============================================================================
