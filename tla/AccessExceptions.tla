-------------------------- MODULE AccessExceptions --------------------------
(***************************************************************************)
(* Cross-district access exceptions: asking for one, its review, and the   *)
(* case reads it opens (services/access_exception_service.py, the          *)
(* visibility funnel of services/case_service.py).                         *)
(*                                                                         *)
(* A transition locks its row (SELECT ... FOR UPDATE). A new request is    *)
(* checked with two plain SELECTs before its INSERT, and a case read first *)
(* collects the reader's exceptions and then queries the case, so requests *)
(* overlap at every statement and time passes between them.                *)
(***************************************************************************)
EXTENDS Naturals, FiniteSets

CONSTANTS Officer,      \* everybody who may ask or read
          Reviewer,     \* holders of exception:approve, never district-filtered
          Case,         \* cases
          Home,         \* the cases of each officer's accessible districts
          Cleared,      \* the cases within each officer's tier
          Worker,       \* threads of the server's pool
          Hours,        \* requested durations in use
          MaxRequests,  \* BOUND: exceptions ever requested
          MaxTime,      \* BOUND: how far time passes
          Nil           \* no value

ExceptionId == 1..MaxRequests

ASSUME PeopleAssumption ==
  /\ Reviewer \subseteq Officer
  /\ Home \in [Officer -> SUBSET Case]
  /\ Cleared \in [Officer -> SUBSET Case]
  /\ Hours \subseteq 1..8760
  /\ MaxRequests \in Nat /\ MaxTime \in Nat

ASSUME NilAssumption == Nil \notin Officer \cup Case \cup Worker \cup ExceptionId

VARIABLES row,    \* the access_exception_requests table
          now,    \* the time
          lock,   \* the transaction holding each row, or Nil
          pc,     \* where each worker is in its handler
          job,    \* what each worker is doing and has read
          doubled \* HISTORY: who asked for which case twice at once

vars == <<row, now, lock, pc, job, doubled>>

Status == {"none", "pending", "approved", "denied", "revoked"}

(* decided and revoked count the audit rows of the transitions.            *)
ExceptionRow == [status : Status, requester : Officer \cup {Nil}, case : Case \cup {Nil},
                 hours : Nat, reviewer : Officer \cup {Nil}, reviewedAt : Nat,
                 expires : Nat, decided : Nat, revoked : Nat]

Job == [officer : Officer \cup {Nil}, case : Case \cup {Nil}, hours : Nat,
        id : ExceptionId \cup {Nil}, to : Status, read : ExceptionRow \cup {Nil},
        exempt : SUBSET Case, since : Nat]

Pc == {"idle", "checkActive", "insert", "duplicate", "raised", "transition",
       "query", "served", "notFound"}

NoRow == [status |-> "none", requester |-> Nil, case |-> Nil, hours |-> 0, reviewer |-> Nil,
          reviewedAt |-> 0, expires |-> 0, decided |-> 0, revoked |-> 0]

NoJob == [officer |-> Nil, case |-> Nil, hours |-> 0, id |-> Nil, to |-> "none",
          read |-> Nil, exempt |-> {}, since |-> 0]

AskJob(o, c, h) == [officer |-> o, case |-> c, hours |-> h, id |-> Nil, to |-> "none",
                    read |-> Nil, exempt |-> {}, since |-> 0]

ReviewJob(o, e, to) == [officer |-> o, case |-> Nil, hours |-> 0, id |-> e, to |-> to,
                        read |-> row[e], exempt |-> {}, since |-> 0]

ReadJob(o, c, cases) == [officer |-> o, case |-> c, hours |-> 0, id |-> Nil, to |-> "none",
                         read |-> Nil, exempt |-> cases, since |-> now]

Init ==
  /\ row = [e \in ExceptionId |-> NoRow]
  /\ now = 0
  /\ lock = [e \in ExceptionId |-> Nil]
  /\ pc = [w \in Worker |-> "idle"]
  /\ job = [w \in Worker |-> NoJob]
  /\ doubled = {}

-----------------------------------------------------------------------------

Start(w, step, task) ==
  /\ pc[w] = "idle"
  /\ pc' = [pc EXCEPT ![w] = step]
  /\ job' = [job EXCEPT ![w] = task]

Goto(w, step) == pc' = [pc EXCEPT ![w] = step]

(* Commit or rollback: the session is closed and its rows are released.    *)
End(w) ==
  /\ pc' = [pc EXCEPT ![w] = "idle"]
  /\ job' = [job EXCEPT ![w] = NoJob]
  /\ lock' = [e \in ExceptionId |-> IF lock[e] = w THEN Nil ELSE lock[e]]

-----------------------------------------------------------------------------
(* request_exception *)

Of(o, c) == {e \in ExceptionId : row[e].requester = o /\ row[e].case = c}

Pending(o, c) == {e \in Of(o, c) : row[e].status = "pending"}

(* Mutant: an approved exception counts for ever.                          *)
Effective_Endless(e) == row[e].status = "approved"

Effective(e) == row[e].status = "approved" /\ row[e].expires > now

Active(o, c) == {e \in Of(o, c) : Effective(e)}

(* Mutant: the approved requests are not looked at.                        *)
NextCheck_PendingOnly(step) == IF step \in Pc THEN "insert" ELSE step

NextCheck(step) == IF step = "idle" THEN "checkActive" ELSE "insert"

(* One row is a duplicate (409). More than one makes scalar_one_or_none    *)
(* raise MultipleResultsFound, which no handler catches (500).             *)
Outcome(found, step) ==
  CASE found = {} -> NextCheck(step)
    [] Cardinality(found) = 1 -> "duplicate"
    [] OTHER -> "raised"

(* History: another request of this officer for this case is not done.     *)
AskedByAnother(w, o, c) ==
  \E v \in Worker \ {w} : /\ pc[v] \in {"checkActive", "insert"}
                          /\ job[v].officer = o /\ job[v].case = c

CheckPending(w, o, c, h) ==
  /\ Start(w, Outcome(Pending(o, c), "idle"), AskJob(o, c, h))
  /\ doubled' = IF AskedByAnother(w, o, c) THEN doubled \cup {<<o, c>>} ELSE doubled
  /\ UNCHANGED <<row, now, lock>>

CheckActive(w) ==
  /\ pc[w] = "checkActive"
  /\ Goto(w, Outcome(Active(job[w].officer, job[w].case), "checkActive"))
  /\ UNCHANGED <<row, now, lock, job, doubled>>

NextId(e) ==
  /\ row[e].status = "none"
  /\ \A f \in ExceptionId : row[f].status = "none" => e <= f

Requested(task) ==
  [status |-> "pending", requester |-> task.officer, case |-> task.case,
   hours |-> task.hours, reviewer |-> Nil, reviewedAt |-> 0, expires |-> 0,
   decided |-> 0, revoked |-> 0]

Insert(w) ==
  /\ pc[w] = "insert"
  /\ \E e \in ExceptionId : NextId(e) /\ row' = [row EXCEPT ![e] = Requested(job[w])]
  /\ End(w)
  /\ UNCHANGED <<now, doubled>>

Refused(w) ==
  /\ pc[w] \in {"duplicate", "raised"}
  /\ End(w)
  /\ UNCHANGED <<row, now, doubled>>

-----------------------------------------------------------------------------
(* _transition: approve, deny, revoke *)

(* Mutant: db.get without with_for_update, an UPDATE that waits for nobody.*)
CanLock_Always(w, e) == w \in Worker /\ e \in ExceptionId

CanLock(w, e) == lock[e] \in {Nil, w}

LockRow(w, o, e, to) ==
  /\ row[e].status # "none"
  /\ CanLock(w, e)
  /\ Start(w, "transition", ReviewJob(o, e, to))
  /\ lock' = [lock EXCEPT ![e] = w]
  /\ UNCHANGED <<row, now, doubled>>

Allowed(to) ==
  CASE to = "approved" -> {"pending"}
    [] to = "denied" -> {"pending"}
    [] to = "revoked" -> {"approved"}

MayTransition(o, r, to) == r.requester # o /\ r.status \in Allowed(to)

(* Mutant: a revoked exception is stored as expired.                       *)
Decided_Expired(r, o, to) ==
  [r EXCEPT !.status = IF to = "revoked" THEN "expired" ELSE to,
            !.reviewer = o, !.reviewedAt = now,
            !.decided = IF to = "revoked" THEN @ ELSE @ + 1]

(* Mutant: a revocation recomputes the expiry like an approval.            *)
Decided_Renews(r, o, to) ==
  [r EXCEPT !.status = to, !.reviewer = o, !.reviewedAt = now, !.expires = now + r.hours,
            !.decided = IF to = "revoked" THEN @ ELSE @ + 1,
            !.revoked = IF to = "revoked" THEN @ + 1 ELSE @]

Decided(r, o, to) ==
  [status |-> to, requester |-> r.requester, case |-> r.case, hours |-> r.hours,
   reviewer |-> o, reviewedAt |-> now,
   expires |-> IF to = "approved" THEN now + r.hours ELSE r.expires,
   decided |-> IF to = "revoked" THEN r.decided ELSE r.decided + 1,
   revoked |-> IF to = "revoked" THEN r.revoked + 1 ELSE r.revoked]

Transition(w) ==
  /\ pc[w] = "transition"
  /\ MayTransition(job[w].officer, job[w].read, job[w].to)
  /\ CanLock(w, job[w].id)
  /\ row' = [row EXCEPT ![job[w].id] = Decided(@, job[w].officer, job[w].to)]
  /\ End(w)
  /\ UNCHANGED <<now, doubled>>

TransitionRejected(w) ==
  /\ pc[w] = "transition"
  /\ ~MayTransition(job[w].officer, job[w].read, job[w].to)
  /\ End(w)
  /\ UNCHANGED <<row, now, doubled>>

-----------------------------------------------------------------------------
(* A case read: exempt_case_ids, then the query of the funnel.             *)

Exempt(o) ==
  IF o \in Reviewer THEN {}
  ELSE {c \in Case : Active(o, c) # {}}

ReadExempt(w, o, c) ==
  /\ Start(w, "query", ReadJob(o, c, Exempt(o)))
  /\ UNCHANGED <<row, now, lock, doubled>>

Visible(o, c, exempt) ==
  /\ c \in Cleared[o]
  /\ o \in Reviewer \/ c \in Home[o] \/ c \in exempt

QueryCase(w) ==
  /\ pc[w] = "query"
  /\ Goto(w, IF Visible(job[w].officer, job[w].case, job[w].exempt) THEN "served" ELSE "notFound")
  /\ UNCHANGED <<row, now, lock, job, doubled>>

Answer(w) ==
  /\ pc[w] \in {"served", "notFound"}
  /\ End(w)
  /\ UNCHANGED <<row, now, doubled>>

-----------------------------------------------------------------------------

Tick ==
  /\ now < MaxTime
  /\ now' = now + 1
  /\ UNCHANGED <<row, lock, pc, job, doubled>>

ConnectionLost(w) ==
  /\ pc[w] \in {"checkActive", "insert", "transition", "query"}
  /\ End(w)
  /\ UNCHANGED <<row, now, doubled>>

(* The bound on requests is applied here, so that no request stops half way. *)
RoomForRequest ==
  Cardinality({e \in ExceptionId : row[e].status = "none"})
    > Cardinality({w \in Worker : pc[w] \in {"checkActive", "insert"}})

Ask(w) ==
  \/ /\ RoomForRequest
     /\ \E o \in Officer, c \in Case, h \in Hours : CheckPending(w, o, c, h)
  \/ CheckActive(w)
  \/ Insert(w)
  \/ Refused(w)

Review(w) ==
  \/ \E o \in Reviewer, e \in ExceptionId, to \in {"approved", "denied", "revoked"} :
       LockRow(w, o, e, to)
  \/ Transition(w)
  \/ TransitionRejected(w)

Read(w) ==
  \/ \E o \in Officer, c \in Case : ReadExempt(w, o, c)
  \/ QueryCase(w)
  \/ Answer(w)

Next ==
  \/ Tick
  \/ \E w \in Worker : Ask(w) \/ Review(w) \/ Read(w) \/ ConnectionLost(w)

Spec == Init /\ [][Next]_vars
-----------------------------------------------------------------------------
(* Properties                                                              *)

(* Every row, lock and session holds values of its type.                   *)
TypeOK ==
  /\ row \in [ExceptionId -> ExceptionRow]
  /\ now \in Nat
  /\ lock \in [ExceptionId -> Worker \cup {Nil}]
  /\ pc \in [Worker -> Pc]
  /\ job \in [Worker -> Job]
  /\ doubled \subseteq Officer \X Case

(* A case of another district is only served on the strength of an         *)
(* exception of that officer for that case, approved by somebody else,     *)
(* unexpired when the request came in and not revoked before it; and never *)
(* above the officer's tier, whatever was approved.                        *)
AccessJustified ==
  \A w \in Worker :
    LET o == job[w].officer
        c == job[w].case
    IN  pc[w] = "served" =>
          /\ c \in Cleared[o]
          /\ \/ o \in Reviewer \/ c \in Home[o]
             \/ \E e \in Of(o, c) :
                  /\ row[e].status \in {"approved", "revoked"}
                  /\ row[e].status = "revoked" => row[e].reviewedAt >= job[w].since
                  /\ row[e].expires > job[w].since
                  /\ row[e].reviewer \in Reviewer \ {o}

(* docs/decisions/009 and 999: transitions of one request serialize. It is *)
(* decided once and revoked at most once, with one audit row for each.     *)
DecidedOnce ==
  \A e \in ExceptionId :
    /\ row[e].decided = IF row[e].status \in {"none", "pending"} THEN 0 ELSE 1
    /\ row[e].revoked = IF row[e].status = "revoked" THEN 1 ELSE 0

(* The committed rows live the life of the abstract grants.                *)
Grants == INSTANCE AccessGrants WITH
  Grant <- ExceptionId,
  state <- [e \in ExceptionId |-> row[e].status],
  until <- [e \in ExceptionId |-> row[e].expires]

ImplementsGrants == Grants!Spec

OnceActive(o, c) == Cardinality(Pending(o, c) \cup Active(o, c)) <= 1

(* A second request for a case is refused while the first is pending or in *)
(* force: nobody who did not ask twice at once holds two, whatever is      *)
(* reviewed, revoked or expires while the request is checked.              *)
OneActive == \A o \in Officer, c \in Case : <<o, c>> \notin doubled => OnceActive(o, c)

(* docs/decisions/009: "Duplicate active requests ... are rejected (409)". *)
NoDuplicateActive == \A o \in Officer, c \in Case : OnceActive(o, c)

=============================================================================
