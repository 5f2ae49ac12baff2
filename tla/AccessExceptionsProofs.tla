----------------------- MODULE AccessExceptionsProofs -----------------------
(***************************************************************************)
(* Theorems about AccessExceptions, for every set of officers, cases and   *)
(* threads and any number of requests and hours.                           *)
(***************************************************************************)
EXTENDS AccessExceptions, FiniteSetTheorems, TLAPS

(* Every row holds a request, and every decision names its reviewer.       *)
RowWellFormed(r) ==
  /\ r.status = "none" => r = NoRow
  /\ r.status # "none" => /\ r.requester \in Officer
                          /\ r.case \in Case
                          /\ r.hours \in Hours
  /\ r.status \in {"approved", "denied", "revoked"} =>
       r.reviewer \in Reviewer \ {r.requester}
  /\ r.decided = IF r.status \in {"none", "pending"} THEN 0 ELSE 1
  /\ r.revoked = IF r.status = "revoked" THEN 1 ELSE 0

RowsWellFormed == \A e \in ExceptionId : RowWellFormed(row[e])

(* What a thread that asks for an exception is going to insert.            *)
AskWellFormed(w) ==
  pc[w] \in {"checkActive", "insert"} =>
    job[w].officer \in Officer /\ job[w].case \in Case /\ job[w].hours \in Hours

(* The row a review has locked is still what its session read.             *)
ReviewWellFormed(w) ==
  pc[w] = "transition" =>
    /\ job[w].id \in ExceptionId
    /\ job[w].officer \in Reviewer
    /\ job[w].to \in {"approved", "denied", "revoked"}
    /\ lock[job[w].id] = w
    /\ job[w].read = row[job[w].id]
    /\ job[w].read.status # "none"

(* An exception that was in force at some moment since the time t.         *)
InForceSince(r, o, c, t) ==
  /\ r.requester = o /\ r.case = c
  /\ r.status \in {"approved", "revoked"}
  /\ r.status = "revoked" => r.reviewedAt >= t
  /\ r.expires > t

(* What a thread that reads a case has collected.                          *)
ReadWellFormed(w) ==
  pc[w] \in {"query", "served"} =>
    /\ job[w].officer \in Officer /\ job[w].case \in Case
    /\ job[w].since <= now
    /\ job[w].case \in job[w].exempt =>
         \E e \in ExceptionId :
           InForceSince(row[e], job[w].officer, job[w].case, job[w].since)
    /\ pc[w] = "served" => Visible(job[w].officer, job[w].case, job[w].exempt)

JobsWellFormed ==
  \A w \in Worker : AskWellFormed(w) /\ ReviewWellFormed(w) /\ ReadWellFormed(w)

IInv == TypeOK /\ RowsWellFormed /\ JobsWellFormed

-----------------------------------------------------------------------------
(* Lemmas *)

LEMMA NoTypes == NoRow \in ExceptionRow /\ NoJob \in Job
BY DEF NoRow, ExceptionRow, NoJob, Job, Status

LEMMA HoursType == \A h \in Hours : h \in Nat
<1> DEFINE Durations == 1..8760
<1>1. Hours \subseteq Durations
  BY PeopleAssumption, SMTT(30)
<1>2. \A h \in Durations : h \in Nat
  OBVIOUS
<1> HIDE DEF Durations
<1> QED
  BY <1>1, <1>2

LEMMA RowType ==
  ASSUME NEW s \in Status, NEW q \in Officer, NEW c \in Case, NEW h \in Nat,
         NEW v \in Officer \cup {Nil}, NEW a \in Nat, NEW x \in Nat, NEW d \in Nat, NEW k \in Nat
  PROVE  [status |-> s, requester |-> q, case |-> c, hours |-> h, reviewer |-> v,
          reviewedAt |-> a, expires |-> x, decided |-> d, revoked |-> k] \in ExceptionRow
BY DEF ExceptionRow

LEMMA RequestedFacts ==
  ASSUME NEW task, task.officer \in Officer, task.case \in Case, task.hours \in Hours
  PROVE  LET r == Requested(task)
         IN  r \in ExceptionRow /\ RowWellFormed(r) /\ r.status = "pending" /\ r.expires = 0
<1> DEFINE r == Requested(task)
<1>1. /\ r.status = "pending" /\ r.requester = task.officer /\ r.case = task.case
      /\ r.hours = task.hours /\ r.expires = 0 /\ r.decided = 0 /\ r.revoked = 0
  BY DEF Requested
<1>2. task.hours \in Nat
  BY HoursType
<1>3. r \in ExceptionRow
  <2>1. "pending" \in Status
    BY DEF Status
  <2> QED
    BY <1>2, <2>1, RowType DEF Requested
<1>4. RowWellFormed(r)
  BY <1>1 DEF RowWellFormed
<1> QED
  BY <1>1, <1>3, <1>4

LEMMA DecidedFacts ==
  ASSUME NEW r \in ExceptionRow, NEW o \in Reviewer, NEW to \in {"approved", "denied", "revoked"},
         now \in Nat, RowWellFormed(r), MayTransition(o, r, to), r.status # "none"
  PROVE  LET d == Decided(r, o, to)
         IN  /\ d \in ExceptionRow /\ RowWellFormed(d) /\ d.status = to
             /\ d.requester = r.requester /\ d.case = r.case
             /\ d.reviewedAt = now
             /\ d.expires = IF to = "approved" THEN now + r.hours ELSE r.expires
<1> DEFINE d == Decided(r, o, to)
<1>1. /\ d.status = to /\ d.requester = r.requester /\ d.case = r.case /\ d.hours = r.hours
      /\ d.reviewer = o /\ d.reviewedAt = now
      /\ d.expires = IF to = "approved" THEN now + r.hours ELSE r.expires
      /\ d.decided = IF to = "revoked" THEN r.decided ELSE r.decided + 1
      /\ d.revoked = IF to = "revoked" THEN r.revoked + 1 ELSE r.revoked
  BY DEF Decided
<1>2. r.hours \in Nat /\ r.expires \in Nat /\ r.decided \in Nat /\ r.revoked \in Nat
  BY DEF ExceptionRow
<1>3. d \in ExceptionRow
  <2> DEFINE x == IF to = "approved" THEN now + r.hours ELSE r.expires
             n == IF to = "revoked" THEN r.decided ELSE r.decided + 1
             k == IF to = "revoked" THEN r.revoked + 1 ELSE r.revoked
  <2>1. /\ to \in Status /\ o \in Officer \cup {Nil}
        /\ x \in Nat /\ n \in Nat /\ k \in Nat
    <3>1. Reviewer \subseteq Officer
      BY PeopleAssumption
    <3> QED
      BY <1>2, <3>1 DEF Status
  <2>2. r.requester \in Officer /\ r.case \in Case
    BY Zenon DEF RowWellFormed
  <2>3. d = [status |-> to, requester |-> r.requester, case |-> r.case, hours |-> r.hours,
             reviewer |-> o, reviewedAt |-> now, expires |-> x, decided |-> n, revoked |-> k]
    BY DEF Decided
  <2> HIDE DEF x, n, k, d
  <2> QED
    BY <1>2, <2>1, <2>2, <2>3, RowType
<1>4. /\ r.requester # o
      /\ to \in {"approved", "denied"} => r.status = "pending"
      /\ to = "revoked" => r.status = "approved"
  BY DEF MayTransition, Allowed
<1>5. RowWellFormed(d)
  BY <1>1, <1>2, <1>4 DEF RowWellFormed
<1> QED
  BY <1>1, <1>3, <1>5

(* A thread that ends leaves the others where they are.                    *)
LEMMA EndFacts ==
  ASSUME TypeOK, NEW w \in Worker, End(w)
  PROVE  /\ pc' \in [Worker -> Pc] /\ job' \in [Worker -> Job]
         /\ lock' \in [ExceptionId -> Worker \cup {Nil}]
         /\ pc'[w] = "idle"
         /\ \A v \in Worker \ {w} : pc'[v] = pc[v] /\ job'[v] = job[v]
         /\ \A v \in Worker \ {w}, e \in ExceptionId : lock[e] = v => lock'[e] = v
<1>1. pc' \in [Worker -> Pc] /\ pc'[w] = "idle" /\ \A v \in Worker \ {w} : pc'[v] = pc[v]
  BY DEF End, TypeOK, Pc
<1>2. job' \in [Worker -> Job] /\ \A v \in Worker \ {w} : job'[v] = job[v]
  BY NoTypes DEF End, TypeOK
<1>3. /\ lock' \in [ExceptionId -> Worker \cup {Nil}]
      /\ \A v \in Worker \ {w}, e \in ExceptionId : lock[e] = v => lock'[e] = v
  BY DEF End, TypeOK
<1> QED
  BY <1>1, <1>2, <1>3

(* A thread that starts or moves on leaves the others where they are.      *)
LEMMA StartFacts ==
  ASSUME TypeOK, NEW w \in Worker, NEW step \in Pc, NEW task \in Job, Start(w, step, task)
  PROVE  /\ pc' \in [Worker -> Pc] /\ job' \in [Worker -> Job]
         /\ pc[w] = "idle" /\ pc'[w] = step /\ job'[w] = task
         /\ \A v \in Worker \ {w} : pc'[v] = pc[v] /\ job'[v] = job[v]
BY DEF Start, TypeOK

LEMMA GotoFacts ==
  ASSUME TypeOK, NEW w \in Worker, NEW step \in Pc, Goto(w, step)
  PROVE  /\ pc' \in [Worker -> Pc] /\ pc'[w] = step
         /\ \A v \in Worker \ {w} : pc'[v] = pc[v]
BY DEF Goto, TypeOK

(* The rows are what they were: only one thread's own facts are in doubt.  *)
LEMMA SameRows ==
  ASSUME IInv, NEW w \in Worker, UNCHANGED row, TypeOK', now <= now',
         \A v \in Worker \ {w} : pc'[v] = pc[v] /\ job'[v] = job[v],
         \A v \in Worker \ {w}, e \in ExceptionId : lock[e] = v => lock'[e] = v,
         AskWellFormed(w)', ReviewWellFormed(w)', ReadWellFormed(w)'
  PROVE  IInv'
<1>1. RowsWellFormed'
  BY DEF IInv, RowsWellFormed
<1>2. ASSUME NEW v \in Worker \ {w}
      PROVE  (AskWellFormed(v) /\ ReviewWellFormed(v) /\ ReadWellFormed(v))'
  <2>1. AskWellFormed(v) /\ ReviewWellFormed(v) /\ ReadWellFormed(v)
    BY DEF IInv, JobsWellFormed
  <2>2. pc'[v] = pc[v] /\ job'[v] = job[v]
    OBVIOUS
  <2>3. AskWellFormed(v)' /\ ReviewWellFormed(v)'
    BY <2>1, <2>2 DEF AskWellFormed, ReviewWellFormed
  <2>4. job[v] \in Job /\ now \in Nat /\ now' \in Nat
    BY DEF IInv, TypeOK
  <2>5. job[v].since <= now => job[v].since <= now'
    BY <2>4 DEF Job
  <2>6. ReadWellFormed(v)'
    BY <2>1, <2>2, <2>5 DEF ReadWellFormed
  <2> QED
    BY <2>3, <2>6
<1>3. JobsWellFormed'
  BY <1>2 DEF JobsWellFormed
<1> QED
  BY <1>1, <1>3 DEF IInv

LEMMA EndOnly ==
  ASSUME IInv, NEW w \in Worker, End(w), UNCHANGED <<row, now, doubled>>
  PROVE  IInv'
<1>1. TypeOK' /\ now <= now'
  BY EndFacts DEF IInv, TypeOK
<1>2. AskWellFormed(w)' /\ ReviewWellFormed(w)' /\ ReadWellFormed(w)'
  BY EndFacts DEF IInv, AskWellFormed, ReviewWellFormed, ReadWellFormed
<1> QED
  BY <1>1, <1>2, EndFacts, SameRows DEF IInv

LEMMA InitInv == Init => IInv
<1> SUFFICES ASSUME Init PROVE IInv
  OBVIOUS
<1>1. TypeOK
  BY NoTypes DEF Init, TypeOK, Pc
<1>2. RowWellFormed(NoRow)
  BY DEF RowWellFormed, NoRow
<1> QED
  BY <1>1, <1>2 DEF Init, IInv, RowsWellFormed, JobsWellFormed, AskWellFormed,
     ReviewWellFormed, ReadWellFormed

LEMMA OutcomeType ==
  ASSUME NEW found, NEW step
  PROVE  Outcome(found, step) \in {"checkActive", "insert", "duplicate", "raised"}
BY DEF Outcome, NextCheck

LEMMA CheckPendingInv ==
  ASSUME IInv, NEW w \in Worker, NEW o \in Officer, NEW c \in Case, NEW h \in Hours,
         CheckPending(w, o, c, h)
  PROVE  IInv'
<1> DEFINE step == Outcome(Pending(o, c), "idle")
           task == AskJob(o, c, h)
<1>1. task \in Job /\ task.officer = o /\ task.case = c /\ task.hours = h
  BY PeopleAssumption, SMTT(30) DEF AskJob, Job, Status
<1>2. step \in {"checkActive", "insert", "duplicate", "raised"} /\ step \in Pc
  BY OutcomeType DEF Pc
<1>3. /\ Start(w, step, task) /\ UNCHANGED <<row, now, lock>>
      /\ doubled' \subseteq doubled \cup {<<o, c>>}
  BY DEF CheckPending
<1> HIDE DEF step, task
<1>4. /\ pc' \in [Worker -> Pc] /\ job' \in [Worker -> Job]
      /\ pc'[w] = step /\ job'[w] = task
      /\ \A v \in Worker \ {w} : pc'[v] = pc[v] /\ job'[v] = job[v]
  BY <1>1, <1>2, <1>3, StartFacts DEF IInv
<1>5. TypeOK' /\ now <= now'
  BY <1>3, <1>4 DEF IInv, TypeOK
<1>6. AskWellFormed(w)' /\ ReviewWellFormed(w)' /\ ReadWellFormed(w)'
  BY <1>1, <1>2, <1>4 DEF AskWellFormed, ReviewWellFormed, ReadWellFormed
<1> QED
  BY <1>3, <1>4, <1>5, <1>6, SameRows

LEMMA CheckActiveInv ==
  ASSUME IInv, NEW w \in Worker, CheckActive(w)
  PROVE  IInv'
<1> DEFINE step == Outcome(Active(job[w].officer, job[w].case), "checkActive")
<1>1. step \in {"checkActive", "insert", "duplicate", "raised"} /\ step \in Pc
  BY OutcomeType DEF Pc
<1>2. pc[w] = "checkActive" /\ Goto(w, step) /\ UNCHANGED <<row, now, lock, job, doubled>>
  BY DEF CheckActive
<1> HIDE DEF step
<1>3. pc' \in [Worker -> Pc] /\ pc'[w] = step /\ \A v \in Worker \ {w} : pc'[v] = pc[v]
  BY <1>1, <1>2, GotoFacts DEF IInv
<1>4. TypeOK' /\ now <= now'
  BY <1>2, <1>3 DEF IInv, TypeOK
<1>5. AskWellFormed(w)' /\ ReviewWellFormed(w)' /\ ReadWellFormed(w)'
  BY <1>1, <1>2, <1>3 DEF IInv, JobsWellFormed, AskWellFormed, ReviewWellFormed, ReadWellFormed
<1> QED
  BY <1>2, <1>3, <1>4, <1>5, SameRows

LEMMA LockRowInv ==
  ASSUME IInv, NEW w \in Worker, NEW o \in Reviewer, NEW e \in ExceptionId,
         NEW to \in {"approved", "denied", "revoked"}, LockRow(w, o, e, to)
  PROVE  IInv'
<1> DEFINE task == ReviewJob(o, e, to)
<1>1. row[e] \in ExceptionRow /\ o \in Officer
  BY PeopleAssumption, SMTT(30) DEF IInv, TypeOK
<1>2. /\ task \in Job /\ task.officer = o /\ task.id = e /\ task.to = to /\ task.read = row[e]
  BY <1>1 DEF ReviewJob, Job, Status
<1>3. /\ row[e].status # "none" /\ lock[e] \in {Nil, w}
      /\ Start(w, "transition", task)
      /\ lock' = [lock EXCEPT ![e] = w] /\ UNCHANGED <<row, now, doubled>>
  BY DEF LockRow, CanLock
<1> HIDE DEF task
<1>4. /\ pc' \in [Worker -> Pc] /\ job' \in [Worker -> Job]
      /\ pc'[w] = "transition" /\ job'[w] = task
      /\ \A v \in Worker \ {w} : pc'[v] = pc[v] /\ job'[v] = job[v]
  BY <1>2, <1>3, StartFacts DEF IInv, Pc
<1>5. /\ lock' \in [ExceptionId -> Worker \cup {Nil}] /\ lock'[e] = w
      /\ \A v \in Worker \ {w}, f \in ExceptionId : lock[f] = v => lock'[f] = v
  BY <1>3, NilAssumption DEF IInv, TypeOK
<1>6. TypeOK' /\ now <= now'
  BY <1>3, <1>4, <1>5 DEF IInv, TypeOK
<1>7. AskWellFormed(w)' /\ ReviewWellFormed(w)' /\ ReadWellFormed(w)'
  BY <1>2, <1>3, <1>4, <1>5 DEF AskWellFormed, ReviewWellFormed, ReadWellFormed
<1> QED
  BY <1>3, <1>4, <1>5, <1>6, <1>7, SameRows

(* An exception that counts for a reader now has been in force since now.  *)
LEMMA ExemptFacts ==
  ASSUME TypeOK, NEW o \in Officer, NEW c \in Case, c \in Exempt(o)
  PROVE  \E e \in ExceptionId : InForceSince(row[e], o, c, now)
<1>1. PICK e \in Active(o, c) : TRUE
  BY DEF Exempt
<1>2. e \in ExceptionId /\ InForceSince(row[e], o, c, now)
  BY <1>1 DEF Active, Of, Effective, InForceSince
<1> QED
  BY <1>2

LEMMA ReadExemptInv ==
  ASSUME IInv, NEW w \in Worker, NEW o \in Officer, NEW c \in Case, ReadExempt(w, o, c)
  PROVE  IInv'
<1> DEFINE task == ReadJob(o, c, Exempt(o))
<1>1. /\ task \in Job /\ task.officer = o /\ task.case = c /\ task.exempt = Exempt(o)
      /\ task.since = now
  <2>1. Exempt(o) \in SUBSET Case
    BY DEF Exempt
  <2>2. now \in Nat
    BY DEF IInv, TypeOK
  <2> QED
    BY <2>1, <2>2 DEF ReadJob, Job, Status
<1>2. Start(w, "query", task) /\ UNCHANGED <<row, now, lock, doubled>>
  BY DEF ReadExempt
<1> HIDE DEF task
<1>3. /\ pc' \in [Worker -> Pc] /\ job' \in [Worker -> Job]
      /\ pc'[w] = "query" /\ job'[w] = task
      /\ \A v \in Worker \ {w} : pc'[v] = pc[v] /\ job'[v] = job[v]
  BY <1>1, <1>2, StartFacts DEF IInv, Pc
<1>4. TypeOK' /\ now <= now'
  BY <1>2, <1>3 DEF IInv, TypeOK
<1>5. c \in Exempt(o) => \E e \in ExceptionId : InForceSince(row[e], o, c, now)
  BY ExemptFacts DEF IInv
<1>6. AskWellFormed(w)' /\ ReviewWellFormed(w)' /\ ReadWellFormed(w)'
  BY <1>1, <1>2, <1>3, <1>4, <1>5 DEF AskWellFormed, ReviewWellFormed, ReadWellFormed
<1> QED
  BY <1>2, <1>3, <1>4, <1>6, SameRows

LEMMA QueryCaseInv ==
  ASSUME IInv, NEW w \in Worker, QueryCase(w)
  PROVE  IInv'
<1> DEFINE seesIt == Visible(job[w].officer, job[w].case, job[w].exempt)
<1> DEFINE step == IF seesIt THEN "served" ELSE "notFound"
<1>1. step \in Pc /\ step \in {"served", "notFound"}
  BY DEF Pc
<1>2. pc[w] = "query" /\ Goto(w, step) /\ UNCHANGED <<row, now, lock, job, doubled>>
  BY DEF QueryCase
<1>3. step = "served" => seesIt
  OBVIOUS
<1> HIDE DEF step
<1>4. pc' \in [Worker -> Pc] /\ pc'[w] = step /\ \A v \in Worker \ {w} : pc'[v] = pc[v]
  BY <1>1, <1>2, GotoFacts DEF IInv
<1>5. TypeOK' /\ now <= now'
  BY <1>2, <1>4 DEF IInv, TypeOK
<1>6. AskWellFormed(w)' /\ ReviewWellFormed(w)'
  BY <1>1, <1>4 DEF AskWellFormed, ReviewWellFormed
<1>7. ReadWellFormed(w)'
  BY <1>1, <1>2, <1>3, <1>4 DEF IInv, JobsWellFormed, ReadWellFormed, Visible
<1> QED
  BY <1>2, <1>4, <1>5, <1>6, <1>7, SameRows

(* One row is written: a reader's exception is still in force since then,  *)
(* and no review holds that row but the one that ends.                     *)
LEMMA RowWritten ==
  ASSUME IInv, NEW w \in Worker, NEW e \in ExceptionId, NEW new \in ExceptionRow,
         End(w), UNCHANGED <<now, doubled>>, row' = [row EXCEPT ![e] = new], RowWellFormed(new),
         \A v \in Worker \ {w} : pc[v] = "transition" => job[v].id # e,
         \A o, c, t : (t <= now /\ InForceSince(row[e], o, c, t)) => InForceSince(new, o, c, t)
  PROVE  IInv'
<1>1. row' \in [ExceptionId -> ExceptionRow]
  BY DEF IInv, TypeOK
<1>2. row'[e] = new /\ \A f \in ExceptionId \ {e} : row'[f] = row[f]
  BY DEF IInv, TypeOK
<1>3. TypeOK'
  BY <1>1, EndFacts DEF IInv, TypeOK
<1>4. RowsWellFormed'
  BY <1>2 DEF IInv, RowsWellFormed
<1>5. ASSUME NEW v \in Worker
      PROVE  (AskWellFormed(v) /\ ReviewWellFormed(v) /\ ReadWellFormed(v))'
  <2>1. CASE v = w
    BY <2>1, EndFacts DEF IInv, AskWellFormed, ReviewWellFormed, ReadWellFormed
  <2>2. CASE v # w
    <3>1. pc'[v] = pc[v] /\ job'[v] = job[v]
      BY <2>2, EndFacts DEF IInv
    <3>2. AskWellFormed(v) /\ ReviewWellFormed(v) /\ ReadWellFormed(v)
      BY DEF IInv, JobsWellFormed
    <3>3. AskWellFormed(v)'
      BY <3>1, <3>2 DEF AskWellFormed
    <3>4. ReviewWellFormed(v)'
      <4> SUFFICES ASSUME pc[v] = "transition" PROVE ReviewWellFormed(v)'
        BY <3>1 DEF ReviewWellFormed
      <4>1. job[v].id \in ExceptionId \ {e} /\ lock'[job[v].id] = v
        BY <2>2, <3>2, EndFacts DEF IInv, ReviewWellFormed
      <4> QED
        BY <1>2, <3>1, <3>2, <4>1 DEF ReviewWellFormed
    <3>5. ReadWellFormed(v)'
      <4> SUFFICES ASSUME pc[v] \in {"query", "served"} PROVE ReadWellFormed(v)'
        BY <3>1 DEF ReadWellFormed
      <4> DEFINE o == job[v].officer
                 c == job[v].case
                 t == job[v].since
      <4>1. t <= now
        BY <3>2 DEF ReadWellFormed
      <4>2. ASSUME NEW f \in ExceptionId, InForceSince(row[f], o, c, t)
            PROVE  InForceSince(row'[f], o, c, t)
        BY <1>2, <4>1, <4>2
      <4>3. c \in job[v].exempt => \E f \in ExceptionId : InForceSince(row'[f], o, c, t)
        BY <3>2, <4>2 DEF ReadWellFormed
      <4> QED
        BY <3>1, <3>2, <4>3 DEF ReadWellFormed
    <3> QED
      BY <3>3, <3>4, <3>5
  <2> QED
    BY <2>1, <2>2
<1>6. JobsWellFormed'
  BY <1>5 DEF JobsWellFormed
<1> QED
  BY <1>3, <1>4, <1>6 DEF IInv

LEMMA InsertInv ==
  ASSUME IInv, NEW w \in Worker, Insert(w)
  PROVE  IInv'
<1>1. PICK e \in ExceptionId : row[e].status = "none" /\ row' = [row EXCEPT ![e] = Requested(job[w])]
  BY DEF Insert, NextId
<1>2. /\ job[w].officer \in Officer /\ job[w].case \in Case /\ job[w].hours \in Hours
  BY DEF Insert, IInv, JobsWellFormed, AskWellFormed
<1>3. Requested(job[w]) \in ExceptionRow /\ RowWellFormed(Requested(job[w]))
  BY <1>2, RequestedFacts
<1>4. \A v \in Worker \ {w} : pc[v] = "transition" => job[v].id # e
  BY <1>1 DEF IInv, JobsWellFormed, ReviewWellFormed
<1> QED
  BY <1>1, <1>3, <1>4, RowWritten DEF Insert, InForceSince

LEMMA TransitionInv ==
  ASSUME IInv, NEW w \in Worker, Transition(w)
  PROVE  IInv'
<1> DEFINE e == job[w].id
           new == Decided(row[e], job[w].officer, job[w].to)
<1>1. /\ e \in ExceptionId /\ job[w].officer \in Reviewer
      /\ job[w].to \in {"approved", "denied", "revoked"}
      /\ lock[e] = w /\ job[w].read = row[e] /\ row[e].status # "none"
  BY DEF Transition, IInv, JobsWellFormed, ReviewWellFormed
<1>2. row[e] \in ExceptionRow /\ RowWellFormed(row[e]) /\ now \in Nat
  BY <1>1 DEF IInv, TypeOK, RowsWellFormed
<1>3. MayTransition(job[w].officer, row[e], job[w].to)
  BY <1>1 DEF Transition
<1>4. /\ new \in ExceptionRow /\ RowWellFormed(new) /\ new.status = job[w].to
      /\ new.requester = row[e].requester /\ new.case = row[e].case
      /\ new.reviewedAt = now
      /\ new.expires = IF job[w].to = "approved" THEN now + row[e].hours ELSE row[e].expires
  BY <1>1, <1>2, <1>3, DecidedFacts
<1>5. row' = [row EXCEPT ![e] = new] /\ End(w) /\ UNCHANGED <<now, doubled>>
  BY DEF Transition
<1>6. job[w].to = "revoked" \/ row[e].status = "pending"
  BY <1>1, <1>3 DEF MayTransition, Allowed
<1> HIDE DEF new
<1>7. \A o, c, t : (t <= now /\ InForceSince(row[e], o, c, t)) => InForceSince(new, o, c, t)
  BY <1>4, <1>6 DEF InForceSince
<1>8. \A v \in Worker \ {w} : pc[v] = "transition" => job[v].id # e
  BY <1>1 DEF IInv, JobsWellFormed, ReviewWellFormed
<1> HIDE DEF e
<1> QED
  BY <1>1, <1>4, <1>5, <1>7, <1>8, RowWritten

LEMMA TickInv == IInv /\ Tick => IInv'
<1> SUFFICES ASSUME IInv, Tick PROVE IInv'
  OBVIOUS
<1>1. TypeOK' /\ now' \in Nat /\ now \in Nat /\ now <= now'
  BY DEF IInv, TypeOK, Tick
<1>2. RowsWellFormed'
  BY DEF IInv, RowsWellFormed, Tick
<1>3. ASSUME NEW v \in Worker
      PROVE  (AskWellFormed(v) /\ ReviewWellFormed(v) /\ ReadWellFormed(v))'
  <2>1. AskWellFormed(v) /\ ReviewWellFormed(v) /\ ReadWellFormed(v)
    BY DEF IInv, JobsWellFormed
  <2>2. AskWellFormed(v)' /\ ReviewWellFormed(v)'
    BY <2>1 DEF Tick, AskWellFormed, ReviewWellFormed
  <2>3. job[v].since \in Nat
    BY DEF IInv, TypeOK, Job
  <2>4. ReadWellFormed(v)'
    BY <1>1, <2>1, <2>3 DEF Tick, ReadWellFormed
  <2> QED
    BY <2>2, <2>4
<1> QED
  BY <1>1, <1>2, <1>3 DEF IInv, JobsWellFormed

LEMMA NextInv == IInv /\ [Next]_vars => IInv'
<1> SUFFICES ASSUME IInv, [Next]_vars PROVE IInv'
  OBVIOUS
<1>1. CASE Tick
  BY <1>1, TickInv
<1>2. ASSUME NEW w \in Worker, Ask(w)
      PROVE  IInv'
  BY <1>2, CheckPendingInv, CheckActiveInv, InsertInv, EndOnly DEF Ask, Refused
<1>3. ASSUME NEW w \in Worker, Review(w)
      PROVE  IInv'
  BY <1>3, LockRowInv, TransitionInv, EndOnly DEF Review, TransitionRejected
<1>4. ASSUME NEW w \in Worker, Read(w)
      PROVE  IInv'
  BY <1>4, ReadExemptInv, QueryCaseInv, EndOnly DEF Read, Answer
<1>5. ASSUME NEW w \in Worker, ConnectionLost(w)
      PROVE  IInv'
  BY <1>5, EndOnly DEF ConnectionLost
<1>6. CASE UNCHANGED vars
  BY <1>6 DEF vars, IInv, TypeOK, RowsWellFormed, JobsWellFormed, AskWellFormed,
     ReviewWellFormed, ReadWellFormed
<1> QED
  BY <1>1, <1>2, <1>3, <1>4, <1>5, <1>6 DEF Next

-----------------------------------------------------------------------------
(* One request at a time: a second invariant on top of the first.          *)

Asking(w) == pc[w] \in {"checkActive", "insert"}

(* Whoever asks for what another worker is asking for has asked twice.     *)
TwinsDoubled ==
  \A v, w \in Worker :
    (/\ v # w /\ Asking(v) /\ Asking(w)
     /\ job[v].officer = job[w].officer /\ job[v].case = job[w].case) =>
      <<job[v].officer, job[v].case>> \in doubled

(* What a request has checked so far is still so when it goes on.          *)
StillFree(w) ==
  LET o == job[w].officer
      c == job[w].case
  IN  /\ Asking(w) => Pending(o, c) = {}
      /\ pc[w] = "insert" => Active(o, c) = {}

CheckedRequests ==
  \A w \in Worker :
    (Asking(w) /\ <<job[w].officer, job[w].case>> \notin doubled) => StillFree(w)

AtMostOne(o, c) == \A e, f \in Pending(o, c) \cup Active(o, c) : e = f

AInv ==
  /\ IInv
  /\ TwinsDoubled
  /\ CheckedRequests
  /\ \A o \in Officer, c \in Case : <<o, c>> \notin doubled => AtMostOne(o, c)

-----------------------------------------------------------------------------

(* What is pending was pending; what counts was pending or counted before. *)
NothingNew(o, c) ==
  /\ Pending(o, c)' \subseteq Pending(o, c)
  /\ Active(o, c)' \subseteq Active(o, c) \cup Pending(o, c)

(* A step that neither asks nor inserts.                                   *)
LEMMA QuietStep ==
  ASSUME AInv, IInv', UNCHANGED doubled,
         \A v \in Worker : Asking(v)' => Asking(v) /\ pc'[v] = pc[v] /\ job'[v] = job[v],
         \A o, c : NothingNew(o, c)
  PROVE  AInv'
<1>1. TwinsDoubled'
  BY DEF AInv, TwinsDoubled
<1>2. CheckedRequests'
  <2> SUFFICES ASSUME NEW w \in Worker, Asking(w)',
                      <<job'[w].officer, job'[w].case>> \notin doubled'
               PROVE  StillFree(w)'
    BY DEF CheckedRequests
  <2>1. Asking(w) /\ pc'[w] = pc[w] /\ job'[w] = job[w]
    OBVIOUS
  <2>2. StillFree(w)
    BY <2>1 DEF AInv, CheckedRequests
  <2>3. NothingNew(job[w].officer, job[w].case)
    OBVIOUS
  <2>4. Pending(job[w].officer, job[w].case)' = {}
    BY <2>1, <2>2, <2>3 DEF StillFree, NothingNew, Pending, Of
  <2>5. pc'[w] = "insert" => Active(job[w].officer, job[w].case)' = {}
    BY <2>1, <2>2, <2>3 DEF StillFree, NothingNew
  <2> QED
    BY <2>1, <2>4, <2>5 DEF StillFree, Pending, Active, Of, Effective
<1>3. ASSUME NEW o \in Officer, NEW c \in Case, <<o, c>> \notin doubled'
      PROVE  AtMostOne(o, c)'
  <2>1. AtMostOne(o, c) /\ NothingNew(o, c)
    BY <1>3 DEF AInv
  <2> QED
    BY <2>1 DEF AtMostOne, NothingNew
<1> QED
  BY <1>1, <1>2, <1>3 DEF AInv

LEMMA InitA == Init => AInv
<1> SUFFICES ASSUME Init PROVE AInv
  OBVIOUS
<1>1. \A o \in Officer, c \in Case : Pending(o, c) = {} /\ Active(o, c) = {}
  BY DEF Init, Pending, Active, Of, Effective, NoRow
<1>2. TwinsDoubled /\ CheckedRequests
  BY DEF Init, TwinsDoubled, CheckedRequests, Asking
<1> QED
  BY <1>1, <1>2, InitInv DEF AInv, AtMostOne

LEMMA CheckPendingA ==
  ASSUME AInv, NEW w \in Worker, NEW o \in Officer, NEW c \in Case, NEW h \in Hours,
         CheckPending(w, o, c, h)
  PROVE  AInv'
<1> DEFINE step == Outcome(Pending(o, c), "idle")
           task == AskJob(o, c, h)
<1>1. task \in Job /\ task.officer = o /\ task.case = c
  BY PeopleAssumption, SMTT(30) DEF AskJob, Job, Status
<1>2. step \in {"checkActive", "duplicate", "raised"} /\ step \in Pc
  BY DEF Outcome, NextCheck, Pc
<1>3. step = "checkActive" => Pending(o, c) = {}
  BY DEF Outcome
<1>4. /\ pc' = [pc EXCEPT ![w] = step] /\ job' = [job EXCEPT ![w] = task]
      /\ UNCHANGED <<row, now, lock>>
      /\ doubled' = IF AskedByAnother(w, o, c) THEN doubled \cup {<<o, c>>} ELSE doubled
  BY DEF CheckPending, Start
<1> HIDE DEF step, task
<1>5. /\ pc'[w] = step /\ job'[w] = task
      /\ \A v \in Worker \ {w} : pc'[v] = pc[v] /\ job'[v] = job[v]
  BY <1>4 DEF AInv, IInv, TypeOK
<1>6. IInv'
  BY CheckPendingInv DEF AInv
<1>7. TwinsDoubled'
  <2> SUFFICES ASSUME NEW u \in Worker, NEW v \in Worker, u # v, Asking(u)', Asking(v)',
                      job'[u].officer = job'[v].officer, job'[u].case = job'[v].case
               PROVE  <<job'[u].officer, job'[u].case>> \in doubled'
    BY DEF TwinsDoubled
  <2>1. CASE u # w /\ v # w
    BY <1>4, <1>5, <2>1 DEF AInv, TwinsDoubled, Asking
  <2>2. CASE u = w \/ v = w
    <3>1. AskedByAnother(w, o, c)
      BY <1>1, <1>5, <2>2 DEF AskedByAnother, Asking
    <3> QED
      BY <1>1, <1>4, <1>5, <2>2, <3>1
  <2> QED
    BY <2>1, <2>2
<1>8. CheckedRequests'
  <2> SUFFICES ASSUME NEW v \in Worker, Asking(v)',
                      <<job'[v].officer, job'[v].case>> \notin doubled'
               PROVE  StillFree(v)'
    BY DEF CheckedRequests
  <2>1. CASE v = w
    BY <1>1, <1>2, <1>3, <1>4, <1>5, <2>1 DEF StillFree, Asking, Pending, Of
  <2>2. CASE v # w
    <3>1. StillFree(v)
      BY <1>4, <1>5, <2>2 DEF AInv, CheckedRequests, Asking
    <3> QED
      BY <1>4, <1>5, <2>2, <3>1 DEF StillFree, Asking, Pending, Active, Of, Effective
  <2> QED
    BY <2>1, <2>2
<1>9. \A o2 \in Officer, c2 \in Case : <<o2, c2>> \notin doubled' => AtMostOne(o2, c2)'
  BY <1>4 DEF AInv, AtMostOne, Pending, Active, Of, Effective
<1> QED
  BY <1>6, <1>7, <1>8, <1>9 DEF AInv

LEMMA CheckActiveA ==
  ASSUME AInv, NEW w \in Worker, CheckActive(w)
  PROVE  AInv'
<1> DEFINE found == Active(job[w].officer, job[w].case)
           step == Outcome(found, "checkActive")
<1>1. step \in {"insert", "duplicate", "raised"} /\ (step = "insert" => found = {})
  BY DEF Outcome, NextCheck
<1>2. /\ pc[w] = "checkActive" /\ pc' = [pc EXCEPT ![w] = step]
      /\ UNCHANGED <<row, now, lock, job, doubled>>
  BY DEF CheckActive, Goto
<1> HIDE DEF step
<1>3. pc'[w] = step /\ \A v \in Worker \ {w} : pc'[v] = pc[v]
  BY <1>2 DEF AInv, IInv, TypeOK
<1>4. IInv'
  BY CheckActiveInv DEF AInv
<1>5. \A v \in Worker : Asking(v)' => Asking(v)
  BY <1>1, <1>2, <1>3 DEF Asking
<1>6. TwinsDoubled'
  BY <1>2, <1>5 DEF AInv, TwinsDoubled
<1>7. CheckedRequests'
  <2> SUFFICES ASSUME NEW v \in Worker, Asking(v)', <<job[v].officer, job[v].case>> \notin doubled
               PROVE  StillFree(v)'
    BY <1>2 DEF CheckedRequests
  <2>1. StillFree(v)
    BY <1>5 DEF AInv, CheckedRequests
  <2>2. /\ Pending(job[v].officer, job[v].case)' = Pending(job[v].officer, job[v].case)
        /\ Active(job[v].officer, job[v].case)' = Active(job[v].officer, job[v].case)
    BY <1>2 DEF Pending, Active, Of, Effective
  <2>3. Pending(job[v].officer, job[v].case)' = {}
    BY <1>5, <2>1, <2>2 DEF StillFree
  <2>4. pc'[v] = "insert" => Active(job[v].officer, job[v].case)' = {}
    BY <1>1, <1>2, <1>3, <2>1, <2>2 DEF StillFree
  <2> QED
    BY <1>2, <2>3, <2>4 DEF StillFree, Pending, Active, Of, Effective
<1>8. \A o \in Officer, c \in Case : <<o, c>> \notin doubled' => AtMostOne(o, c)'
  BY <1>2 DEF AInv, AtMostOne, Pending, Active, Of, Effective
<1> QED
  BY <1>4, <1>6, <1>7, <1>8 DEF AInv

(* The request that inserts was the only one, and found nothing.           *)
LEMMA InsertA ==
  ASSUME AInv, NEW w \in Worker, Insert(w)
  PROVE  AInv'
<1> DEFINE o == job[w].officer
           c == job[w].case
<1>1. PICK e \in ExceptionId : row[e].status = "none" /\ row' = [row EXCEPT ![e] = Requested(job[w])]
  BY DEF Insert, NextId
<1>2. pc[w] = "insert" /\ End(w) /\ UNCHANGED <<now, doubled>>
  BY DEF Insert
<1>3. /\ row'[e].requester = o /\ row'[e].case = c /\ row'[e].status = "pending"
      /\ \A f \in ExceptionId \ {e} : row'[f] = row[f]
  BY <1>1 DEF Requested, AInv, IInv, TypeOK
<1>4. /\ pc'[w] = "idle"
      /\ \A v \in Worker \ {w} : pc'[v] = pc[v] /\ job'[v] = job[v]
  BY <1>2, EndFacts DEF AInv, IInv
<1>5. IInv'
  BY InsertInv DEF AInv
<1>6. \A v \in Worker : Asking(v)' => v # w /\ Asking(v) /\ pc'[v] = pc[v] /\ job'[v] = job[v]
  BY <1>4 DEF Asking
<1>7. TwinsDoubled'
  BY <1>2, <1>6 DEF AInv, TwinsDoubled
<1>8. /\ \A o2, c2 : Pending(o2, c2)' \subseteq Pending(o2, c2) \cup {e}
      /\ \A o2, c2 : Active(o2, c2)' \subseteq Active(o2, c2)
      /\ \A o2, c2 : (o2 # o \/ c2 # c) => Pending(o2, c2)' \subseteq Pending(o2, c2)
  BY <1>2, <1>3 DEF Pending, Active, Of, Effective
<1> HIDE DEF o, c
<1>9. CheckedRequests'
  <2> SUFFICES ASSUME NEW v \in Worker, Asking(v)',
                      <<job'[v].officer, job'[v].case>> \notin doubled'
               PROVE  StillFree(v)'
    BY DEF CheckedRequests
  <2>1. v # w /\ Asking(v) /\ pc'[v] = pc[v] /\ job'[v] = job[v]
    BY <1>6
  <2>undoubled. <<job[v].officer, job[v].case>> \notin doubled
    BY <1>2, <2>1
  <2>names. PICK o2, c2 : o2 = job[v].officer /\ c2 = job[v].case
    OBVIOUS
  <2>2. StillFree(v)
    BY <2>1, <2>undoubled DEF AInv, CheckedRequests
  <2>3. o2 # o \/ c2 # c
    BY <1>2, <2>names, <2>1, <2>undoubled DEF AInv, TwinsDoubled, Asking, o, c
  <2>4. Pending(o2, c2)' \subseteq Pending(o2, c2) /\ Active(o2, c2)' \subseteq Active(o2, c2)
    BY <1>8, <2>3
  <2>5. Pending(o2, c2)' = {}
    BY <2>names, <2>1, <2>2, <2>4 DEF StillFree
  <2>6. pc'[v] = "insert" => Active(o2, c2)' = {}
    BY <2>names, <2>1, <2>2, <2>4 DEF StillFree
  <2> QED
    BY <2>names, <2>1, <2>5, <2>6 DEF StillFree, Pending, Active, Of, Effective
<1>10. ASSUME NEW o2 \in Officer, NEW c2 \in Case, <<o2, c2>> \notin doubled'
       PROVE  AtMostOne(o2, c2)'
  <2>1. AtMostOne(o2, c2)
    BY <1>2, <1>10 DEF AInv
  <2>2. CASE o2 = o /\ c2 = c
    <3>1. StillFree(w)
      BY <1>2, <1>10, <2>2 DEF AInv, CheckedRequests, Asking, o, c
    <3>2. Pending(o2, c2) = {} /\ Active(o2, c2) = {}
      BY <1>2, <2>2, <3>1 DEF StillFree, Asking, o, c
    <3> QED
      BY <1>8, <3>2 DEF AtMostOne
  <2>3. CASE o2 # o \/ c2 # c
    BY <1>8, <2>1, <2>3 DEF AtMostOne
  <2> QED
    BY <2>2, <2>3
<1> QED
  BY <1>5, <1>7, <1>9, <1>10 DEF AInv

(* A review moves a pending row on, or takes one out of force.             *)
LEMMA TransitionA ==
  ASSUME AInv, NEW w \in Worker, Transition(w)
  PROVE  AInv'
<1> DEFINE e == job[w].id
           new == Decided(row[e], job[w].officer, job[w].to)
<1>1. /\ e \in ExceptionId /\ job[w].to \in {"approved", "denied", "revoked"}
      /\ job[w].read = row[e]
  BY DEF Transition, AInv, IInv, JobsWellFormed, ReviewWellFormed
<1>2. MayTransition(job[w].officer, row[e], job[w].to)
  BY <1>1 DEF Transition
<1>3. row' = [row EXCEPT ![e] = new] /\ End(w) /\ UNCHANGED <<now, doubled>>
  BY DEF Transition
<1>4. /\ new.status = job[w].to /\ new.requester = row[e].requester /\ new.case = row[e].case
  BY DEF Decided
<1>5. job[w].to = "approved" => row[e].status = "pending"
  BY <1>2 DEF MayTransition, Allowed
<1> HIDE DEF new
<1>6. row'[e] = new /\ \A f \in ExceptionId \ {e} : row'[f] = row[f]
  BY <1>1, <1>3 DEF AInv, IInv, TypeOK
<1> HIDE DEF e
<1>7. ASSUME NEW o, NEW c
      PROVE  NothingNew(o, c)
  <2>1. \A f \in ExceptionId : f \in Of(o, c)' => f \in Of(o, c)
    BY <1>4, <1>6 DEF Of
  <2>2. Pending(o, c)' \subseteq Pending(o, c)
    BY <1>1, <1>4, <1>6, <2>1 DEF Pending, Of
  <2>3. Active(o, c)' \subseteq Active(o, c) \cup Pending(o, c)
    BY <1>1, <1>3, <1>4, <1>5, <1>6, <2>1 DEF Pending, Active, Effective, Of
  <2> QED
    BY <2>2, <2>3 DEF NothingNew
<1>8. \A v \in Worker : Asking(v)' => Asking(v) /\ pc'[v] = pc[v] /\ job'[v] = job[v]
  BY <1>3, EndFacts DEF AInv, IInv, Asking
<1>9. IInv'
  BY TransitionInv DEF AInv
<1> QED
  BY <1>3, <1>7, <1>8, <1>9, QuietStep

LEMMA SameRowsNothingNew ==
  ASSUME UNCHANGED row, now \in Nat, now' \in Nat, now <= now', TypeOK
  PROVE  \A o, c : NothingNew(o, c)
<1> SUFFICES ASSUME NEW o, NEW c PROVE NothingNew(o, c)
  OBVIOUS
<1>1. Pending(o, c)' = Pending(o, c)
  BY DEF Pending, Of
<1>2. \A f \in ExceptionId : row[f].expires > now' => row[f].expires > now
  BY DEF TypeOK, ExceptionRow
<1>3. Active(o, c)' \subseteq Active(o, c)
  BY <1>2 DEF Active, Effective, Of
<1> QED
  BY <1>1, <1>3 DEF NothingNew

LEMMA NextA == AInv /\ [Next]_vars => AInv'
<1> SUFFICES ASSUME AInv, [Next]_vars PROVE AInv'
  OBVIOUS
<1>1. IInv' /\ TypeOK /\ now \in Nat /\ now' \in Nat
  BY NextInv DEF AInv, IInv, TypeOK
<1>2. ASSUME UNCHANGED <<row, doubled>>, now <= now',
             \A v \in Worker : Asking(v)' => Asking(v) /\ pc'[v] = pc[v] /\ job'[v] = job[v]
      PROVE  AInv'
  BY <1>1, <1>2, SameRowsNothingNew, QuietStep
<1>3. ASSUME NEW w \in Worker, End(w), UNCHANGED <<row, now, doubled>>
      PROVE  AInv'
  <2>1. \A v \in Worker : Asking(v)' => Asking(v) /\ pc'[v] = pc[v] /\ job'[v] = job[v]
    BY <1>3, EndFacts DEF AInv, IInv, Asking
  <2> QED
    BY <1>1, <1>2, <1>3, <2>1
<1>4. CASE Tick
  <2>1. now <= now' /\ UNCHANGED <<row, pc, job, doubled>>
    BY <1>1, <1>4 DEF Tick
  <2> QED
    BY <1>2, <2>1 DEF Asking
<1>5. ASSUME NEW w \in Worker, Ask(w)
      PROVE  AInv'
  BY <1>3, <1>5, CheckPendingA, CheckActiveA, InsertA DEF Ask, Refused
<1>6. ASSUME NEW w \in Worker, Review(w)
      PROVE  AInv'
  <2>1. CASE \E o \in Reviewer, e \in ExceptionId, to \in {"approved", "denied", "revoked"} :
               LockRow(w, o, e, to)
    <3>1. /\ \E task : job' = [job EXCEPT ![w] = task]
          /\ pc' = [pc EXCEPT ![w] = "transition"] /\ UNCHANGED <<row, now, doubled>>
      BY <2>1 DEF LockRow, Start
    <3>2. \A v \in Worker : Asking(v)' => Asking(v) /\ pc'[v] = pc[v] /\ job'[v] = job[v]
      BY <1>1, <3>1 DEF TypeOK, Asking
    <3> QED
      BY <1>1, <1>2, <3>1, <3>2
  <2> QED
    BY <1>3, <1>6, <2>1, TransitionA DEF Review, TransitionRejected
<1>7. ASSUME NEW w \in Worker, Read(w)
      PROVE  AInv'
  <2>1. CASE \E o \in Officer, c \in Case : ReadExempt(w, o, c)
    <3>1. /\ \E task : job' = [job EXCEPT ![w] = task]
          /\ pc' = [pc EXCEPT ![w] = "query"] /\ UNCHANGED <<row, now, doubled>>
      BY <2>1 DEF ReadExempt, Start
    <3>2. \A v \in Worker : Asking(v)' => Asking(v) /\ pc'[v] = pc[v] /\ job'[v] = job[v]
      BY <1>1, <3>1 DEF TypeOK, Asking
    <3> QED
      BY <1>1, <1>2, <3>1, <3>2
  <2>2. CASE QueryCase(w)
    <3>1. PICK step \in {"served", "notFound"} : pc' = [pc EXCEPT ![w] = step]
      BY <2>2 DEF QueryCase, Goto
    <3>2. UNCHANGED <<row, now, job, doubled>>
      BY <2>2 DEF QueryCase
    <3>3. \A v \in Worker : Asking(v)' => Asking(v) /\ pc'[v] = pc[v] /\ job'[v] = job[v]
      BY <1>1, <3>1, <3>2 DEF TypeOK, Asking
    <3> QED
      BY <1>1, <1>2, <3>2, <3>3
  <2> QED
    BY <1>3, <1>7, <2>1, <2>2 DEF Read, Answer
<1>8. ASSUME NEW w \in Worker, ConnectionLost(w)
      PROVE  AInv'
  BY <1>3, <1>8 DEF ConnectionLost
<1>9. CASE UNCHANGED vars
  BY <1>1, <1>2, <1>9 DEF vars, Asking
<1> QED
  BY <1>4, <1>5, <1>6, <1>7, <1>8, <1>9 DEF Next

(* A set whose members are all one has at most one.                        *)
LEMMA OneMember ==
  ASSUME NEW S, \A e, f \in S : e = f
  PROVE  Cardinality(S) <= 1
<1>1. CASE S = {}
  BY <1>1, FS_EmptySet
<1>2. CASE S # {}
  <2>1. PICK e \in S : TRUE
    BY <1>2
  <2>2. S = {e}
    BY <2>1
  <2> QED
    BY <2>2, FS_Singleton
<1> QED
  BY <1>1, <1>2

-----------------------------------------------------------------------------
(* Theorems *)

(* In every reachable state the rows, locks and sessions are well typed    *)
(* and well formed, whatever requests, reviews and reads overlap.          *)
THEOREM Invariance == Spec => []IInv
BY InitInv, NextInv, PTL DEF Spec

(* The table, the locks and the sessions are always of their type.         *)
THEOREM Typing == Spec => []TypeOK
<1>1. IInv => TypeOK
  BY DEF IInv
<1> QED
  BY Invariance, <1>1, PTL

(* SELECT ... FOR UPDATE serializes the reviews of a request: it is        *)
(* decided once and revoked at most once, with one audit row for each.     *)
THEOREM DecisionsHappenOnce == Spec => []DecidedOnce
<1>1. IInv => DecidedOnce
  BY DEF IInv, RowsWellFormed, RowWellFormed, DecidedOnce
<1> QED
  BY Invariance, <1>1, PTL

(* A case outside the reader's districts is only served on the strength of *)
(* an exception, approved by another officer, that was in force when the   *)
(* read began; and no exception reaches above the reader's tier.           *)
THEOREM AccessIsJustified == Spec => []AccessJustified
<1>1. IInv => AccessJustified
  <2> SUFFICES ASSUME IInv, NEW w \in Worker, pc[w] = "served"
               PROVE  LET o == job[w].officer
                          c == job[w].case
                      IN  /\ c \in Cleared[o]
                          /\ \/ o \in Reviewer \/ c \in Home[o]
                             \/ \E e \in Of(o, c) :
                                  /\ row[e].status \in {"approved", "revoked"}
                                  /\ row[e].status = "revoked" => row[e].reviewedAt >= job[w].since
                                  /\ row[e].expires > job[w].since
                                  /\ row[e].reviewer \in Reviewer \ {o}
    BY DEF AccessJustified
  <2> DEFINE o == job[w].officer
             c == job[w].case
  <2>1. ReadWellFormed(w)
    BY DEF IInv, JobsWellFormed
  <2>2. Visible(o, c, job[w].exempt)
    BY <2>1 DEF ReadWellFormed
  <2>3. CASE c \in job[w].exempt
    <3>1. PICK e \in ExceptionId : InForceSince(row[e], o, c, job[w].since)
      BY <2>1, <2>3 DEF ReadWellFormed
    <3>2. RowWellFormed(row[e])
      BY DEF IInv, RowsWellFormed
    <3>3. /\ e \in Of(o, c) /\ row[e].status \in {"approved", "revoked"}
          /\ row[e].status = "revoked" => row[e].reviewedAt >= job[w].since
          /\ row[e].expires > job[w].since
          /\ row[e].reviewer \in Reviewer \ {o}
      BY <3>1, <3>2 DEF InForceSince, RowWellFormed, Of
    <3> QED
      BY <2>2, <3>3 DEF Visible
  <2>4. CASE c \notin job[w].exempt
    BY <2>2, <2>4 DEF Visible
  <2> QED
    BY <2>3, <2>4
<1> QED
  BY Invariance, <1>1, PTL

-----------------------------------------------------------------------------
(* Refinement *)

LEMMA InitRefines == Init => Grants!Init
BY DEF Init, Grants!Init, NoRow

(* One row written is one request of the abstract table written.           *)
LEMMA RowWrittenRefines ==
  ASSUME NEW e \in ExceptionId, NEW new, row \in [ExceptionId -> ExceptionRow],
         row' = [row EXCEPT ![e] = new]
  PROVE  /\ [f \in ExceptionId |-> row'[f].status]
              = [[f \in ExceptionId |-> row[f].status] EXCEPT ![e] = new.status]
         /\ [f \in ExceptionId |-> row'[f].expires]
              = [[f \in ExceptionId |-> row[f].expires] EXCEPT ![e] = new.expires]
OBVIOUS

LEMMA NextRefines == IInv /\ [Next]_vars => [Grants!Next]_Grants!vars
<1> SUFFICES ASSUME IInv, [Next]_vars PROVE [Grants!Next]_Grants!vars
  OBVIOUS
<1>1. ASSUME UNCHANGED <<row, now>> PROVE UNCHANGED Grants!vars
  BY <1>1 DEF Grants!vars
<1>2. CASE Tick
  BY <1>2 DEF Tick, Grants!Next, Grants!Tick
<1>3. ASSUME NEW w \in Worker, Insert(w)
      PROVE  Grants!Next
  <2>1. PICK e \in ExceptionId : /\ row[e].status = "none"
                                 /\ row' = [row EXCEPT ![e] = Requested(job[w])]
    BY <1>3 DEF Insert, NextId
  <2>2. /\ job[w].officer \in Officer /\ job[w].case \in Case /\ job[w].hours \in Hours
    BY <1>3 DEF Insert, IInv, JobsWellFormed, AskWellFormed
  <2>3. Requested(job[w]).status = "pending" /\ Requested(job[w]).expires = 0
    BY <2>2, RequestedFacts
  <2>4. row[e].expires = 0
    BY <2>1 DEF IInv, RowsWellFormed, RowWellFormed, NoRow
  <2>5. UNCHANGED now /\ row \in [ExceptionId -> ExceptionRow]
    BY <1>3 DEF Insert, IInv, TypeOK
  <2>6. /\ [f \in ExceptionId |-> row'[f].status]
             = [[f \in ExceptionId |-> row[f].status] EXCEPT ![e] = "pending"]
        /\ [f \in ExceptionId |-> row'[f].expires]
             = [[f \in ExceptionId |-> row[f].expires] EXCEPT ![e] = 0]
    BY <2>1, <2>3, <2>5, RowWrittenRefines
  <2>7. [f \in ExceptionId |-> row'[f].expires] = [f \in ExceptionId |-> row[f].expires]
    BY <2>4, <2>6
  <2>8. Grants!Ask(e)
    BY <2>1, <2>5, <2>6, <2>7 DEF Grants!Ask, Grants!Step
  <2> QED
    BY <2>8 DEF Grants!Next
<1>4. ASSUME NEW w \in Worker, Transition(w)
      PROVE  Grants!Next
  <2>1. PICK e \in ExceptionId : e = job[w].id
    BY <1>4 DEF Transition, IInv, JobsWellFormed, ReviewWellFormed
  <2> DEFINE new == Decided(row[e], job[w].officer, job[w].to)
  <2>2. /\ job[w].to \in {"approved", "denied", "revoked"}
        /\ job[w].read = row[e] /\ row[e].status # "none"
    BY <1>4, <2>1 DEF Transition, IInv, JobsWellFormed, ReviewWellFormed
  <2>3. row[e].status \in Allowed(job[w].to)
    BY <1>4, <2>2 DEF Transition, MayTransition
  <2>4. row[e].hours \in Hours
    BY <2>2 DEF IInv, RowsWellFormed, RowWellFormed
  <2>5. /\ new.status = job[w].to
        /\ new.expires = IF job[w].to = "approved" THEN now + row[e].hours ELSE row[e].expires
    BY DEF Decided
  <2>6. row' = [row EXCEPT ![e] = new] /\ UNCHANGED now /\ row \in [ExceptionId -> ExceptionRow]
    BY <1>4, <2>1 DEF Transition, IInv, TypeOK
  <2> HIDE DEF new
  <2>7. /\ [f \in ExceptionId |-> row'[f].status]
             = [[f \in ExceptionId |-> row[f].status] EXCEPT ![e] = job[w].to]
        /\ [f \in ExceptionId |-> row'[f].expires]
             = [[f \in ExceptionId |-> row[f].expires] EXCEPT ![e] = new.expires]
    BY <2>2, <2>5, <2>6, RowWrittenRefines
  <2>8. job[w].to # "approved" =>
          [f \in ExceptionId |-> row'[f].expires] = [f \in ExceptionId |-> row[f].expires]
    BY <2>2, <2>5, <2>7
  <2>9. CASE job[w].to = "approved"
    <3>1. row[e].status = "pending"
      BY <2>3, <2>9 DEF Allowed
    <3>2. PICK h \in Hours : h = row[e].hours
      BY <2>4
    <3>3. Grants!Approve(e, h)
      BY <2>2, <2>5, <2>6, <2>7, <2>9, <3>1, <3>2 DEF Grants!Approve, Grants!Step
    <3> QED
      BY <3>3 DEF Grants!Next
  <2>10. CASE job[w].to = "denied"
    <3>1. row[e].status = "pending"
      BY <2>3, <2>10 DEF Allowed
    <3>2. Grants!Deny(e)
      BY <2>2, <2>6, <2>7, <2>8, <2>10, <3>1 DEF Grants!Deny, Grants!Step
    <3> QED
      BY <3>2 DEF Grants!Next
  <2>11. CASE job[w].to = "revoked"
    <3>1. row[e].status = "approved"
      BY <2>3, <2>11 DEF Allowed
    <3>2. Grants!Revoke(e)
      BY <2>2, <2>6, <2>7, <2>8, <2>11, <3>1 DEF Grants!Revoke, Grants!Step
    <3> QED
      BY <3>2 DEF Grants!Next
  <2> QED
    BY <2>2, <2>9, <2>10, <2>11
<1>5. CASE UNCHANGED vars
  BY <1>1, <1>5 DEF vars
<1>6. ASSUME NEW w \in Worker, Ask(w) \/ Review(w) \/ Read(w) \/ ConnectionLost(w)
      PROVE  [Grants!Next]_Grants!vars
  BY <1>1, <1>3, <1>4, <1>6 DEF Ask, CheckPending, CheckActive, Refused, Review, LockRow,
     TransitionRejected, Read, ReadExempt, QueryCase, Answer, ConnectionLost
<1> QED
  BY <1>2, <1>5, <1>6 DEF Next

(* The requests in the table live the life of the abstract grants: each is *)
(* decided once, runs its hours from the approval, and never comes back.   *)
THEOREM Refinement == Spec => ImplementsGrants
BY InitInv, NextInv, InitRefines, NextRefines, PTL DEF Spec, ImplementsGrants, Grants!Spec

(* An officer who never asked for one case twice at once holds at most one *)
(* exception for it that is pending or in force.                           *)
THEOREM OneRequestAtATime == Spec => []OneActive
<1>1. AInv => OneActive
  BY OneMember DEF AInv, AtMostOne, OneActive, OnceActive
<1> QED
  BY InitA, NextA, <1>1, PTL DEF Spec

=============================================================================
