----------------------- MODULE ConfidenceReviewProofs -----------------------
(***************************************************************************)
(* Theorems about ConfidenceReview, for every set of targets, officers,    *)
(* workers and scores and every number of reviews.                         *)
(***************************************************************************)
EXTENDS ConfidenceReview, TLAPS

(* What a worker that is still deciding knows about its review.            *)
JobWellFormed(w) ==
  LET r == job[w].review
  IN  /\ r \in ReviewId
      /\ review[r].status # "none"
      /\ job[w].officer \in Officer
      /\ job[w].officer # review[r].submitter
      /\ pc[w] \in {"alert", "audit"} =>
           /\ review[r].target \in Target
           /\ review[r].proposed \in Score
           /\ seen[w] \in TargetRow
      /\ pc[w] = "readTarget" => review[r].proposed \in Score
      /\ pc[w] = "audit" => alerts[r] > 0

JobsWellFormed == \A w \in Worker : pc[w] # "idle" => JobWellFormed(w)

(* A submitted review keeps naming a target and a submitter.               *)
ReviewsWellFormed ==
  \A r \in ReviewId :
    review[r].status # "none" => /\ review[r].target \in Target
                                 /\ review[r].submitter \in Officer

IInv ==
  /\ TypeOK
  /\ ReviewsWellFormed
  /\ JobsWellFormed
  /\ ScoreExplained
  /\ DecisionsRecorded

-----------------------------------------------------------------------------

LEMMA BandType == \A s \in Score : BandForScore(s) \in Band
BY DEF BandForScore, Band

LEMMA DecidedFacts ==
  ASSUME TypeOK, NEW w \in Worker, NEW r \in ReviewId
  PROVE  LET row == Decided(review[r], w)
         IN  /\ job[w].officer \in Officer => row \in ReviewRow
             /\ row.status \in {"accepted", "rejected"}
             /\ row.reviewer = job[w].officer
             /\ row.target = review[r].target
             /\ row.proposed = review[r].proposed
             /\ row.submitter = review[r].submitter
<1> DEFINE verdict == IF job[w].decision = "accept" THEN "accepted" ELSE "rejected"
<1> DEFINE row == Decided(review[r], w)
<1>1. review[r] \in ReviewRow
  BY DEF TypeOK
<1> DEFINE stamped == [review[r] EXCEPT !.status = verdict]
<1>2. /\ stamped \in ReviewRow /\ stamped.status \in {"accepted", "rejected"}
      /\ stamped.target = review[r].target /\ stamped.proposed = review[r].proposed
      /\ stamped.submitter = review[r].submitter
  BY <1>1 DEF ReviewRow
<1>3. row = [stamped EXCEPT !.reviewer = job[w].officer]
  BY <1>1, Zenon DEF Decided, ReviewRow
<1> HIDE DEF stamped
<1> QED
  BY <1>2, <1>3 DEF ReviewRow

LEMMA ScoredRowFacts ==
  ASSUME NEW row \in TargetRow, NEW loaded \in TargetRow, NEW s \in Score
  PROVE  LET new == ScoredRow(row, loaded, s)
         IN  new \in TargetRow /\ new.disputed /\ new.score \in {row.score, s}
BY BandType DEF ScoredRow, TargetRow, Written

(* A worker that ends leaves the others where they are.                    *)
LEMMA EndFacts ==
  ASSUME TypeOK, NEW w \in Worker, End(w)
  PROVE  /\ pc' \in [Worker -> Pc] /\ job' \in [Worker -> Job]
         /\ seen' \in [Worker -> TargetRow \cup {Nil}]
         /\ pc'[w] = "idle"
         /\ \A v \in Worker \ {w} : pc'[v] = pc[v] /\ job'[v] = job[v] /\ seen'[v] = seen[v]
BY DEF TypeOK, End, Pc, NoJob, Job, Decision

(* A step that only ends a worker.                                         *)
LEMMA EndOnly ==
  ASSUME IInv, NEW w \in Worker, End(w), UNCHANGED <<target, review, alerts, audits>>,
         disturbed' \subseteq ReviewId
  PROVE  IInv'
<1>1. TypeOK'
  BY EndFacts DEF IInv, TypeOK
<1>2. JobsWellFormed'
  BY EndFacts DEF IInv, JobsWellFormed, JobWellFormed
<1>3. ReviewsWellFormed' /\ ScoreExplained' /\ DecisionsRecorded'
  BY DEF IInv, ReviewsWellFormed, ScoreExplained, DecisionsRecorded
<1> QED
  BY <1>1, <1>2, <1>3 DEF IInv

LEMMA InitInv == Init => IInv
<1> SUFFICES ASSUME Init PROVE IInv
  OBVIOUS
<1>1. TypeOK
  <2>1. target \in [Target -> TargetRow]
    BY ScoreAssumption, BandType DEF Init, TargetRow
  <2>2. review \in [ReviewId -> ReviewRow]
    BY DEF Init, NoReview, ReviewRow
  <2> QED
    BY <2>1, <2>2 DEF Init, TypeOK, Pc, NoJob, Job, Decision
<1>2. ReviewsWellFormed /\ JobsWellFormed /\ ScoreExplained /\ DecisionsRecorded
  BY DEF Init, ReviewsWellFormed, JobsWellFormed, JobWellFormed, ScoreExplained, DecisionsRecorded, NoReview
<1> QED
  BY <1>1, <1>2 DEF IInv

(* A new review takes a row nobody has decided, alerted or audited.        *)
LEMMA SubmitInv ==
  ASSUME IInv, NEW o \in Officer, NEW t \in Target, NEW s \in Score \cup {Nil}, Submit(o, t, s)
  PROVE  IInv'
<1>1. PICK r \in ReviewId : /\ review[r].status = "none"
                            /\ review' = [review EXCEPT ![r] = NewReview(o, t, s)]
  BY DEF Submit, NextReview
<1>2. UNCHANGED <<target, alerts, audits, pc, job, seen, disturbed>>
  BY DEF Submit
<1>3. /\ NewReview(o, t, s) \in ReviewRow /\ NewReview(o, t, s).status = "pending"
      /\ NewReview(o, t, s).target = t /\ NewReview(o, t, s).submitter = o
  BY DEF NewReview, ReviewRow
<1>4. alerts[r] = 0 /\ audits[r] = 0
  <2>1. alerts[r] \in Nat /\ audits[r] \in Nat
    BY DEF IInv, TypeOK
  <2>2. ~(alerts[r] + audits[r] > 0)
    BY <1>1 DEF IInv, DecisionsRecorded
  <2> QED
    BY <2>1, <2>2
<1>5. TypeOK'
  BY <1>1, <1>2, <1>3 DEF IInv, TypeOK
<1>6. \A q \in ReviewId \ {r} : review'[q] = review[q]
  BY <1>1 DEF IInv, TypeOK
<1>7. review'[r] = NewReview(o, t, s)
  BY <1>1 DEF IInv, TypeOK
<1>8. ReviewsWellFormed'
  BY <1>3, <1>6, <1>7 DEF IInv, ReviewsWellFormed
<1>9. \A w \in Worker : pc[w] # "idle" => job[w].review # r
  BY <1>1 DEF IInv, JobsWellFormed, JobWellFormed
<1>10. JobsWellFormed'
  BY <1>2, <1>6, <1>9 DEF IInv, JobsWellFormed, JobWellFormed
<1>11. ScoreExplained'
  BY <1>2, <1>4, <1>6 DEF IInv, ScoreExplained
<1>12. DecisionsRecorded'
  BY <1>2, <1>3, <1>4, <1>6, <1>7 DEF IInv, DecisionsRecorded
<1> QED
  BY <1>5, <1>8, <1>10, <1>11, <1>12 DEF IInv

LEMMA DisturbsType ==
  ASSUME IInv, NEW w \in Worker, NEW r \in ReviewId
  PROVE  Disturbs(w, r) \subseteq ReviewId
BY DEF Disturbs, Rivals, IInv, JobsWellFormed, JobWellFormed

LEMMA ReadReviewInv ==
  ASSUME IInv, NEW w \in Worker, NEW o \in Officer, NEW r \in ReviewId, NEW d \in Decision,
         ReadReview(w, o, r, d)
  PROVE  IInv'
<1> DEFINE task == [review |-> r, decision |-> d, officer |-> o]
<1>1. task \in Job /\ task.review = r /\ task.officer = o
  BY DEF Job
<1>2. /\ job' = [job EXCEPT ![w] = task]
      /\ pc' = [pc EXCEPT ![w] = IF WritesScore(r, d) THEN "readTarget" ELSE "close"]
      /\ UNCHANGED <<target, review, alerts, audits, seen>>
      /\ review[r].status = "pending" /\ review[r].submitter # o
      /\ disturbed' = disturbed \cup Disturbs(w, r)
  BY DEF ReadReview, MayDecide
<1>typed. disturbed' \subseteq ReviewId
  BY <1>2, DisturbsType DEF IInv, TypeOK
<1>3. TypeOK'
  BY <1>1, <1>2, <1>typed DEF IInv, TypeOK, Pc
<1>4. pc'[w] = "readTarget" => review[r].proposed \in Score
  BY <1>2 DEF IInv, TypeOK, WritesScore, ReviewRow
<1> HIDE DEF task
<1>5. /\ job'[w] = task /\ pc'[w] \in {"readTarget", "close"}
      /\ \A v \in Worker \ {w} : job'[v] = job[v] /\ pc'[v] = pc[v] /\ seen'[v] = seen[v]
  BY <1>1, <1>2 DEF IInv, TypeOK
<1>6. JobsWellFormed'
  BY <1>1, <1>2, <1>4, <1>5 DEF IInv, JobsWellFormed, JobWellFormed
<1>7. ReviewsWellFormed' /\ ScoreExplained' /\ DecisionsRecorded'
  BY <1>2 DEF IInv, ReviewsWellFormed, ScoreExplained, DecisionsRecorded
<1> QED
  BY <1>3, <1>6, <1>7 DEF IInv

LEMMA ReadTargetInv ==
  ASSUME IInv, NEW w \in Worker, ReadTarget(w)
  PROVE  IInv'
<1> DEFINE t == review[job[w].review].target
<1>1. /\ pc[w] = "readTarget" /\ seen' = [seen EXCEPT ![w] = target[t]]
      /\ pc' = [pc EXCEPT ![w] = IF t \in Edge THEN "alert" ELSE "raised"]
      /\ UNCHANGED <<target, review, alerts, audits, job, disturbed>>
  BY DEF ReadTarget
<1>2. t \in Target /\ review[job[w].review].proposed \in Score
  BY <1>1 DEF IInv, JobsWellFormed, JobWellFormed, ReviewsWellFormed
<1>3. target[t] \in TargetRow
  BY <1>2 DEF IInv, TypeOK
<1> HIDE DEF t
<1>4. TypeOK'
  BY <1>1, <1>3 DEF IInv, TypeOK, Pc
<1>5. /\ pc'[w] \in {"alert", "raised"} /\ seen'[w] = target[t]
      /\ \A v \in Worker \ {w} : pc'[v] = pc[v] /\ seen'[v] = seen[v]
  BY <1>1 DEF IInv, TypeOK
<1>6. JobsWellFormed'
  BY <1>1, <1>2, <1>3, <1>5 DEF IInv, JobsWellFormed, JobWellFormed, t
<1>7. ReviewsWellFormed' /\ ScoreExplained' /\ DecisionsRecorded'
  BY <1>1 DEF IInv, ReviewsWellFormed, ScoreExplained, DecisionsRecorded
<1> QED
  BY <1>4, <1>6, <1>7 DEF IInv

(* Whatever is decided, what was submitted stays.                           *)
KeepsSubmissions ==
  \A q \in ReviewId : /\ review'[q].target = review[q].target
                      /\ review'[q].proposed = review[q].proposed
                      /\ review'[q].submitter = review[q].submitter
                      /\ review[q].status # "none" => review'[q].status # "none"

(* What a decision on r does to the reviews.                               *)
DecisionOf(r) ==
  /\ review' \in [ReviewId -> ReviewRow]
  /\ ReviewsWellFormed'
  /\ KeepsSubmissions
  /\ \A q \in ReviewId \ {r} : review'[q] = review[q]
  /\ review'[r].status \in {"accepted", "rejected"}
  /\ review'[r].reviewer \in Officer \ {review'[r].submitter}

LEMMA DecideFacts ==
  ASSUME IInv, NEW w \in Worker, pc[w] # "idle",
         review' = [review EXCEPT ![job[w].review] = Decided(@, w)]
  PROVE  DecisionOf(job[w].review)
<1> DEFINE r == job[w].review
<1> DEFINE row == Decided(review[r], w)
<1>1. r \in ReviewId /\ job[w].officer \in Officer /\ job[w].officer # review[r].submitter
  BY DEF IInv, JobsWellFormed, JobWellFormed
<1>2. review[r].status # "none"
  BY DEF IInv, JobsWellFormed, JobWellFormed
<1>3. /\ row \in ReviewRow /\ row.status \in {"accepted", "rejected"}
      /\ row.reviewer = job[w].officer /\ row.target = review[r].target
      /\ row.proposed = review[r].proposed /\ row.submitter = review[r].submitter
  BY <1>1, DecidedFacts DEF IInv
<1>4. review' = [review EXCEPT ![r] = row] /\ review \in [ReviewId -> ReviewRow]
  BY DEF IInv, TypeOK
<1> HIDE DEF row, r
<1>5. review' \in [ReviewId -> ReviewRow]
  BY <1>3, <1>4
<1>6. review'[r] = row /\ \A q \in ReviewId \ {r} : review'[q] = review[q]
  BY <1>1, <1>4
<1>7. ReviewsWellFormed'
  BY <1>2, <1>3, <1>6 DEF IInv, ReviewsWellFormed
<1>8. review'[r].reviewer \in Officer \ {review'[r].submitter}
  BY <1>1, <1>3, <1>6
<1> QED
  BY <1>1, <1>2, <1>3, <1>5, <1>6, <1>7, <1>8 DEF DecisionOf, KeepsSubmissions, r

LEMMA CloseInv ==
  ASSUME IInv, NEW w \in Worker, Close(w)
  PROVE  IInv'
<1> DEFINE r == job[w].review
<1>1. pc[w] # "idle" /\ r \in ReviewId /\ End(w) /\ UNCHANGED <<target, alerts, disturbed>>
  BY DEF Close, IInv, JobsWellFormed, JobWellFormed
<1>2. audits' \in [ReviewId -> Nat] /\ \A q \in ReviewId \ {r} : audits'[q] = audits[q]
  BY <1>1 DEF Close, IInv, TypeOK
<1>3. DecisionOf(r)
  BY <1>1, DecideFacts DEF Close
<1> HIDE DEF r
<1>4. TypeOK'
  BY <1>1, <1>2, <1>3, EndFacts DEF DecisionOf, IInv, TypeOK
<1>5. KeepsSubmissions
  BY <1>3 DEF DecisionOf
<1>6. JobsWellFormed'
  <2>1. /\ pc'[w] = "idle"
        /\ \A v \in Worker \ {w} : pc'[v] = pc[v] /\ job'[v] = job[v] /\ seen'[v] = seen[v]
    BY <1>1, EndFacts DEF IInv
  <2> SUFFICES ASSUME NEW v \in Worker \ {w}, pc[v] # "idle"
               PROVE  JobWellFormed(v)'
    BY <2>1 DEF JobsWellFormed
  <2>2. JobWellFormed(v)
    BY DEF IInv, JobsWellFormed
  <2> QED
    BY <1>1, <1>5, <2>1, <2>2 DEF KeepsSubmissions, JobWellFormed
<1>7. ScoreExplained'
  BY <1>1, <1>5 DEF KeepsSubmissions, IInv, ScoreExplained
<1>8. DecisionsRecorded'
  BY <1>1, <1>2, <1>3 DEF DecisionOf, IInv, DecisionsRecorded
<1> QED
  BY <1>3, <1>4, <1>6, <1>7, <1>8 DEF DecisionOf, IInv

LEMMA AlertCommitInv ==
  ASSUME IInv, NEW w \in Worker, AlertCommit(w)
  PROVE  IInv'
<1> DEFINE r == job[w].review
           t == review[r].target
           row == ScoredRow(target[t], seen[w], review[r].proposed)
<1>1. /\ pc[w] = "alert" /\ r \in ReviewId /\ t \in Target
      /\ review[r].proposed \in Score /\ seen[w] \in TargetRow
  BY DEF AlertCommit, IInv, JobsWellFormed, JobWellFormed
<1>2. /\ target' = [target EXCEPT ![t] = row]
      /\ alerts' = [alerts EXCEPT ![r] = alerts[r] + 1]
      /\ pc' = [pc EXCEPT ![w] = "audit"]
      /\ UNCHANGED <<audits, job, seen, disturbed>>
  BY DEF AlertCommit
<1>3. target[t] \in TargetRow
  BY <1>1 DEF IInv, TypeOK
<1>4. row \in TargetRow /\ row.disputed /\ row.score \in {target[t].score, review[r].proposed}
  BY <1>1, <1>3, ScoredRowFacts
<1> HIDE DEF row
<1>5. /\ target' \in [Target -> TargetRow] /\ target'[t] = row
      /\ \A u \in Target \ {t} : target'[u] = target[u]
  BY <1>1, <1>2, <1>4 DEF IInv, TypeOK
<1>6. /\ alerts' \in [ReviewId -> Nat] /\ alerts'[r] > 0
      /\ \A q \in ReviewId : alerts[q] > 0 => alerts'[q] > 0
      /\ \A q \in ReviewId \ {r} : alerts'[q] = alerts[q]
  BY <1>1, <1>2 DEF IInv, TypeOK
<1>7. /\ pc' \in [Worker -> Pc] /\ pc'[w] = "audit"
      /\ \A v \in Worker \ {w} : pc'[v] = pc[v]
  BY <1>2 DEF IInv, TypeOK, Pc
<1>8. DecisionOf(r)
  BY <1>1, DecideFacts DEF AlertCommit
<1>9. TypeOK'
  BY <1>2, <1>5, <1>6, <1>7, <1>8 DEF DecisionOf, IInv, TypeOK
<1>10. r = job[w].review /\ t = review[r].target
  OBVIOUS
<1> HIDE DEF t, r
<1>11. UNCHANGED <<audits, job, seen>>
  BY <1>2
<1>12. KeepsSubmissions
  BY <1>8 DEF DecisionOf
<1>13. JobsWellFormed'
  <2> SUFFICES ASSUME NEW v \in Worker, pc[v] # "idle"
               PROVE  JobWellFormed(v)'
    BY <1>1, <1>7 DEF JobsWellFormed
  <2>1. JobWellFormed(v)
    BY DEF IInv, JobsWellFormed
  <2>2. pc'[v] = pc[v] \/ (v = w /\ pc'[v] = "audit")
    BY <1>7
  <2> QED
    BY <1>1, <1>6, <1>10, <1>11, <1>12, <2>1, <2>2 DEF KeepsSubmissions, JobWellFormed
<1>14. ScoreExplained'
  <2> SUFFICES ASSUME NEW u \in Target, target'[u].score # Ingested[u]
               PROVE  /\ target'[u].disputed
                      /\ \E q \in ReviewId : /\ review'[q].target = u
                                             /\ review'[q].proposed = target'[u].score
                                             /\ alerts'[q] > 0
    BY DEF ScoreExplained
  <2>1. CASE target'[u].score = target[u].score
    <3>1. /\ target[u].disputed
          /\ \E q \in ReviewId : /\ review[q].target = u
                                 /\ review[q].proposed = target'[u].score
                                 /\ alerts[q] > 0
      BY <2>1 DEF IInv, ScoreExplained
    <3>2. target'[u].disputed
      BY <1>4, <1>5, <3>1
    <3> QED
      BY <1>6, <1>12, <3>1, <3>2 DEF KeepsSubmissions
  <2>2. CASE target'[u].score # target[u].score
    <3>1. u = t /\ target'[u].score = review[r].proposed /\ target'[u].disputed
      BY <1>4, <1>5, <2>2
    <3> QED
      BY <1>1, <1>6, <1>12, <1>10, <3>1 DEF KeepsSubmissions
  <2> QED
    BY <2>1, <2>2
<1>15. DecisionsRecorded'
  BY <1>1, <1>8, <1>6, <1>11 DEF DecisionOf, IInv, DecisionsRecorded
<1> QED
  BY <1>8, <1>9, <1>13, <1>14, <1>15 DEF DecisionOf, IInv

(* The audit row of a decision comes after its alert.                      *)
LEMMA AuditInv ==
  ASSUME IInv, NEW w \in Worker, Audit(w)
  PROVE  IInv'
<1> DEFINE r == job[w].review
<1>1. /\ r \in ReviewId /\ alerts[r] > 0
      /\ audits' = [audits EXCEPT ![r] = audits[r] + 1]
      /\ UNCHANGED <<target, review, alerts, disturbed>>
  BY DEF Audit, IInv, JobsWellFormed, JobWellFormed
<1>2. audits' \in [ReviewId -> Nat] /\ \A q \in ReviewId \ {r} : audits'[q] = audits[q]
  BY <1>1 DEF IInv, TypeOK
<1>3. TypeOK'
  BY <1>1, <1>2, EndFacts DEF Audit, IInv, TypeOK
<1>4. JobsWellFormed'
  BY <1>1, EndFacts DEF Audit, IInv, JobsWellFormed, JobWellFormed
<1>5. ScoreExplained' /\ ReviewsWellFormed'
  BY <1>1 DEF IInv, ScoreExplained, ReviewsWellFormed
<1>6. alerts[r] + audits[r] > 0
  BY <1>1 DEF IInv, TypeOK
<1>7. DecisionsRecorded'
  BY <1>1, <1>2, <1>6 DEF IInv, DecisionsRecorded
<1> QED
  BY <1>3, <1>4, <1>5, <1>7 DEF IInv

LEMMA NextInv == IInv /\ [Next]_vars => IInv'
<1> SUFFICES ASSUME IInv, [Next]_vars PROVE IInv'
  OBVIOUS
<1>1. CASE \E o \in Officer, t \in Target, s \in Score \cup {Nil} : Submit(o, t, s)
  BY <1>1, SubmitInv
<1>2. ASSUME NEW w \in Worker, Decide(w) \/ ConnectionLost(w)
      PROVE  IInv'
  <2>1. CASE \E o \in Officer, r \in ReviewId, d \in Decision : ReadReview(w, o, r, d)
    BY <2>1, ReadReviewInv
  <2>2. CASE Close(w)
    BY <2>2, CloseInv
  <2>3. CASE ReadTarget(w)
    BY <2>3, ReadTargetInv
  <2>4. CASE AlertCommit(w)
    BY <2>4, AlertCommitInv
  <2>5. CASE Audit(w)
    BY <2>5, AuditInv
  <2>6. CASE ServerError(w) \/ ConnectionLost(w)
    <3>1. disturbed' \subseteq ReviewId
      BY <2>6 DEF ServerError, ConnectionLost, IInv, TypeOK, JobsWellFormed, JobWellFormed
    <3> QED
      BY <2>6, <3>1, EndOnly DEF ServerError, ConnectionLost
  <2> QED
    BY <1>2, <2>1, <2>2, <2>3, <2>4, <2>5, <2>6 DEF Decide
<1>3. CASE UNCHANGED vars
  <2>1. TypeOK'
    BY <1>3 DEF vars, IInv, TypeOK
  <2> QED
    BY <1>3, <2>1 DEF vars, IInv, ReviewsWellFormed, JobsWellFormed, JobWellFormed, ScoreExplained,
       DecisionsRecorded
<1> QED
  BY <1>1, <1>2, <1>3 DEF Next

-----------------------------------------------------------------------------
(* Decisions that ran undisturbed: a second invariant on top of the first. *)

IdleJobs == \A w \in Worker : pc[w] = "idle" => job[w].review = Nil

(* Whoever decides about a target somebody else is deciding about is known *)
(* to be disturbed.                                                        *)
RivalsDisturbed ==
  \A v, w \in Worker :
    (/\ v # w /\ pc[v] # "idle" /\ pc[w] # "idle"
     /\ review[job[v].review].target = review[job[w].review].target) =>
      job[v].review \in disturbed

(* What an undisturbed worker read is still so.                            *)
ReadsCurrent(w) ==
  LET r == job[w].review
  IN  /\ pc[w] \in {"close", "readTarget", "alert", "raised"} => review[r].status = "pending"
      /\ pc[w] = "close" => ~WritesScore(r, job[w].decision)
      /\ pc[w] \in {"readTarget", "alert"} => WritesScore(r, job[w].decision)
      /\ pc[w] = "alert" => seen[w] = target[review[r].target]
      /\ pc[w] = "audit" => /\ review[r].status = "accepted" /\ review[r].proposed # Nil
                            /\ alerts[r] = 1 /\ audits[r] = 0

UndisturbedJobs ==
  \A w \in Worker : (pc[w] # "idle" /\ job[w].review \notin disturbed) => ReadsCurrent(w)

DisturbedExist == \A r \in disturbed : review[r].status # "none"

DInv ==
  /\ IInv
  /\ DisturbedExist
  /\ IdleJobs
  /\ RivalsDisturbed
  /\ UndisturbedJobs
  /\ DecidedExactlyOnce
  /\ BandMatchesScore

-----------------------------------------------------------------------------
(* A worker's steps leave the others what they know.                       *)
LEMMA OthersKnow ==
  ASSUME DInv, NEW w \in Worker, NEW v \in Worker \ {w}, pc[v] # "idle",
         disturbed \subseteq disturbed', job[v].review \notin disturbed',
         pc'[v] = pc[v], job'[v] = job[v], seen'[v] = seen[v],
         review'[job[v].review] = review[job[v].review],
         alerts'[job[v].review] = alerts[job[v].review],
         audits'[job[v].review] = audits[job[v].review],
         target'[review[job[v].review].target] = target[review[job[v].review].target]
  PROVE  ReadsCurrent(v)'
<1>1. ReadsCurrent(v)
  BY DEF DInv, UndisturbedJobs
<1> QED
  BY <1>1 DEF ReadsCurrent, WritesScore

(* Somebody undisturbed decides about another target, and another review.  *)
LEMMA OthersElsewhere ==
  ASSUME DInv, NEW w \in Worker, pc[w] # "idle", NEW v \in Worker \ {w}, pc[v] # "idle",
         job[v].review \notin disturbed
  PROVE  /\ job[v].review \in ReviewId /\ job[v].review # job[w].review
         /\ review[job[v].review].target # review[job[w].review].target
         /\ review[job[v].review].target \in Target
<1>1. job[v].review \in ReviewId /\ review[job[v].review].status # "none"
  BY DEF DInv, IInv, JobsWellFormed, JobWellFormed
<1>2. review[job[v].review].target # review[job[w].review].target
  BY DEF DInv, RivalsDisturbed
<1>3. review[job[v].review].target \in Target
  BY <1>1 DEF DInv, IInv, ReviewsWellFormed
<1> QED
  BY <1>1, <1>2, <1>3

LEMMA EndRivals ==
  ASSUME DInv, NEW w \in Worker, End(w), KeepsSubmissions, disturbed \subseteq disturbed'
  PROVE  IdleJobs' /\ RivalsDisturbed'
<1>1. /\ pc'[w] = "idle" /\ job'[w].review = Nil
      /\ \A v \in Worker \ {w} : pc'[v] = pc[v] /\ job'[v] = job[v]
  <2>1. job' = [job EXCEPT ![w] = NoJob] /\ job \in [Worker -> Job] /\ NoJob.review = Nil
    BY DEF End, DInv, IInv, TypeOK, NoJob
  <2>2. job'[w] = NoJob
    BY <2>1
  <2> QED
    BY <2>1, <2>2, EndFacts DEF DInv, IInv
<1>2. \A v \in Worker : pc[v] # "idle" => job[v].review \in ReviewId
  BY DEF DInv, IInv, JobsWellFormed, JobWellFormed
<1>3. RivalsDisturbed'
  <2> SUFFICES ASSUME NEW u \in Worker, NEW v \in Worker, u # v,
                      pc'[u] # "idle", pc'[v] # "idle",
                      review'[job'[u].review].target = review'[job'[v].review].target
               PROVE  job'[u].review \in disturbed'
    BY DEF RivalsDisturbed
  <2>1. u # w /\ v # w
    BY <1>1
  <2>2. review[job[u].review].target = review[job[v].review].target
    BY <1>1, <1>2, <2>1 DEF KeepsSubmissions
  <2> QED
    BY <1>1, <2>1, <2>2 DEF DInv, RivalsDisturbed
<1> QED
  BY <1>1, <1>3 DEF DInv, IdleJobs

(* An undecided review has neither an alert nor an audit row.              *)
LEMMA PendingUnrecorded ==
  ASSUME DInv, NEW r \in ReviewId, review[r].status \notin {"accepted", "rejected"}
  PROVE  alerts[r] = 0 /\ audits[r] = 0
<1>1. alerts[r] \in Nat /\ audits[r] \in Nat
  BY DEF DInv, IInv, TypeOK
<1>2. ~(alerts[r] + audits[r] > 0)
  BY DEF DInv, IInv, DecisionsRecorded
<1> QED
  BY <1>1, <1>2

(* A step that only ends a worker: the connection that breaks after the    *)
(* commit of the alert leaves its review disturbed.                        *)
LEMMA EndOnlyD ==
  ASSUME DInv, NEW w \in Worker, pc[w] # "idle", End(w),
         UNCHANGED <<target, review, alerts, audits>>,
         disturbed \subseteq disturbed', disturbed' \subseteq disturbed \cup {job[w].review},
         pc[w] \in {"readTarget", "alert", "close", "raised"} \/ job[w].review \in disturbed'
  PROVE  DInv'
<1>0. job[w].review \in ReviewId /\ review[job[w].review].status # "none"
  BY DEF DInv, IInv, JobsWellFormed, JobWellFormed
<1>1. IInv' /\ DisturbedExist'
  <2>1. disturbed' \subseteq ReviewId
    BY <1>0 DEF DInv, IInv, TypeOK
  <2>2. IInv'
    BY <2>1, EndOnly DEF DInv
  <2> QED
    BY <1>0, <2>2 DEF DInv, DisturbedExist
<1>2. KeepsSubmissions
  BY DEF KeepsSubmissions
<1>3. IdleJobs' /\ RivalsDisturbed'
  BY <1>2, EndRivals
<1>4. /\ pc'[w] = "idle"
      /\ \A v \in Worker \ {w} : pc'[v] = pc[v] /\ job'[v] = job[v] /\ seen'[v] = seen[v]
  BY EndFacts DEF DInv, IInv
<1>5. UndisturbedJobs'
  BY <1>4, OthersKnow DEF UndisturbedJobs
<1>6. DecidedExactlyOnce'
  <2> SUFFICES ASSUME NEW r \in ReviewId, review[r].status \in {"accepted", "rejected"},
                      r \notin disturbed', \A v \in Worker : job'[v].review # r
               PROVE  /\ audits[r] = 1
                      /\ alerts[r] = IF review[r].status = "accepted" /\ review[r].proposed # Nil
                                       THEN 1 ELSE 0
    BY DEF DecidedExactlyOnce
  <2>1. job[w].review # r
    BY DEF DInv, UndisturbedJobs, ReadsCurrent
  <2>2. \A v \in Worker : job[v].review # r
    BY <1>4, <2>1
  <2> QED
    BY <2>2 DEF DInv, DecidedExactlyOnce
<1>7. BandMatchesScore'
  BY DEF DInv, BandMatchesScore
<1> QED
  BY <1>1, <1>3, <1>5, <1>6, <1>7 DEF DInv

LEMMA InitD == Init => DInv
<1> SUFFICES ASSUME Init PROVE DInv
  OBVIOUS
<1>1. IInv
  BY InitInv
<1>2. DisturbedExist /\ IdleJobs /\ RivalsDisturbed /\ UndisturbedJobs /\ DecidedExactlyOnce
  BY DEF Init, NoJob, NoReview, DisturbedExist, IdleJobs, RivalsDisturbed, UndisturbedJobs,
     DecidedExactlyOnce
<1>3. BandMatchesScore
  BY DEF Init, BandMatchesScore
<1> QED
  BY <1>1, <1>2, <1>3 DEF DInv

LEMMA SubmitD ==
  ASSUME DInv, NEW o \in Officer, NEW t \in Target, NEW s \in Score \cup {Nil}, Submit(o, t, s)
  PROVE  DInv'
<1>1. PICK r \in ReviewId : /\ review[r].status = "none"
                            /\ review' = [review EXCEPT ![r] = NewReview(o, t, s)]
  BY DEF Submit, NextReview
<1>2. UNCHANGED <<target, alerts, audits, pc, job, seen, disturbed>>
  BY DEF Submit
<1>3. /\ \A q \in ReviewId \ {r} : review'[q] = review[q]
      /\ review'[r].status = "pending"
  BY <1>1 DEF DInv, IInv, TypeOK, NewReview
<1>4. \A w \in Worker : pc[w] # "idle" =>
        job[w].review \in ReviewId \ {r} /\ review[job[w].review].target \in Target
  BY <1>1 DEF DInv, IInv, JobsWellFormed, JobWellFormed, ReviewsWellFormed
<1>5. IInv' /\ DisturbedExist'
  <2>1. DisturbedExist'
    BY <1>2, <1>3 DEF DInv, IInv, TypeOK, DisturbedExist
  <2> QED
    BY <2>1, SubmitInv DEF DInv
<1>6. IdleJobs' /\ RivalsDisturbed'
  BY <1>2, <1>3, <1>4 DEF DInv, IdleJobs, RivalsDisturbed
<1>7. UndisturbedJobs'
  BY <1>2, <1>3, <1>4 DEF DInv, UndisturbedJobs, ReadsCurrent, WritesScore
<1>8. DecidedExactlyOnce'
  BY <1>2, <1>3 DEF DInv, DecidedExactlyOnce
<1>9. BandMatchesScore'
  <2> SUFFICES ASSUME NEW u \in Target, \A q \in disturbed : review'[q].target # u
               PROVE  target[u].band = BandForScore(target[u].score)
    BY <1>2 DEF BandMatchesScore
  <2>1. \A q \in disturbed : q # r => review[q].target # u
    BY <1>3 DEF DInv, IInv, TypeOK
  <2>2. CASE r \notin disturbed
    BY <2>1, <2>2 DEF DInv, BandMatchesScore
  <2>3. CASE r \in disturbed
    BY <1>1, <2>3 DEF DInv, DisturbedExist
  <2> QED
    BY <2>2, <2>3
<1> QED
  BY <1>5, <1>6, <1>7, <1>8, <1>9 DEF DInv

LEMMA ReadReviewD ==
  ASSUME DInv, NEW w \in Worker, NEW o \in Officer, NEW r \in ReviewId, NEW d \in Decision,
         ReadReview(w, o, r, d)
  PROVE  DInv'
<1>1. /\ pc[w] = "idle" /\ review[r].status = "pending"
      /\ pc' = [pc EXCEPT ![w] = IF WritesScore(r, d) THEN "readTarget" ELSE "close"]
      /\ disturbed' = disturbed \cup Disturbs(w, r)
      /\ UNCHANGED <<target, review, alerts, audits, seen>>
  BY DEF ReadReview, MayDecide
<1>2. /\ job'[w].review = r /\ job'[w].decision = d
      /\ \A v \in Worker \ {w} : job'[v] = job[v]
  BY DEF ReadReview, DInv, IInv, TypeOK
<1>3. /\ pc'[w] = IF WritesScore(r, d) THEN "readTarget" ELSE "close"
      /\ \A v \in Worker \ {w} : pc'[v] = pc[v]
  BY <1>1 DEF DInv, IInv, TypeOK
<1>4. IInv'
  BY ReadReviewInv DEF DInv
<1>5. DisturbedExist'
  <2>1. \A q \in Disturbs(w, r) : review[q].status # "none"
    BY <1>1 DEF Disturbs, Rivals, DInv, IInv, JobsWellFormed, JobWellFormed
  <2> QED
    BY <1>1, <2>1 DEF DInv, DisturbedExist
<1>6. IdleJobs'
  BY <1>2, <1>3 DEF DInv, IdleJobs
<1>7. RivalsDisturbed'
  <2> SUFFICES ASSUME NEW u \in Worker, NEW v \in Worker, u # v,
                      pc'[u] # "idle", pc'[v] # "idle",
                      review[job'[u].review].target = review[job'[v].review].target
               PROVE  job'[u].review \in disturbed'
    BY <1>1 DEF RivalsDisturbed
  <2>1. CASE u # w /\ v # w
    BY <1>1, <1>2, <1>3, <2>1 DEF DInv, RivalsDisturbed
  <2>2. CASE u = w
    <3>1. job[v].review \in Rivals(w, r)
      BY <1>2, <1>3, <2>2 DEF Rivals
    <3> QED
      BY <1>1, <1>2, <2>2, <3>1 DEF Disturbs
  <2>3. CASE v = w
    <3>1. job[u].review \in Rivals(w, r)
      BY <1>2, <1>3, <2>3 DEF Rivals
    <3> QED
      BY <1>1, <1>2, <2>3, <3>1 DEF Disturbs
  <2> QED
    BY <2>1, <2>2, <2>3
<1>8. UndisturbedJobs'
  <2> SUFFICES ASSUME NEW v \in Worker, pc'[v] # "idle", job'[v].review \notin disturbed'
               PROVE  ReadsCurrent(v)'
    BY DEF UndisturbedJobs
  <2>1. CASE v = w
    BY <1>1, <1>2, <1>3, <2>1 DEF ReadsCurrent, WritesScore
  <2>2. CASE v # w
    BY <1>1, <1>2, <1>3, <2>2, OthersKnow
  <2> QED
    BY <2>1, <2>2
<1>9. DecidedExactlyOnce'
  <2>1. job[w].review = Nil
    BY <1>1 DEF DInv, IdleJobs
  <2>2. \A q \in ReviewId : (\A v \in Worker : job'[v].review # q) => \A v \in Worker : job[v].review # q
    BY <1>2, <2>1, NilAssumption
  <2> QED
    BY <1>1, <2>2 DEF DInv, DecidedExactlyOnce
<1>10. BandMatchesScore'
  BY <1>1 DEF DInv, BandMatchesScore
<1> QED
  BY <1>4, <1>5, <1>6, <1>7, <1>8, <1>9, <1>10 DEF DInv

LEMMA ReadTargetD ==
  ASSUME DInv, NEW w \in Worker, ReadTarget(w)
  PROVE  DInv'
<1> DEFINE t == review[job[w].review].target
<1>1. /\ pc[w] = "readTarget" /\ seen' = [seen EXCEPT ![w] = target[t]]
      /\ pc' = [pc EXCEPT ![w] = IF t \in Edge THEN "alert" ELSE "raised"]
      /\ UNCHANGED <<target, review, alerts, audits, job, disturbed>>
  BY DEF ReadTarget
<1>2. /\ pc'[w] \in {"alert", "raised"} /\ seen'[w] = target[t]
      /\ \A v \in Worker \ {w} : pc'[v] = pc[v] /\ seen'[v] = seen[v]
  BY <1>1 DEF DInv, IInv, TypeOK
<1>3. IInv' /\ DisturbedExist' /\ IdleJobs' /\ RivalsDisturbed'
  BY <1>1, <1>2, ReadTargetInv DEF DInv, DisturbedExist, IdleJobs, RivalsDisturbed
<1>4. UndisturbedJobs'
  <2> SUFFICES ASSUME NEW v \in Worker, pc'[v] # "idle", job'[v].review \notin disturbed'
               PROVE  ReadsCurrent(v)'
    BY DEF UndisturbedJobs
  <2>1. CASE v = w
    <3>1. ReadsCurrent(w)
      BY <1>1, <2>1 DEF DInv, UndisturbedJobs
    <3> QED
      BY <1>1, <1>2, <2>1, <3>1 DEF ReadsCurrent, WritesScore
  <2>2. CASE v # w
    BY <1>1, <1>2, <2>2, OthersKnow
  <2> QED
    BY <2>1, <2>2
<1>5. DecidedExactlyOnce' /\ BandMatchesScore'
  BY <1>1 DEF DInv, DecidedExactlyOnce, BandMatchesScore
<1> QED
  BY <1>3, <1>4, <1>5 DEF DInv

(* A worker that decides its review leaves the undisturbed others what     *)
(* they know, and disturbed reviews exist as before.                       *)
LEMMA DecisionD ==
  ASSUME DInv, NEW w \in Worker, pc[w] # "idle", DecisionOf(job[w].review),
         UNCHANGED disturbed,
         \A v \in Worker \ {w} : pc'[v] = pc[v] /\ job'[v] = job[v] /\ seen'[v] = seen[v],
         \A q \in ReviewId \ {job[w].review} : alerts'[q] = alerts[q] /\ audits'[q] = audits[q],
         \A u \in Target : u # review[job[w].review].target => target'[u] = target[u]
  PROVE  /\ DisturbedExist'
         /\ \A v \in Worker \ {w} :
              (pc[v] # "idle" /\ job[v].review \notin disturbed) => ReadsCurrent(v)'
<1>1. DisturbedExist'
  BY DEF DecisionOf, KeepsSubmissions, DInv, IInv, TypeOK, DisturbedExist
<1>2. ASSUME NEW v \in Worker \ {w}, pc[v] # "idle", job[v].review \notin disturbed
      PROVE  ReadsCurrent(v)'
  <2>1. /\ job[v].review \in ReviewId /\ job[v].review # job[w].review
        /\ review[job[v].review].target # review[job[w].review].target
        /\ review[job[v].review].target \in Target
    BY <1>2, OthersElsewhere
  <2>2. /\ review'[job[v].review] = review[job[v].review]
        /\ alerts'[job[v].review] = alerts[job[v].review]
        /\ audits'[job[v].review] = audits[job[v].review]
        /\ target'[review[job[v].review].target] = target[review[job[v].review].target]
    BY <2>1 DEF DecisionOf
  <2> QED
    BY <1>2, <2>2, OthersKnow
<1> QED
  BY <1>1, <1>2

LEMMA CloseD ==
  ASSUME DInv, NEW w \in Worker, Close(w)
  PROVE  DInv'
<1> DEFINE r == job[w].review
<1>1. /\ pc[w] = "close" /\ r \in ReviewId /\ End(w) /\ UNCHANGED <<target, alerts, disturbed>>
      /\ audits' = [audits EXCEPT ![r] = audits[r] + 1]
  BY DEF Close, DInv, IInv, JobsWellFormed, JobWellFormed
<1>2. audits'[r] = audits[r] + 1 /\ \A q \in ReviewId \ {r} : audits'[q] = audits[q]
  BY <1>1 DEF DInv, IInv, TypeOK
<1>3. DecisionOf(r)
  BY <1>1, DecideFacts DEF Close, DInv
<1>4. /\ pc'[w] = "idle"
      /\ \A v \in Worker \ {w} : pc'[v] = pc[v] /\ job'[v] = job[v] /\ seen'[v] = seen[v]
  BY <1>1, EndFacts DEF DInv, IInv
<1>5. review'[r].status = IF job[w].decision = "accept" THEN "accepted" ELSE "rejected"
  <2> DEFINE verdict == IF job[w].decision = "accept" THEN "accepted" ELSE "rejected"
             row == Decided(review[r], w)
  <2>1. review[r] \in ReviewRow
    BY <1>1 DEF DInv, IInv, TypeOK
  <2>2. row.status = verdict
    BY <2>1, Zenon DEF Decided, ReviewRow
  <2>3. review'[r] = row
    BY <1>1 DEF Close, DInv, IInv, TypeOK
  <2> QED
    BY <2>2, <2>3
<1>6. IInv'
  BY CloseInv DEF DInv
<1>7. DisturbedExist' /\ UndisturbedJobs'
  BY <1>1, <1>2, <1>3, <1>4, DecisionD DEF UndisturbedJobs
<1>8. IdleJobs' /\ RivalsDisturbed'
  BY <1>1, <1>3, EndRivals DEF DecisionOf
<1>9. DecidedExactlyOnce'
  <2> SUFFICES ASSUME NEW q \in ReviewId, review'[q].status \in {"accepted", "rejected"},
                      q \notin disturbed, \A v \in Worker : job'[v].review # q
               PROVE  /\ audits'[q] = 1
                      /\ alerts'[q] = IF review'[q].status = "accepted" /\ review'[q].proposed # Nil
                                        THEN 1 ELSE 0
    BY <1>1 DEF DecidedExactlyOnce
  <2>1. CASE q = r
    <3>1. /\ review[r].status = "pending" /\ ~WritesScore(r, job[w].decision)
      BY <1>1, <2>1 DEF DInv, UndisturbedJobs, ReadsCurrent
    <3>2. alerts[r] = 0 /\ audits[r] = 0
      BY <1>1, <3>1, PendingUnrecorded
    <3>3. ~(review'[r].status = "accepted" /\ review'[r].proposed # Nil)
      BY <1>1, <1>3, <1>5, <3>1 DEF DecisionOf, KeepsSubmissions, WritesScore
    <3> QED
      BY <1>1, <1>2, <2>1, <3>2, <3>3
  <2>2. CASE q # r
    <3>1. review'[q] = review[q] /\ audits'[q] = audits[q] /\ alerts'[q] = alerts[q]
      BY <1>1, <1>2, <1>3, <2>2 DEF DecisionOf
    <3>2. \A v \in Worker : job[v].review # q
      BY <1>4, <2>2
    <3> QED
      BY <3>1, <3>2 DEF DInv, DecidedExactlyOnce
  <2> QED
    BY <2>1, <2>2
<1>10. BandMatchesScore'
  <2>1. \A q \in disturbed : review'[q].target = review[q].target
    BY <1>3 DEF DecisionOf, KeepsSubmissions, DInv, IInv, TypeOK
  <2> QED
    BY <1>1, <2>1 DEF DInv, BandMatchesScore
<1> QED
  BY <1>6, <1>7, <1>8, <1>9, <1>10 DEF DInv

(* An undisturbed UPDATE writes both columns of what it decided.           *)
LEMMA UndisturbedScore ==
  ASSUME NEW row \in TargetRow, NEW s \in Score
  PROVE  /\ ScoredRow(row, row, s).score = s
         /\ ScoredRow(row, row, s).band = BandForScore(s)
BY DEF ScoredRow, Written

LEMMA AlertCommitD ==
  ASSUME DInv, NEW w \in Worker, AlertCommit(w)
  PROVE  DInv'
<1> DEFINE r == job[w].review
           t == review[r].target
           row == ScoredRow(target[t], seen[w], review[r].proposed)
<1>1. /\ pc[w] = "alert" /\ r \in ReviewId /\ t \in Target
      /\ review[r].proposed \in Score /\ seen[w] \in TargetRow
  BY DEF AlertCommit, DInv, IInv, JobsWellFormed, JobWellFormed
<1>2. /\ target' = [target EXCEPT ![t] = row]
      /\ alerts' = [alerts EXCEPT ![r] = alerts[r] + 1]
      /\ pc' = [pc EXCEPT ![w] = "audit"]
      /\ UNCHANGED <<audits, job, seen, disturbed>>
  BY DEF AlertCommit
<1>3. target'[t] = row /\ \A u \in Target \ {t} : target'[u] = target[u]
  BY <1>1, <1>2 DEF DInv, IInv, TypeOK
<1>4. alerts'[r] = alerts[r] + 1 /\ \A q \in ReviewId \ {r} : alerts'[q] = alerts[q]
  BY <1>1, <1>2 DEF DInv, IInv, TypeOK
<1>5. pc'[w] = "audit" /\ \A v \in Worker \ {w} : pc'[v] = pc[v]
  BY <1>2 DEF DInv, IInv, TypeOK
<1>6. DecisionOf(r)
  BY <1>1, DecideFacts DEF AlertCommit, DInv
<1>7. \A q \in ReviewId : review'[q].target = review[q].target /\ review'[q].proposed = review[q].proposed
  BY <1>6 DEF DecisionOf, KeepsSubmissions
<1>8. IInv'
  BY AlertCommitInv DEF DInv
<1>9. /\ DisturbedExist'
      /\ \A v \in Worker \ {w} :
           (pc[v] # "idle" /\ job[v].review \notin disturbed) => ReadsCurrent(v)'
  BY <1>1, <1>2, <1>3, <1>4, <1>5, <1>6, DecisionD
<1>10. IdleJobs'
  BY <1>2, <1>5 DEF DInv, IdleJobs
<1>11. RivalsDisturbed'
  <2>1. \A v \in Worker : pc[v] # "idle" => job[v].review \in ReviewId
    BY DEF DInv, IInv, JobsWellFormed, JobWellFormed
  <2> QED
    BY <1>1, <1>2, <1>5, <1>7, <2>1 DEF DInv, RivalsDisturbed
<1>12. ReadsCurrent(w)' \/ r \in disturbed
  <2> SUFFICES ASSUME r \notin disturbed PROVE ReadsCurrent(w)'
    OBVIOUS
  <2>1. review[r].status = "pending" /\ WritesScore(r, job[w].decision)
    BY <1>1 DEF DInv, UndisturbedJobs, ReadsCurrent
  <2>2. alerts[r] = 0 /\ audits[r] = 0
    BY <1>1, <2>1, PendingUnrecorded
  <2>3. review'[r].status = "accepted"
    <3> DEFINE new == Decided(review[r], w)
    <3>1. review[r] \in ReviewRow /\ job[w].decision = "accept"
      BY <1>1, <2>1 DEF DInv, IInv, TypeOK, WritesScore
    <3>2. new.status = "accepted"
      BY <3>1, Zenon DEF Decided, ReviewRow
    <3>3. review'[r] = new
      BY <1>1 DEF AlertCommit, DInv, IInv, TypeOK
    <3> QED
      BY <3>2, <3>3
  <2>4. review'[r].proposed # Nil
    BY <1>1, <1>7, <2>1 DEF WritesScore
  <2> QED
    BY <1>1, <1>2, <1>4, <1>5, <2>2, <2>3, <2>4 DEF ReadsCurrent
<1>13. UndisturbedJobs'
  BY <1>2, <1>5, <1>9, <1>12 DEF UndisturbedJobs
<1>14. DecidedExactlyOnce'
  <2> SUFFICES ASSUME NEW q \in ReviewId, review'[q].status \in {"accepted", "rejected"},
                      q \notin disturbed, \A v \in Worker : job[v].review # q
               PROVE  /\ audits'[q] = 1
                      /\ alerts'[q] = IF review'[q].status = "accepted" /\ review'[q].proposed # Nil
                                        THEN 1 ELSE 0
    BY <1>2 DEF DecidedExactlyOnce
  <2>1. review'[q] = review[q] /\ audits'[q] = audits[q] /\ alerts'[q] = alerts[q]
    BY <1>2, <1>4, <1>6 DEF DecisionOf
  <2> QED
    BY <2>1 DEF DInv, DecidedExactlyOnce
<1>15. BandMatchesScore'
  <2>1. \A q \in disturbed : q \in disturbed' /\ review'[q].target = review[q].target
    BY <1>2, <1>7 DEF DInv, IInv, TypeOK
  <2> SUFFICES ASSUME NEW u \in Target, \A q \in disturbed : review[q].target # u
               PROVE  target'[u].band = BandForScore(target'[u].score)
    BY <2>1 DEF BandMatchesScore
  <2>2. CASE u = t
    <3>1. seen[w] = target[t]
      BY <1>1, <2>2 DEF DInv, UndisturbedJobs, ReadsCurrent
    <3>2. row.score = review[r].proposed /\ row.band = BandForScore(review[r].proposed)
      BY <1>1, <3>1, UndisturbedScore, SMTT(30)
    <3> QED
      BY <1>3, <2>2, <3>2
  <2>3. CASE u # t
    BY <1>3, <2>3 DEF DInv, BandMatchesScore
  <2> QED
    BY <2>2, <2>3
<1> QED
  BY <1>8, <1>9, <1>10, <1>11, <1>13, <1>14, <1>15 DEF DInv

LEMMA AuditD ==
  ASSUME DInv, NEW w \in Worker, Audit(w)
  PROVE  DInv'
<1> DEFINE r == job[w].review
<1>1. /\ pc[w] = "audit" /\ r \in ReviewId /\ End(w)
      /\ audits' = [audits EXCEPT ![r] = audits[r] + 1]
      /\ UNCHANGED <<target, review, alerts, disturbed>>
  BY DEF Audit, DInv, IInv, JobsWellFormed, JobWellFormed
<1>2. audits'[r] = audits[r] + 1 /\ \A q \in ReviewId \ {r} : audits'[q] = audits[q]
  BY <1>1 DEF DInv, IInv, TypeOK
<1>3. /\ pc'[w] = "idle"
      /\ \A v \in Worker \ {w} : pc'[v] = pc[v] /\ job'[v] = job[v] /\ seen'[v] = seen[v]
  BY <1>1, EndFacts DEF DInv, IInv
<1>4. IInv' /\ DisturbedExist'
  BY <1>1, AuditInv DEF DInv, DisturbedExist
<1>5. IdleJobs' /\ RivalsDisturbed'
  <2>1. KeepsSubmissions
    BY <1>1 DEF KeepsSubmissions
  <2> QED
    BY <1>1, <2>1, EndRivals
<1>6. UndisturbedJobs'
  <2> SUFFICES ASSUME NEW v \in Worker \ {w}, pc[v] # "idle", job[v].review \notin disturbed
               PROVE  ReadsCurrent(v)'
    BY <1>1, <1>3 DEF UndisturbedJobs
  <2>1. job[v].review \in ReviewId /\ job[v].review # r
    BY <1>1, OthersElsewhere
  <2> QED
    BY <1>1, <1>2, <1>3, <2>1, OthersKnow
<1>7. DecidedExactlyOnce'
  <2> SUFFICES ASSUME NEW q \in ReviewId, review[q].status \in {"accepted", "rejected"},
                      q \notin disturbed, \A v \in Worker : job'[v].review # q
               PROVE  /\ audits'[q] = 1
                      /\ alerts[q] = IF review[q].status = "accepted" /\ review[q].proposed # Nil
                                       THEN 1 ELSE 0
    BY <1>1 DEF DecidedExactlyOnce
  <2>1. CASE q = r
    <3>1. /\ review[r].status = "accepted" /\ review[r].proposed # Nil
          /\ alerts[r] = 1 /\ audits[r] = 0
      BY <1>1, <2>1 DEF DInv, UndisturbedJobs, ReadsCurrent
    <3> QED
      BY <1>2, <2>1, <3>1
  <2>2. CASE q # r
    <3>1. \A v \in Worker : job[v].review # q
      BY <1>3, <2>2
    <3> QED
      BY <1>2, <2>2, <3>1 DEF DInv, DecidedExactlyOnce
  <2> QED
    BY <2>1, <2>2
<1>8. BandMatchesScore'
  BY <1>1 DEF DInv, BandMatchesScore
<1> QED
  BY <1>4, <1>5, <1>6, <1>7, <1>8 DEF DInv

LEMMA NextD == DInv /\ [Next]_vars => DInv'
<1> SUFFICES ASSUME DInv, [Next]_vars PROVE DInv'
  OBVIOUS
<1>1. CASE \E o \in Officer, t \in Target, s \in Score \cup {Nil} : Submit(o, t, s)
  BY <1>1, SubmitD
<1>2. ASSUME NEW w \in Worker, Decide(w) \/ ConnectionLost(w)
      PROVE  DInv'
  <2>1. CASE \E o \in Officer, r \in ReviewId, d \in Decision : ReadReview(w, o, r, d)
    BY <2>1, ReadReviewD
  <2>2. CASE Close(w)
    BY <2>2, CloseD
  <2>3. CASE ReadTarget(w)
    BY <2>3, ReadTargetD
  <2>4. CASE AlertCommit(w)
    BY <2>4, AlertCommitD
  <2>5. CASE Audit(w)
    BY <2>5, AuditD
  <2>6. CASE ServerError(w) \/ ConnectionLost(w)
    BY <2>6, EndOnlyD DEF ServerError, ConnectionLost
  <2> QED
    BY <1>2, <2>1, <2>2, <2>3, <2>4, <2>5, <2>6 DEF Decide
<1>3. CASE UNCHANGED vars
  <2>1. IInv'
    BY <1>3, NextInv DEF DInv
  <2> QED
    BY <1>3, <2>1 DEF vars, DInv, DisturbedExist, IdleJobs, RivalsDisturbed, UndisturbedJobs,
       ReadsCurrent, WritesScore, DecidedExactlyOnce, BandMatchesScore
<1> QED
  BY <1>1, <1>2, <1>3 DEF Next

-----------------------------------------------------------------------------
(* In every reachable state the rows and sessions are well typed and well  *)
(* formed, whatever decisions overlap and whatever connections break.      *)
THEOREM Invariance == Spec => []IInv
BY InitInv, NextInv, PTL DEF Spec

(* Rows, counters and sessions of decide_review are always of their type.  *)
THEOREM Typing == Spec => []TypeOK
<1>1. IInv => TypeOK
  BY DEF IInv
<1> QED
  BY Invariance, <1>1, PTL

(* No overlap of decisions leaves a score that nobody proposed and nobody  *)
(* was alerted of, or on a row that does not say it is disputed.           *)
THEOREM ScoresExplained == Spec => []ScoreExplained
<1>1. IInv => ScoreExplained
  BY DEF IInv
<1> QED
  BY Invariance, <1>1, PTL

(* Alerts and audit rows only speak of decided reviews, and no review is   *)
(* decided by its submitter.                                               *)
THEOREM DecisionsAreRecorded == Spec => []DecisionsRecorded
<1>1. IInv => DecisionsRecorded
  BY DEF IInv
<1> QED
  BY Invariance, <1>1, PTL

(* A decision that overlapped no other decision of the same target, and    *)
(* whose thread was not cut off after its commit, fires one alert if it    *)
(* accepts a dispute and none otherwise, and is audited exactly once.      *)
THEOREM UndisturbedDecisions == Spec => []DecidedExactlyOnce
<1>1. DInv => DecidedExactlyOnce
  BY DEF DInv
<1> QED
  BY InitD, NextD, <1>1, PTL DEF Spec

(* The band of a target is that of its score, unless decisions about the   *)
(* target overlapped.                                                      *)
THEOREM BandsMatch == Spec => []BandMatchesScore
<1>1. DInv => BandMatchesScore
  BY DEF DInv
<1> QED
  BY InitD, NextD, <1>1, PTL DEF Spec

=============================================================================
