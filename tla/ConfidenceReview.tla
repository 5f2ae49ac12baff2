-------------------------- MODULE ConfidenceReview --------------------------
(***************************************************************************)
(* Disputes of a confidence score and the officers who decide them         *)
(* (services/confidence_review_service.py, alert_service.create_alert).    *)
(*                                                                         *)
(* decide_review takes no row lock: it reads the review, reads the target, *)
(* and writes both at the first commit, which is the one create_alert      *)
(* makes; the audit row of the decision follows in a second transaction.   *)
(***************************************************************************)
EXTENDS Naturals

CONSTANTS Edge,        \* rows of relationship_edge_refs
          Zone,        \* rows of zone_risk_scores
          Officer,     \* holders of confidence:review
          Worker,      \* threads that decide reviews
          Score,       \* confidence scores in use
          Ingested,    \* the score each target was ingested with
          MaxReviews,  \* BOUND: reviews ever submitted
          Nil          \* no value

Target == Edge \cup Zone
ReviewId == 1..MaxReviews

ASSUME ScoreAssumption ==
  /\ MaxReviews \in Nat
  /\ Score \subseteq 0..100
  /\ Ingested \in [Target -> Score]
  /\ Edge \cap Zone = {}

ASSUME NilAssumption == Nil \notin Officer \cup Target \cup Score \cup ReviewId

VARIABLES target,   \* the scored rows
          review,   \* the confidence_review_events table
          alerts,   \* confidence_change alerts fired for each review
          audits,   \* decision audit rows written for each review
          pc,       \* where each worker is in decide_review
          job,      \* the review, decision and officer of each worker
          seen,     \* the target row each session has loaded
          disturbed \* HISTORY: reviews whose decision overlapped another one
                    \* of the same target, or was cut off after its commit

vars == <<target, review, alerts, audits, pc, job, seen, disturbed>>

Band == {"unconfirmed", "probable", "verified"}
Decision == {"accept", "reject"}

TargetRow == [score : Score, band : Band, disputed : BOOLEAN]

ReviewRow == [status : {"none", "pending", "accepted", "rejected"},
              target : Target \cup {Nil}, proposed : Score \cup {Nil},
              submitter : Officer \cup {Nil}, reviewer : Officer \cup {Nil}]

Job == [review : ReviewId \cup {Nil}, decision : Decision, officer : Officer \cup {Nil}]

BandForScore(s) ==
  IF s <= 39 THEN "unconfirmed" ELSE IF s <= 69 THEN "probable" ELSE "verified"

NoReview == [status |-> "none", target |-> Nil, proposed |-> Nil,
             submitter |-> Nil, reviewer |-> Nil]
NoJob == [review |-> Nil, decision |-> "reject", officer |-> Nil]

Init ==
  /\ target = [t \in Target |-> [score |-> Ingested[t], disputed |-> FALSE,
                                 band |-> BandForScore(Ingested[t])]]
  /\ review = [r \in ReviewId |-> NoReview]
  /\ alerts = [r \in ReviewId |-> 0]
  /\ audits = [r \in ReviewId |-> 0]
  /\ pc = [w \in Worker |-> "idle"]
  /\ job = [w \in Worker |-> NoJob]
  /\ seen = [w \in Worker |-> Nil]
  /\ disturbed = {}

-----------------------------------------------------------------------------
(* submit_review: validated, inserted and audited in one transaction.      *)

(* A dispute proposes a score; a confirm ignores the one it is sent.       *)
NewReview(o, t, proposed) ==
  [status |-> "pending", target |-> t, proposed |-> proposed,
   submitter |-> o, reviewer |-> Nil]

NextReview(r) ==
  /\ review[r].status = "none"
  /\ \A q \in ReviewId : review[q].status = "none" => r <= q

Submit(o, t, proposed) ==
  \E r \in ReviewId :
    /\ NextReview(r)
    /\ review' = [review EXCEPT ![r] = NewReview(o, t, proposed)]
    /\ UNCHANGED <<target, alerts, audits, pc, job, seen, disturbed>>

-----------------------------------------------------------------------------
(* decide_review *)

End(w) ==
  /\ pc' = [pc EXCEPT ![w] = "idle"]
  /\ job' = [job EXCEPT ![w] = NoJob]
  /\ seen' = [seen EXCEPT ![w] = Nil]

(* Only an accepted dispute goes on to the target.                         *)
WritesScore(r, decision) == decision = "accept" /\ review[r].proposed # Nil

(* Mutant: the submitter is not compared with the reviewer.                *)
MayDecide_Own(o, r) == o \in Officer /\ review[r].status = "pending"

MayDecide(o, r) == review[r].status = "pending" /\ review[r].submitter # o

(* History: the reviews of this target that somebody else is deciding.     *)
Rivals(w, r) ==
  {job[v].review : v \in {u \in Worker \ {w} :
     pc[u] # "idle" /\ review[job[u].review].target = review[r].target}}

Disturbs(w, r) == IF Rivals(w, r) = {} THEN {} ELSE Rivals(w, r) \cup {r}

ReadReview(w, o, r, decision) ==
  /\ pc[w] = "idle"
  /\ MayDecide(o, r)
  /\ job' = [job EXCEPT ![w] = [review |-> r, decision |-> decision, officer |-> o]]
  /\ pc' = [pc EXCEPT ![w] = IF WritesScore(r, decision) THEN "readTarget" ELSE "close"]
  /\ disturbed' = disturbed \cup Disturbs(w, r)
  /\ UNCHANGED <<target, review, alerts, audits, seen>>

(* Mutant: the decision is stored as it was sent.                          *)
Decided_Verbatim(row, w) ==
  [row EXCEPT !.status = job[w].decision, !.reviewer = job[w].officer]

Decided(row, w) ==
  [row EXCEPT !.status = IF job[w].decision = "accept" THEN "accepted" ELSE "rejected",
              !.reviewer = job[w].officer]

(* Mutant: the audit row is forgotten when nothing else is written.        *)
Close_Unaudited(w) ==
  /\ pc[w] = "close"
  /\ review' = [review EXCEPT ![job[w].review] = Decided(@, w)]
  /\ End(w)
  /\ UNCHANGED <<target, alerts, audits, disturbed>>

(* A rejection or an accepted confirm: one commit, with its audit row.     *)
Close(w) ==
  /\ pc[w] = "close"
  /\ review' = [review EXCEPT ![job[w].review] = Decided(@, w)]
  /\ audits' = [audits EXCEPT ![job[w].review] = @ + 1]
  /\ End(w)
  /\ UNCHANGED <<target, alerts, disturbed>>

(* The attributes of an edge are assigned; a zone score is assigned too,   *)
(* then target.classification raises: ZoneRiskScore has no such column.    *)
ReadTarget(w) ==
  LET t == review[job[w].review].target
  IN  /\ pc[w] = "readTarget"
      /\ seen' = [seen EXCEPT ![w] = target[t]]
      /\ pc' = [pc EXCEPT ![w] = IF t \in Edge THEN "alert" ELSE "raised"]
      /\ UNCHANGED <<target, review, alerts, audits, job, disturbed>>

(* SQLAlchemy's UPDATE names the columns whose value differs from the one  *)
(* the session loaded.                                                     *)
Written(loaded, assigned, current) == IF assigned = loaded THEN current ELSE assigned

(* Mutant: the band is left as it was.                                     *)
ScoredRow_BandKept(row, loaded, proposed) ==
  [score |-> Written(loaded.score, proposed, row.score),
   band |-> row.band,
   disputed |-> TRUE]

ScoredRow(row, loaded, proposed) ==
  [score |-> Written(loaded.score, proposed, row.score),
   band |-> Written(loaded.band, BandForScore(proposed), row.band),
   disputed |-> TRUE]

(* Mutant: the score is committed and the alert is left to a later step.   *)
AlertCommit_Silent(w) ==
  LET r == job[w].review
  IN  /\ pc[w] = "alert"
      /\ review' = [review EXCEPT ![r] = Decided(@, w)]
      /\ target' = [target EXCEPT ![review[r].target]
                      = ScoredRow(@, seen[w], review[r].proposed)]
      /\ pc' = [pc EXCEPT ![w] = "audit"]
      /\ UNCHANGED <<audits, alerts, job, seen, disturbed>>

(* create_alert's commit: the alert, the decision and the score together.  *)
AlertCommit(w) ==
  LET r == job[w].review
  IN  /\ pc[w] = "alert"
      /\ review' = [review EXCEPT ![r] = Decided(@, w)]
      /\ target' = [target EXCEPT ![review[r].target]
                      = ScoredRow(@, seen[w], review[r].proposed)]
      /\ alerts' = [alerts EXCEPT ![r] = @ + 1]
      /\ pc' = [pc EXCEPT ![w] = "audit"]
      /\ UNCHANGED <<audits, job, seen, disturbed>>

Audit(w) ==
  /\ pc[w] = "audit"
  /\ audits' = [audits EXCEPT ![job[w].review] = @ + 1]
  /\ End(w)
  /\ UNCHANGED <<target, review, alerts, disturbed>>

(* AttributeError: status 500, and the session is closed uncommitted.      *)
ServerError(w) ==
  /\ pc[w] = "raised"
  /\ End(w)
  /\ UNCHANGED <<target, review, alerts, audits, disturbed>>

(* The connection or the process dies: what is not committed is gone.      *)
ConnectionLost(w) ==
  /\ pc[w] \in {"close", "readTarget", "alert", "audit"}
  /\ disturbed' = IF pc[w] = "audit" THEN disturbed \cup {job[w].review} ELSE disturbed
  /\ End(w)
  /\ UNCHANGED <<target, review, alerts, audits>>

Decide(w) ==
  \/ \E o \in Officer, r \in ReviewId, d \in Decision : ReadReview(w, o, r, d)
  \/ Close(w)
  \/ ReadTarget(w)
  \/ AlertCommit(w)
  \/ Audit(w)
  \/ ServerError(w)

Next ==
  \/ \E o \in Officer, t \in Target, s \in Score \cup {Nil} : Submit(o, t, s)
  \/ \E w \in Worker : Decide(w) \/ ConnectionLost(w)

Spec == Init /\ [][Next]_vars
-----------------------------------------------------------------------------
(* Properties                                                              *)

Pc == {"idle", "close", "readTarget", "alert", "audit", "raised"}

(* Every row, counter and session holds values of its type.                *)
TypeOK ==
  /\ target \in [Target -> TargetRow]
  /\ review \in [ReviewId -> ReviewRow]
  /\ alerts \in [ReviewId -> Nat]
  /\ audits \in [ReviewId -> Nat]
  /\ pc \in [Worker -> Pc]
  /\ job \in [Worker -> Job]
  /\ seen \in [Worker -> TargetRow \cup {Nil}]
  /\ disturbed \subseteq ReviewId

(* A score that is not the ingested one was proposed in a review of this   *)
(* target that somebody was alerted of, and the row says it is disputed,   *)
(* however the decisions on it overlap.                                    *)
ScoreExplained ==
  \A t \in Target :
    target[t].score # Ingested[t] =>
      /\ target[t].disputed
      /\ \E r \in ReviewId : /\ review[r].target = t
                             /\ review[r].proposed = target[t].score
                             /\ alerts[r] > 0

(* Alerts and decision audits speak of reviews that are decided, and by an *)
(* officer other than the submitter.                                       *)
DecisionsRecorded ==
  \A r \in ReviewId :
    /\ alerts[r] + audits[r] > 0 => review[r].status \in {"accepted", "rejected"}
    /\ review[r].status \in {"accepted", "rejected"} =>
         review[r].reviewer \in Officer \ {review[r].submitter}

(* models/base.py: band_for_score is the single source of truth for the    *)
(* band of a score. The columns an UPDATE leaves out break it for a target *)
(* whose decisions overlapped, and for no other.                           *)
BandMatchesScore ==
  \A t \in Target :
    (\A r \in disturbed : review[r].target # t) =>
      target[t].band = BandForScore(target[t].score)

(* docs/decisions/010: "A REJECTED dispute changes nothing", an accepted   *)
(* one fires exactly one alert, audit rows are 1:1 with events. Without a  *)
(* row lock this is true of the decisions that ran undisturbed: one alert  *)
(* for an accepted dispute and none otherwise, and one audit row.          *)
DecidedExactlyOnce ==
  \A r \in ReviewId :
    (/\ review[r].status \in {"accepted", "rejected"}
     /\ r \notin disturbed
     /\ \A w \in Worker : job[w].review # r) =>
       /\ audits[r] = 1
       /\ alerts[r] = IF review[r].status = "accepted" /\ review[r].proposed # Nil
                        THEN 1 ELSE 0

(* docs/decisions/010: "A REJECTED dispute changes nothing."               *)
RejectedChangesNothing ==
  \A r \in ReviewId : review[r].status = "rejected" => alerts[r] = 0

=============================================================================
