---------------------------- MODULE SecondFactor ----------------------------
(***************************************************************************)
(* The second factor of one officer (services/auth_service.py): signing in,*)
(* stepping up, and enrolling, confirming and disabling the factor.        *)
(*                                                                         *)
(* A handler loads the officer's row once (the session keeps it until the  *)
(* commit), verifies a password and a code, which takes its time, and      *)
(* commits. Nothing is locked. A wrong password ends a request with an     *)
(* audit row: it changes nothing here and is left out. The names leave room*)
(* for those of BrowserSession, which SignInProofs extends too.            *)
(***************************************************************************)
EXTENDS Naturals

CONSTANTS Secret,   \* what pyotp.random_base32 may return; bounds enrolments
          NoSecret, \* totp_secret is NULL
          NoCode,   \* a code of no secret, or none
          Worker    \* threads of the server's pool

ASSUME FactorAssumption ==
  NoSecret \notin Secret /\ NoCode \notin Secret \cup {NoSecret}

VARIABLES row,       \* the factor's columns of the officer's row
          used,      \* secrets generated so far: none is generated twice
          app,       \* secrets the officer's authenticator app holds
          tokens,    \* purposes of which the officer has a token that is valid
          pc,        \* where each worker is in its handler
          job,       \* what each worker was asked for and has loaded
          confirmed, \* HISTORY: secrets confirm_mfa verified a code of
          outrun     \* HISTORY: a change was committed by a handler that had
                     \* loaded another row than the one it changed

accountVars == <<row, used, app, tokens, pc, job, confirmed, outrun>>

(* enabled: mfa_enabled; enrolled: totp_enrolled_at is set.                *)
Row == [enabled : BOOLEAN, secret : Secret \cup {NoSecret}, enrolled : BOOLEAN]
OffRow == [enabled |-> FALSE, secret |-> NoSecret, enrolled |-> FALSE]

Purpose == {"mfa_challenge", "access", "step_up"}
Op == {"login", "verify", "step_up", "enroll", "confirm", "disable"}
Pc == {"idle", "loaded", "signed_in"}

(* A code is known by the secret it is made from. off is HISTORY: the      *)
(* factor was off at some moment since the row was loaded.                 *)
Job == [op : Op, row : Row, code : Secret \cup {NoCode}, off : BOOLEAN]
NoJob == [op |-> "login", row |-> OffRow, code |-> NoCode, off |-> TRUE]

AccountInit ==
  /\ row = OffRow
  /\ used = {}
  /\ app = {}
  /\ tokens = {}
  /\ pc = [w \in Worker |-> "idle"]
  /\ job = [w \in Worker |-> NoJob]
  /\ confirmed = {}
  /\ outrun = FALSE

-----------------------------------------------------------------------------

(* The tokens a handler asks for: get_current_officer, require_step_up_auth*)
(* and verify_mfa decode them before the row is loaded.                    *)
Needs(op) ==
  CASE op = "login" -> {}
    [] op = "verify" -> {"mfa_challenge"}
    [] op \in {"step_up", "enroll", "confirm"} -> {"access"}
    [] op = "disable" -> {"access", "step_up"}

Load(w, op, code) ==
  /\ pc[w] = "idle"
  /\ Needs(op) \subseteq tokens
  /\ pc' = [pc EXCEPT ![w] = "loaded"]
  /\ job' = [job EXCEPT ![w] = [op |-> op, row |-> row, code |-> code, off |-> ~row.enabled]]
  /\ UNCHANGED <<row, used, app, tokens, confirmed, outrun>>

Handling(w, op) == pc[w] = "loaded" /\ job[w].op = op

End(w) ==
  /\ pc' = [pc EXCEPT ![w] = "idle"]
  /\ job' = [job EXCEPT ![w] = NoJob]
  /\ UNCHANGED <<row, used, app, tokens, confirmed, outrun>>

(* Mutant: the gate looks at totp_enrolled_at.                             *)
Passes_Enrolled(r, code) == (r.enabled /\ r.enrolled) => code = r.secret

(* The code, where the factor is on.                                       *)
Passes(r, code) == r.enabled => (r.secret # NoSecret /\ code = r.secret)

SignIn(w) ==
  /\ tokens' = tokens \cup {"access"}
  /\ pc' = [pc EXCEPT ![w] = "signed_in"]
  /\ UNCHANGED <<row, used, app, job, confirmed, outrun>>

Issue(w, purpose) ==
  /\ tokens' = tokens \cup {purpose}
  /\ pc' = [pc EXCEPT ![w] = "idle"]
  /\ job' = [job EXCEPT ![w] = NoJob]
  /\ UNCHANGED <<row, used, app, confirmed, outrun>>

(* login: a challenge where the factor is on.                              *)
Login(w) ==
  /\ Handling(w, "login")
  /\ IF job[w].row.enabled THEN Issue(w, "mfa_challenge") ELSE SignIn(w)

Verify(w) ==
  /\ Handling(w, "verify")
  /\ IF Passes(job[w].row, job[w].code) THEN SignIn(w) ELSE End(w)

StepUp(w) ==
  /\ Handling(w, "step_up")
  /\ IF Passes(job[w].row, job[w].code) THEN Issue(w, "step_up") ELSE End(w)

-----------------------------------------------------------------------------
(* Changing the factor *)

(* A column is written when its value differs from the one loaded.         *)
Column(loaded, assigned, current) == IF assigned = loaded THEN current ELSE assigned

(* The row the UPDATE leaves. A new time always differs from the one       *)
(* loaded.                                                                 *)
Written(loaded, assigned) ==
  [enabled |-> Column(loaded.enabled, assigned.enabled, row.enabled),
   secret |-> Column(loaded.secret, assigned.secret, row.secret),
   enrolled |-> assigned.enrolled \/ Column(loaded.enrolled, FALSE, row.enrolled)]

(* Mutant: a new secret keeps the time of the last enrolment.              *)
Enrolled_KeepTime(loaded, s) ==
  [enabled |-> loaded.enabled, secret |-> s, enrolled |-> loaded.enrolled]

Enrolled(loaded, s) == [enabled |-> loaded.enabled, secret |-> s, enrolled |-> FALSE]

Confirmed(loaded) == [enabled |-> TRUE, secret |-> loaded.secret, enrolled |-> TRUE]

(* Mutants: the flag stays on; the secret is emptied and not NULL.         *)
Disabled_KeepFlag(loaded) ==
  [enabled |-> loaded.enabled, secret |-> NoSecret, enrolled |-> FALSE]
Disabled_Empty(loaded) == [enabled |-> FALSE, secret |-> "", enrolled |-> FALSE]

Disabled(loaded) == [enabled |-> FALSE, secret |-> NoSecret, enrolled |-> FALSE]

(* History: whether the factor is off is noticed by the other handlers.    *)
Noticed(task, r) == [task EXCEPT !.off = @ \/ ~r.enabled]

Commit(w, assigned) ==
  /\ row' = Written(job[w].row, assigned)
  /\ outrun' = (outrun \/ row # job[w].row)
  /\ pc' = [pc EXCEPT ![w] = "idle"]
  /\ job' = [v \in Worker |-> IF v = w THEN NoJob ELSE Noticed(job[v], row')]
  /\ UNCHANGED tokens

(* The secret is shown once, in the answer; the officer scans it or not.   *)
Enroll(w) ==
  /\ Handling(w, "enroll")
  /\ \E s \in Secret \ used :
       /\ Commit(w, Enrolled(job[w].row, s))
       /\ used' = used \cup {s}
       /\ app' \in {app, app \cup {s}}
  /\ UNCHANGED confirmed

MayConfirm(task) == task.row.secret # NoSecret /\ task.code = task.row.secret

Confirm(w) ==
  /\ Handling(w, "confirm")
  /\ MayConfirm(job[w])
  /\ Commit(w, Confirmed(job[w].row))
  /\ confirmed' = confirmed \cup {job[w].code}
  /\ UNCHANGED <<used, app>>

ConfirmRejected(w) ==
  /\ Handling(w, "confirm")
  /\ ~MayConfirm(job[w])
  /\ End(w)

Disable(w) ==
  /\ Handling(w, "disable")
  /\ Commit(w, Disabled(job[w].row))
  /\ UNCHANGED <<used, app, confirmed>>

-----------------------------------------------------------------------------

(* The answer with the access token is sent.                               *)
Answer(w) == pc[w] = "signed_in" /\ End(w)

(* The connection or the process dies before the commit.                   *)
ConnectionLost(w) == pc[w] = "loaded" /\ End(w)

(* A token expires, or the officer discards it: logout revokes nothing.    *)
ExpireToken(purpose) ==
  /\ purpose \in tokens
  /\ tokens' = tokens \ {purpose}
  /\ UNCHANGED <<row, used, app, pc, job, confirmed, outrun>>

Step(w) ==
  \/ \E op \in Op, code \in app \cup {NoCode} : Load(w, op, code)
  \/ Login(w) \/ Verify(w) \/ StepUp(w)
  \/ Enroll(w) \/ Confirm(w) \/ ConfirmRejected(w) \/ Disable(w)
  \/ Answer(w) \/ ConnectionLost(w)

AccountNext == (\E w \in Worker : Step(w)) \/ (\E purpose \in Purpose : ExpireToken(purpose))

AccountSpec == AccountInit /\ [][AccountNext]_accountVars
-----------------------------------------------------------------------------
(* Properties                                                              *)

(* The row, the app, the tokens and the sessions hold values of their types*)
AccountTypeOK ==
  /\ row \in Row
  /\ used \subseteq Secret /\ app \subseteq used /\ confirmed \subseteq used
  /\ tokens \subseteq Purpose
  /\ pc \in [Worker -> Pc]
  /\ job \in [Worker -> Job]
  /\ outrun \in BOOLEAN

(* verify_mfa: '"enabled but no secret" cannot occur via any data path'. It*)
(* takes a confirmation and a disabling that overlap.                      *)
FactorHasSecret == ~outrun => (row.enabled => row.secret # NoSecret)

(* totp_enrolled_at tells the truth: it is set while the factor is on and  *)
(* the officer has shown a code of the secret that is stored, whatever     *)
(* enrolments were begun, abandoned and begun again.                       *)
EnrolledMeansConfirmed ==
  ~outrun => (row.enrolled => row.enabled /\ row.secret \in confirmed)

(* Nobody signs in without a code while the factor is on from the moment   *)
(* the row is loaded until the token is issued.                            *)
SignInNeedsCode ==
  \A w \in Worker :
    pc[w] = "signed_in" => job[w].off \/ job[w].code = job[w].row.secret

(* enroll_mfa: "an abandoned enrollment never locks anyone out". Whoever   *)
(* begins another enrolment while the factor is on and abandons it is.     *)
NeverLockedOut == row.enabled => row.secret \in app

=============================================================================
