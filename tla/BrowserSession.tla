--------------------------- MODULE BrowserSession ---------------------------
(***************************************************************************)
(* One browser tab and its sessions: the page (services/client.ts,         *)
(* context/AuthContext.tsx, the poll of context/AppContext.tsx) and the    *)
(* clocks of the server (core/dependencies.py, core/middleware.py).        *)
(*                                                                         *)
(* The server keeps no session: all it knows is in the token a call brings.*)
(* A call is sent with the tokens the page holds at that moment, is served *)
(* later, and its answer is processed later still, in any order.           *)
(***************************************************************************)
EXTENDS Naturals, FiniteSets

CONSTANTS Officer,    \* who may sign in at this browser
          Factor,     \* the officers whose second factor is on
          None,       \* null: no token, no user, no challenge
          Idle,       \* SESSION_INACTIVITY_EXPIRE_MINUTES
          Expire,     \* ACCESS_TOKEN_EXPIRE_MINUTES
          Absolute,   \* SESSION_ABSOLUTE_EXPIRE_HOURS
          Elevation,  \* STEP_UP_EXPIRE_MINUTES
          MaxTime,    \* BOUND: the clock stops there
          MaxGiven,   \* BOUND: after so many passwords none is given
          MaxCalls    \* BOUND: calls under way that the user or the timer adds to

ASSUME OfficerAssumption == Factor \subseteq Officer /\ None \notin Officer

(* config.py: the inactivity limit is the shorter one.                     *)
ASSUME ClockAssumption ==
  /\ {Idle, Expire, Absolute, Elevation, MaxTime, MaxGiven, MaxCalls} \subseteq Nat
  /\ Idle <= Expire

VARIABLES now,       \* the server's clock
          token,     \* client.ts accessToken
          stored,    \* its copy in localStorage, which a reload starts from
          status, user, challenge, \* AuthContext
          polling,   \* the timer of AppContext runs
          calls,     \* calls under way (equal ones count once)
          signIns,   \* HISTORY: who signed in when
          passwords, \* HISTORY: whose password was checked again when
          crossed    \* HISTORY: an answer of one session arrived in another

page == <<token, stored, status, user, challenge, polling>>
history == <<signIns, passwords, crossed>>
vars == <<now, page, calls, history>>

Time == 0..MaxTime

(* start: session_start.                                                   *)
Token == [sub : Officer, start : Time, iat : Time]
Assertion == [sub : Officer, iat : Time]

ASSUME NoneAssumption == None \notin Token \cup Assertion

(* read: what a page or the alert timer asks for.                          *)
Protected == {"me", "restore", "read", "logout", "step_up", "elevated"}
Kind == Protected \cup {"login", "verify"}

(* who: the officer of the form, or of the challenge. ok, at: it has been  *)
(* served with an answer below 400, and when.                              *)
Call == [kind : Kind, who : Officer \cup {None},
         token : Token \cup {None}, assertion : Assertion \cup {None},
         ok : BOOLEAN, at : Time]

-----------------------------------------------------------------------------
(* The server *)

(* get_current_officer: expiry, inactivity and the absolute limit.         *)
Live(t) ==
  /\ t # None
  /\ now - t.iat <= Expire
  /\ now - t.iat <= Idle
  /\ now - t.start <= Absolute

(* Mutant: the assertion is decoded without its expiry.                    *)
Elevated_Forever(t, a) == a # None /\ a.sub = t.sub

(* require_step_up_auth.                                                   *)
Elevated(t, a) ==
  /\ a # None
  /\ now - a.iat <= Elevation
  /\ a.sub = t.sub

(* What the server lets pass. A password, a code or a challenge may also   *)
(* be wrong, which is a 401 of its own (Deniable).                         *)
Admitted(c) ==
  /\ c.kind \in Protected => Live(c.token)
  /\ c.kind = "elevated" => Elevated(c.token, c.assertion)

(* login gives a session to an officer without a second factor only.       *)
SignsIn(c) == c.kind = "verify" \/ (c.kind = "login" /\ c.who \notin Factor)

Serve(c) ==
  /\ ~c.ok
  /\ Admitted(c)
  /\ calls' = (calls \ {c}) \cup {[c EXCEPT !.ok = TRUE, !.at = now]}
  /\ signIns' = IF SignsIn(c) THEN signIns \cup {<<c.who, now>>} ELSE signIns
  /\ passwords' =
       IF c.kind = "step_up" THEN passwords \cup {<<c.token.sub, now>>} ELSE passwords
  /\ UNCHANGED <<now, page, crossed>>

(* A 401. What is refused now would have been refused, or was refused, at  *)
(* any moment before: the limits only pass once.                           *)
Deniable(c) == ~c.ok /\ (~Admitted(c) \/ c.kind \in {"login", "verify", "step_up"})

(* Mutant: the reissued token begins a session of its own.                 *)
Reissue_NewSession(t, at) == [sub |-> t.sub, start |-> at, iat |-> at]

Reissue(t, at) == [sub |-> t.sub, start |-> t.start, iat |-> at]

(* The X-Refresh-Token of an answer. The middleware only looks whether the *)
(* token that came with the call has expired.                              *)
Refreshed(c) ==
  IF c.ok /\ c.token # None /\ c.at - c.token.iat <= Expire
    THEN Reissue(c.token, c.at)
    ELSE None

SessionOf(c) == [sub |-> c.who, start |-> c.at, iat |-> c.at]

-----------------------------------------------------------------------------
(* The page *)

(* A call is sent with the tokens the page holds.                          *)
CallOf(kind, who, t) ==
  [kind |-> kind, who |-> who, token |-> t, assertion |-> None, ok |-> FALSE, at |-> 0]

Underway(kinds) == \E c \in calls : c.kind \in kinds

(* AuthContext's initializing: the routes show nothing yet.                *)
Initializing == Underway({"restore"})

Send(kind, who) ==
  /\ Cardinality(calls) < MaxCalls
  /\ calls' = calls \cup {CallOf(kind, who, token)}
  /\ UNCHANGED <<now, page, history>>

(* The page opens: client.ts reads localStorage, AuthContext restores the  *)
(* session and AppContext starts its timer, each if there is a token.      *)
Loaded(t) ==
  /\ token' = t
  /\ stored' = t
  /\ status' = "unauthenticated"
  /\ user' = None
  /\ challenge' = None
  /\ polling' = (t # None)
  /\ calls' = IF t = None THEN {}
              ELSE {CallOf(kind, None, t) : kind \in {"restore", "read"}}

Init ==
  /\ now = 0
  /\ token = None /\ stored = None
  /\ status = "unauthenticated" /\ user = None /\ challenge = None
  /\ polling = FALSE
  /\ calls = {}
  /\ signIns = {} /\ passwords = {} /\ crossed = FALSE

(* Calls under way are lost with the page, served or not.                  *)
Reload == Loaded(stored) /\ UNCHANGED <<now, history>>

(* GuestOnlyRoute, and a form that is not being submitted.                 *)
GuestOnly == ~Initializing /\ status # "authenticated"

MayGivePassword == Cardinality(signIns) + Cardinality(passwords) < MaxGiven

SubmitLogin(o) ==
  /\ GuestOnly /\ ~Underway({"login", "me"})
  /\ MayGivePassword
  /\ Send("login", o)

SubmitCode ==
  /\ GuestOnly /\ status = "mfa_pending" /\ challenge # None
  /\ ~Underway({"verify", "me"})
  /\ Send("verify", challenge)

(* ProtectedRoute: reads and writes of any page, the step-up modal. No     *)
(* page calls the context's logout yet.                                    *)
UserCall(kind) ==
  /\ ~Initializing /\ status = "authenticated"
  /\ kind = "step_up" => MayGivePassword
  /\ Send(kind, None)

(* setInterval: the timer neither looks at the session nor stops.          *)
PollTimer == polling /\ Send("read", None)

-----------------------------------------------------------------------------
(* An answer arrives *)

(* Mutant: clearSession drops the tokens and leaves the status.            *)
Cleared_StatusKept ==
  /\ token' = None /\ stored' = None
  /\ user' = None /\ challenge' = None
  /\ status' = IF status = "mfa_pending" THEN "unauthenticated" ELSE status

Cleared ==
  /\ token' = None /\ stored' = None
  /\ status' = "unauthenticated" /\ user' = None /\ challenge' = None

(* _authorizedFetch: the reissued token is kept in memory only.            *)
Received(c) == IF Refreshed(c) # None THEN Refreshed(c) ELSE token

SameSession(s, t) == s # None /\ s.sub = t.sub /\ s.start = t.start

(* HISTORY: the reissued token is of another session than the one in the   *)
(* page, or a second sign-in ends in a page that is signed in.             *)
Crosses(c) ==
  \/ Refreshed(c) # None /\ ~SameSession(token, Refreshed(c))
  \/ c.ok /\ c.kind \notin Protected /\ status = "authenticated"

Take(c, next) ==
  /\ calls' = (calls \ {c}) \cup next
  /\ crossed' = (crossed \/ Crosses(c))
  /\ UNCHANGED <<now, polling, signIns, passwords>>

Lose(c) ==
  /\ calls' = calls \ {c}
  /\ UNCHANGED <<now, polling, history>>

(* login and verifyMfa: setAccessToken, then GET /auth/me.                 *)
ReceiveSession(c) ==
  /\ c.ok /\ SignsIn(c)
  /\ token' = SessionOf(c) /\ stored' = SessionOf(c)
  /\ challenge' = IF c.kind = "verify" THEN None ELSE challenge
  /\ UNCHANGED <<status, user>>
  /\ Take(c, {CallOf("me", None, SessionOf(c))})

ReceiveChallenge(c) ==
  /\ c.ok /\ c.kind = "login" /\ ~SignsIn(c)
  /\ token' = Received(c)
  /\ challenge' = c.who /\ status' = "mfa_pending"
  /\ UNCHANGED <<stored, user>>
  /\ Take(c, {})

(* applyUser, after signing in and after restoring.                        *)
ReceiveUser(c) ==
  /\ c.ok /\ c.kind \in {"me", "restore"}
  /\ token' = Received(c)
  /\ status' = "authenticated" /\ user' = c.token.sub
  /\ UNCHANGED <<stored, challenge>>
  /\ Take(c, {})

(* StepUpModal: the assertion is put beside the token, and the operation   *)
(* it was asked for follows at once. No other call needs the assertion.    *)
ReceiveStepUp(c) ==
  /\ c.ok /\ c.kind = "step_up"
  /\ token' = Received(c)
  /\ UNCHANGED <<stored, status, user, challenge>>
  /\ Take(c, {[CallOf("elevated", None, Received(c)) EXCEPT
                !.assertion = [sub |-> c.token.sub, iat |-> c.at]]})

ReceiveOther(c) ==
  /\ c.ok /\ c.kind \in {"read", "elevated"}
  /\ token' = Received(c)
  /\ UNCHANGED <<stored, status, user, challenge>>
  /\ Take(c, {})

(* A 401 signs out where somebody is signed in. So does any answer to      *)
(* logout, and a restore that fails.                                       *)
ReceiveSignOut(c) ==
  /\ \/ Deniable(c) /\ status = "authenticated"
     \/ c.kind = "logout"
     \/ c.kind = "restore"
  /\ Cleared
  /\ Lose(c)

(* Any other failure, of the handler or of the network before or after it  *)
(* was served, is shown where the call was made.                           *)
ReceiveError(c) ==
  /\ c.kind \notin {"logout", "restore"}
  /\ UNCHANGED page
  /\ Lose(c)

Receive(c) ==
  \/ ReceiveSession(c)
  \/ ReceiveChallenge(c)
  \/ ReceiveUser(c)
  \/ ReceiveStepUp(c)
  \/ ReceiveOther(c)
  \/ ReceiveSignOut(c)
  \/ ReceiveError(c)

Tick == now < MaxTime /\ now' = now + 1 /\ UNCHANGED <<page, calls, history>>

Next ==
  \/ Tick
  \/ Reload
  \/ \E o \in Officer : SubmitLogin(o)
  \/ SubmitCode
  \/ \E kind \in {"read", "step_up", "logout"} : UserCall(kind)
  \/ PollTimer
  \/ \E c \in calls : Serve(c) \/ Receive(c)

Spec == Init /\ [][Next]_vars

-----------------------------------------------------------------------------
(* Properties                                                              *)

(* Tokens, calls and the page hold values of their types.                  *)
TypeOK ==
  /\ now \in Time
  /\ token \in Token \cup {None} /\ stored \in Token \cup {None}
  /\ status \in {"unauthenticated", "mfa_pending", "authenticated"}
  /\ user \in Officer \cup {None} /\ challenge \in Officer \cup {None}
  /\ polling \in BOOLEAN /\ crossed \in BOOLEAN
  /\ calls \subseteq Call
  /\ signIns \subseteq Officer \X Time /\ passwords \subseteq Officer \X Time

(* Whatever chain of reissued tokens a session lives on, no officer is     *)
(* served longer than the absolute limit after a sign-in of that officer,  *)
(* late answers, reloads and a second officer included.                    *)
SessionsEnd ==
  \A c \in calls :
    (c.ok /\ c.kind \in Protected) =>
      \E s \in signIns :
        s[1] = c.token.sub /\ s[2] <= c.at /\ c.at - s[2] <= Absolute

(* An elevated operation is served only to an officer who gave the         *)
(* password again less than STEP_UP_EXPIRE_MINUTES ago, however long the   *)
(* call was under way and whoever signed in meanwhile.                     *)
ElevatedAfterPassword ==
  \A c \in calls :
    (c.ok /\ c.kind = "elevated") =>
      \E p \in passwords :
        p[1] = c.token.sub /\ p[2] <= c.at /\ c.at - p[2] <= Elevation

(* Calls are made as the officer whose name and permissions the page       *)
(* shows, until an answer of another session arrives late: it replaces the *)
(* token, and the page goes on showing the officer who is signed in.       *)
UserMatchesToken ==
  (status = "authenticated" /\ ~crossed) => token # None /\ user = token.sub

(* client.ts: "The access token is persisted so a page reload restores the *)
(* session". The copy in localStorage is the one of the sign-in.           *)
ReloadRestores ==
  (status = "authenticated" /\ calls = {} /\ Live(token)) => Live(stored)

=============================================================================
