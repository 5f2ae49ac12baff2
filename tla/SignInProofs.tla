------------------------------ MODULE SignInProofs ------------------------------
(***************************************************************************)
(* Theorems about the two sides of signing in: BrowserSession, for every   *)
(* set of officers, all limits and any number of calls under way; and the  *)
(* account of an officer, SecondFactor, for every set of secrets and       *)
(* threads.                                                                *)
(***************************************************************************)
EXTENDS BrowserSession, SecondFactor, TLAPS

(* A token was issued at or after a sign-in of its officer, whatever chain *)
(* of reissued tokens it ends.                                             *)
Grounded(t) ==
  t # None => /\ <<t.sub, t.start>> \in signIns
              /\ t.start <= t.iat /\ t.iat <= now

(* An assertion was issued when its officer's password was checked.        *)
Earned(a) == a # None => <<a.sub, a.iat>> \in passwords /\ a.iat <= now

(* What the server established when it served a call.                      *)
ServedRightly(c) ==
  /\ c.at <= now
  /\ c.token # None => c.token.iat <= c.at
  /\ c.kind \in Protected =>
       /\ c.token # None
       /\ c.at - c.token.iat <= Expire
       /\ c.at - c.token.start <= Absolute
  /\ c.kind = "step_up" => <<c.token.sub, c.at>> \in passwords
  /\ c.kind = "elevated" =>
       /\ c.assertion # None
       /\ c.assertion.sub = c.token.sub
       /\ c.assertion.iat <= c.at
       /\ c.at - c.assertion.iat <= Elevation
  /\ SignsIn(c) => <<c.who, c.at>> \in signIns

CallHonest(c) ==
  /\ Grounded(c.token)
  /\ Earned(c.assertion)
  /\ c.kind \in {"login", "verify"} => c.who \in Officer
  /\ c.ok => ServedRightly(c)

IInv ==
  /\ TypeOK
  /\ Grounded(token) /\ Grounded(stored)
  /\ \A c \in calls : CallHonest(c)
  /\ UserMatchesToken

-----------------------------------------------------------------------------
(* Calls and tokens                                                        *)

LEMMA Naturals == /\ {Idle, Expire, Absolute, Elevation, MaxTime} \subseteq Nat
                  /\ Time \subseteq Nat /\ 0 \in Time
BY ClockAssumption DEF Time

LEMMA CallOfHonest ==
  ASSUME NEW kind \in Kind, NEW who \in Officer \cup {None},
         NEW t \in Token \cup {None}, Grounded(t),
         kind \in {"login", "verify"} => who \in Officer
  PROVE  CallOf(kind, who, t) \in Call /\ CallHonest(CallOf(kind, who, t))
BY Naturals DEF CallOf, Call, CallHonest, Earned

(* A reissued token is of the session of the token that was sent.          *)
LEMMA RefreshedGrounded ==
  ASSUME IInv, NEW c \in calls
  PROVE  /\ Refreshed(c) \in Token \cup {None}
         /\ Grounded(Refreshed(c))
         /\ Refreshed(c) # None => /\ c.token # None
                                   /\ Refreshed(c).sub = c.token.sub
<1>1. c \in Call /\ CallHonest(c)
  BY DEF IInv, TypeOK
<1>2. CASE Refreshed(c) = None
  BY <1>2 DEF Grounded
<1>3. CASE Refreshed(c) # None
  <2>1. c.ok /\ c.token # None /\ Refreshed(c) = Reissue(c.token, c.at)
    BY <1>3 DEF Refreshed
  <2>2. c.token \in Token /\ c.at \in Time
    BY <1>1, <2>1 DEF Call
  <2>3. Reissue(c.token, c.at) \in Token
    BY <2>2 DEF Reissue, Token
  <2>4. /\ <<c.token.sub, c.token.start>> \in signIns
        /\ c.token.start <= c.token.iat /\ c.token.iat <= c.at /\ c.at <= now
    BY <1>1, <2>1 DEF CallHonest, Grounded, ServedRightly
  <2>5. /\ c.token.start \in Nat /\ c.token.iat \in Nat /\ c.at \in Nat
    BY <2>2, Naturals DEF Token
  <2>6. Grounded(Reissue(c.token, c.at))
    BY <2>4, <2>5 DEF Grounded, Reissue
  <2> QED
    BY <2>1, <2>3, <2>6 DEF Reissue
<1> QED
  BY <1>2, <1>3

(* So is the token the page holds after an answer.                         *)
LEMMA ReceivedGrounded ==
  ASSUME IInv, NEW c \in calls
  PROVE  Received(c) \in Token \cup {None} /\ Grounded(Received(c))
BY RefreshedGrounded DEF Received, IInv, TypeOK

(* The answer to a protected call always carries a token.                  *)
LEMMA ProtectedRefreshed ==
  ASSUME IInv, NEW c \in calls, c.ok, c.kind \in Protected
  PROVE  Refreshed(c) # None /\ c.token \in Token
<1>1. c \in Call /\ ServedRightly(c)
  BY DEF IInv, TypeOK, CallHonest
<1>2. c.token # None /\ c.at - c.token.iat <= Expire
  BY <1>1 DEF ServedRightly
<1>3. Refreshed(c) = Reissue(c.token, c.at)
  BY <1>2 DEF Refreshed
<1>4. c.token \in Token /\ c.at \in Time
  BY <1>1, <1>2 DEF Call
<1>5. Reissue(c.token, c.at) \in Token
  BY <1>4 DEF Reissue, Token
<1> QED
  BY <1>3, <1>4, <1>5, NoneAssumption

-----------------------------------------------------------------------------
(* Steps                                                                   *)

LEMMA InitInv == Init => IInv
<1> SUFFICES ASSUME Init PROVE IInv
  OBVIOUS
<1>1. TypeOK
  BY Naturals DEF Init, TypeOK
<1>2. Grounded(token) /\ Grounded(stored) /\ UserMatchesToken
  BY DEF Init, Grounded, UserMatchesToken
<1> QED
  BY <1>1, <1>2 DEF Init, IInv

(* What was established stays so while the clock and the log of sign-ins   *)
(* and passwords only grow.                                                *)
LEMMA Kept ==
  ASSUME IInv, signIns \subseteq signIns', passwords \subseteq passwords',
         now' \in Time, now <= now'
  PROVE  /\ \A t \in Token \cup {None} : Grounded(t) => Grounded(t)'
         /\ \A c \in Call : CallHonest(c) => CallHonest(c)'
<1>1. now \in Nat /\ now' \in Nat
  BY Naturals DEF IInv, TypeOK
<1>2. ASSUME NEW t \in Token \cup {None}, Grounded(t)
      PROVE  Grounded(t)'
  <2>1. t # None => t.iat \in Nat
    BY Naturals DEF Token
  <2> QED
    BY <1>1, <1>2, <2>1 DEF Grounded
<1>3. ASSUME NEW c \in Call, CallHonest(c)
      PROVE  CallHonest(c)'
  <2>1. /\ c.token \in Token \cup {None}
        /\ c.at \in Nat
        /\ c.assertion # None => c.assertion.iat \in Nat
    BY Naturals DEF Call, Assertion
  <2>2. Grounded(c.token)'
    BY <1>2, <1>3, <2>1 DEF CallHonest
  <2>3. Earned(c.assertion)'
    BY <1>1, <1>3, <2>1 DEF CallHonest, Earned
  <2>4. c.ok => ServedRightly(c)'
    BY <1>1, <1>3, <2>1 DEF CallHonest, ServedRightly, SignsIn
  <2> QED
    BY <1>3, <2>2, <2>3, <2>4 DEF CallHonest
<1> QED
  BY <1>2, <1>3

(* A step of the page: what it holds afterwards is grounded, the calls are *)
(* honest, and the server did nothing.                                     *)
LEMMA PageStep ==
  ASSUME IInv, UNCHANGED <<now, signIns, passwords>>,
         NEW t \in Token \cup {None}, NEW s \in Token \cup {None},
         NEW next \in SUBSET Call,
         token' = t, stored' = s, calls' = next,
         Grounded(t), Grounded(s), \A c \in next : CallHonest(c),
         status' \in {"unauthenticated", "mfa_pending", "authenticated"},
         user' \in Officer \cup {None}, challenge' \in Officer \cup {None},
         polling' \in BOOLEAN, crossed' \in BOOLEAN,
         UserMatchesToken'
  PROVE  IInv'
<1>1. TypeOK'
  BY DEF IInv, TypeOK
<1>2. /\ \A u \in Token \cup {None} : Grounded(u) => Grounded(u)'
      /\ \A c \in Call : CallHonest(c) => CallHonest(c)'
  <2>1. now' \in Time /\ now <= now'
    BY Naturals DEF IInv, TypeOK
  <2> QED
    BY <2>1, Kept
<1>3. Grounded(token)' /\ Grounded(stored)'
  BY <1>2 DEF Grounded
<1>4. \A c \in calls' : CallHonest(c)'
  BY <1>2
<1> QED
  BY <1>1, <1>3, <1>4 DEF IInv

LEMMA TypesOfPage ==
  ASSUME IInv
  PROVE  /\ token \in Token \cup {None} /\ stored \in Token \cup {None}
         /\ Grounded(token) /\ Grounded(stored)
         /\ calls \in SUBSET Call /\ \A c \in calls : CallHonest(c)
         /\ status \in {"unauthenticated", "mfa_pending", "authenticated"}
         /\ user \in Officer \cup {None} /\ challenge \in Officer \cup {None}
         /\ polling \in BOOLEAN /\ crossed \in BOOLEAN
         /\ UserMatchesToken
BY DEF IInv, TypeOK

(* The page stays as it is; other calls are under way.                     *)
LEMMA CallsStep ==
  ASSUME IInv, UNCHANGED <<now, page, history>>,
         NEW next \in SUBSET Call, calls' = next, \A c \in next : CallHonest(c)
  PROVE  IInv'
<1>1. /\ UNCHANGED <<now, signIns, passwords>> /\ token' = token /\ stored' = stored
      /\ status' = status /\ user' = user /\ challenge' = challenge
      /\ polling' = polling /\ crossed' = crossed
  BY DEF page, history
<1>2. UserMatchesToken'
  BY <1>1, TypesOfPage DEF UserMatchesToken
<1> QED
  BY <1>1, <1>2, TypesOfPage, PageStep

LEMMA SendInv ==
  ASSUME IInv, NEW kind \in Kind, NEW who \in Officer \cup {None},
         kind \in {"login", "verify"} => who \in Officer, Send(kind, who)
  PROVE  IInv'
<1> DEFINE new == CallOf(kind, who, token)
<1>1. new \in Call /\ CallHonest(new)
  BY TypesOfPage, CallOfHonest
<1>2. calls' = calls \cup {new} /\ UNCHANGED <<now, page, history>>
  BY DEF Send
<1> HIDE DEF new
<1> QED
  BY <1>1, <1>2, TypesOfPage, CallsStep

LEMMA ReloadInv ==
  ASSUME IInv, Reload
  PROVE  IInv'
<1> DEFINE next == IF stored = None THEN {}
                   ELSE {CallOf(kind, None, stored) : kind \in {"restore", "read"}}
<1>1. ASSUME NEW kind \in {"restore", "read"}
      PROVE  CallOf(kind, None, stored) \in Call /\ CallHonest(CallOf(kind, None, stored))
  <2>1. kind \in Kind /\ kind \notin {"login", "verify"}
    BY DEF Kind, Protected
  <2> QED
    BY <2>1, TypesOfPage, CallOfHonest
<1>2. next \in SUBSET Call /\ \A c \in next : CallHonest(c)
  BY <1>1
<1>3. /\ token' = stored /\ stored' = stored /\ calls' = next
      /\ status' = "unauthenticated" /\ user' = None /\ challenge' = None
      /\ polling' = (stored # None)
      /\ UNCHANGED <<now, signIns, passwords, crossed>>
  BY DEF Reload, Loaded, history
<1>4. UserMatchesToken'
  BY <1>3 DEF UserMatchesToken
<1>5. polling' \in BOOLEAN /\ crossed' \in BOOLEAN
  BY <1>3, TypesOfPage
<1> HIDE DEF next
<1> QED
  BY <1>2, <1>3, <1>4, <1>5, TypesOfPage, PageStep

LEMMA TickInv ==
  ASSUME IInv, Tick
  PROVE  IInv'
<1>1. now \in Nat /\ now' = now + 1 /\ now' \in Time /\ now <= now'
  BY ClockAssumption DEF IInv, TypeOK, Tick, Time
<1>2. UNCHANGED <<token, stored, status, user, challenge, polling, calls,
                  signIns, passwords, crossed>>
  BY DEF Tick, page, history
<1>3. /\ \A u \in Token \cup {None} : Grounded(u) => Grounded(u)'
      /\ \A c \in Call : CallHonest(c) => CallHonest(c)'
  BY <1>1, <1>2, Kept
<1>4. TypeOK'
  BY <1>1, <1>2 DEF IInv, TypeOK
<1>5. Grounded(token)' /\ Grounded(stored)'
  BY <1>2, <1>3, TypesOfPage DEF Grounded
<1>6. \A c \in calls' : CallHonest(c)'
  BY <1>2, <1>3, TypesOfPage
<1>7. UserMatchesToken'
  BY <1>2, TypesOfPage DEF UserMatchesToken
<1> QED
  BY <1>4, <1>5, <1>6, <1>7 DEF IInv

(* The server admits a call only with a token, and if need be an assertion,*)
(* within its limits; it signs in whom it logs as signed in.               *)
LEMMA ServeInv ==
  ASSUME IInv, NEW c \in calls, Serve(c)
  PROVE  IInv'
<1>0. PICK done : done = [c EXCEPT !.ok = TRUE, !.at = now]
  OBVIOUS
<1>1. c \in Call /\ CallHonest(c) /\ now \in Time /\ now \in Nat
  BY Naturals DEF IInv, TypeOK
<1>2. /\ done \in Call /\ done.ok /\ done.at = now
      /\ done.kind = c.kind /\ done.who = c.who
      /\ done.token = c.token /\ done.assertion = c.assertion
  BY <1>0, <1>1 DEF Call
<1>3. /\ Admitted(c) /\ calls' = (calls \ {c}) \cup {done}
      /\ signIns' = IF SignsIn(c) THEN signIns \cup {<<c.who, now>>} ELSE signIns
      /\ passwords' = IF c.kind = "step_up"
                        THEN passwords \cup {<<c.token.sub, now>>} ELSE passwords
      /\ UNCHANGED <<now, token, stored, status, user, challenge, polling, crossed>>
  BY <1>0 DEF Serve, page
<1>4. /\ \A u \in Token \cup {None} : Grounded(u) => Grounded(u)'
      /\ \A d \in Call : CallHonest(d) => CallHonest(d)'
  BY <1>1, <1>3, Kept
<1>5. c.kind \in Protected => Live(c.token) /\ c.token \in Token
  BY <1>1, <1>3 DEF Admitted, Live, Call
<1>6. SignsIn(c) => c.who \in Officer
  BY <1>1 DEF SignsIn, CallHonest
<1>7. TypeOK'
  <2>1. calls' \subseteq Call
    BY <1>2, <1>3, TypesOfPage
  <2>2. signIns' \subseteq Officer \X Time
    BY <1>1, <1>3, <1>6 DEF IInv, TypeOK
  <2>3. passwords' \subseteq Officer \X Time
    <3>1. "step_up" \in Protected
      BY DEF Protected
    <3> QED
      BY <1>1, <1>3, <1>5, <3>1 DEF IInv, TypeOK, Token
  <2> QED
    BY <1>3, <2>1, <2>2, <2>3 DEF IInv, TypeOK
<1>8. CallHonest(done)'
  <2>1. /\ c.token # None => c.token.iat <= now
        /\ c.assertion # None => c.assertion.iat <= now
    BY <1>1 DEF CallHonest, Grounded, Earned
  <2>2. /\ Grounded(c.token)' /\ Earned(c.assertion)'
        /\ c.kind \in {"login", "verify"} => c.who \in Officer
    BY <1>1, <1>4 DEF CallHonest
  <2>3. c.kind = "elevated" => Elevated(c.token, c.assertion)
    BY <1>3 DEF Admitted
  <2>4. ServedRightly(done)'
    <3>1. now' = now
      BY <1>3
    <3>2. done.kind \in Protected =>
            /\ done.token # None
            /\ done.at - done.token.iat <= Expire
            /\ done.at - done.token.start <= Absolute
      BY <1>2, <1>5 DEF Live
    <3>3. done.kind = "step_up" => <<done.token.sub, done.at>> \in passwords'
      BY <1>2, <1>3
    <3>4. done.kind = "elevated" =>
            /\ done.assertion # None
            /\ done.assertion.sub = done.token.sub
            /\ done.assertion.iat <= done.at
            /\ done.at - done.assertion.iat <= Elevation
      BY <1>2, <2>1, <2>3 DEF Elevated
    <3>5. SignsIn(done) => <<done.who, done.at>> \in signIns'
      BY <1>2, <1>3 DEF SignsIn
    <3>6. done.at <= now' /\ (done.token # None => done.token.iat <= done.at)
      BY <1>1, <1>2, <2>1, <3>1
    <3> QED
      BY <3>2, <3>3, <3>4, <3>5, <3>6 DEF ServedRightly, SignsIn
  <2> QED
    BY <1>2, <2>2, <2>4 DEF CallHonest, Grounded, Earned
<1>9. \A d \in calls' : CallHonest(d)'
  BY <1>3, <1>4, <1>8, TypesOfPage
<1>10. Grounded(token)' /\ Grounded(stored)' /\ UserMatchesToken'
  BY <1>3, <1>4, TypesOfPage DEF Grounded, UserMatchesToken
<1> QED
  BY <1>7, <1>9, <1>10 DEF IInv

-----------------------------------------------------------------------------
(* Answers                                                                 *)

(* An answer is taken: the calls that follow it are honest.                *)
LEMMA AnswerStep ==
  ASSUME IInv, NEW c \in calls, NEW next \in SUBSET Call, Take(c, next),
         \A d \in next : CallHonest(d),
         NEW t \in Token \cup {None}, NEW s \in Token \cup {None},
         Grounded(t), Grounded(s), token' = t, stored' = s,
         status' \in {"unauthenticated", "mfa_pending", "authenticated"},
         user' \in Officer \cup {None}, challenge' \in Officer \cup {None},
         UserMatchesToken'
  PROVE  IInv'
<1>1. PICK all : all = (calls \ {c}) \cup next
  OBVIOUS
<1>2. all \in SUBSET Call /\ \A d \in all : CallHonest(d)
  BY <1>1, TypesOfPage
<1>3. /\ calls' = all /\ crossed' = (crossed \/ Crosses(c))
      /\ UNCHANGED <<now, polling, signIns, passwords>>
  BY <1>1 DEF Take
<1>4. crossed' \in BOOLEAN /\ polling' \in BOOLEAN
  BY <1>3, TypesOfPage
<1> QED
  BY <1>2, <1>3, <1>4, PageStep

(* A failure: a call goes and no other comes.                              *)
LEMMA LostCalls ==
  ASSUME IInv, NEW c \in calls, Lose(c)
  PROVE  /\ calls \ {c} \in SUBSET Call /\ \A d \in calls \ {c} : CallHonest(d)
         /\ calls' = calls \ {c}
         /\ UNCHANGED <<now, polling, signIns, passwords, crossed>>
BY TypesOfPage DEF Lose, history

(* A page that shows an officer goes on doing so under a reissued token of *)
(* the session it is in; any other one is marked.                          *)
LEMMA SameUser ==
  ASSUME IInv, NEW c \in calls, c.ok, c.kind \in Protected,
         NEW next, Take(c, next), token' = Received(c),
         status' = "authenticated" => user' = c.token.sub \/ UNCHANGED <<status, user>>
  PROVE  UserMatchesToken'
<1>1. /\ Refreshed(c) # None /\ Received(c) = Refreshed(c)
      /\ Refreshed(c).sub = c.token.sub
  BY ProtectedRefreshed, RefreshedGrounded DEF Received
<1>2. ASSUME status' = "authenticated", ~crossed'
      PROVE  token' # None /\ user' = token'.sub
  <2>1. ~crossed /\ SameSession(token, Refreshed(c))
    BY <1>1, <1>2 DEF Take, Crosses
  <2>2. token.sub = c.token.sub
    BY <1>1, <2>1 DEF SameSession
  <2>3. CASE user' = c.token.sub
    BY <1>1, <2>3
  <2>4. CASE UNCHANGED <<status, user>>
    BY <1>1, <1>2, <2>1, <2>2, <2>4, TypesOfPage DEF UserMatchesToken
  <2> QED
    BY <1>2, <2>3, <2>4
<1> QED
  BY <1>2 DEF UserMatchesToken

LEMMA ReceiveSessionInv ==
  ASSUME IInv, NEW c \in calls, ReceiveSession(c)
  PROVE  IInv'
<1>1. PICK t : t = SessionOf(c)
  OBVIOUS
<1>2. PICK me : me = CallOf("me", None, t)
  OBVIOUS
<1>3. /\ c \in Call /\ CallHonest(c) /\ c.ok /\ SignsIn(c)
      /\ c.kind \in {"login", "verify"}
  BY TypesOfPage DEF ReceiveSession, SignsIn
<1>4. /\ c.who \in Officer /\ c.at \in Time /\ c.at \in Nat /\ c.at <= now
      /\ <<c.who, c.at>> \in signIns
  BY <1>3, Naturals DEF CallHonest, ServedRightly, Call
<1>5. t \in Token /\ Grounded(t)
  BY <1>1, <1>4 DEF SessionOf, Token, Grounded
<1>6. me \in Call /\ CallHonest(me)
  <2>1. "me" \in Kind /\ "me" \notin {"login", "verify"}
    BY DEF Kind, Protected
  <2> QED
    BY <1>2, <1>5, <2>1, CallOfHonest
<1>7. /\ token' = t /\ stored' = t
      /\ challenge' = IF c.kind = "verify" THEN None ELSE challenge
      /\ UNCHANGED <<status, user>> /\ Take(c, {me})
  BY <1>1, <1>2 DEF ReceiveSession
<1>8. UserMatchesToken'
  <2>1. c.kind \notin Protected
    BY <1>3 DEF Protected
  <2> QED
    BY <1>3, <1>7, <2>1 DEF UserMatchesToken, Take, Crosses
<1>9. {me} \in SUBSET Call /\ \A d \in {me} : CallHonest(d)
  BY <1>6
<1> QED
  BY <1>5, <1>7, <1>8, <1>9, TypesOfPage, AnswerStep

LEMMA ReceiveChallengeInv ==
  ASSUME IInv, NEW c \in calls, ReceiveChallenge(c)
  PROVE  IInv'
<1>1. PICK t : t = Received(c)
  OBVIOUS
<1>2. t \in Token \cup {None} /\ Grounded(t)
  BY <1>1, ReceivedGrounded
<1>3. /\ token' = t /\ challenge' = c.who /\ status' = "mfa_pending"
      /\ UNCHANGED <<stored, user>> /\ Take(c, {}) /\ c.kind = "login"
  BY <1>1 DEF ReceiveChallenge
<1>4. c.who \in Officer
  BY <1>3, TypesOfPage DEF CallHonest
<1>5. UserMatchesToken'
  BY <1>3 DEF UserMatchesToken
<1> QED
  BY <1>2, <1>3, <1>4, <1>5, TypesOfPage, AnswerStep

LEMMA ReceiveUserInv ==
  ASSUME IInv, NEW c \in calls, ReceiveUser(c)
  PROVE  IInv'
<1>1. PICK t : t = Received(c)
  OBVIOUS
<1>2. t \in Token \cup {None} /\ Grounded(t)
  BY <1>1, ReceivedGrounded
<1>3. /\ token' = t /\ status' = "authenticated" /\ user' = c.token.sub
      /\ UNCHANGED <<stored, challenge>> /\ Take(c, {})
      /\ c.ok /\ c.kind \in Protected
  BY <1>1 DEF ReceiveUser, Protected
<1>4. user' \in Officer
  BY <1>3, ProtectedRefreshed DEF Token
<1>5. UserMatchesToken'
  BY <1>1, <1>3, SameUser
<1> QED
  BY <1>2, <1>3, <1>4, <1>5, TypesOfPage, AnswerStep

LEMMA ReceiveStepUpInv ==
  ASSUME IInv, NEW c \in calls, ReceiveStepUp(c)
  PROVE  IInv'
<1>1. PICK t : t = Received(c)
  OBVIOUS
<1>2. PICK a : a = [sub |-> c.token.sub, iat |-> c.at]
  OBVIOUS
<1>3. PICK call : call = [CallOf("elevated", None, t) EXCEPT !.assertion = a]
  OBVIOUS
<1>4. t \in Token \cup {None} /\ Grounded(t)
  BY <1>1, ReceivedGrounded
<1>5. /\ c.ok /\ c.kind = "step_up" /\ c.kind \in Protected
      /\ token' = t /\ UNCHANGED <<stored, status, user, challenge>>
      /\ Take(c, {call})
  BY <1>1, <1>2, <1>3 DEF ReceiveStepUp, Protected
<1>6. c \in Call /\ ServedRightly(c) /\ c.token \in Token
  BY <1>5, ProtectedRefreshed, TypesOfPage DEF CallHonest
<1>7. a \in Assertion /\ Earned(a)
  BY <1>2, <1>5, <1>6 DEF Call, Token, Assertion, Earned, ServedRightly
<1>8. call \in Call /\ call.token = t /\ call.assertion = a
      /\ call.kind = "elevated" /\ ~call.ok
  BY <1>3, <1>4, <1>7, Naturals DEF CallOf, Call, Kind, Protected
<1>9. CallHonest(call)
  BY <1>4, <1>7, <1>8 DEF CallHonest
<1>10. UserMatchesToken'
  BY <1>1, <1>5, SameUser
<1>11. {call} \in SUBSET Call /\ \A d \in {call} : CallHonest(d)
  BY <1>8, <1>9
<1> QED
  BY <1>4, <1>5, <1>10, <1>11, TypesOfPage, AnswerStep

LEMMA ReceiveOtherInv ==
  ASSUME IInv, NEW c \in calls, ReceiveOther(c)
  PROVE  IInv'
<1>1. PICK t : t = Received(c)
  OBVIOUS
<1>2. t \in Token \cup {None} /\ Grounded(t)
  BY <1>1, ReceivedGrounded
<1>3. /\ token' = t /\ UNCHANGED <<stored, status, user, challenge>>
      /\ Take(c, {}) /\ c.ok /\ c.kind \in Protected
  BY <1>1 DEF ReceiveOther, Protected
<1>4. UserMatchesToken'
  BY <1>1, <1>3, SameUser
<1> QED
  BY <1>2, <1>3, <1>4, TypesOfPage, AnswerStep

LEMMA ReceiveSignOutInv ==
  ASSUME IInv, NEW c \in calls, ReceiveSignOut(c)
  PROVE  IInv'
<1>1. /\ token' = None /\ stored' = None /\ status' = "unauthenticated"
      /\ user' = None /\ challenge' = None /\ Lose(c)
  BY DEF ReceiveSignOut, Cleared
<1>2. UserMatchesToken' /\ Grounded(None)
  BY <1>1 DEF UserMatchesToken, Grounded
<1>3. polling' \in BOOLEAN /\ crossed' \in BOOLEAN
  BY <1>1, LostCalls, TypesOfPage
<1> QED
  BY <1>1, <1>2, <1>3, LostCalls, PageStep

LEMMA ReceiveErrorInv ==
  ASSUME IInv, NEW c \in calls, ReceiveError(c)
  PROVE  IInv'
BY LostCalls, CallsStep DEF ReceiveError, Lose

-----------------------------------------------------------------------------

LEMMA NextInv ==
  ASSUME IInv, Next
  PROVE  IInv'
<1>1. ASSUME NEW o \in Officer, SubmitLogin(o) PROVE IInv'
  BY <1>1, SendInv DEF SubmitLogin, Kind
<1>2. CASE SubmitCode
  BY <1>2, SendInv, TypesOfPage DEF SubmitCode, Kind
<1>3. ASSUME NEW kind \in {"read", "step_up", "logout"}, UserCall(kind) PROVE IInv'
  BY <1>3, SendInv DEF UserCall, Kind, Protected
<1>4. CASE PollTimer
  BY <1>4, SendInv DEF PollTimer, Kind, Protected
<1>5. ASSUME NEW c \in calls, Receive(c) PROVE IInv'
  BY <1>5, ReceiveSessionInv, ReceiveChallengeInv, ReceiveUserInv, ReceiveStepUpInv,
     ReceiveOtherInv, ReceiveSignOutInv, ReceiveErrorInv DEF Receive
<1> QED
  BY <1>1, <1>2, <1>3, <1>4, <1>5, TickInv, ReloadInv, ServeInv DEF Next

LEMMA StutterInv ==
  ASSUME IInv, UNCHANGED vars
  PROVE  IInv'
BY TypesOfPage, CallsStep DEF vars

LEMMA Inductive == Spec => []IInv
<1>1. IInv /\ [Next]_vars => IInv'
  BY NextInv, StutterInv
<1> QED
  BY <1>1, InitInv, PTL DEF Spec

(* Tokens, calls and what the page holds keep their types.                 *)
THEOREM Typing == Spec => []TypeOK
<1>1. IInv => TypeOK
  BY DEF IInv
<1> QED
  BY <1>1, Inductive, PTL

(* However long the chain of reissued tokens, and whatever is late, lost or*)
(* reloaded, nobody is served longer than the absolute limit after a       *)
(* sign-in of the same officer (middleware.py, get_current_officer).       *)
THEOREM SessionsAlwaysEnd == Spec => []SessionsEnd
<1>1. ASSUME IInv PROVE SessionsEnd
  <2>1. SUFFICES ASSUME NEW c \in calls, c.ok, c.kind \in Protected
                 PROVE  \E s \in signIns : /\ s[1] = c.token.sub /\ s[2] <= c.at
                                           /\ c.at - s[2] <= Absolute
    BY DEF SessionsEnd
  <2>2. c \in Call /\ CallHonest(c) /\ ServedRightly(c) /\ c.token \in Token
    BY <1>1, <2>1, ProtectedRefreshed, TypesOfPage DEF CallHonest
  <2>3. /\ <<c.token.sub, c.token.start>> \in signIns
        /\ c.token.start <= c.token.iat /\ c.token.iat <= c.at
        /\ c.at - c.token.start <= Absolute
    BY <2>1, <2>2, NoneAssumption DEF CallHonest, Grounded, ServedRightly
  <2>4. c.token.start \in Nat /\ c.token.iat \in Nat /\ c.at \in Nat
    BY <2>2, Naturals DEF Token, Call
  <2> QED
    BY <2>3, <2>4
<1> QED
  BY <1>1, Inductive, PTL

(* An elevated operation follows a password of the same officer within     *)
(* STEP_UP_EXPIRE_MINUTES (require_step_up_auth), whoever signed in since. *)
THEOREM ElevationsNeedPasswords == Spec => []ElevatedAfterPassword
<1>1. ASSUME IInv PROVE ElevatedAfterPassword
  <2>1. SUFFICES ASSUME NEW c \in calls, c.ok, c.kind = "elevated"
                 PROVE  \E p \in passwords : /\ p[1] = c.token.sub /\ p[2] <= c.at
                                             /\ c.at - p[2] <= Elevation
    BY DEF ElevatedAfterPassword
  <2>2. CallHonest(c) /\ ServedRightly(c)
    BY <1>1, <2>1, TypesOfPage DEF CallHonest
  <2>3. /\ <<c.assertion.sub, c.assertion.iat>> \in passwords
        /\ c.assertion.sub = c.token.sub /\ c.assertion.iat <= c.at
        /\ c.at - c.assertion.iat <= Elevation
    BY <2>1, <2>2 DEF CallHonest, Earned, ServedRightly
  <2> QED
    BY <2>3
<1> QED
  BY <1>1, Inductive, PTL

(* The page shows the officer its token is of, until an answer of another  *)
(* session arrives late (client.ts _authorizedFetch, AuthContext).         *)
THEOREM PageShowsCaller == Spec => []UserMatchesToken
<1>1. IInv => UserMatchesToken
  BY DEF IInv
<1> QED
  BY <1>1, Inductive, PTL

-----------------------------------------------------------------------------
(* The account of an officer *)

(* What a handler knows: codes are made of secrets handed out, a row that  *)
(* was off when it was loaded is noticed, and whoever is signed in passed. *)
JobHonest(w) ==
  /\ job[w].code \in used \cup {NoCode}
  /\ ~job[w].row.enabled => job[w].off
  /\ pc[w] = "signed_in" => Passes(job[w].row, job[w].code)

AccountInv ==
  /\ AccountTypeOK
  /\ \A w \in Worker : JobHonest(w)
  /\ FactorHasSecret
  /\ EnrolledMeansConfirmed

-----------------------------------------------------------------------------

LEMMA OffRowType == OffRow \in Row
BY DEF OffRow, Row

LEMMA NoJobType == NoJob \in Job
BY OffRowType DEF NoJob, Job, Op

LEMMA AccountStarts == AccountInit => AccountInv
<1> SUFFICES ASSUME AccountInit PROVE AccountInv
  OBVIOUS
<1>1. AccountTypeOK
  BY OffRowType, NoJobType DEF AccountInit, AccountTypeOK, Pc
<1>2. \A w \in Worker : JobHonest(w)
  BY DEF AccountInit, JobHonest, NoJob, OffRow
<1>3. FactorHasSecret /\ EnrolledMeansConfirmed
  BY DEF AccountInit, FactorHasSecret, EnrolledMeansConfirmed, OffRow
<1> QED
  BY <1>1, <1>2, <1>3 DEF AccountInv

(* A step that gives one worker a job and leaves the account alone.        *)
LEMMA OneJob ==
  ASSUME AccountInv, NEW w \in Worker, NEW step \in Pc, NEW task \in Job,
         UNCHANGED <<row, used, app, confirmed, outrun>>, tokens' \subseteq Purpose,
         pc' = [pc EXCEPT ![w] = step], job' = [job EXCEPT ![w] = task],
         task.code \in used \cup {NoCode}, ~task.row.enabled => task.off,
         step = "signed_in" => Passes(task.row, task.code)
  PROVE  AccountInv'
<1>1. AccountTypeOK'
  BY DEF AccountInv, AccountTypeOK
<1>2. /\ pc'[w] = step /\ job'[w] = task
      /\ \A v \in Worker \ {w} : pc'[v] = pc[v] /\ job'[v] = job[v]
  BY DEF AccountInv, AccountTypeOK
<1>3. ASSUME NEW v \in Worker PROVE JobHonest(v)'
  <2>1. CASE v = w
    BY <1>2, <2>1 DEF JobHonest, Passes
  <2>2. CASE v # w
    BY <1>2, <2>2 DEF AccountInv, JobHonest, Passes
  <2> QED
    BY <2>1, <2>2
<1>4. FactorHasSecret' /\ EnrolledMeansConfirmed'
  BY DEF AccountInv, FactorHasSecret, EnrolledMeansConfirmed
<1> QED
  BY <1>1, <1>3, <1>4 DEF AccountInv

LEMMA EndInv ==
  ASSUME AccountInv, NEW w \in Worker, UNCHANGED <<row, used, app, confirmed, outrun>>,
         tokens' \subseteq Purpose, pc' = [pc EXCEPT ![w] = "idle"],
         job' = [job EXCEPT ![w] = NoJob]
  PROVE  AccountInv'
<1>1. "idle" \in Pc /\ "idle" # "signed_in"
  BY DEF Pc
<1>2. NoJob.code \in used \cup {NoCode} /\ NoJob.off
  BY DEF NoJob
<1> QED
  BY <1>1, <1>2, NoJobType, OneJob

LEMMA LoadInv ==
  ASSUME AccountInv, NEW w \in Worker, NEW op \in Op, NEW code \in app \cup {NoCode},
         Load(w, op, code)
  PROVE  AccountInv'
<1> DEFINE task == [op |-> op, row |-> row, code |-> code, off |-> ~row.enabled]
<1>1. row \in Row /\ tokens \subseteq Purpose /\ app \subseteq used /\ used \subseteq Secret
  BY DEF AccountInv, AccountTypeOK
<1>2. task \in Job
  BY <1>1 DEF Job, Row
<1>3. task.code \in used \cup {NoCode} /\ (~task.row.enabled => task.off)
  BY <1>1
<1>4. /\ pc' = [pc EXCEPT ![w] = "loaded"] /\ job' = [job EXCEPT ![w] = task]
      /\ UNCHANGED <<row, used, app, tokens, confirmed, outrun>>
  BY DEF Load
<1>5. "loaded" \in Pc /\ "loaded" # "signed_in"
  BY DEF Pc
<1> HIDE DEF task
<1> QED
  BY <1>1, <1>2, <1>3, <1>4, <1>5, OneJob

LEMMA SignInInv ==
  ASSUME AccountInv, NEW w \in Worker, SignIn(w), Passes(job[w].row, job[w].code)
  PROVE  AccountInv'
<1>1. job[w] \in Job /\ JobHonest(w) /\ tokens' \subseteq Purpose
  BY DEF AccountInv, AccountTypeOK, SignIn, Purpose
<1>2. job' = [job EXCEPT ![w] = job[w]]
  BY DEF AccountInv, AccountTypeOK, SignIn
<1>3. /\ pc' = [pc EXCEPT ![w] = "signed_in"]
      /\ UNCHANGED <<row, used, app, confirmed, outrun>>
  BY DEF SignIn
<1>4. "signed_in" \in Pc
  BY DEF Pc
<1>5. job[w].code \in used \cup {NoCode} /\ (~job[w].row.enabled => job[w].off)
  BY <1>1 DEF JobHonest
<1> QED
  BY <1>1, <1>2, <1>3, <1>4, <1>5, OneJob

LEMMA IssueInv ==
  ASSUME AccountInv, NEW w \in Worker, NEW purpose \in Purpose, Issue(w, purpose)
  PROVE  AccountInv'
BY EndInv DEF Issue, AccountInv, AccountTypeOK

LEMMA SigningInv ==
  ASSUME AccountInv, NEW w \in Worker,
         \/ Login(w) \/ Verify(w) \/ StepUp(w)
         \/ ConfirmRejected(w) \/ Answer(w) \/ ConnectionLost(w)
  PROVE  AccountInv'
<1>1. ASSUME End(w) PROVE AccountInv'
  BY <1>1, EndInv DEF End, AccountInv, AccountTypeOK
<1>2. Purpose = {"mfa_challenge", "access", "step_up"}
  BY DEF Purpose
<1>3. CASE Login(w)
  <2>1. ~job[w].row.enabled => Passes(job[w].row, job[w].code)
    BY DEF Passes
  <2> QED
    BY <1>2, <1>3, <2>1, SignInInv, IssueInv DEF Login
<1>4. CASE Verify(w)
  BY <1>1, <1>4, SignInInv DEF Verify
<1>5. CASE StepUp(w)
  BY <1>1, <1>2, <1>5, IssueInv DEF StepUp
<1>6. CASE ConfirmRejected(w) \/ Answer(w) \/ ConnectionLost(w)
  BY <1>1, <1>6 DEF ConfirmRejected, Answer, ConnectionLost
<1> QED
  BY <1>3, <1>4, <1>5, <1>6

-----------------------------------------------------------------------------
(* Changes of the row *)

(* Over the row that was loaded, an UPDATE leaves what was assigned.       *)
LEMMA WrittenOverLoaded ==
  ASSUME row \in Row, NEW assigned \in Row
  PROVE  Written(row, assigned) = assigned
BY DEF Written, Column, Row

LEMMA WrittenType ==
  ASSUME row \in Row, NEW loaded \in Row, NEW assigned \in Row
  PROVE  Written(loaded, assigned) \in Row
BY DEF Written, Column, Row

(* A change keeps the invariant if what it assigns over an unchanged row   *)
(* has a secret where it is on, and a confirmed one where it is enrolled.  *)
LEMMA CommitInv ==
  ASSUME AccountInv, NEW w \in Worker, NEW assigned \in Row, Commit(w, assigned),
         used \subseteq used', used' \subseteq Secret, app' \subseteq used',
         confirmed' \subseteq used',
         ~outrun /\ row = job[w].row =>
           /\ assigned.enabled => assigned.secret # NoSecret
           /\ assigned.enrolled => assigned.enabled /\ assigned.secret \in confirmed'
  PROVE  AccountInv'
<1>1. /\ row \in Row /\ job \in [Worker -> Job] /\ pc \in [Worker -> Pc]
      /\ tokens \subseteq Purpose /\ outrun \in BOOLEAN
  BY DEF AccountInv, AccountTypeOK
<1>2. /\ row' = Written(job[w].row, assigned)
      /\ outrun' = (outrun \/ row # job[w].row)
      /\ pc' = [pc EXCEPT ![w] = "idle"]
      /\ job' = [v \in Worker |-> IF v = w THEN NoJob ELSE Noticed(job[v], row')]
      /\ tokens' = tokens
  BY DEF Commit
<1>3. row' \in Row
  BY <1>1, <1>2, WrittenType DEF Job
<1>4. ASSUME NEW v \in Worker, v # w
      PROVE  /\ job'[v] \in Job
             /\ job'[v].row = job[v].row /\ job'[v].code = job[v].code
             /\ job[v].off => job'[v].off
  <2>1. job[v] \in Job /\ job'[v] = [job[v] EXCEPT !.off = job[v].off \/ ~row'.enabled]
    BY <1>1, <1>2, <1>4 DEF Noticed
  <2>2. (job[v].off \/ ~row'.enabled) \in BOOLEAN
    OBVIOUS
  <2> QED
    BY <2>1, <2>2 DEF Job
<1>5. job'[w] = NoJob
  BY <1>2
<1>6. AccountTypeOK'
  <2>1. job' \in [Worker -> Job]
    BY <1>2, <1>4, NoJobType
  <2>2. pc' \in [Worker -> Pc] /\ tokens' \subseteq Purpose /\ outrun' \in BOOLEAN
    BY <1>1, <1>2 DEF Pc
  <2> QED
    BY <1>3, <2>1, <2>2 DEF AccountTypeOK
<1>7. ASSUME NEW v \in Worker PROVE JobHonest(v)'
  <2>1. pc'[w] = "idle" /\ \A u \in Worker \ {w} : pc'[u] = pc[u]
    BY <1>1, <1>2
  <2>2. CASE v = w
    BY <1>5, <2>1, <2>2 DEF JobHonest, NoJob
  <2>3. CASE v # w
    BY <1>4, <2>1, <2>3 DEF AccountInv, JobHonest, Passes
  <2> QED
    BY <2>2, <2>3
<1>8. FactorHasSecret' /\ EnrolledMeansConfirmed'
  <2> SUFFICES ASSUME ~outrun'
               PROVE  /\ row'.enabled => row'.secret # NoSecret
                      /\ row'.enrolled => row'.enabled /\ row'.secret \in confirmed'
    BY DEF FactorHasSecret, EnrolledMeansConfirmed
  <2>1. ~outrun /\ row = job[w].row
    BY <1>2
  <2>2. row' = assigned
    BY <1>1, <1>2, <2>1, WrittenOverLoaded
  <2> QED
    BY <2>1, <2>2
<1> QED
  BY <1>6, <1>7, <1>8 DEF AccountInv

LEMMA EnrollInv ==
  ASSUME AccountInv, NEW w \in Worker, Enroll(w)
  PROVE  AccountInv'
<1>1. PICK s \in Secret \ used : /\ Commit(w, Enrolled(job[w].row, s))
                                 /\ used' = used \cup {s}
                                 /\ app' \in {app, app \cup {s}}
                                 /\ confirmed' = confirmed
  BY DEF Enroll
<1>2. /\ job[w].row \in Row /\ used \subseteq Secret /\ app \subseteq used
      /\ confirmed \subseteq used
  BY DEF AccountInv, AccountTypeOK, Job
<1>3. Enrolled(job[w].row, s) \in Row
  BY <1>2 DEF Enrolled, Row
<1>4. /\ Enrolled(job[w].row, s).secret # NoSecret
      /\ ~Enrolled(job[w].row, s).enrolled
  BY FactorAssumption DEF Enrolled
<1>5. /\ used \subseteq used' /\ used' \subseteq Secret /\ app' \subseteq used'
      /\ confirmed' \subseteq used'
  BY <1>1, <1>2
<1> QED
  BY <1>1, <1>3, <1>4, <1>5, CommitInv

LEMMA ConfirmInv ==
  ASSUME AccountInv, NEW w \in Worker, Confirm(w)
  PROVE  AccountInv'
<1>1. /\ job[w].row \in Row /\ job[w].code \in used \cup {NoCode}
      /\ used \subseteq Secret /\ app \subseteq used /\ confirmed \subseteq used
  BY DEF AccountInv, AccountTypeOK, Job, JobHonest
<1>2. /\ job[w].row.secret # NoSecret /\ job[w].code = job[w].row.secret
      /\ Commit(w, Confirmed(job[w].row))
      /\ confirmed' = confirmed \cup {job[w].code} /\ UNCHANGED <<used, app>>
  BY DEF Confirm, MayConfirm
<1>3. job[w].code \in used
  BY <1>1, <1>2, FactorAssumption DEF Row
<1>4. Confirmed(job[w].row) \in Row
  BY <1>1 DEF Confirmed, Row
<1>5. /\ Confirmed(job[w].row).enabled /\ Confirmed(job[w].row).secret # NoSecret
      /\ Confirmed(job[w].row).secret \in confirmed'
  BY <1>2 DEF Confirmed
<1> QED
  BY <1>1, <1>2, <1>3, <1>4, <1>5, CommitInv

LEMMA DisableInv ==
  ASSUME AccountInv, NEW w \in Worker, Disable(w)
  PROVE  AccountInv'
<1>1. Disabled(job[w].row) \in Row
  BY DEF Disabled, Row
<1>2. ~Disabled(job[w].row).enabled /\ ~Disabled(job[w].row).enrolled
  BY DEF Disabled
<1>3. /\ Commit(w, Disabled(job[w].row)) /\ UNCHANGED <<used, app, confirmed>>
      /\ used \subseteq Secret /\ app \subseteq used /\ confirmed \subseteq used
  BY DEF Disable, AccountInv, AccountTypeOK
<1> QED
  BY <1>1, <1>2, <1>3, CommitInv

LEMMA AccountGoesOn == AccountInv /\ [AccountNext]_accountVars => AccountInv'
<1> SUFFICES ASSUME AccountInv, [AccountNext]_accountVars PROVE AccountInv'
  OBVIOUS
<1>1. ASSUME NEW w \in Worker, Step(w) PROVE AccountInv'
  BY <1>1, LoadInv, SigningInv, EnrollInv, ConfirmInv, DisableInv DEF Step
<1>2. ASSUME NEW purpose \in Purpose, ExpireToken(purpose) PROVE AccountInv'
  BY <1>2 DEF ExpireToken, AccountInv, AccountTypeOK, JobHonest, Passes,
     FactorHasSecret, EnrolledMeansConfirmed
<1>3. CASE UNCHANGED accountVars
  BY <1>3 DEF accountVars, AccountInv, AccountTypeOK, JobHonest, Passes,
     FactorHasSecret, EnrolledMeansConfirmed
<1> QED
  BY <1>1, <1>2, <1>3 DEF AccountNext

-----------------------------------------------------------------------------
(* Theorems about the account *)

(* In every reachable state of any number of overlapping requests.         *)
LEMMA AccountInductive == AccountSpec => []AccountInv
BY AccountStarts, AccountGoesOn, PTL DEF AccountSpec

(* The account and the sessions are always of their types.                 *)
THEOREM AccountTyping == AccountSpec => []AccountTypeOK
<1>1. AccountInv => AccountTypeOK
  BY DEF AccountInv
<1> QED
  BY AccountInductive, <1>1, PTL

(* The factor is never on without a secret until one change of it outruns  *)
(* another.                                                                *)
THEOREM FactorsHaveSecrets == AccountSpec => []FactorHasSecret
<1>1. AccountInv => FactorHasSecret
  BY DEF AccountInv
<1> QED
  BY AccountInductive, <1>1, PTL

(* Until then the time of enrolment stands for a secret that was confirmed.*)
THEOREM EnrolmentsAreConfirmed == AccountSpec => []EnrolledMeansConfirmed
<1>1. AccountInv => EnrolledMeansConfirmed
  BY DEF AccountInv
<1> QED
  BY AccountInductive, <1>1, PTL

(* Nobody signs in without a code while the factor is on, races included.  *)
THEOREM SignInsNeedCodes == AccountSpec => []SignInNeedsCode
<1>1. AccountInv => SignInNeedsCode
  BY DEF AccountInv, JobHonest, Passes, SignInNeedsCode
<1> QED
  BY AccountInductive, <1>1, PTL

=============================================================================
