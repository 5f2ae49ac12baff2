---------------------------- MODULE AccessGrants ----------------------------
(***************************************************************************)
(* What the access-exception workflow promises (docs/decisions/009): every *)
(* request is decided once, a grant runs from its approval for the asked   *)
(* number of hours, and a withdrawn grant never comes back.                *)
(***************************************************************************)
EXTENDS Naturals

CONSTANTS Grant,  \* requests that can be filed
          Hours   \* durations that can be asked for

VARIABLES state,  \* where each request is in its life
          until,  \* when the access it gives ends; 0 before it is approved
          now     \* the time

vars == <<state, until, now>>

Init ==
  /\ state = [g \in Grant |-> "none"]
  /\ until = [g \in Grant |-> 0]
  /\ now \in Nat

Step(g, from, to) == state[g] = from /\ state' = [state EXCEPT ![g] = to]

Ask(g) == Step(g, "none", "pending") /\ UNCHANGED <<until, now>>

Approve(g, h) ==
  /\ Step(g, "pending", "approved")
  /\ until' = [until EXCEPT ![g] = now + h]
  /\ UNCHANGED now

Deny(g) == Step(g, "pending", "denied") /\ UNCHANGED <<until, now>>

Revoke(g) == Step(g, "approved", "revoked") /\ UNCHANGED <<until, now>>

Tick == now' = now + 1 /\ UNCHANGED <<state, until>>

Next ==
  \/ Tick
  \/ \E g \in Grant :
       Ask(g) \/ Deny(g) \/ Revoke(g) \/ \E h \in Hours : Approve(g, h)

Spec == Init /\ [][Next]_vars

=============================================================================
