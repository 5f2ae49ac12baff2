------------------------- MODULE MCNetworkIdentity -------------------------
(* Values for the model checking of NetworkIdentity.                       *)
EXTENDS NetworkIdentity, TLC

CONSTANTS p1, p2, p3, p4, home, x1, x2, x3

(* A line from a person to an address, and an edge without a mirror row.   *)
Line == x1 :> <<p1, p2>> @@ x2 :> <<p2, home>> @@ x3 :> <<p4, p3>>

FromNode == [x \in Edge |-> Line[x][1]]
ToNode == [x \in Edge |-> Line[x][2]]
MirrorTier == [x \in Edge |-> IF x = x3 THEN Nil ELSE 0]

(* Nobody is of the higher tier at first, or one of these two.             *)
OneSealed == {[p \in Entity |-> IF p = q THEN 1 ELSE 0] : q \in {p2, p4, Nil}}

(* An officer of another district and one of the district of the address.  *)
Districts == {{}, {home}}
=============================================================================
