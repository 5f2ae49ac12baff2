--------------------------- MODULE ReportingLines ---------------------------
(***************************************************************************)
(* The hierarchy that officers.manager_id describes, as a reader of the    *)
(* whole table would see it. OfficerHierarchy and CaseDocuments search it  *)
(* one level after the other; this is what they are compared with.         *)
(***************************************************************************)
CONSTANT Officer \* rows of officers

(* With an officer, S has all that report to that officer.                 *)
ClosedDown(m, S) == \A o \in Officer : m[o] \in S => o \in S

(* Reference definition: who is in every set that holds r and, with an     *)
(* officer, everybody who reports to that officer.                         *)
Subordinates(m, r) ==
  {o \in Officer \ {r} : \A S \in SUBSET Officer : (r \in S /\ ClosedDown(m, S)) => o \in S}

=============================================================================
