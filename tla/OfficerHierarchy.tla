-------------------------- MODULE OfficerHierarchy --------------------------
(***************************************************************************)
(* Who reports to whom: assigning a manager and searching an officer's     *)
(* subordinates (services/officer_service.py), and the reads of notes that *)
(* depend on the search (case_service._visible_notes).                     *)
(*                                                                         *)
(* The search is a breadth-first walk down manager_id, one SELECT for each *)
(* level, and takes no lock: under READ COMMITTED every level sees the     *)
(* table of its moment, and the check for a cycle is only as good as that. *)
(***************************************************************************)
EXTENDS Naturals, ReportingLines

CONSTANTS Supervisor,    \* the officers whose role is SUPERVISOR
          Worker,        \* threads of the server's pool
          MaxChainDepth, \* MAX_CHAIN_DEPTH
          Unknown,       \* an id that is in no row
          Nil            \* no officer

ASSUME OfficerAssumption ==
  /\ Supervisor \subseteq Officer
  /\ MaxChainDepth \in Nat \ {0}
  /\ Unknown \notin Officer
  /\ Nil \notin Officer \cup {Unknown}

VARIABLES manager, \* manager_id of each officer
          pc,      \* where each worker is in its handler
          job,     \* what each worker was asked for and has found
          guessed  \* HISTORY: an assignment was committed by a worker that
                   \* was not sure (see Job)

vars == <<manager, pc, job, guessed>>

Pc == {"idle", "search", "write", "answer", "refused"}

(* root: whose subordinates are searched; found, frontier, depth: the      *)
(* locals of the search; loaded: the target's manager_id when db.get read  *)
(* it. sure is HISTORY: the table has not changed since the worker began,  *)
(* and its search was not cut off while there was more to find.            *)
Job == [root : Officer \cup {Nil}, target : Officer \cup {Nil}, manager : Officer \cup {Nil},
        loaded : Officer \cup {Nil}, found : SUBSET Officer, frontier : SUBSET Officer,
        depth : 0..MaxChainDepth, sure : BOOLEAN]

NoJob == [root |-> Nil, target |-> Nil, manager |-> Nil, loaded |-> Nil,
          found |-> {}, frontier |-> {}, depth |-> 0, sure |-> FALSE]

AssignJob(t, m) == [root |-> t, target |-> t, manager |-> m, loaded |-> manager[t],
                    found |-> {}, frontier |-> {t}, depth |-> 0, sure |-> TRUE]

ReadJob(o) == [root |-> o, target |-> Nil, manager |-> Nil, loaded |-> Nil,
               found |-> {}, frontier |-> {o}, depth |-> 0, sure |-> TRUE]

DeeperJob(task, new) ==
  [root |-> task.root, target |-> task.target, manager |-> task.manager,
   loaded |-> task.loaded, found |-> task.found \cup new, frontier |-> new,
   depth |-> task.depth + 1, sure |-> task.sure]

FoundJob(task, found, sure) ==
  [root |-> task.root, target |-> task.target, manager |-> task.manager,
   loaded |-> task.loaded, found |-> found, frontier |-> {}, depth |-> 0, sure |-> sure]

Init ==
  /\ manager = [o \in Officer |-> Nil]
  /\ pc = [w \in Worker |-> "idle"]
  /\ job = [w \in Worker |-> NoJob]
  /\ guessed = FALSE

-----------------------------------------------------------------------------

End(w) ==
  /\ pc' = [pc EXCEPT ![w] = "idle"]
  /\ job' = [job EXCEPT ![w] = NoJob]

Start(w, step, task) ==
  /\ pc[w] = "idle"
  /\ pc' = [pc EXCEPT ![w] = step]
  /\ job' = [job EXCEPT ![w] = task]
  /\ UNCHANGED <<manager, guessed>>

(* Mutant: nobody looks whether the manager exists.                        *)
MayAssign_AnyManager(t, m) == t \in Officer /\ m # t

(* 404 for the target, 422 for the manager and for one's own manager.      *)
MayAssign(t, m) == t \in Officer /\ m # Unknown /\ m # t

(* set_manager up to its search: clearing a manager needs none.            *)
Assign(w, t, m) ==
  /\ MayAssign(t, m)
  /\ Start(w, IF m = Nil THEN "write" ELSE "search", AssignJob(t, m))

Reject(w, t, m) ==
  /\ ~MayAssign(t, m)
  /\ Start(w, "refused", NoJob)

(* _visible_notes for a supervisor.                                        *)
ReadNotes(w, o) == Start(w, "search", ReadJob(o))

-----------------------------------------------------------------------------
(* get_subordinate_officer_ids *)

(* Mutant: only the direct reports of the first officer are looked up.     *)
NewIds_Direct(task) ==
  {o \in Officer : manager[o] = task.root} \ (task.found \cup {task.root})

NewIds(task) ==
  {o \in Officer : manager[o] \in task.frontier} \ (task.found \cup {task.root})

(* Mutant: the officer is looked for, and not the manager.                 *)
Allowed_Target(task, found) == task.manager \in Officer /\ task.target \notin found

Allowed(task, found) == task.manager \notin found

(* The search ends with these officers.                                    *)
Finish(w, task, found, sure) ==
  \/ /\ task.target = Nil
     /\ pc' = [pc EXCEPT ![w] = "answer"]
     /\ job' = [job EXCEPT ![w] = FoundJob(task, found, sure)]
  \/ /\ task.target # Nil
     /\ Allowed(task, found)
     /\ pc' = [pc EXCEPT ![w] = "write"]
     /\ job' = [job EXCEPT ![w] = FoundJob(task, {}, sure)]
  \/ /\ task.target # Nil
     /\ ~Allowed(task, found)
     /\ pc' = [pc EXCEPT ![w] = "refused"]
     /\ job' = [job EXCEPT ![w] = NoJob]

(* One SELECT. A level that finds nobody ends the search, and so does the  *)
(* last level allowed: whoever reports to that level may then be missed.   *)
Level(w) ==
  LET task == job[w]
      new == NewIds(task)
      found == task.found \cup new
      all == ClosedDown(manager, found \cup {task.root})
  IN  /\ pc[w] = "search"
      /\ \/ new = {} /\ Finish(w, task, task.found, task.sure)
         \/ /\ new # {} /\ task.depth + 1 = MaxChainDepth
            /\ Finish(w, task, found, task.sure /\ all)
         \/ /\ new # {} /\ task.depth + 1 < MaxChainDepth
            /\ job' = [job EXCEPT ![w] = DeeperJob(task, new)]
            /\ UNCHANGED pc
      /\ UNCHANGED <<manager, guessed>>

-----------------------------------------------------------------------------

(* SQLAlchemy leaves manager_id out of the UPDATE, and with it the UPDATE, *)
(* when it is assigned the value the session loaded.                       *)
Written(loaded, assigned, current) == IF assigned = loaded THEN current ELSE assigned

(* History: a change of the table leaves the others unsure.                *)
Noticed(task, changed) == [task EXCEPT !.sure = @ /\ ~changed]

(* The assignment and its audit row, in one commit.                        *)
Write(w) ==
  LET task == job[w]
  IN  /\ pc[w] = "write"
      /\ manager' = [manager EXCEPT ![task.target] = Written(task.loaded, task.manager, @)]
      /\ guessed' = (guessed \/ ~task.sure)
      /\ pc' = [pc EXCEPT ![w] = "idle"]
      /\ job' = [v \in Worker |-> IF v = w THEN NoJob
                                  ELSE Noticed(job[v], manager' # manager)]

(* The notes of the officers found are shown, or the refusal is.           *)
Answer(w) ==
  /\ pc[w] \in {"answer", "refused"}
  /\ End(w)
  /\ UNCHANGED <<manager, guessed>>

(* The connection or the process dies: nothing was written yet.            *)
ConnectionLost(w) ==
  /\ pc[w] \in {"search", "write"}
  /\ End(w)
  /\ UNCHANGED <<manager, guessed>>

Begin(w) ==
  \/ \E t \in Officer \cup {Unknown}, m \in Officer \cup {Unknown, Nil} :
       Assign(w, t, m) \/ Reject(w, t, m)
  \/ \E o \in Supervisor : ReadNotes(w, o)

Next ==
  \E w \in Worker : Begin(w) \/ Level(w) \/ Write(w) \/ Answer(w) \/ ConnectionLost(w)

Spec == Init /\ [][Next]_vars
-----------------------------------------------------------------------------
(* Properties                                                              *)

(* The table and the sessions hold values of their types.                  *)
TypeOK ==
  /\ manager \in [Officer -> Officer \cup {Nil}]
  /\ pc \in [Worker -> Pc]
  /\ job \in [Worker -> Job]
  /\ guessed \in BOOLEAN

(* Nobody reports to themselves along any chain: no set of officers has    *)
(* all their managers in it.                                               *)
Acyclic(m) == \A S \in SUBSET Officer : S # {} => \E o \in S : m[o] \notin S

(* set_manager keeps the hierarchy a forest. It takes an assignment made   *)
(* while another one commits, or a chain beyond the bound, to break it.    *)
ForestUnlessGuessed == ~guessed => Acyclic(manager)

(* get_subordinate_officer_ids finds the transitive reports, no more and   *)
(* no fewer, also in a hierarchy that already has a cycle, as long as no   *)
(* assignment commits during the search and the bound does not end it.     *)
SearchExact ==
  \A w \in Worker :
    (pc[w] = "answer" /\ job[w].sure) => job[w].found = Subordinates(manager, job[w].root)

(* officer_service.ManagerCycleError: the assignment that "would create a  *)
(* cycle in the reporting chain" is refused. The check takes no lock.      *)
NoManagerCycle == Acyclic(manager)

=============================================================================
