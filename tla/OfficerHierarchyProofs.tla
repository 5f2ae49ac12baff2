----------------------- MODULE OfficerHierarchyProofs -----------------------
(***************************************************************************)
(* Theorems about OfficerHierarchy, for every set of officers and threads  *)
(* and every bound on the depth of a search.                               *)
(***************************************************************************)
EXTENDS OfficerHierarchy, TLAPS

(* Between two levels: whoever reports to an officer that was expanded has *)
(* been found, and only subordinates have been found.                      *)
SearchWellFormed(task) ==
  /\ task.root \in Officer
  /\ task.target \in {Nil, task.root}
  /\ task.target # Nil => task.manager \in Officer \ {task.target}
  /\ task.frontier \subseteq task.found \cup {task.root}
  /\ task.root \notin task.found
  /\ task.depth < MaxChainDepth
  /\ task.sure =>
       /\ task.target # Nil => task.loaded = manager[task.target]
       /\ task.found \subseteq Subordinates(manager, task.root)
       /\ \A o \in Officer :
            manager[o] \in (task.found \cup {task.root}) \ task.frontier =>
              o \in task.found \cup {task.root}

(* An assignment that is sure closes no cycle, and is not left out.        *)
WriteWellFormed(task) ==
  /\ task.target \in Officer
  /\ task.manager # task.target
  /\ task.sure => /\ task.loaded = manager[task.target]
                  /\ task.manager \notin Subordinates(manager, task.target)

AnswerWellFormed(task) ==
  task.sure => task.found = Subordinates(manager, task.root)

JobWellFormed(w) ==
  /\ pc[w] = "search" => SearchWellFormed(job[w])
  /\ pc[w] = "write" => WriteWellFormed(job[w])
  /\ pc[w] = "answer" => AnswerWellFormed(job[w])

IInv ==
  /\ TypeOK
  /\ \A w \in Worker : JobWellFormed(w)
  /\ ForestUnlessGuessed

-----------------------------------------------------------------------------
(* Hierarchies *)

(* The reports of the officer and of its subordinates are subordinates.    *)
LEMMA ReportsAreSubordinates ==
  ASSUME NEW m, NEW r, NEW o \in Officer, o # r, m[o] \in Subordinates(m, r) \cup {r}
  PROVE  o \in Subordinates(m, r)
BY DEF Subordinates, ClosedDown

(* A set of others that is closed together with the officer holds all its  *)
(* subordinates.                                                           *)
LEMMA ClosedHoldsSubordinates ==
  ASSUME NEW m, NEW r \in Officer, NEW F \in SUBSET Officer, ClosedDown(m, F \cup {r})
  PROVE  Subordinates(m, r) \subseteq F
<1>1. F \cup {r} \in SUBSET Officer
  OBVIOUS
<1> QED
  BY <1>1 DEF Subordinates

(* Putting an officer under somebody who is not below it closes no cycle.  *)
LEMMA AssignKeepsForest ==
  ASSUME NEW m \in [Officer -> Officer \cup {Nil}], Acyclic(m), NEW t \in Officer,
         NEW g \in Officer \cup {Nil}, g # t, g \notin Subordinates(m, t)
  PROVE  Acyclic([m EXCEPT ![t] = g])
<1> DEFINE n == [m EXCEPT ![t] = g]
<1>1. n[t] = g /\ \A o \in Officer \ {t} : n[o] = m[o]
  OBVIOUS
<1> HIDE DEF n
<1> SUFFICES ASSUME NEW S \in SUBSET Officer, S # {}, \A o \in S : n[o] \in S
             PROVE  FALSE
  BY DEF Acyclic, n
<1>2. CASE t \notin S
  <2>1. \A o \in S : m[o] \in S
    BY <1>1, <1>2
  <2> QED
    BY <2>1 DEF Acyclic
<1>3. CASE t \in S
  <2> DEFINE below == Subordinates(m, t) \cup {t}
             rest == S \ below
  <2>1. g \in rest
    BY <1>1, <1>3
  <2>2. ASSUME NEW o \in rest PROVE m[o] \in rest
    <3>1. o \in Officer /\ o # t /\ m[o] \in S
      BY <1>1
    <3>2. m[o] \notin below
      BY <3>1, ReportsAreSubordinates
    <3> QED
      BY <3>1, <3>2
  <2>3. rest \in SUBSET Officer
    OBVIOUS
  <2> HIDE DEF rest
  <2> QED
    BY <2>1, <2>2, <2>3 DEF Acyclic
<1> QED
  BY <1>2, <1>3

-----------------------------------------------------------------------------
(* Steps *)

LEMMA NoJobType == NoJob \in Job
BY OfficerAssumption DEF NoJob, Job

LEMMA InitInv == Init => IInv
<1> SUFFICES ASSUME Init PROVE IInv
  OBVIOUS
<1>1. TypeOK
  BY NoJobType DEF Init, TypeOK, Pc
<1>2. \A w \in Worker : JobWellFormed(w)
  BY DEF Init, JobWellFormed
<1>3. ForestUnlessGuessed
  BY OfficerAssumption DEF Init, ForestUnlessGuessed, Acyclic
<1> QED
  BY <1>1, <1>2, <1>3 DEF IInv

(* A step that leaves the table alone and gives one worker a job.          *)
LEMMA OneJob ==
  ASSUME IInv, NEW w \in Worker, NEW step \in Pc, NEW task \in Job,
         UNCHANGED <<manager, guessed>>,
         pc' = [pc EXCEPT ![w] = step], job' = [job EXCEPT ![w] = task],
         step = "search" => SearchWellFormed(task),
         step = "write" => WriteWellFormed(task),
         step = "answer" => AnswerWellFormed(task)
  PROVE  IInv'
<1>1. TypeOK'
  BY DEF IInv, TypeOK
<1>2. /\ pc'[w] = step /\ job'[w] = task
      /\ \A v \in Worker \ {w} : pc'[v] = pc[v] /\ job'[v] = job[v]
  BY DEF IInv, TypeOK
<1>3. ASSUME NEW v \in Worker PROVE JobWellFormed(v)'
  <2>1. CASE v = w
    BY <1>2, <2>1 DEF JobWellFormed, SearchWellFormed, WriteWellFormed, AnswerWellFormed
  <2>2. CASE v # w
    BY <1>2, <2>2 DEF IInv, JobWellFormed, SearchWellFormed, WriteWellFormed, AnswerWellFormed
  <2> QED
    BY <2>1, <2>2
<1>4. ForestUnlessGuessed'
  BY DEF IInv, ForestUnlessGuessed
<1> QED
  BY <1>1, <1>3, <1>4 DEF IInv

LEMMA EndInv ==
  ASSUME IInv, NEW w \in Worker, End(w), UNCHANGED <<manager, guessed>>
  PROVE  IInv'
<1>1. "idle" \in Pc /\ "idle" \notin {"search", "write", "answer"}
  BY DEF Pc
<1> QED
  BY <1>1, NoJobType, OneJob DEF End

LEMMA AssignInv ==
  ASSUME IInv, NEW w \in Worker, NEW t, NEW m \in Officer \cup {Unknown, Nil}, Assign(w, t, m)
  PROVE  IInv'
<1> DEFINE task == AssignJob(t, m)
           step == IF m = Nil THEN "write" ELSE "search"
<1>1. t \in Officer /\ m \in Officer \cup {Nil} /\ m # t
  BY DEF Assign, MayAssign
<1>2. task \in Job
  BY <1>1, OfficerAssumption DEF AssignJob, Job, IInv, TypeOK
<1>3. step = "search" => SearchWellFormed(task)
  BY <1>1, OfficerAssumption DEF AssignJob, SearchWellFormed
<1>4. step = "write" => WriteWellFormed(task)
  BY <1>1, OfficerAssumption DEF AssignJob, WriteWellFormed, Subordinates
<1>5. step \in Pc /\ step # "answer"
  BY DEF Pc
<1>6. /\ pc' = [pc EXCEPT ![w] = step] /\ job' = [job EXCEPT ![w] = task]
      /\ UNCHANGED <<manager, guessed>>
  BY DEF Assign, Start
<1> HIDE DEF task, step
<1> QED
  BY <1>2, <1>3, <1>4, <1>5, <1>6, OneJob

LEMMA ReadNotesInv ==
  ASSUME IInv, NEW w \in Worker, NEW o \in Supervisor, ReadNotes(w, o)
  PROVE  IInv'
<1> DEFINE task == ReadJob(o)
<1>1. o \in Officer
  BY OfficerAssumption
<1>2. task \in Job
  BY <1>1, OfficerAssumption DEF ReadJob, Job
<1>3. SearchWellFormed(task)
  BY <1>1, OfficerAssumption DEF ReadJob, SearchWellFormed
<1>4. /\ pc' = [pc EXCEPT ![w] = "search"] /\ job' = [job EXCEPT ![w] = task]
      /\ UNCHANGED <<manager, guessed>>
  BY DEF ReadNotes, Start
<1>5. "search" \in Pc
  BY DEF Pc
<1> HIDE DEF task
<1> QED
  BY <1>2, <1>3, <1>4, <1>5, OneJob

(* What a search ends with: all it found are subordinates, and, if it is   *)
(* sure, all of them.                                                      *)
LEMMA FinishInv ==
  ASSUME IInv, NEW w \in Worker, pc[w] = "search", NEW found \in SUBSET Officer,
         NEW sure \in BOOLEAN, UNCHANGED <<manager, guessed>>,
         sure => job[w].sure /\ found = Subordinates(manager, job[w].root),
         Finish(w, job[w], found, sure)
  PROVE  IInv'
<1> DEFINE task == job[w]
<1>1. task \in Job /\ SearchWellFormed(task)
  BY DEF IInv, TypeOK, JobWellFormed
<1>2. ASSUME NEW F \in SUBSET Officer PROVE FoundJob(task, F, sure) \in Job
  BY <1>1, OfficerAssumption DEF FoundJob, Job
<1>3. CASE task.target = Nil
  <2>1. /\ pc' = [pc EXCEPT ![w] = "answer"]
        /\ job' = [job EXCEPT ![w] = FoundJob(task, found, sure)]
    BY <1>3 DEF Finish
  <2>2. AnswerWellFormed(FoundJob(task, found, sure))
    BY DEF AnswerWellFormed, FoundJob
  <2> QED
    BY <1>2, <2>1, <2>2, OneJob DEF Pc
<1>4. CASE task.target # Nil /\ Allowed(task, found)
  <2>1. /\ pc' = [pc EXCEPT ![w] = "write"]
        /\ job' = [job EXCEPT ![w] = FoundJob(task, {}, sure)]
    BY <1>4 DEF Finish
  <2>2. WriteWellFormed(FoundJob(task, {}, sure))
    BY <1>1, <1>4 DEF WriteWellFormed, FoundJob, SearchWellFormed, Allowed
  <2> QED
    BY <1>2, <2>1, <2>2, OneJob DEF Pc
<1>5. CASE task.target # Nil /\ ~Allowed(task, found)
  <2>1. pc' = [pc EXCEPT ![w] = "refused"] /\ job' = [job EXCEPT ![w] = NoJob]
    BY <1>5 DEF Finish
  <2> QED
    BY <2>1, NoJobType, OneJob DEF Pc
<1> QED
  BY <1>3, <1>4, <1>5

LEMMA LevelInv ==
  ASSUME IInv, NEW w \in Worker, Level(w)
  PROVE  IInv'
<1> DEFINE task == job[w]
           new == NewIds(task)
           found == task.found \cup new
<1>1. /\ pc[w] = "search" /\ task \in Job /\ SearchWellFormed(task)
      /\ UNCHANGED <<manager, guessed>>
  BY DEF Level, IInv, TypeOK, JobWellFormed
<1>2. new \in SUBSET Officer /\ found \in SUBSET Officer /\ task.found \in SUBSET Officer
  BY <1>1 DEF NewIds, Job
<1>3. task.sure => found \subseteq Subordinates(manager, task.root)
  <2> SUFFICES ASSUME task.sure, NEW o \in new PROVE o \in Subordinates(manager, task.root)
    BY <1>1 DEF SearchWellFormed
  <2>1. o \in Officer /\ o # task.root /\ manager[o] \in task.found \cup {task.root}
    BY <1>1 DEF NewIds, SearchWellFormed
  <2>2. manager[o] \in Subordinates(manager, task.root) \cup {task.root}
    BY <1>1, <2>1 DEF SearchWellFormed
  <2> QED
    BY <2>1, <2>2, ReportsAreSubordinates
<1>4. task.sure => \A o \in Officer : manager[o] \in task.found \cup {task.root} =>
                                        o \in found \cup {task.root}
  BY <1>1 DEF NewIds, SearchWellFormed
<1>5. CASE new = {} /\ Finish(w, task, task.found, task.sure)
  <2>1. task.sure => ClosedDown(manager, task.found \cup {task.root})
    BY <1>4, <1>5 DEF ClosedDown
  <2>2. task.sure => Subordinates(manager, task.root) \subseteq task.found
    BY <1>1, <1>2, <2>1, ClosedHoldsSubordinates DEF SearchWellFormed
  <2>3. task.sure => task.found = Subordinates(manager, task.root)
    BY <1>3, <2>2
  <2>4. task.sure \in BOOLEAN
    BY <1>1 DEF Job
  <2> QED
    BY <1>1, <1>2, <1>5, <2>3, <2>4, FinishInv
<1>6. CASE Finish(w, task, found, task.sure /\ ClosedDown(manager, found \cup {task.root}))
  <2> DEFINE sure == task.sure /\ ClosedDown(manager, found \cup {task.root})
  <2>1. sure => Subordinates(manager, task.root) \subseteq found
    <3> SUFFICES ASSUME ClosedDown(manager, found \cup {task.root})
                 PROVE  Subordinates(manager, task.root) \subseteq found
      OBVIOUS
    <3>1. task.root \in Officer
      BY <1>1 DEF SearchWellFormed
    <3> HIDE DEF found
    <3> QED
      BY <1>2, <3>1, ClosedHoldsSubordinates
  <2>2. sure => task.sure /\ found = Subordinates(manager, task.root)
    BY <1>3, <2>1
  <2>3. sure \in BOOLEAN
    BY <1>1 DEF Job
  <2> HIDE DEF sure
  <2>4. Finish(w, task, found, sure)
    BY <1>6 DEF sure
  <2> QED
    BY <1>1, <1>2, <2>2, <2>3, <2>4, FinishInv
<1>7. CASE /\ new # {} /\ task.depth + 1 < MaxChainDepth
           /\ job' = [job EXCEPT ![w] = DeeperJob(task, new)] /\ UNCHANGED pc
  <2> DEFINE next == DeeperJob(task, new)
  <2>1. /\ next.root = task.root /\ next.target = task.target /\ next.manager = task.manager
        /\ next.loaded = task.loaded /\ next.found = found /\ next.frontier = new
        /\ next.depth = task.depth + 1 /\ next.sure = task.sure
    BY DEF DeeperJob
  <2>2. task.depth + 1 \in 0..MaxChainDepth
    BY <1>1, <1>7, OfficerAssumption DEF Job
  <2>3. next \in Job
    BY <1>1, <1>2, <2>2 DEF DeeperJob, Job
  <2> HIDE DEF next
  <2>4. task.root \notin found
    BY <1>1 DEF SearchWellFormed, NewIds
  <2>5. task.sure => \A o \in Officer :
          manager[o] \in (found \cup {task.root}) \ new => o \in found \cup {task.root}
    BY <1>4
  <2>6. SearchWellFormed(next)
    BY <1>1, <1>3, <1>7, <2>1, <2>4, <2>5 DEF SearchWellFormed
  <2>7. pc' = [pc EXCEPT ![w] = "search"]
    BY <1>1, <1>7 DEF IInv, TypeOK
  <2>8. job' = [job EXCEPT ![w] = next]
    BY <1>7 DEF next
  <2> QED
    BY <1>1, <2>3, <2>6, <2>7, <2>8, OneJob DEF Pc
<1> QED
  BY <1>5, <1>6, <1>7 DEF Level

(* The UPDATE: whoever is sure keeps the forest, whoever is not has        *)
(* guessed, and the others are not sure any more.                          *)
LEMMA WriteInv ==
  ASSUME IInv, NEW w \in Worker, Write(w)
  PROVE  IInv'
<1> DEFINE task == job[w]
           value == Written(task.loaded, task.manager, manager[task.target])
           changed == manager' # manager
<1>1. pc[w] = "write" /\ task \in Job /\ WriteWellFormed(task)
  BY DEF Write, IInv, TypeOK, JobWellFormed
<1>2. /\ manager' = [manager EXCEPT ![task.target] = value]
      /\ guessed' = (guessed \/ ~task.sure)
      /\ pc' = [pc EXCEPT ![w] = "idle"]
      /\ job' = [v \in Worker |-> IF v = w THEN NoJob ELSE Noticed(job[v], changed)]
  BY DEF Write
<1>3. task.target \in Officer /\ task.manager \in Officer \cup {Nil} /\ value \in Officer \cup {Nil}
  BY <1>1 DEF WriteWellFormed, Written, Job, IInv, TypeOK
<1>4. ASSUME NEW v \in Worker, v # w
      PROVE  /\ job'[v] \in Job
             /\ job'[v].sure => ~changed
             /\ ~changed => job'[v] = job[v]
             /\ job'[v].root = job[v].root /\ job'[v].target = job[v].target
             /\ job'[v].manager = job[v].manager /\ job'[v].found = job[v].found
             /\ job'[v].frontier = job[v].frontier /\ job'[v].depth = job[v].depth
  <2>1. job[v] \in Job /\ job'[v] = Noticed(job[v], changed)
    BY <1>2, <1>4 DEF IInv, TypeOK
  <2>2. changed \in BOOLEAN /\ job[v].sure \in BOOLEAN
    BY <2>1 DEF Job
  <2> HIDE DEF changed
  <2>3. (job[v].sure /\ ~changed) \in BOOLEAN
    BY <2>2
  <2>4. ~changed => (job[v].sure /\ ~changed) = job[v].sure
    BY <2>2
  <2>5. job'[v] = [job[v] EXCEPT !.sure = job[v].sure /\ ~changed]
    BY <2>1 DEF Noticed
  <2>6. job'[v] \in Job
    BY <2>1, <2>3, <2>5 DEF Job
  <2>7. job'[v].sure => ~changed
    BY <2>1, <2>2, <2>5 DEF Job
  <2>8. ~changed => job'[v] = job[v]
    BY <2>1, <2>4, <2>5 DEF Job
  <2> QED
    BY <2>1, <2>5, <2>6, <2>7, <2>8 DEF Job
<1>5. TypeOK'
  <2>1. manager' \in [Officer -> Officer \cup {Nil}]
    BY <1>2, <1>3 DEF IInv, TypeOK
  <2>2. job' \in [Worker -> Job]
    BY <1>2, <1>4, NoJobType
  <2>3. pc' \in [Worker -> Pc] /\ guessed' \in BOOLEAN
    BY <1>1, <1>2 DEF IInv, TypeOK, Pc, Job
  <2> QED
    BY <2>1, <2>2, <2>3 DEF TypeOK
<1>6. ASSUME NEW v \in Worker PROVE JobWellFormed(v)'
  <2>1. pc'[w] = "idle" /\ \A u \in Worker \ {w} : pc'[u] = pc[u]
    BY <1>2 DEF IInv, TypeOK
  <2>2. CASE v = w
    BY <2>1, <2>2 DEF JobWellFormed
  <2>3. CASE v # w /\ ~changed
    BY <1>4, <2>1, <2>3 DEF IInv, JobWellFormed, SearchWellFormed, WriteWellFormed,
       AnswerWellFormed
  <2>4. CASE v # w /\ changed
    <3>1. ~job'[v].sure
      BY <1>4, <2>4
    <3> QED
      BY <1>4, <2>1, <2>4, <3>1 DEF IInv, JobWellFormed, SearchWellFormed, WriteWellFormed,
         AnswerWellFormed
  <2> QED
    BY <2>2, <2>3, <2>4
<1>7. ForestUnlessGuessed'
  <2> SUFFICES ASSUME ~guessed' PROVE Acyclic(manager')
    BY DEF ForestUnlessGuessed
  <2>1. Acyclic(manager) /\ task.sure
    BY <1>1, <1>2 DEF IInv, ForestUnlessGuessed, Job
  <2>2. value = task.manager
    BY <1>1, <2>1 DEF Written, WriteWellFormed
  <2>3. task.manager # task.target /\ task.manager \notin Subordinates(manager, task.target)
    BY <1>1, <2>1 DEF WriteWellFormed
  <2>4. manager \in [Officer -> Officer \cup {Nil}]
    BY DEF IInv, TypeOK
  <2> HIDE DEF task, value
  <2> QED
    BY <1>2, <1>3, <2>1, <2>2, <2>3, <2>4, AssignKeepsForest
<1> QED
  BY <1>5, <1>6, <1>7 DEF IInv

LEMMA NextInv == IInv /\ [Next]_vars => IInv'
<1> SUFFICES ASSUME IInv, [Next]_vars PROVE IInv'
  OBVIOUS
<1>1. ASSUME NEW w \in Worker, Begin(w) PROVE IInv'
  <2>1. ASSUME NEW t \in Officer \cup {Unknown}, NEW m \in Officer \cup {Unknown, Nil},
               Reject(w, t, m)
        PROVE  IInv'
    BY <2>1, NoJobType, OneJob DEF Reject, Start, Pc
  <2> QED
    BY <1>1, <2>1, AssignInv, ReadNotesInv DEF Begin
<1>2. ASSUME NEW w \in Worker, Answer(w) \/ ConnectionLost(w) PROVE IInv'
  BY <1>2, EndInv DEF Answer, ConnectionLost
<1>3. CASE UNCHANGED vars
  BY <1>3 DEF vars, IInv, TypeOK, JobWellFormed, SearchWellFormed, WriteWellFormed,
     AnswerWellFormed, ForestUnlessGuessed
<1> QED
  BY <1>1, <1>2, <1>3, LevelInv, WriteInv DEF Next

-----------------------------------------------------------------------------
(* Theorems *)

(* In every reachable state searches and assignments are well formed,      *)
(* whatever requests overlap.                                              *)
THEOREM Invariance == Spec => []IInv
BY InitInv, NextInv, PTL DEF Spec

(* The table and the sessions are always of their types.                   *)
THEOREM Typing == Spec => []TypeOK
<1>1. IInv => TypeOK
  BY DEF IInv
<1> QED
  BY Invariance, <1>1, PTL

(* The hierarchy is a forest until an assignment is committed whose search *)
(* the table outran or the bound cut off, however many officers there are. *)
THEOREM AssignmentsKeepForest == Spec => []ForestUnlessGuessed
<1>1. IInv => ForestUnlessGuessed
  BY DEF IInv
<1> QED
  BY Invariance, <1>1, PTL

(* A search that nothing disturbed finds exactly the transitive reports.   *)
THEOREM SearchesAreExact == Spec => []SearchExact
<1>1. IInv => SearchExact
  BY DEF IInv, JobWellFormed, AnswerWellFormed, SearchExact
<1> QED
  BY Invariance, <1>1, PTL

=============================================================================
