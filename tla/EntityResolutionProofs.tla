----------------------- MODULE EntityResolutionProofs -----------------------
(* Proofs about EntityResolution, for any number of people, threads and    *)
(* merge events.                                                           *)
EXTENDS EntityResolution, TLAPS

LEMMA NilTypes == NoJob \in Job /\ NoEvent \in EventRow
BY DEF NoJob, Job, NoEvent, EventRow

LEMMA StampedFacts ==
  ASSUME NEW row \in EventRow
  PROVE  /\ Stamped(row) \in EventRow /\ Stamped(row).status = "reversed"
         /\ Stamped(row).primary = row.primary /\ Stamped(row).absorbed = row.absorbed
BY DEF Stamped, EventRow

(* A request that ends leaves the others where they are and holds no row.  *)
LEMMA EndFacts ==
  ASSUME NEW w \in Request, TypeOK, End(w)
  PROVE  /\ pc' \in [Request -> Pc] /\ job' \in [Request -> Job]
         /\ seen' \in [Request -> [primary : PersonRow \cup {Nil},
                                   absorbed : PersonRow \cup {Nil}]]
         /\ lock' \in [Person -> Request \cup {Nil}]
         /\ pc'[w] = "idle"
         /\ \A v \in Request \ {w} : /\ pc'[v] = pc[v] /\ job'[v] = job[v]
                                     /\ seen'[v] = seen[v]
         /\ \A v \in Request \ {w}, p \in Person : lock[p] = v => lock'[p] = v
<1>1. pc' \in [Request -> Pc] /\ pc'[w] = "idle" /\ \A v \in Request \ {w} : pc'[v] = pc[v]
  BY DEF End, TypeOK, Pc
<1>2. job' \in [Request -> Job] /\ \A v \in Request \ {w} : job'[v] = job[v]
  BY NilTypes DEF End, TypeOK
<1>3. /\ seen' \in [Request -> [primary : PersonRow \cup {Nil},
                                absorbed : PersonRow \cup {Nil}]]
      /\ \A v \in Request \ {w} : seen'[v] = seen[v]
  BY DEF End, TypeOK
<1>4. /\ lock' \in [Person -> Request \cup {Nil}]
      /\ \A v \in Request \ {w}, p \in Person : lock[p] = v => lock'[p] = v
  BY DEF End, TypeOK
<1> QED
  BY <1>1, <1>2, <1>3, <1>4

(* Nothing but the ending request changes: the invariant is about the rest. *)
LEMMA RollbackInv ==
  ASSUME NEW w \in Request, IInv, Rollback(w)
  PROVE  IInv'
<1> USE DEF IInv, Rollback
<1>1. TypeOK'
  BY EndFacts DEF TypeOK
<1>2. JobsWellFormed'
  BY EndFacts DEF JobsWellFormed, MergePc
<1>3. LockedRowsCurrent'
  BY EndFacts DEF JobsWellFormed, LockedRowsCurrent, MergePc
<1>4. (EventsWellFormed /\ OneActiveEvent /\ HiddenByActiveMerge)'
  BY DEF EventsWellFormed, OneActiveEvent, HiddenByActiveMerge, Active
<1>5. SkippedPointerIsClear'
  BY EndFacts DEF SkippedPointerIsClear, Active
<1> QED
  BY <1>1, <1>2, <1>3, <1>4, <1>5

LEMMA InitInv == Init => IInv
<1> SUFFICES ASSUME Init PROVE IInv
  OBVIOUS
<1>1. person \in [Person -> PersonRow] /\ \A p \in Person : person[p].mergedInto = Nil
  BY InitRowsAssumption DEF Init
<1>2. TypeOK
  BY <1>1, NilTypes DEF Init, TypeOK, Pc
<1> QED
  BY <1>1, <1>2 DEF Init, IInv, JobsWellFormed, LockedRowsCurrent, EventsWellFormed,
     OneActiveEvent, SkippedPointerIsClear, HiddenByActiveMerge, Active, NoEvent, MergePc

(* A request that starts touches neither rows nor events.                  *)
LEMMA StartInv ==
  ASSUME NEW w \in Request, IInv, NEW step \in Pc, NEW task \in Job, Start(w, step, task),
         step \in MergePc => /\ task.primary \in Person /\ task.absorbed \in Person
                             /\ task.primary # task.absorbed,
         step = "tagWrite" => task.primary \in Person,
         step = "readAbsorbed" => /\ task.event \in EventId
                                  /\ event[task.event].status # "none"
                                  /\ task.primary = event[task.event].primary
                                  /\ task.absorbed = event[task.event].absorbed,
         step \notin {"lockAbsorbed", "mergeWrite", "reverseWrite"}
  PROVE  IInv'
<1> USE DEF IInv, Start
<1>1. /\ pc' = [pc EXCEPT ![w] = step] /\ job' = [job EXCEPT ![w] = task]
      /\ pc \in [Request -> Pc] /\ job \in [Request -> Job]
  BY DEF TypeOK
<1>2. TypeOK'
  BY <1>1 DEF TypeOK
<1>3. JobsWellFormed'
  BY <1>1 DEF JobsWellFormed
<1>4. LockedRowsCurrent'
  BY <1>1 DEF LockedRowsCurrent
<1>5. (EventsWellFormed /\ OneActiveEvent /\ HiddenByActiveMerge)'
  BY DEF EventsWellFormed, OneActiveEvent, HiddenByActiveMerge, Active
<1>6. SkippedPointerIsClear'
  BY <1>1 DEF SkippedPointerIsClear, Active
<1> QED
  BY <1>2, <1>3, <1>4, <1>5, <1>6

LEMMA ArriveInv ==
  ASSUME NEW w \in Request, IInv, Arrive(w)
  PROVE  IInv'
<1>1. ASSUME NEW p \in Person, NEW a \in Person, MergeStart(w, p, a)
      PROVE  IInv'
  <2> DEFINE task == [NoJob EXCEPT !.primary = p, !.absorbed = a]
  <2>1. task \in Job /\ task.primary = p /\ task.absorbed = a
    BY DEF NoJob, Job
  <2>2. p # a /\ Start(w, "lockPrimary", task)
    BY <1>1 DEF MergeStart
  <2> HIDE DEF task
  <2> QED
    BY <2>1, <2>2, StartInv DEF Pc, MergePc
<1>2. ASSUME NEW e \in EventId, ReverseStart(w, e)
      PROVE  IInv'
  <2> DEFINE task == [NoJob EXCEPT !.event = e, !.primary = event[e].primary,
                                   !.absorbed = event[e].absorbed]
  <2>1. event[e] \in EventRow
    BY DEF IInv, TypeOK
  <2>2. /\ task \in Job /\ task.event = e
        /\ task.primary = event[e].primary /\ task.absorbed = event[e].absorbed
    BY <2>1 DEF NoJob, Job, EventRow
  <2>3. event[e].status # "none" /\ Start(w, "readAbsorbed", task)
    BY <1>2 DEF ReverseStart, Active
  <2> HIDE DEF task
  <2> QED
    BY <2>2, <2>3, StartInv DEF Pc, MergePc
<1>3. ASSUME NEW p \in Person, NEW v \in BOOLEAN, TagStart(w, p, v)
      PROVE  IInv'
  <2> DEFINE task == [NoJob EXCEPT !.primary = p, !.flag = v]
  <2>1. task \in Job /\ task.primary = p
    BY DEF NoJob, Job
  <2>2. Start(w, "tagWrite", task)
    BY <1>3 DEF TagStart
  <2> HIDE DEF task
  <2> QED
    BY <2>1, <2>2, StartInv DEF Pc, MergePc
<1> QED
  BY <1>1, <1>2, <1>3 DEF Arrive

(* Taking a row: it was free, so nobody else's reading of it is at stake.  *)
LEMMA AcquireInv ==
  ASSUME NEW w \in Request, IInv, Acquire(w)
  PROVE  IInv'
<1> USE DEF IInv
<1>1. (EventsWellFormed /\ OneActiveEvent /\ HiddenByActiveMerge)'
  BY DEF EventsWellFormed, OneActiveEvent, HiddenByActiveMerge, Active, Acquire,
         LockPrimary, LockAbsorbed
<1>2. CASE LockPrimary(w)
  <2> DEFINE p == job[w].primary
  <2>1. p \in Person /\ job[w].absorbed \in Person /\ p # job[w].absorbed
    BY <1>2 DEF LockPrimary, JobsWellFormed, MergePc
  <2>2. /\ pc \in [Request -> Pc] /\ lock \in [Person -> Request \cup {Nil}]
        /\ person[p] \in PersonRow
    BY <2>1 DEF TypeOK
  <2>3. /\ pc' = [pc EXCEPT ![w] = "lockAbsorbed"] /\ lock' = [lock EXCEPT ![p] = w]
        /\ seen' = [seen EXCEPT ![w].primary = person[p]]
        /\ UNCHANGED <<person, event, job>> /\ pc[w] = "lockPrimary"
        /\ lock[p] \in {Nil, w}
    BY <1>2 DEF LockPrimary, CanUpdate
  <2> HIDE DEF p
  <2>4. TypeOK'
    BY <2>1, <2>2, <2>3 DEF TypeOK, Pc, MergePc
  <2>5. JobsWellFormed'
    BY <2>2, <2>3 DEF JobsWellFormed, MergePc
  <2>6. LockedRowsCurrent'
    BY <2>1, <2>2, <2>3, NilAssumption DEF LockedRowsCurrent, JobsWellFormed, TypeOK, MergePc, p
  <2>7. SkippedPointerIsClear'
    BY <2>2, <2>3 DEF SkippedPointerIsClear, Active
  <2> QED
    BY <1>1, <2>4, <2>5, <2>6, <2>7
<1>3. CASE LockAbsorbed(w)
  <2> DEFINE a == job[w].absorbed
  <2>1. a \in Person /\ job[w].primary \in Person /\ a # job[w].primary
    BY <1>3 DEF LockAbsorbed, JobsWellFormed, MergePc
  <2>2. /\ pc \in [Request -> Pc] /\ lock \in [Person -> Request \cup {Nil}]
        /\ person[a] \in PersonRow
    BY <2>1 DEF TypeOK
  <2>3. /\ pc' = [pc EXCEPT ![w] = "mergeWrite"] /\ lock' = [lock EXCEPT ![a] = w]
        /\ seen' = [seen EXCEPT ![w].absorbed = person[a]]
        /\ UNCHANGED <<person, event, job>> /\ pc[w] = "lockAbsorbed"
        /\ lock[a] \in {Nil, w}
    BY <1>3 DEF LockAbsorbed, CanUpdate
  <2> HIDE DEF a
  <2>4. TypeOK'
    BY <2>1, <2>2, <2>3 DEF TypeOK, Pc, MergePc
  <2>5. JobsWellFormed'
    BY <2>2, <2>3 DEF JobsWellFormed, MergePc
  <2>6. LockedRowsCurrent'
    BY <2>1, <2>2, <2>3, NilAssumption DEF LockedRowsCurrent, JobsWellFormed, TypeOK, MergePc, a
  <2>7. SkippedPointerIsClear'
    BY <2>2, <2>3 DEF SkippedPointerIsClear, Active
  <2> QED
    BY <1>1, <2>4, <2>5, <2>6, <2>7
<1> QED
  BY <1>2, <1>3 DEF Acquire

(* The decision of a reversal: if it found no pointer to its primary while *)
(* its event is in force, there is no pointer, for the only merge that     *)
(* could have set one is that event.                                       *)
LEMMA ReadAbsorbedInv ==
  ASSUME NEW w \in Request, IInv, ReadAbsorbed(w)
  PROVE  IInv'
<1> USE DEF IInv
<1> DEFINE a == job[w].absorbed
           found == (person[a].mergedInto = job[w].primary)
<1>1. /\ pc[w] = "readAbsorbed" /\ pc' = [pc EXCEPT ![w] = "reverseWrite"]
      /\ job' = [job EXCEPT ![w].flag = found]
      /\ UNCHANGED <<person, event, lock, seen>>
      /\ pc \in [Request -> Pc] /\ job \in [Request -> Job]
  BY DEF ReadAbsorbed, PointsToPrimary, TypeOK
<1>2. /\ job[w].event \in EventId /\ event[job[w].event].status # "none"
      /\ job[w].primary = event[job[w].event].primary
      /\ a = event[job[w].event].absorbed /\ a \in Person
  BY <1>1 DEF JobsWellFormed, EventsWellFormed
<1>3. /\ job' \in [Request -> Job]
      /\ job'[w].flag = found /\ job'[w].event = job[w].event
      /\ job'[w].primary = job[w].primary /\ job'[w].absorbed = a
      /\ \A v \in Request \ {w} : job'[v] = job[v]
  BY <1>1 DEF Job
<1>4. TypeOK'
  BY <1>1, <1>3 DEF TypeOK, Pc
<1>5. JobsWellFormed' /\ LockedRowsCurrent'
  BY <1>1, <1>2, <1>3, ZenonT(40) DEF JobsWellFormed, LockedRowsCurrent, MergePc
<1>6. (EventsWellFormed /\ OneActiveEvent /\ HiddenByActiveMerge)'
  BY <1>1 DEF EventsWellFormed, OneActiveEvent, HiddenByActiveMerge, Active
<1>7. (~found /\ Active(job[w].event)) => person[a].mergedInto = Nil
  <2> SUFFICES ASSUME ~found, Active(job[w].event), person[a].mergedInto # Nil
               PROVE  FALSE
    OBVIOUS
  <2>1. PICK e \in EventId : /\ Active(e) /\ event[e].absorbed = a
                             /\ event[e].primary = person[a].mergedInto
    BY <1>2 DEF HiddenByActiveMerge
  <2>2. e = job[w].event
    BY <1>2, <2>1 DEF OneActiveEvent
  <2> QED
    BY <1>2, <2>1, <2>2
<1>8. SkippedPointerIsClear'
  BY <1>1, <1>3, <1>7 DEF SkippedPointerIsClear, Active
<1> QED
  BY <1>4, <1>5, <1>6, <1>8

(* A reversal's write. Rows that a merge has locked are not among those it *)
(* may update, and whoever stays hidden is hidden by another event.        *)
LEMMA ReverseWriteInv ==
  ASSUME NEW w \in Request, IInv, ReverseWrite(w)
  PROVE  IInv'
<1> USE DEF IInv
<1> DEFINE a == job[w].absorbed
           e == job[w].event
<1>1. pc[w] = "reverseWrite" /\ End(w)
  BY DEF ReverseWrite
<1>2. /\ e \in EventId /\ event[e].status # "none"
      /\ a = event[e].absorbed /\ a \in Person /\ event[e] \in EventRow
  BY <1>1 DEF JobsWellFormed, EventsWellFormed, TypeOK
<1>3. /\ event' \in [EventId -> EventRow]
      /\ event'[e].status = "reversed" /\ event'[e].primary = event[e].primary
      /\ event'[e].absorbed = a
      /\ \A f \in EventId \ {e} : event'[f] = event[f]
  <2>1. event' = [event EXCEPT ![e] = Stamped(event[e])]
    BY DEF ReverseWrite
  <2> HIDE DEF e, a
  <2> QED
    BY <1>2, <2>1, StampedFacts DEF TypeOK
<1>4. /\ person' \in [Person -> PersonRow]
      /\ \A p \in Person \ {a} : person'[p] = person[p]
      /\ person'[a] # person[a] => lock[a] \in {Nil, w}
      /\ person'[a].mergedInto # Nil => person'[a] = person[a] /\ ~job[w].flag
      /\ \A p \in Person : person'[p].mergedInto \in {person[p].mergedInto, Nil}
  <2>1. CASE job[w].flag
    <3>1. person' = [person EXCEPT ![a].mergedInto = Nil] /\ lock[a] \in {Nil, w}
      BY <2>1 DEF ReverseWrite, CanUpdate
    <3>2. person[a] \in PersonRow
      BY <1>2 DEF TypeOK
    <3> HIDE DEF a
    <3> QED
      BY <3>1, <3>2, <1>2 DEF TypeOK, PersonRow
  <2>2. CASE ~job[w].flag
    BY <2>2 DEF ReverseWrite, TypeOK
  <2> QED
    BY <2>1, <2>2
<1> HIDE DEF a, e
<1>5. TypeOK'
  BY <1>1, <1>3, <1>4, EndFacts DEF TypeOK
<1>6. JobsWellFormed'
  <2>1. \A f \in EventId : event[f].status # "none" =>
           /\ event'[f].status # "none" /\ event'[f].primary = event[f].primary
           /\ event'[f].absorbed = event[f].absorbed
    BY <1>2, <1>3
  <2> QED
    BY <1>1, <2>1, EndFacts DEF JobsWellFormed, MergePc
<1>7. LockedRowsCurrent'
  <2>1. \A p \in Person, v \in Request \ {w} : lock[p] = v => person'[p] = person[p]
    BY <1>4, NilAssumption
  <2>2. ASSUME NEW v \in Request, pc'[v] \in {"lockAbsorbed", "mergeWrite"}
        PROVE  /\ v # w /\ pc'[v] = pc[v] /\ job'[v] = job[v] /\ seen'[v] = seen[v]
               /\ job[v].primary \in Person /\ job[v].absorbed \in Person
               /\ \A p \in Person : lock[p] = v => lock'[p] = v /\ person'[p] = person[p]
    <3>1. v # w
      BY <1>1, <2>2, EndFacts
    <3>2. pc'[v] = pc[v] /\ job'[v] = job[v] /\ seen'[v] = seen[v]
      BY <1>1, <3>1, EndFacts
    <3>3. job[v].primary \in Person /\ job[v].absorbed \in Person
      BY <2>2, <3>2 DEF JobsWellFormed, MergePc
    <3> QED
      BY <1>1, <2>1, <3>1, <3>2, <3>3, EndFacts
  <2> QED
    BY <2>2 DEF LockedRowsCurrent
<1>8. EventsWellFormed'
  <2>1. event[e].primary \in Person
    BY <1>2 DEF EventsWellFormed
  <2> QED
    BY <1>2, <1>3, <2>1 DEF EventsWellFormed
<1>9. OneActiveEvent'
  BY <1>2, <1>3 DEF OneActiveEvent, Active
<1>10. SkippedPointerIsClear'
  <2> SUFFICES ASSUME NEW v \in Request, pc'[v] = "reverseWrite", ~job'[v].flag,
                      event'[job'[v].event].status = "active"
               PROVE  person'[job'[v].absorbed].mergedInto = Nil
    BY DEF SkippedPointerIsClear, Active
  <2>1. v # w /\ pc[v] = "reverseWrite" /\ job'[v] = job[v]
    BY <1>1, EndFacts
  <2>2. job[v].event \in EventId /\ job[v].absorbed \in Person
    BY <2>1 DEF JobsWellFormed, EventsWellFormed
  <2>3. Active(job[v].event)
    BY <1>3, <2>1, <2>2 DEF Active
  <2> QED
    BY <1>4, <2>1, <2>2, <2>3 DEF SkippedPointerIsClear
<1>11. HiddenByActiveMerge'
  <2> SUFFICES ASSUME NEW b \in Person, person'[b].mergedInto # Nil
               PROVE  \E f \in EventId : /\ event'[f].status = "active"
                                          /\ event'[f].absorbed = b
                                          /\ event'[f].primary = person'[b].mergedInto
    BY DEF HiddenByActiveMerge, Active
  <2>1. person'[b].mergedInto = person[b].mergedInto
    BY <1>4
  <2>2. PICK f \in EventId : /\ Active(f) /\ event[f].absorbed = b
                             /\ event[f].primary = person[b].mergedInto
    BY <2>1 DEF HiddenByActiveMerge
  <2>3. f # e
    <3> SUFFICES ASSUME f = e PROVE FALSE
      OBVIOUS
    <3>1. b = a /\ ~job[w].flag
      BY <1>2, <1>4, <2>2
    <3>2. person[a].mergedInto = Nil
      BY <1>1, <2>2, <3>1 DEF SkippedPointerIsClear, a, e
    <3> QED
      BY <2>1, <3>1, <3>2
  <2> QED
    BY <1>3, <2>1, <2>2, <2>3 DEF Active
<1> QED
  BY <1>5, <1>6, <1>7, <1>8, <1>9, <1>10, <1>11

LEMMA TagWriteInv ==
  ASSUME NEW w \in Request, IInv, TagWrite(w)
  PROVE  IInv'
<1> USE DEF IInv
<1> DEFINE p == job[w].primary
<1>1. /\ pc[w] = "tagWrite" /\ End(w) /\ UNCHANGED event
      /\ person' = [person EXCEPT ![p].protected = job[w].flag]
      /\ lock[p] \in {Nil, w} /\ p \in Person
      /\ person[p] \in PersonRow /\ job[w].flag \in BOOLEAN
  BY DEF TagWrite, CanUpdate, JobsWellFormed, TypeOK, Job
<1> HIDE DEF p
<1>2. /\ person' \in [Person -> PersonRow]
      /\ \A q \in Person \ {p} : person'[q] = person[q]
      /\ \A q \in Person : person'[q].mergedInto = person[q].mergedInto
  BY <1>1 DEF TypeOK, PersonRow
<1>3. TypeOK'
  BY <1>1, <1>2, EndFacts DEF TypeOK
<1>4. JobsWellFormed'
  BY <1>1, EndFacts DEF JobsWellFormed, MergePc
<1>5. LockedRowsCurrent'
  <2>1. \A q \in Person, v \in Request \ {w} : lock[q] = v => person'[q] = person[q]
    BY <1>1, <1>2, NilAssumption
  <2> QED
    BY <1>1, <2>1, EndFacts, SMTT(30) DEF LockedRowsCurrent, JobsWellFormed, MergePc
<1>6. EventsWellFormed' /\ OneActiveEvent' /\ HiddenByActiveMerge'
  BY <1>1, <1>2 DEF EventsWellFormed, OneActiveEvent, HiddenByActiveMerge, Active
<1>7. SkippedPointerIsClear'
  BY <1>1, <1>2, EndFacts
  DEF SkippedPointerIsClear, Active, JobsWellFormed, EventsWellFormed
<1> QED
  BY <1>3, <1>4, <1>5, <1>6, <1>7


(* The survivor's new row covers both rows it was computed from.           *)
LEMMA SurvivorFacts ==
  ASSUME NEW p \in Person, NEW a \in Person,
         NEW mine \in PersonRow, NEW theirs \in PersonRow
  PROVE  LET new == SurvivorRow(mine, p, a, mine, theirs)
         IN  /\ new \in PersonRow
             /\ new.mergedInto = mine.mergedInto /\ new.protected = mine.protected
             /\ mine.rank <= new.rank /\ theirs.rank <= new.rank
             /\ mine.aliases \subseteq new.aliases /\ theirs.aliases \subseteq new.aliases
             /\ FullName[a] \in new.aliases \cup {FullName[p]}
             /\ (mine.dob # Nil \/ theirs.dob # Nil) => new.dob # Nil
<1> DEFINE r == HigherRank(mine.rank, theirs.rank)
           d == MergeField(mine.dob, theirs.dob, CreatedAt[p] > CreatedAt[a])
           s == MergeAliases(p, a, mine, theirs)
<1>1. r \in Ranks /\ mine.rank <= r /\ theirs.rank <= r
  <2>1. mine.rank \in Ranks /\ theirs.rank \in Ranks
    BY DEF PersonRow
  <2>2. mine.rank \in Nat /\ theirs.rank \in Nat
    BY <2>1, DataAssumption
  <2> HIDE DEF r
  <2>3. r = IF mine.rank >= theirs.rank THEN mine.rank ELSE theirs.rank
    BY DEF HigherRank, r
  <2> QED
    BY <2>1, <2>2, <2>3
<1>2. d \in Dobs \cup {Nil} /\ ((mine.dob # Nil \/ theirs.dob # Nil) => d # Nil)
  BY DEF MergeField, PersonRow
<1>3. /\ s \in SUBSET Name
      /\ mine.aliases \subseteq s /\ theirs.aliases \subseteq s
      /\ FullName[a] \in s \cup {FullName[p]}
  BY DataAssumption DEF MergeAliases, PersonRow
<1>4. SurvivorRow(mine, p, a, mine, theirs) =
        [mergedInto |-> mine.mergedInto, protected |-> mine.protected,
         rank |-> r, dob |-> d, aliases |-> s]
  BY Zenon DEF SurvivorRow
<1> HIDE DEF r, d, s
<1>5. mine.mergedInto \in Person \cup {Nil} /\ mine.protected \in BOOLEAN
  BY DEF PersonRow
<1>6. SurvivorRow(mine, p, a, mine, theirs) \in PersonRow
  BY <1>1, <1>2, <1>3, <1>4, <1>5 DEF PersonRow
<1> QED
  BY <1>1, <1>2, <1>3, <1>4, <1>6

(* What the write of a merge finds and leaves in the two rows it locked.   *)
LEMMA MergeWriteFacts ==
  ASSUME NEW w \in Request, IInv, MergeWrite(w)
  PROVE  LET p == job[w].primary
             a == job[w].absorbed
         IN  /\ p \in Person /\ a \in Person /\ p # a
             /\ lock[p] = w /\ lock[a] = w
             /\ MayMerge(person[p], person[a]) /\ IndexFree(a)
             /\ person' \in [Person -> PersonRow]
             /\ person'[p] = SurvivorRow(person[p], p, a, person[p], person[a])
             /\ person'[a] = [person[a] EXCEPT !.mergedInto = p]
             /\ \A q \in Person \ {p, a} : person'[q] = person[q]
<1> DEFINE p == job[w].primary
           a == job[w].absorbed
           new == SurvivorRow(person[p], p, a, person[p], person[a])
           hidden == [person[a] EXCEPT !.mergedInto = p]
<1>1. pc[w] = "mergeWrite" /\ MayMerge(seen[w].primary, seen[w].absorbed) /\ IndexFree(a)
  BY DEF MergeWrite
<1>2. /\ p \in Person /\ a \in Person /\ p # a
      /\ lock[p] = w /\ lock[a] = w
      /\ seen[w].primary = person[p] /\ seen[w].absorbed = person[a]
  BY <1>1 DEF IInv, JobsWellFormed, LockedRowsCurrent, MergePc
<1>3. person' = [person EXCEPT ![p] = new, ![a] = hidden]
  <2>1. person' = [person EXCEPT ![p] = SurvivorRow(@, p, a, seen[w].primary, seen[w].absorbed),
                                 ![a].mergedInto = p]
    BY Zenon DEF MergeWrite
  <2> HIDE DEF p, a
  <2> QED
    BY <1>2, <2>1 DEF IInv, TypeOK
<1>4. new \in PersonRow /\ hidden \in PersonRow
  <2>1. person[p] \in PersonRow /\ person[a] \in PersonRow
    BY <1>2 DEF IInv, TypeOK
  <2>2. new \in PersonRow
    BY <1>2, <2>1, SurvivorFacts
  <2> HIDE DEF p, a
  <2>3. hidden \in PersonRow
    BY <1>2, <2>1 DEF PersonRow
  <2> QED
    BY <2>2, <2>3
<1> HIDE DEF p, a, new, hidden
<1>5. /\ person' \in [Person -> PersonRow] /\ person'[p] = new /\ person'[a] = hidden
      /\ \A q \in Person \ {p, a} : person'[q] = person[q]
  BY <1>2, <1>3, <1>4 DEF IInv, TypeOK
<1> QED
  BY <1>1, <1>2, <1>5 DEF p, a, new, hidden


(* The event a merge inserts.                                              *)
LEMMA MergeEventFacts ==
  ASSUME NEW w \in Request, IInv, MergeWrite(w)
  PROVE  \E e \in EventId :
           /\ event[e].status = "none"
           /\ event' \in [EventId -> EventRow]
           /\ event'[e].status = "active"
           /\ event'[e].primary = job[w].primary
           /\ event'[e].absorbed = job[w].absorbed
           /\ \A f \in EventId \ {e} : event'[f] = event[f]
<1> DEFINE row == NewEvent(job[w].primary, job[w].absorbed)
<1>1. PICK e \in EventId : NextEvent(e) /\ event' = [event EXCEPT ![e] = row]
  BY Zenon DEF MergeWrite
<1>2. row \in EventRow
  BY MergeWriteFacts DEF EventRow, NewEvent
<1>3. event[e].status = "none"
  BY <1>1 DEF NextEvent
<1>4. row.status = "active" /\ row.primary = job[w].primary /\ row.absorbed = job[w].absorbed
  BY DEF NewEvent
<1> HIDE DEF row
<1>5. /\ event' \in [EventId -> EventRow] /\ event'[e] = row
      /\ \A f \in EventId \ {e} : event'[f] = event[f]
  BY <1>1, <1>2 DEF IInv, TypeOK
<1> QED
  BY <1>3, <1>4, <1>5

LEMMA MergeWriteInv ==
  ASSUME NEW w \in Request, IInv, MergeWrite(w)
  PROVE  IInv'
<1> USE DEF IInv
<1> DEFINE p == job[w].primary
           a == job[w].absorbed
<1>1. pc[w] = "mergeWrite" /\ End(w)
  BY DEF MergeWrite
<1>2. /\ p \in Person /\ a \in Person /\ p # a
      /\ lock[p] = w /\ lock[a] = w
      /\ person[p].mergedInto = Nil /\ person[a].mergedInto = Nil
      /\ IndexFree(a)
      /\ person' \in [Person -> PersonRow]
      /\ \A q \in Person \ {p, a} : person'[q] = person[q]
  BY MergeWriteFacts DEF MayMerge
<1>3. person'[p].mergedInto = Nil /\ person'[a].mergedInto = p
  <2>1. person[p] \in PersonRow /\ person[a] \in PersonRow
    BY <1>2 DEF TypeOK
  <2>2. /\ person'[p] = SurvivorRow(person[p], p, a, person[p], person[a])
        /\ person'[a] = [person[a] EXCEPT !.mergedInto = p]
    BY MergeWriteFacts
  <2> HIDE DEF p, a
  <2>3. person'[p].mergedInto = person[p].mergedInto
    BY <1>2, <2>1, <2>2, SurvivorFacts
  <2> QED
    BY <1>2, <2>1, <2>2, <2>3 DEF PersonRow
<1>4. PICK e \in EventId :
           /\ event[e].status = "none"
           /\ event' \in [EventId -> EventRow]
           /\ event'[e].status = "active"
           /\ event'[e].primary = p
           /\ event'[e].absorbed = a
           /\ \A f \in EventId \ {e} : event'[f] = event[f]
  BY MergeEventFacts
<1> HIDE DEF p, a
<1>5. TypeOK'
  BY <1>1, <1>2, <1>4, EndFacts DEF TypeOK
<1>6. ASSUME NEW v \in Request, pc'[v] # "idle"
      PROVE  v # w /\ pc'[v] = pc[v] /\ job'[v] = job[v] /\ seen'[v] = seen[v]
  <2>1. v # w
    BY <1>1, <1>6, EndFacts
  <2> QED
    BY <1>1, <2>1, EndFacts
<1>7. JobsWellFormed'
  BY <1>4, <1>6 DEF JobsWellFormed, MergePc
<1>8. LockedRowsCurrent'
  <2>1. ASSUME NEW v \in Request, pc'[v] \in {"lockAbsorbed", "mergeWrite"}
        PROVE  /\ v # w /\ pc'[v] = pc[v] /\ job'[v] = job[v] /\ seen'[v] = seen[v]
               /\ job[v].primary \in Person /\ job[v].absorbed \in Person
               /\ \A q \in Person : lock[q] = v => lock'[q] = v /\ person'[q] = person[q]
    <3>1. v # w /\ pc'[v] = pc[v] /\ job'[v] = job[v] /\ seen'[v] = seen[v]
      BY <1>6, <2>1
    <3>2. job[v].primary \in Person /\ job[v].absorbed \in Person
      BY <2>1, <3>1 DEF JobsWellFormed, MergePc
    <3> QED
      BY <1>1, <1>2, <3>1, <3>2, EndFacts
  <2> QED
    BY <2>1 DEF LockedRowsCurrent
<1>9. EventsWellFormed'
  BY <1>2, <1>4 DEF EventsWellFormed
<1>10. OneActiveEvent'
  BY <1>2, <1>4 DEF OneActiveEvent, Active, IndexFree
<1>11. SkippedPointerIsClear'
  <2> SUFFICES ASSUME NEW v \in Request, pc'[v] = "reverseWrite", ~job'[v].flag,
                      event'[job'[v].event].status = "active"
               PROVE  person'[job'[v].absorbed].mergedInto = Nil
    BY DEF SkippedPointerIsClear, Active
  <2>1. v # w /\ pc[v] = "reverseWrite" /\ job'[v] = job[v]
    BY <1>6
  <2>2. /\ job[v].event \in EventId /\ event[job[v].event].status # "none"
        /\ job[v].absorbed = event[job[v].event].absorbed
        /\ job[v].absorbed \in Person
    BY <2>1 DEF JobsWellFormed, EventsWellFormed
  <2>3. Active(job[v].event)
    BY <1>4, <2>1, <2>2 DEF Active
  <2>4. job[v].absorbed # a
    BY <1>2, <2>2, <2>3 DEF IndexFree
  <2>5. person[job[v].absorbed].mergedInto = Nil
    BY <2>1, <2>3 DEF SkippedPointerIsClear
  <2> QED
    BY <1>2, <1>3, <2>1, <2>2, <2>4, <2>5
<1>12. HiddenByActiveMerge'
  <2> SUFFICES ASSUME NEW b \in Person, person'[b].mergedInto # Nil
               PROVE  \E f \in EventId : /\ event'[f].status = "active"
                                          /\ event'[f].absorbed = b
                                          /\ event'[f].primary = person'[b].mergedInto
    BY DEF HiddenByActiveMerge, Active
  <2>1. CASE b = a
    BY <1>3, <1>4, <2>1
  <2>2. CASE b # a
    <3>1. person'[b] = person[b]
      BY <1>2, <1>3, <2>2
    <3> QED
      BY <1>4, <3>1 DEF HiddenByActiveMerge, Active
  <2> QED
    BY <2>1, <2>2
<1> QED
  BY <1>5, <1>7, <1>8, <1>9, <1>10, <1>11, <1>12

LEMMA NextInv == IInv /\ [Next]_vars => IInv'
<1> SUFFICES ASSUME IInv, [Next]_vars PROVE IInv'
  OBVIOUS
<1>1. ASSUME NEW w \in Request,
             \/ MergeReject(w) \/ MergeIndexViolation(w) \/ DeadlockAbort(w)
             \/ ConnectionLost(w)
      PROVE  IInv'
  BY <1>1, RollbackInv DEF MergeReject, MergeIndexViolation, DeadlockAbort, ConnectionLost
<1>2. ASSUME NEW w \in Request, Decide(w)
      PROVE  IInv'
  BY <1>1, <1>2, MergeWriteInv, ReadAbsorbedInv DEF Decide
<1>3. ASSUME NEW w \in Request, Update(w)
      PROVE  IInv'
  BY <1>3, ReverseWriteInv, TagWriteInv DEF Update
<1>4. CASE UNCHANGED vars
  BY <1>4 DEF vars, IInv, TypeOK, JobsWellFormed, LockedRowsCurrent, EventsWellFormed,
              OneActiveEvent, SkippedPointerIsClear, HiddenByActiveMerge, Active
<1> QED
  BY <1>1, <1>2, <1>3, <1>4, ArriveInv, AcquireInv DEF Next

(* The inductive invariant holds in every reachable state.                 *)
THEOREM Invariance == Spec => []IInv
<1> QED
  BY InitInv, NextInv, PTL DEF Spec

(* Rows, events, locks and sessions keep their types.                      *)
THEOREM TypeCorrect == Spec => []TypeOK
<1>1. IInv => TypeOK
  BY DEF IInv
<1> QED
  BY <1>1, Invariance, PTL

(* Nobody is hidden without a merge in force, however merges and reversals *)
(* of the same people overlap.                                             *)
THEOREM HiddenOnlyByActiveMerge == Spec => []HiddenByActiveMerge
<1>1. IInv => HiddenByActiveMerge
  BY DEF IInv
<1> QED
  BY <1>1, Invariance, PTL


-----------------------------------------------------------------------------
(* Implementation of the ledger                                            *)

(* The only steps that touch a pointer or a tag are the three writes.      *)
LEMMA OnlyWritesTouchRows ==
  ASSUME NEW w \in Request,
         Arrive(w) \/ Acquire(w) \/ MergeReject(w) \/ MergeIndexViolation(w)
           \/ ReadAbsorbed(w) \/ DeadlockAbort(w) \/ ConnectionLost(w)
  PROVE  UNCHANGED person
BY DEF Arrive, MergeStart, ReverseStart, TagStart, Start, Acquire, LockPrimary, LockAbsorbed,
       MergeReject, MergeIndexViolation, ReadAbsorbed, DeadlockAbort, ConnectionLost, Rollback

LEMMA MergeIsAbsorb ==
  ASSUME NEW w \in Request, IInv, MergeWrite(w)
  PROVE  Ledger!Absorb(job[w].primary, job[w].absorbed)
<1> DEFINE p == job[w].primary
           a == job[w].absorbed
           parent == [q \in Person |-> person[q].mergedInto]
           tagged == [q \in Person |-> person[q].protected]
<1>1. /\ p \in Person /\ a \in Person /\ p # a
      /\ MayMerge(person[p], person[a])
      /\ person'[p] = SurvivorRow(person[p], p, a, person[p], person[a])
      /\ person'[a] = [person[a] EXCEPT !.mergedInto = p]
      /\ \A q \in Person \ {p, a} : person'[q] = person[q]
  BY MergeWriteFacts
<1>2. person[p] \in PersonRow /\ person[a] \in PersonRow
  BY <1>1 DEF IInv, TypeOK
<1> HIDE DEF p, a
<1>3. /\ person'[p].mergedInto = person[p].mergedInto
      /\ person'[p].protected = person[p].protected
      /\ person'[a].mergedInto = p /\ person'[a].protected = person[a].protected
  BY <1>1, <1>2, SurvivorFacts DEF PersonRow
<1>4. parent' = [parent EXCEPT ![a] = p] /\ tagged' = tagged
  BY <1>1, <1>3
<1>5. parent[p] = Nil /\ parent[a] = Nil /\ ~tagged[p] /\ ~tagged[a]
  BY <1>1 DEF MayMerge
<1> QED
  BY <1>1, <1>4, <1>5 DEF Ledger!Absorb, Ledger!Independent, p, a

LEMMA ReverseIsFree ==
  ASSUME NEW w \in Request, IInv, ReverseWrite(w)
  PROVE  Ledger!Free(job[w].absorbed) \/ UNCHANGED Ledger!vars
<1> DEFINE a == job[w].absorbed
           parent == [q \in Person |-> person[q].mergedInto]
           tagged == [q \in Person |-> person[q].protected]
<1>1. a \in Person
  BY DEF ReverseWrite, IInv, JobsWellFormed, EventsWellFormed
<1>2. person[a] \in PersonRow /\ person \in [Person -> PersonRow]
  BY <1>1 DEF IInv, TypeOK
<1>3. CASE ~job[w].flag
  BY <1>3 DEF ReverseWrite, Ledger!vars
<1>4. CASE job[w].flag
  <2>1. person' = [person EXCEPT ![a].mergedInto = Nil]
    BY <1>4 DEF ReverseWrite
  <2> HIDE DEF a
  <2>2. /\ person'[a].mergedInto = Nil /\ person'[a].protected = person[a].protected
        /\ \A q \in Person \ {a} : person'[q] = person[q]
    BY <1>1, <1>2, <2>1 DEF PersonRow
  <2>3. parent' = [parent EXCEPT ![a] = Nil] /\ tagged' = tagged
    BY <1>1, <2>2
  <2>4. CASE parent[a] = Nil
    BY <1>1, <2>3, <2>4 DEF Ledger!vars
  <2>5. CASE parent[a] # Nil
    BY <2>3, <2>5 DEF Ledger!Free, Ledger!Independent, a
  <2> QED
    BY <2>4, <2>5
<1> QED
  BY <1>3, <1>4

LEMMA TagIsProtect ==
  ASSUME NEW w \in Request, IInv, TagWrite(w)
  PROVE  Ledger!Protect(job[w].primary, job[w].flag)
<1> DEFINE p == job[w].primary
           parent == [q \in Person |-> person[q].mergedInto]
           tagged == [q \in Person |-> person[q].protected]
<1>1. p \in Person /\ person' = [person EXCEPT ![p].protected = job[w].flag]
  BY DEF TagWrite, IInv, JobsWellFormed
<1>2. person[p] \in PersonRow /\ person \in [Person -> PersonRow]
  BY <1>1 DEF IInv, TypeOK
<1> HIDE DEF p
<1>3. /\ person'[p].mergedInto = person[p].mergedInto /\ person'[p].protected = job[w].flag
      /\ \A q \in Person \ {p} : person'[q] = person[q]
  BY <1>1, <1>2 DEF PersonRow
<1>4. parent' = parent
  BY <1>1, <1>3
<1>5. \A q \in Person : person'[q].protected = IF q = p THEN job[w].flag ELSE person[q].protected
  BY <1>3, Zenon
<1>6. tagged' = [tagged EXCEPT ![p] = job[w].flag]
  BY <1>5, Zenon
<1> QED
  BY <1>4, <1>6 DEF Ledger!Protect, p

(* Every behaviour of the handlers, seen through merged_into_id and the    *)
(* tag, is a behaviour of the ledger.                                      *)
THEOREM LedgerImplemented == Spec => ImplementsLedger
<1>1. Init => Ledger!Init
  <2> SUFFICES ASSUME Init PROVE Ledger!Init
    OBVIOUS
  <2>1. \A p \in Person : person[p] \in PersonRow /\ person[p].mergedInto = Nil
    BY InitRowsAssumption DEF Init
  <2> QED
    BY <2>1 DEF Ledger!Init, PersonRow
<1>2. IInv /\ [Next]_vars => [Ledger!Next]_(Ledger!vars)
  <2> SUFFICES ASSUME IInv, [Next]_vars
               PROVE  Ledger!Next \/ UNCHANGED Ledger!vars
    OBVIOUS
  <2>1. CASE UNCHANGED person
    BY <2>1 DEF Ledger!vars
  <2>2. ASSUME NEW w \in Request, MergeWrite(w)
        PROVE  Ledger!Next
    <3>1. job[w].primary \in Person /\ job[w].absorbed \in Person
      BY <2>2, MergeWriteFacts
    <3>2. Ledger!Absorb(job[w].primary, job[w].absorbed)
      BY <2>2, MergeIsAbsorb
    <3> QED
      BY <3>1, <3>2 DEF Ledger!Next, Ledger!Absorb, Ledger!Free, Ledger!Protect
  <2>3. ASSUME NEW w \in Request, ReverseWrite(w)
        PROVE  Ledger!Next \/ UNCHANGED Ledger!vars
    <3>1. job[w].absorbed \in Person
      BY <2>3 DEF ReverseWrite, IInv, JobsWellFormed, EventsWellFormed
    <3>2. Ledger!Free(job[w].absorbed) \/ UNCHANGED Ledger!vars
      BY <2>3, ReverseIsFree
    <3> QED
      BY <3>1, <3>2 DEF Ledger!Next, Ledger!Absorb, Ledger!Free, Ledger!Protect
  <2>4. ASSUME NEW w \in Request, TagWrite(w)
        PROVE  Ledger!Next
    <3>1. job[w].primary \in Person /\ job[w].flag \in BOOLEAN
      BY <2>4 DEF TagWrite, IInv, JobsWellFormed, TypeOK, Job
    <3>2. Ledger!Protect(job[w].primary, job[w].flag)
      BY <2>4, TagIsProtect
    <3> QED
      BY <3>1, <3>2 DEF Ledger!Next, Ledger!Absorb, Ledger!Free, Ledger!Protect
  <2> QED
    BY <2>1, <2>2, <2>3, <2>4, OnlyWritesTouchRows DEF Next, Decide, Update, vars
<1> QED
  BY <1>1, <1>2, Invariance, PTL DEF Spec, ImplementsLedger, Ledger!Spec

-----------------------------------------------------------------------------
(* The ledger                                                              *)

(* Pointing an independent person at another independent one closes no     *)
(* cycle: a set closed under the new pointers that holds the survivor is   *)
(* not closed there, and one that does not was closed before.              *)
LEMMA AbsorbingClosesNoCycle ==
  ASSUME NEW up \in [Person -> Person \cup {Nil}],
         \A S \in SUBSET Person : S # {} => \E q \in S : up[q] \notin S,
         NEW p \in Person, NEW a \in Person, p # a, up[p] = Nil,
         NEW S \in SUBSET Person, S # {}
  PROVE  \E q \in S : [up EXCEPT ![a] = p][q] \notin S
<1>1. PICK next : next = [up EXCEPT ![a] = p]
  OBVIOUS
<1>2. next[a] = p /\ \A q \in Person \ {a} : next[q] = up[q]
  BY <1>1
<1>3. PICK q \in S : up[q] \notin S
  OBVIOUS
<1>4. CASE p \in S
  BY <1>1, <1>2, <1>4, NilAssumption
<1>5. CASE p \notin S
  BY <1>1, <1>2, <1>3, <1>5
<1> QED
  BY <1>4, <1>5

(* Nor does making somebody independent.                                   *)
LEMMA FreeingClosesNoCycle ==
  ASSUME NEW up \in [Person -> Person \cup {Nil}],
         \A S \in SUBSET Person : S # {} => \E q \in S : up[q] \notin S,
         NEW a \in Person,
         NEW S \in SUBSET Person, S # {}
  PROVE  \E q \in S : [up EXCEPT ![a] = Nil][q] \notin S
<1>1. PICK next : next = [up EXCEPT ![a] = Nil]
  OBVIOUS
<1>2. next[a] = Nil /\ \A q \in Person \ {a} : next[q] = up[q]
  BY <1>1
<1>3. PICK q \in S : up[q] \notin S
  OBVIOUS
<1> QED
  BY <1>1, <1>2, <1>3, NilAssumption

(* The pointers of the ledger stay pointers to people.                     *)
LEMMA LedgerTyping == Ledger!Spec => []Ledger!LedgerTypeOK
<1>1. Ledger!Init => Ledger!LedgerTypeOK
  BY DEF Ledger!Init, Ledger!LedgerTypeOK
<1>2. Ledger!LedgerTypeOK /\ [Ledger!Next]_(Ledger!vars) => Ledger!LedgerTypeOK'
  BY DEF Ledger!LedgerTypeOK, Ledger!Next, Ledger!vars, Ledger!Absorb, Ledger!Free,
         Ledger!Protect
<1> QED
  BY <1>1, <1>2, PTL DEF Ledger!Spec

(* Absorbing only the independent into the independent never closes a      *)
(* cycle of the abstract ledger, and so of whatever implements it.         *)
THEOREM LedgerAcyclic == Ledger!Spec => []Ledger!Acyclic
<1>1. Ledger!Init => Ledger!Acyclic
  BY NilAssumption DEF Ledger!Init, Ledger!Acyclic
<1>2. ASSUME Ledger!LedgerTypeOK, Ledger!Acyclic, [Ledger!Next]_(Ledger!vars)
      PROVE  Ledger!Acyclic'
  <2>1. PICK up : up = [q \in Person |-> person[q].mergedInto]
    OBVIOUS
  <2>2. PICK next : next = [q \in Person |-> person'[q].mergedInto]
    OBVIOUS
  <2>3. /\ up \in [Person -> Person \cup {Nil}]
        /\ \A S \in SUBSET Person : S # {} => \E q \in S : up[q] \notin S
    BY <1>2, <2>1 DEF Ledger!LedgerTypeOK, Ledger!Acyclic
  <2>4. \/ next = up
        \/ \E p, a \in Person : p # a /\ up[p] = Nil /\ next = [up EXCEPT ![a] = p]
        \/ \E a \in Person : next = [up EXCEPT ![a] = Nil]
    BY <1>2, <2>1, <2>2 DEF Ledger!Next, Ledger!vars, Ledger!Absorb, Ledger!Free,
       Ledger!Protect, Ledger!Independent
  <2>5. \A S \in SUBSET Person : S # {} => \E q \in S : next[q] \notin S
    BY <2>3, <2>4, AbsorbingClosesNoCycle, FreeingClosesNoCycle
  <2> QED
    BY <2>2, <2>5 DEF Ledger!Acyclic
<1> QED
  BY <1>1, <1>2, LedgerTyping, PTL DEF Ledger!Spec

(* Following survivors always ends, so _resolve_person_primary and the     *)
(* cluster queries of network_service never walk in a circle.              *)
THEOREM MergesNeverCycle == Spec => []NoMergeCycle
BY LedgerAcyclic, LedgerImplemented, PTL DEF ImplementsLedger, NoMergeCycle

-----------------------------------------------------------------------------
(* What a merge may do, and what it must keep                              *)

(* An event comes into force only in the write of a merge.                 *)
LEMMA NewEventIsMerge ==
  ASSUME IInv, [Next]_vars, NEW e \in EventId,
         event[e].status = "none", event'[e].status = "active"
  PROVE  \E w \in Request : /\ MergeWrite(w)
                            /\ event'[e].primary = job[w].primary
                            /\ event'[e].absorbed = job[w].absorbed
<1>1. event' # event
  OBVIOUS
<1>2. PICK w \in Request : MergeWrite(w) \/ ReverseWrite(w)
  BY <1>1 DEF Next, Arrive, MergeStart, ReverseStart, TagStart, Start, Acquire, LockPrimary,
     LockAbsorbed, Decide, MergeReject, MergeIndexViolation, ReadAbsorbed, Update, TagWrite,
     DeadlockAbort, ConnectionLost, Rollback, vars
<1>3. CASE ReverseWrite(w)
  <2>1. /\ job[w].event \in EventId
        /\ event' = [event EXCEPT ![job[w].event] = Stamped(event[job[w].event])]
    BY <1>3 DEF ReverseWrite, IInv, JobsWellFormed
  <2>2. event[job[w].event] \in EventRow /\ event \in [EventId -> EventRow]
    BY <2>1 DEF IInv, TypeOK
  <2>3. event'[e] = event[e] \/ event'[e].status = "reversed"
    BY <2>1, <2>2, StampedFacts
  <2> QED
    BY <2>3
<1>4. CASE MergeWrite(w)
  <2>1. PICK f \in EventId : /\ event'[f].primary = job[w].primary
                             /\ event'[f].absorbed = job[w].absorbed
                             /\ \A g \in EventId \ {f} : event'[g] = event[g]
    BY <1>4, MergeEventFacts
  <2>2. e = f
    BY <2>1
  <2> QED
    BY <1>4, <2>1, <2>2
<1> QED
  BY <1>2, <1>3, <1>4

(* No merge of a protected person and no merge of an absorbed one, in the  *)
(* rows as they are committed: the locks make the checks hold at the write.*)
THEOREM MergesAreGuarded == Spec => MergesOnlyUnprotectedIndependents
<1>1. ASSUME IInv, [Next]_vars, NEW e \in EventId,
             event[e].status = "none", event'[e].status = "active"
      PROVE  \A p \in {event'[e].primary, event'[e].absorbed} :
               person[p].mergedInto = Nil /\ ~person[p].protected
  <2>1. PICK w \in Request : /\ MergeWrite(w)
                             /\ event'[e].primary = job[w].primary
                             /\ event'[e].absorbed = job[w].absorbed
    BY <1>1, NewEventIsMerge
  <2>2. MayMerge(person[job[w].primary], person[job[w].absorbed])
    BY <1>1, <2>1, MergeWriteFacts
  <2> QED
    BY <2>1, <2>2 DEF MayMerge
<1>2. IInv /\ [Next]_vars =>
        [\A e \in EventId :
           (event[e].status = "none" /\ event'[e].status = "active") =>
             \A p \in {event'[e].primary, event'[e].absorbed} :
               person[p].mergedInto = Nil /\ ~person[p].protected]_vars
  BY <1>1
<1> QED
  BY <1>2, Invariance, PTL DEF Spec, MergesOnlyUnprotectedIndependents

(* One person's row is covered by another's.                               *)
Covers(p, a, mine, theirs) ==
  /\ theirs.rank <= mine.rank
  /\ theirs.aliases \subseteq mine.aliases
  /\ FullName[a] \in mine.aliases \cup {FullName[p]}
  /\ theirs.dob # Nil => mine.dob # Nil

(* An absorbed person's row is not written by merges any more and the      *)
(* survivor's only grows, so what the merge copied stays covered.          *)
LEMMA CoverStep ==
  ASSUME IInv, SurvivorCoversAbsorbed, [Next]_vars
  PROVE  SurvivorCoversAbsorbed'
<1> SUFFICES ASSUME NEW b \in Person, person'[b].mergedInto # Nil
             PROVE  Covers(person'[b].mergedInto, b,
                           person'[person'[b].mergedInto], person'[b])
  BY DEF SurvivorCoversAbsorbed, Covers
<1> DEFINE q == person[b].mergedInto
<1>1. person[b] \in PersonRow /\ q \in Person \cup {Nil} /\ person \in [Person -> PersonRow]
  BY DEF IInv, TypeOK, PersonRow
<1>2. q # Nil => q \in Person /\ person[q] \in PersonRow /\ Covers(q, b, person[q], person[b])
  BY <1>1 DEF SurvivorCoversAbsorbed, Covers
<1>3. CASE UNCHANGED person
  BY <1>2, <1>3
<1>4. ASSUME NEW w \in Request, MergeWrite(w)
      PROVE  Covers(person'[b].mergedInto, b, person'[person'[b].mergedInto], person'[b])
  <2> DEFINE p == job[w].primary
             a == job[w].absorbed
  <2>1. /\ p \in Person /\ a \in Person /\ p # a
        /\ person[p].mergedInto = Nil /\ person[a].mergedInto = Nil
        /\ person'[p] = SurvivorRow(person[p], p, a, person[p], person[a])
        /\ person'[a] = [person[a] EXCEPT !.mergedInto = p]
        /\ \A r \in Person \ {p, a} : person'[r] = person[r]
        /\ person[p] \in PersonRow /\ person[a] \in PersonRow
    BY <1>1, <1>4, MergeWriteFacts DEF MayMerge
  <2> HIDE DEF p, a
  <2>2. /\ person'[a].mergedInto = p /\ person'[a].rank = person[a].rank
        /\ person'[a].aliases = person[a].aliases /\ person'[a].dob = person[a].dob
    BY <2>1 DEF PersonRow
  <2>3. /\ person'[p] \in PersonRow /\ person'[p].mergedInto = Nil
        /\ person[p].rank <= person'[p].rank
        /\ person[p].aliases \subseteq person'[p].aliases
        /\ person[p].dob # Nil => person'[p].dob # Nil
        /\ Covers(p, a, person'[p], person[a])
    BY <2>1, SurvivorFacts DEF Covers
  <2>4. CASE b = a
    BY <2>2, <2>3, <2>4 DEF Covers
  <2>5. CASE b # a
    <3>1. b # p /\ person'[b] = person[b] /\ q # Nil /\ q \in Person /\ person[q] \in PersonRow
      BY <1>2, <2>1, <2>3, <2>5
    <3>2. /\ person[q].rank <= person'[q].rank
          /\ person[q].aliases \subseteq person'[q].aliases
          /\ person[q].dob # Nil => person'[q].dob # Nil
          /\ person'[q].rank \in Ranks
      <4>4. person[q].rank \in Ranks
        BY <3>1 DEF PersonRow
      <4>5. person[q].rank \in Nat
        BY <4>4, DataAssumption
      <4> HIDE DEF q
      <4>6. person[q].rank <= person[q].rank
        BY <4>5
      <4>1. CASE q = p
        BY <2>3, <4>1 DEF PersonRow
      <4>2. CASE q = a
        BY <2>2, <4>2, <4>4, <4>6
      <4>3. CASE q # p /\ q # a
        BY <2>1, <3>1, <4>3, <4>4, <4>6
      <4> QED
        BY <4>1, <4>2, <4>3
    <3>3. Covers(q, b, person[q], person[b])
      BY <1>2, <3>1
    <3>4. person[b].rank \in Nat /\ person[q].rank \in Nat /\ person'[q].rank \in Nat
      BY <1>1, <3>1, <3>2, DataAssumption DEF PersonRow
    <3> HIDE DEF q
    <3>5. Covers(q, b, person'[q], person[b])
      BY <3>2, <3>3, <3>4 DEF Covers
    <3> QED
      BY <3>1, <3>5 DEF q
  <2> QED
    BY <2>4, <2>5
<1>5. ASSUME NEW w \in Request, ReverseWrite(w) \/ TagWrite(w)
      PROVE  Covers(person'[b].mergedInto, b, person'[person'[b].mergedInto], person'[b])
  <2>1. \A r \in Person : /\ person'[r].rank = person[r].rank
                          /\ person'[r].aliases = person[r].aliases
                          /\ person'[r].dob = person[r].dob
                          /\ person'[r].mergedInto \in {person[r].mergedInto, Nil}
    BY <1>1, <1>5 DEF ReverseWrite, TagWrite, PersonRow
  <2> QED
    BY <1>2, <2>1 DEF Covers
<1> QED
  BY <1>3, <1>4, <1>5, OnlyWritesTouchRows DEF Next, Decide, Update, vars

(* Whatever merges, reversals and tag changes overlap, a survivor covers   *)
(* everybody hidden behind it: names, aliases, tier and date of birth.     *)
THEOREM SurvivorsCover == Spec => []SurvivorCoversAbsorbed
<1>1. Init => SurvivorCoversAbsorbed
  <2> SUFFICES ASSUME Init PROVE SurvivorCoversAbsorbed
    OBVIOUS
  <2> QED
    BY InitRowsAssumption DEF Init, SurvivorCoversAbsorbed
<1>2. IInv /\ SurvivorCoversAbsorbed /\ [Next]_vars => SurvivorCoversAbsorbed'
  BY CoverStep
<1> QED
  BY <1>1, <1>2, Invariance, PTL DEF Spec

-----------------------------------------------------------------------------
(* What no step takes away from a person                                   *)

(* A merge adds to the survivor; nothing else touches these fields.        *)
LEMMA RowsGrow ==
  ASSUME IInv, [Next]_vars, NEW p \in Person
  PROVE  /\ person[p].rank <= person'[p].rank
         /\ person[p].aliases \subseteq person'[p].aliases
         /\ person[p].dob # Nil => person'[p].dob # Nil
<1>1. person \in [Person -> PersonRow] /\ person[p] \in PersonRow
  BY DEF IInv, TypeOK
<1>2. person[p].rank \in Nat
  BY <1>1, DataAssumption DEF PersonRow
<1>3. CASE UNCHANGED person
  BY <1>2, <1>3
<1>4. ASSUME NEW w \in Request, MergeWrite(w)
      PROVE  /\ person[p].rank <= person'[p].rank
             /\ person[p].aliases \subseteq person'[p].aliases
             /\ person[p].dob # Nil => person'[p].dob # Nil
  <2>1. PICK s, a : s = job[w].primary /\ a = job[w].absorbed
    OBVIOUS
  <2>2. /\ s \in Person /\ a \in Person /\ s # a
        /\ person'[s] = SurvivorRow(person[s], s, a, person[s], person[a])
        /\ person'[a] = [person[a] EXCEPT !.mergedInto = s]
        /\ \A q \in Person \ {s, a} : person'[q] = person[q]
    BY <1>4, <2>1, MergeWriteFacts
  <2>3. person[s] \in PersonRow /\ person[a] \in PersonRow
    BY <1>1, <2>2
  <2>4. CASE p = s
    BY <2>2, <2>3, <2>4, SurvivorFacts
  <2>5. CASE p = a
    BY <1>2, <2>2, <2>3, <2>5 DEF PersonRow
  <2>6. CASE p \notin {s, a}
    BY <1>2, <2>2, <2>6
  <2> QED
    BY <2>4, <2>5, <2>6
<1>5. ASSUME NEW w \in Request, ReverseWrite(w) \/ TagWrite(w)
      PROVE  /\ person'[p].rank = person[p].rank /\ person'[p].dob = person[p].dob
             /\ person'[p].aliases = person[p].aliases
  BY <1>1, <1>5 DEF ReverseWrite, TagWrite, PersonRow
<1> QED
  BY <1>2, <1>3, <1>4, <1>5, OnlyWritesTouchRows DEF Next, Decide, Update, vars

(* Whatever is merged and reversed, nobody's classification is ever        *)
(* lowered (_higher_classification; a reversal has no undo).               *)
THEOREM TiersNeverFall == Spec => NeverDowngraded
<1>1. ASSUME IInv, [Next]_vars, NEW p \in Person
      PROVE  person'[p].rank >= person[p].rank
  <2>1. person[p].rank \in Nat
    BY <1>1, DataAssumption DEF IInv, TypeOK, PersonRow
  <2>2. person'[p].rank \in Nat
    BY <1>1, NextInv, DataAssumption DEF IInv, TypeOK, PersonRow
  <2> QED
    BY <1>1, <2>1, <2>2, RowsGrow
<1>2. IInv /\ [Next]_vars => [\A p \in Person : person'[p].rank >= person[p].rank]_vars
  BY <1>1
<1> QED
  BY <1>2, Invariance, PTL DEF Spec, NeverDowngraded

(* Names a survivor took over stay with it when the merge is reversed, and *)
(* a known date of birth is never lost (merge_entities, reverse_merge).    *)
THEOREM FieldsSurvive == Spec => FieldsSurviveReversal
<1>1. IInv /\ [Next]_vars =>
        [\A p \in Person : /\ person[p].aliases \subseteq person'[p].aliases
                           /\ person[p].dob # Nil => person'[p].dob # Nil]_vars
  BY RowsGrow
<1> QED
  BY <1>1, Invariance, PTL DEF Spec, FieldsSurviveReversal

=============================================================================
