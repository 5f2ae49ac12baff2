----------------------- MODULE NetworkIdentityProofs -----------------------
(***************************************************************************)
(* Theorems about NetworkIdentity, for every finite set of people, every   *)
(* graph, all tiers and all bounds of the walks.                           *)
(*                                                                         *)
(* Chain and Walked are least closed sets: what a walk of any length does  *)
(* is proved by naming a set that holds its start and is closed under its  *)
(* hops. The invariant has five layers, each on top of those before it:    *)
(* Control (types, tables and phases), Way (what was found is on a chain   *)
(* from what was asked), Found (records are rightful), Calm (while nothing *)
(* changes, the walks can be taken again), Exact (nothing is left out).    *)
(***************************************************************************)
EXTENDS NetworkIdentity, FiniteSetTheorems, SequenceTheorems, TLAPS

Pointers == [Entity -> Entity \cup {Nil}]

(* All pointers there were since the request came. *)
Wide == [q \in Entity |-> IF parent[q] # Nil THEN parent[q] ELSE before[q]]

Wider(up, wide) == \A q \in Entity : up[q] # Nil => wide[q] = up[q]

-----------------------------------------------------------------------------
(* Chains of pointers *)

LEMMA ChainStarts == ASSUME NEW up, NEW p \in Entity PROVE p \in Chain(up, p)
BY DEF Chain

LEMMA ChainInEntity == ASSUME NEW up, NEW p PROVE Chain(up, p) \subseteq Entity
BY DEF Chain

LEMMA ChainGoesOn ==
  ASSUME NEW up \in Pointers, NEW p, NEW q \in Chain(up, p), up[q] # Nil
  PROVE  up[q] \in Chain(up, p)
BY DEF Chain, Pointers

LEMMA ChainLeast ==
  ASSUME NEW up, NEW p, NEW S \in SUBSET Entity, p \in S,
         \A r \in S : up[r] # Nil => up[r] \in S
  PROVE  Chain(up, p) \subseteq S
BY DEF Chain

LEMMA ChainOfChain ==
  ASSUME NEW up \in Pointers, NEW p, NEW q \in Chain(up, p)
  PROVE  Chain(up, q) \subseteq Chain(up, p)
BY ChainLeast, ChainGoesOn, ChainInEntity

LEMMA ChainWidens ==
  ASSUME NEW up \in Pointers, NEW wide \in Pointers, Wider(up, wide), NEW p
  PROVE  Chain(up, p) \subseteq Chain(wide, p)
BY DEF Chain, Wider

(* A chain is a person and the chain of the one it is merged into. *)
LEMMA ChainUnfolds ==
  ASSUME NEW up \in Pointers, NEW p \in Entity
  PROVE  Chain(up, p) = IF up[p] = Nil THEN {p} ELSE {p} \cup Chain(up, up[p])
<1>1. CASE up[p] = Nil
  <2>1. PICK S \in SUBSET Entity : S = {p}
    OBVIOUS
  <2>2. p \in S /\ \A r \in S : up[r] # Nil => up[r] \in S
    BY <1>1, <2>1
  <2>3. Chain(up, p) \subseteq S
    BY <2>2, ChainLeast
  <2> QED
    BY <1>1, <2>1, <2>3, ChainStarts
<1>2. CASE up[p] # Nil
  <2>1. up[p] \in Entity /\ up[p] \in Chain(up, p)
    BY <1>2, ChainStarts, ChainGoesOn DEF Pointers
  <2>2. {p} \cup Chain(up, up[p]) \subseteq Chain(up, p)
    BY <2>1, ChainStarts, ChainOfChain
  <2>3. PICK S : S = {p} \cup Chain(up, up[p])
    OBVIOUS
  <2>4. S \in SUBSET Entity /\ p \in S
    BY <2>3, ChainInEntity
  <2>5. ASSUME NEW r \in S, up[r] # Nil
        PROVE  up[r] \in S
    BY <2>1, <2>3, <2>5, ChainStarts, ChainGoesOn
  <2>6. Chain(up, p) \subseteq S
    BY <2>4, <2>5, ChainLeast
  <2> QED
    BY <1>2, <2>2, <2>3, <2>6
<1> QED
  BY <1>1, <1>2

(* All of a chain have one survivor, or none has any. *)
LEMMA SurvivorAlong ==
  ASSUME NEW up \in Pointers, NEW x \in Entity, NEW z \in Chain(up, x)
  PROVE  Survivor(up, x) = Survivor(up, z)
<1>1. PICK S : S = {y \in Entity : \A q \in Chain(up, x) : up[q] = Nil => q \in Chain(up, y)}
  OBVIOUS
<1>2. x \in S
  BY <1>1
<1>3. ASSUME NEW r \in S, up[r] # Nil
      PROVE  up[r] \in S
  <2>1. r \in Entity /\ up[r] \in Entity
    BY <1>1, <1>3 DEF Pointers
  <2>2. Chain(up, r) = {r} \cup Chain(up, up[r])
    BY <1>3, <2>1, ChainUnfolds
  <2> QED
    BY <1>1, <1>3, <2>1, <2>2
<1>4. Chain(up, x) \subseteq S
  BY <1>1, <1>2, <1>3, ChainLeast
<1>5. \A q : (q \in Chain(up, x) /\ up[q] = Nil) <=> (q \in Chain(up, z) /\ up[q] = Nil)
  BY <1>1, <1>4, ChainOfChain
<1> QED
  BY <1>5 DEF Survivor

-----------------------------------------------------------------------------
(* Chains that end *)

Acyclic(up) == \A S \in SUBSET Entity : S # {} => \E p \in S : up[p] \notin S

LEMMA EndIsSurvivor ==
  ASSUME NEW up \in Pointers, NEW x \in Entity, NEW z \in Chain(up, x), up[z] = Nil
  PROVE  z = Survivor(up, x)
<1>1. z \in Entity /\ Chain(up, z) = {z}
  BY ChainInEntity, ChainUnfolds
<1>2. Survivor(up, z) = z
  BY <1>1 DEF Survivor
<1> QED
  BY <1>2, SurvivorAlong

LEMMA SurvivorEnds ==
  ASSUME NEW up \in Pointers, Acyclic(up), NEW x \in Entity
  PROVE  /\ Survivor(up, x) \in Chain(up, x)
         /\ Survivor(up, x) \in Entity
         /\ up[Survivor(up, x)] = Nil
<1>1. PICK S \in SUBSET Entity : S = Chain(up, x)
  BY ChainInEntity
<1>2. PICK q \in S : up[q] \notin S
  BY <1>1, ChainStarts DEF Acyclic
<1>3. q \in Chain(up, x) /\ up[q] = Nil
  BY <1>1, <1>2, ChainGoesOn
<1> QED
  BY <1>1, <1>2, <1>3, EndIsSurvivor

LEMMA SurvivorOfSurvivor ==
  ASSUME NEW up \in Pointers, NEW q \in Entity, up[q] = Nil
  PROVE  Survivor(up, q) = q
BY ChainStarts, EndIsSurvivor

(* Nobody is merged into somebody that is merged into him. *)
LEMMA NotInOwnChain ==
  ASSUME NEW up \in Pointers, Acyclic(up), NEW p \in Entity, up[p] # Nil
  PROVE  p \notin Chain(up, up[p])
<1> SUFFICES ASSUME p \in Chain(up, up[p]) PROVE FALSE
  OBVIOUS
<1>1. up[p] \in Entity
  BY DEF Pointers
<1>2. PICK S : S = {q \in Entity : p \in Chain(up, q)}
  OBVIOUS
<1>3. ASSUME NEW r \in S, up[r] # Nil
      PROVE  up[r] \in S
  <2>1. r \in Entity /\ up[r] \in Entity /\ p \in Chain(up, r)
    BY <1>2, <1>3 DEF Pointers
  <2>2. Chain(up, r) = {r} \cup Chain(up, up[r])
    BY <1>3, <2>1, ChainUnfolds
  <2> QED
    BY <1>2, <2>1, <2>2
<1>4. Chain(up, up[p]) \subseteq S
  BY <1>1, <1>2, <1>3, ChainLeast
<1>5. PICK z : z = Survivor(up, up[p])
  OBVIOUS
<1>6. z \in S /\ up[z] = Nil
  BY <1>1, <1>4, <1>5, SurvivorEnds
<1>7. p \in Chain(up, z) /\ Chain(up, z) = {z}
  BY <1>2, <1>6, ChainUnfolds
<1> QED
  BY <1>6, <1>7

(* How many people a chain has. *)
LEMMA ChainLength ==
  ASSUME NEW up \in Pointers, Acyclic(up), NEW p \in Entity
  PROVE  /\ Cardinality(Chain(up, p)) \in Nat \ {0}
         /\ up[p] = Nil <=> Cardinality(Chain(up, p)) = 1
         /\ up[p] # Nil =>
              Cardinality(Chain(up, p)) = Cardinality(Chain(up, up[p])) + 1
<1>1. \A q \in Entity : /\ IsFiniteSet(Chain(up, q))
                        /\ Cardinality(Chain(up, q)) \in Nat \ {0}
  BY ChainInEntity, ChainStarts, GraphAssumption, FS_Subset, FS_CardinalityType, FS_EmptySet
<1>2. CASE up[p] = Nil
  BY <1>1, <1>2, ChainUnfolds, FS_Singleton
<1>3. CASE up[p] # Nil
  <2>1. up[p] \in Entity
    BY <1>3 DEF Pointers
  <2>2. Chain(up, p) = Chain(up, up[p]) \cup {p}
    BY <1>3, ChainUnfolds
  <2>3. Cardinality(Chain(up, p)) = Cardinality(Chain(up, up[p])) + 1
    BY <1>1, <1>3, <2>1, <2>2, NotInOwnChain, FS_AddElement
  <2> QED
    BY <1>1, <1>3, <2>1, <2>3
<1> QED
  BY <1>2, <1>3

-----------------------------------------------------------------------------
(* Bounded walks *)

Place == Entity \X (0..MaxHops)

OneHop(up, s) == IF up[s[1]] = Nil THEN <<s[1], 0>> ELSE <<up[s[1]], s[2] - 1>>

Closed(up, S) == \A s \in S : s[2] > 0 => OneHop(up, s) \in S

(* Where a walk comes by. *)
Walked(up, s) == {t \in Place : \A S \in SUBSET Place : (s \in S /\ Closed(up, S)) => t \in S}

LEMMA HopsInPlace ==
  ASSUME NEW up \in Pointers, NEW s \in Place, s[2] > 0
  PROVE  OneHop(up, s) \in Place
BY BoundAssumption DEF OneHop, Place, Pointers

LEMMA WalkStarts == ASSUME NEW up, NEW s \in Place PROVE s \in Walked(up, s)
BY DEF Walked

LEMMA WalkGoesOn ==
  ASSUME NEW up \in Pointers, NEW s, NEW t \in Walked(up, s), t[2] > 0
  PROVE  OneHop(up, t) \in Walked(up, s)
BY HopsInPlace DEF Walked, Closed

LEMMA WalkLeast ==
  ASSUME NEW up, NEW s, NEW S \in SUBSET Place, s \in S, Closed(up, S)
  PROVE  Walked(up, s) \subseteq S
BY DEF Walked

(* Two walks that start at one place end at one place. *)
LEMMA WalksAgree ==
  ASSUME NEW up \in Pointers, NEW s \in Place, NEW y, NEW z,
         <<y, 0>> \in Walked(up, s), <<z, 0>> \in Walked(up, s)
  PROVE  y = z
<1>1. PICK S : S = {t \in Place : <<y, 0>> \in Walked(up, t)}
  OBVIOUS
<1>2. ASSUME NEW t \in S, t[2] > 0
      PROVE  OneHop(up, t) \in S
  <2>1. PICK u : u = OneHop(up, t)
    OBVIOUS
  <2>2. u \in Place /\ t \in Place
    BY <1>1, <1>2, <2>1, HopsInPlace
  <2>3. PICK T : T = {t} \cup Walked(up, u)
    OBVIOUS
  <2>4. T \in SUBSET Place /\ t \in T
    BY <2>2, <2>3 DEF Walked
  <2>5. Closed(up, T)
    BY <2>1, <2>2, <2>3, WalkStarts, WalkGoesOn DEF Closed
  <2>6. <<y, 0>> \in T
    BY <1>1, <2>4, <2>5, WalkLeast
  <2>7. <<y, 0>> # t
    BY <1>2
  <2> QED
    BY <1>1, <2>1, <2>2, <2>3, <2>6, <2>7
<1>3. Walked(up, s) \subseteq S
  BY <1>1, <1>2, WalkLeast DEF Closed
<1>4. <<z, 0>> \in Place /\ <<y, 0>> \in Walked(up, <<z, 0>>)
  BY <1>1, <1>3
<1>5. Walked(up, <<z, 0>>) \subseteq {<<z, 0>>}
  <2>1. {<<z, 0>>} \in SUBSET Place /\ Closed(up, {<<z, 0>>})
    BY <1>4 DEF Closed
  <2> QED
    BY <2>1, WalkLeast
<1> QED
  BY <1>4, <1>5

LEMMA WalkInChain ==
  ASSUME NEW up \in Pointers, NEW p \in Entity, NEW h \in 0..MaxHops,
         NEW t \in Walked(up, <<p, h>>)
  PROVE  t[1] \in Chain(up, p)
<1>1. PICK S : S = {u \in Place : u[1] \in Chain(up, p)}
  OBVIOUS
<1>2. S \in SUBSET Place /\ <<p, h>> \in S
  BY <1>1, ChainStarts DEF Place
<1>3. ASSUME NEW u \in S, u[2] > 0
      PROVE  OneHop(up, u) \in S
  <2>1. u \in Place /\ u[1] \in Chain(up, p) /\ OneHop(up, u) \in Place
    BY <1>1, <1>3, HopsInPlace
  <2>2. OneHop(up, u)[1] \in Chain(up, p)
    BY <2>1, ChainGoesOn DEF OneHop
  <2> QED
    BY <1>1, <2>1, <2>2
<1>4. Walked(up, <<p, h>>) \subseteq S
  BY <1>2, <1>3, WalkLeast DEF Closed
<1> QED
  BY <1>1, <1>4

(* A walk has enough hops for a chain within the bound. *)
LEMMA WalkArrives ==
  ASSUME NEW up \in Pointers, Acyclic(up), NEW p \in Entity,
         Cardinality(Chain(up, p)) - 1 <= MaxHops,
         NEW y, <<y, 0>> \in Walked(up, <<p, MaxHops>>)
  PROVE  y = Survivor(up, p)
<1> DEFINE Length(q) == Cardinality(Chain(up, q))
<1>1. MaxHops \in Nat /\ <<p, MaxHops>> \in Place
  BY BoundAssumption DEF Place
<1>2. \A q \in Entity : /\ Length(q) \in Nat \ {0}
                        /\ up[q] = Nil <=> Length(q) = 1
                        /\ up[q] # Nil => Length(q) = Length(up[q]) + 1
  BY ChainLength
<1> HIDE DEF Length
<1>3. PICK S : S = {u \in Place : \/ u[2] = 0 /\ up[u[1]] = Nil
                                  \/ Length(p) = Length(u[1]) + (MaxHops - u[2])}
  OBVIOUS
<1>4. <<p, MaxHops>> \in S
  BY <1>1, <1>2, <1>3
<1>5. ASSUME NEW u \in S, u[2] > 0
      PROVE  OneHop(up, u) \in S
  <2>1. PICK at \in Entity, hops \in 0..MaxHops : u = <<at, hops>>
    BY <1>3 DEF Place
  <2>2. hops > 0 /\ Length(p) = Length(at) + (MaxHops - hops) /\ OneHop(up, u) \in Place
    BY <1>3, <1>5, <2>1, HopsInPlace
  <2>3. CASE up[at] = Nil
    BY <1>3, <2>1, <2>2, <2>3 DEF OneHop
  <2>4. CASE up[at] # Nil
    <3>1. up[at] \in Entity
      BY <2>4 DEF Pointers
    <3>2. Length(p) = Length(up[at]) + (MaxHops - (hops - 1))
      BY <1>1, <1>2, <2>2, <2>4, <3>1
    <3>3. OneHop(up, u) = <<up[at], hops - 1>>
      BY <2>1, <2>4 DEF OneHop
    <3> QED
      BY <1>3, <2>2, <3>2, <3>3
  <2> QED
    BY <2>3, <2>4
<1>6. <<y, 0>> \in S
  BY <1>3, <1>4, <1>5, WalkLeast DEF Closed
<1>7. y \in Entity /\ (up[y] = Nil \/ Length(p) = Length(y) + MaxHops)
  BY <1>1, <1>3, <1>6 DEF Place
<1>8. Length(p) - 1 <= MaxHops
  BY DEF Length
<1>9. up[y] = Nil
  BY <1>1, <1>2, <1>7, <1>8
<1>10. y \in Chain(up, p)
  <2>1. <<y, 0>>[1] \in Chain(up, p)
    BY <1>1, WalkInChain
  <2> QED
    BY <2>1
<1> QED
  BY <1>9, <1>10, EndIsSurvivor

-----------------------------------------------------------------------------
(* Ranks along a chain, and who is merged into a person *)

LEMMA RanksAlong ==
  ASSUME NEW up \in Pointers, NEW level \in [Entity -> Ranks],
         \A r \in Entity : up[r] # Nil => level[r] <= level[up[r]],
         NEW p \in Entity, NEW q \in Chain(up, p)
  PROVE  level[p] <= level[q]
<1>1. PICK S : S = {r \in Entity : level[p] <= level[r]}
  OBVIOUS
<1>2. \A r \in Entity : level[r] \in Nat
  BY BoundAssumption
<1>3. S \in SUBSET Entity /\ p \in S
  BY <1>1, <1>2
<1>4. ASSUME NEW r \in S, up[r] # Nil
      PROVE  up[r] \in S
  <2>1. r \in Entity /\ up[r] \in Entity /\ level[p] <= level[r] /\ level[r] <= level[up[r]]
    BY <1>1, <1>4 DEF Pointers
  <2> QED
    BY <1>1, <1>2, <2>1
<1>5. Chain(up, p) \subseteq S
  BY <1>3, <1>4, ChainLeast
<1> QED
  BY <1>1, <1>5

(* Who is merged into root, in at most n steps. *)
Merged(up, root) == {q \in Entity : root \in Chain(up, q)}
Near(up, root, n) == {q \in Merged(up, root) : Cardinality(Chain(up, q)) - 1 <= n}
Ring(up, root, n) == {q \in Merged(up, root) : Cardinality(Chain(up, q)) - 1 = n}

LEMMA MergedIsIdentity ==
  ASSUME NEW up \in Pointers, Acyclic(up), NEW p \in Entity
  PROVE  Merged(up, Survivor(up, p)) = Identity(up, p)
<1>1. PICK s \in Entity : s = Survivor(up, p) /\ up[s] = Nil
  BY SurvivorEnds
<1>2. ASSUME NEW q \in Entity
      PROVE  s \in Chain(up, q) <=> Survivor(up, q) = s
  BY <1>1, SurvivorEnds, EndIsSurvivor
<1> QED
  BY <1>1, <1>2 DEF Merged, Identity

LEMMA OneLevelDown ==
  ASSUME NEW up \in Pointers, Acyclic(up), NEW root \in Entity, up[root] = Nil, NEW n \in Nat
  PROVE  /\ {p \in Entity : up[p] \in Ring(up, root, n)} \ Near(up, root, n)
              = Ring(up, root, n + 1)
         /\ Near(up, root, n) \cup Ring(up, root, n + 1) = Near(up, root, n + 1)
<1> DEFINE found == {p \in Entity : up[p] \in Ring(up, root, n)} \ Near(up, root, n)
<1> DEFINE Length(q) == Cardinality(Chain(up, q))
<1>1. \A q \in Entity : /\ Length(q) \in Nat \ {0}
                        /\ up[q] = Nil <=> Length(q) = 1
                        /\ up[q] # Nil => Length(q) = Length(up[q]) + 1
  BY ChainLength
<1>2. /\ Near(up, root, n) = {q \in Merged(up, root) : Length(q) - 1 <= n}
      /\ Near(up, root, n + 1) = {q \in Merged(up, root) : Length(q) - 1 <= n + 1}
      /\ Ring(up, root, n) = {q \in Merged(up, root) : Length(q) - 1 = n}
      /\ Ring(up, root, n + 1) = {q \in Merged(up, root) : Length(q) - 1 = n + 1}
  BY DEF Near, Ring
<1> HIDE DEF Length
<1>3. ASSUME NEW q \in Entity, up[q] # Nil
      PROVE  /\ up[q] \in Entity
             /\ q \in Merged(up, root) <=> up[q] \in Merged(up, root)
  <2>1. up[q] \in Entity /\ Chain(up, q) = {q} \cup Chain(up, up[q])
    BY <1>3, ChainUnfolds DEF Pointers
  <2> QED
    BY <1>3, <2>1 DEF Merged
<1>4. Merged(up, root) \subseteq Entity /\ Nil \notin Entity
  BY NilAssumption DEF Merged
<1>5. ASSUME NEW q \in Entity
      PROVE  q \in found <=> q \in Ring(up, root, n + 1)
  BY <1>1, <1>2, <1>3, <1>4
<1>6. found = Ring(up, root, n + 1)
  BY <1>2, <1>4, <1>5
<1>7. ASSUME NEW q \in Entity
      PROVE  Length(q) - 1 <= n + 1 <=> Length(q) - 1 <= n \/ Length(q) - 1 = n + 1
  BY <1>1
<1> QED
  BY <1>2, <1>4, <1>6, <1>7

(* Nobody at one level: nobody further down. *)
LEMMA NoLevelDown ==
  ASSUME NEW up \in Pointers, Acyclic(up), NEW root \in Entity, up[root] = Nil, NEW n \in Nat,
         \A p \in Entity : up[p] \in Ring(up, root, n) => p \in Near(up, root, n)
  PROVE  Near(up, root, n) = Merged(up, root)
<1> DEFINE Length(q) == Cardinality(Chain(up, q))
<1>1. \A q \in Entity : /\ Length(q) \in Nat \ {0}
                        /\ up[q] = Nil <=> Length(q) = 1
                        /\ up[q] # Nil => Length(q) = Length(up[q]) + 1
  BY ChainLength
<1>2. /\ Near(up, root, n) = {q \in Merged(up, root) : Length(q) - 1 <= n}
      /\ Ring(up, root, n) = {q \in Merged(up, root) : Length(q) - 1 = n}
  BY DEF Near, Ring
<1> HIDE DEF Length
<1>3. root \in Near(up, root, n)
  BY <1>1, <1>2, ChainStarts DEF Merged
<1>4. PICK S : S = Entity \ Near(up, root, n)
  OBVIOUS
<1>5. ASSUME NEW r \in S, up[r] # Nil
      PROVE  up[r] \in S
  <2>1. r \in Entity /\ up[r] \in Entity
    BY <1>4, <1>5 DEF Pointers
  <2> SUFFICES ASSUME up[r] \in Near(up, root, n) PROVE FALSE
    BY <1>4, <2>1
  <2>2. up[r] \notin Ring(up, root, n)
    BY <1>4, <2>1
  <2>3. up[r] \in Merged(up, root) /\ Length(up[r]) - 1 < n
    BY <1>1, <1>2, <2>1, <2>2
  <2>4. r \in Merged(up, root)
    BY <1>5, <2>1, <2>3, ChainUnfolds DEF Merged
  <2>5. r \in Near(up, root, n)
    BY <1>1, <1>2, <1>5, <2>1, <2>3, <2>4
  <2> QED
    BY <1>4, <2>5
<1>6. ASSUME NEW q \in S
      PROVE  q \notin Merged(up, root)
  <2>1. q \in Entity /\ S \in SUBSET Entity
    BY <1>4
  <2>2. Chain(up, q) \subseteq S
    BY <1>5, <2>1, ChainLeast
  <2> QED
    BY <1>3, <1>4, <2>2 DEF Merged
<1> QED
  BY <1>2, <1>4, <1>6 DEF Merged

-----------------------------------------------------------------------------
(* The tables: no circles, ranks rise, and at most one change is seen.     *)
Tables ==
  /\ Acyclic(parent)
  /\ \A p \in Entity : parent[p] # Nil => rank[p] <= rank[parent[p]]
  /\ \A p \in Address : parent[p] = Nil
  /\ request = Nil => before = parent
  /\ Wide \in {before, parent}

(* What is still looked up comes after what was found.                     *)
InLine(done, rest, from) ==
  /\ Len(from) = Len(done) + Len(rest)
  /\ \A i \in 1..Len(rest) : rest[i] = from[Len(done) + i]

SamePlace == Len(facts.roots) = 2 /\ facts.roots[1] = facts.roots[2]

Complete ==
  LET sides == IF request.kind = "edge" THEN 0 ELSE Len(Named)
  IN  Len(facts.sides) = sides /\ Len(facts.roots) = sides /\ Len(facts.clusters) = sides

(* How far the handler has come with its facts.                            *)
Phase ==
  /\ request # Nil => Len(Named) = IF request.kind = "paths" THEN 2 ELSE 1
  /\ step \in Walking \cup {"below"} => todo # <<>>
  /\ step \in Walking => walk.at \in Entity
  /\ step \in {"see", "root", "below"} => request.kind # "edge"
  /\ step = "idle" => facts = NoFacts
  /\ step = "see" => InLine(facts.sides, todo, Named) /\ facts.roots = <<>> /\ facts.clusters = <<>>
  /\ step \in {"root", "below"} => Len(facts.sides) = Len(Named)
  /\ step = "root" => InLine(facts.roots, todo, Named) /\ facts.clusters = <<>>
  /\ step = "below" => Len(facts.roots) = Len(Named) /\ InLine(facts.clusters, todo, facts.roots)
  /\ step = "below" => walk.levels > 0
  /\ step \in {"graph", "records", "ends"} => Complete
  /\ step \in {"below", "graph", "records", "ends"} => ~SamePlace
  /\ step = "done" =>
       IF SamePlace THEN /\ request.kind = "paths" /\ Len(facts.sides) = 2
                         /\ facts.clusters = <<>>
                    ELSE Complete
  /\ step = "done" /\ SamePlace => shown = {}
  /\ step \notin {"records", "ends"} => work = {}
  /\ \A r \in work : r.ends # <<>>
  /\ step \notin {"records", "ends", "done"} => shown = {}

Control == TypeOK /\ Tables /\ Phase

Leads(up, done, from) == \A i \in 1..Len(done) : done[i] \in Chain(up, from[i])

(* Whatever was found belongs to what was asked, by the wide pointers.     *)
Way ==
  /\ Leads(Wide, facts.sides, Named) /\ Leads(Wide, facts.roots, Named)
  /\ \A i \in 1..Len(facts.clusters) :
       \A q \in facts.clusters[i] : facts.roots[i] \in Chain(Wide, q)
  /\ step \in Walking => walk.at \in Chain(Wide, todo[1])
  /\ step = "below" => /\ walk.rim \subseteq walk.all
                       /\ \A q \in walk.all : todo[1] \in Chain(Wide, q)

(* Records of the graph for the clusters that were found.                  *)
Rightful(kind, clusters, path, ends) ==
  IF kind = "edges"
    THEN /\ Len(path) = 1
         /\ \E near \in clusters[1], far \in Entity :
              {near, far} = {From[path[1]], To[path[1]]} /\ ends = <<far>>
    ELSE /\ Len(path) > 0 /\ ends = BothEnds(path)
         /\ kind = "paths" =>
              \E a \in clusters[1], b \in clusters[2] : Connects(path, a, b)

EndsOf(path) == {<<q>> : q \in Entity} \cup {BothEnds(path)}

Found ==
  /\ \A r \in work : Rightful(request.kind, facts.clusters, r.path, r.ends)
  /\ step = "ends" =>
       \E ends \in EndsOf(record.path) :
         /\ Rightful(request.kind, facts.clusters, record.path, ends)
         /\ InLine(record.ends, todo, ends) /\ Leads(Wide, record.ends, ends)
  /\ \A r \in shown :
       \E ends \in EndsOf(r.path) :
         /\ Rightful(request.kind, facts.clusters, r.path, ends)
         /\ Len(ends) = Len(r.ends) /\ Leads(Wide, r.ends, ends)

Walk(up, p, q, hops) == <<q, hops>> \in Walked(up, <<p, MaxHops>>)

(* As long as nothing has changed, the walks can be taken again.           *)
Calm ==
  Undisturbed =>
    /\ step \in Walking => Walk(parent, todo[1], walk.at, walk.hops)
    /\ \A i \in 1..Len(facts.sides) :
         Walk(parent, Named[i], facts.sides[i], 0) /\ Readable(facts.sides[i])
    /\ \A i \in 1..Len(facts.roots) : Walk(parent, Named[i], facts.roots[i], 0)
    /\ step = "ends" => \A i \in 1..Len(record.ends) : Readable(record.ends[i])
    /\ \A r \in shown : \A i \in 1..Len(r.ends) : Readable(r.ends[i])

Due == {s \in Related : \A i \in 1..Len(s.path) : Mirrored(s.path[i])}

Under(up, s) ==
  [path |-> s.path, ends |-> [i \in 1..Len(s.ends) |-> Survivor(up, s.ends[i])]]

Owed == {s \in Due : MayShow(Under(parent, s))}

Settled(up, owed, rest, out) == \A s \in owed : s \in rest \/ Under(up, s) \in out

Current(up, path, done, rest, s) ==
  /\ s.path = path
  /\ InLine(done, rest, s.ends)
  /\ \A i \in 1..Len(done) : done[i] = Survivor(up, s.ends[i])

(* Within the bounds everything related is asked for and gone through.     *)
Exact ==
  (Undisturbed /\ ShortChains) =>
    /\ step = "below" => /\ walk.all = Near(parent, todo[1], MaxLevels - walk.levels)
                         /\ walk.rim = Ring(parent, todo[1], MaxLevels - walk.levels)
    /\ \A i \in 1..Len(facts.clusters) : facts.clusters[i] = Identity(parent, Named[i])
    /\ work \subseteq Due
    /\ shown \subseteq {Under(parent, s) : s \in Owed}
    /\ step \in {"records", "done"} /\ ~SamePlace => Settled(parent, Owed, work, shown)
    /\ step = "ends" =>
         \E s \in Due : /\ Current(parent, record.path, record.ends, todo, s)
                        /\ Settled(parent, Owed \ {s}, work, shown)

IInv == Control /\ Way /\ Found /\ Calm /\ Exact

-----------------------------------------------------------------------------
(* The two writers *)

LEMMA WideType == TypeOK => Wide \in Pointers /\ parent \in Pointers /\ before \in Pointers
BY DEF TypeOK, Wide, Pointers

LEMMA WideIsWider == Wider(parent, Wide)
BY DEF Wider, Wide

LEMMA InitTables == Init => Tables
<1> SUFFICES ASSUME Init PROVE Tables
  OBVIOUS
<1>1. \A p \in Entity : parent[p] = Nil
  BY DEF Init
<1>2. Acyclic(parent)
  BY <1>1, NilAssumption DEF Acyclic
<1>3. Wide = parent
  BY <1>1 DEF Init, Wide
<1> QED
  BY <1>1, <1>2, <1>3, GraphAssumption DEF Init, Tables

LEMMA MergeTables ==
  ASSUME TypeOK, Tables, NEW p \in Entity \ Address, NEW a \in Entity \ Address,
         Merge(p, a)
  PROVE  TypeOK' /\ Tables' /\ (request # Nil => parent = before /\ parent' # before)
<1>1. /\ p # a /\ parent[p] = Nil /\ parent[a] = Nil
      /\ parent' = [parent EXCEPT ![a] = p]
      /\ rank' = [rank EXCEPT ![p] = SurvivorRank(rank[p], rank[a])]
      /\ UNCHANGED handler
      /\ request # Nil => parent = before
      /\ before' = IF request = Nil THEN parent' ELSE before
  BY DEF Merge, Change, Ledger!Absorb, Ledger!Independent, TypeOK
<1>2. /\ parent \in [Entity -> Entity \cup {Nil}] /\ rank \in [Entity -> Ranks]
      /\ before \in [Entity -> Entity \cup {Nil}] /\ Nil \notin Entity
      /\ \A q \in Entity : rank[q] \in Nat
  BY NilAssumption, BoundAssumption DEF TypeOK
<1>3. SurvivorRank(rank[p], rank[a]) \in Ranks
  BY <1>2 DEF SurvivorRank
<1>4. TypeOK'
  <2>1. parent' \in [Entity -> Entity \cup {Nil}] /\ rank' \in [Entity -> Ranks]
    BY <1>1, <1>2, <1>3
  <2>2. before' \in [Entity -> Entity \cup {Nil}]
    BY <1>1, <1>2, <2>1
  <2> QED
    BY <1>1, <2>1, <2>2 DEF TypeOK, handler
<1>5. Acyclic(parent')
  <2> SUFFICES ASSUME NEW S \in SUBSET Entity, S # {} PROVE \E q \in S : parent'[q] \notin S
    BY DEF Acyclic
  <2>1. PICK q \in S : parent[q] \notin S
    BY DEF Tables, Acyclic
  <2>2. CASE q # a
    BY <1>1, <1>2, <2>1, <2>2
  <2>3. CASE q = a /\ p \notin S
    BY <1>1, <1>2, <2>3
  <2>4. CASE p \in S
    BY <1>1, <1>2, <2>4
  <2> QED
    BY <2>2, <2>3, <2>4
<1>6. ASSUME NEW q \in Entity, parent'[q] # Nil
      PROVE  rank'[q] <= rank'[parent'[q]]
  <2>1. rank[p] <= rank'[p] /\ rank[a] <= rank'[p] /\ \A r \in Entity \ {p} : rank'[r] = rank[r]
    BY <1>1, <1>2 DEF SurvivorRank
  <2>2. CASE q = a
    BY <1>1, <1>2, <2>1, <2>2
  <2>3. CASE q # a
    <3>1. q # p /\ parent'[q] = parent[q] /\ parent[q] \in Entity /\ rank[q] <= rank[parent[q]]
      BY <1>1, <1>2, <1>6, <2>3 DEF Tables
    <3>2. rank[parent[q]] <= rank'[parent[q]]
      BY <1>2, <2>1, <3>1
    <3>3. rank'[q] = rank[q] /\ rank'[parent[q]] \in Nat
      BY <1>2, <1>4, <2>1, <3>1, BoundAssumption DEF TypeOK
    <3> QED
      BY <1>2, <3>1, <3>2, <3>3
  <2> QED
    BY <2>2, <2>3
<1>7. Wide' = parent'
  <2>1. parent = before
    BY <1>1 DEF Tables
  <2>2. before' \in {parent, parent'}
    BY <1>1, <2>1
  <2>3. \A q \in Entity : (IF parent'[q] # Nil THEN parent'[q] ELSE before'[q]) = parent'[q]
    BY <1>1, <1>2, <2>2
  <2>4. Wide' = [q \in Entity |-> parent'[q]]
    BY <2>3 DEF Wide
  <2> QED
    BY <1>1, <1>2, <2>4
<1>8. request # Nil => parent = before /\ parent' # before
  BY <1>1, <1>2
<1>9. request' = request
  BY <1>1 DEF handler
<1>10. \A q \in Address : parent'[q] = Nil
  BY <1>1, <1>2, GraphAssumption DEF Tables
<1> QED
  BY <1>1, <1>4, <1>5, <1>6, <1>7, <1>8, <1>9, <1>10 DEF Tables

LEMMA ReverseTables ==
  ASSUME TypeOK, Tables, NEW a \in Entity, Reverse(a)
  PROVE  TypeOK' /\ Tables' /\ (request # Nil => parent = before /\ parent' # before)
<1>1. /\ parent[a] # Nil
      /\ parent' = [parent EXCEPT ![a] = Nil]
      /\ rank' = rank
      /\ UNCHANGED handler
      /\ request # Nil => parent = before
      /\ before' = IF request = Nil THEN parent' ELSE before
  BY DEF Reverse, Change, Ledger!Free, Ledger!Independent, TypeOK
<1>2. /\ parent \in [Entity -> Entity \cup {Nil}] /\ rank \in [Entity -> Ranks]
      /\ before \in [Entity -> Entity \cup {Nil}] /\ Nil \notin Entity
  BY NilAssumption DEF TypeOK
<1>3. TypeOK'
  <2>1. parent' \in [Entity -> Entity \cup {Nil}]
    BY <1>1, <1>2
  <2>2. before' \in [Entity -> Entity \cup {Nil}]
    BY <1>1, <1>2, <2>1
  <2> QED
    BY <1>1, <2>1, <2>2 DEF TypeOK, handler
<1>4. Acyclic(parent')
  <2> SUFFICES ASSUME NEW S \in SUBSET Entity, S # {} PROVE \E q \in S : parent'[q] \notin S
    BY DEF Acyclic
  <2>1. PICK q \in S : parent[q] \notin S
    BY DEF Tables, Acyclic
  <2> QED
    BY <1>1, <1>2, <2>1
<1>5. ASSUME NEW q \in Entity, parent'[q] # Nil
      PROVE  rank'[q] <= rank'[parent'[q]]
  BY <1>1, <1>2, <1>5 DEF Tables
<1>6. Wide' \in {before', parent'}
  <2>1. parent = before
    BY <1>1 DEF Tables
  <2>2. CASE request = Nil
    <3>1. \A q \in Entity : (IF parent'[q] # Nil THEN parent'[q] ELSE before'[q]) = parent'[q]
      BY <1>1, <2>2
    <3>2. Wide' = [q \in Entity |-> parent'[q]]
      BY <3>1 DEF Wide
    <3> QED
      BY <1>1, <1>2, <3>2
  <2>3. CASE request # Nil
    <3>1. \A q \in Entity : (IF parent'[q] # Nil THEN parent'[q] ELSE before'[q]) = before[q]
      BY <1>1, <1>2, <2>1, <2>3
    <3>2. Wide' = [q \in Entity |-> before[q]]
      BY <3>1 DEF Wide
    <3> QED
      BY <1>1, <1>2, <2>3, <3>2
  <2> QED
    BY <2>2, <2>3
<1>7. request # Nil => parent = before /\ parent' # before
  BY <1>1, <1>2
<1>8. request' = request
  BY <1>1 DEF handler
<1>9. \A q \in Address : parent'[q] = Nil
  BY <1>1, <1>2, GraphAssumption DEF Tables
<1> QED
  BY <1>1, <1>3, <1>4, <1>5, <1>6, <1>7, <1>8, <1>9 DEF Tables

(* A merge or a reversal adds to the wide pointers or leaves them. *)
LEMMA WriteWidens ==
  ASSUME TypeOK, Tables, request # Nil, Write
  PROVE  Wider(Wide, Wide')
<1>1. /\ parent = before /\ before' = before
      /\ \/ \E p, a \in Entity : parent[a] = Nil /\ parent' = [parent EXCEPT ![a] = p]
         \/ \E a \in Entity : parent' = [parent EXCEPT ![a] = Nil]
  BY DEF Write, Merge, Reverse, Change, Ledger!Absorb, Ledger!Free, Ledger!Independent
<1>2. /\ Wide = [q \in Entity |-> parent[q]]
      /\ Wide' = [q \in Entity |-> IF parent'[q] # Nil THEN parent'[q] ELSE parent[q]]
  BY <1>1 DEF Wide
<1>3. parent \in [Entity -> Entity \cup {Nil}]
  BY DEF TypeOK
<1> QED
  BY <1>1, <1>2, <1>3 DEF Wider

-----------------------------------------------------------------------------
(* Lookups *)

WalkType == [at : Entity \cup {Nil}, hops : 0..MaxHops, all : SUBSET Entity,
             rim : SUBSET Entity, levels : 0..MaxLevels]

LEMMA NewWalkType ==
  ASSUME NEW entities \in Seq(Entity)
  PROVE  /\ NewWalk(entities) \in WalkType
         /\ entities # <<>> =>
              /\ entities[1] \in Entity
              /\ NewWalk(entities) =
                   [at |-> entities[1], hops |-> MaxHops, all |-> {entities[1]},
                    rim |-> {entities[1]}, levels |-> MaxLevels]
<1>1. MaxHops \in 0..MaxHops /\ MaxLevels \in 0..MaxLevels /\ 0 \in 0..MaxHops /\ 0 \in 0..MaxLevels
  BY BoundAssumption
<1>2. CASE entities = <<>>
  BY <1>1, <1>2 DEF NewWalk, NoWalk, WalkType
<1>3. CASE entities # <<>>
  <2>1. Head(entities) = entities[1] /\ entities[1] \in Entity
    BY <1>3
  <2> QED
    BY <1>1, <1>3, <2>1 DEF NewWalk, WalkType
<1> QED
  BY <1>2, <1>3

LEMMA LookUpHolds ==
  ASSUME NEW next, NEW entities \in Seq(Entity), LookUp(next, entities)
  PROVE  /\ step' = next /\ todo' = entities /\ todo' \in Seq(Entity) /\ walk' \in WalkType
         /\ entities # <<>> =>
              /\ todo' # <<>>
              /\ entities[1] \in Entity /\ walk'.at = entities[1] /\ walk'.hops = MaxHops
              /\ walk'.all = {entities[1]} /\ walk'.rim = {entities[1]}
              /\ walk'.levels = MaxLevels
BY NewWalkType DEF LookUp

(* GoOn takes the next entity of this step, or turns to the next step. *)
LEMMA GoOnHolds ==
  ASSUME NEW next, NEW entities \in Seq(Entity), todo \in Seq(Entity), todo # <<>>,
         GoOn(next, entities)
  PROVE  /\ todo' \in Seq(Entity) /\ walk' \in WalkType
         /\ todo' # <<>> =>
              /\ todo'[1] \in Entity /\ walk'.at = todo'[1] /\ walk'.hops = MaxHops
              /\ walk'.all = {todo'[1]} /\ walk'.rim = {todo'[1]}
              /\ walk'.levels = MaxLevels
         /\ \/ Len(todo) > 1 /\ step' = step /\ todo' = Tail(todo) /\ todo' # <<>>
            \/ Len(todo) = 1 /\ step' = next /\ todo' = entities
<1>1. Len(todo) \in Nat \ {0}
  BY EmptySeq
<1>2. CASE Len(todo) > 1
  <2>1. Tail(todo) \in Seq(Entity) /\ Tail(todo) # <<>>
    BY <1>2
  <2> QED
    BY <1>2, <2>1, LookUpHolds DEF GoOn
<1>3. CASE ~(Len(todo) > 1)
  <2>1. LookUp(next, entities)
    BY <1>3, Zenon DEF GoOn
  <2>2. step' = next /\ todo' = entities /\ walk' \in WalkType
    BY <2>1, LookUpHolds
  <2>3. todo' # <<>> =>
          /\ todo'[1] \in Entity /\ walk'.at = todo'[1] /\ walk'.hops = MaxHops
          /\ walk'.all = {todo'[1]} /\ walk'.rim = {todo'[1]}
          /\ walk'.levels = MaxLevels
    BY <2>1, <2>2, LookUpHolds
  <2>4. Len(todo) = 1
    <3>1. \A n \in Nat \ {0} : ~(n > 1) => n = 1
      OBVIOUS
    <3> QED
      BY <1>1, <1>3, <3>1, Zenon
  <2> QED
    BY <2>2, <2>3, <2>4
<1> QED
  BY <1>2, <1>3

LEMMA OneMore ==
  ASSUME NEW S, NEW done \in Seq(S), NEW x \in S, NEW rest \in Seq(Entity), rest # <<>>,
         NEW T, NEW from \in Seq(T), InLine(done, rest, from)
  PROVE  /\ Append(done, x) \in Seq(S)
         /\ Len(Append(done, x)) = Len(done) + 1
         /\ \A i \in 1..Len(done) : Append(done, x)[i] = done[i]
         /\ Append(done, x)[Len(done) + 1] = x
         /\ rest[1] = from[Len(done) + 1]
         /\ Len(done) + 1 \in 1..Len(from)
         /\ Len(rest) = 1 => Len(Append(done, x)) = Len(from)
         /\ Len(rest) > 1 => InLine(Append(done, x), Tail(rest), from)
<1>1. /\ Append(done, x) \in Seq(S) /\ Len(Append(done, x)) = Len(done) + 1
      /\ \A i \in 1..Len(done) : Append(done, x)[i] = done[i]
      /\ Append(done, x)[Len(done) + 1] = x
  OBVIOUS
<1>2. Len(rest) \in Nat \ {0} /\ Len(done) \in Nat /\ Len(from) = Len(done) + Len(rest)
  BY EmptySeq DEF InLine
<1>3. rest[1] = from[Len(done) + 1]
  BY <1>2 DEF InLine
<1>4. /\ Len(done) + 1 \in 1..Len(from)
      /\ Len(rest) = 1 => Len(Append(done, x)) = Len(from)
  <2>1. Len(done) + 1 \in 1..(Len(done) + Len(rest))
    BY <1>2
  <2> QED
    BY <1>1, <1>2, <2>1
<1>5. ASSUME Len(rest) > 1 PROVE InLine(Append(done, x), Tail(rest), from)
  <2>1. Len(Tail(rest)) = Len(rest) - 1 /\ \A i \in 1..Len(rest) - 1 : Tail(rest)[i] = rest[i + 1]
    BY <1>4
  <2>2. ASSUME NEW i \in 1..Len(rest) - 1
        PROVE  rest[i + 1] = from[(Len(done) + 1) + i]
    <3>1. i + 1 \in 1..Len(rest) /\ Len(done) + (i + 1) = (Len(done) + 1) + i
      BY <1>2
    <3>2. rest[i + 1] = from[Len(done) + (i + 1)]
      BY <3>1 DEF InLine
    <3> QED
      BY <3>1, <3>2
  <2> QED
    BY <1>1, <1>2, <2>1, <2>2 DEF InLine
<1> QED
  BY <1>1, <1>3, <1>4, <1>5

LEMMA NothingYet ==
  ASSUME NEW rest, NEW from, rest = from, from \in Seq(Entity)
  PROVE  InLine(<<>>, rest, from)
<1>1. Len(from) \in Nat /\ Len(<<>>) = 0
  BY EmptySeq
<1>2. \A i \in 1..Len(from) : 0 + i = i
  BY <1>1
<1> QED
  BY <1>1, <1>2 DEF InLine

-----------------------------------------------------------------------------
(* The control of the handler *)

LEMMA NothingToLookUp ==
  ASSUME NEW next, LookUp(next, <<>>)
  PROVE  step' = next /\ todo' = <<>> /\ todo' \in Seq(Entity) /\ walk' \in WalkType
<1>1. <<>> \in Seq(Entity)
  OBVIOUS
<1> QED
  BY <1>1, LookUpHolds

LEMMA StillTables ==
  ASSUME Tables, UNCHANGED <<parent, rank, before>>, request' = request \/ request' # Nil
  PROVE  Tables'
BY DEF Tables, Wide

LEMMA InitControl == Init => Control
<1> SUFFICES ASSUME Init PROVE Control
  OBVIOUS
<1>1. TypeOK
  <2>1. 0 \in 0..MaxHops /\ 0 \in 0..MaxLevels
    BY BoundAssumption
  <2>2. walk \in WalkType
    BY <2>1 DEF Init, NoWalk, WalkType
  <2>3. facts \in [sides : Seq(Entity), roots : Seq(Entity), clusters : Seq(SUBSET Entity)]
    BY DEF Init, NoFacts
  <2>4. record \in Record /\ todo \in Seq(Entity)
    BY DEF Init, NoRecord, Record
  <2>5. rank \in [Entity -> Ranks]
    BY GraphAssumption DEF Init
  <2> QED
    BY <2>2, <2>3, <2>4, <2>5 DEF Init, TypeOK, Steps, Walking, WalkType
<1>2. Phase
  BY DEF Init, Phase, Walking
<1> QED
  BY <1>1, <1>2, InitTables DEF Control

LEMMA EndControl ==
  ASSUME Control, End
  PROVE  Control' /\ step' = "idle" /\ facts' = NoFacts /\ work' = {} /\ shown' = {}
                  /\ before' = parent' /\ request' = Nil
<1>1. /\ request' = Nil /\ facts' = NoFacts /\ work' = {} /\ record' = NoRecord /\ shown' = {}
      /\ before' = parent /\ parent' = parent /\ rank' = rank
      /\ LookUp("idle", <<>>)
  BY DEF End, table
<1>2. step' = "idle" /\ todo' = <<>> /\ walk' \in WalkType
  BY <1>1, NothingToLookUp
<1>3. TypeOK'
  <2>1. facts' \in [sides : Seq(Entity), roots : Seq(Entity), clusters : Seq(SUBSET Entity)]
    BY <1>1 DEF NoFacts
  <2>2. record' \in Record /\ todo' \in Seq(Entity)
    BY <1>1, <1>2 DEF NoRecord, Record
  <2> QED
    BY <1>1, <1>2, <2>1, <2>2 DEF Control, TypeOK, Steps, Walking, WalkType
<1>4. Phase'
  BY <1>1, <1>2 DEF Phase, Walking
<1>5. Tables'
  <2>1. Wide' = [q \in Entity |-> parent[q]]
    BY <1>1 DEF Wide
  <2>2. Wide' = parent
    BY <2>1 DEF Control, TypeOK
  <2> QED
    BY <1>1, <2>2 DEF Control, Tables
<1> QED
  BY <1>1, <1>2, <1>3, <1>4, <1>5 DEF Control

LEMMA AskControl ==
  ASSUME Control, NEW kind \in {"edges", "paths"}, NEW named \in Seq(Entity),
         Len(named) = IF kind = "paths" THEN 2 ELSE 1,
         NEW sees \in Clearance, NEW covers \in Coverage, Ask(kind, named, sees, covers)
  PROVE  Control'
<1>1. /\ step = "idle"
      /\ request' = [kind |-> kind, named |-> named, sees |-> sees, covers |-> covers]
      /\ UNCHANGED <<parent, rank, facts, work, record, shown, before>>
      /\ LookUp("see", named)
  BY DEF Ask, table
<1>2. named # <<>>
  BY EmptySeq
<1>3. /\ step' = "see" /\ todo' = named /\ walk' \in WalkType
      /\ walk'.at \in Entity /\ todo' # <<>>
  BY <1>1, <1>2, LookUpHolds
<1>4. request' \in Request /\ request' # Nil
  BY <1>1, RequestAssumption DEF Request
<1>5. TypeOK'
  BY <1>1, <1>3, <1>4 DEF Control, TypeOK, Steps, Walking, WalkType
<1>6. Phase'
  <2>1. facts' = NoFacts /\ work' = {} /\ shown' = {}
    BY <1>1 DEF Control, Phase
  <2>2. Named' = named /\ request'.kind = kind /\ InLine(<<>>, todo', Named')
    BY <1>1, <1>3, NothingYet DEF Named
  <2> QED
    BY <1>3, <2>1, <2>2 DEF Phase, Walking, NoFacts
<1> QED
  BY <1>1, <1>4, <1>5, <1>6, StillTables DEF Control

LEMMA AskEdgeControl ==
  ASSUME Control, NEW x \in Edge, NEW sees \in Clearance, NEW covers \in Coverage,
         AskEdge(x, sees, covers)
  PROVE  Control'
<1>1. /\ step = "idle"
      /\ request' = [kind |-> "edge", named |-> <<x>>, sees |-> sees, covers |-> covers]
      /\ UNCHANGED <<parent, rank, facts, work, record, shown, before>>
      /\ LookUp("graph", <<>>)
  BY DEF AskEdge, table
<1>2. step' = "graph" /\ todo' = <<>> /\ walk' \in WalkType
  BY <1>1, NothingToLookUp
<1>3. request' \in Request /\ request' # Nil
  <2>1. <<x>> \in Seq(Edge)
    OBVIOUS
  <2>2. PICK named \in Seq(Edge) : named = <<x>>
    BY <2>1
  <2>3. request' = [kind |-> "edge", named |-> named, sees |-> sees, covers |-> covers]
    BY <1>1, <2>2
  <2> QED
    BY <2>3, RequestAssumption DEF Request
<1>4. TypeOK'
  BY <1>1, <1>2, <1>3 DEF Control, TypeOK, Steps, Walking, WalkType
<1>5. Phase'
  <2>1. facts' = NoFacts /\ work' = {} /\ shown' = {}
    BY <1>1 DEF Control, Phase
  <2>2. Named' = <<x>> /\ request'.kind = "edge"
    BY <1>1 DEF Named
  <2> QED
    BY <1>2, <2>1, <2>2 DEF Phase, Walking, NoFacts, Complete, SamePlace
<1> QED
  BY <1>1, <1>3, <1>4, <1>5, StillTables DEF Control

LEMMA HopControl ==
  ASSUME Control, Hop
  PROVE  Control' /\ walk'.at = IF parent[walk.at] = Nil THEN walk.at ELSE parent[walk.at]
<1>1. /\ step \in Walking /\ walk.hops > 0 /\ walk \in WalkType /\ walk.at \in Entity
      /\ walk' = IF parent[walk.at] = Nil
                   THEN [walk EXCEPT !.hops = 0]
                   ELSE [walk EXCEPT !.at = parent[walk.at], !.hops = walk.hops - 1]
      /\ UNCHANGED <<parent, rank, request, step, todo, facts, work, record, shown, before>>
  BY DEF Hop, HopsLeft, table, Control, TypeOK, Phase, WalkType
<1>2. parent[walk.at] # Nil => parent[walk.at] \in Entity
  BY <1>1 DEF Control, TypeOK
<1>3. 0 \in 0..MaxHops /\ walk.hops - 1 \in 0..MaxHops
  BY <1>1, BoundAssumption DEF WalkType
<1>4. walk' \in WalkType /\ walk'.at \in Entity
      /\ walk'.at = IF parent[walk.at] = Nil THEN walk.at ELSE parent[walk.at]
  BY <1>1, <1>2, <1>3 DEF WalkType
<1>5. TypeOK'
  BY <1>1, <1>4 DEF Control, TypeOK, WalkType
<1>6. Phase'
  <2>1. step # "below"
    BY <1>1 DEF Walking
  <2> QED
    BY <1>1, <1>4, <2>1 DEF Control, Phase, Named, Complete, SamePlace
<1> QED
  BY <1>1, <1>4, <1>5, <1>6, StillTables DEF Control

LEMMA FinishControl ==
  ASSUME Control, Finish
  PROVE  Control'
<1>1. /\ step = "records" /\ work = {}
      /\ UNCHANGED <<parent, rank, request, facts, work, record, shown, before>>
      /\ LookUp("done", <<>>)
  BY DEF Finish, table
<1>2. step' = "done" /\ todo' = <<>> /\ walk' \in WalkType
  BY <1>1, NothingToLookUp
<1>3. TypeOK'
  BY <1>1, <1>2 DEF Control, TypeOK, Steps, Walking, WalkType
<1>4. Phase'
  BY <1>1, <1>2 DEF Control, Phase, Walking, Named, Complete, SamePlace
<1> QED
  BY <1>1, <1>3, <1>4, StillTables DEF Control

LEMMA TakeControl ==
  ASSUME Control, NEW r \in work, Take(r)
  PROVE  Control'
<1>1. /\ step = "records" /\ r \in Record /\ r.ends # <<>> /\ work' = work \ {r}
      /\ record' = [path |-> r.path, ends |-> <<>>]
      /\ UNCHANGED <<parent, rank, request, facts, shown, before>>
      /\ LookUp("ends", r.ends)
  BY DEF Take, table, Control, TypeOK, Phase
<1>2. r.path \in Seq(Edge) /\ r.ends \in Seq(Entity)
  BY <1>1 DEF Record
<1>3. /\ step' = "ends" /\ todo' = r.ends /\ todo' # <<>> /\ walk' \in WalkType
      /\ walk'.at \in Entity
  BY <1>1, <1>2, LookUpHolds
<1>4. TypeOK'
  <2>1. record' \in Record
    BY <1>1, <1>2 DEF Record
  <2> QED
    BY <1>1, <1>2, <1>3, <2>1 DEF Control, TypeOK, Steps, Walking, WalkType
<1>5. Phase'
  BY <1>1, <1>3 DEF Control, Phase, Walking, Named, Complete, SamePlace
<1> QED
  BY <1>1, <1>4, <1>5, StillTables DEF Control

LEMMA HideRecordControl ==
  ASSUME Control, HideRecord
  PROVE  Control'
<1>1. /\ step = "ends" /\ record' = NoRecord
      /\ UNCHANGED <<parent, rank, request, facts, work, shown, before>>
      /\ LookUp("records", <<>>)
  BY DEF HideRecord, table
<1>2. step' = "records" /\ todo' = <<>> /\ walk' \in WalkType
  BY <1>1, NothingToLookUp
<1>3. TypeOK'
  <2>1. record' \in Record
    BY <1>1 DEF Record, NoRecord
  <2> QED
    BY <1>1, <1>2, <2>1 DEF Control, TypeOK, Steps, Walking, WalkType
<1>4. Phase'
  BY <1>1, <1>2 DEF Control, Phase, Walking, Named, Complete, SamePlace
<1> QED
  BY <1>1, <1>3, <1>4, StillTables DEF Control

LEMMA WithEnds ==
  ASSUME NEW r \in Record, NEW ends
  PROVE  [r EXCEPT !.ends = ends] = [path |-> r.path, ends |-> ends]
BY DEF Record

LEMMA SeeEndControl ==
  ASSUME Control, SeeEnd
  PROVE  Control'
<1>1. PICK seen : seen = [path |-> record.path, ends |-> Append(record.ends, walk.at)]
  OBVIOUS
<1>2. /\ step = "ends" /\ walk.at \in Entity /\ record \in Record
      /\ todo \in Seq(Entity) /\ todo # <<>>
      /\ UNCHANGED <<parent, rank, request, facts, work, before>>
      /\ GoOn("records", <<>>)
  BY DEF SeeEnd, table, Control, TypeOK, Phase, Walking
<1>3. IF Len(todo) > 1 THEN record' = seen /\ shown' = shown
                       ELSE record' = NoRecord /\ shown' = shown \cup {seen}
  <2>1. PICK ends : ends = Append(record.ends, walk.at)
    OBVIOUS
  <2>2. [record EXCEPT !.ends = ends] = seen
    BY <1>1, <1>2, <2>1, WithEnds
  <2> QED
    BY <2>1, <2>2 DEF SeeEnd
<1>4. seen \in Record
  BY <1>1, <1>2 DEF Record
<1>5. record' \in Record /\ shown' \subseteq Record
  <2>1. NoRecord \in Record
    BY DEF NoRecord, Record
  <2>2. shown \subseteq Record /\ record \in Record
    BY DEF Control, TypeOK
  <2> QED
    BY <1>3, <1>4, <2>1, <2>2
<1>6. /\ todo' \in Seq(Entity) /\ walk' \in WalkType /\ (todo' # <<>> => walk'.at \in Entity)
      /\ (step' = "ends" /\ todo' # <<>>) \/ (step' = "records" /\ todo' = <<>>)
  <2>1. <<>> \in Seq(Entity)
    OBVIOUS
  <2> QED
    BY <1>2, <2>1, GoOnHolds
<1>7. TypeOK'
  BY <1>2, <1>5, <1>6 DEF Control, TypeOK, Steps, Walking, WalkType
<1>8. Phase'
  BY <1>2, <1>6 DEF Control, Phase, Walking, Named, Complete, SamePlace
<1> QED
  BY <1>2, <1>7, <1>8, StillTables DEF Control

-----------------------------------------------------------------------------
(* The facts that were asked for, and the records of the graph *)

LEMMA AppendType ==
  ASSUME NEW S, NEW s \in Seq(S), NEW x \in S
  PROVE  Append(s, x) \in Seq(S)
OBVIOUS

LEMMA ItsFacts ==
  ASSUME NEW sides \in Seq(Entity), NEW roots \in Seq(Entity), NEW clusters \in Seq(SUBSET Entity),
         NEW new, new = [sides |-> sides, roots |-> roots, clusters |-> clusters]
  PROVE  /\ new \in [sides : Seq(Entity), roots : Seq(Entity), clusters : Seq(SUBSET Entity)]
         /\ new.sides = sides /\ new.roots = roots /\ new.clusters = clusters
OBVIOUS

LEMMA WithSides ==
  ASSUME NEW sides, NEW roots, NEW clusters, NEW new,
         facts = [sides |-> sides, roots |-> roots, clusters |-> clusters]
  PROVE  /\ [facts EXCEPT !.sides = new] = [sides |-> new, roots |-> roots, clusters |-> clusters]
         /\ [facts EXCEPT !.roots = new] = [sides |-> sides, roots |-> new, clusters |-> clusters]
         /\ [facts EXCEPT !.clusters = new] = [sides |-> sides, roots |-> roots, clusters |-> new]
OBVIOUS

LEMMA FactsType ==
  ASSUME TypeOK
  PROVE  /\ facts = [sides |-> facts.sides, roots |-> facts.roots, clusters |-> facts.clusters]
         /\ facts.sides \in Seq(Entity) /\ facts.roots \in Seq(Entity)
         /\ facts.clusters \in Seq(SUBSET Entity)
BY DEF TypeOK

LEMMA NamedType ==
  ASSUME TypeOK, request # Nil
  PROVE  /\ request.kind \in {"edges", "paths", "edge"} /\ request.sees \in Clearance
         /\ request.kind # "edge" => Named \in Seq(Entity)
         /\ request.kind = "edge" => Named \in Seq(Edge)
BY DEF TypeOK, Request, Named

LEMMA SeeControl ==
  ASSUME Control, See
  PROVE  /\ Control'
         /\ facts'.sides = Append(facts.sides, walk.at)
         /\ facts'.roots = facts.roots /\ facts'.clusters = facts.clusters
<1>1. /\ step = "see" /\ walk.at \in Entity /\ todo \in Seq(Entity) /\ todo # <<>>
      /\ UNCHANGED <<parent, rank, request, work, record, shown, before>>
      /\ request # Nil /\ request.kind # "edge"
      /\ work = {} /\ shown = {}
      /\ GoOn("root", Named)
      /\ facts' = [facts EXCEPT !.sides = Append(facts.sides, walk.at)]
  BY DEF See, table, Control, TypeOK, Phase, Walking
<1>2. /\ Named \in Seq(Entity) /\ Named # <<>>
      /\ InLine(facts.sides, todo, Named) /\ facts.roots = <<>> /\ facts.clusters = <<>>
  <2>1. Len(Named) = IF request.kind = "paths" THEN 2 ELSE 1
    BY <1>1 DEF Control, Phase
  <2>2. Named \in Seq(Entity)
    BY <1>1, NamedType DEF Control
  <2>3. Named # <<>>
    BY <2>1, EmptySeq
  <2> QED
    BY <1>1, <2>2, <2>3 DEF Control, Phase
<1>3. PICK sides \in Seq(Entity) : sides = Append(facts.sides, walk.at)
  <2>1. Append(facts.sides, walk.at) \in Seq(Entity)
    BY <1>1, FactsType, AppendType DEF Control
  <2> QED
    BY <2>1
<1>4. facts' = [sides |-> sides, roots |-> <<>>, clusters |-> <<>>]
  BY <1>1, <1>2, <1>3, FactsType, WithSides DEF Control
<1>5. /\ Len(todo) = 1 => Len(sides) = Len(Named)
      /\ Len(todo) > 1 => InLine(sides, Tail(todo), Named)
  BY <1>1, <1>2, <1>3, FactsType, OneMore DEF Control
<1>6. /\ todo' \in Seq(Entity) /\ walk' \in WalkType /\ (todo' # <<>> => walk'.at \in Entity)
      /\ \/ Len(todo) > 1 /\ step' = step /\ todo' = Tail(todo) /\ todo' # <<>>
         \/ Len(todo) = 1 /\ step' = "root" /\ todo' = Named
  BY <1>1, <1>2, GoOnHolds
<1>7. TypeOK'
  <2>1. facts' \in [sides : Seq(Entity), roots : Seq(Entity), clusters : Seq(SUBSET Entity)]
    BY <1>4
  <2> QED
    BY <1>1, <1>6, <2>1 DEF Control, TypeOK, Steps, Walking, WalkType
<1>8. Phase'
  <2>1. Named' = Named
    BY <1>1 DEF Named
  <2>2. /\ facts'.sides = sides /\ facts'.roots = <<>> /\ facts'.clusters = <<>>
    BY <1>4
  <2>3. CASE Len(todo) > 1 /\ step' = step /\ todo' = Tail(todo) /\ todo' # <<>>
    <3>1. InLine(facts'.sides, todo', Named')
      BY <1>5, <2>1, <2>2, <2>3
    <3> QED
      BY <1>1, <1>6, <2>1, <2>2, <2>3, <3>1 DEF Control, Phase, Walking
  <2>4. CASE Len(todo) = 1 /\ step' = "root" /\ todo' = Named
    <3>1. InLine(facts'.roots, todo', Named')
      BY <1>2, <2>1, <2>2, <2>4, NothingYet
    <3> QED
      BY <1>1, <1>2, <1>5, <1>6, <2>1, <2>2, <2>4, <3>1 DEF Control, Phase, Walking
  <2> QED
    BY <1>6, <2>3, <2>4
<1>9. Tables'
  BY <1>1, StillTables DEF Control
<1> QED
  BY <1>2, <1>3, <1>4, <1>7, <1>8, <1>9 DEF Control

LEMMA RootControl ==
  ASSUME Control, Root
  PROVE  /\ Control'
         /\ facts'.roots = Append(facts.roots, walk.at)
         /\ facts'.sides = facts.sides /\ facts'.clusters = facts.clusters
<1>1. PICK roots \in Seq(Entity) : roots = Append(facts.roots, walk.at)
  <2>1. walk.at \in Entity
    BY DEF Root, Resolved, Control, Phase
  <2>2. Append(facts.roots, walk.at) \in Seq(Entity)
    BY <2>1, FactsType, AppendType DEF Control
  <2> QED
    BY <2>2
<1>2. /\ step = "root" /\ walk.at \in Entity /\ todo \in Seq(Entity) /\ todo # <<>>
      /\ UNCHANGED <<parent, rank, request, work, record, shown, before>>
      /\ request # Nil /\ request.kind # "edge"
      /\ work = {} /\ shown = {}
      /\ IF Len(roots) = 2 /\ roots[1] = roots[2]
           THEN LookUp("done", <<>>)
           ELSE GoOn("below", roots)
      /\ facts' = [facts EXCEPT !.roots = roots]
  BY <1>1 DEF Root, table, Control, TypeOK, Phase, Walking
<1>3. /\ Named \in Seq(Entity) /\ facts.clusters = <<>>
      /\ Len(Named) = IF request.kind = "paths" THEN 2 ELSE 1
      /\ InLine(facts.roots, todo, Named) /\ Len(facts.sides) = Len(Named)
  <2>1. Named \in Seq(Entity)
    BY <1>2, NamedType DEF Control
  <2> QED
    BY <1>2, <2>1 DEF Control, Phase
<1>4. facts' = [sides |-> facts.sides, roots |-> roots, clusters |-> <<>>]
  BY <1>2, <1>3, FactsType, WithSides DEF Control
<1>5. /\ Len(todo) = 1 => Len(roots) = Len(Named)
      /\ Len(todo) > 1 => InLine(roots, Tail(todo), Named)
      /\ Len(roots) = Len(facts.roots) + 1
      /\ Len(facts.roots) + 1 \in 1..Len(Named)
  BY <1>1, <1>2, <1>3, FactsType, OneMore DEF Control
<1>6. /\ facts' \in [sides : Seq(Entity), roots : Seq(Entity), clusters : Seq(SUBSET Entity)]
      /\ facts'.sides = facts.sides /\ facts'.roots = roots /\ facts'.clusters = <<>>
      /\ Named' = Named
  <2>1. <<>> \in Seq(SUBSET Entity)
    OBVIOUS
  <2>2. Named' = Named
    BY <1>2 DEF Named
  <2> QED
    BY <1>4, <2>1, <2>2, FactsType, ItsFacts DEF Control
<1>7. Tables'
  BY <1>2, StillTables DEF Control
<1>8. CASE Len(roots) = 2 /\ roots[1] = roots[2]
  <2>1. step' = "done" /\ todo' = <<>> /\ walk' \in WalkType
    BY <1>2, <1>8, NothingToLookUp
  <2>2. TypeOK'
    BY <1>2, <1>6, <2>1, SMTT(30) DEF Control, TypeOK, Steps, Walking, WalkType
  <2>3. SamePlace' /\ request.kind = "paths" /\ Len(facts.sides) = 2
    <3>1. SamePlace'
      BY <1>6, <1>8 DEF SamePlace
    <3>2. Len(Named) # 1
      <4>1. 2 \in 1..Len(Named)
        BY <1>5, <1>8, Zenon
      <4>2. PICK n : n = Len(Named)
        OBVIOUS
      <4>3. 2 \in 1..n
        BY <4>1, <4>2, Zenon
      <4>4. n # 1
        BY <4>3
      <4> QED
        BY <4>2, <4>4
    <3> QED
      BY <1>3, <3>1, <3>2
  <2>4. Phase'
    BY <1>2, <1>3, <1>6, <2>1, <2>3 DEF Phase, Walking
  <2> QED
    BY <1>1, <1>3, <1>6, <1>7, <2>2, <2>4 DEF Control
<1>9. CASE ~(Len(roots) = 2 /\ roots[1] = roots[2])
  <2>1. GoOn("below", roots)
    BY <1>2, <1>9, Zenon
  <2>2. /\ todo' \in Seq(Entity) /\ walk' \in WalkType
        /\ todo' # <<>> => walk'.at \in Entity /\ walk'.levels = MaxLevels
        /\ \/ Len(todo) > 1 /\ step' = step /\ todo' = Tail(todo) /\ todo' # <<>>
           \/ Len(todo) = 1 /\ step' = "below" /\ todo' = roots
    BY <1>2, <2>1, GoOnHolds
  <2>3. TypeOK'
    BY <1>2, <1>6, <2>2 DEF Control, TypeOK, Steps, Walking, WalkType
  <2>4. ~SamePlace'
    BY <1>6, <1>9 DEF SamePlace
  <2>5. CASE Len(todo) > 1 /\ step' = step /\ todo' = Tail(todo) /\ todo' # <<>>
    <3>1. InLine(facts'.roots, todo', Named')
      BY <1>5, <1>6, <2>5
    <3>2. Phase'
      BY <1>2, <1>3, <1>6, <2>2, <2>5, <3>1 DEF Phase, Walking
    <3> QED
      BY <1>1, <1>3, <1>6, <1>7, <2>3, <3>2 DEF Control
  <2>6. CASE Len(todo) = 1 /\ step' = "below" /\ todo' = roots
    <3>1. InLine(facts'.clusters, todo', facts'.roots)
      BY <1>1, <1>6, <2>6, NothingYet
    <3>2. todo' # <<>> /\ MaxLevels > 0
      <4>1. Len(<<>>) = 0 /\ Len(roots) # 0
        BY <1>3, <1>5, <2>6
      <4> QED
        BY <2>6, <4>1, BoundAssumption
    <3>3. Phase'
      BY <1>2, <1>3, <1>5, <1>6, <2>2, <2>4, <2>6, <3>1, <3>2 DEF Phase, Walking
    <3> QED
      BY <1>1, <1>3, <1>6, <1>7, <2>3, <3>3 DEF Control
  <2> QED
    BY <2>2, <2>5, <2>6
<1> QED
  BY <1>8, <1>9

LEMMA LevelControl ==
  ASSUME Control, Level
  PROVE  /\ Control'
         /\ \/ facts' = facts /\ todo' = todo /\ step' = "below"
            \/ /\ facts'.sides = facts.sides /\ facts'.roots = facts.roots
               /\ facts'.clusters =
                    Append(facts.clusters, walk.all \cup (AbsorbedInto(walk.rim) \ walk.all))
<1>1. PICK found : found = AbsorbedInto(walk.rim) \ walk.all
  OBVIOUS
<1>2. PICK all : all = walk.all \cup found
  OBVIOUS
<1>3. /\ step = "below" /\ walk \in WalkType /\ todo \in Seq(Entity) /\ todo # <<>>
      /\ UNCHANGED <<parent, rank, request, work, record, shown, before>>
      /\ request # Nil /\ request.kind # "edge"
      /\ work = {} /\ shown = {} /\ ~SamePlace
  BY DEF Level, table, Control, TypeOK, Phase, Walking, WalkType
<1>4. found \subseteq Entity /\ all \subseteq Entity /\ Named' = Named
  BY <1>1, <1>2, <1>3 DEF AbsorbedInto, WalkType, Named
<1>5. IF found # {} /\ walk.levels > 1
        THEN /\ walk' = [walk EXCEPT !.all = all, !.rim = found, !.levels = walk.levels - 1]
             /\ UNCHANGED <<step, todo, facts>>
        ELSE /\ facts' = [facts EXCEPT !.clusters = Append(facts.clusters, all)]
             /\ GoOn("graph", <<>>)
  BY <1>1, <1>2 DEF Level
<1>6. Tables'
  BY <1>3, StillTables DEF Control
<1>7. CASE found # {} /\ walk.levels > 1
  <2>1. walk.levels - 1 \in 0..MaxLevels /\ walk.levels - 1 > 0
    BY <1>3, <1>7, BoundAssumption DEF WalkType
  <2>2. walk' \in WalkType /\ walk'.levels > 0
    BY <1>3, <1>4, <1>5, <1>7, <2>1 DEF WalkType
  <2>3. UNCHANGED <<step, todo, facts>>
    BY <1>5, <1>7
  <2>4. TypeOK'
    BY <1>3, <2>2, <2>3 DEF Control, TypeOK, WalkType
  <2>5. Phase'
    BY <1>3, <1>4, <2>2, <2>3 DEF Control, Phase, Walking, SamePlace
  <2> QED
    BY <1>3, <1>6, <2>3, <2>4, <2>5 DEF Control
<1>8. CASE ~(found # {} /\ walk.levels > 1)
  <2>1. /\ facts' = [facts EXCEPT !.clusters = Append(facts.clusters, all)]
        /\ GoOn("graph", <<>>)
    BY <1>5, <1>8, Zenon
  <2>2. PICK clusters \in Seq(SUBSET Entity) : clusters = Append(facts.clusters, all)
    <3>1. Append(facts.clusters, all) \in Seq(SUBSET Entity)
      BY <1>4, FactsType, AppendType DEF Control
    <3> QED
      BY <3>1
  <2>3. facts' = [sides |-> facts.sides, roots |-> facts.roots, clusters |-> clusters]
    BY <2>1, <2>2, FactsType, WithSides DEF Control
  <2>4. /\ facts' \in [sides : Seq(Entity), roots : Seq(Entity), clusters : Seq(SUBSET Entity)]
        /\ facts'.sides = facts.sides /\ facts'.roots = facts.roots
        /\ facts'.clusters = clusters
    BY <2>3, FactsType, ItsFacts DEF Control
  <2>5. /\ InLine(facts.clusters, todo, facts.roots)
        /\ Len(facts.roots) = Len(Named) /\ Len(facts.sides) = Len(Named)
        /\ request' # Nil => Len(Named) = IF request.kind = "paths" THEN 2 ELSE 1
    BY <1>3 DEF Control, Phase
  <2>6. /\ Len(todo) = 1 => Len(clusters) = Len(facts.roots)
        /\ Len(todo) > 1 => InLine(clusters, Tail(todo), facts.roots)
    <3>1. PICK People : People = SUBSET Entity
      OBVIOUS
    <3>2. facts.clusters \in Seq(People) /\ all \in People /\ facts.roots \in Seq(Entity)
      BY <1>4, <3>1, FactsType DEF Control
    <3> QED
      BY <1>3, <2>2, <2>5, <3>2, OneMore
  <2>7. /\ todo' \in Seq(Entity) /\ walk' \in WalkType
        /\ todo' # <<>> => walk'.at \in Entity /\ walk'.levels = MaxLevels
        /\ \/ Len(todo) > 1 /\ step' = step /\ todo' = Tail(todo) /\ todo' # <<>>
           \/ Len(todo) = 1 /\ step' = "graph" /\ todo' = <<>>
    <3>1. <<>> \in Seq(Entity)
      OBVIOUS
    <3> QED
      BY <1>3, <2>1, <3>1, GoOnHolds
  <2>8. TypeOK'
    BY <1>3, <2>4, <2>7 DEF Control, TypeOK, Steps, Walking, WalkType
  <2>9. ~SamePlace'
    BY <1>3, <2>4 DEF SamePlace
  <2>10. ASSUME Len(todo) > 1, step' = step, todo' = Tail(todo), todo' # <<>>
         PROVE  Phase'
    <3>1. InLine(facts'.clusters, todo', facts'.roots)
      BY <2>4, <2>6, <2>10
    <3>2. MaxLevels > 0
      BY BoundAssumption
    <3> QED
      BY <1>3, <1>4, <2>4, <2>5, <2>7, <2>9, <2>10, <3>1, <3>2 DEF Phase, Walking
  <2>11. ASSUME Len(todo) = 1, step' = "graph", todo' = <<>>
         PROVE  Phase'
    <3>1. Complete'
      BY <1>3, <1>4, <2>4, <2>5, <2>6, <2>11 DEF Complete
    <3> QED
      BY <1>3, <1>4, <2>4, <2>5, <2>7, <2>9, <2>11, <3>1 DEF Phase, Walking
  <2>12. Phase'
    BY <2>7, <2>10, <2>11
  <2> QED
    BY <1>1, <1>2, <1>6, <2>2, <2>4, <2>8, <2>12 DEF Control
<1> QED
  BY <1>7, <1>8

LEMMA BothEndsType ==
  ASSUME NEW path \in Seq(Edge)
  PROVE  /\ BothEnds(path) \in Seq(Entity)
         /\ Len(BothEnds(path)) = 2 * Len(path)
         /\ \A k \in 1..Len(path) : /\ 2 * k - 1 \in 1..2 * Len(path) /\ 2 * k \in 1..2 * Len(path)
                                    /\ BothEnds(path)[2 * k - 1] = From[path[k]]
                                    /\ BothEnds(path)[2 * k] = To[path[k]]
<1>1. PICK n \in Nat : n = Len(path)
  OBVIOUS
<1>2. \A k \in 1..n : path[k] \in Edge /\ From[path[k]] \in Entity /\ To[path[k]] \in Entity
  BY <1>1, GraphAssumption, ElementOfSeq
<1>3. \A i \in 1..2 * n : IF i % 2 = 1 THEN (i + 1) \div 2 \in 1..n ELSE i \div 2 \in 1..n
  BY <1>1
<1>4. BothEnds(path) = [i \in 1..2 * n |->
         IF i % 2 = 1 THEN From[path[(i + 1) \div 2]] ELSE To[path[i \div 2]]]
  BY <1>1 DEF BothEnds
<1>5. BothEnds(path) \in [1..2 * n -> Entity]
  <2>1. ASSUME NEW i \in 1..2 * n
        PROVE  (IF i % 2 = 1 THEN From[path[(i + 1) \div 2]] ELSE To[path[i \div 2]]) \in Entity
    BY <1>2, <1>3
  <2> QED
    BY <1>4, <2>1
<1>6. 2 * n \in Nat
  BY <1>1
<1>7. BothEnds(path) \in Seq(Entity) /\ Len(BothEnds(path)) = 2 * n
  BY <1>5, <1>6
<1>8. ASSUME NEW k \in 1..n
      PROVE  /\ 2 * k - 1 \in 1..2 * n /\ 2 * k \in 1..2 * n
             /\ BothEnds(path)[2 * k - 1] = From[path[k]]
             /\ BothEnds(path)[2 * k] = To[path[k]]
  <2>1. 2 * k - 1 \in 1..2 * n /\ 2 * k \in 1..2 * n
    BY <1>1
  <2>2. (2 * k - 1) % 2 = 1 /\ ((2 * k - 1) + 1) \div 2 = k
    BY <1>1
  <2>3. (2 * k) % 2 # 1 /\ (2 * k) \div 2 = k
    BY <1>1
  <2>4. PICK i, j : i = 2 * k - 1 /\ j = 2 * k
    OBVIOUS
  <2>5. i \in 1..2 * n /\ i % 2 = 1 /\ (i + 1) \div 2 = k
    BY <2>1, <2>2, <2>4
  <2>6. j \in 1..2 * n /\ j % 2 # 1 /\ j \div 2 = k
    BY <2>1, <2>3, <2>4
  <2>7. BothEnds(path)[i] = From[path[k]] /\ BothEnds(path)[j] = To[path[k]]
    BY <1>4, <2>5, <2>6
  <2> QED
    BY <2>1, <2>4, <2>7
<1> QED
  BY <1>1, <1>7, <1>8

LEMMA PathsAreShort ==
  ASSUME NEW a, NEW b, NEW path \in PathsBetween(a, b)
  PROVE  path \in Seq(Edge) /\ Len(path) > 0 /\ Connects(path, a, b)
<1>1. PICK n \in 1..MaxPath : path \in [1..n -> Edge] /\ Connects(path, a, b)
  BY DEF PathsBetween
<1>2. n \in Nat /\ n > 0
  BY <1>1, BoundAssumption
<1> QED
  BY <1>1, <1>2

(* An edge with one node in a cluster, and the node outside. *)
LEMMA EdgesOfHolds ==
  ASSUME NEW cluster \in SUBSET Entity, NEW r \in EdgesOf(cluster)
  PROVE  \E x \in Edge, near \in cluster, far \in Entity \ cluster :
           /\ {near, far} = {From[x], To[x]}
           /\ r = [path |-> <<x>>, ends |-> <<far>>]
<1>1. PICK x \in Edge : /\ From[x] \in cluster <=> To[x] \notin cluster
                        /\ r = [path |-> <<x>>,
                                ends |-> <<IF From[x] \in cluster THEN To[x] ELSE From[x]>>]
  BY DEF EdgesOf
<1>2. From[x] \in Entity /\ To[x] \in Entity
  BY GraphAssumption
<1>3. CASE From[x] \in cluster
  BY <1>1, <1>2, <1>3
<1>4. CASE From[x] \notin cluster
  BY <1>1, <1>2, <1>4
<1> QED
  BY <1>3, <1>4

LEMMA ClustersType ==
  ASSUME Control, request # Nil, Complete
  PROVE  /\ request.kind = "edges" =>
              /\ facts.clusters[1] \in SUBSET Entity
              /\ Len(facts.sides) = 1 /\ Len(facts.roots) = 1 /\ Len(facts.clusters) = 1
         /\ request.kind = "paths" =>
              /\ facts.clusters[1] \in SUBSET Entity /\ facts.clusters[2] \in SUBSET Entity
              /\ Len(facts.sides) = 2 /\ Len(facts.roots) = 2 /\ Len(facts.clusters) = 2
         /\ request.kind = "edge" =>
              /\ Named \in Seq(Edge) /\ Len(Named) = 1
              /\ Len(facts.sides) = 0 /\ Len(facts.roots) = 0 /\ Len(facts.clusters) = 0
<1>1. Len(Named) = IF request.kind = "paths" THEN 2 ELSE 1
  BY DEF Control, Phase
<1>2. \A i \in 1..Len(facts.clusters) : facts.clusters[i] \in SUBSET Entity
  BY FactsType, ElementOfSeq DEF Control
<1>3. request.kind = "edge" => Named \in Seq(Edge)
  BY NamedType DEF Control
<1> QED
  BY <1>1, <1>2, <1>3 DEF Complete

LEMMA RecordsHold ==
  ASSUME Control, step = "graph", NEW r \in Records
  PROVE  r \in Record /\ r.ends # <<>> /\ Rightful(request.kind, facts.clusters, r.path, r.ends)
<1>1. Complete /\ request # Nil /\ request.kind \in {"edges", "paths", "edge"}
  BY NamedType DEF Control, Phase, TypeOK
<1>2. CASE request.kind = "edges"
  <2>1. facts.clusters[1] \in SUBSET Entity
    BY <1>1, <1>2, ClustersType
  <2>2. r \in EdgesOf(facts.clusters[1])
    BY <1>2 DEF Records
  <2>3. PICK x \in Edge, near \in facts.clusters[1], far \in Entity \ facts.clusters[1] :
           /\ {near, far} = {From[x], To[x]}
           /\ r = [path |-> <<x>>, ends |-> <<far>>]
    BY <2>1, <2>2, EdgesOfHolds
  <2>4. PICK path, ends : path = <<x>> /\ ends = <<far>>
    OBVIOUS
  <2>5. path \in Seq(Edge) /\ ends \in Seq(Entity) /\ ends # <<>> /\ Len(path) = 1 /\ path[1] = x
    BY <2>4
  <2>6. r.path = path /\ r.ends = ends /\ r = [path |-> path, ends |-> ends]
    BY <2>3, <2>4
  <2>7. Rightful(request.kind, facts.clusters, path, ends)
    BY <1>2, <2>3, <2>4, <2>5 DEF Rightful
  <2> QED
    BY <2>5, <2>6, <2>7 DEF Record
<1>3. CASE request.kind = "edge"
  <2>1. PICK path \in Seq(Edge) : path = Named /\ Len(path) = 1
    BY <1>1, <1>3, ClustersType
  <2>2. r = [path |-> path, ends |-> BothEnds(path)]
    BY <1>3, <2>1 DEF Records
  <2>3. BothEnds(path) \in Seq(Entity) /\ BothEnds(path) # <<>>
    BY <2>1, BothEndsType
  <2>4. Rightful(request.kind, facts.clusters, path, BothEnds(path))
    BY <1>3, <2>1 DEF Rightful
  <2> QED
    BY <2>2, <2>3, <2>4 DEF Record
<1>4. CASE request.kind = "paths"
  <2>1. r \in {[path |-> path, ends |-> BothEnds(path)] :
                  path \in ShortestPaths(facts.clusters[1], facts.clusters[2])}
    BY <1>4 DEF Records
  <2>2. PICK path \in ShortestPaths(facts.clusters[1], facts.clusters[2]) :
           r = [path |-> path, ends |-> BothEnds(path)]
    BY <2>1
  <2>3. PICK a \in facts.clusters[1], b \in facts.clusters[2] : path \in PathsBetween(a, b)
    BY <2>2 DEF ShortestPaths, Shortest
  <2>4. path \in Seq(Edge) /\ Len(path) > 0 /\ Connects(path, a, b)
    BY <2>3, PathsAreShort
  <2>5. BothEnds(path) \in Seq(Entity) /\ BothEnds(path) # <<>>
    BY <2>4, BothEndsType
  <2>6. Rightful(request.kind, facts.clusters, path, BothEnds(path))
    BY <1>4, <2>3, <2>4 DEF Rightful
  <2> QED
    BY <2>2, <2>4, <2>5, <2>6 DEF Record
<1> QED
  BY <1>1, <1>2, <1>3, <1>4

LEMMA GraphControl ==
  ASSUME Control, Graph
  PROVE  Control' /\ \A r \in work' : Rightful(request.kind, facts.clusters, r.path, r.ends)
<1>1. /\ step = "graph" /\ work' \subseteq Records
      /\ UNCHANGED <<parent, rank, request, facts, record, shown, before>>
      /\ LookUp("records", <<>>)
  BY DEF Graph, table
<1>2. step' = "records" /\ todo' = <<>> /\ walk' \in WalkType
  BY <1>1, NothingToLookUp
<1>3. \A r \in work' : r \in Record /\ r.ends # <<>> /\ Rightful(request.kind, facts.clusters, r.path, r.ends)
  BY <1>1, RecordsHold
<1>4. TypeOK'
  BY <1>1, <1>2, <1>3 DEF Control, TypeOK, Steps, Walking, WalkType
<1>5. Phase'
  BY <1>1, <1>2, <1>3 DEF Control, Phase, Walking, Named, Complete, SamePlace
<1> QED
  BY <1>1, <1>3, <1>4, <1>5, StillTables DEF Control

LEMMA WriteControl ==
  ASSUME Control, Write
  PROVE  Control' /\ (request # Nil => parent = before /\ parent' # before)
<1>1. UNCHANGED handler
  BY DEF Write, Merge, Reverse, Change
<1>2. TypeOK' /\ Tables' /\ (request # Nil => parent = before /\ parent' # before)
  BY MergeTables, ReverseTables DEF Write, Control
<1>3. Phase'
  BY <1>1 DEF Control, Phase, handler, Named, Complete, SamePlace, Walking
<1> QED
  BY <1>2, <1>3 DEF Control

LEMMA ArriveControl == Control /\ Arrive => Control'
<1> SUFFICES ASSUME Control, Arrive PROVE Control'
  OBVIOUS
<1>1. PICK sees \in Clearance, covers \in Coverage :
         \/ \E e \in Entity : Ask("edges", <<e>>, sees, covers)
         \/ \E s, t \in Entity : s # t /\ Ask("paths", <<s, t>>, sees, covers)
         \/ \E x \in Edge : AskEdge(x, sees, covers)
  BY DEF Arrive
<1>2. ASSUME NEW e \in Entity, Ask("edges", <<e>>, sees, covers) PROVE Control'
  <2>1. <<e>> \in Seq(Entity) /\ Len(<<e>>) = 1
    OBVIOUS
  <2> QED
    BY <1>2, <2>1, AskControl
<1>3. ASSUME NEW s \in Entity, NEW t \in Entity, Ask("paths", <<s, t>>, sees, covers) PROVE Control'
  <2>1. <<s, t>> \in Seq(Entity) /\ Len(<<s, t>>) = 2
    OBVIOUS
  <2> QED
    BY <1>3, <2>1, AskControl
<1> QED
  BY <1>1, <1>2, <1>3, AskEdgeControl

LEMMA NextControl == Control /\ [Next]_vars => Control'
<1> SUFFICES ASSUME Control, [Next]_vars PROVE Control'
  OBVIOUS
<1>1. CASE Handle
  BY <1>1, HopControl, SeeControl, RootControl, LevelControl, GraphControl, TakeControl,
     SeeEndControl, HideRecordControl, FinishControl, EndControl
     DEF Handle, NotFound, GraphUnavailable, Answer
<1>2. CASE UNCHANGED vars
  BY <1>2 DEF vars, handler, table, Control, TypeOK, Tables, Phase, Wide, Named, Complete,
     SamePlace, Walking
<1> QED
  BY <1>1, <1>2, WriteControl, ArriveControl DEF Next

-----------------------------------------------------------------------------
(* Whatever was found belongs to what was asked *)

LEMMA IdleWay ==
  ASSUME step = "idle", facts = NoFacts, work = {}, shown = {}
  PROVE  Way /\ Found
BY DEF Way, Found, Leads, NoFacts, Walking

LEMMA LeadsMore ==
  ASSUME NEW up, NEW S, NEW done \in Seq(S), NEW x \in S, NEW from,
         Leads(up, done, from), x \in Chain(up, from[Len(done) + 1])
  PROVE  Leads(up, Append(done, x), from)
<1>1. PICK new : new = Append(done, x)
  OBVIOUS
<1>2. PICK n \in Nat : n = Len(done)
  OBVIOUS
<1>3. Len(new) = n + 1 /\ new[n + 1] = x /\ \A i \in 1..n : new[i] = done[i]
  BY <1>1, <1>2
<1>4. \A i \in 1..n : done[i] \in Chain(up, from[i])
  BY <1>2 DEF Leads
<1>5. ASSUME NEW i \in 1..n + 1
      PROVE  new[i] \in Chain(up, from[i])
  <2>1. i \in 1..n \/ i = n + 1
    BY <1>2
  <2> QED
    BY <1>2, <1>3, <1>4, <2>1
<1> QED
  BY <1>1, <1>2, <1>3, <1>5 DEF Leads

LEMMA WriteWay ==
  ASSUME Control, Way, Found, Write
  PROVE  Way' /\ Found'
<1>1. UNCHANGED handler
  BY DEF Write, Merge, Reverse, Change
<1>2. CASE request = Nil
  <2>1. step = "idle" /\ facts = NoFacts /\ work = {} /\ shown = {}
    BY <1>2 DEF Control, TypeOK, Phase
  <2> QED
    BY <1>1, <2>1 DEF handler, Way, Found, Leads, NoFacts, Walking
<1>3. CASE request # Nil
  <2>1. PICK up \in Pointers, wide \in Pointers : up = Wide /\ wide = Wide'
    BY WriteControl, WideType DEF Control, TypeOK, Wide, Pointers
  <2>2. \A p : Chain(up, p) \subseteq Chain(wide, p)
    BY <1>3, <2>1, WriteWidens, ChainWidens DEF Control
  <2>3. UNCHANGED <<request, step, todo, walk, facts, work, record, shown>>
    BY <1>1 DEF handler
  <2>4. \A done, from : Leads(up, done, from) => Leads(wide, done, from)
    BY <2>2 DEF Leads
  <2>5. Way'
    BY <2>1, <2>2, <2>3, <2>4 DEF Way, Named
  <2>6. Found'
    BY <2>1, <2>3, <2>4 DEF Found
  <2> QED
    BY <2>5, <2>6
<1> QED
  BY <1>2, <1>3

(* A handler's step keeps the pointers. *)
LEMMA SameWide ==
  ASSUME Control, UNCHANGED <<parent, before>>
  PROVE  Wide' = Wide /\ Wide \in Pointers
BY WideType DEF Wide, Control

LEMMA HopWay ==
  ASSUME Control, Way, Found, Hop
  PROVE  Way' /\ Found'
<1>1. /\ step \in Walking
      /\ UNCHANGED <<parent, rank, request, step, todo, facts, work, record, shown, before>>
      /\ walk'.at = IF parent[walk.at] = Nil THEN walk.at ELSE parent[walk.at]
  BY HopControl DEF Hop, table
<1>2. PICK up \in Pointers : up = Wide /\ up = Wide'
  BY <1>1, SameWide
<1>3. walk.at \in Chain(up, todo[1]) /\ walk.at \in Entity
  BY <1>1, <1>2 DEF Way, Control, Phase
<1>4. walk'.at \in Chain(up, todo[1])
  <2>1. parent[walk.at] # Nil => up[walk.at] = parent[walk.at]
    BY <1>2, <1>3 DEF Wide
  <2> QED
    BY <1>1, <1>3, <2>1, ChainGoesOn
<1>5. Way'
  BY <1>1, <1>2, <1>4 DEF Way, Named, Walking
<1>6. Found'
  BY <1>1, <1>2 DEF Found
<1> QED
  BY <1>5, <1>6

(* A step that keeps the facts and starts a walk, if any. *)
LEMMA SameFactsWay ==
  ASSUME Control, Way, UNCHANGED <<parent, before, request, facts>>,
         step' \in {"graph", "records", "ends", "done"},
         step' = "ends" => todo'[1] \in Entity /\ walk'.at = todo'[1]
  PROVE  Way'
<1>1. PICK up \in Pointers : up = Wide /\ up = Wide'
  BY SameWide
<1>2. step' \in Walking => walk'.at \in Chain(up, todo'[1])
  BY ChainStarts DEF Walking
<1> QED
  BY <1>1, <1>2 DEF Way, Named

LEMMA SeeWay ==
  ASSUME Control, Way, Found, See
  PROVE  Way' /\ Found'
<1>1. /\ step = "see" /\ walk.at \in Entity /\ todo \in Seq(Entity) /\ todo # <<>>
      /\ UNCHANGED <<parent, rank, request, work, record, shown, before>>
      /\ request # Nil /\ work = {} /\ shown = {} /\ request.kind # "edge"
      /\ GoOn("root", Named)
      /\ InLine(facts.sides, todo, Named)
      /\ facts.roots = <<>> /\ facts.clusters = <<>>
  BY DEF See, table, Control, TypeOK, Phase, Walking
<1>2. /\ facts'.sides = Append(facts.sides, walk.at)
      /\ facts'.roots = facts.roots /\ facts'.clusters = facts.clusters
  BY SeeControl
<1>3. PICK up \in Pointers : up = Wide /\ up = Wide'
  BY <1>1, SameWide
<1>4. Named' = Named /\ Named \in Seq(Entity)
  BY <1>1, NamedType DEF Named, Control
<1>5. todo[1] = Named[Len(facts.sides) + 1]
  BY <1>1, <1>4, FactsType, OneMore DEF Control
<1>6. Leads(up, facts'.sides, Named)
  BY <1>1, <1>2, <1>3, <1>5, FactsType, LeadsMore DEF Control, Way, Walking
<1>7. /\ step' \in Walking
      /\ walk'.at \in Chain(up, todo'[1])
  <2>1. todo' # <<>> => todo'[1] \in Entity /\ walk'.at = todo'[1]
    BY <1>1, <1>4, GoOnHolds
  <2>2. step' \in Walking
    BY <1>1, <1>4, GoOnHolds DEF Walking
  <2>3. todo' # <<>>
    BY <2>2, SeeControl DEF Control, Phase
  <2> QED
    BY <2>1, <2>2, <2>3, ChainStarts
<1>8. Way'
  <2>1. Leads(up, <<>>, Named) /\ step' # "below"
    BY <1>7 DEF Leads, Walking
  <2> QED
    BY <1>1, <1>2, <1>3, <1>4, <1>6, <1>7, <2>1 DEF Way
<1>9. step' # "ends"
  BY <1>1, <1>4, GoOnHolds
<1> QED
  BY <1>1, <1>8, <1>9 DEF Found

LEMMA RootWay ==
  ASSUME Control, Way, Found, Root
  PROVE  Way' /\ Found'
<1>1. /\ step = "root" /\ walk.at \in Entity /\ todo \in Seq(Entity) /\ todo # <<>>
      /\ UNCHANGED <<parent, rank, request, work, record, shown, before>>
      /\ request # Nil /\ work = {} /\ shown = {} /\ request.kind # "edge"
      /\ InLine(facts.roots, todo, Named)
      /\ facts.clusters = <<>>
  BY DEF Root, table, Control, TypeOK, Phase, Walking
<1>2. /\ facts'.roots = Append(facts.roots, walk.at)
      /\ facts'.sides = facts.sides /\ facts'.clusters = facts.clusters
      /\ facts'.roots \in Seq(Entity)
  BY RootControl, FactsType DEF Control, TypeOK
<1>3. PICK up \in Pointers : up = Wide /\ up = Wide'
  BY <1>1, SameWide
<1>4. Named' = Named /\ Named \in Seq(Entity)
  BY <1>1, NamedType DEF Named, Control
<1>5. todo[1] = Named[Len(facts.roots) + 1]
  BY <1>1, <1>4, FactsType, OneMore DEF Control
<1>6. Leads(up, facts'.roots, Named)
  BY <1>1, <1>2, <1>3, <1>5, FactsType, LeadsMore DEF Control, Way, Walking
<1>7. \/ step' = "done"
      \/ /\ step' \in {"root", "below"} /\ todo' # <<>>
         /\ todo'[1] \in Entity /\ walk'.at = todo'[1]
         /\ walk'.all = {todo'[1]} /\ walk'.rim = {todo'[1]}
  <2>1. LookUp("done", <<>>) \/ GoOn("below", facts'.roots)
    BY <1>2, Zenon DEF Root
  <2>2. CASE LookUp("done", <<>>)
    BY <2>2, NothingToLookUp
  <2>3. CASE GoOn("below", facts'.roots)
    <3>1. /\ step' \in {"root", "below"}
          /\ todo' # <<>> => /\ todo'[1] \in Entity /\ walk'.at = todo'[1]
                             /\ walk'.all = {todo'[1]} /\ walk'.rim = {todo'[1]}
      BY <1>1, <1>2, <2>3, GoOnHolds
    <3>2. todo' # <<>>
      BY <3>1, RootControl DEF Control, Phase, Walking
    <3> QED
      BY <3>1, <3>2
  <2> QED
    BY <2>1, <2>2, <2>3
<1>8. /\ step' \in Walking => walk'.at \in Chain(up, todo'[1])
      /\ step' = "below" => /\ walk'.rim \subseteq walk'.all
                            /\ \A q \in walk'.all : todo'[1] \in Chain(up, q)
      /\ step' # "ends"
  BY <1>7, ChainStarts DEF Walking
<1>9. Way'
  BY <1>1, <1>2, <1>3, <1>4, <1>6, <1>8 DEF Way
<1> QED
  BY <1>1, <1>8, <1>9 DEF Found

LEMMA LevelWay ==
  ASSUME Control, Way, Found, Level
  PROVE  Way' /\ Found'
<1>1. PICK found : found = AbsorbedInto(walk.rim) \ walk.all
  OBVIOUS
<1>2. PICK all : all = walk.all \cup found
  OBVIOUS
<1>3. /\ step = "below" /\ walk \in WalkType /\ todo \in Seq(Entity) /\ todo # <<>>
      /\ UNCHANGED <<parent, rank, request, work, record, shown, before>>
      /\ request # Nil /\ work = {} /\ shown = {}
  BY DEF Level, table, Control, TypeOK, Phase, Walking, WalkType
<1>4. PICK up \in Pointers : up = Wide /\ up = Wide'
  BY <1>3, SameWide
<1>5. ASSUME NEW q \in all
      PROVE  todo[1] \in Chain(up, q)
  <2>1. CASE q \in walk.all
    BY <1>3, <1>4, <2>1 DEF Way
  <2>2. CASE q \in found
    <3>1. q \in Entity /\ parent[q] \in walk.rim /\ parent[q] # Nil
      BY <1>1, <1>3, <2>2, NilAssumption DEF AbsorbedInto, WalkType
    <3>2. up[q] = parent[q] /\ todo[1] \in Chain(up, parent[q])
      BY <1>3, <1>4, <3>1 DEF Way, Wide
    <3>3. up[q] \in Chain(up, q)
      BY <3>1, <3>2, ChainStarts, ChainGoesOn
    <3> QED
      BY <3>2, <3>3, ChainOfChain
  <2> QED
    BY <1>2, <2>1, <2>2
<1>6. Named' = Named /\ facts'.sides = facts.sides /\ facts'.roots = facts.roots
  BY <1>3, LevelControl DEF Named
<1>7. CASE found # {} /\ walk.levels > 1
  <2>1. /\ walk' = [walk EXCEPT !.all = all, !.rim = found, !.levels = walk.levels - 1]
        /\ UNCHANGED <<step, todo, facts>>
    BY <1>1, <1>2, <1>7 DEF Level
  <2>2. walk'.all = all /\ walk'.rim = found
    BY <1>3, <2>1 DEF WalkType
  <2>3. Way'
    BY <1>2, <1>3, <1>4, <1>5, <1>6, <2>1, <2>2 DEF Way, Walking
  <2> QED
    BY <1>3, <2>1, <2>3 DEF Found
<1>8. CASE ~(found # {} /\ walk.levels > 1)
  <2>1. /\ facts' = [facts EXCEPT !.clusters = Append(facts.clusters, all)]
        /\ GoOn("graph", <<>>)
    BY <1>1, <1>2, <1>8, Zenon DEF Level
  <2>2. facts'.clusters = Append(facts.clusters, all)
    BY <2>1, FactsType DEF Control
  <2>3. /\ step' \in {"below", "graph"}
        /\ todo' # <<>> => /\ todo'[1] \in Entity
                           /\ walk'.all = {todo'[1]} /\ walk'.rim = {todo'[1]}
    <3>1. <<>> \in Seq(Entity)
      OBVIOUS
    <3> QED
      BY <1>3, <2>1, <3>1, GoOnHolds
  <2>4. step' = "below" => todo' # <<>>
    BY LevelControl DEF Control, Phase
  <2>5. PICK n \in Nat : n = Len(facts.clusters)
    BY FactsType DEF Control
  <2>6. PICK clusters : clusters = facts'.clusters
    OBVIOUS
  <2>7. Len(clusters) = n + 1 /\ clusters[n + 1] = all /\ \A i \in 1..n : clusters[i] = facts.clusters[i]
    BY <2>2, <2>5, <2>6, FactsType DEF Control
  <2>8. todo[1] = facts.roots[n + 1]
    <3>1. PICK People : People = SUBSET Entity
      OBVIOUS
    <3>2. facts.clusters \in Seq(People) /\ {} \in People /\ facts.roots \in Seq(Entity)
      BY <3>1, FactsType DEF Control
    <3>3. InLine(facts.clusters, todo, facts.roots)
      BY <1>3 DEF Control, Phase
    <3> QED
      BY <1>3, <2>5, <3>2, <3>3, OneMore
  <2>9. ASSUME NEW i \in 1..n + 1, NEW q \in clusters[i]
        PROVE  facts.roots[i] \in Chain(up, q)
    <3>1. i \in 1..n \/ i = n + 1
      BY <2>5
    <3>2. CASE i \in 1..n
      BY <1>4, <2>5, <2>7, <2>9, <3>2 DEF Way
    <3>3. CASE i = n + 1
      BY <1>5, <2>7, <2>8, <2>9, <3>3
    <3> QED
      BY <3>1, <3>2, <3>3
  <2>10. step' = "below" => /\ walk'.rim \subseteq walk'.all
                            /\ \A q \in walk'.all : todo'[1] \in Chain(up, q)
    BY <2>3, <2>4, ChainStarts
  <2>11. Way'
    <3>1. step' \notin Walking
      BY <2>3 DEF Walking
    <3>2. Leads(up, facts.sides, Named) /\ Leads(up, facts.roots, Named)
      BY <1>4 DEF Way
    <3> QED
      BY <1>4, <1>6, <2>6, <2>7, <2>9, <2>10, <3>1, <3>2 DEF Way
  <2> QED
    BY <1>3, <2>3, <2>11 DEF Found
<1> QED
  BY <1>7, <1>8

-----------------------------------------------------------------------------
(* Records and their ends *)

LEMMA EndsOfRightful ==
  ASSUME NEW path, NEW ends, Rightful(request.kind, facts.clusters, path, ends), GraphAssumption
  PROVE  ends \in EndsOf(path)
BY DEF Rightful, EndsOf

LEMMA GraphFound ==
  ASSUME Control, Way, Found, Graph
  PROVE  Way' /\ Found'
<1>1. /\ UNCHANGED <<parent, rank, request, facts, record, shown, before>>
      /\ LookUp("records", <<>>) /\ shown = {}
  BY DEF Graph, table, Control, Phase
<1>2. step' = "records"
  BY <1>1, NothingToLookUp
<1>3. Way'
  BY <1>1, <1>2, SameFactsWay
<1>4. Found'
  BY <1>1, <1>2, GraphControl DEF Found
<1> QED
  BY <1>3, <1>4

LEMMA TakeFound ==
  ASSUME Control, Way, Found, NEW r \in work, Take(r)
  PROVE  Way' /\ Found'
<1>1. /\ step = "records" /\ r \in Record /\ r.ends # <<>> /\ work' = work \ {r}
      /\ record' = [path |-> r.path, ends |-> <<>>]
      /\ UNCHANGED <<parent, rank, request, facts, shown, before>>
      /\ LookUp("ends", r.ends)
      /\ Rightful(request.kind, facts.clusters, r.path, r.ends)
  BY DEF Take, table, Control, TypeOK, Phase, Found
<1>2. r.ends \in Seq(Entity)
  BY <1>1 DEF Record
<1>3. /\ step' = "ends" /\ todo' = r.ends
      /\ todo'[1] \in Entity /\ walk'.at = todo'[1]
  BY <1>1, <1>2, LookUpHolds
<1>4. Way'
  BY <1>1, <1>3, SameFactsWay
<1>5. PICK up : up = Wide /\ up = Wide'
  BY <1>1, SameWide
<1>6. PICK path, ends : path = r.path /\ ends = r.ends
  OBVIOUS
<1>7. /\ ends \in EndsOf(path) /\ Rightful(request.kind, facts.clusters, path, ends)
      /\ InLine(<<>>, ends, ends) /\ Leads(up, <<>>, ends)
  <2>1. Rightful(request.kind, facts.clusters, path, ends)
    BY <1>1, <1>6
  <2>2. ends \in EndsOf(path)
    BY <2>1, EndsOfRightful, GraphAssumption
  <2>3. InLine(<<>>, ends, ends)
    BY <1>2, <1>6, NothingYet
  <2>4. Leads(up, <<>>, ends)
    BY EmptySeq DEF Leads
  <2> QED
    BY <2>1, <2>2, <2>3, <2>4
<1>8. record'.path = path /\ record'.ends = <<>> /\ todo' = ends
  BY <1>1, <1>3, <1>6
<1>9. Found'
  BY <1>1, <1>5, <1>7, <1>8 DEF Found
<1> QED
  BY <1>4, <1>9

LEMMA SeeEndFound ==
  ASSUME Control, Way, Found, SeeEnd
  PROVE  Way' /\ Found'
<1>1. PICK new : new = Append(record.ends, walk.at)
  OBVIOUS
<1>2. PICK seen : seen = [path |-> record.path, ends |-> new]
  OBVIOUS
<1>3. /\ step = "ends" /\ walk.at \in Entity /\ record \in Record
      /\ todo \in Seq(Entity) /\ todo # <<>>
      /\ UNCHANGED <<parent, rank, request, facts, work, before>>
      /\ GoOn("records", <<>>)
  BY DEF SeeEnd, table, Control, TypeOK, Phase, Walking
<1>4. IF Len(todo) > 1 THEN record' = seen /\ shown' = shown
                       ELSE record' = NoRecord /\ shown' = shown \cup {seen}
  <2>1. [record EXCEPT !.ends = new] = seen
    BY <1>2, <1>3, WithEnds
  <2> QED
    BY <1>1, <2>1 DEF SeeEnd
<1>5. PICK up \in Pointers : up = Wide /\ up = Wide'
  BY <1>3, SameWide
<1>6. PICK ends \in EndsOf(record.path) :
         /\ Rightful(request.kind, facts.clusters, record.path, ends) /\ InLine(record.ends, todo, ends)
         /\ Leads(up, record.ends, ends)
  BY <1>3, <1>5 DEF Found
<1>7. ends \in Seq(Entity) /\ record.ends \in Seq(Entity)
  <2>1. record.path \in Seq(Edge) /\ record.ends \in Seq(Entity)
    BY <1>3 DEF Record
  <2>2. \A q \in Entity : <<q>> \in Seq(Entity)
    OBVIOUS
  <2> QED
    BY <2>1, <2>2, BothEndsType DEF EndsOf
<1>8. /\ todo[1] = ends[Len(record.ends) + 1]
      /\ Len(todo) = 1 => Len(new) = Len(ends)
      /\ Len(todo) > 1 => InLine(new, Tail(todo), ends)
  BY <1>1, <1>3, <1>6, <1>7, OneMore
<1>9. Leads(up, new, ends)
  <2>1. walk.at \in Chain(up, ends[Len(record.ends) + 1])
    BY <1>3, <1>5, <1>8 DEF Way, Walking
  <2> QED
    BY <1>1, <1>3, <1>6, <1>7, <2>1, LeadsMore
<1>10. /\ todo' # <<>> => todo'[1] \in Entity /\ walk'.at = todo'[1]
       /\ \/ Len(todo) > 1 /\ step' = "ends" /\ todo' = Tail(todo) /\ todo' # <<>>
          \/ Len(todo) = 1 /\ step' = "records" /\ todo' = <<>>
  <2>1. <<>> \in Seq(Entity)
    OBVIOUS
  <2> QED
    BY <1>3, <2>1, GoOnHolds
<1>11. Way'
  BY <1>3, <1>10, SameFactsWay DEF Way
<1>12. seen.path = record.path /\ seen.ends = new
  BY <1>2
<1>13. Found'
  <2>1. CASE Len(todo) > 1 /\ step' = "ends" /\ todo' = Tail(todo)
    <3>1. record' = seen /\ shown' = shown
      BY <1>4, <2>1
    <3>2. record'.path = record.path /\ record'.ends = new
      BY <1>12, <3>1
    <3>3. ends \in EndsOf(record'.path) /\ InLine(record'.ends, todo', ends)
      BY <1>6, <1>8, <2>1, <3>2
    <3>4. \A r \in work' : Rightful(request.kind, facts.clusters, r.path, r.ends)'
      BY <1>3 DEF Found
    <3>5. \A r \in shown' : \E e \in EndsOf(r.path) :
            Rightful(request.kind, facts.clusters, r.path, e)' /\ Len(e) = Len(r.ends) /\ Leads(up, r.ends, e)
      BY <1>3, <1>5, <3>1 DEF Found
    <3>6. Rightful(request.kind, facts.clusters, record.path, ends)
      BY <1>6
    <3> QED
      BY <1>3, <1>5, <1>9, <3>2, <3>3, <3>4, <3>5, <3>6 DEF Found
  <2>2. CASE Len(todo) = 1 /\ step' = "records"
    <3>1. shown' = shown \cup {seen}
      BY <1>4, <2>2
    <3>2. \A r \in work : Rightful(request.kind, facts.clusters, r.path, r.ends)
      BY DEF Found
    <3>3. \A r \in shown : \E e \in EndsOf(r.path) :
            Rightful(request.kind, facts.clusters, r.path, e) /\ Len(e) = Len(r.ends) /\ Leads(up, r.ends, e)
      BY <1>5 DEF Found
    <3>4. \E e \in EndsOf(seen.path) :
            /\ Rightful(request.kind, facts.clusters, seen.path, e)
            /\ Len(e) = Len(seen.ends) /\ Leads(up, seen.ends, e)
      BY <1>6, <1>8, <1>9, <1>12, <2>2
    <3> QED
      BY <1>3, <1>5, <2>2, <3>1, <3>2, <3>3, <3>4 DEF Found
  <2> QED
    BY <1>10, <2>1, <2>2
<1> QED
  BY <1>11, <1>13

LEMMA HideRecordFound ==
  ASSUME Control, Way, Found, HideRecord \/ Finish
  PROVE  Way' /\ Found'
<1>1. /\ UNCHANGED <<parent, rank, request, facts, work, shown, before>>
      /\ step' \in {"records", "done"}
  BY NothingToLookUp DEF HideRecord, Finish, table
<1>2. Way'
  BY <1>1, SameFactsWay
<1>3. PICK up : up = Wide /\ up = Wide'
  BY <1>1, SameWide
<1>4. Found'
  BY <1>1, <1>3 DEF Found
<1> QED
  BY <1>2, <1>4

LEMMA ArriveWay ==
  ASSUME Control, Arrive
  PROVE  Way' /\ Found'
<1>1. /\ facts' = NoFacts /\ work' = {} /\ shown' = {}
      /\ \/ step' = "graph"
         \/ \E named \in Seq(Entity) : named # <<>> /\ LookUp("see", named)
  <2>1. PICK sees \in Clearance, covers \in Coverage :
           \/ \E e \in Entity : Ask("edges", <<e>>, sees, covers)
           \/ \E s, t \in Entity : s # t /\ Ask("paths", <<s, t>>, sees, covers)
           \/ \E x \in Edge : AskEdge(x, sees, covers)
    BY DEF Arrive
  <2>2. \A e \in Entity : <<e>> \in Seq(Entity) /\ <<e>> # <<>>
    OBVIOUS
  <2>3. \A s, t \in Entity : <<s, t>> \in Seq(Entity) /\ <<s, t>> # <<>>
    OBVIOUS
  <2>4. (\E x \in Edge : AskEdge(x, sees, covers)) => step' = "graph"
    BY NothingToLookUp DEF AskEdge
  <2>5. step = "idle" /\ facts' = facts /\ work' = work /\ shown' = shown
    BY <2>1 DEF Ask, AskEdge
  <2>6. facts' = NoFacts /\ work' = {} /\ shown' = {}
    BY <2>5 DEF Control, Phase
  <2> QED
    BY <2>1, <2>2, <2>3, <2>4, <2>6 DEF Ask
<1>2. step' = "graph" \/ (step' = "see" /\ walk'.at = todo'[1] /\ todo'[1] \in Entity)
  BY <1>1, LookUpHolds
<1>3. step' \in Walking => walk'.at \in Chain(Wide', todo'[1])
  BY <1>2, ChainStarts DEF Walking
<1> QED
  BY <1>1, <1>2, <1>3 DEF Way, Found, Leads, NoFacts

LEMMA NextWay == Control /\ Way /\ Found /\ [Next]_vars => Way' /\ Found'
<1> SUFFICES ASSUME Control, Way, Found, [Next]_vars PROVE Way' /\ Found'
  OBVIOUS
<1>1. ASSUME End PROVE Way' /\ Found'
  BY <1>1, EndControl DEF Way, Found, Leads, NoFacts, Walking
<1>2. CASE Handle
  BY <1>1, <1>2, HopWay, SeeWay, RootWay, LevelWay, GraphFound, TakeFound, SeeEndFound,
     HideRecordFound DEF Handle, NotFound, GraphUnavailable, Answer
<1>3. CASE UNCHANGED vars
  BY <1>3 DEF vars, handler, table, Way, Found, Wide, Named
<1> QED
  BY <1>2, <1>3, WriteWay, ArriveWay DEF Next

-----------------------------------------------------------------------------
(* One change cannot mix two identities *)

LEMMA OnOneChain ==
  ASSUME Control, NEW p \in Entity, NEW q \in Chain(Wide, p)
  PROVE  Survivor(Wide, p) = Survivor(Wide, q)
BY WideType, SurvivorAlong DEF Control

LEMMA WideTellsSame ==
  ASSUME Control, NEW p, NEW q, Survivor(Wide, p) = Survivor(Wide, q)
  PROVE  OnceTheSame(p, q)
BY DEF OnceTheSame, Control, Tables

(* A side that is shown and a node of its cluster. *)
LEMMA SideAndNode ==
  ASSUME Control, Way, Complete, request # Nil, NEW i \in 1..Len(Named),
         request.kind # "edge", NEW near \in facts.clusters[i]
  PROVE  near \in Entity /\ OnceTheSame(near, facts.sides[i])
<1>1. /\ Named \in Seq(Entity) /\ Len(facts.sides) = Len(Named)
      /\ Len(facts.roots) = Len(Named) /\ Len(facts.clusters) = Len(Named)
  BY NamedType DEF Complete, Control
<1>2. Named[i] \in Entity /\ facts.clusters[i] \in SUBSET Entity
  BY <1>1, FactsType, ElementOfSeq DEF Control
<1>3. /\ facts.sides[i] \in Chain(Wide, Named[i])
      /\ facts.roots[i] \in Chain(Wide, Named[i])
      /\ facts.roots[i] \in Chain(Wide, near)
  BY <1>1 DEF Way, Leads
<1>4. Survivor(Wide, near) = Survivor(Wide, facts.sides[i])
  BY <1>2, <1>3, OnOneChain
<1> QED
  BY <1>2, <1>4, WideTellsSame

LEMMA OneEnd ==
  ASSUME NEW q, NEW s, s = <<q>>
  PROVE  Len(s) = 1 /\ s[1] = q
OBVIOUS

LEMMA Consistent == Control /\ Way /\ Found => ConsistentUnderOneChange
<1> SUFFICES ASSUME Control, Way, Found, step = "done", NEW r \in shown
             PROVE  IF request.kind = "edges"
                      THEN \E near, far \in Entity :
                             /\ {near, far} = {From[r.path[1]], To[r.path[1]]}
                             /\ OnceTheSame(near, facts.sides[1])
                             /\ OnceTheSame(far, r.ends[1])
                      ELSE /\ \A i \in 1..Len(r.ends) : OnceTheSame(r.ends[i], BothEnds(r.path)[i])
                           /\ request.kind = "paths" =>
                                \E a, b \in Entity : /\ OnceTheSame(a, facts.sides[1])
                                                     /\ OnceTheSame(b, facts.sides[2])
                                                     /\ Connects(r.path, a, b)
  BY DEF ConsistentUnderOneChange
<1>1. /\ Complete /\ request # Nil /\ r \in Record
      /\ request.kind \in {"edges", "paths", "edge"}
      /\ Len(Named) = IF request.kind = "paths" THEN 2 ELSE 1
  BY NamedType DEF Control, Phase, TypeOK
<1>2. PICK ends \in EndsOf(r.path) :
         /\ Rightful(request.kind, facts.clusters, r.path, ends)
         /\ Len(ends) = Len(r.ends) /\ Leads(Wide, r.ends, ends)
  BY DEF Found
<1>3. \A i \in 1..Len(r.ends) : r.ends[i] \in Chain(Wide, ends[i])
  BY <1>2 DEF Leads
<1>4. CASE request.kind = "edges"
  <2>1. PICK near \in facts.clusters[1], far \in Entity :
           {near, far} = {From[r.path[1]], To[r.path[1]]} /\ ends = <<far>>
    BY <1>2, <1>4 DEF Rightful
  <2>2. near \in Entity /\ OnceTheSame(near, facts.sides[1])
    BY <1>1, <1>4, SideAndNode
  <2>3. ends[1] = far /\ 1 \in 1..Len(r.ends)
    <3>1. ends[1] = far /\ Len(r.ends) = 1
      BY <1>2, <2>1, OneEnd
    <3> QED
      BY <3>1
  <2>4. OnceTheSame(far, r.ends[1])
    BY <1>3, <2>3, OnOneChain, WideTellsSame
  <2> QED
    BY <1>4, <2>1, <2>2, <2>4
<1>5. CASE request.kind # "edges"
  <2>1. ends = BothEnds(r.path) /\ r.path \in Seq(Edge)
    BY <1>1, <1>2, <1>5 DEF Rightful, Record
  <2>2. ASSUME NEW i \in 1..Len(r.ends)
        PROVE  OnceTheSame(r.ends[i], BothEnds(r.path)[i])
    <3>1. ends[i] \in Entity
      BY <1>2, <2>1, BothEndsType, ElementOfSeq
    <3> QED
      BY <1>3, <2>1, <3>1, OnOneChain, WideTellsSame
  <2>3. ASSUME request.kind = "paths"
        PROVE  \E a, b \in Entity : /\ OnceTheSame(a, facts.sides[1])
                                    /\ OnceTheSame(b, facts.sides[2])
                                    /\ Connects(r.path, a, b)
    <3>1. PICK a \in facts.clusters[1], b \in facts.clusters[2] : Connects(r.path, a, b)
      BY <1>2, <2>3 DEF Rightful
    <3>2. 1 \in 1..Len(Named) /\ 2 \in 1..Len(Named)
      BY <1>1, <2>3
    <3>3. /\ a \in Entity /\ OnceTheSame(a, facts.sides[1])
          /\ b \in Entity /\ OnceTheSame(b, facts.sides[2])
      BY <1>1, <2>3, <3>2, SideAndNode
    <3> QED
      BY <3>1, <3>3
  <2> QED
    BY <1>5, <2>2, <2>3
<1> QED
  BY <1>4, <1>5

-----------------------------------------------------------------------------
(* As long as nothing has changed *)

LEMMA FreshWalk ==
  ASSUME NEW up, NEW p \in Entity
  PROVE  Walk(up, p, p, MaxHops)
BY WalkStarts, BoundAssumption DEF Walk, Place

LEMMA DisturbedCalm ==
  ASSUME Control, Write
  PROVE  Calm' /\ Exact'
<1>1. UNCHANGED handler
  BY DEF Write, Merge, Reverse, Change
<1>2. CASE request = Nil
  <2>1. step = "idle" /\ facts = NoFacts /\ work = {} /\ shown = {}
    BY <1>2 DEF Control, TypeOK, Phase
  <2>2. step' = "idle" /\ facts' = NoFacts /\ work' = {} /\ shown' = {}
    BY <1>1, <2>1 DEF handler
  <2> QED
    BY <2>2 DEF Calm, Exact, NoFacts, Walking
<1>3. CASE request # Nil
  <2>1. parent = before /\ parent' # before /\ before' = before
    BY <1>3, WriteControl DEF Write, Merge, Reverse, Change
  <2> QED
    BY <2>1 DEF Calm, Exact, Undisturbed
<1> QED
  BY <1>2, <1>3

LEMMA IdleCalm ==
  ASSUME step = "idle", facts = NoFacts, work = {}, shown = {}
  PROVE  Calm /\ Exact
BY DEF Calm, Exact, NoFacts, Walking

LEMMA ArriveCalm ==
  ASSUME Control, Arrive
  PROVE  Calm'
<1>1. /\ facts' = NoFacts /\ work' = {} /\ shown' = {} /\ step' \in {"see", "graph"}
      /\ step' = "see" => walk'.at = todo'[1] /\ todo'[1] \in Entity /\ walk'.hops = MaxHops
  <2>1. PICK sees \in Clearance, covers \in Coverage :
           \/ \E e \in Entity : Ask("edges", <<e>>, sees, covers)
           \/ \E s, t \in Entity : s # t /\ Ask("paths", <<s, t>>, sees, covers)
           \/ \E x \in Edge : AskEdge(x, sees, covers)
    BY DEF Arrive
  <2>2. \A e \in Entity : <<e>> \in Seq(Entity) /\ <<e>> # <<>>
    OBVIOUS
  <2>3. \A s, t \in Entity : <<s, t>> \in Seq(Entity) /\ <<s, t>> # <<>>
    OBVIOUS
  <2>4. (\E x \in Edge : AskEdge(x, sees, covers)) => step' = "graph"
    BY NothingToLookUp DEF AskEdge
  <2>5. step = "idle" /\ facts' = facts /\ work' = work /\ shown' = shown
    BY <2>1 DEF Ask, AskEdge
  <2>6. facts' = NoFacts /\ work' = {} /\ shown' = {}
    BY <2>5 DEF Control, Phase
  <2>7. \A named \in Seq(Entity) : named # <<>> /\ LookUp("see", named) =>
          /\ step' = "see" /\ walk'.at = todo'[1] /\ todo'[1] \in Entity
          /\ walk'.hops = MaxHops
    BY LookUpHolds
  <2>8. \A kind, named : Ask(kind, named, sees, covers) => LookUp("see", named)
    BY DEF Ask
  <2> QED
    BY <2>1, <2>2, <2>3, <2>4, <2>6, <2>7, <2>8
<1>2. step' \in Walking => Walk(parent', todo'[1], walk'.at, walk'.hops)
  BY <1>1, FreshWalk DEF Walking
<1> QED
  BY <1>1, <1>2 DEF Calm, NoFacts

LEMMA HopCalm ==
  ASSUME Control, Calm, Hop
  PROVE  Calm'
<1>1. /\ step \in Walking /\ walk \in WalkType /\ walk.hops > 0 /\ walk.at \in Entity
      /\ walk' = IF parent[walk.at] = Nil
                   THEN [walk EXCEPT !.hops = 0]
                   ELSE [walk EXCEPT !.at = parent[walk.at], !.hops = walk.hops - 1]
      /\ UNCHANGED <<parent, rank, request, step, todo, facts, work, record, shown, before>>
  BY DEF Hop, HopsLeft, table, Control, TypeOK, Phase, WalkType
<1> SUFFICES ASSUME Undisturbed, Undisturbed' PROVE Calm'
  BY <1>1 DEF Calm, Undisturbed
<1>2. PICK at, hops : at = walk.at /\ hops = walk.hops
  OBVIOUS
<1>3. <<at, hops>> \in Walked(parent, <<todo[1], MaxHops>>)
  BY <1>1, <1>2 DEF Calm, Walk
<1>4. OneHop(parent, <<at, hops>>) \in Walked(parent, <<todo[1], MaxHops>>)
  BY <1>1, <1>2, <1>3, WalkGoesOn, WideType DEF Control
<1>5. <<walk'.at, walk'.hops>> = OneHop(parent, <<at, hops>>)
  BY <1>1, <1>2 DEF OneHop, WalkType
<1>6. Walk(parent', todo'[1], walk'.at, walk'.hops)
  BY <1>1, <1>4, <1>5 DEF Walk
<1> QED
  BY <1>1, <1>6 DEF Calm, Readable, Named

LEMMA SeeCalm ==
  ASSUME Control, Calm, See
  PROVE  Calm'
<1>1. /\ step = "see" /\ walk.at \in Entity /\ walk.hops = 0 /\ Readable(walk.at)
      /\ todo \in Seq(Entity) /\ todo # <<>>
      /\ UNCHANGED <<parent, rank, request, work, record, shown, before>>
      /\ request # Nil /\ work = {} /\ shown = {} /\ request.kind # "edge"
      /\ GoOn("root", Named)
      /\ InLine(facts.sides, todo, Named) /\ facts.roots = <<>>
  BY DEF See, Resolved, table, Control, TypeOK, Phase, Walking
<1> SUFFICES ASSUME Undisturbed, Undisturbed' PROVE Calm'
  BY <1>1 DEF Calm, Undisturbed
<1>2. facts'.sides = Append(facts.sides, walk.at) /\ facts'.roots = <<>>
  BY <1>1, SeeControl
<1>3. Named' = Named /\ Named \in Seq(Entity)
  BY <1>1, NamedType DEF Named, Control
<1>4. todo[1] = Named[Len(facts.sides) + 1]
  BY <1>1, <1>3, FactsType, OneMore DEF Control
<1>5. PICK n \in Nat : n = Len(facts.sides)
  BY FactsType DEF Control
<1>6. PICK sides : sides = facts'.sides
  OBVIOUS
<1>7. Len(sides) = n + 1 /\ sides[n + 1] = walk.at /\ \A i \in 1..n : sides[i] = facts.sides[i]
  BY <1>1, <1>2, <1>5, <1>6, FactsType DEF Control
<1>8. ASSUME NEW i \in 1..n + 1
      PROVE  Walk(parent, Named[i], sides[i], 0) /\ Readable(sides[i])
  <2>1. i \in 1..n \/ i = n + 1
    BY <1>5
  <2>2. CASE i \in 1..n
    BY <1>5, <1>7, <2>2 DEF Calm
  <2>3. CASE i = n + 1
    BY <1>1, <1>4, <1>5, <1>7, <2>3 DEF Calm, Walking
  <2> QED
    BY <2>1, <2>2, <2>3
<1>9. step' \in {"see", "root"} /\ Walk(parent, todo'[1], walk'.at, walk'.hops)
  <2>1. /\ todo' # <<>> => todo'[1] \in Entity /\ walk'.at = todo'[1] /\ walk'.hops = MaxHops
        /\ step' \in {"see", "root"}
    BY <1>1, <1>3, GoOnHolds
  <2>2. todo' # <<>>
    BY <2>1, SeeControl DEF Control, Phase, Walking
  <2> QED
    BY <2>1, <2>2, FreshWalk
<1> QED
  BY <1>1, <1>2, <1>3, <1>6, <1>7, <1>8, <1>9 DEF Calm, Readable

LEMMA RootCalm ==
  ASSUME Control, Calm, Root
  PROVE  Calm'
<1>1. /\ step = "root" /\ walk.at \in Entity /\ walk.hops = 0
      /\ todo \in Seq(Entity) /\ todo # <<>>
      /\ UNCHANGED <<parent, rank, request, work, record, shown, before>>
      /\ request # Nil /\ work = {} /\ shown = {} /\ request.kind # "edge"
      /\ InLine(facts.roots, todo, Named)
  BY DEF Root, Resolved, table, Control, TypeOK, Phase, Walking
<1> SUFFICES ASSUME Undisturbed, Undisturbed' PROVE Calm'
  BY <1>1 DEF Calm, Undisturbed
<1>2. /\ facts'.roots = Append(facts.roots, walk.at) /\ facts'.sides = facts.sides
      /\ facts'.roots \in Seq(Entity)
  BY RootControl, FactsType DEF Control, TypeOK
<1>3. Named' = Named /\ Named \in Seq(Entity)
  BY <1>1, NamedType DEF Named, Control
<1>4. todo[1] = Named[Len(facts.roots) + 1]
  BY <1>1, <1>3, FactsType, OneMore DEF Control
<1>5. PICK n \in Nat : n = Len(facts.roots)
  BY FactsType DEF Control
<1>6. PICK roots : roots = facts'.roots
  OBVIOUS
<1>7. Len(roots) = n + 1 /\ roots[n + 1] = walk.at /\ \A i \in 1..n : roots[i] = facts.roots[i]
  BY <1>1, <1>2, <1>5, <1>6, FactsType DEF Control
<1>8. ASSUME NEW i \in 1..n + 1
      PROVE  Walk(parent, Named[i], roots[i], 0)
  <2>1. i \in 1..n \/ i = n + 1
    BY <1>5
  <2>2. CASE i \in 1..n
    BY <1>5, <1>7, <2>2 DEF Calm
  <2>3. CASE i = n + 1
    BY <1>1, <1>4, <1>5, <1>7, <2>3 DEF Calm, Walking
  <2> QED
    BY <2>1, <2>2, <2>3
<1>9. step' # "ends" /\ (step' \in Walking => Walk(parent, todo'[1], walk'.at, walk'.hops))
  <2>1. LookUp("done", <<>>) \/ GoOn("below", facts'.roots)
    BY <1>2, Zenon DEF Root
  <2>2. CASE LookUp("done", <<>>)
    BY <2>2, NothingToLookUp DEF Walking
  <2>3. CASE GoOn("below", facts'.roots)
    <3>1. /\ todo' # <<>> => todo'[1] \in Entity /\ walk'.at = todo'[1] /\ walk'.hops = MaxHops
          /\ step' \in {"root", "below"}
      BY <1>1, <1>2, <2>3, GoOnHolds
    <3>2. todo' # <<>>
      BY <3>1, RootControl DEF Control, Phase, Walking
    <3> QED
      BY <3>1, <3>2, FreshWalk
  <2> QED
    BY <2>1, <2>2, <2>3
<1> QED
  BY <1>1, <1>2, <1>3, <1>6, <1>7, <1>8, <1>9 DEF Calm, Readable

LEMMA LevelCalm ==
  ASSUME Control, Calm, Level
  PROVE  Calm'
<1>1. /\ step = "below" /\ shown = {} /\ todo \in Seq(Entity) /\ todo # <<>>
      /\ UNCHANGED <<parent, rank, request, work, record, shown, before>>
      /\ facts'.sides = facts.sides /\ facts'.roots = facts.roots
  BY LevelControl DEF Level, table, Control, TypeOK, Phase, Walking
<1>2. step' \in {"below", "graph"}
  <2>1. \/ UNCHANGED <<step, todo, facts>>
        \/ GoOn("graph", <<>>)
    BY Zenon DEF Level
  <2>2. <<>> \in Seq(Entity)
    OBVIOUS
  <2> QED
    BY <1>1, <2>1, <2>2, GoOnHolds
<1> QED
  BY <1>1, <1>2 DEF Calm, Undisturbed, Readable, Named, Walking

LEMMA TakeCalm ==
  ASSUME Control, Calm, NEW r \in work, Take(r)
  PROVE  Calm'
<1>1. /\ step = "records" /\ r \in Record /\ r.ends # <<>>
      /\ record' = [path |-> r.path, ends |-> <<>>]
      /\ UNCHANGED <<parent, rank, request, facts, shown, before>>
      /\ LookUp("ends", r.ends)
  BY DEF Take, table, Control, TypeOK, Phase
<1>2. r.ends \in Seq(Entity)
  BY <1>1 DEF Record
<1>3. /\ step' = "ends" /\ todo'[1] \in Entity /\ walk'.at = todo'[1] /\ walk'.hops = MaxHops
  BY <1>1, <1>2, LookUpHolds
<1>4. Walk(parent, todo'[1], walk'.at, walk'.hops)
  BY <1>3, FreshWalk
<1>5. record'.ends = <<>>
  BY <1>1
<1> QED
  BY <1>1, <1>3, <1>4, <1>5 DEF Calm, Undisturbed, Readable, Named

LEMMA SeeEndCalm ==
  ASSUME Control, Calm, SeeEnd
  PROVE  Calm'
<1>1. PICK new : new = Append(record.ends, walk.at)
  OBVIOUS
<1>2. PICK seen : seen = [path |-> record.path, ends |-> new]
  OBVIOUS
<1>3. /\ step = "ends" /\ walk.at \in Entity /\ record \in Record
      /\ todo \in Seq(Entity) /\ todo # <<>> /\ Readable(walk.at)
      /\ UNCHANGED <<parent, rank, request, facts, work, before>>
      /\ GoOn("records", <<>>)
  BY DEF SeeEnd, table, Control, TypeOK, Phase, Walking
<1>4. IF Len(todo) > 1 THEN record' = seen /\ shown' = shown
                       ELSE record' = NoRecord /\ shown' = shown \cup {seen}
  <2>1. [record EXCEPT !.ends = new] = seen
    BY <1>2, <1>3, WithEnds
  <2> QED
    BY <1>1, <2>1 DEF SeeEnd
<1> SUFFICES ASSUME Undisturbed, Undisturbed' PROVE Calm'
  BY <1>3 DEF Calm, Undisturbed
<1>5. \A i \in 1..Len(new) : Readable(new[i])
  <2>1. record.ends \in Seq(Entity)
    BY <1>3 DEF Record
  <2>2. PICK n \in Nat : n = Len(record.ends)
    BY <2>1
  <2>3. Len(new) = n + 1 /\ new[n + 1] = walk.at /\ \A i \in 1..n : new[i] = record.ends[i]
    BY <1>1, <1>3, <2>1, <2>2
  <2>4. \A i \in 1..n : Readable(record.ends[i])
    BY <1>3, <2>2 DEF Calm
  <2>5. \A i \in 1..n + 1 : i \in 1..n \/ i = n + 1
    BY <2>2
  <2> QED
    BY <1>3, <2>3, <2>4, <2>5
<1>6. /\ todo' # <<>> => todo'[1] \in Entity /\ walk'.at = todo'[1] /\ walk'.hops = MaxHops
      /\ \/ Len(todo) > 1 /\ step' = "ends" /\ todo' # <<>>
         \/ Len(todo) = 1 /\ step' = "records"
  <2>1. <<>> \in Seq(Entity)
    OBVIOUS
  <2> QED
    BY <1>3, <2>1, GoOnHolds
<1>7. step' \in Walking => Walk(parent, todo'[1], walk'.at, walk'.hops)
  BY <1>6, FreshWalk DEF Walking
<1>8. step' = "ends" => record' = seen
  BY <1>4, <1>6
<1>9. shown' \subseteq shown \cup {seen}
  BY <1>4
<1>10. seen.ends = new
  BY <1>2
<1>11. \A r \in shown' : \A i \in 1..Len(r.ends) : Readable(r.ends[i])
  BY <1>5, <1>9, <1>10 DEF Calm
<1>12. step' = "ends" => \A i \in 1..Len(record'.ends) : Readable(record'.ends[i])
  BY <1>5, <1>8, <1>10
<1> QED
  BY <1>3, <1>7, <1>11, <1>12 DEF Calm, Readable, Named

LEMMA OtherCalm ==
  ASSUME Control, Calm, Graph \/ HideRecord \/ Finish
  PROVE  Calm'
<1>1. /\ UNCHANGED <<parent, rank, request, facts, shown, before>>
      /\ step' \in {"records", "done"}
  BY NothingToLookUp DEF Graph, HideRecord, Finish, table
<1> QED
  BY <1>1 DEF Calm, Undisturbed, Readable, Named, Walking

LEMMA NextCalm == Control /\ Calm /\ [Next]_vars => Calm'
<1> SUFFICES ASSUME Control, Calm, [Next]_vars PROVE Calm'
  OBVIOUS
<1>1. ASSUME End PROVE Calm'
  BY <1>1, EndControl DEF Calm, NoFacts, Walking
<1>2. CASE Handle
  BY <1>1, <1>2, HopCalm, SeeCalm, RootCalm, LevelCalm, TakeCalm, SeeEndCalm, OtherCalm
     DEF Handle, NotFound, GraphUnavailable, Answer
<1>3. CASE UNCHANGED vars
  BY <1>3 DEF vars, handler, table, Calm, Undisturbed, Readable, Named
<1> QED
  BY <1>2, <1>3, DisturbedCalm, ArriveCalm DEF Next

(* What is shown hides nobody of a higher tier. *)
LEMMA ReadableBelow ==
  ASSUME Control, NEW p \in Entity, NEW q \in Chain(parent, p), request # Nil, Readable(q)
  PROVE  Readable(p)
<1>1. rank \in [Entity -> Ranks] /\ parent \in Pointers /\ q \in Entity
  BY WideType, ChainInEntity DEF Control, TypeOK
<1>2. rank[p] <= rank[q]
  BY <1>1, RanksAlong DEF Control, Tables
<1>3. rank[p] \in Nat /\ rank[q] \in Nat /\ request.sees \in Nat
  BY <1>1, BoundAssumption, GraphAssumption, NamedType DEF Control
<1>4. p \in Address => q = p
  BY <1>1, ChainUnfolds DEF Control, Tables
<1> QED
  BY <1>2, <1>3, <1>4 DEF Readable

(* What the statements look at is what the officer may see. *)
LEMMA OpenIs == \A p : Open(p) <=> Readable(p)
BY DEF Open, Readable

LEMMA Hidden == Control /\ Way /\ Found /\ Calm => HigherTiersStayHidden
<1> SUFFICES ASSUME Control, Way, Found, Calm, step = "done", Undisturbed, NEW r \in shown,
                    NEW i \in 1..Len(r.path), NEW p \in {From[r.path[i]], To[r.path[i]]}
             PROVE  Readable(p)
  BY OpenIs DEF HigherTiersStayHidden
<1>1. /\ Complete /\ request # Nil /\ r \in Record
      /\ request.kind \in {"edges", "paths", "edge"}
      /\ Len(Named) = IF request.kind = "paths" THEN 2 ELSE 1
  BY NamedType DEF Control, Phase, TypeOK
<1>2. Wide = parent
  BY DEF Undisturbed, Control, Tables
<1>3. PICK ends \in EndsOf(r.path) :
         /\ Rightful(request.kind, facts.clusters, r.path, ends)
         /\ Len(ends) = Len(r.ends) /\ Leads(parent, r.ends, ends)
  BY <1>2 DEF Found
<1>4. \A j \in 1..Len(r.ends) : r.ends[j] \in Chain(parent, ends[j]) /\ Readable(r.ends[j])
  BY <1>3 DEF Leads, Calm
<1>5. r.path \in Seq(Edge) /\ p \in Entity
  BY <1>1, GraphAssumption, ElementOfSeq DEF Record
<1>6. CASE request.kind = "edges"
  <2>1. PICK near \in facts.clusters[1], far \in Entity :
           {near, far} = {From[r.path[1]], To[r.path[1]]} /\ ends = <<far>>
    BY <1>3, <1>6 DEF Rightful
  <2>2. i = 1
    BY <1>3, <1>6 DEF Rightful
  <2>3. CASE p = far
    <3>1. ends[1] = far /\ 1 \in 1..Len(r.ends)
      <4>1. ends[1] = far /\ Len(r.ends) = 1
        BY <1>3, <2>1, OneEnd
      <4> QED
        BY <4>1
    <3> QED
      BY <1>1, <1>4, <1>5, <2>3, <3>1, ReadableBelow
  <2>4. CASE p = near
    <3>1. Len(facts.sides) = 1 /\ Len(facts.roots) = 1 /\ Len(facts.clusters) = 1
      BY <1>1, <1>6, ClustersType
    <3>2. /\ Walk(parent, Named[1], facts.sides[1], 0) /\ Readable(facts.sides[1])
          /\ Walk(parent, Named[1], facts.roots[1], 0)
      BY <3>1 DEF Calm
    <3>3. <<Named[1], MaxHops>> \in Place
      <4>1. Named \in Seq(Entity) /\ Len(Named) = 1
        BY <1>1, <1>6, NamedType DEF Control
      <4>2. PICK named \in Seq(Entity) : named = Named /\ Len(named) = 1
        BY <4>1
      <4>3. 1 \in 1..Len(named)
        BY <4>2
      <4>4. named[1] \in Entity
        BY <4>3, ElementOfSeq
      <4> QED
        BY <4>2, <4>4, BoundAssumption DEF Place
    <3>4. facts.sides[1] = facts.roots[1]
      BY <3>2, <3>3, WalksAgree, WideType DEF Walk, Control
    <3>5. facts.roots[1] \in Chain(parent, near)
      BY <1>2, <3>1 DEF Way
    <3> QED
      BY <1>1, <1>5, <2>4, <3>2, <3>4, <3>5, ReadableBelow
  <2> QED
    BY <2>1, <2>2, <2>3, <2>4
<1>7. CASE request.kind # "edges"
  <2>1. ends = BothEnds(r.path)
    BY <1>3, <1>7 DEF Rightful
  <2>2. PICK j \in 1..Len(r.ends) : ends[j] = p
    <3>1. PICK m \in Nat : m = Len(r.path)
      BY <1>5
    <3>2. Len(r.ends) = 2 * m
      BY <1>3, <1>5, <2>1, <3>1, BothEndsType
    <3>3. /\ 2 * i - 1 \in 1..2 * m /\ 2 * i \in 1..2 * m
          /\ ends[2 * i - 1] = From[r.path[i]] /\ ends[2 * i] = To[r.path[i]]
      BY <1>5, <2>1, <3>1, BothEndsType
    <3> QED
      BY <3>2, <3>3
  <2> QED
    BY <1>1, <1>4, <1>5, <2>2, ReadableBelow
<1> QED
  BY <1>6, <1>7

-----------------------------------------------------------------------------
(* Within the bounds: lookups *)

LEMMA SameQuestion ==
  ASSUME UNCHANGED <<parent, rank, before, request>>
  PROVE  /\ Due' = Due /\ Owed' = Owed /\ Named' = Named
         /\ Undisturbed' = Undisturbed /\ ShortChains' = ShortChains
<1>1. Named' = Named /\ Undisturbed' = Undisturbed /\ ShortChains' = ShortChains
  BY DEF Named, Undisturbed, ShortChains
<1>2. Related' = Related
  BY <1>1 DEF Related
<1>3. \A x : Mirrored(x)' <=> Mirrored(x)
  BY DEF Mirrored
<1>4. Due' = Due
  BY <1>2, <1>3 DEF Due
<1>5. \A r : MayShow(r)' <=> MayShow(r)
  BY DEF MayShow, Open
<1>6. \A s : MayShow(Under(parent, s))' <=> MayShow(Under(parent, s))
  BY DEF MayShow, Open
<1> QED
  BY <1>1, <1>4, <1>6 DEF Owed

LEMMA ShortWalk ==
  ASSUME Control, ShortChains, NEW p \in Entity, NEW y, Walk(parent, p, y, 0)
  PROVE  y = Survivor(parent, p) /\ y \in Entity /\ parent[y] = Nil
<1>1. parent \in Pointers /\ Acyclic(parent)
  BY WideType DEF Control, Tables
<1>2. Cardinality(Chain(parent, p)) - 1 <= MaxHops
  BY DEF ShortChains
<1>3. y = Survivor(parent, p)
  BY <1>1, <1>2, WalkArrives DEF Walk
<1> QED
  BY <1>1, <1>3, SurvivorEnds

(* The first level down is the root itself. *)
LEMMA LevelZero ==
  ASSUME NEW up \in Pointers, Acyclic(up), NEW root \in Entity, up[root] = Nil
  PROVE  Near(up, root, 0) = {root} /\ Ring(up, root, 0) = {root}
<1>1. \A q \in Entity : /\ Cardinality(Chain(up, q)) \in Nat \ {0}
                        /\ up[q] = Nil <=> Cardinality(Chain(up, q)) = 1
  BY ChainLength
<1>2. \A q \in Entity : Cardinality(Chain(up, q)) - 1 <= 0 <=> up[q] = Nil
  BY <1>1
<1>3. \A q \in Entity : Cardinality(Chain(up, q)) - 1 = 0 <=> up[q] = Nil
  BY <1>1
<1>4. \A q \in Entity : up[q] = Nil => Chain(up, q) = {q}
  BY ChainUnfolds
<1>5. \A q \in Entity : (q \in Merged(up, root) /\ up[q] = Nil) <=> q = root
  BY <1>4 DEF Merged
<1> QED
  BY <1>2, <1>3, <1>5 DEF Near, Ring, Merged

LEMMA IdleExact ==
  ASSUME work' = {}, shown' = {}, facts'.clusters = <<>>, step' \in {"idle", "see", "root", "graph"}
  PROVE  Exact'
<1>1. Len(facts'.clusters) = 0
  BY EmptySeq
<1> QED
  BY <1>1 DEF Exact

LEMMA HopExact ==
  ASSUME Control, Exact, Hop
  PROVE  Exact'
<1>1. /\ step \in Walking
      /\ UNCHANGED <<parent, rank, request, step, todo, facts, work, record, shown, before>>
  BY DEF Hop, table
<1>2. Due' = Due /\ Owed' = Owed /\ Named' = Named
      /\ Undisturbed' = Undisturbed /\ ShortChains' = ShortChains
  BY <1>1, SameQuestion
<1> QED
  BY <1>1, <1>2 DEF Exact, Walking, SamePlace

LEMMA SeeExact ==
  ASSUME Control, See
  PROVE  Exact'
<1>1. /\ step = "see" /\ todo \in Seq(Entity) /\ todo # <<>>
      /\ UNCHANGED <<parent, rank, request, work, record, shown, before>>
      /\ request # Nil /\ work = {} /\ shown = {} /\ request.kind # "edge"
      /\ GoOn("root", Named) /\ facts.clusters = <<>>
  BY DEF See, table, Control, TypeOK, Phase, Walking
<1>2. facts'.clusters = <<>>
  BY <1>1, SeeControl
<1>3. step' \in {"see", "root"}
  BY <1>1, NamedType, GoOnHolds DEF Control
<1> QED
  BY <1>1, <1>2, <1>3, IdleExact

LEMMA FirstNamed ==
  ASSUME Control, request # Nil, request.kind # "edge"
  PROVE  Named[1] \in Entity
<1>1. PICK named \in Seq(Entity), n \in {1, 2} : named = Named /\ Len(named) = n
  <2>1. Named \in Seq(Entity)
    BY NamedType DEF Control
  <2>2. Len(Named) \in {1, 2}
    BY DEF Control, Phase
  <2> QED
    BY <2>1, <2>2
<1>2. 1 \in 1..n
  OBVIOUS
<1>3. named[1] \in Entity
  BY <1>1, <1>2, ElementOfSeq
<1> QED
  BY <1>1, <1>3

(* A root that is looked below has the people of level zero. *)
LEMMA LookBelow ==
  ASSUME Control', ShortChains', NEW p \in Entity, NEW root, Walk(parent', p, root, 0),
         walk'.all = {root}, walk'.rim = {root}, walk'.levels = MaxLevels
  PROVE  /\ walk'.all = Near(parent', root, MaxLevels - walk'.levels)
         /\ walk'.rim = Ring(parent', root, MaxLevels - walk'.levels)
<1>1. PICK up : up = parent'
  OBVIOUS
<1>2. up \in Pointers /\ Acyclic(up)
  BY <1>1 DEF Control, TypeOK, Tables, Pointers
<1>3. Cardinality(Chain(up, p)) - 1 <= MaxHops
  BY <1>1 DEF ShortChains
<1>4. root = Survivor(up, p)
  BY <1>1, <1>2, <1>3, WalkArrives DEF Walk
<1>5. root \in Entity /\ up[root] = Nil
  BY <1>2, <1>4, SurvivorEnds
<1>6. MaxLevels - walk'.levels = 0
  BY BoundAssumption
<1> QED
  BY <1>1, <1>2, <1>5, <1>6, LevelZero

LEMMA RootExact ==
  ASSUME Control, Calm, Root
  PROVE  Exact'
<1>1. /\ step = "root" /\ todo \in Seq(Entity) /\ todo # <<>>
      /\ UNCHANGED <<parent, rank, request, work, record, shown, before>>
      /\ request # Nil /\ work = {} /\ shown = {} /\ request.kind # "edge"
      /\ facts.clusters = <<>>
  BY DEF Root, table, Control, TypeOK, Phase, Walking
<1>2. /\ Control' /\ Calm'
      /\ facts'.roots = Append(facts.roots, walk.at) /\ facts'.clusters = <<>>
      /\ facts'.roots \in Seq(Entity)
  BY <1>1, RootControl, RootCalm, FactsType DEF Control, TypeOK
<1>3. CASE LookUp("done", <<>>) /\ SamePlace'
  <2>1. step' = "done" /\ Len(facts'.clusters) = 0
    BY <1>2, <1>3, NothingToLookUp, EmptySeq
  <2> QED
    BY <1>1, <1>3, <2>1 DEF Exact
<1>4. CASE GoOn("below", facts'.roots)
  <2>1. /\ \/ step' = "root"
           \/ step' = "below" /\ todo' = facts'.roots
        /\ todo' # <<>> =>
             /\ walk'.all = {todo'[1]} /\ walk'.rim = {todo'[1]} /\ walk'.levels = MaxLevels
    BY <1>1, <1>2, <1>4, GoOnHolds
  <2>2. CASE step' = "root"
    BY <1>1, <1>2, <2>2, IdleExact
  <2>3. CASE step' = "below" /\ todo' = facts'.roots
    <3>1. Len(facts'.clusters) = 0
      BY <1>2, EmptySeq
    <3> SUFFICES ASSUME Undisturbed', ShortChains'
                 PROVE  /\ walk'.all = Near(parent', todo'[1], MaxLevels - walk'.levels)
                        /\ walk'.rim = Ring(parent', todo'[1], MaxLevels - walk'.levels)
      BY <1>1, <2>3, <3>1 DEF Exact
    <3>2. PICK roots \in Seq(Entity) : roots = facts'.roots
      BY <1>2
    <3>3. todo' # <<>>
      BY <1>2, <2>3 DEF Control, Phase
    <3>4. 1 \in 1..Len(roots)
      BY <2>3, <3>2, <3>3, EmptySeq
    <3>5. Walk(parent', Named'[1], roots[1], 0)
      BY <1>2, <3>2, <3>4 DEF Calm
    <3>6. Named'[1] \in Entity
      BY <1>1, FirstNamed DEF Named
    <3> QED
      BY <1>2, <2>1, <2>3, <3>2, <3>3, <3>5, <3>6, LookBelow
  <2> QED
    BY <2>1, <2>2, <2>3
<1>5. (LookUp("done", <<>>) /\ SamePlace') \/ GoOn("below", facts'.roots)
  BY <1>2, Zenon DEF Root, SamePlace
<1> QED
  BY <1>3, <1>4, <1>5

LEMMA LastInLine ==
  ASSUME NEW S, NEW done \in Seq(S), NEW rest \in Seq(Entity), rest # <<>>,
         NEW from, InLine(done, rest, from)
  PROVE  Len(done) + 1 \in 1..Len(from) /\ rest[1] = from[Len(done) + 1]
<1>1. Len(rest) \in Nat \ {0} /\ Len(done) \in Nat /\ Len(from) = Len(done) + Len(rest)
  BY EmptySeq DEF InLine
<1>2. Len(done) + 1 \in 1..(Len(done) + Len(rest)) /\ 1 \in 1..Len(rest)
  BY <1>1
<1> QED
  BY <1>1, <1>2 DEF InLine

LEMMA WithClusters ==
  ASSUME facts = [sides |-> facts.sides, roots |-> facts.roots, clusters |-> facts.clusters],
         NEW new
  PROVE  [facts EXCEPT !.clusters = new].clusters = new
BY WithSides

LEMMA LevelExact ==
  ASSUME Control, Calm, Exact, Level
  PROVE  Exact'
<1>1. PICK found : found = AbsorbedInto(walk.rim) \ walk.all
  OBVIOUS
<1>2. PICK all : all = walk.all \cup found
  OBVIOUS
<1>3. /\ step = "below" /\ walk \in WalkType /\ walk.levels > 0
      /\ todo \in Seq(Entity) /\ todo # <<>>
      /\ UNCHANGED <<parent, rank, request, work, record, shown, before>>
      /\ request # Nil /\ work = {} /\ shown = {} /\ request.kind # "edge"
      /\ Len(facts.roots) = Len(Named) /\ InLine(facts.clusters, todo, facts.roots)
  BY DEF Level, table, Control, TypeOK, Phase, WalkType
<1>4. Named' = Named /\ Undisturbed' = Undisturbed /\ ShortChains' = ShortChains
  BY <1>3, SameQuestion
<1> SUFFICES ASSUME Undisturbed, ShortChains, Undisturbed', ShortChains' PROVE Exact'
  BY <1>4 DEF Exact
<1>5. PICK up \in Pointers : up = parent /\ up = parent' /\ Acyclic(up)
  BY <1>3, WideType DEF Control, Tables
<1>6. PICK named \in Seq(Entity) : named = Named /\ named = Named'
  BY <1>3, <1>4, NamedType DEF Control
<1>7. PICK roots \in Seq(Entity) : roots = facts.roots /\ Len(roots) = Len(named)
  BY <1>3, <1>6, FactsType DEF Control
<1>8. ASSUME NEW i \in 1..Len(roots)
      PROVE  /\ named[i] \in Entity /\ roots[i] = Survivor(up, named[i])
             /\ roots[i] \in Entity /\ up[roots[i]] = Nil
  <2>1. named[i] \in Entity
    BY <1>7, ElementOfSeq
  <2>2. Walk(parent, named[i], roots[i], 0)
    BY <1>6, <1>7 DEF Calm
  <2> QED
    BY <1>5, <2>1, <2>2, ShortWalk
<1>9. PICK root : root = todo[1]
  OBVIOUS
<1>10. PICK n \in Nat : /\ root = todo[1] /\ n = MaxLevels - walk.levels
                       /\ walk.all = Near(up, root, n) /\ walk.rim = Ring(up, root, n)
  <2>1. MaxLevels - walk.levels \in Nat
    BY <1>3, BoundAssumption DEF WalkType
  <2> QED
    BY <1>9, <1>3, <1>5, <2>1 DEF Exact
<1>11. PICK k \in 1..Len(roots) : k = Len(facts.clusters) + 1 /\ root = roots[k]
  <2>1. Len(facts.clusters) + 1 \in 1..Len(roots) /\ todo[1] = roots[Len(facts.clusters) + 1]
    BY <1>3, <1>7, FactsType, LastInLine DEF Control
  <2> QED
    BY <1>10, <2>1
<1>12. found = {p \in Entity : up[p] \in Ring(up, root, n)} \ Near(up, root, n)
  BY <1>1, <1>5, <1>10 DEF AbsorbedInto
<1>13. root \in Entity /\ up[root] = Nil /\ root = Survivor(up, named[k]) /\ named[k] \in Entity
  BY <1>8, <1>11
<1>14. all = Near(up, root, n + 1) /\ found = Ring(up, root, n + 1)
  <2>1. /\ found = Ring(up, root, n + 1)
        /\ Near(up, root, n) \cup found = Near(up, root, n + 1)
    <3>1. /\ {p \in Entity : up[p] \in Ring(up, root, n)} \ Near(up, root, n)
               = Ring(up, root, n + 1)
          /\ Near(up, root, n) \cup Ring(up, root, n + 1) = Near(up, root, n + 1)
      BY <1>5, <1>13, OneLevelDown, SMTT(30)
    <3> QED
      BY <1>12, <3>1
  <2> QED
    BY <1>2, <1>10, <2>1
<1>15. CASE found # {} /\ walk.levels > 1
  <2>1. /\ walk' = [walk EXCEPT !.all = all, !.rim = found, !.levels = walk.levels - 1]
        /\ step' = step /\ todo' = todo /\ facts' = facts
    BY <1>1, <1>2, <1>15 DEF Level
  <2>2. walk'.all = all /\ walk'.rim = found /\ walk'.levels = walk.levels - 1
    BY <1>3, <2>1 DEF WalkType
  <2>3. MaxLevels - walk'.levels = n + 1
    BY <1>3, <1>10, <2>2, BoundAssumption DEF WalkType
  <2>4. /\ walk'.all = Near(parent', todo'[1], MaxLevels - walk'.levels)
        /\ walk'.rim = Ring(parent', todo'[1], MaxLevels - walk'.levels)
    BY <1>5, <1>10, <1>14, <2>1, <2>2, <2>3
  <2> QED
    BY <1>3, <1>4, <2>1, <2>4 DEF Exact
<1>16. CASE ~(found # {} /\ walk.levels > 1)
  <2>1. all = Merged(up, root)
    <3>1. CASE found = {}
      <4>1. \A p \in Entity : up[p] \in Ring(up, root, n) => p \in Near(up, root, n)
        BY <1>12, <3>1
      <4>2. Near(up, root, n) = Merged(up, root)
        BY <1>5, <1>13, <4>1, NoLevelDown, SMTT(30)
      <4> QED
        BY <1>2, <1>10, <3>1, <4>2
    <3>2. CASE found # {}
      <4>1. n + 1 = MaxLevels
        BY <1>3, <1>10, <1>16, <3>2, BoundAssumption DEF WalkType
      <4>2. \A q \in Entity : Cardinality(Chain(up, q)) - 1 <= MaxLevels
        BY <1>5 DEF ShortChains
      <4> QED
        BY <1>14, <4>1, <4>2 DEF Near, Merged
    <3> QED
      BY <3>1, <3>2
  <2>2. all = Identity(up, named[k])
    BY <1>5, <1>13, <2>1, MergedIsIdentity
  <2>3. GoOn("graph", <<>>) /\ facts'.clusters = Append(facts.clusters, all)
    <3>1. /\ GoOn("graph", <<>>)
          /\ facts' = [facts EXCEPT !.clusters = Append(facts.clusters, all)]
      BY <1>1, <1>2, <1>16, Zenon DEF Level
    <3> QED
      BY <3>1, FactsType, WithClusters DEF Control
  <2>4. ASSUME NEW i \in 1..Len(facts'.clusters)
        PROVE  facts'.clusters[i] = Identity(parent', Named'[i])
    <3>1. PICK People : People = SUBSET Entity
      OBVIOUS
    <3>2. PICK old \in Seq(People) : old = facts.clusters
      BY <3>1, FactsType DEF Control
    <3>3. all \in People
      BY <1>14, <3>1 DEF Near, Merged
    <3>4. /\ Len(Append(old, all)) = Len(old) + 1
          /\ Append(old, all)[Len(old) + 1] = all
          /\ \A j \in 1..Len(old) : Append(old, all)[j] = old[j]
      BY <3>3
    <3>5. i \in 1..Len(old) \/ i = Len(old) + 1
      BY <2>3, <3>2, <3>4
    <3>6. CASE i \in 1..Len(old)
      BY <1>5, <1>6, <2>3, <3>2, <3>4, <3>6 DEF Exact
    <3>7. CASE i = Len(old) + 1
      BY <1>5, <1>6, <1>11, <2>2, <2>3, <3>2, <3>4, <3>7
    <3> QED
      BY <3>5, <3>6, <3>7
  <2>5. /\ todo' # <<>> => walk'.all = {todo'[1]} /\ walk'.rim = {todo'[1]} /\ walk'.levels = MaxLevels
        /\ \/ Len(todo) > 1 /\ step' = "below" /\ todo' = Tail(todo) /\ todo' # <<>>
           \/ step' = "graph"
    <3>1. <<>> \in Seq(Entity)
      OBVIOUS
    <3> QED
      BY <1>3, <2>3, <3>1, GoOnHolds
  <2>6. ASSUME Len(todo) > 1, step' = "below", todo' = Tail(todo)
        PROVE  /\ walk'.all = Near(parent', todo'[1], MaxLevels - walk'.levels)
               /\ walk'.rim = Ring(parent', todo'[1], MaxLevels - walk'.levels)
    <3>1. PICK j \in 1..Len(roots) : todo'[1] = roots[j]
      <4>1. todo'[1] = todo[2] /\ 2 \in 1..Len(todo)
        BY <1>3, <2>6
      <4>2. todo[2] = roots[Len(facts.clusters) + 2]
        BY <1>3, <1>7, <4>1 DEF InLine
      <4>3. Len(facts.clusters) + 2 \in 1..Len(roots)
        <5>1. Len(roots) = Len(facts.clusters) + Len(todo)
          BY <1>3, <1>7 DEF InLine
        <5>2. Len(facts.clusters) \in Nat /\ Len(todo) \in Nat
          BY <1>3, FactsType DEF Control
        <5> QED
          BY <2>6, <5>1, <5>2
      <4> QED
        BY <4>1, <4>2, <4>3
    <3>2. todo'[1] \in Entity /\ up[todo'[1]] = Nil
      BY <1>8, <3>1
    <3>3. MaxLevels - walk'.levels = 0 /\ walk'.all = {todo'[1]} /\ walk'.rim = {todo'[1]}
      BY <2>5, <2>6, BoundAssumption
    <3> QED
      BY <1>5, <3>2, <3>3, LevelZero
  <2> QED
    BY <1>3, <2>4, <2>5, <2>6 DEF Exact
<1> QED
  BY <1>15, <1>16

-----------------------------------------------------------------------------
(* Within the bounds: records *)

LEMMA AsksForAll ==
  ASSUME NEW cluster \in SUBSET Entity
  PROVE  EdgesOf(cluster) = EdgesAround(cluster)
<1>1. \A x \in Edge : From[x] \in Entity /\ To[x] \in Entity
  BY GraphAssumption
<1>2. ASSUME NEW r \in EdgesOf(cluster)
      PROVE  r \in EdgesAround(cluster)
  <2>1. PICK x \in Edge : /\ From[x] \in cluster <=> To[x] \notin cluster
                          /\ r = [path |-> <<x>>,
                                  ends |-> <<IF From[x] \in cluster THEN To[x] ELSE From[x]>>]
    BY DEF EdgesOf
  <2>2. PICK far \in Entity \ cluster : far = IF From[x] \in cluster THEN To[x] ELSE From[x]
    BY <1>1, <2>1
  <2>3. \E near \in cluster : <<From[x], To[x]>> \in {<<near, far>>, <<far, near>>}
    BY <2>1, <2>2
  <2> QED
    BY <2>1, <2>2, <2>3 DEF EdgesAround
<1>3. ASSUME NEW r \in EdgesAround(cluster)
      PROVE  r \in EdgesOf(cluster)
  <2>1. PICK x \in Edge :
           r \in {[path |-> <<x>>, ends |-> <<far>>] :
                    far \in {q \in Entity \ cluster :
                               \E near \in cluster :
                                 <<From[x], To[x]>> \in {<<near, q>>, <<q, near>>}}}
    BY DEF EdgesAround
  <2>2. PICK far \in Entity \ cluster, near \in cluster :
           /\ <<From[x], To[x]>> \in {<<near, far>>, <<far, near>>}
           /\ r = [path |-> <<x>>, ends |-> <<far>>]
    BY <2>1
  <2>3. \/ From[x] = near /\ To[x] = far
        \/ From[x] = far /\ To[x] = near
    BY <2>2
  <2>4. From[x] \in cluster <=> To[x] \notin cluster
    BY <2>2, <2>3
  <2>5. far = IF From[x] \in cluster THEN To[x] ELSE From[x]
    BY <2>2, <2>3
  <2> QED
    BY <2>2, <2>4, <2>5 DEF EdgesOf
<1> QED
  BY <1>2, <1>3

LEMMA DifferentRoots ==
  ASSUME Control, Calm, Undisturbed, ShortChains, request # Nil, request.kind = "paths",
         Len(facts.roots) = 2
  PROVE  SamePlace <=> Identity(parent, Named[1]) = Identity(parent, Named[2])
<1>1. PICK named \in Seq(Entity) : named = Named /\ Len(named) = 2
  BY NamedType DEF Control, Phase
<1>2. PICK a, b : a = named[1] /\ b = named[2]
  OBVIOUS
<1>3. a \in Entity /\ b \in Entity
  <2>1. 1 \in 1..Len(named) /\ 2 \in 1..Len(named)
    BY <1>1
  <2> QED
    BY <1>2, <2>1, ElementOfSeq
<1>4. /\ Walk(parent, a, facts.roots[1], 0) /\ Walk(parent, b, facts.roots[2], 0)
  BY <1>1, <1>2 DEF Calm
<1>5. facts.roots[1] = Survivor(parent, a) /\ facts.roots[2] = Survivor(parent, b)
  BY <1>3, <1>4, ShortWalk
<1>6. Identity(parent, a) = Identity(parent, b) <=> Survivor(parent, a) = Survivor(parent, b)
  BY <1>3 DEF Identity
<1> QED
  BY <1>1, <1>2, <1>5, <1>6 DEF SamePlace

LEMMA RecordsAreRelated ==
  ASSUME Control, Calm, Exact, Undisturbed, ShortChains, step = "graph"
  PROVE  Records = Related
<1>1. Complete /\ request # Nil /\ request.kind \in {"edges", "paths", "edge"} /\ ~SamePlace
  BY NamedType DEF Control, Phase, TypeOK
<1>2. CASE request.kind = "edges"
  <2>1. facts.clusters[1] \in SUBSET Entity /\ Len(facts.clusters) = 1
    BY <1>1, <1>2, ClustersType
  <2>2. facts.clusters[1] = Identity(parent, Named[1])
    BY <2>1 DEF Exact
  <2> QED
    BY <1>2, <2>1, <2>2, AsksForAll DEF Records, Related
<1>3. CASE request.kind = "paths"
  <2>1. Len(facts.roots) = 2 /\ Len(facts.clusters) = 2
    BY <1>1, <1>3, ClustersType
  <2>2. /\ facts.clusters[1] = Identity(parent, Named[1])
        /\ facts.clusters[2] = Identity(parent, Named[2])
    BY <2>1 DEF Exact
  <2>3. Identity(parent, Named[1]) # Identity(parent, Named[2])
    BY <1>1, <1>3, <2>1, DifferentRoots
  <2> QED
    BY <1>3, <2>2, <2>3 DEF Records, Related, PathsTo
<1>4. CASE request.kind = "edge"
  BY <1>4 DEF Records, Related
<1> QED
  BY <1>1, <1>2, <1>3, <1>4

LEMMA RelatedType ==
  ASSUME Control, request # Nil, request.kind # "edges" \/ Named[1] \in Entity, NEW s \in Related
  PROVE  s \in Record
<1>1. request.kind \in {"edges", "paths", "edge"}
  BY NamedType DEF Control
<1>2. CASE request.kind = "edges"
  <2>1. PICK cluster \in SUBSET Entity : cluster = Identity(parent, Named[1])
    BY DEF Identity
  <2>2. s \in EdgesOf(cluster)
    BY <1>2, <2>1, AsksForAll DEF Related
  <2>3. PICK x \in Edge, near \in cluster, far \in Entity \ cluster :
           s = [path |-> <<x>>, ends |-> <<far>>]
    BY <2>1, <2>2, EdgesOfHolds
  <2>4. <<x>> \in Seq(Edge) /\ <<far>> \in Seq(Entity)
    OBVIOUS
  <2> QED
    BY <2>3, <2>4 DEF Record
<1>3. CASE request.kind = "paths"
  <2>1. PICK path, a, b : path \in Shortest(a, b) /\ s = [path |-> path, ends |-> BothEnds(path)]
    BY <1>3 DEF Related, PathsTo, ShortestPaths
  <2>2. path \in Seq(Edge)
    BY <2>1, PathsAreShort DEF Shortest
  <2> QED
    BY <2>1, <2>2, BothEndsType DEF Record
<1>4. CASE request.kind = "edge"
  <2>1. Named \in Seq(Edge) /\ s = [path |-> Named, ends |-> BothEnds(Named)]
    BY <1>4, NamedType DEF Control, Related
  <2> QED
    BY <2>1, BothEndsType DEF Record
<1> QED
  BY <1>1, <1>2, <1>3, <1>4

LEMMA GraphExact ==
  ASSUME Control, Calm, Exact, Graph
  PROVE  Exact'
<1>1. /\ step = "graph" /\ shown = {}
      /\ UNCHANGED <<parent, rank, request, facts, record, shown, before>>
      /\ LookUp("records", <<>>)
      /\ work' = {r \in Records : \A i \in 1..Len(r.path) : Mirrored(r.path[i])}
  BY DEF Graph, table, Control, Phase
<1>2. /\ Due' = Due /\ Owed' = Owed /\ Named' = Named
      /\ Undisturbed' = Undisturbed /\ ShortChains' = ShortChains
  BY <1>1, SameQuestion
<1>3. step' = "records"
  BY <1>1, NothingToLookUp
<1> SUFFICES ASSUME Undisturbed, ShortChains PROVE Exact'
  BY <1>2 DEF Exact
<1>4. work' = Due
  BY <1>1, RecordsAreRelated DEF Due
<1>5. Settled(parent', Owed', work', shown')
  BY <1>2, <1>4 DEF Settled, Owed
<1> QED
  BY <1>1, <1>2, <1>3, <1>4, <1>5 DEF Exact

LEMMA TakeExact ==
  ASSUME Control, Exact, NEW r \in work, Take(r)
  PROVE  Exact'
<1>1. /\ step = "records" /\ r \in Record /\ ~SamePlace /\ work' = work \ {r}
      /\ record' = [path |-> r.path, ends |-> <<>>]
      /\ UNCHANGED <<parent, rank, request, facts, shown, before>>
      /\ LookUp("ends", r.ends)
  BY DEF Take, table, Control, TypeOK, Phase
<1>2. /\ Due' = Due /\ Owed' = Owed /\ Named' = Named
      /\ Undisturbed' = Undisturbed /\ ShortChains' = ShortChains
  BY <1>1, SameQuestion
<1>3. r.ends \in Seq(Entity)
  BY <1>1 DEF Record
<1>4. step' = "ends" /\ todo' = r.ends
  BY <1>1, <1>3, LookUpHolds
<1> SUFFICES ASSUME Undisturbed, ShortChains PROVE Exact'
  BY <1>2 DEF Exact
<1>5. /\ work \subseteq Due /\ Settled(parent, Owed, work, shown)
      /\ shown \subseteq {Under(parent, s) : s \in Owed}
      /\ \A i \in 1..Len(facts.clusters) : facts.clusters[i] = Identity(parent, Named[i])
  BY <1>1 DEF Exact
<1>6. Current(parent', record'.path, record'.ends, todo', r)
  <2>1. Len(<<>>) = 0 /\ InLine(<<>>, todo', r.ends)
    BY <1>3, <1>4, NothingYet, EmptySeq
  <2>2. record'.path = r.path /\ record'.ends = <<>>
    BY <1>1
  <2> QED
    BY <2>1, <2>2 DEF Current
<1>7. Settled(parent', Owed' \ {r}, work', shown')
  BY <1>1, <1>2, <1>5 DEF Settled
<1> QED
  BY <1>1, <1>2, <1>4, <1>5, <1>6, <1>7 DEF Exact

LEMMA FinishExact ==
  ASSUME Control, Exact, Finish
  PROVE  Exact'
<1>1. /\ step = "records"
      /\ UNCHANGED <<parent, rank, request, facts, work, record, shown, before>>
      /\ LookUp("done", <<>>)
  BY DEF Finish, table
<1>2. /\ Due' = Due /\ Owed' = Owed /\ Named' = Named
      /\ Undisturbed' = Undisturbed /\ ShortChains' = ShortChains
  BY <1>1, SameQuestion
<1>3. step' = "done"
  BY <1>1, NothingToLookUp
<1> QED
  BY <1>1, <1>2, <1>3 DEF Exact, SamePlace

LEMMA SeeEndExact ==
  ASSUME Control, Calm, Exact, SeeEnd
  PROVE  Exact'
<1>1. PICK new : new = Append(record.ends, walk.at)
  OBVIOUS
<1>2. PICK seen : seen = [path |-> record.path, ends |-> new]
  OBVIOUS
<1>3. /\ step = "ends" /\ walk.at \in Entity /\ walk.hops = 0 /\ record \in Record
      /\ todo \in Seq(Entity) /\ todo # <<>> /\ Readable(walk.at)
      /\ UNCHANGED <<parent, rank, request, facts, work, before>>
      /\ request # Nil /\ ~SamePlace
      /\ GoOn("records", <<>>)
  BY DEF SeeEnd, Resolved, table, Control, TypeOK, Phase, Walking
<1>4. IF Len(todo) > 1 THEN record' = seen /\ shown' = shown
                       ELSE record' = NoRecord /\ shown' = shown \cup {seen}
  <2>1. [record EXCEPT !.ends = new] = seen
    BY <1>2, <1>3, WithEnds
  <2> QED
    BY <1>1, <2>1 DEF SeeEnd
<1>5. /\ Due' = Due /\ Owed' = Owed /\ Named' = Named
      /\ Undisturbed' = Undisturbed /\ ShortChains' = ShortChains
  BY <1>3, SameQuestion
<1> SUFFICES ASSUME Undisturbed, ShortChains PROVE Exact'
  BY <1>5 DEF Exact
<1>6. /\ work \subseteq Due /\ shown \subseteq {Under(parent, s) : s \in Owed}
      /\ \A i \in 1..Len(facts.clusters) : facts.clusters[i] = Identity(parent, Named[i])
  BY DEF Exact
<1>7. PICK s \in Due : /\ Current(parent, record.path, record.ends, todo, s)
                       /\ Settled(parent, Owed \ {s}, work, shown)
  BY <1>3 DEF Exact
<1>8. PICK done \in Seq(Entity) : done = record.ends
  BY <1>3 DEF Record
<1>9. /\ s.path = record.path /\ InLine(done, todo, s.ends) /\ s.ends \in Seq(Entity)
      /\ \A i \in 1..Len(done) : done[i] = Survivor(parent, s.ends[i])
  <2>1. s \in Related
    BY <1>7 DEF Due
  <2>2. request.kind # "edges" \/ Named[1] \in Entity
    BY <1>3, FirstNamed
  <2>3. s \in Record
    BY <1>3, <2>1, <2>2, RelatedType
  <2> QED
    BY <1>7, <1>8, <2>3 DEF Current, Record
<1>10. /\ Len(new) = Len(done) + 1 /\ new[Len(done) + 1] = walk.at
       /\ \A i \in 1..Len(done) : new[i] = done[i]
       /\ new \in Seq(Entity)
       /\ todo[1] = s.ends[Len(done) + 1]
       /\ Len(todo) = 1 => Len(new) = Len(s.ends)
       /\ Len(todo) > 1 => InLine(new, Tail(todo), s.ends)
  BY <1>1, <1>3, <1>8, <1>9, OneMore
<1>11. walk.at = Survivor(parent, todo[1])
  <2>1. todo[1] \in Entity
    BY <1>3
  <2>2. Walk(parent, todo[1], walk.at, 0)
    BY <1>3 DEF Calm, Walking
  <2> QED
    BY <2>1, <2>2, ShortWalk
<1>12. \A i \in 1..Len(new) : new[i] = Survivor(parent, s.ends[i])
  <2>1. PICK n \in Nat : n = Len(done)
    OBVIOUS
  <2>2. \A i \in 1..n + 1 : i \in 1..n \/ i = n + 1
    BY <2>1
  <2> QED
    BY <1>9, <1>10, <1>11, <2>1, <2>2
<1>13. CASE Len(todo) > 1
  <2>1. step' = "ends" /\ todo' = Tail(todo)
    <3>1. <<>> \in Seq(Entity)
      OBVIOUS
    <3>2. \/ Len(todo) > 1 /\ step' = step /\ todo' = Tail(todo)
          \/ Len(todo) = 1
      BY <1>3, <3>1, GoOnHolds
    <3>3. Len(todo) # 1
      <4>1. \A i \in Nat : i > 1 => i # 1
        OBVIOUS
      <4>2. Len(todo) \in Nat
        BY <1>3
      <4> QED
        BY <1>13, <4>1, <4>2
    <3> QED
      BY <1>3, <3>2, <3>3
  <2>2. record'.path = s.path /\ record'.ends = new /\ shown' = shown
    BY <1>2, <1>4, <1>9, <1>13
  <2>3. Current(parent', record'.path, record'.ends, todo', s)
    BY <1>3, <1>10, <1>12, <1>13, <2>1, <2>2 DEF Current
  <2>4. Settled(parent', Owed' \ {s}, work', shown')
    BY <1>3, <1>5, <1>7, <2>2 DEF Settled
  <2> QED
    BY <1>3, <1>5, <1>6, <1>7, <2>1, <2>2, <2>3, <2>4 DEF Exact
<1>14. CASE ~(Len(todo) > 1)
  <2>1. step' = "records" /\ Len(todo) = 1
    <3>1. <<>> \in Seq(Entity)
      OBVIOUS
    <3> QED
      BY <1>3, <1>14, <3>1, GoOnHolds
  <2>2. shown' = shown \cup {seen}
    BY <1>4, <1>14
  <2>3. seen = Under(parent, s)
    <3>1. PICK m \in Nat : m = Len(new) /\ m = Len(s.ends)
      BY <1>10, <2>1
    <3>2. new = [i \in 1..m |-> new[i]]
      BY <1>10, <3>1
    <3>3. new = [i \in 1..m |-> Survivor(parent, s.ends[i])]
      BY <1>12, <3>1, <3>2
    <3> QED
      BY <1>2, <1>9, <3>1, <3>3 DEF Under
  <2>4. MayShow(seen)
    <3>1. seen.path = s.path /\ seen.ends = new
      BY <1>2, <1>9
    <3>2. \A i \in 1..Len(s.path) : Mirrored(s.path[i])
      BY <1>7 DEF Due
    <3>3. s.path \in Seq(Edge)
      BY <1>3, <1>9 DEF Record
    <3>4. ASSUME NEW i \in 1..Len(s.path)
          PROVE  Mirror[s.path[i]] \in {k \in Ranks : k <= request.sees}
      <4>1. s.path[i] \in Edge
        BY <3>3, ElementOfSeq
      <4>2. Mirror[s.path[i]] \in Ranks \cup {Nil}
        BY <4>1, GraphAssumption
      <4> QED
        BY <3>2, <4>2 DEF Mirrored
    <3>5. ASSUME NEW i \in 1..Len(new)
          PROVE  Readable(new[i])
      <4>1. PICK n \in Nat : n = Len(done)
        OBVIOUS
      <4>2. i \in 1..n \/ i = n + 1
        BY <1>10, <4>1
      <4>3. \A j \in 1..n : Readable(done[j])
        BY <1>3, <1>8, <4>1 DEF Calm
      <4> QED
        BY <1>3, <1>10, <4>1, <4>2, <4>3
    <3> QED
      BY <3>1, <3>4, <3>5, OpenIs DEF MayShow
  <2>5. s \in Owed
    BY <1>7, <2>3, <2>4 DEF Owed
  <2>6. Settled(parent', Owed', work', shown')
    BY <1>3, <1>5, <1>7, <2>2, <2>3 DEF Settled
  <2>7. shown' \subseteq {Under(parent', t) : t \in Owed'}
    BY <1>3, <1>5, <1>6, <2>2, <2>3, <2>5
  <2> QED
    BY <1>3, <1>5, <1>6, <2>1, <2>6, <2>7 DEF Exact
<1> QED
  BY <1>13, <1>14

LEMMA HideRecordExact ==
  ASSUME Control, Calm, Exact, HideRecord
  PROVE  Exact'
<1>1. /\ step = "ends" /\ walk.at \in Entity /\ walk.hops = 0 /\ record \in Record
      /\ todo \in Seq(Entity) /\ todo # <<>> /\ ~Readable(walk.at)
      /\ UNCHANGED <<parent, rank, request, facts, work, shown, before>>
      /\ request # Nil
      /\ LookUp("records", <<>>)
  BY DEF HideRecord, Resolved, table, Control, TypeOK, Phase, Walking
<1>2. /\ Due' = Due /\ Owed' = Owed /\ Named' = Named
      /\ Undisturbed' = Undisturbed /\ ShortChains' = ShortChains
  BY <1>1, SameQuestion
<1>3. step' = "records"
  BY <1>1, NothingToLookUp
<1> SUFFICES ASSUME Undisturbed, ShortChains PROVE Exact'
  BY <1>2 DEF Exact
<1>4. PICK s \in Due : /\ Current(parent, record.path, record.ends, todo, s)
                       /\ Settled(parent, Owed \ {s}, work, shown)
  BY <1>1 DEF Exact
<1>5. PICK done \in Seq(Entity) : done = record.ends
  BY <1>1 DEF Record
<1>6. InLine(done, todo, s.ends)
  BY <1>4, <1>5 DEF Current
<1>7. PICK k \in 1..Len(s.ends) : todo[1] = s.ends[k]
  BY <1>1, <1>5, <1>6, LastInLine
<1>8. walk.at = Survivor(parent, todo[1])
  <2>1. todo[1] \in Entity
    BY <1>1
  <2>2. Walk(parent, todo[1], walk.at, 0)
    BY <1>1 DEF Calm, Walking
  <2> QED
    BY <2>1, <2>2, ShortWalk
<1>9. s \notin Owed
  <2>1. PICK m : m = Len(s.ends)
    OBVIOUS
  <2>2. PICK ends : ends = [i \in 1..m |-> Survivor(parent, s.ends[i])]
    OBVIOUS
  <2>3. Under(parent, s).ends = ends
    BY <2>1, <2>2 DEF Under
  <2>4. ends[k] = walk.at
    BY <1>7, <1>8, <2>1, <2>2
  <2>5. s.ends \in Seq(Entity)
    <3>1. s \in Related
      BY <1>4 DEF Due
    <3>2. request.kind # "edges" \/ Named[1] \in Entity
      BY <1>1, FirstNamed
    <3> QED
      BY <1>1, <3>1, <3>2, RelatedType DEF Record
  <2>6. Len(ends) = m
    BY <2>1, <2>2, <2>5
  <2> QED
    BY <1>1, <1>7, <2>1, <2>3, <2>4, <2>6, OpenIs DEF Owed, MayShow
<1>10. Settled(parent', Owed', work', shown')
  BY <1>1, <1>2, <1>4, <1>9 DEF Settled
<1> QED
  BY <1>1, <1>2, <1>3, <1>10 DEF Exact

LEMMA NextExact == Control /\ Calm /\ Exact /\ [Next]_vars => Exact'
<1> SUFFICES ASSUME Control, Calm, Exact, [Next]_vars PROVE Exact'
  OBVIOUS
<1>1. ASSUME End PROVE Exact'
  BY <1>1, EndControl, IdleExact DEF NoFacts
<1>2. CASE Handle
  BY <1>1, <1>2, HopExact, SeeExact, RootExact, LevelExact, GraphExact, TakeExact,
     SeeEndExact, HideRecordExact, FinishExact DEF Handle, NotFound, GraphUnavailable, Answer
<1>3. CASE Arrive
  <2>1. facts' = facts /\ work' = work /\ shown' = shown /\ step = "idle"
    BY <1>3 DEF Arrive, Ask, AskEdge
  <2>2. facts'.clusters = <<>> /\ work' = {} /\ shown' = {}
    BY <2>1 DEF Control, Phase, NoFacts
  <2>3. step' \in {"see", "graph"}
    BY <1>3 DEF Arrive, Ask, AskEdge, LookUp
  <2> QED
    BY <2>2, <2>3, IdleExact
<1>4. CASE UNCHANGED vars
  <2>1. UNCHANGED <<parent, rank, before, request, step, todo, walk, facts, work, record, shown>>
    BY <1>4 DEF vars, handler, table
  <2>2. /\ Due' = Due /\ Owed' = Owed /\ Named' = Named
        /\ Undisturbed' = Undisturbed /\ ShortChains' = ShortChains
    BY <2>1, SameQuestion
  <2> QED
    BY <2>1, <2>2 DEF Exact, SamePlace
<1> QED
  BY <1>2, <1>3, <1>4, DisturbedCalm DEF Next

LEMMA Exactly == Control /\ Calm /\ Exact => AnswersExact
<1> SUFFICES ASSUME Control, Calm, Exact, step = "done", Undisturbed, ShortChains
             PROVE  /\ \A i \in 1..Len(facts.sides) : facts.sides[i] = Survivor(parent, Named[i])
                    /\ shown = {r \in {UnderSurvivors(s) : s \in Related} : MayShow(r)}
  BY DEF AnswersExact
<1>1. /\ request # Nil /\ work = {} /\ (SamePlace => shown = {})
      /\ IF SamePlace THEN request.kind = "paths" ELSE Complete
      /\ Len(Named) = IF request.kind = "paths" THEN 2 ELSE 1
      /\ IF request.kind = "edge" THEN Len(facts.sides) = 0 ELSE Len(facts.sides) = Len(Named)
  BY DEF Control, TypeOK, Phase, Complete
<1>2. ASSUME NEW i \in 1..Len(facts.sides)
      PROVE  facts.sides[i] = Survivor(parent, Named[i])
  <2>1. request.kind # "edge" /\ i \in 1..Len(Named)
    BY <1>1
  <2>2. PICK named \in Seq(Entity) : named = Named
    BY <1>1, <2>1, NamedType DEF Control
  <2>3. named[i] \in Entity
    BY <2>1, <2>2, ElementOfSeq
  <2>4. Walk(parent, named[i], facts.sides[i], 0)
    BY <2>2 DEF Calm
  <2> QED
    BY <2>2, <2>3, <2>4, ShortWalk
<1>3. CASE SamePlace
  <2>1. Identity(parent, Named[1]) = Identity(parent, Named[2])
    BY <1>1, <1>3, DifferentRoots DEF SamePlace
  <2>2. Related = {}
    BY <1>1, <1>3, <2>1 DEF Related, PathsTo
  <2> QED
    BY <1>1, <1>2, <1>3, <2>2
<1>4. CASE ~SamePlace
  <2>1. /\ Settled(parent, Owed, {}, shown)
        /\ shown \subseteq {Under(parent, s) : s \in Owed}
    BY <1>1, <1>4 DEF Exact
  <2>2. \A s : UnderSurvivors(s) = Under(parent, s)
    BY DEF UnderSurvivors, Under
  <2>3. ASSUME NEW s \in Related, MayShow(Under(parent, s))
        PROVE  s \in Owed
    <3>1. Under(parent, s).path = s.path
      BY DEF Under
    <3>2. \A i \in 1..Len(s.path) : Mirrored(s.path[i])
      BY <2>3, <3>1, NilAssumption DEF MayShow, Mirrored
    <3> QED
      BY <2>3, <3>2 DEF Owed, Due
  <2>4. Owed = {s \in Related : MayShow(Under(parent, s))}
    BY <2>3 DEF Owed, Due
  <2>5. shown = {Under(parent, s) : s \in Owed}
    BY <2>1 DEF Settled
  <2> QED
    BY <1>2, <2>2, <2>4, <2>5
<1> QED
  BY <1>3, <1>4

-----------------------------------------------------------------------------
(* Theorems                                                                *)

LEMMA InitInv == Init => IInv
<1> SUFFICES ASSUME Init PROVE IInv
  OBVIOUS
<1>1. step = "idle" /\ facts = NoFacts /\ work = {} /\ shown = {}
  BY DEF Init
<1> QED
  BY <1>1, InitControl, IdleWay, IdleCalm DEF IInv

LEMMA NextInv == IInv /\ [Next]_vars => IInv'
BY NextControl, NextWay, NextCalm, NextExact DEF IInv

LEMMA Inductive == Spec => []IInv
BY InitInv, NextInv, PTL DEF Spec

(* Every reachable state is of its type, whatever people, edges and tiers  *)
(* there are and however many merges and requests have come.               *)
THEOREM Typing == Spec => []TypeOK
<1>1. IInv => TypeOK
  BY DEF IInv, Control
<1> QED
  BY Inductive, <1>1, PTL

(* A request nothing changed under is answered with all that is related to *)
(* anybody of the identity, each end under its own survivor, and leaves    *)
(* out just what the mirror, the tier of an end or the district of an      *)
(* address hides: the walks of get_entity_relationships and find_paths     *)
(* agree on every forest of merges that is not deeper than their bounds.   *)
THEOREM AnswersAreExact == Spec => []AnswersExact
<1>1. IInv => AnswersExact
  BY Exactly DEF IInv
<1> QED
  BY Inductive, <1>1, PTL

(* Nothing is shown that touches a person of a tier the officer may not    *)
(* read, although only the survivor's tier is looked at: merge_entities    *)
(* has lifted it. This holds for chains longer than the bounds of the      *)
(* walks. Nor does it touch an address of another district: merge_entities *)
(* finds persons only, so no walk leads from an address elsewhere.         *)
THEOREM HigherTiersHidden == Spec => []HigherTiersStayHidden
<1>1. IInv => HigherTiersStayHidden
  BY Hidden DEF IInv
<1> QED
  BY Inductive, <1>1, PTL

(* A merge or a reversal that is committed between the statements of a     *)
(* request does not mix two people up: every side and end that is shown is *)
(* one person with what the graph was asked about, before it or after it.  *)
THEOREM AnswersAreConsistent == Spec => []ConsistentUnderOneChange
<1>1. IInv => ConsistentUnderOneChange
  BY Consistent DEF IInv
<1> QED
  BY Inductive, <1>1, PTL

=============================================================================
