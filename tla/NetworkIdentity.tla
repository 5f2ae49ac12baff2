-------------------------- MODULE NetworkIdentity --------------------------
(***************************************************************************)
(* What the network shows of merged people (services/network_service.py,   *)
(* graph/queries.py): a request finds the surviving person of the entity   *)
(* it names, asks Neo4j about everybody merged into it, and shows an edge  *)
(* only with a readable mirror row and readable ends. Each SELECT is a     *)
(* step, and merges and reversals are committed between them.              *)
(*                                                                         *)
(* The people are those of MergeLedger, which EntityResolution implements; *)
(* nobody is tagged here, because the tag only forbids merges. A row of    *)
(* another table is an entity nobody merges: its walk ends at once, and an *)
(* address is open only within the districts of the officer.               *)
(* One request stands for all: a reader changes nothing others read.       *)
(***************************************************************************)
EXTENDS Naturals, Sequences, FiniteSets

CONSTANTS Entity,     \* nodes of the graph, rows of persons and other tables
          Address,    \* those that are rows of addresses
          Edge,       \* edges of the graph
          From, To,   \* the two nodes of each edge
          Mirror,     \* classification of its mirror row, or Nil: no row
          Ranks,      \* the CLASSIFICATION_RANK values in use
          FirstRanks, \* what the tiers of the people may be at first
          Clearance,  \* ranks of the officers that ask
          Coverage,   \* sets of addresses in the districts of an officer
          MaxHops,    \* the bound of the walk up (10 in the code)
          MaxLevels,  \* the bound of the walk down (20 in the code)
          MaxPath,    \* max_hops of a path request
          Nil         \* a NULL column, no row, no request

ASSUME GraphAssumption ==
  /\ IsFiniteSet(Entity) /\ Address \subseteq Entity
  /\ From \in [Edge -> Entity]
  /\ To \in [Edge -> Entity]
  /\ Mirror \in [Edge -> Ranks \cup {Nil}]
  /\ FirstRanks \subseteq [Entity -> Ranks]
  /\ Clearance \subseteq Ranks /\ Coverage \subseteq SUBSET Address

ASSUME BoundAssumption ==
  /\ Ranks \subseteq Nat
  /\ {MaxHops, MaxLevels, MaxPath} \subseteq Nat \ {0}

ASSUME NilAssumption == Nil \notin Entity /\ Nil \notin Ranks

VARIABLES parent,     \* persons.merged_into_id
          rank,       \* persons.classification
          request,    \* what is asked, of whom, with which clearance and districts
          step,       \* where the handler is
          todo,       \* the entities it still looks up in this step
          walk,       \* how far the first of these lookups has come
          facts,      \* what it knows of the entities that were named
          work,       \* records of the graph it has not gone through
          record,     \* the record under way, with the ends seen of it
          shown,      \* what the answer holds so far
          before      \* HISTORY: the pointers when the request came

table == <<parent, rank>>
handler == <<request, step, todo, walk, facts, work, record, shown>>
vars == <<table, handler, before>>

Ledger == INSTANCE MergeLedger WITH Person <- Entity, protected <- [p \in Entity |-> FALSE]

Kinds == {"edges", "edge", "paths"}
Walking == {"see", "root", "ends"}
Steps == Walking \cup {"idle", "below", "graph", "records", "done"}

Record == [path : Seq(Edge), ends : Seq(Entity)]
NoFacts == [sides |-> <<>>, roots |-> <<>>, clusters |-> <<>>]
NoRecord == [path |-> <<>>, ends |-> <<>>]
NoWalk == [at |-> Nil, hops |-> 0, all |-> {}, rim |-> {}, levels |-> 0]

Init ==
  /\ parent = [p \in Entity |-> Nil]
  /\ rank \in FirstRanks
  /\ request = Nil
  /\ step = "idle"
  /\ todo = <<>>
  /\ walk = NoWalk
  /\ facts = NoFacts
  /\ work = {}
  /\ record = NoRecord
  /\ shown = {}
  /\ before = parent

-----------------------------------------------------------------------------
(* The two writers, as far as the network can see them.                    *)

(* BOUND: at most one change is committed while a request is under way.    *)
Change ==
  /\ request # Nil => parent = before
  /\ before' = IF request = Nil THEN parent' ELSE before
  /\ UNCHANGED handler

(* Mutant: the survivor keeps its own tier.                                *)
SurvivorRank_Mine(mine, theirs) == IF mine = theirs THEN theirs ELSE mine

SurvivorRank(mine, theirs) == IF mine >= theirs THEN mine ELSE theirs

Merge(p, a) ==
  /\ Ledger!Absorb(p, a)
  /\ rank' = [rank EXCEPT ![p] = SurvivorRank(@, rank[a])]
  /\ Change

Reverse(a) == Ledger!Free(a) /\ UNCHANGED rank /\ Change

-----------------------------------------------------------------------------
(* Lookups. A step looks up the entities of todo one after the other.      *)

NewWalk(entities) ==
  IF entities = <<>>
    THEN NoWalk
    ELSE [at |-> Head(entities), hops |-> MaxHops,
          all |-> {Head(entities)}, rim |-> {Head(entities)}, levels |-> MaxLevels]

LookUp(next, entities) ==
  /\ step' = next
  /\ todo' = entities
  /\ walk' = NewWalk(entities)

(* The next lookup of this step, or the first of the one that follows.     *)
GoOn(next, entities) ==
  IF Len(todo) > 1 THEN LookUp(step, Tail(todo)) ELSE LookUp(next, entities)

Named == request.named

Ask(kind, named, sees, covers) ==
  /\ step = "idle"
  /\ request' = [kind |-> kind, named |-> named, sees |-> sees, covers |-> covers]
  /\ LookUp("see", named)
  /\ UNCHANGED <<table, facts, work, record, shown, before>>

AskEdge(x, sees, covers) ==
  /\ step = "idle"
  /\ request' = [kind |-> "edge", named |-> <<x>>, sees |-> sees, covers |-> covers]
  /\ LookUp("graph", <<>>)
  /\ UNCHANGED <<table, facts, work, record, shown, before>>

(* Mutant: one statement is taken for the whole walk.                      *)
HopsLeft_One(hops) == IF hops > 0 THEN 0 ELSE hops

HopsLeft(hops) == hops - 1

(* One SELECT of merged_into_id in _resolve_person_primary.                *)
Hop ==
  /\ step \in Walking
  /\ walk.hops > 0
  /\ walk' = IF parent[walk.at] = Nil
               THEN [walk EXCEPT !.hops = 0]
               ELSE [walk EXCEPT !.at = parent[walk.at], !.hops = HopsLeft(@)]
  /\ UNCHANGED <<table, request, step, todo, facts, work, record, shown, before>>

Resolved == step \in Walking /\ walk.hops = 0

(* Mutant: the districts are not looked at.                                *)
Readable_TierOnly(p) == rank[p] <= request.sees

(* _endpoint_summary's SELECT of the row, for an officer of this tier, and *)
(* for an address of one of these districts.                               *)
Readable(p) == rank[p] <= request.sees /\ (p \in Address => p \in request.covers)

End ==
  /\ request' = Nil
  /\ LookUp("idle", <<>>)
  /\ facts' = NoFacts
  /\ work' = {}
  /\ record' = NoRecord
  /\ shown' = {}
  /\ before' = parent
  /\ UNCHANGED table

See ==
  /\ Resolved /\ step = "see"
  /\ Readable(walk.at)
  /\ facts' = [facts EXCEPT !.sides = Append(@, walk.at)]
  /\ GoOn("root", Named)
  /\ UNCHANGED <<table, request, work, record, shown, before>>

NotFound == Resolved /\ step = "see" /\ ~Readable(walk.at) /\ End

(* The second resolution. A path to yourself is answered with no paths.    *)
Root ==
  LET roots == Append(facts.roots, walk.at)
  IN  /\ Resolved /\ step = "root"
      /\ facts' = [facts EXCEPT !.roots = roots]
      /\ IF Len(roots) = 2 /\ roots[1] = roots[2]
           THEN LookUp("done", <<>>)
           ELSE GoOn("below", roots)
      /\ UNCHANGED <<table, request, work, record, shown, before>>

AbsorbedInto(people) == {p \in Entity : parent[p] \in people}

(* One level of _merge_cluster_ids: a SELECT over the current frontier.    *)
Level ==
  LET found == AbsorbedInto(walk.rim) \ walk.all
      all == walk.all \cup found
  IN  /\ step = "below"
      /\ IF found # {} /\ walk.levels > 1
           THEN /\ walk' = [walk EXCEPT !.all = all, !.rim = found, !.levels = @ - 1]
                /\ UNCHANGED <<step, todo, facts>>
           ELSE /\ facts' = [facts EXCEPT !.clusters = Append(@, all)]
                /\ GoOn("graph", <<>>)
      /\ UNCHANGED <<table, request, work, record, shown, before>>

-----------------------------------------------------------------------------
(* The graph, and its records against the mirror.                          *)

(* Mutant: edges inside the cluster are not dropped.                       *)
EdgesOf_Inner(cluster) ==
  {[path |-> <<x>>, ends |-> <<IF From[x] \in cluster THEN To[x] ELSE From[x]>>] :
     x \in {y \in Edge : {From[y], To[y]} \cap cluster # {}}}

(* Mutant: the end that is shown is the one inside.                        *)
EdgesOf_NearEnd(cluster) ==
  {[path |-> <<x>>, ends |-> <<IF From[x] \in cluster THEN From[x] ELSE To[x]>>] :
     x \in {y \in Edge : From[y] \in cluster <=> To[y] \notin cluster}}

(* RELATIONSHIPS_OF_ENTITY: one node inside the cluster, the other not.    *)
EdgesOf(cluster) ==
  {[path |-> <<x>>, ends |-> <<IF From[x] \in cluster THEN To[x] ELSE From[x]>>] :
     x \in {y \in Edge : From[y] \in cluster <=> To[y] \notin cluster}}

BothEnds(path) == [i \in 1..2 * Len(path) |->
  IF i % 2 = 1 THEN From[path[(i + 1) \div 2]] ELSE To[path[i \div 2]]]

(* Undirected: a walk of nodes and the edges between them.                 *)
Connects(path, a, b) ==
  \E node \in [1..Len(path) + 1 -> Entity] :
    /\ node[1] = a /\ node[Len(path) + 1] = b
    /\ \A i \in 1..Len(path) : {node[i], node[i + 1]} = {From[path[i]], To[path[i]]}

Simple(path) == \A i, j \in 1..Len(path) : path[i] = path[j] => i = j

PathsBetween(a, b) ==
  UNION {{path \in [1..n -> Edge] : Simple(path) /\ Connects(path, a, b)} : n \in 1..MaxPath}

(* allShortestPaths for each pair of a node of one and one of the other.   *)
Shortest(a, b) ==
  {path \in PathsBetween(a, b) : \A other \in PathsBetween(a, b) : Len(path) <= Len(other)}

ShortestPaths(sources, targets) == UNION {Shortest(a, b) : a \in sources, b \in targets}

Records ==
  CASE request.kind = "edges" -> EdgesOf(facts.clusters[1])
    [] request.kind = "edge"  -> {[path |-> Named, ends |-> BothEnds(Named)]}
    [] request.kind = "paths" ->
         {[path |-> path, ends |-> BothEnds(path)] :
            path \in ShortestPaths(facts.clusters[1], facts.clusters[2])}

(* Mutant: an edge without a mirror row is shown.                          *)
Mirrored_OrNoRow(x) == Mirror[x] # Nil => Mirror[x] <= request.sees

Mirrored(x) == Mirror[x] # Nil /\ Mirror[x] <= request.sees

(* No handler changes a mirror's tier: _mirror_row is asked at once.       *)
Graph ==
  /\ step = "graph"
  /\ work' = {r \in Records : \A i \in 1..Len(r.path) : Mirrored(r.path[i])}
  /\ LookUp("records", <<>>)
  /\ UNCHANGED <<table, request, facts, record, shown, before>>

(* Neo4j cannot be reached: 503, and nothing is shown.                     *)
GraphUnavailable == step = "graph" /\ End

Take(r) ==
  /\ step = "records"
  /\ r \in work
  /\ work' = work \ {r}
  /\ record' = [path |-> r.path, ends |-> <<>>]
  /\ LookUp("ends", r.ends)
  /\ UNCHANGED <<table, request, facts, shown, before>>

SeeEnd ==
  LET seen == [record EXCEPT !.ends = Append(@, walk.at)]
  IN  /\ Resolved /\ step = "ends"
      /\ Readable(walk.at)
      /\ GoOn("records", <<>>)
      /\ IF Len(todo) > 1
           THEN record' = seen /\ UNCHANGED shown
           ELSE record' = NoRecord /\ shown' = shown \cup {seen}
      /\ UNCHANGED <<table, request, facts, work, before>>

(* An end that cannot be read drops the record, a path with all its edges. *)
HideRecord ==
  /\ Resolved /\ step = "ends"
  /\ ~Readable(walk.at)
  /\ record' = NoRecord
  /\ LookUp("records", <<>>)
  /\ UNCHANGED <<table, request, facts, work, shown, before>>

Finish ==
  /\ step = "records"
  /\ work = {}
  /\ LookUp("done", <<>>)
  /\ UNCHANGED <<table, request, facts, work, record, shown, before>>

Answer == step = "done" /\ End

-----------------------------------------------------------------------------

Write ==
  \/ \E p, a \in Entity \ Address : Merge(p, a)
  \/ \E a \in Entity : Reverse(a)

Handle ==
  \/ Hop \/ See \/ NotFound \/ Root \/ Level
  \/ Graph \/ GraphUnavailable
  \/ \E r \in work : Take(r)
  \/ SeeEnd \/ HideRecord \/ Finish \/ Answer

Arrive ==
  \E sees \in Clearance, covers \in Coverage :
    \/ \E e \in Entity : Ask("edges", <<e>>, sees, covers)
    \/ \E s, t \in Entity : s # t /\ Ask("paths", <<s, t>>, sees, covers)
    \/ \E x \in Edge : AskEdge(x, sees, covers)

Next == Write \/ Handle \/ Arrive

Spec == Init /\ [][Next]_vars

-----------------------------------------------------------------------------
(* Properties                                                              *)

Request ==
  [kind : {"edges", "paths"}, named : Seq(Entity), sees : Clearance, covers : Coverage]
    \cup [kind : {"edge"}, named : Seq(Edge), sees : Clearance, covers : Coverage]

ASSUME RequestAssumption == Nil \notin Request

TypeOK ==
  /\ parent \in [Entity -> Entity \cup {Nil}]
  /\ rank \in [Entity -> Ranks]
  /\ request \in Request \cup {Nil}
  /\ step \in Steps /\ (request = Nil <=> step = "idle")
  /\ todo \in Seq(Entity)
  /\ walk \in [at : Entity \cup {Nil}, hops : 0..MaxHops, all : SUBSET Entity,
               rim : SUBSET Entity, levels : 0..MaxLevels]
  /\ facts \in [sides : Seq(Entity), roots : Seq(Entity), clusters : Seq(SUBSET Entity)]
  /\ work \subseteq Record /\ record \in Record /\ shown \subseteq Record
  /\ before \in [Entity -> Entity \cup {Nil}]

(* Everybody on the way from p to its survivor, p included.                *)
Chain(up, p) ==
  {q \in Entity :
     \A S \in SUBSET Entity :
       (p \in S /\ \A r \in S : up[r] # Nil => up[r] \in S) => q \in S}

Survivor(up, p) == CHOOSE q \in Chain(up, p) : up[q] = Nil
Identity(up, p) == {q \in Entity : Survivor(up, q) = Survivor(up, p)}

(* The identity of these two, before or after the change that came between. *)
OnceTheSame(p, q) ==
  \E up \in {before, parent} : Survivor(up, p) = Survivor(up, q)

Undisturbed == parent = before

ShortChains ==
  \A p \in Entity :
    LET hops == Cardinality(Chain(parent, p)) - 1 IN hops <= MaxHops /\ hops <= MaxLevels

(* The records a request is about, from the identities and not the walks.  *)
EdgesAround(me) ==
  UNION {{[path |-> <<x>>, ends |-> <<far>>] :
            far \in {q \in Entity \ me :
                       \E near \in me : <<From[x], To[x]>> \in {<<near, q>>, <<q, near>>}}} :
         x \in Edge}

PathsTo(me, other) ==
  IF me = other
    THEN {}
    ELSE {[path |-> path, ends |-> BothEnds(path)] : path \in ShortestPaths(me, other)}

Related ==
  LET me == Identity(parent, Named[1])
  IN  CASE request.kind = "edges" -> EdgesAround(me)
        [] request.kind = "paths" -> PathsTo(me, Identity(parent, Named[2]))
        [] request.kind = "edge"  -> {[path |-> Named, ends |-> BothEnds(Named)]}

UnderSurvivors(r) ==
  [path |-> r.path, ends |-> [i \in 1..Len(r.ends) |-> Survivor(parent, r.ends[i])]]

(* What the tier and the districts of the officer leave open.              *)
Open(p) == rank[p] <= request.sees /\ {p} \cap Address \subseteq request.covers

MayShow(r) ==
  /\ \A i \in 1..Len(r.path) : Mirror[r.path[i]] \in {k \in Ranks : k <= request.sees}
  /\ \A i \in 1..Len(r.ends) : Open(r.ends[i])

(* The promise of get_entity_relationships, get_relationship and           *)
(* find_paths: a request that nothing changes under names the survivors of *)
(* what was asked and shows all that is related to anybody merged into     *)
(* them, each end under its own survivor, and leaves out just what has no  *)
(* readable mirror row, an end above the officer's tier or an address out  *)
(* of the officer's districts. It takes two walks up, one down and one for *)
(* each end to agree; longer chains than the bounds are not covered.       *)
AnswersExact ==
  (step = "done" /\ Undisturbed /\ ShortChains) =>
    /\ \A i \in 1..Len(facts.sides) : facts.sides[i] = Survivor(parent, Named[i])
    /\ shown = {r \in {UnderSurvivors(s) : s \in Related} : MayShow(r)}

(* A merge lifts the survivor's tier, so that what touches a person of a   *)
(* higher tier stays out of sight when it is shown under the survivor,     *)
(* also after reversals and when a chain is cut off at its bound; what     *)
(* touches an address of another district stays out of sight too.          *)
HigherTiersStayHidden ==
  (step = "done" /\ Undisturbed) =>
    \A r \in shown : \A i \in 1..Len(r.path) :
      \A p \in {From[r.path[i]], To[r.path[i]]} : Open(p)

(* One merge or reversal between the statements of a request: the sides    *)
(* and ends that are shown and the nodes the graph was asked about are the *)
(* same people before it or after it. (Not so with two.)                   *)
ConsistentUnderOneChange ==
  step = "done" =>
    \A r \in shown :
      IF request.kind = "edges"
        THEN \E near, far \in Entity :
               /\ {near, far} = {From[r.path[1]], To[r.path[1]]}
               /\ OnceTheSame(near, facts.sides[1])
               /\ OnceTheSame(far, r.ends[1])
        ELSE /\ \A i \in 1..Len(r.ends) : OnceTheSame(r.ends[i], BothEnds(r.path)[i])
             /\ request.kind = "paths" =>
                  \E a, b \in Entity : /\ OnceTheSame(a, facts.sides[1])
                                       /\ OnceTheSame(b, facts.sides[2])
                                       /\ Connects(r.path, a, b)

(* "Graph re-pointing is DEFERRED: Neo4j still references the absorbed     *)
(* entity id and the absorbed person's old relationships remain reachable  *)
(* only by that id" (EntityResolutionEvent, models/governance.py): an edge *)
(* is listed only for the entity it is an edge of.                         *)
OldEdgesOnlyByTheirId ==
  (step = "done" /\ request.kind = "edges") =>
    \A r \in shown : Named[1] \in {From[r.path[1]], To[r.path[1]]}

=============================================================================
