------------------------------ MODULE DepGraph --------------------------------
(***************************************************************************)
(* Resolving a project's dependencies: the walk over what packages need,   *)
(* the search for a way out of a conflict, the fetches put off until there *)
(* is none, and the choice of what the target takes part of                *)
(* (services/dep_graph.c).                                                 *)
(*                                                                         *)
(* A coordinate is a name and where it comes from: a registry version, or  *)
(* a place that carries its own recipe.  What a coordinate's recipe says   *)
(* is chosen when somebody first asks, so a run covers every universe of   *)
(* packages that Recipes allows and pays only for the part that is walked. *)
(***************************************************************************)
EXTENDS Naturals, Sequences, FiniteSets

CONSTANTS
  Names,          \* package names
  Versions,       \* versions a registry may serve
  Places,         \* paths, archives and git references
  None,
  OSes, Here,     \* operating systems; this machine's
  Listed,         \* [Names -> SUBSET Versions]: what the registry lists
  Recipes,        \* [coordinate -> the recipes it may turn out to have]
  Projects,       \* what Project.toml may declare
  MaxNodes,       \* DEP_GRAPH_MAX_NODES
  MaxCandidates   \* CONFLICT_MAX_CANDIDATES

Sources == Versions \cup Places
Coords == Names \X Sources
Scopes == {"runtime", "dev"}

\* A requirement is limited to some operating systems; a recipe says what it
\* needs and whether molto can honour its build system.
Requirement == [name : Names, src : Sources, os : SUBSET OSes]
Pin == [name : Names, src : Versions]
Recipe == [needs : Seq(Requirement), builds : BOOLEAN]
GraphNode == [src : Sources, by : Names \cup {None}, scope : SUBSET Scopes,
              os : SUBSET OSes, needs : Seq(Requirement)]

ASSUME NamesAssumption ==
  None \notin Names /\ None \notin Sources /\ None \notin Pin /\ None \notin GraphNode
ASSUME VersionsAssumption == Versions \subseteq Nat /\ Versions \cap Places = {}
ASSUME BoundsAssumption == MaxNodes \in Nat /\ MaxCandidates \in Nat
ASSUME RecipesAssumption ==
  DOMAIN Recipes = Coords /\ \A c \in Coords : Recipes[c] \subseteq Recipe /\ None \notin Recipes[c]
ASSUME ProjectsAssumption ==
  \A p \in Projects : p \in [deps : Seq(Requirement), dev : Seq(Requirement)]
ASSUME ListedAssumption == Listed \in [Names -> SUBSET Versions]
ASSUME FiniteAssumption == IsFiniteSet(Names) /\ IsFiniteSet(OSes)

\* A manifest is read by its keys (toml_section_members): a table names a package once.
NamedOnce(reqs) == \A i, j \in DOMAIN reqs : reqs[i].name = reqs[j].name => i = j
ASSUME TablesAssumption == \A p \in Projects : NamedOnce(p.deps) /\ NamedOnce(p.dev)

VARIABLES
  project,        \* [deps, dev]: the two tables, sequences of requirements
  served,         \* [Coords -> the recipe its origin gives, or None: not asked]
  remembered,     \* the registry's answers this machine keeps (resolve_remember)
  fetched,        \* coordinates whose bytes are in this machine's cache
  step, outcome,  \* where the resolution is; how it ended
  pin,            \* [name, src] a trial of the search moves; None on the real walk
  queue, table,   \* entries left to visit; the table they come from
  graph, order,   \* [Names -> node or None]; the order nodes were made in
  cursor,         \* the node materialize has come to
  conflict,       \* the two claims that disagreed
  pivot,          \* which of MaxPivots names the search is at
  candidates,     \* its releases still to try
  proposal,       \* what the search found
  selected        \* [target, names]: what takes part in the build, once chosen

walkVars == <<pin, queue, table, graph, order>>
searchVars == <<pivot, candidates, proposal>>
depVars == <<project, served, remembered, fetched, step, outcome, pin, queue, table,
             graph, order, cursor, conflict, pivot, candidates, proposal, selected>>

NoGraph == [n \in Names |-> None]
MaxPivots == 3

------------------------------------------------------------------------------
(* Requirements and nodes                                                   *)

Coord(r) == <<r.name, r.src>>
FromRegistry(r) == r.src \in Versions

\* apply_pin: a trial moves the pinned name in both tables.
Pinned(reqs, p) ==
  [i \in DOMAIN reqs |->
     IF p # None /\ FromRegistry(reqs[i]) /\ reqs[i].name = p.name
     THEN [reqs[i] EXCEPT !.src = p.src] ELSE reqs[i]]

\* queue_push: an entry is limited to what its dependent is.
Entries(reqs, by, scope, os) ==
  [i \in DOMAIN reqs |-> [req |-> reqs[i], by |-> by, scope |-> scope,
                          os |-> reqs[i].os \cap os]]

NewNode(entry, needs) ==
  [src |-> entry.req.src, by |-> entry.by, scope |-> {entry.scope}, os |-> entry.os,
   needs |-> needs]

InGraph == {n \in Names : graph[n] # None}
Children(n) == {graph[n].needs[i].name : i \in DOMAIN graph[n].needs}

\* Slip: the flag is set on the node and not on what is below it.
WidenedAlone(n, scope) == {m \in {n} \cap InGraph : scope \notin graph[m].scope}

\* widen_scope: n and what is below it get the scope, as far as it is new to them.
Lacking(scope) == {m \in InGraph : scope \notin graph[m].scope}
Wider(hit, scope) == hit \cup UNION {Children(m) \cap Lacking(scope) : m \in hit}
Wave(n, scope) ==
  LET wave[k \in Nat] == IF k = 0 THEN {n} \cap Lacking(scope) ELSE Wider(wave[k - 1], scope)
  IN wave
Widened(n, scope) == Wave(n, scope)[Cardinality(Lacking(scope))]

\* root_dep: the first table that declares the name answers; a table names it once.
Declares(reqs, name) == {i \in DOMAIN reqs : reqs[i].name = name}
RootTable(name) == IF Declares(project.deps, name) # {} THEN "deps" ELSE "dev"
RootDep(name) ==
  LET reqs == IF RootTable(name) = "deps" THEN project.deps ELSE project.dev
      at == Declares(reqs, name)
  IN IF at = {} THEN None ELSE reqs[CHOOSE i \in at : TRUE]

------------------------------------------------------------------------------
(* The walk                                                                 *)

BeginWalk(p) ==
  /\ step' = "walk"
  /\ pin' = p
  /\ queue' = Entries(Pinned(project.deps, p), None, "runtime", OSes)
  /\ table' = "deps"
  /\ graph' = NoGraph
  /\ order' = <<>>

\* The graph of a walk that is over is freed.
EndWalk ==
  /\ pin' = None /\ queue' = <<>> /\ table' = "deps"
  /\ graph' = NoGraph /\ order' = <<>>

Start ==
  /\ step = "idle"
  /\ BeginWalk(None)
  /\ UNCHANGED <<project, served, remembered, fetched, outcome, cursor, conflict,
                 searchVars, selected>>

\* Slip: the list of releases is read again once it is used up.
NextPivotStays == pivot

\* After a trial: the same pivot while it has a candidate left.
NextPivot == IF candidates = {} THEN pivot + 1 ELSE pivot

\* A trial that fails leaves the next candidate, or the next pivot, to try; the
\* real walk ends the resolution or, when two claims disagree and the caller wants
\* a proposal, starts the search.
WalkFails(claims) ==
  /\ EndWalk
  /\ \/ /\ pin # None
        /\ step' = "search"
        /\ pivot' = NextPivot
        /\ UNCHANGED <<outcome, conflict, candidates, proposal>>
     \/ /\ pin = None
        /\ step' \in IF claims = None THEN {"done"} ELSE {"done", "search"}
        /\ outcome' = IF claims = None THEN "failed" ELSE "conflict"
        /\ conflict' = claims
        /\ UNCHANGED searchVars
  /\ UNCHANGED <<project, cursor, selected>>

\* visit_one on the entry at the head of the queue: a name the graph has.
AtSeen == step = "walk" /\ queue # <<>> /\ graph[Head(queue).req.name] # None
AtNew == step = "walk" /\ queue # <<>> /\ graph[Head(queue).req.name] = None

\* Agreement is on the version and on the origin.
Agrees(r) == graph[r.name].src = r.src

VisitSeen ==
  LET e == Head(queue)
      n == e.req.name
  IN /\ AtSeen
     /\ Agrees(e.req)
     /\ LET wider == Widened(n, e.scope)
        IN graph' = [m \in Names |->
             IF graph[m] = None THEN None
             ELSE [graph[m] EXCEPT !.scope = IF m \in wider THEN @ \cup {e.scope} ELSE @,
                                   !.os = IF m = n THEN @ \cup e.os ELSE @]]
     /\ queue' = Tail(queue)
     /\ UNCHANGED <<project, served, remembered, fetched, step, outcome, pin, table, order,
                    cursor, conflict, searchVars, selected>>

\* report_conflict
VisitConflict ==
  LET e == Head(queue)
      n == e.req.name
  IN /\ AtSeen
     /\ ~Agrees(e.req)
     /\ WalkFails([name |-> n, src |-> graph[n].src, by |-> graph[n].by,
                   other |-> e.req.src, otherBy |-> e.by])
     /\ UNCHANGED <<served, remembered, fetched>>

VisitTooMany ==
  /\ AtNew
  /\ Len(order) >= MaxNodes
  /\ WalkFails(None)
  /\ UNCHANGED <<served, remembered, fetched>>

\* Nobody answers for a registry coordinate this machine does not remember, or
\* what carries its own recipe cannot be fetched or brings none.
VisitFails ==
  /\ AtNew
  /\ Len(order) < MaxNodes
  /\ Coord(Head(queue).req) \notin remembered
  /\ WalkFails(None)
  /\ UNCHANGED <<served, remembered, fetched>>

\* What the origin says, the same every time: a published coordinate is frozen.
\* A registry's answer is kept at once, before anything is made of it.
Answers(c, recipe) ==
  /\ recipe \in (IF served[c] = None THEN Recipes[c] ELSE {served[c]})
  /\ served' = [served EXCEPT ![c] = recipe]
  /\ remembered' = IF c[2] \in Versions THEN remembered \cup {c} ELSE remembered

VisitRefused ==
  LET c == Coord(Head(queue).req)
  IN /\ AtNew
     /\ Len(order) < MaxNodes
     /\ \E recipe \in Recipes[c] : ~recipe.builds /\ Answers(c, recipe)
     /\ fetched' = IF c[2] \in Versions THEN fetched ELSE fetched \cup {c}
     /\ WalkFails(None)

\* A registry's recipe says what it needs before any of its bytes are here; what
\* carries its recipe is fetched to be read.
VisitNew ==
  LET e == Head(queue)
      c == Coord(e.req)
  IN /\ AtNew
     /\ Len(order) < MaxNodes
     /\ \E recipe \in Recipes[c] :
          /\ recipe.builds
          /\ Answers(c, recipe)
          /\ graph' = [graph EXCEPT ![e.req.name] = NewNode(e, recipe.needs)]
          /\ queue' = Tail(queue) \o Entries(recipe.needs, e.req.name, e.scope, e.os)
     /\ order' = Append(order, e.req.name)
     /\ fetched' = IF FromRegistry(e.req) THEN fetched ELSE fetched \cup {c}
     /\ UNCHANGED <<project, step, outcome, pin, table, cursor, conflict, searchVars, selected>>

\* Only with every runtime package in the graph are the development ones queued.
WalkDev ==
  /\ step = "walk" /\ queue = <<>> /\ table = "deps"
  /\ queue' = Entries(Pinned(project.dev, pin), None, "dev", OSes)
  /\ table' = "dev"
  /\ UNCHANGED <<project, served, remembered, fetched, step, outcome, pin, graph, order,
                 cursor, conflict, searchVars, selected>>

WalkEnds == step = "walk" /\ queue = <<>> /\ table = "dev"

------------------------------------------------------------------------------
(* The search for a way out                                                 *)

Claimants == <<conflict.name, conflict.by, conflict.otherBy>>
Repeated(i) == \E j \in 1 .. i - 1 : Claimants[j] = Claimants[i]

\* Slip: the search does not stop at the declared version.
ReleasesAll(r) ==
  {v \in Listed[r.name] : Cardinality({w \in Listed[r.name] : w > v}) < MaxCandidates}

\* search_pivot: the releases above the declared one, newest first, as many as
\* the search may spend.  An unlisted version has every release above it.
Releases(r) ==
  LET above == IF r.src \in Listed[r.name] THEN {v \in Listed[r.name] : v > r.src}
               ELSE Listed[r.name]
  IN {v \in above : Cardinality({w \in above : w > v}) < MaxCandidates}

AtPivot == step = "search" /\ candidates = {} /\ pivot <= MaxPivots
CanVary(i) ==
  /\ Claimants[i] # None /\ ~Repeated(i)
  /\ RootDep(Claimants[i]) # None
  /\ FromRegistry(RootDep(Claimants[i]))

\* Nothing to vary, or a registry that does not answer with its releases.
PivotSkipped ==
  /\ AtPivot
  /\ pivot' = pivot + 1
  /\ UNCHANGED <<project, served, remembered, fetched, step, outcome, walkVars, cursor,
                 conflict, candidates, proposal, selected>>

PivotListed ==
  /\ AtPivot /\ CanVary(pivot)
  /\ Releases(RootDep(Claimants[pivot])) # {}
  /\ candidates' = Releases(RootDep(Claimants[pivot]))
  /\ UNCHANGED <<project, served, remembered, fetched, step, outcome, walkVars, cursor,
                 conflict, pivot, proposal, selected>>

\* candidate_settles_it: a walk with the root's requirement moved.
Try ==
  /\ step = "search" /\ candidates # {}
  /\ \E newest \in candidates :
       /\ \A v \in candidates : v <= newest
       /\ candidates' = candidates \ {newest}
       /\ BeginWalk([name |-> Claimants[pivot], src |-> newest])
  /\ UNCHANGED <<project, served, remembered, fetched, outcome, cursor, conflict, pivot,
                 proposal, selected>>

TrialSettles ==
  /\ WalkEnds /\ pin # None
  /\ graph[conflict.name] # None
  /\ proposal' = [name |-> pin.name, from |-> RootDep(pin.name).src, to |-> pin.src,
                  table |-> RootTable(pin.name), settlesOn |-> graph[conflict.name].src]
  /\ step' = "done"
  /\ EndWalk
  /\ UNCHANGED <<project, served, remembered, fetched, outcome, cursor, conflict, pivot,
                 candidates, selected>>

TrialDrops ==
  /\ WalkEnds /\ pin # None
  /\ graph[conflict.name] = None
  /\ WalkFails(None)
  /\ UNCHANGED <<served, remembered, fetched>>

SearchOver ==
  /\ step = "search" /\ candidates = {} /\ pivot > MaxPivots
  /\ step' = "done"
  /\ UNCHANGED <<project, served, remembered, fetched, outcome, walkVars, cursor, conflict,
                 searchVars, selected>>

------------------------------------------------------------------------------
(* The fetches the walk put off                                             *)

WalkDone ==
  /\ WalkEnds /\ pin = None
  /\ step' = "fetch"
  /\ cursor' = 1
  /\ UNCHANGED <<project, served, remembered, fetched, outcome, walkVars, conflict,
                 searchVars, selected>>

NodeCoord(n) == <<n, graph[n].src>>
AtNode == step = "fetch" /\ cursor <= Len(order)

\* Slip: what only another system takes part of is fetched as well.
SkipsCarried(n) == graph[n].src \in Places

\* Already here because the walk had to read it, or never needed on this machine.
Skips(n) == graph[n].src \in Places \/ Here \notin graph[n].os

MaterializeSkips ==
  /\ AtNode /\ Skips(order[cursor])
  /\ cursor' = cursor + 1
  /\ UNCHANGED <<project, served, remembered, fetched, step, outcome, walkVars, conflict,
                 searchVars, selected>>

Materialize ==
  /\ AtNode /\ ~Skips(order[cursor])
  /\ fetched' = fetched \cup {NodeCoord(order[cursor])}
  /\ cursor' = cursor + 1
  /\ UNCHANGED <<project, served, remembered, step, outcome, walkVars, conflict, searchVars,
                 selected>>

\* A fetch fails, or (provide_all) a drop cannot be completed.
MaterializeFails ==
  /\ step = "fetch"
  /\ (AtNode => ~Skips(order[cursor]) /\ NodeCoord(order[cursor]) \notin fetched)
  /\ step' = "done" /\ outcome' = "failed"
  /\ EndWalk
  /\ UNCHANGED <<project, served, remembered, fetched, cursor, conflict, searchVars, selected>>

Provided ==
  /\ step = "fetch" /\ cursor > Len(order)
  /\ step' = "done" /\ outcome' = "ok"
  /\ UNCHANGED <<project, served, remembered, fetched, walkVars, cursor, conflict, searchVars,
                 selected>>

\* dep_graph_select_os, for the system the build is for.
SelectOs(target) ==
  /\ step = "done" /\ outcome = "ok" /\ selected = None
  /\ selected' = [target |-> target, names |-> {n \in InGraph : target \in graph[n].os}]
  /\ UNCHANGED <<project, served, remembered, fetched, step, outcome, walkVars, cursor,
                 conflict, searchVars>>

------------------------------------------------------------------------------

DepInit ==
  /\ project \in Projects
  /\ served = [c \in Coords |-> None]
  /\ remembered = {} /\ fetched = {}
  /\ step = "idle" /\ outcome = "none"
  /\ pin = None /\ queue = <<>> /\ table = "deps"
  /\ graph = NoGraph /\ order = <<>>
  /\ cursor = 1
  /\ conflict = None
  /\ pivot = 1 /\ candidates = {} /\ proposal = None
  /\ selected = None

Walk == \/ Start \/ VisitSeen \/ VisitConflict \/ VisitTooMany \/ VisitFails
        \/ VisitRefused \/ VisitNew \/ WalkDev
Search == \/ PivotSkipped \/ PivotListed \/ Try \/ TrialSettles \/ TrialDrops \/ SearchOver
Fetch == \/ WalkDone \/ MaterializeSkips \/ Materialize \/ MaterializeFails \/ Provided

DepNext == Walk \/ Search \/ Fetch \/ \E t \in OSes : SelectOs(t)

\* One thread runs the resolution and every request it makes returns, with an
\* answer, an error or a timeout.
DepSpec == DepInit /\ [][DepNext]_depVars /\ WF_depVars(DepNext)

------------------------------------------------------------------------------
(* What a resolution promises                                               *)

Entry == [req : Requirement, by : Names \cup {None}, scope : Scopes, os : SUBSET OSes]
Claim == [name : Names, src : Sources, by : Names \cup {None},
          other : Sources, otherBy : Names \cup {None}]
Proposal == [name : Names, from : Sources, to : Versions, table : {"deps", "dev"},
             settlesOn : Sources]

\* Every variable stays within what the C types it stands for can hold.
TypeOK ==
  /\ project \in Projects
  /\ DOMAIN served = Coords
  /\ \A c \in Coords : served[c] = None \/ served[c] \in Recipes[c]
  /\ remembered \subseteq Coords /\ fetched \subseteq Coords
  /\ step \in {"idle", "walk", "search", "fetch", "done"}
  /\ outcome \in {"none", "ok", "conflict", "failed"}
  /\ pin = None \/ pin \in Pin
  /\ queue \in Seq(Entry)
  /\ table \in {"deps", "dev"}
  /\ graph \in [Names -> {None} \cup GraphNode]
  /\ order \in Seq(Names)
  /\ cursor \in Nat \ {0}
  /\ conflict = None \/ conflict \in Claim
  /\ pivot \in 1 .. MaxPivots + 1
  /\ candidates \subseteq Versions
  /\ proposal = None \/ proposal \in Proposal
  /\ selected = None \/ selected \in [target : OSes, names : SUBSET Names]

Settled == step = "fetch" \/ outcome = "ok"

Met(r) == graph[r.name] # None /\ graph[r.name].src = r.src
MetAll(reqs) == \A i \in DOMAIN reqs : Met(reqs[i])

\* A resolution that ends well leaves no requirement unmet, in either table or in
\* any recipe of the graph: one package answers each name, and it is the very one
\* every dependent asked for.  Cycles, names met twice and the second table are
\* where the walk could lose one.
NothingMissing ==
  Settled => /\ MetAll(project.deps) /\ MetAll(project.dev)
             /\ \A n \in InGraph : MetAll(graph[n].needs)

\* The same question asked of the recipes instead of the walk: every edge that
\* reaches a coordinate, with the scope it carries and the systems its whole path
\* allows.  A path that comes back to a package can only allow less.
Needs(known, c) == IF known[c] = None THEN {}
                   ELSE {known[c].needs[i] : i \in DOMAIN known[c].needs}
RootEdges(reqs, scope) ==
  {[c |-> Coord(reqs[i]), by |-> None, scope |-> scope, os |-> reqs[i].os] :
     i \in DOMAIN reqs}
EdgesBelow(known, e) ==
  {[c |-> Coord(r), by |-> e.c[1], scope |-> e.scope, os |-> r.os \cap e.os] :
     r \in Needs(known, e.c)}
Roots(p) == RootEdges(p.deps, "runtime") \cup RootEdges(p.dev, "dev")
Further(known, edges) == edges \cup UNION {EdgesBelow(known, e) : e \in edges}
Reach(known, p) ==
  LET reach[k \in Nat] == IF k = 0 THEN Roots(p) ELSE Further(known, reach[k - 1])
  IN reach
Edges(p) == Reach(served, p)[Cardinality(Names) * (1 + Cardinality(OSes))]
OneEach(edges) == \A e, f \in edges : e.c[1] = f.c[1] => e.c = f.c

\* A settled graph holds what the two tables reach and nothing else, each package
\* once, in exactly the scopes it is reached in: a runtime package that a test
\* dependency reaches as well carries both, and so does all below it, though those
\* were walked before.
GraphIsReach ==
  Settled =>
    LET edges == Edges(project)
    IN /\ {NodeCoord(n) : n \in InGraph} = {e.c : e \in edges}
       /\ \A n \in InGraph :
            graph[n].scope = {e.scope : e \in {f \in edges : f.c[1] = n}}
       /\ Len(order) = Cardinality(InGraph) /\ {order[i] : i \in DOMAIN order} = InGraph

\* A conflict is reported only when the two claims are there, made by the two the
\* message names; it is missed by no resolution that ends well.
ConflictIsReal ==
  /\ conflict # None =>
       LET edges == Edges(project)
           Claims(src, by) == \E e \in edges : e.c = <<conflict.name, src>> /\ e.by = by
       IN /\ conflict.src # conflict.other
          /\ Claims(conflict.src, conflict.by)
          /\ Claims(conflict.other, conflict.otherBy)
  /\ Settled => OneEach(Edges(project))

\* What accepting a proposal writes: one table, one version.
Edited(p, change) ==
  LET Move(reqs) == [i \in DOMAIN reqs |-> IF reqs[i].name = change.name
                                           THEN [reqs[i] EXCEPT !.src = change.to]
                                           ELSE reqs[i]]
  IN IF change.table = "deps" THEN [p EXCEPT !.deps = Move(@)] ELSE [p EXCEPT !.dev = Move(@)]
DeclaredOnce(name) == Declares(project.deps, name) = {} \/ Declares(project.dev, name) = {}

\* A proposal, once written to Project.toml, gives a project that resolves: no two
\* claims left, every recipe known and one molto can build, and the package that
\* was in conflict at the version the message says.  It is never a downgrade.
\* (A name both tables declare is moved in both by the trial and in one by the
\* edit, and a version the registry does not list has nothing below it.)
ProposalHolds ==
  proposal # None =>
    /\ proposal.from \in Listed[proposal.name] => proposal.to > proposal.from
    /\ DeclaredOnce(proposal.name) =>
         LET edges == Edges(Edited(project, proposal))
         IN /\ OneEach(edges)
            /\ \E e \in edges : e.c = <<conflict.name, proposal.settlesOn>>
            /\ \A e \in edges : served[e.c] # None /\ served[e.c].builds

\* Nothing a registry serves is downloaded until the whole graph is known and in
\* no conflict, not by a trial of the search either; and then only what this
\* machine's system takes part of.
FetchedIsDecided ==
  [][\A c \in fetched' \ fetched :
       c[2] \in Versions =>
         LET edges == Edges(project)
         IN OneEach(edges) /\ \E e \in edges : e.c = c /\ Here \in e.os]_depVars

\* The resolution ends, whatever the recipes say: a cycle of packages, a conflict
\* in every trial, a registry that fails.
Terminates == <>(step = "done")

\* dep_graph.h: a node's systems are "the union over every edge that reaches it,
\* each narrowed by os and by what its dependent is limited to".
OsIsUnion ==
  Settled => \A n \in InGraph :
    graph[n].os = UNION {e.os : e \in {f \in Edges(project) : f.c[1] = n}}

\* dep_graph.h: root is "where the fetched source lives", for each package that is
\* part of the build.
SelectedHasBytes ==
  selected # None => \A n \in selected.names : NodeCoord(n) \in fetched

\* The graph says what the manifests say: nothing they ask is missing, its nodes are what the
\* project reaches, and a conflict is reported only where two of them cannot both have their way.
GraphIsTrue == TypeOK /\ NothingMissing /\ GraphIsReach /\ ConflictIsReal
==============================================================================
