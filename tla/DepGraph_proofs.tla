--------------------------- MODULE DepGraph_proofs ---------------------------
(***************************************************************************)
(* What is proved of DepGraph for every set of names, versions, places and *)
(* systems, every universe of recipes and every project: its types; that a *)
(* resolution that ends well leaves no requirement unmet; that its graph   *)
(* is what the recipes reach, a conflict real and a proposal one that      *)
(* resolves; and that nothing a registry serves is fetched before all is   *)
(* decided.                                                                *)
(*                                                                         *)
(* The walk is where that could fail, so the inductive invariant follows   *)
(* it, twice.  IInv: what a table already queued, or a node of the graph,  *)
(* needs is met or still waits in the queue.  GraphInv: what waits, and    *)
(* what was made of it, is reached, no further off than there are nodes on *)
(* the way; and what a node or a table needs has each of its scopes or     *)
(* waits to get it, so that with nothing waiting the graph is closed.      *)
(*                                                                         *)
(* Edges and Widened go a step further each time.  That such a function is *)
(* what its definition says, and where it comes to rest, is shown first,   *)
(* with the numbers as a well-founded order.                               *)
(***************************************************************************)
EXTENDS DepGraph, SequenceTheorems, FiniteSetTheorems, TLAPS

Waiting(r) == \E i \in DOMAIN queue : Coord(queue[i].req) = Coord(r)
Owed(reqs) == \A i \in DOMAIN reqs : Met(reqs[i]) \/ Waiting(reqs[i])

WalkInv ==
  step = "walk" =>
    /\ Owed(Pinned(project.deps, pin))
    /\ table = "dev" => Owed(Pinned(project.dev, pin))
    /\ \A n \in InGraph : Owed(graph[n].needs)

\* Only a walk of the search moves a requirement, and it moves one of the root's.
SearchInv ==
  /\ step = "search" => conflict # None
  /\ pin # None => step = "walk"
  /\ candidates # {} => step \in {"search", "done"} \/ pin # None
  /\ candidates # {} \/ pin # None =>
       conflict # None /\ pivot \in 1 .. MaxPivots /\ CanVary(pivot)
  /\ pin # None => pin.name = Claimants[pivot]

StepInv == outcome = "ok" => step = "done"

OrderInv == \A i \in DOMAIN order : order[i] \in InGraph

IInv ==
  /\ TypeOK
  /\ SearchInv
  /\ StepInv
  /\ OrderInv
  /\ WalkInv
  /\ NothingMissing

Assumptions == NamesAssumption /\ VersionsAssumption /\ BoundsAssumption
               /\ RecipesAssumption /\ ProjectsAssumption /\ ListedAssumption

------------------------------------------------------------------------------
(* Facts about the data                                                     *)

\* A sequence mapped element by element is a sequence as long.
LEMMA MapOfSeq ==
  ASSUME NEW S, NEW T, NEW s \in Seq(S), NEW f,
         f = [i \in DOMAIN s |-> f[i]], \A i \in DOMAIN s : f[i] \in T
  PROVE  f \in Seq(T) /\ Len(f) = Len(s) /\ DOMAIN f = DOMAIN s
<1>1. Len(s) \in Nat /\ DOMAIN s = 1 .. Len(s)
  BY LenProperties
<1>2. f \in [1 .. Len(s) -> T]
  BY <1>1
<1>3. f \in Seq(T)
  BY <1>1, <1>2, SeqDef
<1>. QED
  BY <1>1, <1>2, <1>3, LenProperties

\* Moving a requirement leaves a list of requirements, as long as it was.
LEMMA PinnedType ==
  ASSUME NEW reqs \in Seq(Requirement),
         NEW p, p = None \/ p \in Pin
  PROVE  /\ Pinned(reqs, p) \in Seq(Requirement)
         /\ DOMAIN Pinned(reqs, p) = DOMAIN reqs
<1>1. \A i \in DOMAIN reqs : reqs[i] \in Requirement
  BY ElementOfSeq, LenProperties
<1>2. \A i \in DOMAIN reqs : Pinned(reqs, p)[i] \in Requirement
  BY <1>1 DEF Pinned, Pin, Requirement, Sources
<1>3. Pinned(reqs, p) = [i \in DOMAIN reqs |-> Pinned(reqs, p)[i]]
  BY DEF Pinned
<1>. QED
  BY <1>2, <1>3, MapOfSeq

\* With nothing to move, the list is what it was.
LEMMA NotPinned ==
  ASSUME NEW reqs \in Seq(Requirement)
  PROVE  Pinned(reqs, None) = reqs
<1>1. reqs = [i \in DOMAIN reqs |-> reqs[i]]
  BY LenProperties, SeqDef
<1>. QED
  BY <1>1 DEF Pinned

\* Each requirement queued is an entry for it.
LEMMA EntriesType ==
  ASSUME NEW reqs \in Seq(Requirement), NEW by \in Names \cup {None},
         NEW scope \in Scopes, NEW os \in SUBSET OSes
  PROVE  /\ Entries(reqs, by, scope, os) \in Seq(Entry)
         /\ DOMAIN Entries(reqs, by, scope, os) = DOMAIN reqs
         /\ Len(Entries(reqs, by, scope, os)) = Len(reqs)
         /\ \A i \in DOMAIN reqs : Entries(reqs, by, scope, os)[i].req = reqs[i]
<1>1. \A i \in DOMAIN reqs : reqs[i] \in Requirement
  BY ElementOfSeq, LenProperties
<1>2. \A i \in DOMAIN reqs : Entries(reqs, by, scope, os)[i] \in Entry
  BY <1>1 DEF Entries, Entry, Requirement
<1>3. Entries(reqs, by, scope, os) = [i \in DOMAIN reqs |-> Entries(reqs, by, scope, os)[i]]
  BY DEF Entries
<1>4. \A i \in DOMAIN reqs : Entries(reqs, by, scope, os)[i].req = reqs[i]
  BY DEF Entries
<1>. QED
  BY <1>2, <1>3, <1>4, MapOfSeq

\* What the head and the rest of a queue are.
LEMMA HeadOfQueue ==
  ASSUME TypeOK, queue # <<>>
  PROVE  /\ Head(queue) \in Entry
         /\ Tail(queue) \in Seq(Entry)
         /\ Len(queue) \in Nat \ {0} /\ DOMAIN queue = 1 .. Len(queue)
         /\ Len(Tail(queue)) = Len(queue) - 1
         /\ DOMAIN Tail(queue) = 1 .. Len(queue) - 1
         /\ Head(queue) = queue[1]
         /\ \A i \in 1 .. Len(queue) - 1 : Tail(queue)[i] = queue[i + 1]
<1>1. queue \in Seq(Entry)
  BY DEF TypeOK
<1>. QED
  BY <1>1, HeadTailProperties, LenProperties, ElementOfSeq, EmptySeq

\* What the root declares of a name is a requirement.
LEMMA RootDepType ==
  ASSUME TypeOK, Assumptions, NEW name \in Names, RootDep(name) # None
  PROVE  RootDep(name) \in Requirement
<1>. DEFINE reqs == IF RootTable(name) = "deps" THEN project.deps ELSE project.dev
            at == Declares(reqs, name)
<1>1. reqs \in Seq(Requirement)
  BY DEF TypeOK, Assumptions, ProjectsAssumption
<1>2. at # {} /\ RootDep(name) = reqs[CHOOSE i \in at : TRUE]
  BY DEF RootDep
<1>3. (CHOOSE i \in at : TRUE) \in DOMAIN reqs
  BY <1>2 DEF Declares
<1>. QED
  BY <1>1, <1>2, <1>3, ElementOfSeq, LenProperties

------------------------------------------------------------------------------
(* Nothing is missing                                                       *)

\* Nothing has been asked yet.
LEMMA InitInv ==
  ASSUME Assumptions, DepInit
  PROVE  IInv
<1>1. TypeOK
  BY EmptySeq DEF Assumptions, DepInit, TypeOK, NoGraph, MaxPivots
<1>. QED
  BY <1>1, EmptySeq DEF DepInit, IInv, OrderInv, SearchInv, StepInv, WalkInv, NothingMissing, Settled

\* A walk begins with an entry for each requirement of the first table.
LEMMA BeginWalkType ==
  ASSUME Assumptions, TypeOK, NEW p, p = None \/ p \in Pin,
         BeginWalk(p)
  PROVE  /\ pin' = p
         /\ queue' \in Seq(Entry)
         /\ table' = "deps" /\ step' = "walk"
         /\ graph' = NoGraph /\ order' = <<>>
         /\ \A i \in DOMAIN Pinned(project.deps, p) :
              i \in DOMAIN queue' /\ queue'[i].req = Pinned(project.deps, p)[i]
<1>1. project.deps \in Seq(Requirement)
  BY DEF TypeOK, Assumptions, ProjectsAssumption
<1>2. Pinned(project.deps, p) \in Seq(Requirement)
  BY <1>1, PinnedType
<1>3. "runtime" \in Scopes /\ OSes \in SUBSET OSes /\ None \in Names \cup {None}
  BY DEF Scopes
<1>. QED
  BY <1>2, <1>3, EntriesType DEF BeginWalk

\* A walk that fails frees its graph and owes nothing.
LEMMA WalkFailsInv ==
  ASSUME Assumptions, IInv, step = "walk", NEW claims, claims = None \/ claims \in Claim,
         WalkFails(claims), DOMAIN served' = Coords,
         \A c \in Coords : served'[c] = None \/ served'[c] \in Recipes[c],
         remembered' \subseteq Coords, fetched' \subseteq Coords
  PROVE  IInv'
<1>. USE DEF IInv
<1>1. EndWalk /\ project' = project /\ cursor' = cursor /\ selected' = selected
  BY DEF WalkFails
<1>2. graph' \in [Names -> {None} \cup GraphNode] /\ queue' \in Seq(Entry)
      /\ order' \in Seq(Names) /\ pin' = None /\ table' \in {"deps", "dev"}
  BY <1>1, EmptySeq DEF EndWalk, NoGraph
<1>0. OrderInv'
  BY <1>1, EmptySeq DEF EndWalk, OrderInv
<1>3. CASE pin # None
  <2>1. pivot \in 1 .. MaxPivots /\ step' = "search" /\ pivot' = NextPivot
        /\ UNCHANGED <<outcome, conflict, candidates, proposal>>
    BY <1>3 DEF SearchInv, WalkFails
  <2>2. pivot' \in 1 .. MaxPivots + 1 /\ (candidates # {} => pivot' = pivot)
    BY <2>1 DEF NextPivot, MaxPivots
  <2>3. TypeOK'
    BY <1>1, <1>2, <2>1, <2>2 DEF TypeOK
  <2>4. candidates' # {} => (CanVary(pivot))'
    BY <1>1, <1>3, <2>1, <2>2 DEF SearchInv, CanVary, Claimants, Repeated, RootDep, RootTable
  <2>5. SearchInv'
    BY <1>2, <1>3, <2>1, <2>2, <2>4 DEF SearchInv
  <2>. QED
    BY <1>0, <2>1, <2>3, <2>5 DEF StepInv, WalkInv, NothingMissing, Settled
<1>4. CASE pin = None
  <2>1. /\ step' \in {"done", "search"} /\ (step' = "search" => claims # None)
        /\ outcome' \in {"failed", "conflict"} /\ conflict' = claims
        /\ pivot' = pivot /\ candidates' = candidates /\ proposal' = proposal
    BY <1>4 DEF WalkFails, searchVars
  <2>2. TypeOK'
    BY <1>1, <1>2, <2>1 DEF TypeOK
  <2>3. candidates' = {}
    BY <1>4, <2>1 DEF SearchInv
  <2>. QED
    BY <1>0, <1>2, <2>1, <2>2, <2>3 DEF SearchInv, StepInv, WalkInv, NothingMissing, Settled
<1>. QED
  BY <1>3, <1>4

\* A walk that begins owes what the first table asks, and has queued all of it.
LEMMA BeginWalkInv ==
  ASSUME Assumptions, IInv, step \in {"idle", "search"},
         NEW p, p = None \/ p \in Pin, BeginWalk(p),
         project' = project, outcome' = outcome
  PROVE  StepInv' /\ OrderInv' /\ WalkInv' /\ NothingMissing'
<1>. USE DEF IInv
<1>1. /\ pin' = p /\ table' = "deps" /\ step' = "walk" /\ graph' = NoGraph
      /\ order' = <<>>
      /\ \A i \in DOMAIN Pinned(project.deps, p) :
           i \in DOMAIN queue' /\ queue'[i].req = Pinned(project.deps, p)[i]
  BY BeginWalkType
<1>2. outcome' # "ok"
  BY DEF StepInv
<1>3. Owed(Pinned(project.deps, pin))'
  BY <1>1 DEF Owed, Waiting
<1>4. InGraph' = {}
  BY <1>1 DEF InGraph, NoGraph
<1>. QED
  BY <1>1, <1>2, <1>3, <1>4, EmptySeq DEF StepInv, OrderInv, WalkInv, NothingMissing, Settled

\* The real walk begins.
LEMMA StartInv ==
  ASSUME Assumptions, IInv, Start
  PROVE  IInv'
<1>. USE DEF IInv
<1>1. /\ step = "idle" /\ BeginWalk(None) /\ pin' = None
      /\ UNCHANGED <<project, served, remembered, fetched, outcome, cursor, conflict,
                     pivot, candidates, proposal, selected>>
  BY DEF Start, searchVars, BeginWalk
<1>2. TypeOK'
  BY <1>1, BeginWalkType, EmptySeq DEF TypeOK, NoGraph
<1>3. SearchInv'
  BY <1>1, BeginWalkType DEF SearchInv
<1>. QED
  BY <1>1, <1>2, <1>3, BeginWalkInv

\* A trial moves a requirement of the root.
LEMMA TryInv ==
  ASSUME Assumptions, IInv, Try
  PROVE  IInv'
<1>. USE DEF IInv
<1>1. PICK newest \in candidates :
        /\ candidates' = candidates \ {newest}
        /\ BeginWalk([name |-> Claimants[pivot], src |-> newest])
  BY DEF Try
<1>. DEFINE p == [name |-> Claimants[pivot], src |-> newest]
<1>2. /\ step = "search" /\ candidates # {}
      /\ UNCHANGED <<project, served, remembered, fetched, outcome, cursor, conflict, pivot,
                     proposal, selected>>
  BY DEF Try
<1>3. conflict # None /\ pivot \in 1 .. MaxPivots /\ CanVary(pivot)
  BY <1>2 DEF SearchInv
<1>4. Claimants[pivot] \in Names
  BY <1>3 DEF TypeOK, CanVary, Claimants, Claim, MaxPivots
<1>5. p \in Pin /\ p # None
  BY <1>4 DEF TypeOK, Pin, Assumptions, NamesAssumption
<1>6. pin' = p /\ step' = "walk"
  BY <1>1 DEF BeginWalk
<1>7. TypeOK'
  <2>1. BeginWalk(p)
    BY <1>1
  <2>. HIDE DEF p
  <2>2. /\ pin' = p /\ queue' \in Seq(Entry) /\ table' = "deps" /\ step' = "walk"
        /\ graph' = NoGraph /\ order' = <<>>
    BY <1>5, <2>1, BeginWalkType
  <2>3. graph' \in [Names -> {None} \cup GraphNode] /\ order' \in Seq(Names)
    BY <2>2, EmptySeq DEF NoGraph
  <2>. QED
    BY <1>1, <1>2, <1>5, <2>2, <2>3 DEF TypeOK
<1>8. SearchInv'
  <2>1. (CanVary(pivot))'
    BY <1>2, <1>3 DEF CanVary, Claimants, Repeated, RootDep, RootTable
  <2>2. pin'.name = Claimants'[pivot']
    BY <1>2, <1>6 DEF Claimants
  <2>. QED
    BY <1>2, <1>3, <1>5, <1>6, <2>1, <2>2 DEF SearchInv
<1>. QED
  BY <1>1, <1>2, <1>5, <1>7, <1>8, BeginWalkInv

\* Visiting a name the graph has changes no source and no edge.
LEMMA VisitSeenInv ==
  ASSUME Assumptions, IInv, VisitSeen
  PROVE  IInv'
<1>. USE DEF IInv
<1>. DEFINE e == Head(queue)
<1>1. /\ step = "walk" /\ queue # <<>> /\ Agrees(e.req) /\ graph[e.req.name] # None
      /\ queue' = Tail(queue)
      /\ UNCHANGED <<project, served, remembered, fetched, step, outcome, pin, table, order,
                     cursor, conflict, pivot, candidates, proposal, selected>>
  BY DEF VisitSeen, AtSeen, searchVars
<1>2. /\ e \in Entry /\ Tail(queue) \in Seq(Entry)
      /\ Len(queue) \in Nat \ {0} /\ DOMAIN queue = 1 .. Len(queue)
      /\ DOMAIN Tail(queue) = 1 .. Len(queue) - 1
      /\ e = queue[1]
      /\ \A i \in 1 .. Len(queue) - 1 : Tail(queue)[i] = queue[i + 1]
  BY <1>1, HeadOfQueue
<1>3. PICK wider : graph' = [m \in Names |->
             IF graph[m] = None THEN None
             ELSE [graph[m] EXCEPT !.scope = IF m \in wider THEN @ \cup {e.scope} ELSE @,
                                   !.os = IF m = e.req.name THEN @ \cup e.os ELSE @]]
  BY Zenon DEF VisitSeen
<1>4. \A m \in Names : graph[m] = None => graph'[m] = None
  BY <1>3
<1>5. \A m \in Names : graph[m] # None =>
        graph'[m] \in GraphNode /\ graph'[m].src = graph[m].src /\ graph'[m].needs = graph[m].needs
  <2>. SUFFICES ASSUME NEW m \in Names, graph[m] # None
                PROVE  /\ graph'[m] \in GraphNode
                       /\ graph'[m].src = graph[m].src /\ graph'[m].needs = graph[m].needs
    OBVIOUS
  <2>1. graph[m] \in GraphNode
    BY DEF TypeOK
  <2>2. e.scope \in Scopes /\ e.os \in SUBSET OSes
    BY <1>2 DEF Entry
  <2>. DEFINE scope == IF m \in wider THEN graph[m].scope \cup {e.scope} ELSE graph[m].scope
              os == IF m = e.req.name THEN graph[m].os \cup e.os ELSE graph[m].os
  <2>3. graph'[m] = [graph[m] EXCEPT !.scope = scope, !.os = os]
    BY <1>3
  <2>4. scope \in SUBSET Scopes /\ os \in SUBSET OSes
    BY <2>1, <2>2 DEF GraphNode
  <2>. HIDE DEF scope, os
  <2>5. graph'[m] = [src |-> graph[m].src, by |-> graph[m].by, scope |-> scope, os |-> os,
                     needs |-> graph[m].needs]
    BY <2>1, <2>3 DEF GraphNode
  <2>. QED
    BY <2>1, <2>4, <2>5 DEF GraphNode
<1>6. graph' \in [Names -> {None} \cup GraphNode]
  BY <1>3, <1>4, <1>5
<1>7. TypeOK'
  BY <1>1, <1>2, <1>6 DEF TypeOK
<1>8. InGraph' = InGraph
  BY <1>4, <1>5 DEF InGraph, Assumptions, NamesAssumption
<1>9. \A r \in Requirement : Met(r) \/ Waiting(r) => Met(r)' \/ Waiting(r)'
  <2>. SUFFICES ASSUME NEW r \in Requirement, Met(r) \/ Waiting(r)
                PROVE  Met(r)' \/ Waiting(r)'
    OBVIOUS
  <2>0. r.name \in Names
    BY DEF Requirement
  <2>1. CASE Met(r)
    BY <1>4, <1>5, <2>0, <2>1 DEF Met, Assumptions, NamesAssumption
  <2>2. CASE Waiting(r)
    <3>1. PICK i \in DOMAIN queue : Coord(queue[i].req) = Coord(r)
      BY <2>2 DEF Waiting
    <3>2. CASE i = 1
      <4>1. e.req.name = r.name /\ e.req.src = r.src
        BY <1>2, <3>1, <3>2 DEF Coord
      <4>2. Met(r)
        BY <1>1, <4>1 DEF Agrees, Met
      <4>. QED
        BY <1>4, <1>5, <2>0, <4>2 DEF Met, Assumptions, NamesAssumption
    <3>3. CASE i # 1
      <4>1. i - 1 \in DOMAIN queue' /\ queue'[i - 1] = queue[i]
        BY <1>1, <1>2, <3>3
      <4>. QED
        BY <3>1, <4>1 DEF Waiting
    <3>. QED
      BY <3>2, <3>3
  <2>. QED
    BY <2>1, <2>2
<1>10. WalkInv'
  <2>1. \A n \in InGraph : graph'[n].needs = graph[n].needs /\ graph[n].needs \in Seq(Requirement)
    BY <1>5 DEF InGraph, TypeOK, GraphNode
  <2>2. \A reqs \in Seq(Requirement) : Owed(reqs) => Owed(reqs)'
    BY <1>9, ElementOfSeq, LenProperties DEF Owed
  <2>3. Pinned(project.deps, pin) \in Seq(Requirement) /\ Pinned(project.dev, pin) \in Seq(Requirement)
    BY PinnedType DEF TypeOK, Assumptions, ProjectsAssumption
  <2>. QED
    BY <1>1, <1>8, <2>1, <2>2, <2>3 DEF WalkInv
<1>11. SearchInv' /\ StepInv' /\ OrderInv' /\ NothingMissing'
  BY <1>1, <1>8 DEF OrderInv, SearchInv, StepInv, NothingMissing, Settled, CanVary, Claimants, Repeated,
              RootDep, RootTable
<1>. QED
  BY <1>7, <1>10, <1>11

\* An answer is one of the recipes the coordinate may have.
LEMMA AnswersType ==
  ASSUME Assumptions, TypeOK, NEW c \in Coords, NEW recipe \in Recipes[c], Answers(c, recipe)
  PROVE  /\ DOMAIN served' = Coords
         /\ \A x \in Coords : served'[x] = None \/ served'[x] \in Recipes[x]
         /\ remembered' \subseteq Coords
  BY DEF Answers, TypeOK

\* Visiting a new name queues all its recipe needs before the entry is forgotten.
LEMMA VisitNewInv ==
  ASSUME Assumptions, IInv, VisitNew
  PROVE  IInv'
<1>. USE DEF IInv
<1>. DEFINE e == Head(queue)
            c == Coord(e.req)
<1>1. /\ step = "walk" /\ queue # <<>> /\ graph[e.req.name] = None
      /\ order' = Append(order, e.req.name)
      /\ fetched' = IF FromRegistry(e.req) THEN fetched ELSE fetched \cup {c}
      /\ UNCHANGED <<project, step, outcome, pin, table, cursor, conflict, pivot,
                     candidates, proposal, selected>>
  BY DEF VisitNew, AtNew, searchVars
<1>2. PICK recipe \in Recipes[c] :
        /\ Answers(c, recipe)
        /\ graph' = [graph EXCEPT ![e.req.name] = NewNode(e, recipe.needs)]
        /\ queue' = Tail(queue) \o Entries(recipe.needs, e.req.name, e.scope, e.os)
  BY DEF VisitNew
<1>3. /\ e \in Entry /\ Tail(queue) \in Seq(Entry)
      /\ Len(queue) \in Nat \ {0} /\ DOMAIN queue = 1 .. Len(queue)
      /\ Len(Tail(queue)) = Len(queue) - 1
      /\ e = queue[1]
      /\ \A i \in 1 .. Len(queue) - 1 : Tail(queue)[i] = queue[i + 1]
  BY <1>1, HeadOfQueue
<1>4. /\ e.req \in Requirement /\ e.req.name \in Names /\ e.req.src \in Sources
      /\ e.by \in Names \cup {None} /\ e.scope \in Scopes /\ e.os \in SUBSET OSes
      /\ c \in Coords
  BY <1>3 DEF Entry, Requirement, Coord, Coords
<1>5. recipe \in Recipe /\ recipe.needs \in Seq(Requirement)
  BY <1>2, <1>4 DEF Assumptions, RecipesAssumption, Recipe
<1>. DEFINE needs == recipe.needs
            node == NewNode(e, needs)
            added == Entries(needs, e.req.name, e.scope, e.os)
<1>6. /\ added \in Seq(Entry) /\ Len(added) = Len(needs) /\ Len(needs) \in Nat
      /\ DOMAIN needs = 1 .. Len(needs)
      /\ \A i \in DOMAIN needs : added[i].req = needs[i]
  BY <1>4, <1>5, EntriesType, LenProperties
<1>7. node \in GraphNode /\ node.src = e.req.src /\ node.needs = needs /\ node # None
  BY <1>4, <1>5 DEF NewNode, GraphNode, Assumptions, NamesAssumption
<1>. HIDE DEF node, added, needs
<1>8. /\ graph' = [graph EXCEPT ![e.req.name] = node]
      /\ queue' = Tail(queue) \o added
  BY <1>2 DEF node, added, needs
<1>9. /\ queue' \in Seq(Entry)
      /\ DOMAIN queue' = 1 .. Len(queue) - 1 + Len(needs)
      /\ \A i \in 1 .. Len(queue) - 1 : queue'[i] = queue[i + 1]
      /\ \A i \in 1 .. Len(needs) : queue'[Len(queue) - 1 + i] = added[i]
  <2>1. /\ queue' \in Seq(Entry) /\ Len(queue') = Len(queue) - 1 + Len(needs)
        /\ \A i \in 1 .. Len(queue) - 1 + Len(needs) :
             queue'[i] = IF i <= Len(queue) - 1 THEN Tail(queue)[i]
                         ELSE added[i - (Len(queue) - 1)]
    <3>. DEFINE rest == Tail(queue)
    <3>1. rest \in Seq(Entry) /\ Len(rest) = Len(queue) - 1 /\ queue' = rest \o added
      BY <1>3, <1>8
    <3>. HIDE DEF rest
    <3>2. added \in Seq(Entry)
      BY <1>6
    <3>3. /\ rest \o added \in Seq(Entry)
          /\ Len(rest \o added) = Len(rest) + Len(added)
          /\ \A i \in 1 .. Len(rest) + Len(added) :
               (rest \o added)[i] = IF i <= Len(rest) THEN rest[i] ELSE added[i - Len(rest)]
      BY <3>1, <3>2, ConcatProperties, Zenon
    <3>. QED
      BY <1>6, <3>1, <3>3 DEF rest
  <2>2. DOMAIN queue' = 1 .. Len(queue) - 1 + Len(needs)
    BY <2>1, LenProperties
  <2>3. \A i \in 1 .. Len(queue) - 1 : queue'[i] = queue[i + 1]
    BY <1>3, <1>6, <2>1
  <2>4. ASSUME NEW i \in 1 .. Len(needs)
        PROVE  queue'[Len(queue) - 1 + i] = added[i]
    <3>1. /\ Len(queue) - 1 + i \in 1 .. Len(queue) - 1 + Len(needs)
          /\ ~(Len(queue) - 1 + i <= Len(queue) - 1)
          /\ (Len(queue) - 1 + i) - (Len(queue) - 1) = i
      BY <1>3, <1>6
    <3>. QED
      BY <2>1, <3>1
  <2>. QED
    BY <2>1, <2>2, <2>3, <2>4
<1>10. graph' \in [Names -> {None} \cup GraphNode]
  BY <1>4, <1>7, <1>8 DEF TypeOK
<1>11. TypeOK'
  <2>1. order' \in Seq(Names)
    BY <1>1, <1>4, AppendProperties DEF TypeOK
  <2>2. fetched' \subseteq Coords
    BY <1>1, <1>4 DEF TypeOK
  <2>. QED
    BY <1>1, <1>2, <1>4, <1>9, <1>10, <2>1, <2>2, AnswersType DEF TypeOK
<1>12. \A m \in Names : m # e.req.name => graph'[m] = graph[m]
  BY <1>8 DEF TypeOK
<1>13. graph'[e.req.name] = node
  BY <1>4, <1>8 DEF TypeOK
<1>14. \A r \in Requirement : Met(r) \/ Waiting(r) => Met(r)' \/ Waiting(r)'
  <2>. SUFFICES ASSUME NEW r \in Requirement, Met(r) \/ Waiting(r)
                PROVE  Met(r)' \/ Waiting(r)'
    OBVIOUS
  <2>0. r.name \in Names
    BY DEF Requirement
  <2>1. CASE Met(r)
    BY <1>1, <1>12, <2>0, <2>1 DEF Met
  <2>2. CASE Waiting(r)
    <3>1. PICK i \in DOMAIN queue : Coord(queue[i].req) = Coord(r)
      BY <2>2 DEF Waiting
    <3>2. CASE i = 1
      <4>1. e.req.name = r.name /\ e.req.src = r.src
        BY <1>3, <3>1, <3>2 DEF Coord
      <4>. QED
        BY <1>7, <1>13, <4>1 DEF Met
    <3>3. CASE i # 1
      <4>1. i - 1 \in DOMAIN queue' /\ queue'[i - 1] = queue[i]
        BY <1>3, <1>6, <1>9, <3>3
      <4>. QED
        BY <3>1, <4>1 DEF Waiting
    <3>. QED
      BY <3>2, <3>3
  <2>. QED
    BY <2>1, <2>2
<1>15. WalkInv'
  <2>1. \A reqs \in Seq(Requirement) : Owed(reqs) => Owed(reqs)'
    BY <1>14, ElementOfSeq, LenProperties DEF Owed
  <2>2. Pinned(project.deps, pin) \in Seq(Requirement) /\ Pinned(project.dev, pin) \in Seq(Requirement)
    BY PinnedType DEF TypeOK, Assumptions, ProjectsAssumption
  <2>3. Owed(needs)'
    <3>. SUFFICES ASSUME NEW i \in DOMAIN needs
                  PROVE  Waiting(needs[i])'
      BY <1>5 DEF Owed, needs
    <3>1. i \in 1 .. Len(needs) /\ added[i].req = needs[i]
      BY <1>6
    <3>2. queue'[Len(queue) - 1 + i] = added[i]
      BY <1>9, <3>1
    <3>3. Len(queue) - 1 + i \in DOMAIN queue'
      BY <1>3, <1>6, <1>9, <3>1
    <3>4. PICK j \in DOMAIN queue' : queue'[j].req = needs[i]
      BY <3>1, <3>2, <3>3
    <3>. QED
      BY <3>4 DEF Waiting
  <2>4. ASSUME NEW n \in InGraph'
        PROVE  Owed(graph[n].needs)'
    <3>1. CASE n = e.req.name
      BY <1>7, <1>13, <2>3, <3>1
    <3>2. CASE n # e.req.name
      <4>1. n \in InGraph /\ graph'[n] = graph[n]
        BY <1>12, <3>2 DEF InGraph
      <4>2. graph[n].needs \in Seq(Requirement) /\ Owed(graph[n].needs)
        BY <1>1, <4>1 DEF InGraph, TypeOK, GraphNode, WalkInv
      <4>. QED
        BY <2>1, <4>1, <4>2
    <3>. QED
      BY <3>1, <3>2
  <2>. QED
    BY <1>1, <2>1, <2>2, <2>4 DEF WalkInv
<1>16. OrderInv'
  <2>1. order \in Seq(Names) /\ Len(order) \in Nat /\ DOMAIN order = 1 .. Len(order)
    BY LenProperties DEF TypeOK
  <2>2. /\ DOMAIN order' = 1 .. Len(order) + 1
        /\ \A i \in 1 .. Len(order) : order'[i] = order[i]
        /\ order'[Len(order) + 1] = e.req.name
    <3>1. /\ Append(order, e.req.name) \in Seq(Names)
          /\ Len(Append(order, e.req.name)) = Len(order) + 1
          /\ \A i \in 1 .. Len(order) : Append(order, e.req.name)[i] = order[i]
          /\ Append(order, e.req.name)[Len(order) + 1] = e.req.name
      BY <1>4, <2>1, AppendProperties
    <3>. QED
      BY <1>1, <3>1, LenProperties
  <2>3. \A n \in InGraph : n \in InGraph'
    BY <1>7, <1>12, <1>13 DEF InGraph
  <2>4. e.req.name \in InGraph'
    BY <1>4, <1>7, <1>13 DEF InGraph
  <2>. QED
    BY <2>1, <2>2, <2>3, <2>4 DEF OrderInv
<1>17. SearchInv' /\ StepInv' /\ NothingMissing'
  BY <1>1 DEF SearchInv, StepInv, NothingMissing, Settled, CanVary, Claimants, Repeated,
              RootDep, RootTable
<1>. QED
  BY <1>11, <1>15, <1>16, <1>17

\* The second table is queued when nothing waits, so what the first asked is met.
LEMMA WalkDevInv ==
  ASSUME Assumptions, IInv, WalkDev
  PROVE  IInv'
<1>. USE DEF IInv
<1>. DEFINE dev == Pinned(project.dev, pin)
<1>1. /\ step = "walk" /\ queue = <<>> /\ table' = "dev"
      /\ queue' = Entries(dev, None, "dev", OSes)
      /\ UNCHANGED <<project, served, remembered, fetched, step, outcome, pin, graph, order,
                     cursor, conflict, pivot, candidates, proposal, selected>>
  BY DEF WalkDev, searchVars
<1>2. dev \in Seq(Requirement) /\ Pinned(project.deps, pin) \in Seq(Requirement)
  BY PinnedType DEF TypeOK, Assumptions, ProjectsAssumption
<1>3. "dev" \in Scopes /\ None \in Names \cup {None} /\ OSes \in SUBSET OSes
  BY DEF Scopes
<1>4. /\ queue' \in Seq(Entry) /\ DOMAIN queue' = DOMAIN dev
      /\ \A i \in DOMAIN dev : queue'[i].req = dev[i]
  <2>1. dev \in Seq(Requirement) /\ queue' = Entries(dev, None, "dev", OSes)
    BY <1>1, <1>2
  <2>. HIDE DEF dev
  <2>2. /\ Entries(dev, None, "dev", OSes) \in Seq(Entry)
        /\ DOMAIN Entries(dev, None, "dev", OSes) = DOMAIN dev
        /\ \A i \in DOMAIN dev : Entries(dev, None, "dev", OSes)[i].req = dev[i]
    BY <1>3, <2>1, EntriesType
  <2>. QED
    BY <2>1, <2>2
<1>5. TypeOK'
  BY <1>1, <1>4 DEF TypeOK
<1>6. \A r : ~Waiting(r)
  BY <1>1, EmptySeq DEF Waiting
<1>7. Owed(dev)'
  BY <1>1, <1>4 DEF Owed, Waiting
<1>8. \A reqs : Owed(reqs) => Owed(reqs)'
  BY <1>1, <1>6 DEF Owed, Met
<1>9. WalkInv'
  BY <1>1, <1>7, <1>8 DEF WalkInv, InGraph
<1>10. SearchInv' /\ StepInv' /\ OrderInv' /\ NothingMissing'
  BY <1>1 DEF OrderInv, InGraph, SearchInv, StepInv, NothingMissing, Settled, CanVary, Claimants, Repeated,
              RootDep, RootTable
<1>. QED
  BY <1>5, <1>9, <1>10

\* A walk that ends with nothing waiting has met all it owed.
LEMMA WalkDoneInv ==
  ASSUME Assumptions, IInv, WalkDone
  PROVE  IInv'
<1>. USE DEF IInv
<1>1. /\ step = "walk" /\ queue = <<>> /\ table = "dev" /\ pin = None
      /\ step' = "fetch" /\ cursor' = 1
      /\ UNCHANGED <<project, served, remembered, fetched, outcome, pin, queue, table, graph,
                     order, conflict, pivot, candidates, proposal, selected>>
  BY DEF WalkDone, WalkEnds, walkVars, searchVars
<1>2. TypeOK'
  BY <1>1 DEF TypeOK
<1>3. \A reqs : Owed(reqs) => MetAll(reqs)
  BY <1>1, EmptySeq DEF Owed, MetAll, Waiting
<1>4. /\ Pinned(project.deps, pin) = project.deps
      /\ Pinned(project.dev, pin) = project.dev
  BY <1>1, NotPinned DEF TypeOK, Assumptions, ProjectsAssumption
<1>5. NothingMissing'
  BY <1>1, <1>3, <1>4 DEF WalkInv, NothingMissing, MetAll, Met, InGraph
<1>6. SearchInv' /\ StepInv' /\ OrderInv' /\ WalkInv'
  <2>1. candidates = {} /\ outcome # "ok"
    BY <1>1 DEF SearchInv, StepInv
  <2>. QED
    BY <1>1, <2>1 DEF OrderInv, InGraph, SearchInv, StepInv, WalkInv
<1>. QED
  BY <1>2, <1>5, <1>6

\* The search, apart from its trials.
LEMMA SearchStepsInv ==
  ASSUME Assumptions, IInv,
         PivotSkipped \/ PivotListed \/ TrialSettles \/ SearchOver
  PROVE  IInv'
<1>. USE DEF IInv
<1>1. CASE PivotSkipped
  <2>1. /\ step = "search" /\ candidates = {} /\ pivot <= MaxPivots /\ pivot' = pivot + 1
        /\ UNCHANGED <<project, served, remembered, fetched, step, outcome, pin, queue, table,
                       graph, order, cursor, conflict, candidates, proposal, selected>>
    BY <1>1 DEF PivotSkipped, AtPivot, walkVars
  <2>2. TypeOK'
    BY <2>1 DEF TypeOK, MaxPivots
  <2>3. pin = None /\ outcome # "ok"
    BY <2>1 DEF SearchInv, StepInv
  <2>. QED
    BY <2>1, <2>2, <2>3 DEF OrderInv, InGraph, SearchInv, StepInv, WalkInv,
      NothingMissing, Settled
<1>2. CASE PivotListed
  <2>1. /\ step = "search" /\ candidates = {} /\ pivot <= MaxPivots /\ CanVary(pivot)
        /\ candidates' = Releases(RootDep(Claimants[pivot]))
        /\ UNCHANGED <<project, served, remembered, fetched, step, outcome, pin, queue, table,
                       graph, order, cursor, conflict, pivot, proposal, selected>>
    BY <1>2 DEF PivotListed, AtPivot, walkVars
  <2>2. pin = None /\ outcome # "ok" /\ conflict # None /\ pivot \in 1 .. MaxPivots
    BY <2>1 DEF SearchInv, StepInv, TypeOK, MaxPivots
  <2>3. Claimants[pivot] \in Names /\ RootDep(Claimants[pivot]) # None
    BY <2>1, <2>2 DEF TypeOK, CanVary, Claimants, Claim, MaxPivots
  <2>4. RootDep(Claimants[pivot]).name \in Names
    BY <2>3, RootDepType DEF Requirement
  <2>5. candidates' \subseteq Versions
    BY <2>1, <2>4 DEF Releases, Assumptions, ListedAssumption
  <2>6. TypeOK'
    BY <2>1, <2>5 DEF TypeOK
  <2>7. (CanVary(pivot))'
    BY <2>1 DEF CanVary, Claimants, Repeated, RootDep, RootTable
  <2>. QED
    BY <2>1, <2>2, <2>6, <2>7 DEF OrderInv, InGraph, SearchInv, StepInv, WalkInv,
      NothingMissing, Settled
<1>3. CASE TrialSettles
  <2>1. /\ step = "walk" /\ pin # None /\ graph[conflict.name] # None
        /\ proposal' = [name |-> pin.name, from |-> RootDep(pin.name).src, to |-> pin.src,
                        table |-> RootTable(pin.name),
                        settlesOn |-> graph[conflict.name].src]
        /\ step' = "done" /\ EndWalk
        /\ UNCHANGED <<project, served, remembered, fetched, outcome, cursor, conflict, pivot,
                       candidates, selected>>
    BY <1>3 DEF TrialSettles, WalkEnds
  <2>2. /\ conflict # None /\ pivot \in 1 .. MaxPivots /\ CanVary(pivot)
        /\ pin.name = Claimants[pivot] /\ outcome # "ok"
    BY <2>1 DEF SearchInv, StepInv
  <2>3. pin.name \in Names /\ pin.src \in Versions /\ RootDep(pin.name) # None
    BY <2>1, <2>2 DEF TypeOK, Pin, CanVary
  <2>4. RootDep(pin.name).src \in Sources
    BY <2>3, RootDepType DEF Requirement
  <2>5. graph[conflict.name].src \in Sources
    BY <2>1, <2>2 DEF TypeOK, Claim, GraphNode
  <2>6. RootTable(pin.name) \in {"deps", "dev"}
    BY DEF RootTable
  <2>7. proposal' \in Proposal
    BY <2>1, <2>3, <2>4, <2>5, <2>6 DEF Proposal
  <2>8. /\ graph' \in [Names -> {None} \cup GraphNode] /\ queue' \in Seq(Entry)
        /\ order' \in Seq(Names) /\ pin' = None /\ table' \in {"deps", "dev"}
    BY <2>1, EmptySeq DEF EndWalk, NoGraph
  <2>9. TypeOK'
    BY <2>1, <2>7, <2>8 DEF TypeOK
  <2>10. (CanVary(pivot))'
    BY <2>1, <2>2 DEF CanVary, Claimants, Repeated, RootDep, RootTable
  <2>. QED
    BY <2>1, <2>2, <2>8, <2>9, <2>10, EmptySeq DEF EndWalk, OrderInv, InGraph, SearchInv, StepInv, WalkInv,
      NothingMissing, Settled
<1>4. CASE SearchOver
  <2>1. /\ step = "search" /\ candidates = {} /\ step' = "done"
        /\ UNCHANGED <<project, served, remembered, fetched, outcome, pin, queue, table,
                       graph, order, cursor, conflict, pivot, candidates, proposal, selected>>
    BY <1>4 DEF SearchOver, walkVars, searchVars
  <2>2. pin = None /\ outcome # "ok"
    BY <2>1 DEF SearchInv, StepInv
  <2>3. TypeOK'
    BY <2>1 DEF TypeOK
  <2>. QED
    BY <2>1, <2>2, <2>3 DEF OrderInv, InGraph, SearchInv, StepInv, WalkInv,
      NothingMissing, Settled
<1>. QED
  BY <1>1, <1>2, <1>3, <1>4

\* The ways a walk ends early.
LEMMA WalkFailuresInv ==
  ASSUME Assumptions, IInv,
         VisitConflict \/ VisitTooMany \/ VisitFails \/ VisitRefused \/ TrialDrops
  PROVE  IInv'
<1>. USE DEF IInv
<1>0. /\ DOMAIN served = Coords
      /\ \A c \in Coords : served[c] = None \/ served[c] \in Recipes[c]
      /\ remembered \subseteq Coords /\ fetched \subseteq Coords
  BY DEF TypeOK
<1>1. CASE VisitConflict
  <2>. DEFINE e == Head(queue)
              n == e.req.name
              claims == [name |-> n, src |-> graph[n].src, by |-> graph[n].by,
                         other |-> e.req.src, otherBy |-> e.by]
  <2>1. /\ step = "walk" /\ queue # <<>> /\ graph[n] # None /\ WalkFails(claims)
        /\ UNCHANGED <<served, remembered, fetched>>
    BY <1>1 DEF VisitConflict, AtSeen
  <2>2. e \in Entry
    BY <2>1, HeadOfQueue
  <2>3. n \in Names /\ e.req.src \in Sources /\ e.by \in Names \cup {None}
    BY <2>2 DEF Entry, Requirement
  <2>4. graph[n] \in GraphNode
    BY <2>1, <2>3 DEF TypeOK
  <2>5. claims \in Claim
    BY <2>3, <2>4 DEF Claim, GraphNode
  <2>. HIDE DEF claims
  <2>6. step = "walk" /\ WalkFails(claims)
    BY <2>1
  <2>. QED
    BY <1>0, <2>1, <2>5, <2>6, WalkFailsInv
<1>2. CASE VisitTooMany \/ VisitFails \/ TrialDrops
  <2>1. step = "walk" /\ WalkFails(None) /\ UNCHANGED <<served, remembered, fetched>>
    BY <1>2 DEF VisitTooMany, VisitFails, TrialDrops, AtNew, WalkEnds
  <2>. QED
    BY <1>0, <2>1, WalkFailsInv
<1>3. CASE VisitRefused
  <2>. DEFINE c == Coord(Head(queue).req)
  <2>1. /\ step = "walk" /\ queue # <<>> /\ WalkFails(None)
        /\ fetched' = IF c[2] \in Versions THEN fetched ELSE fetched \cup {c}
    BY <1>3 DEF VisitRefused, AtNew
  <2>2. PICK recipe \in Recipes[c] : Answers(c, recipe)
    BY <1>3 DEF VisitRefused
  <2>3. c \in Coords
    <3>1. Head(queue) \in Entry
      BY <2>1, HeadOfQueue
    <3>. QED
      BY <3>1 DEF Entry, Requirement, Coord, Coords
  <2>. HIDE DEF c
  <2>4. /\ DOMAIN served' = Coords
        /\ \A x \in Coords : served'[x] = None \/ served'[x] \in Recipes[x]
        /\ remembered' \subseteq Coords
    BY <2>2, <2>3, AnswersType
  <2>5. fetched' \subseteq Coords
    BY <1>0, <2>1, <2>3
  <2>. QED
    BY <2>1, <2>4, <2>5, WalkFailsInv
<1>. QED
  BY <1>1, <1>2, <1>3

\* Fetching changes nothing the walk made.
LEMMA FetchInv ==
  ASSUME Assumptions, IInv,
         MaterializeSkips \/ Materialize \/ MaterializeFails \/ Provided
  PROVE  IInv'
<1>. USE DEF IInv
<1>1. step = "fetch" /\ pin = None /\ candidates = {} /\ outcome # "ok"
  BY DEF MaterializeSkips, Materialize, MaterializeFails, Provided, AtNode, SearchInv, StepInv
<1>2. CASE MaterializeSkips \/ Materialize
  <2>1. /\ cursor <= Len(order) /\ cursor' = cursor + 1
        /\ fetched' \subseteq fetched \cup {NodeCoord(order[cursor])}
        /\ Materialize => graph[order[cursor]].src \notin Places
        /\ MaterializeSkips => fetched' = fetched
        /\ UNCHANGED <<project, served, remembered, step, outcome, pin, queue, table, graph,
                       order, conflict, pivot, candidates, proposal, selected>>
    BY <1>2 DEF MaterializeSkips, Materialize, AtNode, Skips, walkVars, searchVars
  <2>2. fetched' \subseteq Coords
    <3>1. order[cursor] \in Names
      BY <2>1, ElementOfSeq DEF TypeOK
    <3>2. CASE MaterializeSkips
      BY <2>1, <3>2 DEF TypeOK
    <3>3. CASE Materialize
      <4>1. order[cursor] \in InGraph
        BY <2>1, LenProperties DEF OrderInv, TypeOK
      <4>2. NodeCoord(order[cursor]) \in Coords
        BY <3>1, <4>1 DEF NodeCoord, InGraph, Coords, TypeOK, GraphNode
      <4>. QED
        BY <2>1, <4>2 DEF TypeOK
    <3>. QED
      BY <1>2, <3>2, <3>3
  <2>3. TypeOK'
    BY <2>1, <2>2 DEF TypeOK
  <2>. QED
    BY <1>1, <2>1, <2>3 DEF OrderInv, InGraph, SearchInv, StepInv, WalkInv,
      NothingMissing, Settled, MetAll, Met
<1>3. CASE MaterializeFails
  <2>1. /\ step' = "done" /\ outcome' = "failed" /\ EndWalk
        /\ UNCHANGED <<project, served, remembered, fetched, cursor, conflict, pivot,
                       candidates, proposal, selected>>
    BY <1>3 DEF MaterializeFails, searchVars
  <2>2. /\ graph' \in [Names -> {None} \cup GraphNode] /\ queue' \in Seq(Entry)
        /\ order' \in Seq(Names) /\ pin' = None /\ table' \in {"deps", "dev"}
    BY <2>1, EmptySeq DEF EndWalk, NoGraph
  <2>3. TypeOK'
    BY <2>1, <2>2 DEF TypeOK
  <2>. QED
    BY <1>1, <2>1, <2>2, <2>3, EmptySeq DEF EndWalk, OrderInv, SearchInv, StepInv, WalkInv,
      NothingMissing, Settled
<1>4. CASE Provided
  <2>1. /\ step' = "done" /\ outcome' = "ok"
        /\ UNCHANGED <<project, served, remembered, fetched, pin, queue, table, graph, order,
                       cursor, conflict, pivot, candidates, proposal, selected>>
    BY <1>4 DEF Provided, walkVars, searchVars
  <2>2. TypeOK'
    BY <2>1 DEF TypeOK
  <2>. QED
    BY <1>1, <2>1, <2>2 DEF OrderInv, InGraph, SearchInv, StepInv, WalkInv,
      NothingMissing, Settled, MetAll, Met
<1>. QED
  BY <1>2, <1>3, <1>4

\* Nor does the choice of what the target takes part of.
LEMMA SelectOsInv ==
  ASSUME Assumptions, IInv, NEW t \in OSes, SelectOs(t)
  PROVE  IInv'
<1>. USE DEF IInv
<1>1. /\ selected' = [target |-> t, names |-> {n \in InGraph : t \in graph[n].os}]
      /\ UNCHANGED <<project, served, remembered, fetched, step, outcome, pin, queue, table,
                     graph, order, cursor, conflict, pivot, candidates, proposal>>
  BY DEF SelectOs, walkVars, searchVars
<1>2. {n \in InGraph : t \in graph[n].os} \in SUBSET Names
  BY DEF InGraph
<1>3. TypeOK'
  BY <1>1, <1>2 DEF TypeOK
<1>4. OrderInv' /\ SearchInv' /\ StepInv'
  BY <1>1 DEF OrderInv, InGraph, SearchInv, StepInv, CanVary, Claimants, Repeated, RootDep,
              RootTable
<1>5. WalkInv' /\ NothingMissing'
  BY <1>1 DEF InGraph, WalkInv, Owed, Waiting, NothingMissing, Settled, MetAll, Met
<1>. QED
  BY <1>3, <1>4, <1>5

\* Nothing in the invariant depends on more than the variables.
LEMMA StutterInv ==
  ASSUME IInv, UNCHANGED depVars
  PROVE  IInv'
<1>. USE DEF IInv
<1>1. UNCHANGED <<project, served, remembered, fetched, step, outcome, pin, queue, table,
                  graph, order, cursor, conflict, pivot, candidates, proposal, selected>>
  BY DEF depVars
<1>2. TypeOK'
  BY <1>1 DEF TypeOK
<1>3. OrderInv' /\ SearchInv' /\ StepInv'
  BY <1>1 DEF OrderInv, InGraph, SearchInv, StepInv, CanVary, Claimants, Repeated, RootDep,
              RootTable
<1>4. WalkInv' /\ NothingMissing'
  BY <1>1 DEF InGraph, WalkInv, Owed, Waiting, NothingMissing, Settled, MetAll, Met
<1>. QED
  BY <1>2, <1>3, <1>4

\* Every step keeps the invariant.
LEMMA NextInv ==
  ASSUME Assumptions, IInv, [DepNext]_depVars
  PROVE  IInv'
<1>1. CASE Walk
  <2>1. \/ Start \/ VisitSeen \/ VisitNew \/ WalkDev
        \/ (VisitConflict \/ VisitTooMany \/ VisitFails \/ VisitRefused \/ TrialDrops)
    BY <1>1 DEF Walk
  <2>. QED
    BY <2>1, StartInv, VisitSeenInv, VisitNewInv, WalkDevInv, WalkFailuresInv
<1>2. CASE Search
  <2>1. \/ Try \/ (PivotSkipped \/ PivotListed \/ TrialSettles \/ SearchOver)
        \/ (VisitConflict \/ VisitTooMany \/ VisitFails \/ VisitRefused \/ TrialDrops)
    BY <1>2 DEF Search
  <2>. QED
    BY <2>1, TryInv, SearchStepsInv, WalkFailuresInv
<1>3. CASE Fetch
  <2>1. WalkDone \/ (MaterializeSkips \/ Materialize \/ MaterializeFails \/ Provided)
    BY <1>3 DEF Fetch
  <2>. QED
    BY <2>1, WalkDoneInv, FetchInv
<1>4. CASE \E t \in OSes : SelectOs(t)
  BY <1>4, SelectOsInv
<1>5. CASE UNCHANGED depVars
  BY <1>5, StutterInv
<1>. QED
  BY <1>1, <1>2, <1>3, <1>4, <1>5 DEF DepNext

------------------------------------------------------------------------------
(* Iterating a function                                                     *)

\* What holds of 0, and of n + 1 where it holds of n, holds of every number.
LEMMA AllNumbers ==
  ASSUME NEW S, 0 \in S, \A n \in Nat : n \in S => n + 1 \in S
  PROVE  Nat \subseteq S
<1> SUFFICES ASSUME Nat \ S # {} PROVE FALSE
  OBVIOUS
<1>1. PICK x \in Nat \ S : \A y \in Nat \ S : ~(<<y, x>> \in OpToRel(<, Nat))
  BY NatLessThanWellFounded, WFMin
<1>2. x # 0 /\ x - 1 \in Nat /\ x - 1 < x /\ (x - 1) + 1 = x
  OBVIOUS
<1>3. x - 1 \notin S
  BY <1>2
<1> QED
  BY <1>1, <1>2, <1>3 DEF OpToRel

Iterates(f, b, g) == f = [k \in Nat |-> IF k = 0 THEN b ELSE g[f[k - 1]]]
\* A function that is applied again and again has a sequence of values.
LEMMA Iterated ==
  ASSUME NEW S, NEW b \in S, NEW g \in [S -> S]
  PROVE  \E f \in [Nat -> S] : Iterates(f, b, g)
<1> DEFINE Starts(n) == {h \in [0 .. n -> S] : h[0] = b /\ \A k \in 0 .. n - 1 : h[k + 1] = g[h[k]]}
<1>1. \A n \in Nat : Starts(n) # {}
  <2> DEFINE Started == {n \in Nat : Starts(n) # {}}
  <2>1. 0 \in Started
    <3>1. [k \in 0 .. 0 |-> b] \in Starts(0)
      OBVIOUS
    <3> QED
      BY <3>1
  <2>2. ASSUME NEW n \in Nat, n \in Started PROVE n + 1 \in Started
    <3>1. PICK h \in [0 .. n -> S] : h[0] = b /\ \A k \in 0 .. n - 1 : h[k + 1] = g[h[k]]
      BY <2>2
    <3>2. [k \in 0 .. n + 1 |-> IF k = n + 1 THEN g[h[n]] ELSE h[k]] \in Starts(n + 1)
      <4> DEFINE longer == [k \in 0 .. n + 1 |-> IF k = n + 1 THEN g[h[n]] ELSE h[k]]
      <4>1. longer \in [0 .. n + 1 -> S]
        <5> SUFFICES ASSUME NEW k \in 0 .. n + 1
                     PROVE  (IF k = n + 1 THEN g[h[n]] ELSE h[k]) \in S
          OBVIOUS
        <5>1. n \in 0 .. n /\ (k # n + 1 => k \in 0 .. n)
          OBVIOUS
        <5> QED
          BY <3>1, <5>1
      <4>2. longer[0] = b
        BY <3>1
      <4>3. ASSUME NEW k \in 0 .. n PROVE longer[k + 1] = g[longer[k]]
        <5>1. longer[k] = h[k]
          OBVIOUS
        <5>2. k # n => k \in 0 .. n - 1 /\ longer[k + 1] = h[k + 1]
          OBVIOUS
        <5>3. k = n => longer[k + 1] = g[h[n]]
          OBVIOUS
        <5> QED
          BY <3>1, <5>1, <5>2, <5>3
      <4> HIDE DEF longer
      <4>4. 0 .. (n + 1) - 1 = 0 .. n
        OBVIOUS
      <4> QED
        BY <4>1, <4>2, <4>3, <4>4 DEF longer
    <3> QED
      BY <3>2
  <2>3. Nat \subseteq Started
    <3> HIDE DEF Started
    <3> QED
      BY <2>1, <2>2, AllNumbers
  <2> HIDE DEF Starts
  <2> QED
    BY <2>3
<1>2. ASSUME NEW n \in Nat, NEW m \in Nat, NEW h \in Starts(n), NEW e \in Starts(m)
      PROVE  \A k \in Nat : k <= n /\ k <= m => h[k] = e[k]
  <2> DEFINE Same == {k \in Nat : k <= n /\ k <= m => h[k] = e[k]}
  <2>1. 0 \in Same
    OBVIOUS
  <2>2. ASSUME NEW k \in Nat, k \in Same PROVE k + 1 \in Same
    <3> SUFFICES ASSUME k + 1 <= n, k + 1 <= m PROVE h[k + 1] = e[k + 1]
      OBVIOUS
    <3>1. k \in 0 .. n - 1 /\ k \in 0 .. m - 1 /\ h[k] = e[k]
      BY <2>2
    <3> QED
      BY <3>1
  <2>3. Nat \subseteq Same
    <3> HIDE DEF Same
    <3> QED
      BY <2>1, <2>2, AllNumbers
  <2> QED
    BY <2>3
<1> DEFINE f == [n \in Nat |-> (CHOOSE h \in Starts(n) : TRUE)[n]]
<1>3. \A n \in Nat : (CHOOSE h \in Starts(n) : TRUE) \in Starts(n)
  BY <1>1
<1>4. f \in [Nat -> S]
  <2>1. ASSUME NEW n \in Nat PROVE f[n] \in S
    <3>1. n \in 0 .. n /\ f[n] = (CHOOSE h \in Starts(n) : TRUE)[n]
      OBVIOUS
    <3>2. (CHOOSE h \in Starts(n) : TRUE) \in [0 .. n -> S]
      BY <1>3
    <3> QED
      BY <3>1, <3>2
  <2> QED
    BY <2>1
<1>5. f[0] = b
  <2>1. (CHOOSE h \in Starts(0) : TRUE) \in Starts(0)
    BY <1>3
  <2> QED
    BY <2>1
<1>6. ASSUME NEW n \in Nat, n # 0 PROVE f[n] = g[f[n - 1]]
  <2> DEFINE h == CHOOSE x \in Starts(n) : TRUE
             e == CHOOSE x \in Starts(n - 1) : TRUE
  <2>1. h \in Starts(n) /\ e \in Starts(n - 1) /\ n - 1 \in Nat
    <3>1. n - 1 \in Nat
      BY <1>6
    <3> HIDE DEF Starts
    <3> QED
      BY <1>3, <3>1
  <2>2. f[n] = h[n] /\ f[n - 1] = e[n - 1]
    BY <2>1
  <2>3. n - 1 \in 0 .. n - 1 /\ n - 1 <= n /\ (n - 1) + 1 = n
    BY <1>6
  <2> HIDE DEF h, e
  <2>4. h[n - 1] = e[n - 1]
    <3> HIDE DEF Starts
    <3> QED
      BY <1>2, <2>1, <2>3
  <2>5. h[n] = g[h[n - 1]]
    BY <2>1, <2>3
  <2> HIDE DEF f
  <2> QED
    BY <2>2, <2>4, <2>5
<1> HIDE DEF f
<1>7. f = [k \in Nat |-> IF k = 0 THEN b ELSE g[f[k - 1]]]
  <2>1. \A k \in Nat : f[k] = IF k = 0 THEN b ELSE g[f[k - 1]]
    BY <1>5, <1>6
  <2> QED
    BY <1>4, <2>1
<1> QED
  BY <1>4, <1>7 DEF Iterates

------------------------------------------------------------------------------
(* What a set of recipes reaches                                            *)

EdgeSet == [c : Coords, by : Names \cup {None}, scope : Scopes, os : SUBSET OSes]

\* What an origin that answered says is a recipe it may have.
Answered(known) ==
  /\ DOMAIN known = Coords
  /\ \A c \in Coords : known[c] = None \/ known[c] \in Recipes[c]
ProjectType(p) == p \in [deps : Seq(Requirement), dev : Seq(Requirement)]

\* The tables give edges.
LEMMA RootsType ==
  ASSUME NEW p, ProjectType(p)
  PROVE  Roots(p) \subseteq EdgeSet
<1>1. \A reqs \in Seq(Requirement), s \in Scopes : RootEdges(reqs, s) \subseteq EdgeSet
  <2> SUFFICES ASSUME NEW reqs \in Seq(Requirement), NEW s \in Scopes, NEW i \in DOMAIN reqs
               PROVE  [c |-> Coord(reqs[i]), by |-> None, scope |-> s, os |-> reqs[i].os] \in EdgeSet
    BY DEF RootEdges
  <2>1. reqs[i] \in Requirement
    BY ElementOfSeq, LenProperties
  <2> QED
    BY <2>1 DEF EdgeSet, Requirement, Coord, Coords
<1>2. p.deps \in Seq(Requirement) /\ p.dev \in Seq(Requirement) /\ "runtime" \in Scopes /\ "dev" \in Scopes
  BY DEF ProjectType, Scopes
<1> QED
  BY <1>1, <1>2 DEF Roots

\* What a coordinate is known to need are requirements.
LEMMA NeedsType ==
  ASSUME NEW known, Answered(known), NEW c \in Coords
  PROVE  Needs(known, c) \subseteq Requirement
<1>1. CASE known[c] = None
  BY <1>1 DEF Needs
<1>2. CASE known[c] # None
  <2>1. known[c].needs \in Seq(Requirement)
    BY <1>2, RecipesAssumption DEF Answered, Recipe
  <2>2. \A i \in DOMAIN known[c].needs : known[c].needs[i] \in Requirement
    BY <2>1, ElementOfSeq, LenProperties
  <2> QED
    BY <1>2, <2>2 DEF Needs
<1> QED
  BY <1>1, <1>2

\* And what is below an edge are edges.
LEMMA BelowType ==
  ASSUME NEW known, Answered(known), NEW e \in EdgeSet
  PROVE  EdgesBelow(known, e) \subseteq EdgeSet
<1>1. e.c \in Coords /\ e.c[1] \in Names /\ e.scope \in Scopes /\ e.os \subseteq OSes
  BY DEF EdgeSet, Coords
<1>2. Needs(known, e.c) \subseteq Requirement
  BY <1>1, NeedsType
<1> SUFFICES ASSUME NEW r \in Needs(known, e.c)
             PROVE [c |-> Coord(r), by |-> e.c[1], scope |-> e.scope, os |-> r.os \cap e.os] \in EdgeSet
  BY DEF EdgesBelow
<1> QED
  BY <1>1, <1>2 DEF EdgeSet, Requirement, Coord, Coords

\* Going one further leads to edges only.
LEMMA FurtherType ==
  ASSUME NEW known, Answered(known), NEW edges \in SUBSET EdgeSet
  PROVE  Further(known, edges) \in SUBSET EdgeSet
BY BelowType DEF Further

\* Reach is the function its definition describes.
LEMMA ReachIs ==
  ASSUME NEW known, NEW p, Answered(known), ProjectType(p)
  PROVE  /\ Reach(known, p) \in [Nat -> SUBSET EdgeSet]
         /\ Reach(known, p)[0] = Roots(p)
         /\ \A k \in Nat : Reach(known, p)[k + 1] = Further(known, Reach(known, p)[k])
<1> DEFINE S == SUBSET EdgeSet
           g == [edges \in S |-> Further(known, edges)]
<1>1. g \in [S -> S] /\ Roots(p) \in S
  BY FurtherType, RootsType
<1>2. PICK f \in [Nat -> S] : Iterates(f, Roots(p), g)
  <2> HIDE DEF S, g
  <2> QED
    BY <1>1, Iterated, Zenon
<1>3. f = [k \in Nat |-> IF k = 0 THEN Roots(p) ELSE Further(known, f[k - 1])]
  <2>1. \A k \in Nat : k # 0 => k - 1 \in Nat
    OBVIOUS
  <2>2. \A k \in Nat : k # 0 => g[f[k - 1]] = Further(known, f[k - 1])
    BY <1>2, <2>1
  <2> QED
    BY <1>2, <2>2 DEF Iterates
<1>4. Reach(known, p) = [k \in Nat |-> IF k = 0 THEN Roots(p) ELSE Further(known, Reach(known, p)[k - 1])]
  BY <1>3, Zenon DEF Reach
<1>5. \A k \in Nat : k + 1 \in Nat /\ k + 1 # 0 /\ (k + 1) - 1 = k
  OBVIOUS
<1>6. Reach(known, p)[0] = Roots(p) /\ \A k \in Nat : Reach(known, p)[k + 1] = Further(known, Reach(known, p)[k])
  <2> DEFINE R == Reach(known, p)
  <2> HIDE DEF R
  <2>1. R = [k \in Nat |-> IF k = 0 THEN Roots(p) ELSE Further(known, R[k - 1])]
    BY <1>4 DEF R
  <2>2. R[0] = Roots(p) /\ \A k \in Nat : R[k + 1] = Further(known, R[k])
    BY <1>5, <2>1
  <2> QED
    BY <2>2 DEF R
<1>7. \A k \in Nat : Reach(known, p)[k] \in SUBSET EdgeSet
  <2> DEFINE T == {k \in Nat : Reach(known, p)[k] \in SUBSET EdgeSet}
  <2>1. 0 \in T
    BY <1>1, <1>6
  <2>2. ASSUME NEW k \in Nat, k \in T PROVE k + 1 \in T
    BY <1>6, <2>2, FurtherType
  <2>3. Nat \subseteq T
    <3> HIDE DEF T
    <3> QED
      BY <2>1, <2>2, AllNumbers
  <2> QED
    BY <2>3
<1>8. DOMAIN Reach(known, p) = Nat
  BY <1>4
<1>9. Reach(known, p) = [k \in Nat |-> Reach(known, p)[k]]
  <2> DEFINE R == Reach(known, p)
  <2> HIDE DEF R
  <2>1. R = [k \in Nat |-> IF k = 0 THEN Roots(p) ELSE Further(known, R[k - 1])]
    BY <1>4 DEF R
  <2>2. R = [k \in Nat |-> R[k]]
    BY <2>1
  <2> QED
    BY <2>2 DEF R
<1> QED
  BY <1>6, <1>7, <1>9

\* One step further is never less.
LEMMA ReachGrows ==
  ASSUME NEW known, NEW p, Answered(known), ProjectType(p)
  PROVE  \A k, m \in Nat : k <= m => Reach(known, p)[k] \subseteq Reach(known, p)[m]
<1> DEFINE R == Reach(known, p)
<1>1. \A k \in Nat : R[k] \subseteq R[k + 1]
  BY ReachIs DEF Further
<1> HIDE DEF R
<1> SUFFICES ASSUME NEW k \in Nat PROVE \A m \in Nat : k <= m => R[k] \subseteq R[m]
  BY DEF R
<1> DEFINE T == {m \in Nat : k <= m => R[k] \subseteq R[m]}
<1>2. 0 \in T
  OBVIOUS
<1>3. ASSUME NEW m \in Nat, m \in T PROVE m + 1 \in T
  BY <1>1, <1>3
<1>4. Nat \subseteq T
  <2> HIDE DEF T
  <2> QED
    BY <1>2, <1>3, AllNumbers
<1> QED
  BY <1>4

\* What is below an edge is reached one further.
LEMMA ReachBelow ==
  ASSUME NEW known, NEW p, Answered(known), ProjectType(p),
         NEW k \in Nat, NEW e \in Reach(known, p)[k], NEW f \in EdgesBelow(known, e)
  PROVE  f \in Reach(known, p)[k + 1]
BY ReachIs DEF Further

\* Whatever holds the roots and, with an edge, what is below it, holds all that is reached.
LEMMA ReachWithin ==
  ASSUME NEW known, NEW p, Answered(known), ProjectType(p),
         NEW X, Roots(p) \subseteq X,
         \A e \in X \cap EdgeSet : EdgesBelow(known, e) \subseteq X
  PROVE  \A k \in Nat : Reach(known, p)[k] \subseteq X
<1> DEFINE R == Reach(known, p)
           T == {k \in Nat : R[k] \subseteq X}
<1>1. R[0] = Roots(p) /\ \A k \in Nat : R[k] \subseteq EdgeSet /\ R[k + 1] = Further(known, R[k])
  BY ReachIs
<1> HIDE DEF R
<1>2. 0 \in T
  BY <1>1
<1>3. ASSUME NEW k \in Nat, k \in T PROVE k + 1 \in T
  BY <1>1, <1>3 DEF Further
<1>4. Nat \subseteq T
  <2> HIDE DEF T
  <2> QED
    BY <1>2, <1>3, AllNumbers
<1> QED
  BY <1>4 DEF R

\* An answer more takes no edge away.
Learns(known, more) == \A c \in Coords : known[c] # None => more[c] = known[c]

\* Knowing more recipes, no less is reached.
LEMMA ReachLearns ==
  ASSUME NEW known, NEW more, NEW p, Answered(known), Answered(more), Learns(known, more),
         ProjectType(p)
  PROVE  \A k \in Nat : Reach(known, p)[k] \subseteq Reach(more, p)[k]
<1> DEFINE R == Reach(known, p)
           Q == Reach(more, p)
           T == {k \in Nat : R[k] \subseteq Q[k]}
<1>1. /\ R[0] = Roots(p) /\ Q[0] = Roots(p)
      /\ \A k \in Nat : /\ R[k] \subseteq EdgeSet
                       /\ R[k + 1] = Further(known, R[k]) /\ Q[k + 1] = Further(more, Q[k])
  BY ReachIs
<1>2. \A e \in EdgeSet : EdgesBelow(known, e) \subseteq EdgesBelow(more, e)
  <2> SUFFICES ASSUME NEW e \in EdgeSet PROVE Needs(known, e.c) \subseteq Needs(more, e.c)
    BY DEF EdgesBelow
  <2>1. e.c \in Coords
    BY DEF EdgeSet
  <2> QED
    BY <2>1 DEF Needs, Learns
<1> HIDE DEF R, Q
<1>3. 0 \in T
  BY <1>1
<1>4. ASSUME NEW k \in Nat, k \in T PROVE k + 1 \in T
  BY <1>1, <1>2, <1>4 DEF Further
<1>5. Nat \subseteq T
  <2> HIDE DEF T
  <2> QED
    BY <1>3, <1>4, AllNumbers
<1> QED
  BY <1>5 DEF R, Q

------------------------------------------------------------------------------
(* A set that grows as long as it can                                       *)

\* In a finite set it is done before it has more members than the set.
LEMMA Grown ==
  ASSUME NEW L, IsFiniteSet(L), NEW f \in [Nat -> SUBSET L], NEW g \in [SUBSET L -> SUBSET L],
         \A k \in Nat : f[k] \subseteq f[k + 1] /\ f[k + 1] = g[f[k]],
         f[0] # {}
  PROVE  /\ Cardinality(L) \in Nat /\ g[f[Cardinality(L)]] = f[Cardinality(L)]
         /\ Cardinality(f[Cardinality(L)]) \in Nat \ {0}
         /\ f[Cardinality(L)] = f[Cardinality(f[Cardinality(L)]) - 1]
<1> DEFINE C(k) == Cardinality(f[k])
           T == {k \in Nat : C(k) >= k + 1}
<1>1. Cardinality(L) \in Nat
  BY FS_CardinalityType
<1>2. \A k \in Nat : IsFiniteSet(f[k]) /\ C(k) \in Nat /\ C(k) <= Cardinality(L)
  BY FS_Subset, FS_CardinalityType
<1>3. \A k \in Nat : C(k) <= C(k + 1) /\ (C(k) = C(k + 1) => f[k] = f[k + 1])
  <2> SUFFICES ASSUME NEW k \in Nat
               PROVE  C(k) <= C(k + 1) /\ (C(k) = C(k + 1) => f[k] = f[k + 1])
    OBVIOUS
  <2>1. k + 1 \in Nat
    OBVIOUS
  <2>2. IsFiniteSet(f[k + 1]) /\ f[k] \in SUBSET f[k + 1]
    BY <1>2, <2>1
  <2> QED
    BY <2>2, FS_Subset
<1>4. 0 \in T
  <2>1. IsFiniteSet(f[0]) /\ C(0) \in Nat
    BY <1>2
  <2>2. C(0) # 0
    BY <2>1, FS_EmptySet
  <2> QED
    BY <2>1, <2>2
<1> HIDE DEF C
<1>5. \E j \in Nat : j \in T /\ j + 1 \notin T
  <2> SUFFICES ASSUME \A j \in Nat : j \in T => j + 1 \in T PROVE FALSE
    OBVIOUS
  <2>1. Nat \subseteq T
    <3> HIDE DEF T
    <3> QED
      BY <1>4, AllNumbers
  <2>2. Cardinality(L) \in T
    BY <1>1, <2>1
  <2>3. C(Cardinality(L)) >= Cardinality(L) + 1 /\ C(Cardinality(L)) <= Cardinality(L)
        /\ C(Cardinality(L)) \in Nat
    BY <1>1, <1>2, <2>2
  <2> QED
    BY <1>1, <2>3
<1>6. PICK j \in Nat : j \in T /\ j + 1 \notin T
  BY <1>5
<1>7. C(j) \in Nat /\ C(j + 1) \in Nat /\ C(j) >= j + 1 /\ C(j + 1) < j + 2 /\ C(j) <= C(j + 1)
  BY <1>2, <1>3, <1>6
<1>8. f[j] = f[j + 1]
  BY <1>3, <1>7
<1>9. \A k \in Nat : k >= j => f[k] = f[j]
  <2> DEFINE S == {k \in Nat : k >= j => f[k] = f[j]}
  <2>1. 0 \in S
    OBVIOUS
  <2>2. ASSUME NEW k \in Nat, k \in S PROVE k + 1 \in S
    <3>1. CASE k >= j
      <4>1. f[k] = f[j] /\ f[k + 1] = g[f[k]] /\ f[j + 1] = g[f[j]]
        BY <2>2, <3>1
      <4> QED
        BY <1>8, <4>1
    <3>2. CASE ~(k >= j)
      BY <3>2
    <3> QED
      BY <3>1, <3>2
  <2>3. Nat \subseteq S
    <3> HIDE DEF S
    <3> QED
      BY <2>1, <2>2, AllNumbers
  <2> QED
    BY <2>3
<1>10. f[Cardinality(L)] = f[j] /\ C(Cardinality(L)) = C(j)
  <2>1. Cardinality(L) >= j
    BY <1>1, <1>2, <1>7
  <2>2. f[Cardinality(L)] = f[j]
    BY <1>1, <1>9, <2>1
  <2> QED
    BY <2>2 DEF C
<1>11. f[C(j) - 1] = f[j]
  BY <1>7, <1>9
<1>12. g[f[j]] = f[j]
  BY <1>8
<1> QED
  BY <1>1, <1>7, <1>10, <1>11, <1>12 DEF C

\* Wave is the function its definition describes.
LEMMA WaveIs ==
  ASSUME NEW n, NEW s
  PROVE  /\ Wave(n, s) \in [Nat -> SUBSET Lacking(s)]
         /\ Wave(n, s)[0] = {n} \cap Lacking(s)
         /\ \A k \in Nat : Wave(n, s)[k + 1] = Wider(Wave(n, s)[k], s)
<1> DEFINE S == SUBSET Lacking(s)
           b == {n} \cap Lacking(s)
           g == [hit \in S |-> Wider(hit, s)]
           W == Wave(n, s)
<1>1. g \in [S -> S] /\ b \in S
  BY DEF Wider
<1>2. PICK f \in [Nat -> S] : Iterates(f, b, g)
  <2> HIDE DEF S, g, b
  <2> QED
    BY <1>1, Iterated, Zenon
<1>3. f = [k \in Nat |-> IF k = 0 THEN {n} \cap Lacking(s) ELSE Wider(f[k - 1], s)]
  <2>1. \A k \in Nat : k # 0 => k - 1 \in Nat
    OBVIOUS
  <2>2. \A k \in Nat : k # 0 => g[f[k - 1]] = Wider(f[k - 1], s)
    BY <1>2, <2>1
  <2> QED
    BY <1>2, <2>2 DEF Iterates
<1>4. Wave(n, s) = [k \in Nat |-> IF k = 0 THEN {n} \cap Lacking(s) ELSE Wider(Wave(n, s)[k - 1], s)]
  BY <1>3, Zenon DEF Wave
<1>5. W = [k \in Nat |-> IF k = 0 THEN b ELSE Wider(W[k - 1], s)]
  BY <1>4
<1>6. \A k \in Nat : k + 1 \in Nat /\ k + 1 # 0 /\ (k + 1) - 1 = k
  OBVIOUS
<1> HIDE DEF W, b
<1>7. W[0] = b /\ \A k \in Nat : W[k + 1] = Wider(W[k], s)
  BY <1>5, <1>6
<1>8. \A k \in Nat : W[k] \in S
  <2> DEFINE T == {k \in Nat : W[k] \in S}
  <2>1. 0 \in T
    BY <1>1, <1>7
  <2>2. ASSUME NEW k \in Nat, k \in T PROVE k + 1 \in T
    BY <1>7, <2>2 DEF Wider
  <2>3. Nat \subseteq T
    <3> HIDE DEF T
    <3> QED
      BY <2>1, <2>2, AllNumbers
  <2> QED
    BY <2>3
<1>9. W = [k \in Nat |-> W[k]]
  BY <1>5
<1> QED
  BY <1>7, <1>8, <1>9 DEF W, b

\* widen_scope stops only when all below that lacks the scope has it, and it has come to no node
\* by more steps than it has come to nodes.
LEMMA WidenedIs ==
  ASSUME NEW n, NEW s, IsFiniteSet(Lacking(s))
  PROVE  /\ Widened(n, s) \subseteq Lacking(s)
         /\ n \in Lacking(s) <=> n \in Widened(n, s)
         /\ \A m \in Widened(n, s) : Children(m) \cap Lacking(s) \subseteq Widened(n, s)
         /\ Widened(n, s) # {} =>
              /\ n \in Lacking(s) /\ Cardinality(Widened(n, s)) \in Nat \ {0}
              /\ Widened(n, s) = Wave(n, s)[Cardinality(Widened(n, s)) - 1]
<1> DEFINE L == Lacking(s)
           g == [hit \in SUBSET L |-> Wider(hit, s)]
           W == Wave(n, s)
<1>1. Cardinality(L) \in Nat
  BY FS_CardinalityType
<1>2. g \in [SUBSET L -> SUBSET L]
  BY DEF Wider
<1>3. /\ W \in [Nat -> SUBSET L] /\ W[0] = {n} \cap L
      /\ \A k \in Nat : W[k + 1] = Wider(W[k], s)
  BY WaveIs
<1>4. \A k \in Nat : W[k] \subseteq W[k + 1] /\ W[k + 1] = g[W[k]]
  BY <1>3 DEF Wider
<1>5. Widened(n, s) = W[Cardinality(L)]
  BY DEF Widened
<1>6. CASE n \in L
  <2>1. W[0] # {} /\ n \in W[0]
    BY <1>3, <1>6
  <2>2. n \in W[Cardinality(L)]
    <3> DEFINE T == {k \in Nat : n \in W[k]}
    <3> HIDE DEF W, L, g
    <3>1. 0 \in T
      BY <2>1
    <3>2. ASSUME NEW k \in Nat, k \in T PROVE k + 1 \in T
      BY <1>4, <3>2
    <3>3. Nat \subseteq T
      <4> HIDE DEF T
      <4> QED
        BY <3>1, <3>2, AllNumbers
    <3> QED
      BY <1>1, <3>3
  <2> HIDE DEF L, g, W
  <2>3. /\ g[W[Cardinality(L)]] = W[Cardinality(L)]
        /\ Cardinality(W[Cardinality(L)]) \in Nat \ {0}
        /\ W[Cardinality(L)] = W[Cardinality(W[Cardinality(L)]) - 1]
    <3>1. IsFiniteSet(L)
      BY DEF L
    <3> QED
      BY <1>2, <1>3, <1>4, <2>1, <3>1, Grown
  <2>4. W[Cardinality(L)] \in SUBSET L
    BY <1>1, <1>3
  <2>5. Wider(W[Cardinality(L)], s) = W[Cardinality(L)]
    BY <2>3, <2>4 DEF g
  <2>6. \A m \in W[Cardinality(L)] : Children(m) \cap L \subseteq W[Cardinality(L)]
    BY <2>5 DEF Wider, L
  <2> QED
    BY <1>5, <1>6, <2>2, <2>3, <2>4, <2>6 DEF L, W
<1>7. CASE n \notin L
  <2>1. W[Cardinality(L)] = {}
    <3> DEFINE T == {k \in Nat : W[k] = {}}
    <3> HIDE DEF W
    <3>1. 0 \in T
      BY <1>3, <1>7
    <3>2. ASSUME NEW k \in Nat, k \in T PROVE k + 1 \in T
      BY <1>3, <3>2 DEF Wider
    <3>3. Nat \subseteq T
      <4> HIDE DEF T
      <4> QED
        BY <3>1, <3>2, AllNumbers
    <3> QED
      BY <1>1, <3>3
  <2> QED
    BY <1>5, <1>7, <2>1
<1> QED
  BY <1>6, <1>7

------------------------------------------------------------------------------
(* The walk against the recipes                                             *)

\* The project a walk is of: a trial moves one requirement.
Moved(p) == [deps |-> Pinned(project.deps, p), dev |-> Pinned(project.dev, p)]
Asked(reqs) == {reqs[i] : i \in DOMAIN reqs}
NeedsOf(n) == Asked(graph[n].needs)
Waits == Asked(queue)
AsEdge(q) == [c |-> Coord(q.req), by |-> q.by, scope |-> q.scope, os |-> q.os]
Holding(s) == {n \in InGraph : s \in graph[n].scope}
Reached(r, s) == Met(r) /\ s \in graph[r.name].scope
Due(r, s) == Reached(r, s) \/ Waiting(r)

\* The nodes are numbered as they are made.
PlaceInv == /\ Asked(order) = InGraph
            /\ \A i, j \in DOMAIN order : order[i] = order[j] => i = j

\* What waits is an edge, and what was made of one is a node: no further off than there are
\* nodes on the way.
RealInv ==
  LET R == Reach(served, Moved(pin))
  IN /\ \A q \in Waits : AsEdge(q) \in R[Cardinality(Holding(q.scope))]
     /\ \A n \in InGraph :
          /\ \E e \in R[Cardinality(Names)] : e.c = NodeCoord(n) /\ e.by = graph[n].by
          /\ \A o \in graph[n].os : \E e \in R[Cardinality(Names)] : e.c = NodeCoord(n) /\ o \in e.os
          /\ served[NodeCoord(n)] # None /\ served[NodeCoord(n)].builds
          /\ graph[n].needs = served[NodeCoord(n)].needs
          /\ graph[n].scope # {}

\* Unless the walk is going to end in a conflict, so is each scope of a node.
Agreed == \A n \in InGraph : \A r \in NeedsOf(n) : r.name \in InGraph => Met(r)
ScopesReal ==
  Agreed => \A n \in InGraph : \A s \in graph[n].scope :
              \E e \in Reach(served, Moved(pin))[Cardinality(Holding(s)) - 1] :
                 e.c = NodeCoord(n) /\ e.scope = s

\* And what a node or a table needs has each of its scopes, or waits to get it.
ScopeInv ==
  step = "walk" =>
    /\ \A q \in Waits : q.scope = IF table = "deps" THEN "runtime" ELSE "dev"
    /\ table = "deps" => Holding("dev") = {}
    /\ table = "dev" =>
         /\ \A r \in Asked(Moved(pin).deps) : Reached(r, "runtime")
         /\ \A n \in Holding("runtime") : \A r \in NeedsOf(n) : Reached(r, "runtime")
         /\ \A r \in Asked(Moved(pin).dev) : Due(r, "dev")
         /\ \A n \in Holding("dev") : \A r \in NeedsOf(n) : Due(r, "dev")

Closed ==
  /\ \A r \in Asked(Moved(pin).deps) : Reached(r, "runtime")
  /\ \A r \in Asked(Moved(pin).dev) : Reached(r, "dev")
  /\ \A s \in Scopes : \A n \in Holding(s) : \A r \in NeedsOf(n) : Reached(r, s)

GraphInv == PlaceInv /\ RealInv /\ ScopesReal /\ ScopeInv /\ (Settled => Closed)

\* What was taken for a conflict stays one, and what is proposed is newer and was tried.
ConflictInv ==
  conflict # None =>
    /\ conflict.src # conflict.other
    /\ \E e \in Edges(project) : e.c = <<conflict.name, conflict.src>> /\ e.by = conflict.by
    /\ \E e \in Edges(project) : e.c = <<conflict.name, conflict.other>> /\ e.by = conflict.otherBy
TrialInv ==
  /\ candidates # {} => candidates \subseteq Releases(RootDep(Claimants[pivot]))
  /\ pin # None => pin.src \in Releases(RootDep(Claimants[pivot]))
ProposalInv == proposal # None => step = "done" /\ ProposalHolds

DeepInv == GraphInv /\ ConflictInv /\ TrialInv /\ ProposalInv

------------------------------------------------------------------------------
(* What the names of the invariant stand for                                *)

\* The elements of a sequence are of its type.
LEMMA AskedType ==
  ASSUME NEW S, NEW reqs \in Seq(S)
  PROVE  Asked(reqs) \subseteq S
BY ElementOfSeq, LenProperties DEF Asked

\* The project a walk is of is a project.
LEMMA MovedType ==
  ASSUME TypeOK
  PROVE  /\ ProjectType(Moved(pin)) /\ ProjectType(project)
         /\ Moved(None) = project
         /\ Moved(pin).deps = Pinned(project.deps, pin) /\ Moved(pin).dev = Pinned(project.dev, pin)
<1>1. project \in [deps : Seq(Requirement), dev : Seq(Requirement)]
  BY ProjectsAssumption DEF TypeOK
<1>2. /\ Pinned(project.deps, pin) \in Seq(Requirement) /\ Pinned(project.dev, pin) \in Seq(Requirement)
      /\ Pinned(project.deps, None) = project.deps /\ Pinned(project.dev, None) = project.dev
  BY <1>1, PinnedType, NotPinned DEF TypeOK
<1> QED
  BY <1>1, <1>2 DEF Moved, ProjectType

\* The recipes that are known are recipes.
LEMMA KnownType ==
  ASSUME TypeOK
  PROVE  Answered(served)
BY DEF TypeOK, Answered

\* What a node holds.
LEMMA NodeType ==
  ASSUME TypeOK, NEW n \in InGraph
  PROVE  /\ n \in Names /\ graph[n] \in GraphNode /\ NodeCoord(n) \in Coords
         /\ NeedsOf(n) \subseteq Requirement /\ graph[n].scope \subseteq Scopes
         /\ graph[n].os \subseteq OSes
<1>1. n \in Names /\ graph[n] \in GraphNode
  BY DEF InGraph, TypeOK
<1>2. graph[n].needs \in Seq(Requirement)
  BY <1>1 DEF GraphNode
<1> QED
  BY <1>1, <1>2, AskedType DEF GraphNode, NodeCoord, Coords, NeedsOf

\* What waits in the queue.
LEMMA WaitsType ==
  ASSUME TypeOK
  PROVE  Waits \subseteq Entry /\ \A r : Waiting(r) <=> \E q \in Waits : Coord(q.req) = Coord(r)
<1>1. Waits \subseteq Entry
  BY AskedType DEF TypeOK, Waits
<1> QED
  BY <1>1 DEF Waits, Asked, Waiting

\* Reach goes as far as there are names.
LEMMA Counts ==
  ASSUME TypeOK
  PROVE  /\ IsFiniteSet(InGraph) /\ \A s : IsFiniteSet(Holding(s)) /\ IsFiniteSet(Lacking(s))
         /\ Cardinality(Names) \in Nat
         /\ \A s : Cardinality(Holding(s)) \in Nat /\ Cardinality(Holding(s)) <= Cardinality(Names)
         /\ Cardinality(Names) * (1 + Cardinality(OSes)) \in Nat
         /\ Cardinality(Names) <= Cardinality(Names) * (1 + Cardinality(OSes))
<1>1. IsFiniteSet(Names) /\ IsFiniteSet(OSes)
  BY FiniteAssumption
<1>2. Cardinality(Names) \in Nat /\ Cardinality(OSes) \in Nat
  BY <1>1, FS_CardinalityType
<1>3. InGraph \in SUBSET Names /\ \A s : Holding(s) \in SUBSET Names /\ Lacking(s) \in SUBSET Names
  BY DEF InGraph, Holding, Lacking
<1>4. IsFiniteSet(InGraph) /\ \A s : IsFiniteSet(Holding(s)) /\ IsFiniteSet(Lacking(s))
  BY <1>1, <1>3, FS_Subset
<1>5. \A s : Cardinality(Holding(s)) \in Nat /\ Cardinality(Holding(s)) <= Cardinality(Names)
  BY <1>1, <1>3, <1>4, FS_Subset, FS_CardinalityType
<1>6. \A a, b \in Nat : a * (1 + b) \in Nat /\ a <= a * (1 + b)
  <2> SUFFICES ASSUME NEW a \in Nat, NEW b \in Nat PROVE a * (1 + b) \in Nat /\ a <= a * (1 + b)
    OBVIOUS
  <2>1. a * (1 + b) = a + a * b /\ a * b \in Nat
    OBVIOUS
  <2> QED
    BY <2>1
<1> QED
  BY <1>2, <1>4, <1>5, <1>6

------------------------------------------------------------------------------
(* What the steps of the walk do                                            *)

\* Visiting a name the graph has: the entry is gone, and what hangs from it is wider.
LEMMA VisitSeenIs ==
  ASSUME TypeOK, VisitSeen, NEW e, e = Head(queue), NEW W, W = Widened(e.req.name, e.scope)
  PROVE  /\ step = "walk" /\ e \in Waits /\ e \in Entry
         /\ e.req.name \in InGraph /\ graph[e.req.name].src = e.req.src
         /\ Waits' \subseteq Waits /\ Waits \subseteq {e} \cup Waits'
         /\ InGraph' = InGraph
         /\ \A m \in InGraph :
              /\ graph'[m].src = graph[m].src /\ graph'[m].by = graph[m].by
              /\ graph'[m].needs = graph[m].needs
              /\ graph'[m].scope = IF m \in W THEN graph[m].scope \cup {e.scope} ELSE graph[m].scope
              /\ graph'[m].os = IF m = e.req.name THEN graph[m].os \cup e.os ELSE graph[m].os
         /\ UNCHANGED <<project, served, step, outcome, pin, table, order, conflict, pivot,
                        candidates, proposal>>
<1>1. /\ step = "walk" /\ queue # <<>> /\ Agrees(e.req) /\ graph[e.req.name] # None
      /\ queue' = Tail(queue)
      /\ UNCHANGED <<project, served, step, outcome, pin, table, order, conflict, pivot,
                     candidates, proposal>>
  BY DEF VisitSeen, AtSeen, searchVars
<1>2. /\ e \in Entry /\ Len(queue) \in Nat \ {0} /\ DOMAIN queue = 1 .. Len(queue)
      /\ DOMAIN Tail(queue) = 1 .. Len(queue) - 1 /\ e = queue[1]
      /\ \A i \in 1 .. Len(queue) - 1 : Tail(queue)[i] = queue[i + 1]
  BY <1>1, HeadOfQueue
<1>3. e \in Waits /\ Waits' \subseteq Waits /\ Waits \subseteq {e} \cup Waits'
  <2>1. e \in Waits
    BY <1>2 DEF Waits, Asked
  <2>2. ASSUME NEW q \in Waits' PROVE q \in Waits
    <3>1. PICK i \in 1 .. Len(queue) - 1 : q = queue[i + 1]
      BY <1>1, <1>2 DEF Waits, Asked
    <3>2. i + 1 \in DOMAIN queue
      BY <1>2
    <3> QED
      BY <3>1, <3>2 DEF Waits, Asked
  <2>3. ASSUME NEW q \in Waits, q # e PROVE q \in Waits'
    <3>1. PICK i \in DOMAIN queue : q = queue[i]
      BY DEF Waits, Asked
    <3>2. i # 1
      BY <1>2, <2>3, <3>1
    <3>3. i - 1 \in 1 .. Len(queue) - 1 /\ Tail(queue)[i - 1] = queue[i]
      BY <1>2, <3>2
    <3> QED
      BY <1>1, <1>2, <3>1, <3>3 DEF Waits, Asked
  <2> QED
    BY <2>1, <2>2, <2>3
<1>4. e.req.name \in Names /\ e.scope \in Scopes /\ e.os \in SUBSET OSes
  BY <1>2 DEF Entry, Requirement
<1>5. graph' = [m \in Names |->
             IF graph[m] = None THEN None
             ELSE [graph[m] EXCEPT !.scope = IF m \in W THEN @ \cup {e.scope} ELSE @,
                                   !.os = IF m = e.req.name THEN @ \cup e.os ELSE @]]
  BY Zenon DEF VisitSeen
<1>6. \A m \in Names : graph[m] = None => graph'[m] = None
  BY <1>5
<1>7. \A m \in InGraph :
        /\ graph'[m] # None
        /\ graph'[m].src = graph[m].src /\ graph'[m].by = graph[m].by
        /\ graph'[m].needs = graph[m].needs
        /\ graph'[m].scope = IF m \in W THEN graph[m].scope \cup {e.scope} ELSE graph[m].scope
        /\ graph'[m].os = IF m = e.req.name THEN graph[m].os \cup e.os ELSE graph[m].os
  <2> SUFFICES ASSUME NEW m \in InGraph
               PROVE  /\ graph'[m] # None
                      /\ graph'[m].src = graph[m].src /\ graph'[m].by = graph[m].by
                      /\ graph'[m].needs = graph[m].needs
                      /\ graph'[m].scope = IF m \in W THEN graph[m].scope \cup {e.scope} ELSE graph[m].scope
                      /\ graph'[m].os = IF m = e.req.name THEN graph[m].os \cup e.os ELSE graph[m].os
    OBVIOUS
  <2>1. m \in Names /\ graph[m] \in GraphNode /\ graph[m] # None
    BY DEF TypeOK, InGraph
  <2> DEFINE scope == IF m \in W THEN graph[m].scope \cup {e.scope} ELSE graph[m].scope
             os == IF m = e.req.name THEN graph[m].os \cup e.os ELSE graph[m].os
  <2>2. graph'[m] = [graph[m] EXCEPT !.scope = scope, !.os = os]
    BY <1>5, <2>1
  <2>3. scope \in SUBSET Scopes /\ os \in SUBSET OSes
    BY <1>4, <2>1 DEF GraphNode
  <2> HIDE DEF scope, os
  <2>4. graph'[m] = [src |-> graph[m].src, by |-> graph[m].by, scope |-> scope, os |-> os,
                     needs |-> graph[m].needs]
    BY <2>1, <2>2 DEF GraphNode
  <2>5. graph'[m] \in GraphNode
    BY <2>1, <2>3, <2>4 DEF GraphNode
  <2>6. /\ graph'[m].src = graph[m].src /\ graph'[m].by = graph[m].by
        /\ graph'[m].needs = graph[m].needs /\ graph'[m].scope = scope /\ graph'[m].os = os
    BY <2>4
  <2>7. graph'[m] # None
    BY <2>5, NamesAssumption
  <2> QED
    BY <2>6, <2>7 DEF scope, os
<1>8. InGraph' = InGraph
  BY <1>6, <1>7 DEF InGraph
<1>9. e.req.name \in InGraph /\ graph[e.req.name].src = e.req.src
  BY <1>1, <1>4 DEF InGraph, Agrees
<1> QED
  BY <1>1, <1>2, <1>3, <1>7, <1>8, <1>9

\* An answer adds to what is known and takes nothing back.
LEMMA AnswersLearns ==
  ASSUME TypeOK, NEW c \in Coords, NEW recipe \in Recipes[c], Answers(c, recipe)
  PROVE  /\ Answered(served) /\ Answered(served') /\ Learns(served, served')
         /\ served'[c] = recipe /\ recipe # None
<1>1. recipe # None /\ recipe \in Recipes[c]
  BY RecipesAssumption
<1>2. DOMAIN served = Coords /\ served' = [served EXCEPT ![c] = recipe]
  BY DEF Answers, TypeOK
<1>3. served[c] = None \/ served[c] = recipe
  BY DEF Answers
<1> QED
  BY <1>1, <1>2, <1>3 DEF TypeOK, Answered, Learns

\* Visiting a new name: a node more, and an entry for each of its needs.
LEMMA VisitNewIs ==
  ASSUME TypeOK, VisitNew, NEW e, e = Head(queue)
  PROVE  /\ step = "walk" /\ e \in Waits /\ e \in Entry
         /\ e.req.name \in Names /\ e.req.name \notin InGraph
         /\ InGraph' = InGraph \cup {e.req.name}
         /\ \A m \in InGraph : graph'[m] = graph[m]
         /\ graph'[e.req.name].src = e.req.src /\ graph'[e.req.name].by = e.by
         /\ graph'[e.req.name].scope = {e.scope} /\ graph'[e.req.name].os = e.os
         /\ order' = Append(order, e.req.name)
         /\ Answered(served) /\ Answered(served') /\ Learns(served, served')
         /\ served'[Coord(e.req)] # None /\ served'[Coord(e.req)].builds
         /\ served'[Coord(e.req)].needs = graph'[e.req.name].needs
         /\ Waits \subseteq {e} \cup Waits'
         /\ Waits' \subseteq Waits \cup
              {[req |-> r, by |-> e.req.name, scope |-> e.scope, os |-> r.os \cap e.os]
                 : r \in Asked(graph'[e.req.name].needs)}
         /\ {[req |-> r, by |-> e.req.name, scope |-> e.scope, os |-> r.os \cap e.os]
               : r \in Asked(graph'[e.req.name].needs)} \subseteq Waits'
         /\ UNCHANGED <<project, step, outcome, pin, table, conflict, pivot, candidates, proposal>>
<1>1. /\ step = "walk" /\ queue # <<>> /\ graph[e.req.name] = None
      /\ order' = Append(order, e.req.name)
      /\ UNCHANGED <<project, step, outcome, pin, table, conflict, pivot, candidates, proposal>>
  BY DEF VisitNew, AtNew, searchVars
<1>2. PICK recipe \in Recipes[Coord(e.req)] :
        /\ recipe.builds /\ Answers(Coord(e.req), recipe)
        /\ graph' = [graph EXCEPT ![e.req.name] = NewNode(e, recipe.needs)]
        /\ queue' = Tail(queue) \o Entries(recipe.needs, e.req.name, e.scope, e.os)
  BY DEF VisitNew
<1>3. /\ e \in Entry /\ Tail(queue) \in Seq(Entry)
      /\ Len(queue) \in Nat \ {0} /\ DOMAIN queue = 1 .. Len(queue)
      /\ Len(Tail(queue)) = Len(queue) - 1 /\ e = queue[1]
      /\ \A i \in 1 .. Len(queue) - 1 : Tail(queue)[i] = queue[i + 1]
  BY <1>1, HeadOfQueue
<1>4. /\ e.req \in Requirement /\ e.req.name \in Names /\ e.req.src \in Sources
      /\ e.by \in Names \cup {None} /\ e.scope \in Scopes /\ e.os \in SUBSET OSes
      /\ Coord(e.req) \in Coords
  BY <1>3 DEF Entry, Requirement, Coord, Coords
<1>5. recipe.needs \in Seq(Requirement)
  BY <1>2, <1>4, RecipesAssumption DEF Recipe
<1> DEFINE needs == recipe.needs
           node == NewNode(e, needs)
           added == Entries(needs, e.req.name, e.scope, e.os)
           rest == Tail(queue)
<1>6. /\ added \in Seq(Entry) /\ Len(added) = Len(needs) /\ Len(needs) \in Nat
      /\ DOMAIN needs = 1 .. Len(needs)
      /\ \A i \in DOMAIN needs : added[i] = [req |-> needs[i], by |-> e.req.name, scope |-> e.scope,
                                             os |-> needs[i].os \cap e.os]
  <2>1. /\ added \in Seq(Entry) /\ Len(added) = Len(needs)
    BY <1>4, <1>5, EntriesType
  <2>2. \A i \in DOMAIN needs : added[i] = [req |-> needs[i], by |-> e.req.name, scope |-> e.scope,
                                            os |-> needs[i].os \cap e.os]
    BY DEF Entries
  <2> QED
    BY <1>5, <2>1, <2>2, LenProperties
<1>7. /\ node \in GraphNode /\ node # None /\ node.src = e.req.src /\ node.by = e.by
      /\ node.scope = {e.scope} /\ node.os = e.os /\ node.needs = needs
  BY <1>4, <1>5, NamesAssumption DEF NewNode, GraphNode
<1>8. rest \in Seq(Entry) /\ Len(rest) = Len(queue) - 1 /\ queue' = rest \o added
      /\ graph' = [graph EXCEPT ![e.req.name] = node]
      /\ \A i \in 1 .. Len(queue) - 1 : rest[i] = queue[i + 1]
  BY <1>2, <1>3
<1>9. served'[Coord(e.req)] = recipe /\ recipe # None /\ recipe.builds /\ recipe.needs = needs
      /\ Answered(served) /\ Answered(served') /\ Learns(served, served')
  BY <1>2, <1>4, AnswersLearns
<1> HIDE DEF node, added, needs, rest
<1>10. /\ Len(queue') = Len(rest) + Len(added) /\ queue' \in Seq(Entry)
       /\ \A i \in 1 .. Len(rest) + Len(added) :
            queue'[i] = IF i <= Len(rest) THEN rest[i] ELSE added[i - Len(rest)]
  <2>1. added \in Seq(Entry) /\ rest \in Seq(Entry)
    BY <1>6, <1>8
  <2>2. /\ rest \o added \in Seq(Entry)
        /\ Len(rest \o added) = Len(rest) + Len(added)
        /\ \A i \in 1 .. Len(rest) + Len(added) :
             (rest \o added)[i] = IF i <= Len(rest) THEN rest[i] ELSE added[i - Len(rest)]
    BY <2>1, ConcatProperties, Zenon
  <2> QED
    BY <1>8, <2>2
<1>11. DOMAIN queue' = 1 .. Len(queue) - 1 + Len(needs)
  BY <1>6, <1>8, <1>10, LenProperties
<1>12. InGraph' = InGraph \cup {e.req.name} /\ (\A m \in InGraph : graph'[m] = graph[m])
       /\ graph'[e.req.name] = node /\ e.req.name \notin InGraph
  BY <1>1, <1>4, <1>7, <1>8 DEF InGraph, TypeOK
<1>13. e \in Waits /\ Waits \subseteq {e} \cup Waits'
  <2>1. e \in Waits
    BY <1>3 DEF Waits, Asked
  <2>2. ASSUME NEW q \in Waits, q # e PROVE q \in Waits'
    <3>1. PICK i \in DOMAIN queue : q = queue[i]
      BY DEF Waits, Asked
    <3>2. i # 1
      BY <1>3, <2>2, <3>1
    <3>3. i - 1 \in 1 .. Len(queue) - 1 /\ rest[i - 1] = queue[i]
      BY <1>3, <1>8, <3>2
    <3>4. i - 1 \in DOMAIN queue' /\ queue'[i - 1] = q
      BY <1>3, <1>6, <1>8, <1>10, <1>11, <3>1, <3>3
    <3> QED
      BY <3>4 DEF Waits, Asked
  <2> QED
    BY <2>1, <2>2
<1>14. ASSUME NEW q \in Waits'
       PROVE  q \in Waits \/ \E j \in DOMAIN needs : q = added[j]
  <2>1. PICK i \in DOMAIN queue' : q = queue'[i]
    BY DEF Waits, Asked
  <2>2. CASE i <= Len(rest)
    <3>1. i \in 1 .. Len(queue) - 1 /\ i + 1 \in DOMAIN queue /\ q = queue[i + 1]
      BY <1>3, <1>6, <1>8, <1>10, <1>11, <2>1, <2>2
    <3> QED
      BY <3>1 DEF Waits, Asked
  <2>3. CASE ~(i <= Len(rest))
    <3>1. i - Len(rest) \in DOMAIN needs /\ q = added[i - Len(rest)]
      BY <1>3, <1>6, <1>8, <1>10, <1>11, <2>1, <2>3
    <3> QED
      BY <3>1
  <2> QED
    BY <2>2, <2>3
<1>15. ASSUME NEW j \in DOMAIN needs PROVE added[j] \in Waits'
  <2>1. /\ Len(rest) + j \in 1 .. Len(rest) + Len(added) /\ ~(Len(rest) + j <= Len(rest))
        /\ (Len(rest) + j) - Len(rest) = j
        /\ Len(rest) + j \in DOMAIN queue'
    BY <1>3, <1>6, <1>8, <1>11
  <2>2. queue'[Len(rest) + j] = added[j]
    BY <1>10, <2>1
  <2> QED
    BY <2>1, <2>2 DEF Waits, Asked
<1>16. Waits' \subseteq Waits \cup
         {[req |-> r, by |-> e.req.name, scope |-> e.scope, os |-> r.os \cap e.os] : r \in Asked(needs)}
  <2> SUFFICES ASSUME NEW q \in Waits', q \notin Waits
               PROVE  q \in {[req |-> r, by |-> e.req.name, scope |-> e.scope, os |-> r.os \cap e.os]
                              : r \in Asked(needs)}
    OBVIOUS
  <2>1. PICK j \in DOMAIN needs : q = added[j]
    BY <1>14
  <2>2. needs[j] \in Asked(needs)
    BY DEF Asked
  <2> QED
    BY <1>6, <2>1, <2>2
<1>17. {[req |-> r, by |-> e.req.name, scope |-> e.scope, os |-> r.os \cap e.os] : r \in Asked(needs)}
         \subseteq Waits'
  BY <1>6, <1>15 DEF Asked
<1> QED
  BY <1>1, <1>3, <1>4, <1>7, <1>9, <1>12, <1>13, <1>16, <1>17

\* An entry for each requirement of a table.
LEMMA RootEntries ==
  ASSUME NEW reqs \in Seq(Requirement), NEW s \in Scopes, NEW q \in Asked(Entries(reqs, None, s, OSes))
  PROVE  q.scope = s /\ AsEdge(q) \in RootEdges(reqs, s)
<1>1. PICK i \in DOMAIN reqs : q = [req |-> reqs[i], by |-> None, scope |-> s, os |-> reqs[i].os \cap OSes]
  BY DEF Asked, Entries
<1>2. reqs[i] \in Requirement
  BY ElementOfSeq, LenProperties
<1>3. reqs[i].os \cap OSes = reqs[i].os
  BY <1>2 DEF Requirement
<1> QED
  BY <1>1, <1>3 DEF AsEdge, RootEdges

\* And no requirement is left out.
LEMMA RootsAsked ==
  ASSUME NEW reqs \in Seq(Requirement), NEW s \in Scopes, NEW r \in Asked(reqs)
  PROVE  \E q \in Asked(Entries(reqs, None, s, OSes)) : Coord(q.req) = Coord(r)
<1>1. PICK i \in DOMAIN reqs : r = reqs[i]
  BY DEF Asked
<1>2. /\ DOMAIN Entries(reqs, None, s, OSes) = DOMAIN reqs
      /\ Entries(reqs, None, s, OSes)[i].req = reqs[i]
  BY DEF Entries
<1>3. Entries(reqs, None, s, OSes)[i] \in Asked(Entries(reqs, None, s, OSes))
  BY <1>2 DEF Asked
<1> QED
  BY <1>1, <1>2, <1>3

------------------------------------------------------------------------------
(* The graph stays true                                                     *)

\* The project a walk is of stays while its trial does.
LEMMA SameWalk ==
  ASSUME project' = project, pin' = pin
  PROVE  Moved(pin)' = Moved(pin)
BY DEF Moved, Pinned, FromRegistry

\* A graph that is freed says nothing.
LEMMA EmptyGraph ==
  ASSUME graph' = NoGraph, order' = <<>>, queue' = <<>>, step' \in {"search", "done"},
         outcome' # "ok"
  PROVE  GraphInv'
<1>1. InGraph' = {} /\ Waits' = {} /\ Asked(order)' = {}
  BY EmptySeq DEF InGraph, NoGraph, Waits, Asked
<1>2. PlaceInv'
  BY <1>1, EmptySeq DEF PlaceInv
<1>3. RealInv' /\ ScopesReal'
  BY <1>1 DEF RealInv, ScopesReal
<1>4. ScopeInv' /\ ~Settled'
  BY DEF ScopeInv, Settled
<1> QED
  BY <1>2, <1>3, <1>4 DEF GraphInv

\* A walk that begins holds the first table in its queue.
LEMMA BeginGraph ==
  ASSUME TypeOK, TypeOK', NEW p, p = None \/ p \in Pin, BeginWalk(p),
         project' = project, served' = served, outcome' # "ok"
  PROVE  GraphInv'
<1>1. /\ step' = "walk" /\ pin' = p /\ table' = "deps" /\ graph' = NoGraph /\ order' = <<>>
      /\ queue' = Entries(Pinned(project.deps, p), None, "runtime", OSes)
  BY DEF BeginWalk
<1>2. InGraph' = {} /\ Asked(order)' = {}
  BY <1>1, EmptySeq DEF InGraph, NoGraph, Asked
<1>3. PlaceInv'
  BY <1>1, <1>2, EmptySeq DEF PlaceInv
<1>4. project.deps \in Seq(Requirement) /\ project.dev \in Seq(Requirement)
  BY ProjectsAssumption DEF TypeOK
<1>5. /\ Moved(pin)' = [deps |-> Pinned(project.deps, p), dev |-> Pinned(project.dev, p)]
      /\ Pinned(project.deps, p) \in Seq(Requirement) /\ Pinned(project.dev, p) \in Seq(Requirement)
  BY <1>1, <1>4, PinnedType DEF Moved
<1>6. /\ Answered(served) /\ ProjectType(Moved(pin)')
      /\ Roots(Moved(pin)') = RootEdges(Pinned(project.deps, p), "runtime")
                               \cup RootEdges(Pinned(project.dev, p), "dev")
  BY <1>5, KnownType DEF ProjectType, Roots
<1>7. Reach(served, Moved(pin)')[0] = Roots(Moved(pin)')
  BY <1>6, ReachIs
<1>8. ASSUME NEW q \in Waits'
      PROVE  q.scope = "runtime" /\ AsEdge(q) \in Reach(served, Moved(pin)')[0]
  <2>1. q \in Asked(Entries(Pinned(project.deps, p), None, "runtime", OSes)) /\ "runtime" \in Scopes
    BY <1>1 DEF Waits, Asked, Scopes
  <2> QED
    BY <1>5, <1>6, <1>7, <2>1, RootEntries
<1>9. \A s : Holding(s)' = {}
  BY <1>2 DEF Holding
<1>10. Cardinality({}) = 0
  BY FS_EmptySet
<1>11. RealInv'
  BY <1>2, <1>8, <1>9, <1>10 DEF RealInv, AsEdge
<1>12. ScopesReal' /\ ScopeInv' /\ ~Settled'
  BY <1>1, <1>2, <1>8, <1>9 DEF ScopesReal, ScopeInv, Settled
<1> QED
  BY <1>3, <1>11, <1>12 DEF GraphInv

\* Nothing but the walk touches the graph.
LEMMA SameGraph ==
  ASSUME GraphInv,
         UNCHANGED <<project, served, pin, queue, table, graph, order>>,
         step' = "walk" => step = "walk",
         Settled' => Settled \/ Closed
  PROVE  GraphInv'
<1>1. Moved(pin)' = Moved(pin)
  BY SameWalk
<1>2. /\ InGraph' = InGraph /\ Waits' = Waits /\ \A s : Holding(s)' = Holding(s)
  BY DEF InGraph, Waits, Asked, Holding
<1>3. \A n : NeedsOf(n)' = NeedsOf(n) /\ NodeCoord(n)' = NodeCoord(n)
  BY DEF NeedsOf, Asked, NodeCoord
<1>4. \A r, s : Met(r)' = Met(r) /\ Reached(r, s)' = Reached(r, s) /\ Due(r, s)' = Due(r, s)
  BY DEF Met, Reached, Due, Waiting
<1>5. PlaceInv'
  BY <1>2 DEF GraphInv, PlaceInv, Asked
<1>6. RealInv'
  BY <1>1, <1>2, <1>3 DEF GraphInv, RealInv, AsEdge
<1>7. ScopesReal'
  BY <1>1, <1>2, <1>3, <1>4 DEF GraphInv, ScopesReal, Agreed
<1>8. ScopeInv'
  BY <1>1, <1>2, <1>3, <1>4 DEF GraphInv, ScopeInv, Asked
<1>9. Closed' = Closed
  BY <1>1, <1>2, <1>3, <1>4 DEF Closed, Asked
<1> QED
  BY <1>5, <1>6, <1>7, <1>8, <1>9 DEF GraphInv

\* The second table is queued with nothing left of the first.
LEMMA WalkDevGraph ==
  ASSUME IInv, GraphInv, WalkDev
  PROVE  GraphInv'
<1>1. /\ step = "walk" /\ queue = <<>> /\ table = "deps" /\ table' = "dev"
      /\ queue' = Entries(Pinned(project.dev, pin), None, "dev", OSes)
      /\ UNCHANGED <<project, served, step, outcome, pin, graph, order>>
  BY DEF WalkDev
<1> DEFINE P == Moved(pin)
           R == Reach(served, P)
<1>2. P' = P
  BY <1>1, SameWalk
<1>3. TypeOK /\ Answered(served) /\ ProjectType(P) /\ P.deps \in Seq(Requirement)
      /\ P.dev \in Seq(Requirement)
      /\ P.dev = Pinned(project.dev, pin) /\ P.deps = Pinned(project.deps, pin)
  BY KnownType, MovedType DEF IInv, ProjectType
<1>4. /\ InGraph' = InGraph /\ \A s : Holding(s)' = Holding(s)
  BY <1>1 DEF InGraph, Holding
<1>5. \A n : NeedsOf(n)' = NeedsOf(n) /\ NodeCoord(n)' = NodeCoord(n)
  BY <1>1 DEF NeedsOf, Asked, NodeCoord
<1>6. \A r, s : Met(r)' = Met(r) /\ Reached(r, s)' = Reached(r, s)
  BY <1>1 DEF Met, Reached
<1>7. \A r : ~Waiting(r)
  BY <1>1, EmptySeq DEF Waiting
<1>8. \A n \in InGraph : graph[n].scope \subseteq {"runtime"} /\ graph[n].scope # {}
  <2>1. Holding("dev") = {}
    BY <1>1 DEF GraphInv, ScopeInv
  <2>2. \A n \in InGraph : graph[n].scope \subseteq Scopes
    BY <1>3, NodeType
  <2> QED
    BY <2>1, <2>2 DEF GraphInv, RealInv, Holding, Scopes
<1>9. \A r \in Requirement : Met(r) => Reached(r, "runtime")
  <2> SUFFICES ASSUME NEW r \in Requirement, Met(r) PROVE "runtime" \in graph[r.name].scope
    BY DEF Reached
  <2>1. r.name \in InGraph
    BY DEF Met, InGraph, Requirement
  <2> QED
    BY <1>8, <2>1
<1>10. \A r \in Asked(P.deps) : Reached(r, "runtime")
  <2>1. Asked(P.deps) \subseteq Requirement
    BY <1>3, AskedType
  <2>2. \A r \in Asked(P.deps) : Met(r)
    BY <1>1, <1>3, <1>7 DEF IInv, WalkInv, Owed, Asked
  <2> QED
    BY <1>9, <2>1, <2>2
<1>11. \A n \in InGraph : \A r \in NeedsOf(n) : Reached(r, "runtime")
  <2> SUFFICES ASSUME NEW n \in InGraph, NEW r \in NeedsOf(n) PROVE Reached(r, "runtime")
    OBVIOUS
  <2>1. r \in Requirement
    BY <1>3, NodeType
  <2>2. Met(r)
    BY <1>1, <1>7 DEF IInv, WalkInv, Owed, NeedsOf, Asked
  <2> QED
    BY <1>9, <2>1, <2>2
<1>12. ASSUME NEW q \in Waits' PROVE q.scope = "dev" /\ AsEdge(q) \in R[0]
  <2>1. q \in Asked(Entries(P.dev, None, "dev", OSes)) /\ "dev" \in Scopes
    BY <1>1, <1>3 DEF Waits, Asked, Scopes
  <2>2. R[0] = Roots(P) /\ RootEdges(P.dev, "dev") \subseteq Roots(P)
    BY <1>3, ReachIs DEF Roots
  <2> QED
    BY <1>3, <2>1, <2>2, RootEntries
<1>13. \A s : R[0] \subseteq R[Cardinality(Holding(s))]
  BY <1>3, Counts, ReachGrows
<1>14. RealInv'
  <2>1. \A q \in Waits' : AsEdge(q) \in R[Cardinality(Holding(q.scope))]
    BY <1>12, <1>13
  <2> QED
    BY <1>1, <1>2, <1>4, <1>5, <2>1 DEF GraphInv, RealInv, AsEdge
<1>15. ScopesReal'
  BY <1>1, <1>2, <1>4, <1>5, <1>6 DEF GraphInv, ScopesReal, Agreed
<1>16. PlaceInv'
  BY <1>1, <1>4 DEF GraphInv, PlaceInv, Asked
<1>17. \A r \in Asked(P.dev) : Waiting(r)'
  <2> SUFFICES ASSUME NEW r \in Asked(P.dev) PROVE Waiting(r)'
    OBVIOUS
  <2>1. PICK q \in Asked(Entries(P.dev, None, "dev", OSes)) : Coord(q.req) = Coord(r)
    BY <1>3, RootsAsked DEF Scopes
  <2>2. q \in Asked(queue')
    BY <1>1, <1>3, <2>1
  <2> QED
    BY <2>1, <2>2 DEF Waiting, Asked, Coord
<1>18. ScopeInv'
  <2>1. Holding("dev") = {} /\ Holding("runtime") \subseteq InGraph
    BY <1>1 DEF GraphInv, ScopeInv, Holding
  <2> HIDE DEF P
  <2>2. \A r \in Asked(P.deps)' : Reached(r, "runtime")'
    BY <1>2, <1>6, <1>10 DEF Asked
  <2>3. \A n \in Holding("runtime")' : \A r \in NeedsOf(n)' : Reached(r, "runtime")'
    BY <1>4, <1>5, <1>6, <1>11, <2>1
  <2>4. \A r \in Asked(P.dev)' : Due(r, "dev")'
    BY <1>2, <1>17 DEF Asked, Due
  <2> QED
    BY <1>1, <1>4, <1>12, <2>1, <2>2, <2>3, <2>4 DEF ScopeInv, P
<1> QED
  BY <1>1, <1>14, <1>15, <1>16, <1>18 DEF GraphInv, Settled, IInv, StepInv

\* A requirement is met by the node that is what it asked for.
LEMMA MetIs ==
  ASSUME TypeOK, NEW r \in Requirement
  PROVE  /\ Met(r) <=> r.name \in InGraph /\ graph[r.name].src = r.src
         /\ Met(r) => NodeCoord(r.name) = Coord(r)
BY DEF Requirement, Met, InGraph, NodeCoord, Coord

\* An edge below a node is what the node needs.
LEMMA EdgeBelow ==
  ASSUME NEW known, NEW e, known[e.c] # None, NEW r \in Asked(known[e.c].needs)
  PROVE  [c |-> Coord(r), by |-> e.c[1], scope |-> e.scope, os |-> r.os \cap e.os] \in EdgesBelow(known, e)
BY DEF EdgesBelow, Needs, Asked

\* Meeting a package again gives its scope to all that is below it.
LEMMA VisitSeenGraph ==
  ASSUME IInv, TypeOK', GraphInv, VisitSeen
  PROVE  GraphInv'
<1>0. SUFFICES ASSUME NEW e, e = Head(queue), NEW W, W = Widened(e.req.name, e.scope)
               PROVE  GraphInv'
  OBVIOUS
<1> DEFINE P == Moved(pin)
           R == Reach(served, P)
<1>1. /\ step = "walk" /\ e \in Waits /\ e \in Entry
      /\ e.req.name \in InGraph /\ graph[e.req.name].src = e.req.src
      /\ Waits' \subseteq Waits /\ Waits \subseteq {e} \cup Waits'
      /\ InGraph' = InGraph
      /\ \A m \in InGraph :
           /\ graph'[m].src = graph[m].src /\ graph'[m].by = graph[m].by
           /\ graph'[m].needs = graph[m].needs
           /\ graph'[m].scope = IF m \in W THEN graph[m].scope \cup {e.scope} ELSE graph[m].scope
           /\ graph'[m].os = IF m = e.req.name THEN graph[m].os \cup e.os ELSE graph[m].os
      /\ UNCHANGED <<project, served, step, outcome, pin, table, order>>
  BY <1>0, VisitSeenIs DEF IInv
<1>0a. \A m \in InGraph : \A t : t \in graph'[m].scope <=> t \in graph[m].scope \/ (m \in W /\ t = e.scope)
  <2> SUFFICES ASSUME NEW m \in InGraph, NEW t
               PROVE  t \in graph'[m].scope <=> t \in graph[m].scope \/ (m \in W /\ t = e.scope)
    OBVIOUS
  <2>1. graph'[m].scope = IF m \in W THEN graph[m].scope \cup {e.scope} ELSE graph[m].scope
    BY <1>1
  <2> QED
    BY <2>1
<1>2. TypeOK /\ Answered(served) /\ ProjectType(P) /\ P' = P
  BY <1>1, KnownType, MovedType, SameWalk DEF IInv
<1> HIDE DEF P
<1>3. e.req \in Requirement /\ e.req.name \in Names /\ e.scope \in Scopes
  BY <1>1 DEF Entry, Requirement
<1>4. /\ IsFiniteSet(Lacking(e.scope)) /\ Cardinality(Names) \in Nat
      /\ \A s : /\ IsFiniteSet(Holding(s)) /\ Cardinality(Holding(s)) \in Nat
                /\ Cardinality(Holding(s)) <= Cardinality(Names)
  BY <1>2, Counts
<1>5. /\ W \subseteq Lacking(e.scope)
      /\ e.req.name \in Lacking(e.scope) <=> e.req.name \in W
      /\ \A m \in W : Children(m) \cap Lacking(e.scope) \subseteq W
      /\ W # {} => /\ Cardinality(W) \in Nat \ {0}
                   /\ W = Wave(e.req.name, e.scope)[Cardinality(W) - 1]
  BY <1>0, <1>4, WidenedIs
<1>6. \A s : Holding(s)' = IF s = e.scope THEN Holding(s) \cup W ELSE Holding(s)
  BY <1>1, <1>0a, <1>5 DEF Holding, Lacking
<1>7. Holding(e.scope) \cap W = {} /\ W \subseteq InGraph
  BY <1>5 DEF Holding, Lacking
<1>8. IsFiniteSet(W)
  BY <1>4, <1>5, FS_Subset
<1>9. Cardinality(Holding(e.scope) \cup W) = Cardinality(Holding(e.scope)) + Cardinality(W)
      /\ Cardinality(W) \in Nat
  <2>1. Cardinality(Holding(e.scope) \cap W) = 0
    BY <1>7, FS_EmptySet
  <2>2. Cardinality(W) \in Nat
    BY <1>8, FS_CardinalityType
  <2>3. Cardinality(Holding(e.scope) \cup W)
          = Cardinality(Holding(e.scope)) + Cardinality(W) - Cardinality(Holding(e.scope) \cap W)
    BY <1>4, <1>8, FS_Union
  <2>4. Cardinality(Holding(e.scope)) \in Nat
    BY <1>4
  <2> QED
    BY <2>1, <2>2, <2>3, <2>4
<1>10. \A s : Cardinality(Holding(s)') \in Nat /\ Cardinality(Holding(s)) <= Cardinality(Holding(s)')
  <2> SUFFICES ASSUME NEW s
               PROVE  /\ Cardinality(Holding(s)') \in Nat
                      /\ Cardinality(Holding(s)) <= Cardinality(Holding(s)')
    OBVIOUS
  <2>1. CASE s = e.scope
    <3>1. Holding(s)' = Holding(e.scope) \cup W
      BY <1>6, <2>1
    <3>2. Cardinality(Holding(e.scope)) \in Nat
      BY <1>4
    <3> QED
      BY <1>9, <2>1, <3>1, <3>2
  <2>2. CASE s # e.scope
    <3>1. Holding(s)' = Holding(s) /\ Cardinality(Holding(s)) \in Nat
      BY <1>4, <1>6, <2>2
    <3> QED
      BY <3>1
  <2> QED
    BY <2>1, <2>2
<1>11. \A n \in InGraph : NeedsOf(n)' = NeedsOf(n) /\ NodeCoord(n)' = NodeCoord(n)
  <2> SUFFICES ASSUME NEW n \in InGraph PROVE NeedsOf(n)' = NeedsOf(n) /\ NodeCoord(n)' = NodeCoord(n)
    OBVIOUS
  <2>1. graph'[n].needs = graph[n].needs /\ graph'[n].src = graph[n].src
    BY <1>1
  <2> QED
    BY <2>1 DEF NeedsOf, Asked, NodeCoord
<1>12. \A r \in Requirement : Met(r)' <=> Met(r)
  BY <1>1, <1>2, MetIs DEF Met, Requirement, InGraph
<1>13. \A r \in Requirement : \A s : Reached(r, s) => Reached(r, s)'
  BY <1>1, <1>2, <1>12, MetIs DEF Reached
<1>14. \A n \in InGraph : NeedsOf(n) \subseteq Requirement /\ graph[n].scope \subseteq Scopes
  BY <1>2, NodeType
<1>15. \A r \in Requirement : Due(r, e.scope) => Due(r, e.scope)'
  <2> SUFFICES ASSUME NEW r \in Requirement, Due(r, e.scope), ~Waiting(r)' PROVE Reached(r, e.scope)'
    BY DEF Due
  <2>1. CASE Reached(r, e.scope)
    BY <1>13, <2>1
  <2>2. CASE Waiting(r)
    <3>1. PICK q \in Waits : Coord(q.req) = Coord(r)
      BY <1>2, <2>2, WaitsType
    <3>2. q \notin Waits'
      BY <3>1 DEF Waits, Asked, Waiting, Coord
    <3>3. q = e
      BY <1>1, <3>2
    <3>4. r.name = e.req.name /\ r.src = e.req.src
      BY <3>1, <3>3 DEF Coord
    <3>5. Met(r) /\ Met(r)'
      BY <1>1, <1>2, <1>12, <3>4, MetIs
    <3>6. e.scope \in graph'[e.req.name].scope
      BY <1>1, <1>0a, <1>5 DEF Lacking
    <3> QED
      BY <3>4, <3>5, <3>6 DEF Reached
  <2> QED
    BY <2>1, <2>2 DEF Due
<1>16. PlaceInv'
  BY <1>1 DEF GraphInv, PlaceInv, Asked
<1>17. R \in [Nat -> SUBSET EdgeSet] /\ \A k, m \in Nat : k <= m => R[k] \subseteq R[m]
  BY <1>2, ReachIs, ReachGrows
<1> HIDE DEF R
<1>18. RealInv'
  <2>1. /\ \A q \in Waits : AsEdge(q) \in R[Cardinality(Holding(q.scope))]
        /\ \A n \in InGraph :
             /\ \E f \in R[Cardinality(Names)] : f.c = NodeCoord(n) /\ f.by = graph[n].by
             /\ \A o \in graph[n].os : \E f \in R[Cardinality(Names)] : f.c = NodeCoord(n) /\ o \in f.os
             /\ served[NodeCoord(n)] # None /\ served[NodeCoord(n)].builds
             /\ graph[n].needs = served[NodeCoord(n)].needs
             /\ graph[n].scope # {}
    BY DEF GraphInv, RealInv, R, P
  <2>2. \A q \in Waits' : AsEdge(q) \in R[Cardinality(Holding(q.scope)')]
    <3> SUFFICES ASSUME NEW q \in Waits' PROVE AsEdge(q) \in R[Cardinality(Holding(q.scope)')]
      OBVIOUS
    <3>1. AsEdge(q) \in R[Cardinality(Holding(q.scope))]
      BY <1>1, <2>1
    <3> QED
      BY <1>4, <1>10, <1>17, <3>1
  <2>3. AsEdge(e) \in R[Cardinality(Names)]
    BY <1>1, <1>4, <1>17, <2>1
  <2>4. ASSUME NEW n \in InGraph
        PROVE  /\ \E f \in R[Cardinality(Names)] : f.c = NodeCoord(n) /\ f.by = graph'[n].by
               /\ \A o \in graph'[n].os : \E f \in R[Cardinality(Names)] : f.c = NodeCoord(n) /\ o \in f.os
               /\ served[NodeCoord(n)] # None /\ served[NodeCoord(n)].builds
               /\ graph'[n].needs = served[NodeCoord(n)].needs
               /\ graph'[n].scope # {}
    <3>1. \A o \in graph'[n].os : \E f \in R[Cardinality(Names)] : f.c = NodeCoord(n) /\ o \in f.os
      <4> SUFFICES ASSUME NEW o \in graph'[n].os, o \notin graph[n].os
                   PROVE  \E f \in R[Cardinality(Names)] : f.c = NodeCoord(n) /\ o \in f.os
        BY <2>1
      <4>1. n = e.req.name /\ o \in e.os
        BY <1>1
      <4>2. AsEdge(e).c = NodeCoord(n) /\ o \in AsEdge(e).os
        BY <1>1, <4>1 DEF AsEdge, NodeCoord, Coord
      <4> QED
        BY <2>3, <4>2
    <3>2. graph'[n].by = graph[n].by /\ graph'[n].needs = graph[n].needs /\ graph'[n].scope # {}
      <4>1. PICK t \in graph[n].scope : TRUE
        BY <2>1
      <4>2. t \in graph'[n].scope
        BY <1>0a, <4>1
      <4> QED
        BY <1>1, <4>2
    <3> QED
      BY <2>1, <3>1, <3>2
  <2>5. R' = R
    BY <1>1, <1>2 DEF R
  <2> QED
    BY <1>1, <1>2, <1>11, <2>2, <2>4, <2>5 DEF RealInv, AsEdge, R, P
<1>19. ScopesReal'
  <2> SUFFICES ASSUME Agreed', NEW n \in InGraph, NEW s \in graph'[n].scope
               PROVE  \E f \in R[Cardinality(Holding(s)') - 1] : f.c = NodeCoord(n) /\ f.scope = s
    BY <1>1, <1>2, <1>11 DEF ScopesReal, R, P
  <2>1. Agreed
    BY <1>1, <1>11, <1>12, <1>14 DEF Agreed
  <2>2. CASE s \in graph[n].scope
    <3>1. PICK f \in R[Cardinality(Holding(s)) - 1] : f.c = NodeCoord(n) /\ f.scope = s
      BY <2>1, <2>2 DEF GraphInv, ScopesReal, R, P
    <3>2. Cardinality(Holding(s)) # 0
      <4>1. n \in Holding(s)
        BY <2>2 DEF Holding
      <4> QED
        BY <1>4, <4>1, FS_EmptySet
    <3>3. Cardinality(Holding(s)) - 1 \in Nat /\ Cardinality(Holding(s)') - 1 \in Nat
          /\ Cardinality(Holding(s)) - 1 <= Cardinality(Holding(s)') - 1
      BY <1>4, <1>10, <3>2
    <3> QED
      BY <1>17, <3>1, <3>3
  <2>3. CASE s \notin graph[n].scope
    <3>1. n \in W /\ s = e.scope
      BY <1>0a, <2>3
    <3> DEFINE h == Cardinality(Holding(s))
               V == Wave(e.req.name, e.scope)
               T == {k \in Nat : \A m \in V[k] : \E f \in R[h + k] : f.c = NodeCoord(m) /\ f.scope = s}
    <3>2. /\ V \in [Nat -> SUBSET Lacking(e.scope)] /\ V[0] = {e.req.name} \cap Lacking(e.scope)
          /\ \A k \in Nat : V[k + 1] = Wider(V[k], e.scope)
      BY WaveIs
    <3>3. h \in Nat
      BY <1>4
    <3>4. 0 \in T
      <4>1. AsEdge(e) \in R[h]
        BY <1>1, <3>1 DEF GraphInv, RealInv, R, P
      <4>2. AsEdge(e).c = NodeCoord(e.req.name) /\ AsEdge(e).scope = s
        BY <1>1, <3>1 DEF AsEdge, NodeCoord, Coord
      <4> QED
        BY <3>2, <3>3, <4>1, <4>2
    <3> HIDE DEF h, V
    <3>5. ASSUME NEW k \in Nat, k \in T PROVE k + 1 \in T
      <4> SUFFICES ASSUME NEW m \in V[k + 1]
                   PROVE  \E f \in R[h + k + 1] : f.c = NodeCoord(m) /\ f.scope = s
        BY <3>3
      <4>0. h + k \in Nat /\ h + k + 1 \in Nat /\ h + k <= h + k + 1
        BY <3>3
      <4>1. CASE m \in V[k]
        <5>1. PICK f \in R[h + k] : f.c = NodeCoord(m) /\ f.scope = s
          BY <3>5, <4>1
        <5> QED
          BY <1>17, <4>0, <5>1
      <4>2. CASE m \notin V[k]
        <5>1. PICK x \in V[k] : m \in Children(x) \cap Lacking(e.scope)
          BY <3>2, <4>2 DEF Wider
        <5>2. x \in InGraph /\ m \in InGraph
          BY <3>2, <5>1 DEF Lacking
        <5>3. PICK r \in NeedsOf(x) : r.name = m
          BY <5>1 DEF Children, NeedsOf, Asked
        <5>4. r \in Requirement /\ Met(r) /\ Coord(r) = NodeCoord(m)
          BY <1>2, <1>14, <2>1, <5>2, <5>3, MetIs DEF Agreed
        <5>5. PICK f \in R[h + k] : f.c = NodeCoord(x) /\ f.scope = s
          BY <3>5, <5>1
        <5> DEFINE g == [c |-> Coord(r), by |-> f.c[1], scope |-> f.scope, os |-> r.os \cap f.os]
        <5>6. served[f.c] # None /\ r \in Asked(served[f.c].needs)
          BY <5>2, <5>3, <5>5 DEF GraphInv, RealInv, NeedsOf
        <5>7. g \in EdgesBelow(served, f)
          BY <5>6, EdgeBelow
        <5>8. g.c = NodeCoord(m) /\ g.scope = s
          BY <5>4, <5>5
        <5> HIDE DEF g
        <5>9. g \in R[h + k + 1]
          BY <1>2, <4>0, <5>5, <5>7, ReachBelow DEF R
        <5> QED
          BY <5>8, <5>9
      <4> QED
        BY <4>1, <4>2
    <3>6. Nat \subseteq T
      <4> HIDE DEF T
      <4> QED
        BY <3>4, <3>5, AllNumbers
    <3>7. Cardinality(W) \in Nat \ {0} /\ W = V[Cardinality(W) - 1] /\ Cardinality(W) - 1 \in Nat
      BY <1>5, <3>1 DEF V
    <3>8. \E f \in R[h + (Cardinality(W) - 1)] : f.c = NodeCoord(n) /\ f.scope = s
      BY <3>1, <3>6, <3>7
    <3>9. Cardinality(Holding(s)') - 1 = h + (Cardinality(W) - 1)
      <4>1. Holding(s)' = Holding(e.scope) \cup W
        BY <1>6, <3>1
      <4>2. Cardinality(Holding(s)') = h + Cardinality(W)
        BY <1>9, <3>1, <4>1 DEF h
      <4> QED
        BY <3>3, <3>7, <4>2
    <3> QED
      BY <3>8, <3>9
  <2> QED
    BY <2>2, <2>3
<1>20. ScopeInv'
  <2>1. \A q \in Waits' : q.scope = IF table' = "deps" THEN "runtime" ELSE "dev"
    BY <1>1 DEF GraphInv, ScopeInv
  <2>2. CASE table = "deps"
    <3>1. e.scope = "runtime" /\ Holding("dev") = {}
      BY <1>1, <2>2 DEF GraphInv, ScopeInv
    <3>2. Holding("dev")' = {}
      BY <1>6, <3>1
    <3> QED
      BY <1>1, <2>1, <2>2, <3>2 DEF ScopeInv
  <2>3. CASE table = "dev"
    <3>1. /\ e.scope = "dev"
          /\ \A r \in Asked(P.deps) : Reached(r, "runtime")
          /\ \A n \in Holding("runtime") : \A r \in NeedsOf(n) : Reached(r, "runtime")
          /\ \A r \in Asked(P.dev) : Due(r, "dev")
          /\ \A n \in Holding("dev") : \A r \in NeedsOf(n) : Due(r, "dev")
      BY <1>1, <2>3 DEF GraphInv, ScopeInv, P
    <3>2. Asked(P.deps) \subseteq Requirement /\ Asked(P.dev) \subseteq Requirement
      BY <1>2, AskedType DEF ProjectType
    <3>3. Holding("runtime")' = Holding("runtime") /\ Holding("dev")' = Holding("dev") \cup W
          /\ Holding("runtime") \subseteq InGraph /\ Holding("dev") \subseteq InGraph
      BY <1>6, <3>1 DEF Holding
    <3>4. \A r \in Asked(P.deps) : Reached(r, "runtime")'
      BY <1>13, <3>1, <3>2
    <3>5. \A n \in Holding("runtime")' : \A r \in NeedsOf(n)' : Reached(r, "runtime")'
      BY <1>11, <1>13, <1>14, <3>1, <3>3
    <3>6. \A r \in Asked(P.dev) : Due(r, "dev")'
      BY <1>15, <3>1, <3>2
    <3>7. ASSUME NEW n \in Holding("dev")', NEW r \in NeedsOf(n)' PROVE Due(r, "dev")'
      <4>1. n \in InGraph /\ r \in NeedsOf(n) /\ r \in Requirement
        BY <1>7, <1>11, <1>14, <3>3, <3>7
      <4>2. CASE n \in Holding("dev")
        BY <1>15, <3>1, <4>1, <4>2
      <4>3. CASE n \in W
        <5>1. n \in Holding("runtime")
          <6>1. "dev" \notin graph[n].scope
            BY <1>5, <3>1, <4>3 DEF Lacking
          <6>2. graph[n].scope # {} /\ graph[n].scope \subseteq {"runtime", "dev"}
            BY <1>14, <4>1 DEF GraphInv, RealInv, Scopes
          <6> QED
            BY <4>1, <6>1, <6>2 DEF Holding
        <5>2. Met(r) /\ r.name \in InGraph /\ r.name \in Children(n)
          BY <1>2, <3>1, <4>1, <5>1, MetIs DEF Reached, NeedsOf, Asked, Children
        <5>3. "dev" \in graph'[r.name].scope
          BY <1>0a, <1>5, <3>1, <4>3, <5>2 DEF Lacking
        <5> QED
          BY <1>12, <4>1, <5>2, <5>3 DEF Due, Reached
      <4> QED
        BY <3>3, <3>7, <4>2, <4>3
    <3> QED
      BY <1>1, <1>2, <2>1, <2>3, <3>4, <3>5, <3>6, <3>7 DEF ScopeInv, P, Asked
  <2> QED
    BY <1>2, <2>2, <2>3 DEF TypeOK
<1> QED
  BY <1>1, <1>16, <1>18, <1>19, <1>20 DEF GraphInv, Settled, IInv, StepInv

\* A new package is as far off as its entry, and what it needs waits.
LEMMA VisitNewGraph ==
  ASSUME IInv, TypeOK', GraphInv, VisitNew
  PROVE  GraphInv'
<1>0. SUFFICES ASSUME NEW e, e = Head(queue), NEW new, new = e.req.name
               PROVE  GraphInv'
  OBVIOUS
<1> DEFINE P == Moved(pin)
           R == Reach(served, P)
           Q == Reach(served', P)
           added == {[req |-> r, by |-> new, scope |-> e.scope, os |-> r.os \cap e.os]
                       : r \in Asked(graph'[new].needs)}
<1>1. /\ step = "walk" /\ e \in Waits /\ e \in Entry
      /\ new \in Names /\ new \notin InGraph /\ InGraph' = InGraph \cup {new}
      /\ graph'[new].src = e.req.src /\ graph'[new].by = e.by
      /\ graph'[new].scope = {e.scope} /\ graph'[new].os = e.os
      /\ order' = Append(order, new)
      /\ Waits \subseteq {e} \cup Waits'
      /\ Waits' \subseteq Waits \cup added /\ added \subseteq Waits'
      /\ UNCHANGED <<project, step, outcome, pin, table>>
  <2>1. /\ step = "walk" /\ e \in Waits /\ e \in Entry
        /\ e.req.name \in Names /\ e.req.name \notin InGraph /\ InGraph' = InGraph \cup {e.req.name}
        /\ graph'[e.req.name].src = e.req.src /\ graph'[e.req.name].by = e.by
        /\ graph'[e.req.name].scope = {e.scope} /\ graph'[e.req.name].os = e.os
        /\ order' = Append(order, e.req.name)
        /\ Waits \subseteq {e} \cup Waits'
    BY <1>0, VisitNewIs, Zenon DEF IInv
  <2>2. UNCHANGED <<project, step, outcome, pin, table>>
    BY <1>0, VisitNewIs DEF IInv
  <2>3. /\ Waits' \subseteq Waits \cup
              {[req |-> r, by |-> e.req.name, scope |-> e.scope, os |-> r.os \cap e.os]
                 : r \in Asked(graph'[e.req.name].needs)}
        /\ {[req |-> r, by |-> e.req.name, scope |-> e.scope, os |-> r.os \cap e.os]
               : r \in Asked(graph'[e.req.name].needs)} \subseteq Waits'
    <3> HIDE DEF added
    <3> QED
      BY <1>0, VisitNewIs DEF IInv
  <2>4. Waits' \subseteq Waits \cup added /\ added \subseteq Waits'
    BY <1>0, <2>3
  <2> HIDE DEF added
  <2> QED
    BY <1>0, <2>1, <2>2, <2>4
<1>2. /\ \A m \in InGraph : graph'[m] = graph[m]
      /\ Answered(served) /\ Answered(served') /\ Learns(served, served')
      /\ served'[Coord(e.req)] # None /\ served'[Coord(e.req)].builds
      /\ served'[Coord(e.req)].needs = graph'[new].needs
  BY <1>0, VisitNewIs, Zenon DEF IInv
<1>3. TypeOK /\ ProjectType(P) /\ P' = P
  BY <1>1, MovedType, SameWalk DEF IInv
<1> HIDE DEF P, added
<1>4. e.req \in Requirement /\ e.scope \in Scopes /\ Coord(e.req) = <<new, e.req.src>>
  BY <1>0, <1>1 DEF Entry, Coord
<1>5. /\ Cardinality(Names) \in Nat
      /\ \A s : /\ IsFiniteSet(Holding(s)) /\ Cardinality(Holding(s)) \in Nat
                /\ Cardinality(Holding(s)) <= Cardinality(Names)
  BY <1>3, Counts
<1>6. \A s : Holding(s)' = IF s = e.scope THEN Holding(s) \cup {new} ELSE Holding(s)
  <2> SUFFICES ASSUME NEW s, NEW m
               PROVE  m \in Holding(s)' <=> m \in Holding(s) \/ (s = e.scope /\ m = new)
    OBVIOUS
  <2>1. m \in Holding(s)' <=> m \in InGraph' /\ s \in graph'[m].scope
    BY DEF Holding
  <2>2. m \in Holding(s) <=> m \in InGraph /\ s \in graph[m].scope
    BY DEF Holding
  <2>3. CASE m = new
    BY <1>1, <2>1, <2>2, <2>3
  <2>4. CASE m # new
    BY <1>1, <1>2, <2>1, <2>2, <2>4
  <2> QED
    BY <2>3, <2>4
<1>7. \A s : Cardinality(Holding(s)') = IF s = e.scope THEN Cardinality(Holding(s)) + 1
                                        ELSE Cardinality(Holding(s))
  <2> SUFFICES ASSUME NEW s
               PROVE  Cardinality(Holding(s)') = IF s = e.scope THEN Cardinality(Holding(s)) + 1
                                                 ELSE Cardinality(Holding(s))
    OBVIOUS
  <2>1. new \notin Holding(s) /\ IsFiniteSet(Holding(s))
    BY <1>1, <1>5 DEF Holding
  <2>2. Cardinality(Holding(s) \cup {new}) = Cardinality(Holding(s)) + 1
    BY <2>1, FS_AddElement
  <2> QED
    BY <1>6, <2>2
<1>8. \A s : Cardinality(Holding(s)') \in Nat /\ Cardinality(Holding(s)) <= Cardinality(Holding(s)')
  BY <1>5, <1>7
<1>9. \A m \in InGraph : NeedsOf(m)' = NeedsOf(m) /\ NodeCoord(m)' = NodeCoord(m)
  BY <1>2 DEF NeedsOf, Asked, NodeCoord
<1>10. NodeCoord(new)' = Coord(e.req)
  BY <1>1, <1>4 DEF NodeCoord
<1>11. /\ \A r \in Requirement : Met(r) => Met(r)'
       /\ \A r \in Requirement : r.name \in InGraph => (Met(r)' <=> Met(r))
  <2>1. ASSUME NEW r \in Requirement, r.name \in InGraph PROVE Met(r)' <=> Met(r)
    BY <1>2, <2>1 DEF Met
  <2> QED
    BY <1>3, <2>1, MetIs
<1>12. \A r \in Requirement : \A s : Reached(r, s) => Reached(r, s)'
  <2> SUFFICES ASSUME NEW r \in Requirement, NEW s, Reached(r, s) PROVE Reached(r, s)'
    OBVIOUS
  <2>1. r.name \in InGraph
    BY <1>3, MetIs DEF Reached
  <2> QED
    BY <1>2, <1>11, <2>1 DEF Reached
<1>13. \A m \in InGraph : NeedsOf(m) \subseteq Requirement /\ graph[m].scope \subseteq Scopes
                          /\ NodeCoord(m) \in Coords
  BY <1>3, NodeType
<1>14. new \in InGraph' /\ NeedsOf(new)' \subseteq Requirement
  <2>1. new \in InGraph' /\ graph'[new] \in GraphNode
    BY <1>1 DEF TypeOK, InGraph
  <2>2. graph'[new].needs \in Seq(Requirement)
    BY <2>1 DEF GraphNode
  <2> QED
    BY <2>1, <2>2, AskedType DEF NeedsOf
<1>15. \A r \in Requirement : Due(r, e.scope) => Due(r, e.scope)'
  <2> SUFFICES ASSUME NEW r \in Requirement, Due(r, e.scope), ~Waiting(r)' PROVE Reached(r, e.scope)'
    BY DEF Due
  <2>1. CASE Reached(r, e.scope)
    BY <1>12, <2>1
  <2>2. CASE Waiting(r)
    <3>1. PICK q \in Waits : Coord(q.req) = Coord(r)
      BY <1>3, <2>2, WaitsType
    <3>2. q \notin Waits'
      BY <3>1 DEF Waits, Asked, Waiting, Coord
    <3>3. q = e
      BY <1>1, <3>2
    <3>4. r.name = new /\ r.src = e.req.src
      BY <1>0, <3>1, <3>3 DEF Coord
    <3>5. graph'[new] # None
      BY <1>14 DEF InGraph
    <3> QED
      BY <1>1, <3>4, <3>5 DEF Reached, Met
  <2> QED
    BY <2>1, <2>2 DEF Due
<1>16. PlaceInv'
  <2>1. order \in Seq(Names) /\ Len(order) \in Nat /\ DOMAIN order = 1 .. Len(order)
    BY <1>3, LenProperties DEF TypeOK
  <2>2. /\ DOMAIN order' = 1 .. Len(order) + 1
        /\ \A i \in 1 .. Len(order) : order'[i] = order[i]
        /\ order'[Len(order) + 1] = new
    <3>1. /\ Append(order, new) \in Seq(Names)
          /\ Len(Append(order, new)) = Len(order) + 1
          /\ \A i \in 1 .. Len(order) : Append(order, new)[i] = order[i]
          /\ Append(order, new)[Len(order) + 1] = new
      BY <1>1, <2>1, AppendProperties
    <3> QED
      BY <1>1, <3>1, LenProperties
  <2>3. Asked(order) = InGraph /\ \A i, j \in DOMAIN order : order[i] = order[j] => i = j
    BY DEF GraphInv, PlaceInv
  <2>4. \A i \in 1 .. Len(order) : order'[i] # new /\ order'[i] \in InGraph
    BY <1>1, <2>1, <2>2, <2>3 DEF Asked
  <2>5. Asked(order)' = InGraph'
    <3>1. ASSUME NEW n \in Asked(order)' PROVE n \in InGraph'
      <4>1. PICK i \in 1 .. Len(order) + 1 : n = order'[i]
        BY <2>2 DEF Asked
      <4> QED
        BY <1>1, <2>1, <2>2, <2>4, <4>1
    <3>2. ASSUME NEW n \in InGraph' PROVE n \in Asked(order)'
      <4>1. CASE n = new
        <5>1. Len(order) + 1 \in DOMAIN order'
          BY <2>1, <2>2
        <5> QED
          BY <2>2, <4>1, <5>1 DEF Asked
      <4>2. CASE n # new
        <5>1. PICK i \in 1 .. Len(order) : n = order[i]
          BY <1>1, <2>1, <2>3, <4>2 DEF Asked
        <5>2. i \in DOMAIN order' /\ order'[i] = n
          BY <2>1, <2>2, <5>1
        <5> QED
          BY <5>2 DEF Asked
      <4> QED
        BY <4>1, <4>2
    <3> QED
      BY <3>1, <3>2
  <2>6. ASSUME NEW i \in DOMAIN order', NEW j \in DOMAIN order', order'[i] = order'[j] PROVE i = j
    <3>1. CASE i \in 1 .. Len(order) /\ j \in 1 .. Len(order)
      BY <2>1, <2>2, <2>3, <2>6, <3>1
    <3>2. CASE i = Len(order) + 1 \/ j = Len(order) + 1
      BY <2>1, <2>2, <2>4, <2>6, <3>2
    <3> QED
      BY <2>1, <2>2, <3>1, <3>2
  <2> QED
    BY <2>5, <2>6 DEF PlaceInv
<1>17. /\ \A k \in Nat : R[k] \subseteq Q[k]
       /\ Q \in [Nat -> SUBSET EdgeSet] /\ \A k, m \in Nat : k <= m => Q[k] \subseteq Q[m]
  BY <1>2, <1>3, ReachIs, ReachGrows, ReachLearns
<1>18. Reach(served, Moved(pin))' = Q
  BY <1>3 DEF P
<1> HIDE DEF R, Q
<1>19. AsEdge(e) \in Q[Cardinality(Holding(e.scope))]
  <2>1. AsEdge(e) \in R[Cardinality(Holding(e.scope))]
    BY <1>1 DEF GraphInv, RealInv, R, P
  <2> QED
    BY <1>5, <1>17, <2>1
<1>20. AsEdge(e).c = Coord(e.req) /\ AsEdge(e).by = e.by /\ AsEdge(e).scope = e.scope
       /\ AsEdge(e).os = e.os
  BY DEF AsEdge
<1>21. RealInv'
  <2>1. /\ \A q \in Waits : AsEdge(q) \in R[Cardinality(Holding(q.scope))]
        /\ \A n \in InGraph :
             /\ \E f \in R[Cardinality(Names)] : f.c = NodeCoord(n) /\ f.by = graph[n].by
             /\ \A o \in graph[n].os : \E f \in R[Cardinality(Names)] : f.c = NodeCoord(n) /\ o \in f.os
             /\ served[NodeCoord(n)] # None /\ served[NodeCoord(n)].builds
             /\ graph[n].needs = served[NodeCoord(n)].needs
             /\ graph[n].scope # {}
    BY DEF GraphInv, RealInv, R, P
  <2>2. ASSUME NEW q \in Waits' PROVE AsEdge(q) \in Q[Cardinality(Holding(q.scope)')]
    <3>1. CASE q \in Waits
      <4>1. AsEdge(q) \in Q[Cardinality(Holding(q.scope))]
        BY <1>5, <1>17, <2>1, <3>1
      <4> QED
        BY <1>5, <1>8, <1>17, <4>1
    <3>2. CASE q \in added
      <4>1. PICK r \in Asked(graph'[new].needs) :
              q = [req |-> r, by |-> new, scope |-> e.scope, os |-> r.os \cap e.os]
        BY <3>2 DEF added
      <4>2. served'[AsEdge(e).c] # None /\ r \in Asked(served'[AsEdge(e).c].needs)
            /\ AsEdge(e).c[1] = new
        BY <1>2, <1>4, <1>20, <4>1
      <4>3. [c |-> Coord(r), by |-> AsEdge(e).c[1], scope |-> AsEdge(e).scope,
             os |-> r.os \cap AsEdge(e).os] \in EdgesBelow(served', AsEdge(e))
        BY <4>2, EdgeBelow
      <4>4. AsEdge(q) \in EdgesBelow(served', AsEdge(e))
        BY <1>20, <4>1, <4>2, <4>3 DEF AsEdge
      <4>5. AsEdge(q) \in Q[Cardinality(Holding(e.scope)) + 1]
        BY <1>2, <1>3, <1>5, <1>19, <4>4, ReachBelow DEF Q
      <4> QED
        BY <1>7, <4>1, <4>5
    <3> QED
      BY <1>1, <3>1, <3>2
  <2>3. AsEdge(e) \in Q[Cardinality(Names)]
    BY <1>5, <1>17, <1>19
  <2>4. ASSUME NEW n \in InGraph'
        PROVE  /\ \E f \in Q[Cardinality(Names)] : f.c = NodeCoord(n)' /\ f.by = graph'[n].by
               /\ \A o \in graph'[n].os : \E f \in Q[Cardinality(Names)] : f.c = NodeCoord(n)' /\ o \in f.os
               /\ served'[NodeCoord(n)'] # None /\ served'[NodeCoord(n)'].builds
               /\ graph'[n].needs = served'[NodeCoord(n)'].needs
               /\ graph'[n].scope # {}
    <3>1. CASE n = new
      BY <1>1, <1>2, <1>10, <1>20, <2>3, <3>1
    <3>2. CASE n # new
      <4>1. n \in InGraph /\ graph'[n] = graph[n] /\ NodeCoord(n)' = NodeCoord(n)
        BY <1>1, <1>2, <1>9, <3>2
      <4>2. served'[NodeCoord(n)] = served[NodeCoord(n)]
        BY <1>2, <1>13, <2>1, <4>1 DEF Learns
      <4>3. R[Cardinality(Names)] \subseteq Q[Cardinality(Names)]
        BY <1>5, <1>17
      <4> QED
        BY <2>1, <4>1, <4>2, <4>3
    <3> QED
      BY <3>1, <3>2
  <2> QED
    BY <1>18, <2>2, <2>4 DEF RealInv, AsEdge
<1>22. ScopesReal'
  <2> SUFFICES ASSUME Agreed', NEW n \in InGraph', NEW s \in graph'[n].scope
               PROVE  \E f \in Q[Cardinality(Holding(s)') - 1] : f.c = NodeCoord(n)' /\ f.scope = s
    BY <1>18 DEF ScopesReal
  <2>1. Agreed
    BY <1>1, <1>9, <1>11, <1>13 DEF Agreed
  <2>2. CASE n = new
    <3>1. s = e.scope
      BY <1>1, <2>2
    <3>2. Cardinality(Holding(s)') - 1 = Cardinality(Holding(s))
      BY <1>5, <1>7, <3>1
    <3> QED
      BY <1>10, <1>19, <1>20, <2>2, <3>1, <3>2
  <2>3. CASE n # new
    <3>1. n \in InGraph /\ s \in graph[n].scope /\ NodeCoord(n)' = NodeCoord(n)
      BY <1>1, <1>2, <1>9, <2>3
    <3>2. PICK f \in R[Cardinality(Holding(s)) - 1] : f.c = NodeCoord(n) /\ f.scope = s
      BY <2>1, <3>1 DEF GraphInv, ScopesReal, R, P
    <3>3. Cardinality(Holding(s)) # 0
      <4>1. n \in Holding(s)
        BY <3>1 DEF Holding
      <4> QED
        BY <1>5, <4>1, FS_EmptySet
    <3>4. Cardinality(Holding(s)) - 1 \in Nat /\ Cardinality(Holding(s)') - 1 \in Nat
          /\ Cardinality(Holding(s)) - 1 <= Cardinality(Holding(s)') - 1
      BY <1>5, <1>8, <3>3
    <3> QED
      BY <1>17, <3>1, <3>2, <3>4
  <2> QED
    BY <2>2, <2>3
<1>23. ScopeInv'
  <2>1. \A q \in Waits' : q.scope = IF table' = "deps" THEN "runtime" ELSE "dev"
    <3>1. \A q \in Waits : q.scope = IF table = "deps" THEN "runtime" ELSE "dev"
      BY <1>1 DEF GraphInv, ScopeInv
    <3>2. \A q \in added : q.scope = e.scope
      BY DEF added
    <3> QED
      BY <1>1, <3>1, <3>2
  <2>2. CASE table = "deps"
    <3>1. e.scope = "runtime" /\ Holding("dev") = {}
      BY <1>1, <2>2 DEF GraphInv, ScopeInv
    <3>2. Holding("dev")' = {}
      BY <1>6, <3>1
    <3> QED
      BY <1>1, <2>1, <2>2, <3>2 DEF ScopeInv
  <2>3. CASE table = "dev"
    <3>1. /\ e.scope = "dev"
          /\ \A r \in Asked(P.deps) : Reached(r, "runtime")
          /\ \A n \in Holding("runtime") : \A r \in NeedsOf(n) : Reached(r, "runtime")
          /\ \A r \in Asked(P.dev) : Due(r, "dev")
          /\ \A n \in Holding("dev") : \A r \in NeedsOf(n) : Due(r, "dev")
      BY <1>1, <2>3 DEF GraphInv, ScopeInv, P
    <3>2. Asked(P.deps) \subseteq Requirement /\ Asked(P.dev) \subseteq Requirement
      BY <1>3, AskedType DEF ProjectType
    <3>3. Holding("runtime")' = Holding("runtime") /\ Holding("dev")' = Holding("dev") \cup {new}
          /\ Holding("runtime") \subseteq InGraph /\ Holding("dev") \subseteq InGraph
      BY <1>6, <3>1 DEF Holding
    <3>4. \A r \in Asked(P.deps) : Reached(r, "runtime")'
      BY <1>12, <3>1, <3>2
    <3>5. \A n \in Holding("runtime")' : \A r \in NeedsOf(n)' : Reached(r, "runtime")'
      BY <1>9, <1>12, <1>13, <3>1, <3>3
    <3>6. \A r \in Asked(P.dev) : Due(r, "dev")'
      BY <1>15, <3>1, <3>2
    <3>7. ASSUME NEW n \in Holding("dev")', NEW r \in NeedsOf(n)' PROVE Due(r, "dev")'
      <4>1. CASE n \in Holding("dev")
        BY <1>9, <1>13, <1>15, <3>1, <3>3, <3>7, <4>1
      <4>2. CASE n = new
        <5>1. r \in Asked(graph'[new].needs)
          BY <3>7, <4>2 DEF NeedsOf, Asked
        <5> DEFINE q == [req |-> r, by |-> new, scope |-> e.scope, os |-> r.os \cap e.os]
        <5>2. q \in added /\ q.req = r
          BY <5>1 DEF added
        <5> HIDE DEF q
        <5>3. q \in Waits'
          BY <1>1, <5>2
        <5>4. Waiting(r)'
          <6>1. PICK i \in DOMAIN queue' : queue'[i] = q
            BY <5>3 DEF Waits, Asked
          <6>2. Coord(queue'[i].req) = Coord(r)
            BY <5>2, <6>1
          <6> QED
            BY <6>2 DEF Waiting, Coord
        <5> QED
          BY <5>4 DEF Due
      <4> QED
        BY <3>3, <3>7, <4>1, <4>2
    <3> QED
      BY <1>1, <1>3, <2>1, <2>3, <3>4, <3>5, <3>6, <3>7 DEF ScopeInv, P, Asked
  <2> QED
    BY <1>3, <2>2, <2>3 DEF TypeOK
<1> QED
  BY <1>1, <1>16, <1>21, <1>22, <1>23 DEF GraphInv, Settled, IInv, StepInv

\* A walk that ends with nothing waiting has given every scope on.
LEMMA EndClosed ==
  ASSUME IInv, GraphInv, WalkEnds
  PROVE  Closed
<1>1. step = "walk" /\ queue = <<>> /\ table = "dev"
  BY DEF WalkEnds
<1>2. \A r : ~Waiting(r)
  BY <1>1, EmptySeq DEF Waiting
<1>3. /\ \A r \in Asked(Moved(pin).deps) : Reached(r, "runtime")
      /\ \A n \in Holding("runtime") : \A r \in NeedsOf(n) : Reached(r, "runtime")
      /\ \A r \in Asked(Moved(pin).dev) : Due(r, "dev")
      /\ \A n \in Holding("dev") : \A r \in NeedsOf(n) : Due(r, "dev")
  BY <1>1 DEF GraphInv, ScopeInv
<1>4. /\ \A r \in Asked(Moved(pin).dev) : Reached(r, "dev")
      /\ \A n \in Holding("dev") : \A r \in NeedsOf(n) : Reached(r, "dev")
  BY <1>2, <1>3 DEF Due
<1> QED
  BY <1>3, <1>4 DEF Closed, Scopes

\* At first there is no graph.
LEMMA InitGraph ==
  ASSUME DepInit
  PROVE  GraphInv
<1>1. InGraph = {} /\ Waits = {} /\ Asked(order) = {} /\ DOMAIN order = {}
  BY EmptySeq DEF DepInit, InGraph, NoGraph, Waits, Asked
<1>2. PlaceInv
  BY <1>1 DEF PlaceInv
<1>3. RealInv /\ ScopesReal
  BY <1>1 DEF RealInv, ScopesReal
<1>4. ScopeInv /\ ~Settled
  BY DEF DepInit, ScopeInv, Settled
<1> QED
  BY <1>2, <1>3, <1>4 DEF GraphInv

\* A walk that fails frees its graph.
LEMMA WalkFailsGraph ==
  ASSUME IInv, step = "walk", NEW claims, WalkFails(claims)
  PROVE  GraphInv'
<1>1. outcome # "ok"
  BY DEF IInv, StepInv
<1>2. /\ graph' = NoGraph /\ order' = <<>> /\ queue' = <<>> /\ step' \in {"search", "done"}
      /\ outcome' # "ok"
  BY <1>1 DEF WalkFails, EndWalk
<1> QED
  BY <1>2, EmptyGraph

\* The walk.
LEMMA WalkGraph ==
  ASSUME IInv, IInv', GraphInv, Walk
  PROVE  GraphInv'
<1>1. TypeOK /\ TypeOK' /\ (outcome = "ok" => step = "done")
  BY DEF IInv, StepInv
<1>2. CASE Start
  <2>1. BeginWalk(None) /\ project' = project /\ served' = served /\ outcome' # "ok"
    BY <1>1, <1>2 DEF Start
  <2> QED
    BY <1>1, <2>1, BeginGraph
<1>3. CASE VisitSeen
  BY <1>1, <1>3, VisitSeenGraph
<1>4. CASE VisitNew
  BY <1>1, <1>4, VisitNewGraph
<1>5. CASE WalkDev
  BY <1>5, WalkDevGraph
<1>6. CASE VisitConflict \/ VisitTooMany \/ VisitFails \/ VisitRefused
  <2>1. step = "walk" /\ \E claims : WalkFails(claims)
    BY <1>6, Zenon DEF VisitConflict, VisitTooMany, VisitFails, VisitRefused, AtSeen, AtNew
  <2> QED
    BY <2>1, WalkFailsGraph
<1> QED
  BY <1>2, <1>3, <1>4, <1>5, <1>6 DEF Walk

\* The search.
LEMMA SearchGraph ==
  ASSUME IInv, IInv', GraphInv, Search
  PROVE  GraphInv'
<1>1. TypeOK /\ TypeOK' /\ (outcome = "ok" => step = "done")
  BY DEF IInv, StepInv
<1>2. CASE Try
  <2>1. PICK newest \in candidates : BeginWalk([name |-> Claimants[pivot], src |-> newest])
    BY <1>2 DEF Try
  <2> DEFINE p == [name |-> Claimants[pivot], src |-> newest]
  <2>2. project' = project /\ served' = served /\ outcome' # "ok"
    BY <1>1, <1>2 DEF Try
  <2>3. BeginWalk(p) /\ pin' = p
    BY <2>1 DEF BeginWalk
  <2> HIDE DEF p
  <2>4. p = None \/ p \in Pin
    BY <1>1, <2>3 DEF TypeOK
  <2> QED
    BY <1>1, <2>2, <2>3, <2>4, BeginGraph
<1>3. CASE TrialSettles
  <2>1. /\ graph' = NoGraph /\ order' = <<>> /\ queue' = <<>> /\ step' \in {"search", "done"}
        /\ outcome' # "ok"
    BY <1>1, <1>3 DEF TrialSettles, WalkEnds, EndWalk
  <2> QED
    BY <2>1, EmptyGraph
<1>4. CASE TrialDrops
  <2>1. step = "walk" /\ WalkFails(None)
    BY <1>4 DEF TrialDrops, WalkEnds
  <2> QED
    BY <2>1, WalkFailsGraph
<1>5. CASE PivotSkipped \/ PivotListed \/ SearchOver
  <2>1. /\ UNCHANGED <<project, served, pin, queue, table, graph, order, outcome>>
        /\ step = "search" /\ step' \in {"search", "done"}
    BY <1>5 DEF PivotSkipped, PivotListed, SearchOver, AtPivot, walkVars
  <2>2. (step' = "walk" => step = "walk") /\ (Settled' => Settled \/ Closed)
    BY <1>1, <2>1 DEF Settled
  <2> QED
    BY <2>1, <2>2, SameGraph
<1> QED
  BY <1>2, <1>3, <1>4, <1>5 DEF Search

\* The fetches, and the choice of what the target takes part of.
LEMMA FetchGraph ==
  ASSUME IInv, IInv', GraphInv, Fetch \/ (\E t \in OSes : SelectOs(t)) \/ UNCHANGED depVars
  PROVE  GraphInv'
<1>1. CASE WalkDone
  <2>1. /\ UNCHANGED <<project, served, pin, queue, table, graph, order>> /\ step' = "fetch"
        /\ WalkEnds
    BY <1>1 DEF WalkDone, walkVars
  <2> QED
    BY <2>1, EndClosed, SameGraph
<1>2. CASE MaterializeSkips \/ Materialize \/ Provided
  <2>1. /\ UNCHANGED <<project, served, pin, queue, table, graph, order>>
        /\ step = "fetch" /\ step' # "walk"
    BY <1>2 DEF MaterializeSkips, Materialize, Provided, AtNode, walkVars
  <2> QED
    BY <2>1, SameGraph DEF Settled
<1>3. CASE MaterializeFails
  <2>1. /\ graph' = NoGraph /\ order' = <<>> /\ queue' = <<>> /\ step' \in {"search", "done"}
        /\ outcome' # "ok"
    BY <1>3 DEF MaterializeFails, EndWalk
  <2> QED
    BY <2>1, EmptyGraph
<1>4. CASE (\E t \in OSes : SelectOs(t)) \/ UNCHANGED depVars
  <2>1. UNCHANGED <<project, served, pin, queue, table, graph, order, step, outcome>>
    BY <1>4 DEF SelectOs, walkVars, depVars
  <2> QED
    BY <2>1, SameGraph DEF Settled
<1> QED
  BY <1>1, <1>2, <1>3, <1>4 DEF Fetch

\* Every step keeps the graph true.
LEMMA GraphStep ==
  ASSUME IInv, IInv', GraphInv, [DepNext]_depVars
  PROVE  GraphInv'
BY WalkGraph, SearchGraph, FetchGraph DEF DepNext

------------------------------------------------------------------------------
(* A graph with nothing left to give on is what the recipes reach           *)

Horizon == Cardinality(Names) * (1 + Cardinality(OSes))

\* Its nodes are the coordinates that are reached, in the scopes they are reached in.
LEMMA ClosedIsReach ==
  ASSUME IInv, GraphInv, Closed, NEW edges, edges = Reach(served, Moved(pin))[Horizon]
  PROVE  /\ \A e \in edges : /\ e.c[1] \in InGraph /\ e.c = NodeCoord(e.c[1])
                             /\ e.scope \in graph[e.c[1]].scope
         /\ \A n \in InGraph : \E e \in edges : e.c = NodeCoord(n)
         /\ \A n \in InGraph : \A s \in graph[n].scope : \E e \in edges : e.c = NodeCoord(n) /\ e.scope = s
         /\ \A n \in InGraph : \A o \in graph[n].os : \E e \in edges : e.c = NodeCoord(n) /\ o \in e.os
         /\ \A n \in InGraph : served[NodeCoord(n)] # None /\ served[NodeCoord(n)].builds
<1> DEFINE P == Moved(pin)
           R == Reach(served, P)
<1>1. TypeOK /\ Answered(served) /\ ProjectType(P)
  BY KnownType, MovedType DEF IInv
<1>2. /\ \A n \in InGraph :
           /\ \E e \in R[Cardinality(Names)] : e.c = NodeCoord(n) /\ e.by = graph[n].by
           /\ \A o \in graph[n].os : \E e \in R[Cardinality(Names)] : e.c = NodeCoord(n) /\ o \in e.os
           /\ served[NodeCoord(n)] # None /\ served[NodeCoord(n)].builds
           /\ graph[n].needs = served[NodeCoord(n)].needs
           /\ graph[n].scope # {}
  BY DEF GraphInv, RealInv
<1>3. /\ \A r \in Asked(P.deps) : Reached(r, "runtime")
      /\ \A r \in Asked(P.dev) : Reached(r, "dev")
      /\ \A s \in Scopes : \A n \in Holding(s) : \A r \in NeedsOf(n) : Reached(r, s)
  BY DEF Closed
<1>4. /\ R \in [Nat -> SUBSET EdgeSet]
      /\ \A k, m \in Nat : k <= m => R[k] \subseteq R[m]
  BY <1>1, ReachIs, ReachGrows
<1>5. /\ Horizon \in Nat /\ Cardinality(Names) \in Nat /\ Cardinality(Names) <= Horizon
      /\ \A s : /\ IsFiniteSet(Holding(s)) /\ Cardinality(Holding(s)) \in Nat
                /\ Cardinality(Holding(s)) <= Cardinality(Names)
  BY <1>1, Counts DEF Horizon
<1>6. edges = R[Horizon]
  OBVIOUS
<1>7. \A n \in InGraph : graph[n].scope \subseteq Scopes /\ NeedsOf(n) \subseteq Requirement
                         /\ n \in Names
  BY <1>1, NodeType
<1> HIDE DEF P, R
<1> DEFINE X == {e \in EdgeSet : /\ e.c[1] \in InGraph /\ e.c = NodeCoord(e.c[1])
                                 /\ e.scope \in graph[e.c[1]].scope}
<1>8. ASSUME NEW r \in Requirement, NEW s, Reached(r, s), NEW e \in EdgeSet, e.c = Coord(r), e.scope = s
      PROVE  e \in X
  <2>1. r.name \in InGraph /\ NodeCoord(r.name) = Coord(r) /\ s \in graph[r.name].scope
    BY <1>1, <1>8, MetIs DEF Reached
  <2>2. Coord(r)[1] = r.name
    BY DEF Coord
  <2> QED
    BY <1>8, <2>1, <2>2
<1> HIDE DEF X
<1>9. Roots(P) \subseteq X
  <2>1. Asked(P.deps) \subseteq Requirement /\ Asked(P.dev) \subseteq Requirement
    BY <1>1, AskedType DEF ProjectType
  <2>2. Roots(P) \subseteq EdgeSet
    BY <1>1, RootsType
  <2>3. ASSUME NEW e \in RootEdges(P.deps, "runtime") PROVE e \in X
    <3>1. PICK i \in DOMAIN P.deps : e = [c |-> Coord(P.deps[i]), by |-> None, scope |-> "runtime",
                                          os |-> P.deps[i].os]
      BY DEF RootEdges
    <3>2. P.deps[i] \in Requirement /\ Reached(P.deps[i], "runtime")
      BY <1>3, <2>1 DEF Asked
    <3>3. e \in EdgeSet /\ e.c = Coord(P.deps[i]) /\ e.scope = "runtime"
      BY <2>2, <3>1 DEF Roots
    <3> QED
      BY <1>8, <3>2, <3>3
  <2>4. ASSUME NEW e \in RootEdges(P.dev, "dev") PROVE e \in X
    <3>1. PICK i \in DOMAIN P.dev : e = [c |-> Coord(P.dev[i]), by |-> None, scope |-> "dev",
                                         os |-> P.dev[i].os]
      BY DEF RootEdges
    <3>2. P.dev[i] \in Requirement /\ Reached(P.dev[i], "dev")
      BY <1>3, <2>1 DEF Asked
    <3>3. e \in EdgeSet /\ e.c = Coord(P.dev[i]) /\ e.scope = "dev"
      BY <2>2, <3>1 DEF Roots
    <3> QED
      BY <1>8, <3>2, <3>3
  <2> QED
    BY <2>3, <2>4 DEF Roots
<1>10. ASSUME NEW e \in X \cap EdgeSet, NEW f \in EdgesBelow(served, e) PROVE f \in X
  <2>1. e.c[1] \in InGraph /\ e.c = NodeCoord(e.c[1]) /\ e.scope \in graph[e.c[1]].scope
    BY DEF X
  <2>2. f \in EdgeSet
    BY <1>1, BelowType
  <2>3. PICK r \in Needs(served, e.c) :
          f = [c |-> Coord(r), by |-> e.c[1], scope |-> e.scope, os |-> r.os \cap e.os]
    BY DEF EdgesBelow
  <2>4. r \in NeedsOf(e.c[1])
    BY <1>2, <2>1, <2>3 DEF Needs, NeedsOf, Asked
  <2>5. e.scope \in Scopes /\ e.c[1] \in Holding(e.scope) /\ r \in Requirement
    BY <1>7, <2>1, <2>4 DEF Holding
  <2>6. Reached(r, e.scope)
    BY <1>3, <2>4, <2>5
  <2>7. f.c = Coord(r) /\ f.scope = e.scope
    BY <2>3
  <2> QED
    BY <1>8, <2>2, <2>5, <2>6, <2>7
<1>11. edges \subseteq X
  BY <1>1, <1>5, <1>6, <1>9, <1>10, ReachWithin DEF R
<1>12. R[Cardinality(Names)] \subseteq edges
  BY <1>4, <1>5, <1>6
<1>13. Agreed
  <2> SUFFICES ASSUME NEW n \in InGraph, NEW r \in NeedsOf(n) PROVE Met(r)
    BY DEF Agreed
  <2>1. PICK s \in Scopes : n \in Holding(s)
    BY <1>2, <1>7 DEF Holding
  <2> QED
    BY <1>3, <2>1 DEF Reached
<1>14. ASSUME NEW n \in InGraph, NEW s \in graph[n].scope
       PROVE  \E e \in edges : e.c = NodeCoord(n) /\ e.scope = s
  <2>1. PICK e \in R[Cardinality(Holding(s)) - 1] : e.c = NodeCoord(n) /\ e.scope = s
    BY <1>13 DEF GraphInv, ScopesReal, R, P
  <2>2. Cardinality(Holding(s)) # 0
    <3>1. n \in Holding(s)
      BY DEF Holding
    <3> QED
      BY <1>5, <3>1, FS_EmptySet
  <2>3. Cardinality(Holding(s)) - 1 \in Nat /\ Cardinality(Holding(s)) - 1 <= Horizon
    BY <1>5, <2>2
  <2>4. e \in edges
    BY <1>4, <1>5, <1>6, <2>3
  <2> QED
    BY <2>1, <2>4
<1>15. \A e \in edges : /\ e.c[1] \in InGraph /\ e.c = NodeCoord(e.c[1])
                        /\ e.scope \in graph[e.c[1]].scope
  BY <1>11 DEF X
<1> QED
  BY <1>2, <1>12, <1>14, <1>15

\* So a name is reached at one coordinate only.
LEMMA ClosedAgrees ==
  ASSUME IInv, GraphInv, Closed
  PROVE  OneEach(Reach(served, Moved(pin))[Horizon])
<1>1. \A e \in Reach(served, Moved(pin))[Horizon] : e.c = NodeCoord(e.c[1])
  BY ClosedIsReach
<1> QED
  BY <1>1 DEF OneEach

\* A resolution that has ended well, or is fetching, is of the project itself.
LEMMA SettledIsReal ==
  ASSUME IInv, Settled
  PROVE  pin = None /\ Reach(served, Moved(pin))[Horizon] = Edges(project)
<1>1. pin = None /\ TypeOK
  BY DEF IInv, SearchInv, StepInv, Settled
<1>2. Moved(pin) = project
  BY <1>1, MovedType
<1> QED
  BY <1>1, <1>2 DEF Edges, Horizon

\* The settled graph holds what the tables reach, each package once.
LEMMA SettledGraph ==
  ASSUME IInv, GraphInv, Settled
  PROVE  GraphIsReach /\ OneEach(Edges(project))
<1> DEFINE edges == Edges(project)
<1>0. Closed /\ edges = Reach(served, Moved(pin))[Horizon]
  BY SettledIsReal DEF GraphInv
<1> HIDE DEF edges
<1>1. /\ \A e \in edges : /\ e.c[1] \in InGraph /\ e.c = NodeCoord(e.c[1])
                          /\ e.scope \in graph[e.c[1]].scope
      /\ \A n \in InGraph : \E e \in edges : e.c = NodeCoord(n)
      /\ \A n \in InGraph : \A s \in graph[n].scope : \E e \in edges : e.c = NodeCoord(n) /\ e.scope = s
  BY <1>0, ClosedIsReach
<1>2. {NodeCoord(n) : n \in InGraph} = {e.c : e \in edges}
  BY <1>1
<1>3. ASSUME NEW n \in InGraph
      PROVE  graph[n].scope = {e.scope : e \in {f \in edges : f.c[1] = n}}
  <2>1. NodeCoord(n)[1] = n
    BY DEF NodeCoord
  <2>2. ASSUME NEW s \in graph[n].scope PROVE \E e \in edges : e.c[1] = n /\ e.scope = s
    BY <1>1, <2>1, <2>2
  <2>3. \A e \in edges : e.c[1] = n => e.scope \in graph[n].scope
    BY <1>1
  <2> QED
    BY <2>2, <2>3
<1>4. Len(order) = Cardinality(InGraph) /\ {order[i] : i \in DOMAIN order} = InGraph
  <2>1. /\ Asked(order) = InGraph
        /\ \A i, j \in DOMAIN order : order[i] = order[j] => i = j
    BY DEF GraphInv, PlaceInv
  <2>2. order \in Seq(Names) /\ Len(order) \in Nat /\ DOMAIN order = 1 .. Len(order)
    BY LenProperties DEF IInv, TypeOK
  <2>3. {order[i] : i \in DOMAIN order} = InGraph
    BY <2>1 DEF Asked
  <2>4. ExistsBijection(1 .. Len(order), InGraph)
    <3>1. order \in [1 .. Len(order) -> InGraph]
      BY <2>2, <2>3
    <3>2. order \in Injection(1 .. Len(order), InGraph)
      BY <2>1, <2>2, <3>1 DEF Injection, IsInjective
    <3>3. \A n \in InGraph : \E i \in 1 .. Len(order) : order[i] = n
      BY <2>2, <2>3
    <3>4. order \in Surjection(1 .. Len(order), InGraph)
      BY <3>1, <3>3 DEF Surjection
    <3>5. order \in Bijection(1 .. Len(order), InGraph)
      BY <3>2, <3>4 DEF Bijection
    <3> QED
      BY <3>5 DEF ExistsBijection
  <2>5. Cardinality(InGraph) = Len(order)
    BY <2>2, <2>4, FS_CountingElements
  <2> QED
    BY <2>3, <2>5
<1>5. OneEach(edges)
  BY <1>0, ClosedAgrees
<1> QED
  BY <1>2, <1>3, <1>4, <1>5 DEF GraphIsReach, edges

------------------------------------------------------------------------------
(* What was taken for a conflict stays one                                  *)

\* An origin that has answered gives the same answer for good.
LEMMA StepLearns ==
  ASSUME IInv, IInv', [DepNext]_depVars
  PROVE  /\ Answered(served) /\ Answered(served') /\ Learns(served, served')
         /\ project' = project /\ ProjectType(project)
<1>1. TypeOK /\ TypeOK'
  BY DEF IInv
<1>2. Answered(served) /\ Answered(served') /\ ProjectType(project)
  BY <1>1, KnownType, MovedType DEF TypeOK, Answered
<1>3. project' = project
  BY DEF DepNext, Walk, Search, Fetch, Start, VisitSeen, VisitConflict, VisitTooMany, VisitFails,
         VisitRefused, VisitNew, WalkDev, PivotSkipped, PivotListed, Try, TrialSettles, TrialDrops,
         SearchOver, WalkDone, MaterializeSkips, Materialize, MaterializeFails, Provided, SelectOs,
         WalkFails, depVars
<1>4. \/ served' = served
      \/ /\ queue # <<>>
         /\ \E recipe \in Recipes[Coord(Head(queue).req)] : Answers(Coord(Head(queue).req), recipe)
  <2>1. CASE VisitNew \/ VisitRefused
    BY <2>1, Zenon DEF VisitNew, VisitRefused, AtNew
  <2>2. CASE ~(VisitNew \/ VisitRefused)
    BY <2>2 DEF DepNext, Walk, Search, Fetch, Start, VisitSeen, VisitConflict, VisitTooMany, VisitFails,
         WalkDev, PivotSkipped, PivotListed, Try, TrialSettles, TrialDrops,
         SearchOver, WalkDone, MaterializeSkips, Materialize, MaterializeFails, Provided, SelectOs,
         depVars
  <2> QED
    BY <2>1, <2>2
<1>5. Learns(served, served')
  <2>1. CASE served' = served
    BY <2>1 DEF Learns
  <2>2. CASE served' # served
    <3>1. Head(queue) \in Entry
      BY <1>1, <1>4, <2>2, HeadOfQueue
    <3>2. Coord(Head(queue).req) \in Coords
      BY <3>1 DEF Entry, Requirement, Coord, Coords
    <3> QED
      BY <1>1, <1>4, <2>2, <3>2, AnswersLearns
  <2> QED
    BY <2>1, <2>2
<1> QED
  BY <1>2, <1>3, <1>5

\* So an edge of the project stays one.
LEMMA EdgesLearn ==
  ASSUME IInv, IInv', [DepNext]_depVars
  PROVE  Edges(project) \subseteq Edges(project)'
<1>1. /\ Answered(served) /\ Answered(served') /\ Learns(served, served')
      /\ project' = project /\ ProjectType(project)
  BY StepLearns
<1>2. TypeOK /\ Horizon \in Nat
  BY Counts DEF Horizon, IInv
<1>3. Reach(served, project)[Horizon] \subseteq Reach(served', project)[Horizon]
  BY <1>1, <1>2, ReachLearns
<1> QED
  BY <1>1, <1>3 DEF Edges, Horizon

\* The conflict is set where the real walk finds it.
LEMMA ConflictIsSet ==
  ASSUME [DepNext]_depVars
  PROVE  conflict' = conflict \/ conflict' = None \/ (VisitConflict /\ pin = None)
BY DEF DepNext, Walk, Search, Fetch, Start, VisitSeen, VisitConflict, VisitTooMany, VisitFails,
         VisitRefused, VisitNew, WalkDev, PivotSkipped, PivotListed, Try, TrialSettles, TrialDrops,
         SearchOver, WalkDone, MaterializeSkips, Materialize, MaterializeFails, Provided, SelectOs,
         WalkFails, depVars

\* A conflict is made of two edges, and both stay.
LEMMA ConflictStep ==
  ASSUME IInv, IInv', GraphInv, ConflictInv, [DepNext]_depVars
  PROVE  ConflictInv'
<1>1. CASE conflict' = conflict
  BY <1>1, EdgesLearn DEF ConflictInv
<1>2. CASE conflict' = None
  BY <1>2 DEF ConflictInv
<1>3. CASE VisitConflict /\ pin = None
  <2> SUFFICES ASSUME NEW e, e = Head(queue), NEW n, n = e.req.name
               PROVE  ConflictInv'
    OBVIOUS
  <2>1. /\ step = "walk" /\ queue # <<>> /\ graph[n] # None /\ ~Agrees(e.req)
        /\ conflict' = [name |-> n, src |-> graph[n].src, by |-> graph[n].by,
                        other |-> e.req.src, otherBy |-> e.by]
    BY <1>3 DEF VisitConflict, AtSeen, WalkFails
  <2>2. TypeOK /\ Answered(served) /\ ProjectType(project) /\ Moved(pin) = project
    BY <1>3, KnownType, MovedType DEF IInv
  <2>3. e \in Entry /\ e \in Waits
    <3>1. e \in Entry /\ Len(queue) \in Nat \ {0} /\ DOMAIN queue = 1 .. Len(queue) /\ e = queue[1]
      BY <2>1, <2>2, HeadOfQueue
    <3> QED
      BY <3>1 DEF Waits, Asked
  <2>4. n \in InGraph
    BY <2>1, <2>3 DEF Entry, Requirement, InGraph
  <2>5. /\ Horizon \in Nat /\ Cardinality(Names) \in Nat /\ Cardinality(Names) <= Horizon
        /\ \A s : Cardinality(Holding(s)) \in Nat /\ Cardinality(Holding(s)) <= Horizon
    BY <2>2, Counts DEF Horizon
  <2>6. \A k, m \in Nat : k <= m => Reach(served, project)[k] \subseteq Reach(served, project)[m]
    BY <2>2, ReachGrows
  <2>7. /\ AsEdge(e) \in Reach(served, project)[Cardinality(Holding(e.scope))]
        /\ \E f \in Reach(served, project)[Cardinality(Names)] : f.c = NodeCoord(n) /\ f.by = graph[n].by
    BY <2>2, <2>3, <2>4 DEF GraphInv, RealInv
  <2>8. Reach(served, project)[Horizon] = Edges(project)
    BY DEF Horizon, Edges
  <2>9. /\ AsEdge(e) \in Edges(project)
        /\ \E f \in Edges(project) : f.c = NodeCoord(n) /\ f.by = graph[n].by
    BY <2>5, <2>6, <2>7, <2>8
  <2>10. Edges(project) \subseteq Edges(project)'
    BY EdgesLearn
  <2>11. AsEdge(e).c = <<n, e.req.src>> /\ AsEdge(e).by = e.by /\ NodeCoord(n) = <<n, graph[n].src>>
    BY DEF AsEdge, Coord, NodeCoord
  <2>12. graph[n].src # e.req.src
    BY <2>1 DEF Agrees
  <2>13. /\ conflict'.src = graph[n].src /\ conflict'.by = graph[n].by /\ conflict'.name = n
         /\ conflict'.other = e.req.src /\ conflict'.otherBy = e.by
    BY <2>1
  <2> QED
    BY <2>9, <2>10, <2>11, <2>12, <2>13 DEF ConflictInv
<1> QED
  BY <1>1, <1>2, <1>3, ConflictIsSet

------------------------------------------------------------------------------
(* A trial moves a requirement up                                           *)

Above == Releases(RootDep(Claimants[pivot]))

LEMMA SameRoot ==
  ASSUME project' = project
  PROVE  \A name : RootDep(name)' = RootDep(name) /\ RootTable(name)' = RootTable(name)
BY DEF RootDep, RootTable, Declares

\* The search tries no version but those above the declared one.
LEMMA TrialStep ==
  ASSUME IInv, IInv', TrialInv, [DepNext]_depVars
  PROVE  TrialInv'
<1>1. project' = project
  BY StepLearns
<1>2. conflict' = conflict /\ pivot' = pivot => Above' = Above
  BY <1>1 DEF Above, Releases, RootDep, RootTable, Claimants
<1>3. /\ candidates # {} => candidates \subseteq Above
      /\ pin # None => pin.src \in Above
  BY DEF TrialInv, Above
<1> SUFFICES /\ candidates' # {} => candidates' \subseteq Above'
             /\ pin' # None => pin'.src \in Above'
  BY DEF TrialInv, Above
<1> HIDE DEF Above
<1>4. CASE VisitConflict \/ VisitTooMany \/ VisitFails \/ VisitRefused \/ TrialDrops
  <2>1. step = "walk" /\ pin' = None /\ \E claims : WalkFails(claims)
    BY <1>4, Zenon DEF VisitConflict, VisitTooMany, VisitFails, VisitRefused, TrialDrops, WalkFails,
                       EndWalk, AtSeen, AtNew, WalkEnds
  <2>2. \/ pin # None /\ pivot' = NextPivot /\ conflict' = conflict /\ candidates' = candidates
        \/ pin = None /\ candidates' = candidates
    BY <2>1 DEF WalkFails, searchVars
  <2>3. pin = None => candidates = {}
    BY <2>1 DEF IInv, SearchInv
  <2> QED
    BY <1>2, <1>3, <2>1, <2>2, <2>3 DEF NextPivot
<1>5. CASE PivotSkipped
  <2>1. candidates = {} /\ step = "search" /\ candidates' = candidates /\ pin' = pin
    BY <1>5 DEF PivotSkipped, AtPivot, walkVars
  <2>2. pin = None
    BY <2>1 DEF IInv, SearchInv
  <2> QED
    BY <2>1, <2>2
<1>6. CASE PivotListed
  <2>1. /\ step = "search" /\ candidates' = Above /\ pin' = pin /\ conflict' = conflict /\ pivot' = pivot
    BY <1>6 DEF PivotListed, AtPivot, walkVars, Above
  <2>2. pin = None
    BY <2>1 DEF IInv, SearchInv
  <2> QED
    BY <1>2, <2>1, <2>2
<1>7. CASE Try
  <2>1. PICK newest \in candidates :
          /\ candidates' = candidates \ {newest}
          /\ BeginWalk([name |-> Claimants[pivot], src |-> newest])
    BY <1>7 DEF Try
  <2>2. pin'.src = newest /\ conflict' = conflict /\ pivot' = pivot
    BY <1>7, <2>1 DEF Try, BeginWalk
  <2> QED
    BY <1>2, <1>3, <2>1, <2>2
<1>8. CASE Start \/ VisitSeen \/ VisitNew \/ WalkDev \/ TrialSettles \/ SearchOver \/ Fetch
           \/ (\E t \in OSes : SelectOs(t)) \/ UNCHANGED depVars
  <2>1. conflict' = conflict /\ pivot' = pivot /\ candidates' = candidates /\ pin' \in {pin, None}
    BY <1>8 DEF Start, BeginWalk, VisitSeen, VisitNew, WalkDev, TrialSettles, EndWalk, SearchOver, Fetch,
                WalkDone, MaterializeSkips, Materialize, MaterializeFails, Provided, SelectOs,
                depVars, walkVars, searchVars
  <2> QED
    BY <1>2, <1>3, <2>1
<1> QED
  BY <1>4, <1>5, <1>6, <1>7, <1>8 DEF DepNext, Walk, Search

------------------------------------------------------------------------------
(* What is proposed is what was tried                                       *)

\* The table a root requirement was found in, and where.
LEMMA RootDepIs ==
  ASSUME TypeOK, NEW name, RootDep(name) # None, NEW reqs,
         reqs = IF RootTable(name) = "deps" THEN project.deps ELSE project.dev
  PROVE  /\ \E i \in Declares(reqs, name) : RootDep(name) = reqs[i]
         /\ RootTable(name) = "dev" => Declares(project.deps, name) = {}
         /\ RootTable(name) \in {"deps", "dev"}
         /\ \A i, j \in Declares(reqs, name) : i = j
<1>1. \A i, j \in Declares(reqs, name) : i = j
  BY TablesAssumption DEF TypeOK, Declares, NamedOnce
<1>2. Declares(reqs, name) # {} /\ RootDep(name) = reqs[CHOOSE i \in Declares(reqs, name) : TRUE]
  BY DEF RootDep
<1> QED
  BY <1>1, <1>2 DEF RootTable

\* Writing the proposal to Project.toml gives the project its trial walked.
LEMMA EditedIsMoved ==
  ASSUME TypeOK, NEW p \in Pin, RootDep(p.name) # None, FromRegistry(RootDep(p.name)),
         NEW change, change.name = p.name, change.to = p.src, change.table = RootTable(p.name),
         DeclaredOnce(p.name)
  PROVE  Edited(project, change) = Moved(p)
<1>1. project \in [deps : Seq(Requirement), dev : Seq(Requirement)]
  BY ProjectsAssumption DEF TypeOK
<1>2. p # None
  BY NamesAssumption
<1> DEFINE Move(reqs) == [i \in DOMAIN reqs |-> IF reqs[i].name = p.name THEN [reqs[i] EXCEPT !.src = p.src]
                                                ELSE reqs[i]]
<1>3. \A reqs \in Seq(Requirement) : Declares(reqs, p.name) = {} => Pinned(reqs, p) = reqs
  <2> SUFFICES ASSUME NEW reqs \in Seq(Requirement), Declares(reqs, p.name) = {}
               PROVE  Pinned(reqs, p) = reqs
    OBVIOUS
  <2>1. \A i \in DOMAIN reqs : reqs[i].name # p.name
    BY DEF Declares
  <2>2. reqs = [i \in DOMAIN reqs |-> reqs[i]]
    BY LenProperties, SeqDef
  <2> QED
    BY <2>1, <2>2 DEF Pinned
<1>4. ASSUME NEW reqs \in Seq(Requirement), NEW i \in Declares(reqs, p.name),
             RootDep(p.name) = reqs[i], \A j, k \in Declares(reqs, p.name) : j = k
      PROVE  Pinned(reqs, p) = Move(reqs)
  <2>1. \A j \in DOMAIN reqs : reqs[j].name = p.name => FromRegistry(reqs[j])
    BY <1>4 DEF Declares
  <2> QED
    BY <1>2, <2>1 DEF Pinned
<1>5. CASE RootTable(p.name) = "deps"
  <2>1. PICK i \in Declares(project.deps, p.name) : RootDep(p.name) = project.deps[i]
    BY <1>5, RootDepIs
  <2>2. \A j, k \in Declares(project.deps, p.name) : j = k
    BY <1>5, RootDepIs
  <2>3. Pinned(project.deps, p) = Move(project.deps)
    BY <1>1, <1>4, <2>1, <2>2
  <2>4. Declares(project.dev, p.name) = {}
    BY <2>1 DEF DeclaredOnce
  <2>5. Pinned(project.dev, p) = project.dev
    BY <1>1, <1>3, <2>4
  <2>6. Edited(project, change) = [project EXCEPT !.deps = Move(project.deps)]
    BY <1>5 DEF Edited
  <2> HIDE DEF Move
  <2> QED
    BY <1>1, <2>3, <2>5, <2>6 DEF Moved
<1>6. CASE RootTable(p.name) = "dev"
  <2>1. PICK i \in Declares(project.dev, p.name) : RootDep(p.name) = project.dev[i]
    BY <1>6, RootDepIs
  <2>2. \A j, k \in Declares(project.dev, p.name) : j = k
    BY <1>6, RootDepIs
  <2>3. Pinned(project.dev, p) = Move(project.dev)
    BY <1>1, <1>4, <2>1, <2>2
  <2>4. Declares(project.deps, p.name) = {}
    BY <1>6, RootDepIs
  <2>5. Pinned(project.deps, p) = project.deps
    BY <1>1, <1>3, <2>4
  <2>6. Edited(project, change) = [project EXCEPT !.dev = Move(project.dev)]
    BY <1>6 DEF Edited
  <2> HIDE DEF Move
  <2> QED
    BY <1>1, <2>3, <2>5, <2>6 DEF Moved
<1> QED
  BY <1>5, <1>6 DEF RootTable

\* A trial whose walk came to its end is a project that resolves.
LEMMA SettlesHolds ==
  ASSUME IInv, IInv', GraphInv, TrialInv, TrialSettles
  PROVE  ProposalHolds'
<1>1. /\ WalkEnds /\ pin # None /\ graph[conflict.name] # None /\ step = "walk"
      /\ proposal' = [name |-> pin.name, from |-> RootDep(pin.name).src, to |-> pin.src,
                      table |-> RootTable(pin.name), settlesOn |-> graph[conflict.name].src]
      /\ project' = project /\ served' = served /\ conflict' = conflict
  BY DEF TrialSettles, WalkEnds
<1>2. /\ conflict # None /\ pivot \in 1 .. MaxPivots /\ CanVary(pivot) /\ pin.name = Claimants[pivot]
      /\ TypeOK /\ pin \in Pin
  BY <1>1 DEF IInv, SearchInv, TypeOK
<1>3. RootDep(pin.name) # None /\ FromRegistry(RootDep(pin.name)) /\ pin.name \in Names
  BY <1>2 DEF CanVary, Pin
<1>4. RootDep(pin.name).name = pin.name
  BY <1>2, <1>3, RootDepIs DEF Declares
<1>5. pin.src \in Releases(RootDep(pin.name))
  BY <1>1, <1>2 DEF TrialInv
<1>6. RootDep(pin.name).src \in Listed[pin.name] => pin.src > RootDep(pin.name).src
  BY <1>4, <1>5 DEF Releases
<1> DEFINE change == [name |-> pin.name, from |-> RootDep(pin.name).src, to |-> pin.src,
                      table |-> RootTable(pin.name), settlesOn |-> graph[conflict.name].src]
<1>7. /\ change.name = pin.name /\ change.from = RootDep(pin.name).src /\ change.to = pin.src
      /\ change.table = RootTable(pin.name) /\ change.settlesOn = graph[conflict.name].src
      /\ proposal' = change
  BY <1>1
<1> HIDE DEF change
<1>8. conflict.name \in InGraph
  BY <1>1, <1>2 DEF TypeOK, Claim, InGraph
<1>9. ASSUME DeclaredOnce(pin.name), NEW edges, edges = Edges(Edited(project, change))
      PROVE  /\ OneEach(edges)
             /\ \E e \in edges : e.c = <<conflict.name, change.settlesOn>>
             /\ \A e \in edges : served[e.c] # None /\ served[e.c].builds
  <2>1. Edited(project, change) = Moved(pin)
    BY <1>2, <1>3, <1>7, <1>9, EditedIsMoved
  <2>2. edges = Reach(served, Moved(pin))[Horizon]
    BY <1>9, <2>1 DEF Edges, Horizon
  <2>3. Closed
    BY <1>1, EndClosed
  <2>4. /\ \A e \in edges : e.c[1] \in InGraph /\ e.c = NodeCoord(e.c[1])
        /\ \A n \in InGraph : \E e \in edges : e.c = NodeCoord(n)
        /\ \A n \in InGraph : served[NodeCoord(n)] # None /\ served[NodeCoord(n)].builds
    BY <2>2, <2>3, ClosedIsReach
  <2>5. OneEach(edges)
    BY <2>2, <2>3, ClosedAgrees
  <2>6. NodeCoord(conflict.name) = <<conflict.name, change.settlesOn>>
    BY <1>7 DEF NodeCoord
  <2> QED
    BY <1>8, <2>4, <2>5, <2>6
<1>10. \A p : Edges(p)' = Edges(p)
  BY <1>1 DEF Edges, Reach, Further, EdgesBelow, Needs
<1>11. \A name : DeclaredOnce(name)' = DeclaredOnce(name)
  BY <1>1 DEF DeclaredOnce
<1>12. Edited(project, proposal)' = Edited(project, change)
  BY <1>1, <1>7
<1> QED
  BY <1>1, <1>6, <1>7, <1>9, <1>10, <1>11, <1>12 DEF ProposalHolds

\* And nothing is resolved once a proposal is made.
LEMMA ProposalStep ==
  ASSUME IInv, IInv', GraphInv, TrialInv, ProposalInv, [DepNext]_depVars
  PROVE  ProposalInv'
<1>1. CASE TrialSettles
  <2>1. step' = "done"
    BY <1>1 DEF TrialSettles
  <2> QED
    BY <1>1, <2>1, SettlesHolds DEF ProposalInv
<1>2. CASE step = "done"
  <2>1. UNCHANGED <<project, served, conflict, proposal, step>>
    BY <1>2 DEF DepNext, Walk, Search, Fetch, Start, VisitSeen, VisitConflict, VisitTooMany, VisitFails,
         VisitRefused, VisitNew, WalkDev, PivotSkipped, PivotListed, Try, TrialSettles, TrialDrops,
         SearchOver, WalkDone, MaterializeSkips, Materialize, MaterializeFails, Provided, SelectOs,
         AtSeen, AtNew, AtPivot, AtNode, WalkEnds, depVars, searchVars
  <2>2. ProposalHolds' = ProposalHolds
    BY <2>1 DEF ProposalHolds, Edges, Reach, Further, EdgesBelow, Needs, DeclaredOnce
  <2> QED
    BY <2>1, <2>2 DEF ProposalInv
<1>3. CASE ~TrialSettles /\ step # "done"
  <2>1. proposal' = proposal
    BY <1>3 DEF DepNext, Walk, Search, Fetch, Start, VisitSeen, VisitConflict, VisitTooMany, VisitFails,
         VisitRefused, VisitNew, WalkDev, PivotSkipped, PivotListed, Try, TrialDrops,
         SearchOver, WalkDone, MaterializeSkips, Materialize, MaterializeFails, Provided, SelectOs,
         WalkFails, depVars, searchVars
  <2> QED
    BY <1>3, <2>1 DEF ProposalInv
<1> QED
  BY <1>1, <1>2, <1>3

------------------------------------------------------------------------------
(* What is fetched                                                          *)

Decided ==
  \A c \in fetched' \ fetched :
     c[2] \in Versions =>
       LET edges == Edges(project)
       IN OneEach(edges) /\ \E e \in edges : e.c = c /\ Here \in e.os

\* Only materialize fetches what a registry serves, and the graph is settled by then.
LEMMA DecidedStep ==
  ASSUME IInv, GraphInv, [DepNext]_depVars
  PROVE  Decided
<1>1. CASE Materialize
  <2>1. /\ step = "fetch" /\ cursor <= Len(order) /\ Here \in graph[order[cursor]].os
        /\ fetched' = fetched \cup {NodeCoord(order[cursor])}
    BY <1>1 DEF Materialize, AtNode, Skips
  <2>2. Settled /\ Closed /\ Reach(served, Moved(pin))[Horizon] = Edges(project)
    BY <2>1, SettledIsReal DEF Settled, GraphInv
  <2>3. order[cursor] \in InGraph
    <3>1. cursor \in Nat \ {0} /\ DOMAIN order = 1 .. Len(order) /\ Len(order) \in Nat
      BY LenProperties DEF IInv, TypeOK
    <3> QED
      BY <2>1, <3>1 DEF IInv, OrderInv
  <2>4. \E e \in Edges(project) : e.c = NodeCoord(order[cursor]) /\ Here \in e.os
    BY <2>1, <2>2, <2>3, ClosedIsReach
  <2>5. OneEach(Edges(project))
    BY <2>2, SettledGraph
  <2> QED
    BY <2>1, <2>4, <2>5 DEF Decided
<1>2. CASE VisitNew \/ VisitRefused
  <2>1. \A c \in fetched' \ fetched : c[2] \notin Versions
    <3>1. Coord(Head(queue).req)[2] = Head(queue).req.src
      BY DEF Coord
    <3>2. VisitNew => fetched' = IF FromRegistry(Head(queue).req) THEN fetched
                                 ELSE fetched \cup {Coord(Head(queue).req)}
      BY Zenon DEF VisitNew
    <3>3. VisitRefused => fetched' = IF Coord(Head(queue).req)[2] \in Versions THEN fetched
                                     ELSE fetched \cup {Coord(Head(queue).req)}
      BY Zenon DEF VisitRefused
    <3> QED
      BY <1>2, <3>1, <3>2, <3>3 DEF FromRegistry
  <2> QED
    BY <2>1 DEF Decided
<1>3. CASE ~(Materialize \/ VisitNew \/ VisitRefused)
  <2>1. fetched' = fetched
    BY <1>3 DEF DepNext, Walk, Search, Fetch, Start, VisitSeen, VisitConflict, VisitTooMany, VisitFails,
         WalkDev, PivotSkipped, PivotListed, Try, TrialSettles, TrialDrops,
         SearchOver, WalkDone, MaterializeSkips, MaterializeFails, Provided, SelectOs,
         depVars
  <2> QED
    BY <2>1 DEF Decided
<1> QED
  BY <1>1, <1>2, <1>3

\* It all holds before the resolution starts.
LEMMA InitDeep ==
  ASSUME DepInit
  PROVE  DeepInv
<1>1. ConflictInv /\ TrialInv /\ ProposalInv
  BY DEF DepInit, ConflictInv, TrialInv, ProposalInv
<1> QED
  BY <1>1, InitGraph DEF DeepInv

------------------------------------------------------------------------------
(* The theorems                                                             *)

\* The strengthening holds in every state a resolution reaches.
THEOREM Invariance == DepSpec => []IInv
<1>0. Assumptions
  BY NamesAssumption, VersionsAssumption, BoundsAssumption, RecipesAssumption,
     ProjectsAssumption, ListedAssumption DEF Assumptions
<1>1. DepInit => IInv
  BY <1>0, InitInv
<1>2. IInv /\ [DepNext]_depVars => IInv'
  BY <1>0, NextInv
<1>. QED
  BY <1>1, <1>2, PTL DEF DepSpec

\* Whatever the recipes say and whatever fails, every variable keeps its type; in
\* particular no entry, node or proposal is ever made of something absent.
THEOREM TypesHold == DepSpec => []TypeOK
<1>1. IInv => TypeOK
  BY DEF IInv
<1>. QED
  BY <1>1, Invariance, PTL

\* However many packages there are and however they need each other, in cycles or
\* from both tables, a resolution that ends well leaves no requirement unmet.
THEOREM NothingIsMissing == DepSpec => []NothingMissing
<1>1. IInv => NothingMissing
  BY DEF IInv
<1>. QED
  BY <1>1, Invariance, PTL

\* The walk, the search and the fetches keep the graph to what the recipes say.
THEOREM DeepInvariance == DepSpec => [](IInv /\ DeepInv)
<1>1. DepInit => IInv /\ DeepInv
  <2>1. Assumptions
    BY NamesAssumption, VersionsAssumption, BoundsAssumption, RecipesAssumption,
       ProjectsAssumption, ListedAssumption DEF Assumptions
  <2> QED
    BY <2>1, InitInv, InitDeep
<1>2. IInv /\ DeepInv /\ [DepNext]_depVars => (IInv /\ DeepInv)'
  <2>1. Assumptions
    BY NamesAssumption, VersionsAssumption, BoundsAssumption, RecipesAssumption,
       ProjectsAssumption, ListedAssumption DEF Assumptions
  <2> SUFFICES ASSUME IInv, DeepInv, [DepNext]_depVars PROVE IInv' /\ DeepInv'
    OBVIOUS
  <2>2. IInv'
    BY <2>1, NextInv
  <2> QED
    BY <2>2, GraphStep, ConflictStep, TrialStep, ProposalStep DEF DeepInv
<1> QED
  BY <1>1, <1>2, PTL DEF DepSpec

\* However the packages need each other, a graph that settles has each package once, the
\* packages the two tables reach and no other, each in exactly the scopes it is reached in; and
\* the two claims of a conflict are both there (dep_graph_resolve_with, widen_scope,
\* report_conflict).
THEOREM GraphHolds == DepSpec => []GraphIsTrue
<1>1. IInv /\ DeepInv => GraphIsTrue
  <2> SUFFICES ASSUME IInv, DeepInv PROVE GraphIsTrue
    OBVIOUS
  <2>1. TypeOK /\ NothingMissing
    BY DEF IInv
  <2>2. GraphIsReach
    BY SettledGraph DEF DeepInv, GraphIsReach
  <2>3. ConflictIsReal
    <3>1. Settled => OneEach(Edges(project))
      BY SettledGraph DEF DeepInv
    <3> QED
      BY <3>1 DEF DeepInv, ConflictInv, ConflictIsReal
  <2> QED
    BY <2>1, <2>2, <2>3 DEF GraphIsTrue
<1> QED
  BY <1>1, DeepInvariance, PTL

\* Whatever release a search tries, what it proposes, once written to Project.toml, resolves: no
\* conflict is left, every recipe is known, and the package in conflict is the one the message
\* names; and it is no downgrade (conflict_search, candidate_settles_it).
THEOREM ProposalsHold == DepSpec => []ProposalHolds
<1>1. DeepInv => ProposalHolds
  BY DEF DeepInv, ProposalInv, ProposalHolds
<1> QED
  BY <1>1, DeepInvariance, PTL

\* No step of the walk or of a trial downloads what a registry serves: only materialize does, of
\* a graph that is known whole and agrees, and only what this machine's system takes part of.
THEOREM FetchesAreDecided == DepSpec => FetchedIsDecided
<1>1. IInv /\ DeepInv /\ [DepNext]_depVars => [Decided]_depVars
  BY DecidedStep DEF DeepInv
<1>2. DepSpec => [][Decided]_depVars
  BY <1>1, DeepInvariance, PTL DEF DepSpec
<1> QED
  BY <1>2 DEF FetchedIsDecided, Decided
==============================================================================
