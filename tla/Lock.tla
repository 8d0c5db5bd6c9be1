-------------------------------- MODULE Lock ----------------------------------
(***************************************************************************)
(* Molto.lock (project/lockfile.c) and what happens before a build starts  *)
(* (services/build_prepare.c): the lock is read and kept if it still fits  *)
(* the manifest, the dependencies are resolved, a conflict may be settled  *)
(* by editing the manifest (conflict_prompt.c, manifest_edit.c), what came *)
(* back is held against the lock, and a new lock is written.               *)
(*                                                                         *)
(* A coordinate is a name, a kind of origin and what the origin is asked   *)
(* for: a version, a URL with its reference, a directory.  The manifest is *)
(* the set of the coordinates that both tables declare.  Resolving, which  *)
(* DepGraph models, is here what the manifest reaches.  One molto runs.    *)
(***************************************************************************)
EXTENDS Naturals

CONSTANTS
  Coords,       \* {[name, kind, id]}: every coordinate somebody may declare
  DepsOf,       \* [Coords -> what the recipe of each may ask for]
  None,         \* no checksum
  Tears,        \* what a lock cut short can look like: "unreadable", "short"
  MaxEdits,     \* bound: times the developer edits
  MaxRewrites,  \* bound: times something else is served for a coordinate
  MaxFaults     \* bound: builds that are cut off

Names == {c.name : c \in Coords}
Kinds == {"registry", "git", "path"}

ASSUME CoordsAssumption == \A c \in Coords : c.kind \in Kinds
ASSUME DepsAssumption == \A c \in Coords : DepsOf[c] \subseteq SUBSET Coords
ASSUME LockBoundsAssumption ==
  /\ MaxEdits \in Nat /\ MaxRewrites \in Nat /\ MaxFaults \in Nat
  /\ Tears \subseteq {"unreadable", "short"}

ASSUME NoneAssumption == None \notin Nat

VARIABLES
  manifest, edits,   \* Project.toml on disk
  up, rewrites,      \* what each coordinate serves: [deps, sum]
  lock,              \* Molto.lock as it would be read: empty when there is none, or none that parses
  faults,
  pc, ctx,           \* where the build is; the manifest it has in hand
  held,              \* the lock it holds the resolution against, if not empty
  graph,             \* the packages it resolved
  attempt,
  record             \* history: what the lock on disk was written from, when it was written whole

molto == <<pc, ctx, held, graph, attempt>>
world == <<manifest, edits, up, rewrites, faults>>
vars == <<manifest, edits, up, rewrites, lock, faults, pc, ctx, held, graph, attempt, record>>

OneEach(m) == \A c, d \in m : c.name = d.name => c = d
Manifests == {m \in SUBSET Coords : OneEach(m)}

\* What following `next` from s reaches: what is in every set that holds s and is
\* closed under it.
Closed(next, t) == \A c \in t : next[c] \subseteq t
Beyond(s, next) ==
  LET around == {t \in SUBSET DOMAIN next : s \subseteq t /\ Closed(next, t)}
  IN {c \in DOMAIN next : \A t \in around : c \in t}

Reached(m) == Beyond(m, [c \in Coords |-> up[c].deps])
Conflicted(m) == ~OneEach(Reached(m))

\* A package of the graph, as it was served; and as a lock records it: what the
\* registry serves has a checksum, what a package asks for is listed by name.
Node(c) == [coord |-> c, was |-> up[c]]
Sum(n) == IF n.coord.kind = "registry" THEN n.was.sum ELSE None
Rendered(n) == [coord |-> n.coord, sum |-> Sum(n), needs |-> {d.name : d \in n.was.deps}]

Unwritten == [for |-> {}, graph |-> {}]

Init ==
  /\ manifest \in Manifests
  /\ up \in {u \in [Coords -> [deps : UNION {DepsOf[c] : c \in Coords}, sum : {1}]] :
               \A c \in Coords : u[c].deps \in DepsOf[c]}
  /\ edits = 0 /\ rewrites = 0 /\ faults = 0
  /\ lock = {} /\ record = Unwritten
  /\ pc = "idle" /\ ctx = {} /\ held = {} /\ graph = {} /\ attempt = 1

------------------------------------------------------------------------------
(* Reading the lock                                                         *)

Locked(l, name) == {p \in l : p.coord.name = name}

\* Slip: a dependency that is locked fits, whatever version it is locked at.
DeclarationMatchesAny(l, c) == Locked(l, c.name) # {}

\* declaration_matches: a version and a git reference are compared; any other
\* origin fits as soon as the name is locked.
DeclarationMatches(l, c) ==
  \E p \in Locked(l, c.name) : c.kind \in {"registry", "git"} => p.coord = c

\* Slip: only what the manifest names itself counts as still reached.
MarkedDirect(l, m) == UNION {Locked(l, c.name) : c \in m}

\* mark_reachable: along the lock's own edges, past a name it does not have.
Marked(l, m) ==
  LET listed == [p \in l |-> UNION {Locked(l, n) : n \in p.needs}]
  IN Beyond(UNION {Locked(l, c.name) : c \in m}, listed)

\* lockfile_matches
Matches(l, m) ==
  /\ \A c \in m : DeclarationMatches(l, c)
  /\ Marked(l, m) = l

\* A project without dependencies neither reads a lock nor writes one.
Start ==
  /\ pc = "idle" /\ manifest # {}
  /\ pc' = "resolve"
  /\ ctx' = manifest
  /\ held' = IF Matches(lock, manifest) THEN lock ELSE {}
  /\ attempt' = 1
  /\ UNCHANGED <<world, lock, graph, record>>

------------------------------------------------------------------------------
(* Resolving, or asking                                                     *)

Resolve ==
  /\ pc = "resolve"
  /\ ~Conflicted(ctx)
  /\ graph' = {Node(c) : c \in Reached(ctx)}
  /\ pc' = "verify"
  /\ UNCHANGED <<world, lock, ctx, held, attempt, record>>

\* A proposal moves one direct version to another that settles the conflict.
Proposals ==
  {p \in ctx \X Coords :
     /\ p[1].kind = "registry" /\ p[2].kind = "registry" /\ p[2].name = p[1].name
     /\ p[2] # p[1]
     /\ ~Conflicted((ctx \ {p[1]}) \cup {p[2]})}

\* The answer is yes: the entry is replaced in the file, which is read again.
Accept ==
  /\ pc = "resolve" /\ attempt = 1
  /\ Conflicted(ctx)
  /\ \E p \in Proposals :
       manifest' = {c \in manifest : c.name # p[1].name} \cup {p[2]}
  /\ ctx' = manifest'
  /\ attempt' = 2
  /\ UNCHANGED <<edits, up, rewrites, lock, faults, pc, held, graph, record>>

\* No proposal, nobody to ask, a no, a second conflict.
GiveUp ==
  /\ pc = "resolve"
  /\ Conflicted(ctx)
  /\ pc' = "idle"
  /\ UNCHANGED <<world, lock, ctx, held, graph, attempt, record>>

------------------------------------------------------------------------------
(* Holding the resolution against the lock                                  *)

\* lockfile_verify, for one package of the graph.
Verifies(l, n) ==
  \E p \in Locked(l, n.coord.name) :
    /\ p.coord = n.coord
    /\ p.sum # None /\ Sum(n) # None => p.sum = Sum(n)

Fits == held # {} => \A n \in graph : Verifies(held, n)

Accepted ==
  /\ pc = "verify"
  /\ Fits
  /\ pc' = "write"
  /\ UNCHANGED <<world, lock, ctx, held, graph, attempt, record>>

Refused ==
  /\ pc = "verify"
  /\ ~Fits
  /\ pc' = "refused"
  /\ UNCHANGED <<world, lock, ctx, held, graph, attempt, record>>

\* The refusal is the end of that build.
Report ==
  /\ pc = "refused"
  /\ pc' = "idle"
  /\ UNCHANGED <<world, lock, ctx, held, graph, attempt, record>>

------------------------------------------------------------------------------
(* Writing the lock, in place                                               *)

Write ==
  /\ pc = "write"
  /\ lock' = {Rendered(n) : n \in graph}
  /\ record' = [for |-> ctx, graph |-> graph]
  /\ pc' = "idle"
  /\ UNCHANGED <<world, ctx, held, graph, attempt>>

\* A lock that was cut between two lines parses: the packages that came after
\* the cut are missing, and the last one before it may have lost its tail.
Short ==
  LET whole == {Rendered(n) : n \in graph}
      cut == {[p EXCEPT !.sum = None, !.needs = {}] : p \in whole} IN
  {l \in SUBSET (whole \cup cut) : \A p, q \in l : p.coord = q.coord => p = q}

\* The disk is full, or the process ends: the old lock was truncated first.
WriteFails ==
  /\ pc = "write"
  /\ faults < MaxFaults /\ faults' = faults + 1
  /\ lock' \in UNION {IF t = "short" THEN Short ELSE {{}} : t \in Tears}
  /\ record' = Unwritten
  /\ pc' = "idle"
  /\ UNCHANGED <<manifest, edits, up, rewrites, ctx, held, graph, attempt>>

\* The registry or the cache fails, or the process ends, before the lock is touched.
Stop ==
  /\ pc \in {"resolve", "verify", "write"}
  /\ faults < MaxFaults /\ faults' = faults + 1
  /\ pc' = "idle"
  /\ UNCHANGED <<manifest, edits, up, rewrites, lock, ctx, held, graph, attempt, record>>

------------------------------------------------------------------------------
(* The developer, and everybody upstream                                    *)

Edit ==
  /\ edits < MaxEdits /\ edits' = edits + 1
  /\ \E name \in Names, new \in Manifests :
       /\ \A c \in new : c.name = name
       /\ manifest' = {c \in manifest : c.name # name} \cup new
       /\ manifest' # manifest
  /\ UNCHANGED <<up, rewrites, lock, faults, molto, record>>

\* "Delete Molto.lock to accept it": not while a build runs.
DeleteLock ==
  /\ pc = "idle"
  /\ edits < MaxEdits /\ edits' = edits + 1
  /\ lock # {}
  /\ lock' = {} /\ record' = Unwritten
  /\ UNCHANGED <<manifest, up, rewrites, faults, molto>>

\* A registry serves other bytes, a branch moves, a directory is worked in.
Rewrite(c) ==
  /\ rewrites < MaxRewrites /\ rewrites' = rewrites + 1
  /\ \E deps \in DepsOf[c] :
       up' = [up EXCEPT ![c] = [deps |-> deps, sum |-> @.sum + 1]]
  /\ UNCHANGED <<manifest, edits, lock, faults, molto, record>>

Build == Start \/ Resolve \/ Accept \/ GiveUp \/ Accepted \/ Refused \/ Report
         \/ Write \/ WriteFails \/ Stop
Next == Build \/ Edit \/ DeleteLock \/ \E c \in Coords : Rewrite(c)
Spec == Init /\ [][Next]_vars

------------------------------------------------------------------------------
(* What the lock is for                                                     *)

IsLock(l) == \A p \in l : p.coord \in Coords /\ p.needs \subseteq Names

\* Every variable keeps its type; a manifest and a lock name a package once.
TypeOK ==
  /\ OneEach(manifest) /\ manifest \subseteq Coords
  /\ \A c \in Coords : up[c].deps \in DepsOf[c] /\ up[c].sum \in 1 .. (MaxRewrites + 1)
  /\ IsLock(lock) /\ OneEach({p.coord : p \in lock})
  /\ IsLock(held)
  /\ pc \in {"idle", "resolve", "verify", "refused", "write"}
  /\ \A n \in graph : n.was.deps \in DepsOf[n.coord]
  /\ attempt \in 1 .. 2

\* The lock makes a build contain the same bytes: one that goes ahead for the
\* manifest the lock was written for has every package at the coordinate that was
\* recorded, with the checksum that was recorded, and no package besides.  Not so
\* for a manifest that molto itself edited: the lock is not looked at again.
SameBytes ==
  pc = "write" /\ attempt = 1 /\ record.for = ctx =>
     \A n \in graph : \E r \in record.graph : r.coord = n.coord /\ Sum(r) = Sum(n)

\* A resolution is refused for one reason only: something the lock recorded is
\* served differently now, or asks for something else (lockfile_verify).  A
\* manifest that was edited is resolved again (lockfile_matches).
RefusalMeansRewritten ==
  pc = "refused" => \E r \in record.graph : up[r.coord] # r.was

\* A lock that was written whole fits the manifest it was written for, until the
\* manifest changes: the next build is held against it.
Settles ==
  pc = "idle" /\ manifest # {} /\ record.for = manifest => Matches(lock, manifest)

\* A lock holds a project to the bytes it was resolved with: it fits the manifest it was written
\* for, and while it does a build is let through with the recorded sums only.
LockIsSound == TypeOK /\ Settles /\ SameBytes
=============================================================================
