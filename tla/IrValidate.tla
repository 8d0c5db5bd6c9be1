------------------------------ MODULE IrValidate -------------------------------
(***************************************************************************)
(* What the engine refuses to lower (services/ir_validate.c): a document   *)
(* is held to the directories that the caller authorised, to a graph of    *)
(* targets that can be built, and, when a plugin wrote it, to options that *)
(* a plugin may name.                                                      *)
(*                                                                         *)
(* A path is the sequence of its segments, "/" first when it is absolute.  *)
(***************************************************************************)
EXTENDS Integers, Sequences, FiniteSets, SequencesExt, TLC

CONSTANTS
  Forbidden,   \* the options that no plugin may name
  Real         \* the filesystem: from the normal paths that exist to what is behind their links

IsAbsolute(path) == path # <<>> /\ Head(path) = "/"

\* `.` and `..` collapsed without looking at the disk; a `..` that climbs out of a relative path
\* is kept, so that anchoring it later still walks out.
Collapse(absolute, segments) ==
  FoldLeft(LAMBDA sofar, segment :
             CASE segment = "." -> sofar
               [] segment = ".." /\ sofar # <<>> /\ Last(sofar) # ".." -> Front(sofar)
               [] segment = ".." /\ absolute -> sofar
               [] OTHER -> Append(sofar, segment),
           <<>>, segments)
Normalise(path) ==
  IF IsAbsolute(path) THEN <<"/">> \o Collapse(TRUE, Tail(path))
  ELSE IF Collapse(FALSE, path) = <<>> THEN <<".">> ELSE Collapse(FALSE, path)

Inside(path, root) == root # <<>> /\ IsPrefix(root, path)

Anchor(path, base) == IF IsAbsolute(path) THEN Normalise(path) ELSE Normalise(base \o path)

\* Each bound as it is written and with its links followed, one that is not there as itself.
Behind(path) == IF path \in DOMAIN Real THEN Real[path] ELSE path
Bounds(bounds) == {Normalise(root) : root \in bounds}
Within(path, bounds) == \E root \in Bounds(bounds) : Inside(path, root) \/ Inside(path, Behind(root))
WithinThroughLinks(path, bounds) ==
  path \in DOMAIN Real => \E root \in Bounds(bounds) : Inside(Real[path], Behind(root))

PathAllowed(path, base, bounds) ==
  path # <<>> /\ Within(Anchor(path, base), bounds) /\ WithinThroughLinks(Anchor(path, base), bounds)

OptionsAllowed(options) == \A i \in DOMAIN options : options[i].value \notin Forbidden

------------------------------------------------------------------------------
(* The graph of targets                                                      *)

Targets(doc) == DOMAIN doc.targets
Named(doc, name) == {i \in Targets(doc) : doc.targets[i].name = name}
FindTarget(doc, name) == IF Named(doc, name) = {} THEN 0 ELSE CHOOSE i \in Named(doc, name) : \A j \in Named(doc, name) : i <= j

NamesAreUnique(doc) == \A i, j \in Targets(doc) : doc.targets[i].name = doc.targets[j].name => i = j

\* acyclic_from: depth first, over the marks of what is open and what is done.
RECURSIVE AcyclicFrom(_, _, _), AcyclicOver(_, _, _)
AcyclicOver(doc, names, state) ==
  IF names = <<>> \/ ~state.ok THEN state
  ELSE AcyclicOver(doc, Tail(names),
         IF FindTarget(doc, Head(names)) = 0 THEN [state EXCEPT !.ok = FALSE]
         ELSE AcyclicFrom(doc, FindTarget(doc, Head(names)), state))

AcyclicFrom(doc, index, state) ==
  CASE index \in state.done -> state
    [] index \in state.open -> [state EXCEPT !.ok = FALSE]
    [] OTHER -> LET below == AcyclicOver(doc, doc.targets[index].depends_on,
                                         [state EXCEPT !.open = @ \cup {index}])
                IN  [below EXCEPT !.open = @ \ {index}, !.done = @ \cup {index}]

GraphIsSound(doc) ==
  /\ NamesAreUnique(doc)
  /\ FoldLeft(LAMBDA state, i : IF state.ok THEN AcyclicFrom(doc, i, state) ELSE state,
              [ok |-> TRUE, open |-> {}, done |-> {}], [i \in Targets(doc) |-> i]).ok

------------------------------------------------------------------------------
(* The document                                                              *)

PackageOf(doc, target) ==
  {i \in DOMAIN doc.dependencies : target.package # <<>> /\ doc.dependencies[i].name = target.package[1]}
BaseOf(doc, target) ==
  IF target.package = <<>> THEN doc.root
  ELSE doc.dependencies[CHOOSE i \in PackageOf(doc, target) : \A j \in PackageOf(doc, target) : i <= j].root

IsFromPlugin(doc) == doc.origin # "native"

IncludesAllowed(includes, base, bounds) ==
  \A i \in DOMAIN includes : PathAllowed(includes[i].value, base, bounds)

TargetAllowed(doc, target, bounds, build) ==
  /\ target.package # <<>> => PackageOf(doc, target) # {}
  /\ \A i \in DOMAIN target.sources : PathAllowed(target.sources[i].path, BaseOf(doc, target), bounds)
  /\ IncludesAllowed(target.includes, BaseOf(doc, target), bounds)
  /\ \A i \in DOMAIN target.artifact : Inside(Anchor(target.artifact[i].path, Normalise(build)), Normalise(build))
  /\ IsFromPlugin(doc) =>
       /\ \A i \in DOMAIN target.sources : OptionsAllowed(target.sources[i].options)
       /\ OptionsAllowed(target.options) /\ OptionsAllowed(target.links)

DependencyAllowed(doc, dep, bounds) ==
  /\ PathAllowed(dep.root, <<".">>, bounds)
  /\ IncludesAllowed(dep.includes, dep.root, bounds)
  /\ IsFromPlugin(doc) => OptionsAllowed(dep.options) /\ OptionsAllowed(dep.links)

\* build is one of the bounds; the others are the workspace, the cache and what was resolved.
Validates(doc, others, build) ==
  LET bounds == others \cup {build}
  IN  /\ PathAllowed(doc.root, <<".">>, bounds)
      /\ GraphIsSound(doc)
      /\ \A i \in Targets(doc) : TargetAllowed(doc, doc.targets[i], bounds, build)
      /\ \A i \in DOMAIN doc.dependencies : DependencyAllowed(doc, doc.dependencies[i], bounds)

------------------------------------------------------------------------------
(* What the two are to mean                                                  *)

\* The edges between the targets, each named by its place.
Edges(doc) ==
  [i, j \in Targets(doc) |-> doc.targets[j].name \in ToSet(doc.targets[i].depends_on)]

\* The targets can be put in an order where each comes after what it depends on.
Buildable(doc) ==
  /\ Cardinality({doc.targets[i].name : i \in Targets(doc)}) = Len(doc.targets)
  /\ \A i \in Targets(doc) : ToSet(doc.targets[i].depends_on) \subseteq {doc.targets[j].name : j \in Targets(doc)}
  /\ \E order \in Permutations(Targets(doc)) :
       \A i, j \in Targets(doc) : Edges(doc)[i, j] => order[j] < order[i]

\* Where a walk through the segments of a path ends, in a tree without links.
RECURSIVE Walk(_, _)
Walk(at, segments) ==
  IF segments = <<>> THEN at
  ELSE Walk(CASE Head(segments) \in {".", "/"} -> at
              [] Head(segments) = ".." -> IF at = <<>> THEN at ELSE Front(at)
              [] OTHER -> Append(at, Head(segments)), Tail(segments))
=============================================================================
