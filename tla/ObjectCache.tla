----------------------------- MODULE ObjectCache -------------------------------
(***************************************************************************)
(* The objects that projects share (services/object_cache.c), beside the   *)
(* configuration of the packages they are compiled from: a dependency's    *)
(* object is looked for under its source, its command and the stamp of the *)
(* configured tree, compiled when there is none, and offered under the key *)
(* as it is by then (build_compile.c).                                     *)
(*                                                                         *)
(* A build is that of a project of its own, with nothing compiled yet.  An *)
(* object is the compiler and the tree it was made from; what else is in   *)
(* the command follows from what the build resolved and is in it verbatim. *)
(***************************************************************************)
EXTENDS Configure

CONSTANT Missing   \* no entry, no object

VARIABLES
  unit,      \* the package a build compiles, by its place in Order
  phase,     \* where it is with it
  entry,     \* objects/<source>-<key>.o, by package and key
  staging,   \* <entry>.<pid>, by build
  object,    \* the project's object of each package, by build
  spoilt     \* history: packages compiled although a configuration with another setting had
             \* been cut off over their files

shared == <<unit, phase, entry, staging, object, spoilt>>
cvars == <<vars, shared>>

Stamps == {None, Torn} \cup {Fingerprint(u, s) : u \in Units, s \in UNION {w.settings : w \in Worlds}}
Compilers == {s.cc : s \in UNION {w.settings : w \in Worlds}}
Keys == Units \X Compilers \X Stamps

CInit ==
  /\ Init
  /\ unit = [b \in Builds |-> 1]
  /\ phase = [b \in Builds |-> "look"]
  /\ entry = [k \in Keys |-> Missing]
  /\ staging = [b \in Builds |-> Missing]
  /\ object = [b \in Builds |-> [u \in Units |-> Missing]]
  /\ spoilt = {}

Of(b) == Order[unit[b]]

\* Slip: how a tree was configured is not in the key.
KeyAsFetched(b) == <<Of(b), chosen[b].cc, None>>

\* object_cache_path: where the source is, the command without its outputs, and the stamp if
\* it can be read.
Key(b) == <<Of(b), chosen[b].cc, stamp[Of(b)]>>

Move(b, to) == phase' = [phase EXCEPT ![b] = to]
Put(b, what) == object' = [object EXCEPT ![b][Of(b)] = what]

\* The next object, when this one is there.
Onward(b) ==
  IF unit[b] < Len(Order) THEN unit' = [unit EXCEPT ![b] = @ + 1] /\ Move(b, "look")
  ELSE UNCHANGED unit /\ Move(b, "done")

Compiling(b, at_) == pc[b] = "compile" /\ phase[b] = at_

\* object_cache_take: the entry is opened and copied; it is not rewritten while it is read, for
\* a new one is renamed over it.
Look(b) ==
  /\ Compiling(b, "look")
  /\ IF entry[Key(b)] = Missing THEN Move(b, "compile") /\ UNCHANGED <<unit, object>>
     ELSE Put(b, entry[Key(b)]) /\ Onward(b)
  /\ UNCHANGED <<vars, entry, staging, spoilt>>

CompileObject(b) ==
  /\ Compiling(b, "compile")
  /\ Put(b, [cc |-> chosen[b].cc, tree |-> tree[Of(b)]])
  /\ Move(b, "stage")
  /\ spoilt' = IF cut[Of(b)] \subseteq {chosen[b]} THEN spoilt ELSE spoilt \cup {Of(b)}
  /\ UNCHANGED <<vars, unit, entry, staging>>

\* object_cache_put, under the key as it is now: best effort, so a copy that fails is one that
\* is not offered.
Stage(b) ==
  /\ Compiling(b, "stage")
  /\ staging' = [staging EXCEPT ![b] = <<Key(b), object[b][Of(b)]>>]
  /\ Move(b, "replace")
  /\ UNCHANGED <<vars, unit, entry, object, spoilt>>
Replace(b) ==
  /\ Compiling(b, "replace")
  /\ entry' = [entry EXCEPT ![staging[b][1]] = staging[b][2]]
  /\ staging' = [staging EXCEPT ![b] = Missing]
  /\ Onward(b)
  /\ UNCHANGED <<vars, object, spoilt>>
NotOffered(b) ==
  /\ Compiling(b, "stage") /\ Blame("save")
  /\ staging' = [staging EXCEPT ![b] = Missing]
  /\ Onward(b)
  /\ UNCHANGED <<world, disk, holder, pc, at, chosen, got, completed, cut, entry, object, spoilt>>

\* Another project, with nothing compiled.
Project(b) ==
  /\ Begin(b)
  /\ unit' = [unit EXCEPT ![b] = 1]
  /\ Move(b, "look")
  /\ object' = [object EXCEPT ![b] = [u \in Units |-> Missing]]
  /\ UNCHANGED <<entry, staging, spoilt>>

CStep(b) ==
  \/ Look(b) \/ CompileObject(b) \/ Stage(b) \/ Replace(b)
  \/ Step(b) /\ (pc[b] = "compile" => phase[b] = "done") /\ UNCHANGED shared

CNext ==
  \E b \in Builds : Project(b) \/ CStep(b) \/ NotOffered(b) \/ (Fault(b) /\ UNCHANGED shared)

CSpec == CInit /\ [][CNext]_cvars
               /\ (\A b \in Builds : WF_cvars(CStep(b)))
               /\ WF_cvars(\E b \in Builds : Project(b))

------------------------------------------------------------------------------
\* A build links, for every package, the object that its own compiler makes of the source as
\* this build configured it, although projects that resolved something else take and offer
\* objects under the same sources (take_from_object_cache, share_in_object_cache).  Only of a
\* package that was once compiled over another setting's cut-off configuration is nothing said:
\* what came of it is in the cache for good.
ObjectsAreOwn ==
  \A b \in Builds : pc[b] = "compile" /\ phase[b] = "done" =>
    \A u \in Units \ spoilt : object[b][u] = [cc |-> chosen[b].cc, tree |-> Asked(u, chosen[b])]

\* The comment at build_compile.c:450: the configuration is in the key, so an entry under a key is
\* an object of that configuration.
EntryIsItsKey ==
  \A u \in Units, s \in world.settings :
    LET key == <<u, s.cc, Fingerprint(u, s)>>
    IN  entry[key] # Missing => entry[key].tree = Asked(u, s)
=============================================================================
