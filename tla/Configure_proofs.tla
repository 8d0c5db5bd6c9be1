--------------------------- MODULE Configure_proofs ----------------------------
(***************************************************************************)
(* What is proved of Configure and ObjectCache, as they run together, for  *)
(* any packages, builds and faults: a configuration that builds share is   *)
(* run once; and if they share the setting, or do not overlap, a build     *)
(* compiles what its own setting configured and links the objects of it,   *)
(* unless another's configuration was cut off over the files.              *)
(***************************************************************************)
EXTENDS ObjectCache, FiniteSetTheorems, TLAPS

------------------------------------------------------------------------------
(* The inductive invariants                                                 *)

Holding == {"check", "libraries", "run", "targets", "stamp", "release", "read", "generate", "keep"}
Changing == {"libraries", "run", "targets", "stamp"}

\* Who is at a package has its lock, and while it configures it anew there is no list, and the
\* stamp is not the one that it wants.
LockInv ==
  \A b \in Builds :
    /\ pc[b] \in Holding => holder[Order[at[b]]] = b
    /\ pc[b] \in Changing =>
         list[Order[at[b]]] = None /\ stamp[Order[at[b]]] # Fingerprint(Order[at[b]], chosen[b])
    /\ pc[b] \in {"lines", "read", "generate", "keep"} => Recipe[Order[at[b]]].sources # "recipe"
    /\ pc[b] = "compile" => at[b] = Len(Order)

\* A configuration that ended well and has no stamp was cut off.
Standing(u) == \/ \E s \in world.settings : stamp[u] = Fingerprint(u, s)
               \/ \E b \in Builds : pc[b] = "stamp" /\ Order[at[b]] = u
OnceInv ==
  Cardinality(world.settings) = 1 =>
    \A u \in Units : completed[u] <= faults + 1 /\ (~Standing(u) => completed[u] <= faults)

\* Builds share the setting; or they do not overlap, and settings that have one fingerprint
\* ask for one tree.
Same(w) == \A s, t \in w.settings : s = t
Tells(w) ==
  \A u \in Units : \A s, t \in w.settings : Fingerprint(u, s) = Fingerprint(u, t) => Asked(u, s) = Asked(u, t)
Harmless(w) == Same(w) \/ (w.apart /\ Tells(w))

AgreeInv ==
  /\ Harmless(world)
  /\ world.apart => \A b, c \in Builds : pc[b] # "out" /\ pc[c] # "out" => b = c

\* A stamp tells the tree, and the list beside it, unless that is being configured anew or was
\* cut off; and it is never the stamp of a setting that was.
TreeInv ==
  /\ \A u \in Units, s \in world.settings : stamp[u] = Fingerprint(u, s) /\ cut[u] = {} =>
       /\ tree[u] = Asked(u, s) \/ \E b \in Builds : pc[b] \in {"targets", "stamp"} /\ Order[at[b]] = u
       /\ list[u] \in {None, Asked(u, s)}
  /\ \A b \in Builds : pc[b] = "stamp" => tree[Order[at[b]]] = Asked(Order[at[b]], chosen[b])
CutInv == \A u \in Units : \A s \in cut[u] : stamp[u] # Fingerprint(u, s)

\* The packages a build has configured, and those it has read the list of.
Passed(b, i) ==
  i < at[b] \/ (i = at[b] /\ pc[b] \in {"release", "lines", "read", "generate", "keep", "done", "compile"})
Learned(b, i) == i < at[b] \/ (i = at[b] /\ pc[b] \in {"generate", "keep", "done", "compile"})
Settled(b) ==
  pc[b] # "out" => \A i \in 1..Len(Order) :
    /\ Passed(b, i) => stamp[Order[i]] = Fingerprint(Order[i], chosen[b])
    /\ Passed(b, i) /\ cut[Order[i]] = {} => tree[Order[i]] = Asked(Order[i], chosen[b])
    /\ Learned(b, i) /\ Recipe[Order[i]].sources # "recipe" /\ cut[Order[i]] = {} =>
         got[b][Order[i]] = Asked(Order[i], chosen[b])
DoneInv == \A b \in Builds : Settled(b)

BaseInv == TypeOK /\ LockInv /\ OnceInv
OwnInv == AgreeInv /\ TreeInv /\ CutInv /\ DoneInv

\* Objects: a build has those of the packages it is past, and what is kept or about to be kept
\* under a key is the object of that key; of what is spoilt, anything.
Own(b, u) == [cc |-> chosen[b].cc, tree |-> Asked(u, chosen[b])]
Mine(b, u, o) == u \in spoilt \/ o = Own(b, u)
IsOf(k, o) ==
  \/ k[1] \in spoilt
  \/ \E s \in world.settings : k[3] = Fingerprint(k[1], s) /\ o = [cc |-> k[2], tree |-> Asked(k[1], s)]
ShapeInv ==
  /\ unit \in [Builds -> 1..Len(Order)]
  /\ phase \in [Builds -> {"look", "compile", "stage", "replace", "done"}]
  /\ DOMAIN object = Builds /\ \A b \in Builds : DOMAIN object[b] = Units
  /\ DOMAIN entry = Keys /\ DOMAIN staging = Builds
EntryInv == \A k \in Keys : entry[k] # Missing => IsOf(k, entry[k])
Has(b, i) == i < unit[b] \/ (i = unit[b] /\ phase[b] \in {"stage", "replace", "done"})
Placed(b) ==
  /\ pc[b] \notin {"out", "compile"} => unit[b] = 1 /\ phase[b] = "look"
  /\ phase[b] = "done" => unit[b] = Len(Order)
  /\ pc[b] = "compile" => \A i \in 1..Len(Order) : Has(b, i) => Mine(b, Order[i], object[b][Order[i]])
  /\ phase[b] = "replace" => staging[b][1] \in Keys /\ IsOf(staging[b][1], staging[b][2])
ObjectInv == ShapeInv /\ EntryInv /\ \A b \in Builds : Placed(b)

------------------------------------------------------------------------------
(* Facts                                                                    *)

LEMMA OrderIs ==
  /\ Len(Order) \in Nat \ {0}
  /\ \A i \in 1..Len(Order) : Order[i] \in Units
<1>1. Order \in Seq(Units) /\ Order # <<>>
  BY OrderAssumption
<1>2. Len(Order) \in Nat /\ Len(Order) # 0
  BY <1>1
<1> QED
  BY <1>2 DEF Units

LEMMA WorldIs ==
  ASSUME world \in Worlds
  PROVE  /\ WorldOK(world) /\ world.settings # {}
         /\ \A u \in Units, s \in world.settings : Fingerprint(u, s) # None /\ Fingerprint(u, s) # Torn
  BY SettingsAssumption, NoneAssumption DEF WorldOK

\* The world of a run is fixed.
LEMMA WorldStays ==
  ASSUME [Next]_vars
  PROVE  world' = world /\ Trees' = Trees
<1>1. world' = world
  BY DEF Next, Step, Fault, vars, disk, Begin, Refused, Take, Configured, Reconfigure,
      BuildLibraries, RunConfigure, MakeTargets, WriteStamp, Release, TakeForLines, ReadList,
      AskMake, AskDatabase, MakeGenerated, KeepList, NextUnit, Compile, StepFails, SaveFails,
      Crash, Learn
<1> QED
  BY <1>1 DEF Trees

\* What goes wrong stays within its bound.
LEMMA BlameIs ==
  ASSUME world \in Worlds, faults \in 0..MaxFaults, NEW what, Blame(what)
  PROVE  faults' = faults + 1 /\ faults' \in 0..MaxFaults
<1>1. world.most \in 0..MaxFaults
  BY SettingsAssumption DEF WorldOK
<1> QED
  BY <1>1, BoundAssumption DEF Blame

LEMMA AskedIs ==
  /\ Fresh \in Trees /\ Mixed \in Trees
  /\ \A u \in Units, s \in world.settings : Asked(u, s) \in Trees
  BY DEF Trees

------------------------------------------------------------------------------
(* Types and locks                                                          *)

\* Types, when something goes wrong.
LEMMA FaultTypes ==
  ASSUME TypeOK, NEW b \in Builds, Fault(b)
  PROVE  TypeOK'
<1>1. Unit(b) \in Units /\ chosen[b] \in world.settings
  BY OrderIs DEF TypeOK, Unit
<1>2. faults' \in 0..MaxFaults
  <2>1. world \in Worlds /\ faults \in 0..MaxFaults
    BY DEF TypeOK
  <2>2. \E what : Blame(what)
    BY DEF Fault, StepFails, SaveFails, Crash
  <2> QED
    BY <2>1, <2>2, BlameIs
<1>3. cut' \in [Units -> SUBSET world.settings]
  <2>1. CutOff(b) /\ cut \in [Units -> SUBSET world.settings]
    BY DEF Fault, StepFails, SaveFails, Crash, TypeOK
  <2>2. CASE pc[b] \in {"targets", "stamp"}
    <3>1. cut' = [cut EXCEPT ![Unit(b)] = cut[Unit(b)] \cup {chosen[b]}]
      BY <2>1, <2>2 DEF CutOff
    <3>2. cut[Unit(b)] \cup {chosen[b]} \in SUBSET world.settings
      BY <1>1, <2>1
    <3> QED
      BY <2>1, <3>1, <3>2
  <2> QED
    BY <2>1, <2>2 DEF CutOff
<1>4. /\ UNCHANGED <<world, tree, list, at, chosen, got, completed>> /\ Trees' = Trees
      /\ pc' = [pc EXCEPT ![b] = "out"]
      /\ \E s \in {stamp[Unit(b)], Torn} : stamp' = [stamp EXCEPT ![Unit(b)] = s]
      /\ \/ holder' = [holder EXCEPT ![Unit(b)] = Nobody]
         \/ holder' = [u \in Units |-> IF holder[u] = b THEN Nobody ELSE holder[u]]
  <2>0. stamp = [stamp EXCEPT ![Unit(b)] = stamp[Unit(b)]]
    BY DEF TypeOK
  <2>1. CASE StepFails(b)
    <3>1. stamp' = stamp /\ holder' = [holder EXCEPT ![Unit(b)] = Nobody]
      BY <2>1 DEF StepFails, disk
    <3> QED
      BY <2>0, <2>1, <3>1 DEF StepFails, Goto, disk, Trees
  <2>2. CASE SaveFails(b)
    <3>1. /\ UNCHANGED <<world, tree, list, at, chosen, got, completed>> /\ Trees' = Trees
          /\ pc' = [pc EXCEPT ![b] = "out"] /\ holder' = [holder EXCEPT ![Unit(b)] = Nobody]
          /\ stamp' = IF pc[b] = "stamp" THEN [stamp EXCEPT ![Unit(b)] = Torn] ELSE stamp
      BY <2>2 DEF SaveFails, Goto, Trees
    <3>2. CASE pc[b] = "stamp"
      BY <3>1, <3>2
    <3>3. CASE pc[b] # "stamp"
      <4>1. stamp' = [stamp EXCEPT ![Unit(b)] = stamp[Unit(b)]]
        BY <2>0, <3>1, <3>3
      <4> QED
        BY <3>1, <4>1
    <3> QED
      BY <3>2, <3>3
  <2>3. CASE Crash(b)
    <3>1. /\ UNCHANGED <<world, tree, list, at, chosen, got, completed>> /\ Trees' = Trees
          /\ pc' = [pc EXCEPT ![b] = "out"]
          /\ holder' = [u \in Units |-> IF holder[u] = b THEN Nobody ELSE holder[u]]
      BY <2>3 DEF Crash, KernelReleases, Goto, Trees
    <3>2. PICK s \in {stamp[Unit(b)]} \cup (IF pc[b] = "stamp" THEN {Torn} ELSE {}) :
            stamp' = [stamp EXCEPT ![Unit(b)] = s]
      BY <2>3 DEF Crash
    <3>3. s \in {stamp[Unit(b)], Torn}
      OBVIOUS
    <3> QED
      BY <3>1, <3>2, <3>3
  <2> QED
    BY <2>1, <2>2, <2>3 DEF Fault
<1>5. stamp' \in [Units -> {None, Torn} \cup {Fingerprint(u, s) : u \in Units, s \in world.settings}]
  <2>1. stamp \in [Units -> {None, Torn} \cup {Fingerprint(u, s) : u \in Units, s \in world.settings}]
    BY DEF TypeOK
  <2> QED
    BY <1>1, <1>4, <2>1
<1>6. holder' \in [Units -> Builds \cup {Nobody}]
  BY <1>4 DEF TypeOK
<1>7. pc' \in [Builds -> Phases]
  BY <1>4 DEF TypeOK, Phases
<1> QED
  BY <1>2, <1>3, <1>4, <1>5, <1>6, <1>7 DEF TypeOK

\* Types.
LEMMA TypeStep ==
  ASSUME TypeOK, [Next]_vars
  PROVE  TypeOK'
<1> USE OrderIs, AskedIs, BoundAssumption DEF TypeOK, Phases
<1>e. world' = world /\ Trees' = Trees
  BY WorldStays
<1>1. ASSUME NEW b \in Builds, Begin(b) PROVE TypeOK'
  BY <1>1, <1>e DEF Begin, Goto, disk
<1>2. ASSUME NEW b \in Builds, Refused(b) PROVE TypeOK'
  BY <1>2, <1>e DEF Refused, Goto, disk, Unit
<1>3. ASSUME NEW b \in Builds, Take(b) PROVE TypeOK'
  BY <1>3, <1>e DEF Take, Goto, disk, Unit, Lock
<1>4. ASSUME NEW b \in Builds, Configured(b) PROVE TypeOK'
  BY <1>4, <1>e DEF Configured, Goto, disk, Unit, Wanted
<1>5. ASSUME NEW b \in Builds, Reconfigure(b) PROVE TypeOK'
  <2>1. CASE CxxMissing(Unit(b), chosen[b])
    <3>1. /\ list' = [list EXCEPT ![Order[at[b]]] = None] /\ pc' = [pc EXCEPT ![b] = "out"]
          /\ holder' = [holder EXCEPT ![Order[at[b]]] = Nobody]
          /\ UNCHANGED <<world, faults, tree, stamp, archives, at, chosen, got, completed, cut>>
      BY <1>5, <2>1 DEF Reconfigure, Goto, Unit
    <3>2. list' \in [Units -> Trees \cup {None}] /\ holder' \in [Units -> Builds \cup {Nobody}]
      BY <3>1
    <3>3. pc' \in [Builds -> Phases]
      BY <3>1
    <3> QED
      BY <3>1, <3>2, <3>3, <1>e
  <2>2. CASE ~CxxMissing(Unit(b), chosen[b])
    <3>1. /\ list' = [list EXCEPT ![Order[at[b]]] = None] /\ pc' = [pc EXCEPT ![b] = "libraries"]
          /\ UNCHANGED <<world, faults, tree, stamp, archives, holder, at, chosen, got, completed, cut>>
      BY <1>5, <2>2 DEF Reconfigure, Goto, Unit
    <3>2. list' \in [Units -> Trees \cup {None}]
      BY <3>1
    <3>3. pc' \in [Builds -> Phases]
      BY <3>1
    <3> QED
      BY <3>1, <3>2, <3>3, <1>e
  <2> QED
    BY <2>1, <2>2
<1>6. ASSUME NEW b \in Builds, BuildLibraries(b) PROVE TypeOK'
  BY <1>6, <1>e DEF BuildLibraries, Goto, Unit
<1>7. ASSUME NEW b \in Builds, RunConfigure(b) PROVE TypeOK'
  BY <1>7, <1>e DEF RunConfigure, Goto, Unit
<1>8. ASSUME NEW b \in Builds, MakeTargets(b) PROVE TypeOK'
  BY <1>8, <1>e DEF MakeTargets, Goto, Unit, Answers
<1>9. ASSUME NEW b \in Builds, WriteStamp(b) PROVE TypeOK'
  BY <1>9, <1>e DEF WriteStamp, Goto, Unit, Wanted
<1>10. ASSUME NEW b \in Builds, Release(b) PROVE TypeOK'
  BY <1>10, <1>e DEF Release, Goto, disk, Unit
<1>11. ASSUME NEW b \in Builds, TakeForLines(b) PROVE TypeOK'
  BY <1>11, <1>e DEF TakeForLines, Goto, disk, Unit, Lock
<1>12. ASSUME NEW b \in Builds, ReadList(b) PROVE TypeOK'
  BY <1>12, <1>e DEF ReadList, Goto, disk, Unit, Learn
<1>13. ASSUME NEW b \in Builds, AskMake(b) PROVE TypeOK'
  BY <1>13, <1>e DEF AskMake, Goto, disk, Unit, Learn
<1>14. ASSUME NEW b \in Builds, AskDatabase(b) PROVE TypeOK'
  BY <1>14, <1>e DEF AskDatabase, Goto, disk, Unit, Learn
<1>15. ASSUME NEW b \in Builds, MakeGenerated(b) PROVE TypeOK'
  BY <1>15, <1>e DEF MakeGenerated, Goto, disk
<1>16. ASSUME NEW b \in Builds, KeepList(b) PROVE TypeOK'
  BY <1>16, <1>e DEF KeepList, Goto, Unit
<1>17. ASSUME NEW b \in Builds, NextUnit(b) PROVE TypeOK'
  <2>1. CASE at[b] = Len(Order)
    <3>1. pc' = [pc EXCEPT ![b] = "compile"]
      BY <1>17, <2>1 DEF NextUnit, Goto
    <3>2. UNCHANGED <<world, faults, disk, holder, at, chosen, got, completed, cut>>
      BY <1>17, <2>1 DEF NextUnit
    <3> QED
      BY <3>1, <3>2, <1>e DEF disk
  <2>2. CASE at[b] # Len(Order)
    <3>1. at[b] + 1 \in 1..Len(Order)
      BY <2>2
    <3>2. at' = [at EXCEPT ![b] = at[b] + 1] /\ pc' = [pc EXCEPT ![b] = "next"]
      BY <1>17, <2>2 DEF NextUnit, Goto
    <3>3. at' \in [Builds -> 1..Len(Order)]
      BY <3>1, <3>2
    <3>4. pc' \in [Builds -> Phases]
      BY <3>2
    <3>5. UNCHANGED <<world, faults, disk, holder, chosen, got, completed, cut>>
      BY <1>17 DEF NextUnit
    <3> QED
      BY <3>3, <3>4, <3>5, <1>e DEF disk
  <2> QED
    BY <2>1, <2>2
<1>18. ASSUME NEW b \in Builds, Compile(b) PROVE TypeOK'
  BY <1>18, <1>e DEF Compile, Goto, disk
<1>19. ASSUME NEW b \in Builds, StepFails(b) \/ SaveFails(b) \/ Crash(b) PROVE TypeOK'
  BY <1>19, FaultTypes DEF Fault
<1>22. CASE UNCHANGED vars
  BY <1>22, <1>e DEF vars
<1> HIDE DEF TypeOK, Phases
<1> QED
  BY <1>1, <1>2, <1>3, <1>4, <1>5, <1>6, <1>7, <1>8, <1>9, <1>10, <1>11, <1>12, <1>13, <1>14,
     <1>15, <1>16, <1>17, <1>18, <1>19, <1>22 DEF Next, Step, Fault

\* The lock of a package is kept until it is done with.
LEMMA LockStep ==
  ASSUME TypeOK, LockInv, [Next]_vars
  PROVE  LockInv'
<1> USE OrderIs DEF TypeOK, LockInv, Holding, Changing
<1>e. world' = world /\ Trees' = Trees
  BY WorldStays
<1>1. ASSUME NEW b \in Builds, Begin(b) PROVE LockInv'
  BY <1>1, NoneAssumption DEF Begin, Goto, disk
<1>2. ASSUME NEW b \in Builds, Refused(b) PROVE LockInv'
  BY <1>2, NoneAssumption DEF Refused, Goto, disk, Unit
<1>3. ASSUME NEW b \in Builds, Take(b) PROVE LockInv'
  BY <1>3, NoneAssumption DEF Take, Goto, disk, Unit, Lock
<1>4. ASSUME NEW b \in Builds, Configured(b) PROVE LockInv'
  BY <1>4, NoneAssumption DEF Configured, Goto, disk, Unit, Wanted
<1>5. ASSUME NEW b \in Builds, Reconfigure(b) PROVE LockInv'
  BY <1>5, NoneAssumption DEF Reconfigure, Goto, Unit, Wanted
<1>6. ASSUME NEW b \in Builds, BuildLibraries(b) PROVE LockInv'
  BY <1>6, NoneAssumption DEF BuildLibraries, Goto, Unit
<1>7. ASSUME NEW b \in Builds, RunConfigure(b) PROVE LockInv'
  BY <1>7, NoneAssumption DEF RunConfigure, Goto, Unit
<1>8. ASSUME NEW b \in Builds, MakeTargets(b) PROVE LockInv'
  BY <1>8, NoneAssumption DEF MakeTargets, Goto, Unit, Answers
<1>9. ASSUME NEW b \in Builds, WriteStamp(b) PROVE LockInv'
  BY <1>9, NoneAssumption DEF WriteStamp, Goto, Unit, Wanted
<1>10. ASSUME NEW b \in Builds, Release(b) PROVE LockInv'
  BY <1>10, NoneAssumption DEF Release, Goto, disk, Unit
<1>11. ASSUME NEW b \in Builds, TakeForLines(b) PROVE LockInv'
  BY <1>11, NoneAssumption DEF TakeForLines, Goto, disk, Unit, Lock
<1>12. ASSUME NEW b \in Builds, ReadList(b) PROVE LockInv'
  BY <1>12, NoneAssumption DEF ReadList, Goto, disk, Unit, Learn
<1>13. ASSUME NEW b \in Builds, AskMake(b) PROVE LockInv'
  BY <1>13, NoneAssumption DEF AskMake, Goto, disk, Unit, Learn
<1>14. ASSUME NEW b \in Builds, AskDatabase(b) PROVE LockInv'
  BY <1>14, NoneAssumption DEF AskDatabase, Goto, disk, Unit, Learn
<1>15. ASSUME NEW b \in Builds, MakeGenerated(b) PROVE LockInv'
  BY <1>15, NoneAssumption DEF MakeGenerated, Goto, disk
<1>16. ASSUME NEW b \in Builds, KeepList(b) PROVE LockInv'
  BY <1>16, NoneAssumption DEF KeepList, Goto, Unit
<1>17. ASSUME NEW b \in Builds, NextUnit(b) PROVE LockInv'
  BY <1>17, NoneAssumption DEF NextUnit, Goto, disk
<1>18. ASSUME NEW b \in Builds, Compile(b) PROVE LockInv'
  BY <1>18, NoneAssumption DEF Compile, Goto, disk
<1>19. ASSUME NEW b \in Builds, StepFails(b) PROVE LockInv'
  BY <1>19, NoneAssumption DEF StepFails, Goto, disk, Unit, Blame
<1>20. ASSUME NEW b \in Builds, SaveFails(b) PROVE LockInv'
  BY <1>20, NoneAssumption DEF SaveFails, Goto, Unit, Blame
<1>21. ASSUME NEW b \in Builds, Crash(b) PROVE LockInv'
  BY <1>21, NoneAssumption DEF Crash, Goto, Unit, Blame, KernelReleases
<1>22. CASE UNCHANGED vars
  BY <1>22, NoneAssumption DEF vars
<1> HIDE DEF TypeOK, LockInv, Holding, Changing
<1> QED
  BY <1>1, <1>2, <1>3, <1>4, <1>5, <1>6, <1>7, <1>8, <1>9, <1>10, <1>11, <1>12, <1>13, <1>14,
     <1>15, <1>16, <1>17, <1>18, <1>19, <1>20, <1>21, <1>22 DEF Next, Step, Fault

\* A step that completes no configuration and takes no stamp away.
LEMMA OnceKept ==
  ASSUME OnceInv, NEW b \in Builds, UNCHANGED <<world, faults, stamp, completed>>, pc[b] # "stamp",
         \A c \in Builds : c # b => pc'[c] = pc[c] /\ at'[c] = at[c]
  PROVE  OnceInv'
<1>1. \A u \in Units : Standing(u) => (Standing(u))'
  BY DEF Standing
<1> QED
  BY <1>1 DEF OnceInv

\* One that goes wrong.
LEMMA OnceFaulted ==
  ASSUME TypeOK, OnceInv, world' = world, faults' = faults + 1, completed' = completed
  PROVE  OnceInv'
<1>1. faults \in Nat /\ \A u \in Units : completed[u] \in Nat
  BY BoundAssumption DEF TypeOK
<1>2. Cardinality(world.settings) = 1 => \A u \in Units : completed[u] <= faults + 1
  BY DEF OnceInv
<1> QED
  BY <1>1, <1>2 DEF OnceInv

LEMMA OneSetting ==
  ASSUME world \in Worlds, Cardinality(world.settings) = 1
  PROVE  Same(world)
<1>1. IsFiniteSet(world.settings)
  BY SettingsAssumption DEF WorldOK
<1>2. PICK s : world.settings = {s}
  BY <1>1, FS_Singleton
<1> QED
  BY <1>2 DEF Same

\* A configuration is run again when one was cut off.
LEMMA OnceStep ==
  ASSUME TypeOK, LockInv, OnceInv, [Next]_vars
  PROVE  OnceInv'
<1>e. world' = world
  BY WorldStays
<1>1. ASSUME NEW b \in Builds, Begin(b) PROVE OnceInv'
  <2>1. UNCHANGED <<faults, stamp, completed>> /\ pc[b] # "stamp"
    BY <1>1 DEF Begin, disk
  <2>2. \A c \in Builds : c # b => pc'[c] = pc[c] /\ at'[c] = at[c]
    BY <1>1 DEF Begin, Goto, TypeOK
  <2> QED
    BY <2>1, <2>2, <1>e, OnceKept
<1>2. ASSUME NEW b \in Builds, Refused(b) PROVE OnceInv'
  <2>1. UNCHANGED <<faults, stamp, completed>> /\ pc[b] # "stamp"
    BY <1>2 DEF Refused, disk
  <2>2. \A c \in Builds : c # b => pc'[c] = pc[c] /\ at'[c] = at[c]
    BY <1>2 DEF Refused, Goto, Unit, TypeOK
  <2> QED
    BY <2>1, <2>2, <1>e, OnceKept
<1>3. ASSUME NEW b \in Builds, Take(b) PROVE OnceInv'
  <2>1. UNCHANGED <<faults, stamp, completed>> /\ pc[b] # "stamp"
    BY <1>3 DEF Take, disk
  <2>2. \A c \in Builds : c # b => pc'[c] = pc[c] /\ at'[c] = at[c]
    BY <1>3 DEF Take, Goto, Unit, Lock, TypeOK
  <2> QED
    BY <2>1, <2>2, <1>e, OnceKept
<1>4. ASSUME NEW b \in Builds, Configured(b) PROVE OnceInv'
  <2>1. UNCHANGED <<faults, stamp, completed>> /\ pc[b] # "stamp"
    BY <1>4 DEF Configured, disk
  <2>2. \A c \in Builds : c # b => pc'[c] = pc[c] /\ at'[c] = at[c]
    BY <1>4 DEF Configured, Goto, Unit, Wanted, TypeOK
  <2> QED
    BY <2>1, <2>2, <1>e, OnceKept
<1>5. ASSUME NEW b \in Builds, Reconfigure(b) PROVE OnceInv'
  <2>1. UNCHANGED <<faults, stamp, completed>> /\ pc[b] # "stamp"
    BY <1>5 DEF Reconfigure
  <2>2. \A c \in Builds : c # b => pc'[c] = pc[c] /\ at'[c] = at[c]
    BY <1>5 DEF Reconfigure, Goto, Unit, Wanted, TypeOK
  <2> QED
    BY <2>1, <2>2, <1>e, OnceKept
<1>6. ASSUME NEW b \in Builds, BuildLibraries(b) PROVE OnceInv'
  <2>1. UNCHANGED <<faults, stamp, completed>> /\ pc[b] # "stamp"
    BY <1>6 DEF BuildLibraries
  <2>2. \A c \in Builds : c # b => pc'[c] = pc[c] /\ at'[c] = at[c]
    BY <1>6 DEF BuildLibraries, Goto, Unit, TypeOK
  <2> QED
    BY <2>1, <2>2, <1>e, OnceKept
<1>7. ASSUME NEW b \in Builds, RunConfigure(b) PROVE OnceInv'
  <2>1. UNCHANGED <<faults, stamp, completed>> /\ pc[b] # "stamp"
    BY <1>7 DEF RunConfigure
  <2>2. \A c \in Builds : c # b => pc'[c] = pc[c] /\ at'[c] = at[c]
    BY <1>7 DEF RunConfigure, Goto, Unit, TypeOK
  <2> QED
    BY <2>1, <2>2, <1>e, OnceKept
<1>8. ASSUME NEW b \in Builds, MakeTargets(b) PROVE OnceInv'
  <2>0. PICK u \in Units : u = Order[at[b]]
    BY OrderIs DEF TypeOK
  <2>1. /\ pc[b] = "targets" /\ pc' = [pc EXCEPT ![b] = "stamp"] /\ UNCHANGED <<faults, stamp, at>>
        /\ completed' = [completed EXCEPT ![u] = IF @ > MaxFaults + 1 THEN @ ELSE @ + 1]
    BY <1>8, <2>0 DEF MakeTargets, Goto, Unit
  <2>2. stamp[u] # Fingerprint(u, chosen[b]) /\ chosen[b] \in world.settings
    BY <2>0, <2>1 DEF TypeOK, LockInv, Changing
  <2>3. \A c \in Builds : pc[c] = "stamp" => Order[at[c]] # u
    BY <2>0, <2>1 DEF LockInv, Holding
  <2>4. Same(world) => ~Standing(u)
    BY <2>2, <2>3 DEF Standing, Same
  <2>5. Standing(u)' /\ \A v \in Units : v # u => (Standing(v) => Standing(v)')
    BY <2>0, <2>1, <1>e DEF Standing, TypeOK
  <2>6. faults \in Nat /\ \A v \in Units : completed[v] \in Nat
    BY BoundAssumption DEF TypeOK
  <2>7. Cardinality(world.settings) = 1 => completed'[u] <= faults + 1
    BY <2>1, <2>2, <2>4, <2>6, OneSetting, BoundAssumption DEF OnceInv, TypeOK
  <2>8. \A v \in Units : v # u => completed'[v] = completed[v]
    BY <2>1 DEF TypeOK
  <2>9. Cardinality(world.settings) = 1 => \A v \in Units : completed'[v] <= faults + 1
    BY <2>7, <2>8 DEF OnceInv
  <2>10. Cardinality(world.settings) = 1 => \A v \in Units : ~Standing(v)' => completed'[v] <= faults
    BY <2>5, <2>8 DEF OnceInv
  <2> QED
    BY <2>1, <2>9, <2>10, <1>e DEF OnceInv
<1>9. ASSUME NEW b \in Builds, WriteStamp(b) PROVE OnceInv'
  <2>0. PICK u \in Units : u = Order[at[b]]
    BY OrderIs DEF TypeOK
  <2>1. /\ pc[b] = "stamp" /\ stamp' = [stamp EXCEPT ![u] = Fingerprint(u, chosen[b])]
        /\ pc' = [pc EXCEPT ![b] = "release"] /\ UNCHANGED <<faults, completed, at>>
    BY <1>9, <2>0 DEF WriteStamp, Goto, Unit, Wanted
  <2>2. chosen[b] \in world.settings
    BY DEF TypeOK
  <2>3. Standing(u)'
    BY <2>1, <2>2, <1>e DEF Standing, TypeOK
  <2>4. \A v \in Units : v # u /\ Standing(v) => Standing(v)'
    <3>1. \A v \in Units : v # u => stamp'[v] = stamp[v]
      BY <2>1 DEF TypeOK
    <3>2. \A c \in Builds : Order[at[c]] # u => pc'[c] = pc[c] /\ at'[c] = at[c]
      BY <2>0, <2>1 DEF TypeOK
    <3> QED
      BY <3>1, <3>2, <1>e DEF Standing
  <2> QED
    BY <2>1, <2>3, <2>4, <1>e DEF OnceInv
<1>10. ASSUME NEW b \in Builds, Release(b) PROVE OnceInv'
  <2>1. UNCHANGED <<faults, stamp, completed>> /\ pc[b] # "stamp"
    BY <1>10 DEF Release, disk
  <2>2. \A c \in Builds : c # b => pc'[c] = pc[c] /\ at'[c] = at[c]
    BY <1>10 DEF Release, Goto, Unit, TypeOK
  <2> QED
    BY <2>1, <2>2, <1>e, OnceKept
<1>11. ASSUME NEW b \in Builds, TakeForLines(b) PROVE OnceInv'
  <2>1. UNCHANGED <<faults, stamp, completed>> /\ pc[b] # "stamp"
    BY <1>11 DEF TakeForLines, disk
  <2>2. \A c \in Builds : c # b => pc'[c] = pc[c] /\ at'[c] = at[c]
    BY <1>11 DEF TakeForLines, Goto, Unit, Lock, TypeOK
  <2> QED
    BY <2>1, <2>2, <1>e, OnceKept
<1>12. ASSUME NEW b \in Builds, ReadList(b) PROVE OnceInv'
  <2>1. UNCHANGED <<faults, stamp, completed>> /\ pc[b] # "stamp"
    BY <1>12 DEF ReadList, disk, Learn
  <2>2. \A c \in Builds : c # b => pc'[c] = pc[c] /\ at'[c] = at[c]
    BY <1>12 DEF ReadList, Goto, Unit, Learn, TypeOK
  <2> QED
    BY <2>1, <2>2, <1>e, OnceKept
<1>13. ASSUME NEW b \in Builds, AskMake(b) PROVE OnceInv'
  <2>1. UNCHANGED <<faults, stamp, completed>> /\ pc[b] # "stamp"
    BY <1>13 DEF AskMake, disk, Learn
  <2>2. \A c \in Builds : c # b => pc'[c] = pc[c] /\ at'[c] = at[c]
    BY <1>13 DEF AskMake, Goto, Unit, Learn, TypeOK
  <2> QED
    BY <2>1, <2>2, <1>e, OnceKept
<1>14. ASSUME NEW b \in Builds, AskDatabase(b) PROVE OnceInv'
  <2>1. UNCHANGED <<faults, stamp, completed>> /\ pc[b] # "stamp"
    BY <1>14 DEF AskDatabase, disk, Learn
  <2>2. \A c \in Builds : c # b => pc'[c] = pc[c] /\ at'[c] = at[c]
    BY <1>14 DEF AskDatabase, Goto, Unit, Learn, TypeOK
  <2> QED
    BY <2>1, <2>2, <1>e, OnceKept
<1>15. ASSUME NEW b \in Builds, MakeGenerated(b) PROVE OnceInv'
  <2>1. UNCHANGED <<faults, stamp, completed>> /\ pc[b] # "stamp"
    BY <1>15 DEF MakeGenerated, disk
  <2>2. \A c \in Builds : c # b => pc'[c] = pc[c] /\ at'[c] = at[c]
    BY <1>15 DEF MakeGenerated, Goto, TypeOK
  <2> QED
    BY <2>1, <2>2, <1>e, OnceKept
<1>16. ASSUME NEW b \in Builds, KeepList(b) PROVE OnceInv'
  <2>1. UNCHANGED <<faults, stamp, completed>> /\ pc[b] # "stamp"
    BY <1>16 DEF KeepList
  <2>2. \A c \in Builds : c # b => pc'[c] = pc[c] /\ at'[c] = at[c]
    BY <1>16 DEF KeepList, Goto, Unit, TypeOK
  <2> QED
    BY <2>1, <2>2, <1>e, OnceKept
<1>17. ASSUME NEW b \in Builds, NextUnit(b) PROVE OnceInv'
  <2>1. UNCHANGED <<faults, stamp, completed>> /\ pc[b] # "stamp"
    BY <1>17 DEF NextUnit, disk
  <2>2. \A c \in Builds : c # b => pc'[c] = pc[c] /\ at'[c] = at[c]
    BY <1>17 DEF NextUnit, Goto, TypeOK
  <2> QED
    BY <2>1, <2>2, <1>e, OnceKept
<1>18. ASSUME NEW b \in Builds, Compile(b) PROVE OnceInv'
  <2>1. UNCHANGED <<faults, stamp, completed>> /\ pc[b] # "stamp"
    BY <1>18 DEF Compile, disk
  <2>2. \A c \in Builds : c # b => pc'[c] = pc[c] /\ at'[c] = at[c]
    BY <1>18 DEF Compile, Goto, TypeOK
  <2> QED
    BY <2>1, <2>2, <1>e, OnceKept
<1>19. ASSUME NEW b \in Builds, StepFails(b) PROVE OnceInv'
  <2>1. faults' = faults + 1 /\ completed' = completed
    BY <1>19 DEF StepFails, Blame
  <2> QED
    BY <2>1, <1>e, OnceFaulted
<1>20. ASSUME NEW b \in Builds, SaveFails(b) PROVE OnceInv'
  <2>1. faults' = faults + 1 /\ completed' = completed
    BY <1>20 DEF SaveFails, Blame
  <2> QED
    BY <2>1, <1>e, OnceFaulted
<1>21. ASSUME NEW b \in Builds, Crash(b) PROVE OnceInv'
  <2>1. faults' = faults + 1 /\ completed' = completed
    BY <1>21 DEF Crash, Blame
  <2> QED
    BY <2>1, <1>e, OnceFaulted
<1>22. CASE UNCHANGED vars
  BY <1>22, <1>e DEF vars, OnceInv, Standing
<1> QED
  BY <1>1, <1>2, <1>3, <1>4, <1>5, <1>6, <1>7, <1>8, <1>9, <1>10, <1>11, <1>12, <1>13, <1>14,
     <1>15, <1>16, <1>17, <1>18, <1>19, <1>20, <1>21, <1>22 DEF Next, Step, Fault

------------------------------------------------------------------------------
(* Trees and lists                                                          *)

\* Builds that are under way at once share the setting.
LEMMA AgreeStep ==
  ASSUME TypeOK, AgreeInv, [Next]_vars
  PROVE  AgreeInv'
<1> USE OrderIs DEF TypeOK, AgreeInv
<1>e. world' = world
  BY WorldStays
<1>1. ASSUME NEW b \in Builds, Begin(b) PROVE AgreeInv'
  BY <1>1, <1>e DEF Begin, Goto, disk
<1>2. ASSUME NEW b \in Builds, Refused(b) PROVE AgreeInv'
  <2>1. pc[b] # "out" /\ \A c \in Builds : c # b => pc'[c] = pc[c]
    BY <1>2 DEF Refused, Goto, Unit
  <2> QED
    BY <2>1, <1>e
<1>3. ASSUME NEW b \in Builds, Take(b) PROVE AgreeInv'
  <2>1. pc[b] # "out" /\ \A c \in Builds : c # b => pc'[c] = pc[c]
    BY <1>3 DEF Take, Goto, Unit, Lock
  <2> QED
    BY <2>1, <1>e
<1>4. ASSUME NEW b \in Builds, Configured(b) PROVE AgreeInv'
  <2>1. pc[b] # "out" /\ \A c \in Builds : c # b => pc'[c] = pc[c]
    BY <1>4 DEF Configured, Goto, Unit, Wanted
  <2> QED
    BY <2>1, <1>e
<1>5. ASSUME NEW b \in Builds, Reconfigure(b) PROVE AgreeInv'
  <2>1. pc[b] # "out" /\ \A c \in Builds : c # b => pc'[c] = pc[c]
    BY <1>5 DEF Reconfigure, Goto, Unit, Wanted
  <2> QED
    BY <2>1, <1>e
<1>6. ASSUME NEW b \in Builds, BuildLibraries(b) PROVE AgreeInv'
  <2>1. pc[b] # "out" /\ \A c \in Builds : c # b => pc'[c] = pc[c]
    BY <1>6 DEF BuildLibraries, Goto, Unit
  <2> QED
    BY <2>1, <1>e
<1>7. ASSUME NEW b \in Builds, RunConfigure(b) PROVE AgreeInv'
  <2>1. pc[b] # "out" /\ \A c \in Builds : c # b => pc'[c] = pc[c]
    BY <1>7 DEF RunConfigure, Goto, Unit
  <2> QED
    BY <2>1, <1>e
<1>8. ASSUME NEW b \in Builds, MakeTargets(b) PROVE AgreeInv'
  <2>1. pc[b] # "out" /\ \A c \in Builds : c # b => pc'[c] = pc[c]
    BY <1>8 DEF MakeTargets, Goto, Unit, Answers
  <2> QED
    BY <2>1, <1>e
<1>9. ASSUME NEW b \in Builds, WriteStamp(b) PROVE AgreeInv'
  <2>1. pc[b] # "out" /\ \A c \in Builds : c # b => pc'[c] = pc[c]
    BY <1>9 DEF WriteStamp, Goto, Unit, Wanted
  <2> QED
    BY <2>1, <1>e
<1>10. ASSUME NEW b \in Builds, Release(b) PROVE AgreeInv'
  <2>1. pc[b] # "out" /\ \A c \in Builds : c # b => pc'[c] = pc[c]
    BY <1>10 DEF Release, Goto, Unit
  <2> QED
    BY <2>1, <1>e
<1>11. ASSUME NEW b \in Builds, TakeForLines(b) PROVE AgreeInv'
  <2>1. pc[b] # "out" /\ \A c \in Builds : c # b => pc'[c] = pc[c]
    BY <1>11 DEF TakeForLines, Goto, Unit, Lock
  <2> QED
    BY <2>1, <1>e
<1>12. ASSUME NEW b \in Builds, ReadList(b) PROVE AgreeInv'
  <2>1. pc[b] # "out" /\ \A c \in Builds : c # b => pc'[c] = pc[c]
    BY <1>12 DEF ReadList, Goto, Unit, Learn
  <2> QED
    BY <2>1, <1>e
<1>13. ASSUME NEW b \in Builds, AskMake(b) PROVE AgreeInv'
  <2>1. pc[b] # "out" /\ \A c \in Builds : c # b => pc'[c] = pc[c]
    BY <1>13 DEF AskMake, Goto, Unit, Learn
  <2> QED
    BY <2>1, <1>e
<1>14. ASSUME NEW b \in Builds, AskDatabase(b) PROVE AgreeInv'
  <2>1. pc[b] # "out" /\ \A c \in Builds : c # b => pc'[c] = pc[c]
    BY <1>14 DEF AskDatabase, Goto, Unit, Learn
  <2> QED
    BY <2>1, <1>e
<1>15. ASSUME NEW b \in Builds, MakeGenerated(b) PROVE AgreeInv'
  <2>1. pc[b] # "out" /\ \A c \in Builds : c # b => pc'[c] = pc[c]
    BY <1>15 DEF MakeGenerated, Goto
  <2> QED
    BY <2>1, <1>e
<1>16. ASSUME NEW b \in Builds, KeepList(b) PROVE AgreeInv'
  <2>1. pc[b] # "out" /\ \A c \in Builds : c # b => pc'[c] = pc[c]
    BY <1>16 DEF KeepList, Goto, Unit
  <2> QED
    BY <2>1, <1>e
<1>17. ASSUME NEW b \in Builds, NextUnit(b) PROVE AgreeInv'
  <2>1. pc[b] # "out" /\ \A c \in Builds : c # b => pc'[c] = pc[c]
    BY <1>17 DEF NextUnit, Goto
  <2> QED
    BY <2>1, <1>e
<1>18. ASSUME NEW b \in Builds, Compile(b) PROVE AgreeInv'
  <2>1. pc[b] # "out" /\ \A c \in Builds : c # b => pc'[c] = pc[c]
    BY <1>18 DEF Compile, Goto
  <2> QED
    BY <2>1, <1>e
<1>19. ASSUME NEW b \in Builds, StepFails(b) PROVE AgreeInv'
  <2>1. pc[b] # "out" /\ \A c \in Builds : c # b => pc'[c] = pc[c]
    BY <1>19 DEF StepFails, Goto, Unit, Blame
  <2> QED
    BY <2>1, <1>e
<1>20. ASSUME NEW b \in Builds, SaveFails(b) PROVE AgreeInv'
  <2>1. pc[b] # "out" /\ \A c \in Builds : c # b => pc'[c] = pc[c]
    BY <1>20 DEF SaveFails, Goto, Unit, Blame
  <2> QED
    BY <2>1, <1>e
<1>21. ASSUME NEW b \in Builds, Crash(b) PROVE AgreeInv'
  <2>1. pc[b] # "out" /\ \A c \in Builds : c # b => pc'[c] = pc[c]
    BY <1>21 DEF Crash, Goto, Unit, Blame, KernelReleases
  <2> QED
    BY <2>1, <1>e
<1>22. CASE UNCHANGED vars
  BY <1>22, <1>e DEF vars
<1> HIDE DEF TypeOK, AgreeInv
<1> QED
  BY <1>1, <1>2, <1>3, <1>4, <1>5, <1>6, <1>7, <1>8, <1>9, <1>10, <1>11, <1>12, <1>13, <1>14,
     <1>15, <1>16, <1>17, <1>18, <1>19, <1>20, <1>21, <1>22 DEF Next, Step, Fault

\* Builds that are under way want the same.
LEMMA WantSame ==
  ASSUME TypeOK, AgreeInv, NEW b \in Builds, NEW c \in Builds, pc[b] # "out", pc[c] # "out"
  PROVE  chosen[b] = chosen[c]
<1>1. CASE Same(world)
  <2>1. chosen[b] \in world.settings /\ chosen[c] \in world.settings
    BY DEF TypeOK
  <2> QED
    BY <1>1, <2>1 DEF Same
<1>2. CASE ~Same(world)
  BY <1>2 DEF AgreeInv, Harmless
<1> QED
  BY <1>1, <1>2

\* A stamp says which tree was asked for.
LEMMA StampTells ==
  ASSUME AgreeInv, NEW u \in Units, NEW s \in world.settings, NEW t \in world.settings,
         Fingerprint(u, s) = Fingerprint(u, t)
  PROVE  Asked(u, s) = Asked(u, t)
BY DEF AgreeInv, Harmless, Same, Tells

\* A step that leaves the trees alone, or takes a list away.
LEMMA TreeKept ==
  ASSUME TypeOK, TreeInv, NEW b \in Builds, UNCHANGED <<world, tree, stamp, cut>>,
         \A u \in Units : list'[u] \in {list[u], None},
         pc[b] \notin {"targets", "stamp"}, pc'[b] \notin {"targets", "stamp"},
         \A c \in Builds : c # b => pc'[c] = pc[c] /\ at'[c] = at[c] /\ chosen'[c] = chosen[c]
  PROVE  TreeInv'
<1>1. ASSUME NEW u \in Units, NEW s \in world.settings, stamp[u] = Fingerprint(u, s), cut[u] = {}
      PROVE  \/ tree'[u] = Asked(u, s)
             \/ \E c \in Builds : pc'[c] \in {"targets", "stamp"} /\ Order[at'[c]] = u
  BY <1>1 DEF TreeInv
<1>2. ASSUME NEW u \in Units, NEW s \in world.settings, stamp[u] = Fingerprint(u, s), cut[u] = {}
      PROVE  list'[u] \in {None, Asked(u, s)}
  BY <1>2 DEF TreeInv
<1>3. ASSUME NEW c \in Builds, pc'[c] = "stamp" PROVE tree'[Order[at'[c]]] = Asked(Order[at'[c]], chosen'[c])
  BY <1>3 DEF TreeInv
<1> QED
  BY <1>1, <1>2, <1>3 DEF TreeInv

\* A failure: what it cuts off is marked so.
LEMMA TreeCut ==
  ASSUME TypeOK, TreeInv, NEW b \in Builds, UNCHANGED <<world, tree, list>>,
         pc'[b] = "out", CutOff(b),
         \/ stamp' = stamp
         \/ pc[b] = "stamp" /\ stamp' = [stamp EXCEPT ![Order[at[b]]] = Torn],
         \A c \in Builds : c # b => pc'[c] = pc[c] /\ at'[c] = at[c] /\ chosen'[c] = chosen[c]
  PROVE  TreeInv'
<1>1. ASSUME NEW u \in Units, NEW s \in world.settings, stamp'[u] = Fingerprint(u, s), cut'[u] = {}
      PROVE  /\ stamp[u] = Fingerprint(u, s) /\ cut[u] = {}
             /\ pc[b] \in {"targets", "stamp"} => Order[at[b]] # u
  <2>1. Fingerprint(u, s) # Torn
    BY WorldIs DEF TypeOK
  <2>2. stamp[u] = Fingerprint(u, s)
    BY <1>1, <2>1 DEF TypeOK
  <2>3. CASE pc[b] \in {"targets", "stamp"}
    <3>1. cut' = [cut EXCEPT ![Order[at[b]]] = @ \cup {chosen[b]}]
      BY <2>3 DEF CutOff, Unit
    <3>3. cut \in [Units -> SUBSET world.settings]
      BY DEF TypeOK
    <3>2. cut'[u] = IF u = Order[at[b]] THEN cut[u] \cup {chosen[b]} ELSE cut[u]
      BY <3>1, <3>3
    <3> QED
      BY <1>1, <2>2, <3>2
  <2>4. CASE pc[b] \notin {"targets", "stamp"}
    BY <1>1, <2>2, <2>4 DEF CutOff
  <2> QED
    BY <2>3, <2>4
<1>2. ASSUME NEW u \in Units, NEW s \in world.settings, stamp'[u] = Fingerprint(u, s), cut'[u] = {}
      PROVE  \/ tree'[u] = Asked(u, s)
             \/ \E c \in Builds : pc'[c] \in {"targets", "stamp"} /\ Order[at'[c]] = u
  BY <1>1, <1>2 DEF TreeInv
<1>3. ASSUME NEW u \in Units, NEW s \in world.settings, stamp'[u] = Fingerprint(u, s), cut'[u] = {}
      PROVE  list'[u] \in {None, Asked(u, s)}
  BY <1>1, <1>3 DEF TreeInv
<1>4. ASSUME NEW c \in Builds, pc'[c] = "stamp" PROVE tree'[Order[at'[c]]] = Asked(Order[at'[c]], chosen'[c])
  BY <1>4 DEF TreeInv
<1> QED
  BY <1>2, <1>3, <1>4 DEF TreeInv

\* What has a stamp is the tree that the stamp tells of.
LEMMA TreeStep ==
  ASSUME TypeOK, LockInv, AgreeInv, TreeInv, DoneInv, [Next]_vars
  PROVE  TreeInv'
<1>e. world' = world
  BY WorldStays
<1>1. ASSUME NEW b \in Builds, Begin(b) PROVE TreeInv'
  <2>1. UNCHANGED <<tree, stamp, cut>> /\ \A u \in Units : list'[u] \in {list[u], None}
    BY <1>1 DEF Begin, disk, TypeOK
  <2>2. pc[b] \notin {"targets", "stamp"} /\ pc'[b] \notin {"targets", "stamp"}
    BY <1>1 DEF Begin, Goto, TypeOK
  <2>3. \A c \in Builds : c # b => pc'[c] = pc[c] /\ at'[c] = at[c] /\ chosen'[c] = chosen[c]
    BY <1>1 DEF Begin, Goto, TypeOK
  <2> QED
    BY <2>1, <2>2, <2>3, <1>e, TreeKept
<1>2. ASSUME NEW b \in Builds, Refused(b) PROVE TreeInv'
  <2>1. UNCHANGED <<tree, stamp, cut>> /\ \A u \in Units : list'[u] \in {list[u], None}
    BY <1>2 DEF Refused, disk, TypeOK
  <2>2. pc[b] \notin {"targets", "stamp"} /\ pc'[b] \notin {"targets", "stamp"}
    BY <1>2 DEF Refused, Goto, TypeOK
  <2>3. \A c \in Builds : c # b => pc'[c] = pc[c] /\ at'[c] = at[c] /\ chosen'[c] = chosen[c]
    BY <1>2 DEF Refused, Goto, TypeOK
  <2> QED
    BY <2>1, <2>2, <2>3, <1>e, TreeKept
<1>3. ASSUME NEW b \in Builds, Take(b) PROVE TreeInv'
  <2>1. UNCHANGED <<tree, stamp, cut>> /\ \A u \in Units : list'[u] \in {list[u], None}
    BY <1>3 DEF Take, disk, TypeOK
  <2>2. pc[b] \notin {"targets", "stamp"} /\ pc'[b] \notin {"targets", "stamp"}
    BY <1>3 DEF Take, Goto, Lock, TypeOK
  <2>3. \A c \in Builds : c # b => pc'[c] = pc[c] /\ at'[c] = at[c] /\ chosen'[c] = chosen[c]
    BY <1>3 DEF Take, Goto, Lock, TypeOK
  <2> QED
    BY <2>1, <2>2, <2>3, <1>e, TreeKept
<1>4. ASSUME NEW b \in Builds, Configured(b) PROVE TreeInv'
  <2>1. UNCHANGED <<tree, stamp, cut>> /\ \A u \in Units : list'[u] \in {list[u], None}
    BY <1>4 DEF Configured, disk, TypeOK
  <2>2. pc[b] \notin {"targets", "stamp"} /\ pc'[b] \notin {"targets", "stamp"}
    BY <1>4 DEF Configured, Goto, Wanted, TypeOK
  <2>3. \A c \in Builds : c # b => pc'[c] = pc[c] /\ at'[c] = at[c] /\ chosen'[c] = chosen[c]
    BY <1>4 DEF Configured, Goto, Wanted, TypeOK
  <2> QED
    BY <2>1, <2>2, <2>3, <1>e, TreeKept
<1>5. ASSUME NEW b \in Builds, Reconfigure(b) PROVE TreeInv'
  <2>1. UNCHANGED <<tree, stamp, cut>> /\ \A u \in Units : list'[u] \in {list[u], None}
    BY <1>5 DEF Reconfigure, TypeOK
  <2>2. pc[b] \notin {"targets", "stamp"} /\ pc'[b] \notin {"targets", "stamp"}
    BY <1>5 DEF Reconfigure, Goto, Wanted, TypeOK
  <2>3. \A c \in Builds : c # b => pc'[c] = pc[c] /\ at'[c] = at[c] /\ chosen'[c] = chosen[c]
    BY <1>5 DEF Reconfigure, Goto, Wanted, TypeOK
  <2> QED
    BY <2>1, <2>2, <2>3, <1>e, TreeKept
<1>6. ASSUME NEW b \in Builds, BuildLibraries(b) PROVE TreeInv'
  <2>1. UNCHANGED <<tree, stamp, cut>> /\ \A u \in Units : list'[u] \in {list[u], None}
    BY <1>6 DEF BuildLibraries, TypeOK
  <2>2. pc[b] \notin {"targets", "stamp"} /\ pc'[b] \notin {"targets", "stamp"}
    BY <1>6 DEF BuildLibraries, Goto, TypeOK
  <2>3. \A c \in Builds : c # b => pc'[c] = pc[c] /\ at'[c] = at[c] /\ chosen'[c] = chosen[c]
    BY <1>6 DEF BuildLibraries, Goto, TypeOK
  <2> QED
    BY <2>1, <2>2, <2>3, <1>e, TreeKept
<1>7. ASSUME NEW b \in Builds, RunConfigure(b) PROVE TreeInv'
  <2>0. PICK u \in Units : u = Order[at[b]]
    BY OrderIs DEF TypeOK
  <2>1. /\ pc[b] = "run" /\ pc' = [pc EXCEPT ![b] = "targets"] /\ tree' = [tree EXCEPT ![u] = Mixed]
        /\ UNCHANGED <<stamp, list, at, chosen, cut>>
    BY <1>7, <2>0 DEF RunConfigure, Goto, Unit
  <2>2. \A c \in Builds : c # b => pc'[c] = pc[c] /\ at'[c] = at[c] /\ chosen'[c] = chosen[c]
    BY <2>1 DEF TypeOK
  <2>3. ASSUME NEW v \in Units, NEW s \in world.settings, stamp'[v] = Fingerprint(v, s), cut'[v] = {}
        PROVE  \/ tree'[v] = Asked(v, s)
               \/ \E c \in Builds : pc'[c] \in {"targets", "stamp"} /\ Order[at'[c]] = v
    <3>1. CASE v = u
      BY <2>0, <2>1, <3>1 DEF TypeOK
    <3>2. CASE v # u
      <4>1. stamp'[v] = stamp[v] /\ tree'[v] = tree[v] /\ cut'[v] = cut[v]
        BY <2>1, <3>2 DEF TypeOK
      <4>2. CASE tree[v] = Asked(v, s)
        BY <4>1, <4>2
      <4>3. CASE tree[v] # Asked(v, s)
        <5>1. PICK c \in Builds : pc[c] \in {"targets", "stamp"} /\ Order[at[c]] = v
          BY <2>3, <4>1, <4>3 DEF TreeInv
        <5>2. c # b
          BY <2>0, <3>2, <5>1
        <5> QED
          BY <2>2, <5>1, <5>2
      <4> QED
        BY <4>2, <4>3
    <3> QED
      BY <3>1, <3>2
  <2>4. ASSUME NEW v \in Units, NEW s \in world.settings, stamp'[v] = Fingerprint(v, s), cut'[v] = {}
        PROVE  list'[v] \in {None, Asked(v, s)}
    BY <2>1, <2>4 DEF TreeInv
  <2>5. ASSUME NEW c \in Builds, pc'[c] = "stamp"
        PROVE  tree'[Order[at'[c]]] = Asked(Order[at'[c]], chosen'[c])
    <3>1. c # b /\ Order[at[c]] # u
      BY <2>0, <2>1, <2>2, <2>5 DEF TypeOK, LockInv, Holding
    <3> QED
      BY <2>1, <2>2, <2>5, <3>1, OrderIs DEF TypeOK, TreeInv
  <2> QED
    BY <2>3, <2>4, <2>5, <1>e DEF TreeInv
<1>8. ASSUME NEW b \in Builds, MakeTargets(b) PROVE TreeInv'
  <2>0. PICK u \in Units : u = Order[at[b]]
    BY OrderIs DEF TypeOK
  <2>1. /\ pc[b] = "targets" /\ pc' = [pc EXCEPT ![b] = "stamp"]
        /\ tree' = [tree EXCEPT ![u] = Asked(u, chosen[b])] /\ UNCHANGED <<stamp, list, at, chosen, cut>>
    BY <1>8, <2>0 DEF MakeTargets, Goto, Unit, Answers
  <2>2. \A c \in Builds : c # b => pc'[c] = pc[c] /\ at'[c] = at[c] /\ chosen'[c] = chosen[c]
    BY <2>1 DEF TypeOK
  <2>3. ASSUME NEW v \in Units, NEW s \in world.settings, stamp'[v] = Fingerprint(v, s), cut'[v] = {}
        PROVE  \/ tree'[v] = Asked(v, s)
               \/ \E c \in Builds : pc'[c] \in {"targets", "stamp"} /\ Order[at'[c]] = v
    <3>1. CASE v = u
      BY <2>0, <2>1, <3>1 DEF TypeOK
    <3>2. CASE v # u
      <4>1. stamp'[v] = stamp[v] /\ tree'[v] = tree[v] /\ cut'[v] = cut[v]
        BY <2>1, <3>2 DEF TypeOK
      <4>2. CASE tree[v] = Asked(v, s)
        BY <4>1, <4>2
      <4>3. CASE tree[v] # Asked(v, s)
        <5>1. PICK c \in Builds : pc[c] \in {"targets", "stamp"} /\ Order[at[c]] = v
          BY <2>3, <4>1, <4>3 DEF TreeInv
        <5>2. c # b
          BY <2>0, <3>2, <5>1
        <5> QED
          BY <2>2, <5>1, <5>2
      <4> QED
        BY <4>2, <4>3
    <3> QED
      BY <3>1, <3>2
  <2>4. ASSUME NEW v \in Units, NEW s \in world.settings, stamp'[v] = Fingerprint(v, s), cut'[v] = {}
        PROVE  list'[v] \in {None, Asked(v, s)}
    BY <2>1, <2>4 DEF TreeInv
  <2>5. ASSUME NEW c \in Builds, pc'[c] = "stamp"
        PROVE  tree'[Order[at'[c]]] = Asked(Order[at'[c]], chosen'[c])
    <3>1. CASE c = b
      BY <2>0, <2>1, <3>1 DEF TypeOK
    <3>2. CASE c # b
      <4>1. Order[at[c]] # u
        BY <2>0, <2>1, <2>2, <2>5, <3>2 DEF TypeOK, LockInv, Holding
      <4> QED
        BY <2>1, <2>2, <2>5, <3>2, <4>1, OrderIs DEF TypeOK, TreeInv
    <3> QED
      BY <3>1, <3>2
  <2> QED
    BY <2>3, <2>4, <2>5, <1>e DEF TreeInv
<1>9. ASSUME NEW b \in Builds, WriteStamp(b) PROVE TreeInv'
  <2>0. PICK u \in Units : u = Order[at[b]]
    BY OrderIs DEF TypeOK
  <2>1. /\ pc[b] = "stamp" /\ pc' = [pc EXCEPT ![b] = "release"]
        /\ stamp' = [stamp EXCEPT ![u] = Fingerprint(u, chosen[b])] /\ cut' = [cut EXCEPT ![u] = {}]
        /\ UNCHANGED <<tree, list, at, chosen>>
    BY <1>9, <2>0 DEF WriteStamp, Goto, Unit, Wanted
  <2>6. tree[u] = Asked(u, chosen[b]) /\ list[u] = None
    BY <2>0, <2>1 DEF TreeInv, LockInv, Changing
  <2>7. \A s \in world.settings : Fingerprint(u, s) = Fingerprint(u, chosen[b]) => tree[u] = Asked(u, s)
    BY <2>6, StampTells DEF TypeOK
  <2>2. \A c \in Builds : c # b => pc'[c] = pc[c] /\ at'[c] = at[c] /\ chosen'[c] = chosen[c]
    BY <2>1 DEF TypeOK
  <2>3. ASSUME NEW v \in Units, NEW s \in world.settings, stamp'[v] = Fingerprint(v, s), cut'[v] = {}
        PROVE  \/ tree'[v] = Asked(v, s)
               \/ \E c \in Builds : pc'[c] \in {"targets", "stamp"} /\ Order[at'[c]] = v
    <3>1. CASE v = u
      BY <2>1, <2>3, <2>7, <3>1 DEF TypeOK
    <3>2. CASE v # u
      <4>1. stamp'[v] = stamp[v] /\ tree'[v] = tree[v] /\ cut'[v] = cut[v]
        BY <2>1, <3>2 DEF TypeOK
      <4>2. CASE tree[v] = Asked(v, s)
        BY <4>1, <4>2
      <4>3. CASE tree[v] # Asked(v, s)
        <5>1. PICK c \in Builds : pc[c] \in {"targets", "stamp"} /\ Order[at[c]] = v
          BY <2>3, <4>1, <4>3 DEF TreeInv
        <5>2. c # b
          BY <2>0, <3>2, <5>1
        <5> QED
          BY <2>2, <5>1, <5>2
      <4> QED
        BY <4>2, <4>3
    <3> QED
      BY <3>1, <3>2
  <2>4. ASSUME NEW v \in Units, NEW s \in world.settings, stamp'[v] = Fingerprint(v, s), cut'[v] = {}
        PROVE  list'[v] \in {None, Asked(v, s)}
    <3>1. CASE v = u
      BY <2>1, <2>6, <3>1
    <3>2. CASE v # u
      BY <2>0, <2>1, <2>2, <3>2, <2>4 DEF TypeOK, TreeInv
    <3> QED
      BY <3>1, <3>2
  <2>5. ASSUME NEW c \in Builds, pc'[c] = "stamp"
        PROVE  tree'[Order[at'[c]]] = Asked(Order[at'[c]], chosen'[c])
    BY <2>1, <2>2, <2>5 DEF TypeOK, TreeInv
  <2> QED
    BY <2>3, <2>4, <2>5, <1>e DEF TreeInv
<1>10. ASSUME NEW b \in Builds, Release(b) PROVE TreeInv'
  <2>1. UNCHANGED <<tree, stamp, cut>> /\ \A u \in Units : list'[u] \in {list[u], None}
    BY <1>10 DEF Release, disk, TypeOK
  <2>2. pc[b] \notin {"targets", "stamp"} /\ pc'[b] \notin {"targets", "stamp"}
    BY <1>10 DEF Release, Goto, TypeOK
  <2>3. \A c \in Builds : c # b => pc'[c] = pc[c] /\ at'[c] = at[c] /\ chosen'[c] = chosen[c]
    BY <1>10 DEF Release, Goto, TypeOK
  <2> QED
    BY <2>1, <2>2, <2>3, <1>e, TreeKept
<1>11. ASSUME NEW b \in Builds, TakeForLines(b) PROVE TreeInv'
  <2>1. UNCHANGED <<tree, stamp, cut>> /\ \A u \in Units : list'[u] \in {list[u], None}
    BY <1>11 DEF TakeForLines, disk, TypeOK
  <2>2. pc[b] \notin {"targets", "stamp"} /\ pc'[b] \notin {"targets", "stamp"}
    BY <1>11 DEF TakeForLines, Goto, Lock, TypeOK
  <2>3. \A c \in Builds : c # b => pc'[c] = pc[c] /\ at'[c] = at[c] /\ chosen'[c] = chosen[c]
    BY <1>11 DEF TakeForLines, Goto, Lock, TypeOK
  <2> QED
    BY <2>1, <2>2, <2>3, <1>e, TreeKept
<1>12. ASSUME NEW b \in Builds, ReadList(b) PROVE TreeInv'
  <2>1. UNCHANGED <<tree, stamp, cut>> /\ \A u \in Units : list'[u] \in {list[u], None}
    BY <1>12 DEF ReadList, disk, Learn, TypeOK
  <2>2. pc[b] \notin {"targets", "stamp"} /\ pc'[b] \notin {"targets", "stamp"}
    BY <1>12 DEF ReadList, Goto, Learn, TypeOK
  <2>3. \A c \in Builds : c # b => pc'[c] = pc[c] /\ at'[c] = at[c] /\ chosen'[c] = chosen[c]
    BY <1>12 DEF ReadList, Goto, Learn, TypeOK
  <2> QED
    BY <2>1, <2>2, <2>3, <1>e, TreeKept
<1>13. ASSUME NEW b \in Builds, AskMake(b) PROVE TreeInv'
  <2>1. UNCHANGED <<tree, stamp, cut>> /\ \A u \in Units : list'[u] \in {list[u], None}
    BY <1>13 DEF AskMake, disk, Learn, TypeOK
  <2>2. pc[b] \notin {"targets", "stamp"} /\ pc'[b] \notin {"targets", "stamp"}
    BY <1>13 DEF AskMake, Goto, Learn, TypeOK
  <2>3. \A c \in Builds : c # b => pc'[c] = pc[c] /\ at'[c] = at[c] /\ chosen'[c] = chosen[c]
    BY <1>13 DEF AskMake, Goto, Learn, TypeOK
  <2> QED
    BY <2>1, <2>2, <2>3, <1>e, TreeKept
<1>14. ASSUME NEW b \in Builds, AskDatabase(b) PROVE TreeInv'
  <2>1. UNCHANGED <<tree, stamp, cut>> /\ \A u \in Units : list'[u] \in {list[u], None}
    BY <1>14 DEF AskDatabase, disk, Learn, TypeOK
  <2>2. pc[b] \notin {"targets", "stamp"} /\ pc'[b] \notin {"targets", "stamp"}
    BY <1>14 DEF AskDatabase, Goto, Learn, TypeOK
  <2>3. \A c \in Builds : c # b => pc'[c] = pc[c] /\ at'[c] = at[c] /\ chosen'[c] = chosen[c]
    BY <1>14 DEF AskDatabase, Goto, Learn, TypeOK
  <2> QED
    BY <2>1, <2>2, <2>3, <1>e, TreeKept
<1>15. ASSUME NEW b \in Builds, MakeGenerated(b) PROVE TreeInv'
  <2>1. UNCHANGED <<tree, stamp, cut>> /\ \A u \in Units : list'[u] \in {list[u], None}
    BY <1>15 DEF MakeGenerated, disk, TypeOK
  <2>2. pc[b] \notin {"targets", "stamp"} /\ pc'[b] \notin {"targets", "stamp"}
    BY <1>15 DEF MakeGenerated, Goto, TypeOK
  <2>3. \A c \in Builds : c # b => pc'[c] = pc[c] /\ at'[c] = at[c] /\ chosen'[c] = chosen[c]
    BY <1>15 DEF MakeGenerated, Goto, TypeOK
  <2> QED
    BY <2>1, <2>2, <2>3, <1>e, TreeKept
<1>16. ASSUME NEW b \in Builds, KeepList(b) PROVE TreeInv'
  <2>0. PICK u \in Units : u = Order[at[b]]
    BY OrderIs DEF TypeOK
  <2>1. /\ pc[b] = "keep" /\ pc' = [pc EXCEPT ![b] = "done"]
        /\ list' = [list EXCEPT ![u] = got[b][u]] /\ UNCHANGED <<tree, stamp, at, chosen, cut>>
    BY <1>16, <2>0 DEF KeepList, Goto, Unit
  <2>6. stamp[u] = Fingerprint(u, chosen[b]) /\ (cut[u] = {} => got[b][u] = Asked(u, chosen[b]))
    <3>1. Settled(b) /\ at[b] \in 1..Len(Order) /\ Recipe[u].sources # "recipe"
      BY <2>0, <2>1 DEF DoneInv, LockInv, TypeOK
    <3>2. Passed(b, at[b]) /\ Learned(b, at[b])
      BY <2>1 DEF Passed, Learned
    <3> QED
      BY <2>0, <2>1, <3>1, <3>2 DEF Settled
  <2>8. chosen[b] \in world.settings
    BY DEF TypeOK
  <2>9. \A s \in world.settings : Fingerprint(u, chosen[b]) = Fingerprint(u, s) => Asked(u, chosen[b]) = Asked(u, s)
    BY <2>8, StampTells
  <2>7. \A s \in world.settings : stamp[u] = Fingerprint(u, s) /\ cut[u] = {} => got[b][u] = Asked(u, s)
    BY <2>6, <2>9
  <2>2. \A c \in Builds : c # b => pc'[c] = pc[c] /\ at'[c] = at[c] /\ chosen'[c] = chosen[c]
    BY <2>1 DEF TypeOK
  <2>3. ASSUME NEW v \in Units, NEW s \in world.settings, stamp'[v] = Fingerprint(v, s), cut'[v] = {}
        PROVE  \/ tree'[v] = Asked(v, s)
               \/ \E c \in Builds : pc'[c] \in {"targets", "stamp"} /\ Order[at'[c]] = v
    BY <2>1, <2>2, <2>3 DEF TypeOK, TreeInv
  <2>4. ASSUME NEW v \in Units, NEW s \in world.settings, stamp'[v] = Fingerprint(v, s), cut'[v] = {}
        PROVE  list'[v] \in {None, Asked(v, s)}
    <3>1. CASE v = u
      BY <2>1, <2>4, <2>7, <3>1 DEF TypeOK
    <3>2. CASE v # u
      BY <2>0, <2>1, <2>2, <3>2, <2>4 DEF TypeOK, TreeInv
    <3> QED
      BY <3>1, <3>2
  <2>5. ASSUME NEW c \in Builds, pc'[c] = "stamp"
        PROVE  tree'[Order[at'[c]]] = Asked(Order[at'[c]], chosen'[c])
    BY <2>1, <2>2, <2>5 DEF TypeOK, TreeInv
  <2> QED
    BY <2>3, <2>4, <2>5, <1>e DEF TreeInv
<1>17. ASSUME NEW b \in Builds, NextUnit(b) PROVE TreeInv'
  <2>1. UNCHANGED <<tree, stamp, cut>> /\ \A u \in Units : list'[u] \in {list[u], None}
    BY <1>17 DEF NextUnit, disk, TypeOK
  <2>2. pc[b] \notin {"targets", "stamp"} /\ pc'[b] \notin {"targets", "stamp"}
    BY <1>17 DEF NextUnit, Goto, TypeOK
  <2>3. \A c \in Builds : c # b => pc'[c] = pc[c] /\ at'[c] = at[c] /\ chosen'[c] = chosen[c]
    BY <1>17 DEF NextUnit, Goto, TypeOK
  <2> QED
    BY <2>1, <2>2, <2>3, <1>e, TreeKept
<1>18. ASSUME NEW b \in Builds, Compile(b) PROVE TreeInv'
  <2>1. UNCHANGED <<tree, stamp, cut>> /\ \A u \in Units : list'[u] \in {list[u], None}
    BY <1>18 DEF Compile, disk, TypeOK
  <2>2. pc[b] \notin {"targets", "stamp"} /\ pc'[b] \notin {"targets", "stamp"}
    BY <1>18 DEF Compile, Goto, TypeOK
  <2>3. \A c \in Builds : c # b => pc'[c] = pc[c] /\ at'[c] = at[c] /\ chosen'[c] = chosen[c]
    BY <1>18 DEF Compile, Goto, TypeOK
  <2> QED
    BY <2>1, <2>2, <2>3, <1>e, TreeKept
<1>19. ASSUME NEW b \in Builds, StepFails(b) PROVE TreeInv'
  <2>1. CutOff(b)
    BY <1>19 DEF StepFails
  <2>2. /\ UNCHANGED <<tree, list>> /\ pc'[b] = "out"
        /\ \A c \in Builds : c # b => pc'[c] = pc[c] /\ at'[c] = at[c] /\ chosen'[c] = chosen[c]
    BY <1>19 DEF StepFails, Goto, disk, TypeOK
  <2>3. \/ stamp' = stamp
        \/ pc[b] = "stamp" /\ stamp' = [stamp EXCEPT ![Order[at[b]]] = Torn]
    BY <1>19 DEF StepFails, disk, Unit, TypeOK
  <2> QED
    BY <2>1, <2>2, <2>3, <1>e, TreeCut
<1>20. ASSUME NEW b \in Builds, SaveFails(b) PROVE TreeInv'
  <2>1. CutOff(b)
    BY <1>20 DEF SaveFails
  <2>2. /\ UNCHANGED <<tree, list>> /\ pc'[b] = "out"
        /\ \A c \in Builds : c # b => pc'[c] = pc[c] /\ at'[c] = at[c] /\ chosen'[c] = chosen[c]
    BY <1>20 DEF SaveFails, Goto, TypeOK
  <2>3. \/ stamp' = stamp
        \/ pc[b] = "stamp" /\ stamp' = [stamp EXCEPT ![Order[at[b]]] = Torn]
    BY <1>20 DEF SaveFails, Unit, TypeOK
  <2> QED
    BY <2>1, <2>2, <2>3, <1>e, TreeCut
<1>21. ASSUME NEW b \in Builds, Crash(b) PROVE TreeInv'
  <2>1. CutOff(b)
    BY <1>21 DEF Crash
  <2>2. /\ UNCHANGED <<tree, list>> /\ pc'[b] = "out"
        /\ \A c \in Builds : c # b => pc'[c] = pc[c] /\ at'[c] = at[c] /\ chosen'[c] = chosen[c]
    BY <1>21 DEF Crash, Goto, TypeOK
  <2>3. \/ stamp' = stamp
        \/ pc[b] = "stamp" /\ stamp' = [stamp EXCEPT ![Order[at[b]]] = Torn]
    <3>1. PICK s \in {stamp[Order[at[b]]]} \cup (IF pc[b] = "stamp" THEN {Torn} ELSE {}) :
            stamp' = [stamp EXCEPT ![Order[at[b]]] = s]
      BY <1>21 DEF Crash, Unit
    <3>2. CASE s = stamp[Order[at[b]]]
      BY <3>1, <3>2 DEF TypeOK
    <3>3. CASE s # stamp[Order[at[b]]]
      BY <3>1, <3>3
    <3> QED
      BY <3>2, <3>3
  <2> QED
    BY <2>1, <2>2, <2>3, <1>e, TreeCut
<1>22. CASE UNCHANGED vars
  BY <1>22, <1>e DEF vars, TreeInv
<1> QED
  BY <1>1, <1>2, <1>3, <1>4, <1>5, <1>6, <1>7, <1>8, <1>9, <1>10, <1>11, <1>12, <1>13, <1>14,
     <1>15, <1>16, <1>17, <1>18, <1>19, <1>20, <1>21, <1>22 DEF Next, Step, Fault

\* A setting that was cut off wanted another stamp than there is.
LEMMA CutStep ==
  ASSUME TypeOK, LockInv, CutInv, [Next]_vars
  PROVE  CutInv'
<1>1. CASE UNCHANGED <<stamp, cut>>
  BY <1>1 DEF CutInv
<1>2. ASSUME NEW b \in Builds, WriteStamp(b) PROVE CutInv'
  <2>1. /\ stamp' = [stamp EXCEPT ![Order[at[b]]] = Fingerprint(Order[at[b]], chosen[b])]
        /\ cut' = [cut EXCEPT ![Order[at[b]]] = {}]
    BY <1>2 DEF WriteStamp, Unit, Wanted
  <2> QED
    BY <2>1 DEF CutInv, TypeOK
<1>3. ASSUME NEW b \in Builds, StepFails(b) \/ SaveFails(b) \/ Crash(b) PROVE CutInv'
  <2>1. CutOff(b) /\ \A u \in Units : stamp'[u] \in {stamp[u], Torn}
    <3>1. CASE Crash(b)
      <4>1. PICK x \in {stamp[Unit(b)], Torn} : stamp' = [stamp EXCEPT ![Unit(b)] = x]
        BY <3>1 DEF Crash
      <4> QED
        BY <3>1, <4>1 DEF Crash, TypeOK
    <3> QED
      BY <1>3, <3>1 DEF StepFails, SaveFails, disk, TypeOK
  <2>2. ASSUME NEW u \in Units, NEW s \in cut'[u] PROVE stamp'[u] # Fingerprint(u, s)
    <3>1. s \in cut[u] \/ (pc[b] \in {"targets", "stamp"} /\ u = Order[at[b]] /\ s = chosen[b])
      <4>1. CASE pc[b] \in {"targets", "stamp"}
        <5>1. cut' = [cut EXCEPT ![Order[at[b]]] = @ \cup {chosen[b]}]
          BY <2>1, <4>1 DEF CutOff, Unit
        <5> QED
          BY <2>2, <4>1, <5>1 DEF TypeOK
      <4>2. CASE pc[b] \notin {"targets", "stamp"}
        BY <2>1, <2>2, <4>2 DEF CutOff
      <4> QED
        BY <4>1, <4>2
    <3>2. s \in world.settings
      BY <3>1 DEF TypeOK
    <3>3. Fingerprint(u, s) # Torn
      BY <3>2, WorldIs DEF TypeOK
    <3>4. stamp[u] # Fingerprint(u, s)
      BY <3>1 DEF CutInv, LockInv, Changing
    <3> QED
      BY <2>1, <3>3, <3>4
  <2> QED
    BY <2>2 DEF CutInv
<1> QED
  BY <1>1, <1>2, <1>3 DEF Next, Step, Fault, vars, disk, Begin, Refused, Take, Configured, Reconfigure,
      BuildLibraries, RunConfigure, MakeTargets, Release, TakeForLines, ReadList,
      AskMake, AskDatabase, MakeGenerated, KeepList, NextUnit, Compile, Learn

------------------------------------------------------------------------------
(* What a build has passed                                                  *)

\* The others have not passed a package that one configures anew.
LEMMA OthersKept ==
  ASSUME TypeOK, LockInv, AgreeInv, DoneInv, NEW b \in Builds, NEW c \in Builds, c # b,
         UNCHANGED <<world, pc[c], at[c], chosen[c], got[c]>>,
         \/ UNCHANGED <<stamp, tree, cut>>
         \/ /\ pc[b] \in Changing
            /\ \A v \in Units : v # Order[at[b]] => stamp'[v] = stamp[v] /\ tree'[v] = tree[v] /\ cut'[v] = cut[v]
  PROVE  Settled(c)'
<1> SUFFICES ASSUME pc[c] # "out", NEW i \in 1..Len(Order)
             PROVE  /\ Passed(c, i) => stamp'[Order[i]] = Fingerprint(Order[i], chosen[c])
                    /\ Passed(c, i) /\ cut'[Order[i]] = {} => tree'[Order[i]] = Asked(Order[i], chosen[c])
                    /\ Learned(c, i) /\ Recipe[Order[i]].sources # "recipe" /\ cut'[Order[i]] = {} =>
                         got[c][Order[i]] = Asked(Order[i], chosen[c])
  BY DEF Settled, Passed, Learned
<1>1. /\ Passed(c, i) => stamp[Order[i]] = Fingerprint(Order[i], chosen[c])
      /\ Passed(c, i) /\ cut[Order[i]] = {} => tree[Order[i]] = Asked(Order[i], chosen[c])
      /\ Learned(c, i) => Passed(c, i)
      /\ Learned(c, i) /\ Recipe[Order[i]].sources # "recipe" /\ cut[Order[i]] = {} =>
           got[c][Order[i]] = Asked(Order[i], chosen[c])
  BY DEF DoneInv, Settled, Passed, Learned
<1>2. CASE UNCHANGED <<stamp, tree, cut>>
  BY <1>1, <1>2
<1>3. CASE /\ pc[b] \in Changing
           /\ \A v \in Units : v # Order[at[b]] => stamp'[v] = stamp[v] /\ tree'[v] = tree[v] /\ cut'[v] = cut[v]
  <2>1. chosen[b] = chosen[c]
    BY <1>3, WantSame DEF Changing
  <2>2. stamp[Order[at[b]]] # Fingerprint(Order[at[b]], chosen[c])
    BY <1>3, <2>1 DEF LockInv
  <2>3. Order[i] \in Units
    BY OrderIs
  <2>4. Passed(c, i) => Order[i] # Order[at[b]]
    BY <1>1, <2>2
  <2> QED
    BY <1>1, <1>3, <2>3, <2>4
<1> QED
  BY <1>2, <1>3

\* A step within a package that is no further.
LEMMA SelfKept ==
  ASSUME DoneInv, NEW b \in Builds, pc[b] # "out", UNCHANGED <<stamp, tree, cut, at[b], chosen[b], got[b]>>,
         pc'[b] \in {"release", "lines", "read", "generate", "keep", "done", "compile"} =>
           pc[b] \in {"release", "lines", "read", "generate", "keep", "done", "compile"},
         pc'[b] \in {"generate", "keep", "done", "compile"} =>
           pc[b] \in {"generate", "keep", "done", "compile"} \/ Recipe[Order[at[b]]].sources = "recipe"
  PROVE  Settled(b)'
<1>1. Settled(b)
  BY DEF DoneInv
<1> QED
  BY <1>1 DEF Settled, Passed, Learned

\* One that has not been passed changes.
LEMMA SelfChanges ==
  ASSUME TypeOK, LockInv, DoneInv, NEW b \in Builds, pc[b] \in Changing, UNCHANGED <<at[b], chosen[b], got[b]>>,
         \A v \in Units : v # Order[at[b]] => stamp'[v] = stamp[v] /\ tree'[v] = tree[v] /\ cut'[v] = cut[v],
         \/ pc'[b] \in {"targets", "stamp"}
         \/ /\ pc'[b] = "release"
            /\ stamp'[Order[at[b]]] = Fingerprint(Order[at[b]], chosen[b])
            /\ tree'[Order[at[b]]] = Asked(Order[at[b]], chosen[b])
  PROVE  Settled(b)'
<1>1. Settled(b) /\ pc[b] # "out" /\ stamp[Order[at[b]]] # Fingerprint(Order[at[b]], chosen[b])
  BY DEF DoneInv, LockInv, Changing
<1> SUFFICES ASSUME NEW i \in 1..Len(Order)
             PROVE  /\ (Passed(b, i))' => stamp'[Order[i]] = Fingerprint(Order[i], chosen[b])
                    /\ (Passed(b, i))' /\ cut'[Order[i]] = {} => tree'[Order[i]] = Asked(Order[i], chosen[b])
                    /\ (Learned(b, i))' => i < at[b] /\ cut'[Order[i]] = cut[Order[i]]
  BY <1>1 DEF Settled, Learned
<1>2. (Learned(b, i))' => i < at[b]
  BY DEF Learned
<1>3. i < at[b] => /\ stamp[Order[i]] = Fingerprint(Order[i], chosen[b])
                   /\ cut[Order[i]] = {} => tree[Order[i]] = Asked(Order[i], chosen[b])
  BY <1>1 DEF Settled, Passed
<1>4. Order[i] \in Units
  BY OrderIs
<1>5. i < at[b] => Order[i] # Order[at[b]]
  BY <1>1, <1>3
<1>6. CASE i < at[b]
  BY <1>2, <1>3, <1>4, <1>5, <1>6
<1>7. CASE ~(i < at[b])
  BY <1>2, <1>7 DEF Passed
<1> QED
  BY <1>6, <1>7

\* A build reads what the tree it has passed was asked for.
LEMMA SelfLearns ==
  ASSUME TypeOK, DoneInv, NEW b \in Builds, pc[b] = "read", pc'[b] \in {"generate", "keep", "done"},
         UNCHANGED <<stamp, tree, cut, at[b], chosen[b]>>, NEW x,
         got'[b] = [got[b] EXCEPT ![Order[at[b]]] = x],
         cut[Order[at[b]]] = {} => x = Asked(Order[at[b]], chosen[b])
  PROVE  Settled(b)'
<1>1. Settled(b)
  BY DEF DoneInv
<1> SUFFICES ASSUME NEW i \in 1..Len(Order)
             PROVE  /\ (Passed(b, i))' => stamp[Order[i]] = Fingerprint(Order[i], chosen[b])
                    /\ (Passed(b, i))' /\ cut[Order[i]] = {} => tree[Order[i]] = Asked(Order[i], chosen[b])
                    /\ (Learned(b, i))' /\ Recipe[Order[i]].sources # "recipe" /\ cut[Order[i]] = {} =>
                         got'[b][Order[i]] = Asked(Order[i], chosen[b])
  BY <1>1 DEF Settled
<1>2. (Passed(b, i))' => Passed(b, i)
  BY DEF Passed
<1>3. (Learned(b, i))' => Learned(b, i) \/ i = at[b]
  BY DEF Learned
<1>4. Order[i] \in Units /\ DOMAIN got[b] = Units
  BY OrderIs DEF TypeOK
<1>5. CASE Order[i] = Order[at[b]]
  BY <1>1, <1>2, <1>4, <1>5 DEF Settled
<1>6. CASE Order[i] # Order[at[b]]
  BY <1>1, <1>2, <1>3, <1>4, <1>6 DEF Settled
<1> QED
  BY <1>5, <1>6

\* What a build has passed stays as it left it.
LEMMA DoneStep ==
  ASSUME TypeOK, LockInv, AgreeInv, TreeInv, DoneInv, [Next]_vars
  PROVE  DoneInv'
<1>e. world' = world
  BY WorldStays
<1>1. ASSUME NEW b \in Builds, Begin(b) PROVE DoneInv'
  <2>1. /\ \A c \in Builds : c # b => UNCHANGED <<pc[c], at[c], chosen[c], got[c]>>
        /\ UNCHANGED <<stamp, tree, cut>>
    BY <1>1 DEF Begin, Goto, disk, TypeOK
  <2>2. pc'[b] = "next" /\ at'[b] = 1
    BY <1>1 DEF Begin, Goto, TypeOK
  <2>3. Settled(b)'
    BY <2>2, OrderIs DEF Settled, Passed, Learned
  <2>10. \A c \in Builds : c # b => Settled(c)'
    BY <2>1, <1>e, OthersKept DEF Changing
  <2> QED
    BY <2>3, <2>10 DEF DoneInv
<1>2. ASSUME NEW b \in Builds, Refused(b) PROVE DoneInv'
  <2>1. /\ \A c \in Builds : c # b => UNCHANGED <<pc[c], at[c], chosen[c], got[c]>>
        /\ UNCHANGED <<stamp, tree, cut>>
    BY <1>2 DEF Refused, Goto, Unit, disk, TypeOK
  <2>2. pc'[b] = "out"
    BY <1>2 DEF Refused, Goto, TypeOK
  <2>3. Settled(b)'
    BY <2>2 DEF Settled
  <2>10. \A c \in Builds : c # b => Settled(c)'
    BY <2>1, <1>e, OthersKept DEF Changing
  <2> QED
    BY <2>3, <2>10 DEF DoneInv
<1>3. ASSUME NEW b \in Builds, Take(b) PROVE DoneInv'
  <2>1. /\ \A c \in Builds : c # b => UNCHANGED <<pc[c], at[c], chosen[c], got[c]>>
        /\ UNCHANGED <<stamp, tree, cut>>
    BY <1>3 DEF Take, Goto, Unit, Lock, disk, TypeOK
  <2>2. /\ pc[b] # "out" /\ UNCHANGED <<at[b], chosen[b], got[b]>>
        /\ pc'[b] \in {"release", "lines", "read", "generate", "keep", "done", "compile"} =>
             pc[b] \in {"release", "lines", "read", "generate", "keep", "done", "compile"}
        /\ pc'[b] \in {"generate", "keep", "done", "compile"} =>
             pc[b] \in {"generate", "keep", "done", "compile"} \/ Recipe[Order[at[b]]].sources = "recipe"
    BY <1>3 DEF Take, Goto, Unit, TypeOK
  <2>3. Settled(b)'
    BY <2>1, <2>2, SelfKept
  <2>10. \A c \in Builds : c # b => Settled(c)'
    BY <2>1, <1>e, OthersKept DEF Changing
  <2> QED
    BY <2>3, <2>10 DEF DoneInv
<1>4. ASSUME NEW b \in Builds, Configured(b) PROVE DoneInv'
  <2>1. /\ \A c \in Builds : c # b => UNCHANGED <<pc[c], at[c], chosen[c], got[c]>>
        /\ UNCHANGED <<stamp, tree, cut>>
    BY <1>4 DEF Configured, Goto, Unit, Wanted, disk, TypeOK
  <2>2. PICK u \in Units : u = Order[at[b]]
    BY OrderIs DEF TypeOK
  <2>4. /\ pc[b] = "check" /\ pc'[b] = "release" /\ stamp[u] = Fingerprint(u, chosen[b])
        /\ UNCHANGED <<at[b], chosen[b], got[b]>>
    BY <1>4, <2>2 DEF Configured, Goto, Wanted, Unit, TypeOK
  <2>5. \A c \in Builds : pc[c] \in {"targets", "stamp"} => Order[at[c]] # u
    BY <2>2, <2>4 DEF LockInv, Holding
  <2>6. chosen[b] \in world.settings
    BY DEF TypeOK
  <2>7. cut[u] = {} => tree[u] = Asked(u, chosen[b])
    BY <2>4, <2>5, <2>6 DEF TreeInv
  <2>8. Settled(b)
    BY DEF DoneInv
  <2>3. Settled(b)'
    BY <2>1, <2>2, <2>4, <2>7, <2>8 DEF Settled, Passed, Learned
  <2>10. \A c \in Builds : c # b => Settled(c)'
    BY <2>1, <1>e, OthersKept DEF Changing
  <2> QED
    BY <2>3, <2>10 DEF DoneInv
<1>5. ASSUME NEW b \in Builds, Reconfigure(b) PROVE DoneInv'
  <2>1. /\ \A c \in Builds : c # b => UNCHANGED <<pc[c], at[c], chosen[c], got[c]>>
        /\ UNCHANGED <<stamp, tree, cut>>
    BY <1>5 DEF Reconfigure, Goto, Unit, Wanted, TypeOK
  <2>2. /\ pc[b] # "out" /\ UNCHANGED <<at[b], chosen[b], got[b]>>
        /\ pc'[b] \in {"release", "lines", "read", "generate", "keep", "done", "compile"} =>
             pc[b] \in {"release", "lines", "read", "generate", "keep", "done", "compile"}
        /\ pc'[b] \in {"generate", "keep", "done", "compile"} =>
             pc[b] \in {"generate", "keep", "done", "compile"} \/ Recipe[Order[at[b]]].sources = "recipe"
    BY <1>5 DEF Reconfigure, Goto, Unit, TypeOK
  <2>3. Settled(b)'
    BY <2>1, <2>2, SelfKept
  <2>10. \A c \in Builds : c # b => Settled(c)'
    BY <2>1, <1>e, OthersKept DEF Changing
  <2> QED
    BY <2>3, <2>10 DEF DoneInv
<1>6. ASSUME NEW b \in Builds, BuildLibraries(b) PROVE DoneInv'
  <2>1. /\ \A c \in Builds : c # b => UNCHANGED <<pc[c], at[c], chosen[c], got[c]>>
        /\ UNCHANGED <<stamp, tree, cut>>
    BY <1>6 DEF BuildLibraries, Goto, Unit, TypeOK
  <2>2. /\ pc[b] # "out" /\ UNCHANGED <<at[b], chosen[b], got[b]>>
        /\ pc'[b] \in {"release", "lines", "read", "generate", "keep", "done", "compile"} =>
             pc[b] \in {"release", "lines", "read", "generate", "keep", "done", "compile"}
        /\ pc'[b] \in {"generate", "keep", "done", "compile"} =>
             pc[b] \in {"generate", "keep", "done", "compile"} \/ Recipe[Order[at[b]]].sources = "recipe"
    BY <1>6 DEF BuildLibraries, Goto, Unit, TypeOK
  <2>3. Settled(b)'
    BY <2>1, <2>2, SelfKept
  <2>10. \A c \in Builds : c # b => Settled(c)'
    BY <2>1, <1>e, OthersKept DEF Changing
  <2> QED
    BY <2>3, <2>10 DEF DoneInv
<1>7. ASSUME NEW b \in Builds, RunConfigure(b) PROVE DoneInv'
  <2>1. /\ \A c \in Builds : c # b => UNCHANGED <<pc[c], at[c], chosen[c], got[c]>>
        /\ pc[b] = "run" /\ UNCHANGED <<at[b], chosen[b], got[b]>>
        /\ \A v \in Units : v # Order[at[b]] => stamp'[v] = stamp[v] /\ tree'[v] = tree[v] /\ cut'[v] = cut[v]
    BY <1>7 DEF RunConfigure, Goto, Unit, TypeOK
  <2>2. pc'[b] = "targets"
    BY <1>7 DEF RunConfigure, Goto, TypeOK
  <2>3. Settled(b)'
    BY <2>1, <2>2, SelfChanges DEF Changing
  <2>10. \A c \in Builds : c # b => Settled(c)'
    BY <2>1, <1>e, OthersKept DEF Changing
  <2> QED
    BY <2>3, <2>10 DEF DoneInv
<1>8. ASSUME NEW b \in Builds, MakeTargets(b) PROVE DoneInv'
  <2>1. /\ \A c \in Builds : c # b => UNCHANGED <<pc[c], at[c], chosen[c], got[c]>>
        /\ pc[b] = "targets" /\ UNCHANGED <<at[b], chosen[b], got[b]>>
        /\ \A v \in Units : v # Order[at[b]] => stamp'[v] = stamp[v] /\ tree'[v] = tree[v] /\ cut'[v] = cut[v]
    BY <1>8 DEF MakeTargets, Goto, Unit, Answers, TypeOK
  <2>2. pc'[b] = "stamp"
    BY <1>8 DEF MakeTargets, Goto, TypeOK
  <2>3. Settled(b)'
    BY <2>1, <2>2, SelfChanges DEF Changing
  <2>10. \A c \in Builds : c # b => Settled(c)'
    BY <2>1, <1>e, OthersKept DEF Changing
  <2> QED
    BY <2>3, <2>10 DEF DoneInv
<1>9. ASSUME NEW b \in Builds, WriteStamp(b) PROVE DoneInv'
  <2>1. /\ \A c \in Builds : c # b => UNCHANGED <<pc[c], at[c], chosen[c], got[c]>>
        /\ pc[b] = "stamp" /\ UNCHANGED <<at[b], chosen[b], got[b]>>
        /\ \A v \in Units : v # Order[at[b]] => stamp'[v] = stamp[v] /\ tree'[v] = tree[v] /\ cut'[v] = cut[v]
    BY <1>9 DEF WriteStamp, Goto, Unit, Wanted, TypeOK
  <2>2. /\ pc'[b] = "release" /\ stamp'[Order[at[b]]] = Fingerprint(Order[at[b]], chosen[b])
        /\ tree'[Order[at[b]]] = Asked(Order[at[b]], chosen[b])
    <3>1. Order[at[b]] \in Units
      BY OrderIs DEF TypeOK
    <3>2. tree[Order[at[b]]] = Asked(Order[at[b]], chosen[b])
      BY <2>1 DEF TreeInv
    <3> QED
      BY <1>9, <3>1, <3>2 DEF WriteStamp, Goto, Unit, Wanted, TypeOK
  <2>3. Settled(b)'
    BY <2>1, <2>2, SelfChanges DEF Changing
  <2>10. \A c \in Builds : c # b => Settled(c)'
    BY <2>1, <1>e, OthersKept DEF Changing
  <2> QED
    BY <2>3, <2>10 DEF DoneInv
<1>10. ASSUME NEW b \in Builds, Release(b) PROVE DoneInv'
  <2>1. /\ \A c \in Builds : c # b => UNCHANGED <<pc[c], at[c], chosen[c], got[c]>>
        /\ UNCHANGED <<stamp, tree, cut>>
    BY <1>10 DEF Release, Goto, Unit, disk, TypeOK
  <2>2. /\ pc[b] # "out" /\ UNCHANGED <<at[b], chosen[b], got[b]>>
        /\ pc'[b] \in {"release", "lines", "read", "generate", "keep", "done", "compile"} =>
             pc[b] \in {"release", "lines", "read", "generate", "keep", "done", "compile"}
        /\ pc'[b] \in {"generate", "keep", "done", "compile"} =>
             pc[b] \in {"generate", "keep", "done", "compile"} \/ Recipe[Order[at[b]]].sources = "recipe"
    BY <1>10 DEF Release, Goto, Unit, TypeOK
  <2>3. Settled(b)'
    BY <2>1, <2>2, SelfKept
  <2>10. \A c \in Builds : c # b => Settled(c)'
    BY <2>1, <1>e, OthersKept DEF Changing
  <2> QED
    BY <2>3, <2>10 DEF DoneInv
<1>11. ASSUME NEW b \in Builds, TakeForLines(b) PROVE DoneInv'
  <2>1. /\ \A c \in Builds : c # b => UNCHANGED <<pc[c], at[c], chosen[c], got[c]>>
        /\ UNCHANGED <<stamp, tree, cut>>
    BY <1>11 DEF TakeForLines, Goto, Unit, Lock, disk, TypeOK
  <2>2. /\ pc[b] # "out" /\ UNCHANGED <<at[b], chosen[b], got[b]>>
        /\ pc'[b] \in {"release", "lines", "read", "generate", "keep", "done", "compile"} =>
             pc[b] \in {"release", "lines", "read", "generate", "keep", "done", "compile"}
        /\ pc'[b] \in {"generate", "keep", "done", "compile"} =>
             pc[b] \in {"generate", "keep", "done", "compile"} \/ Recipe[Order[at[b]]].sources = "recipe"
    BY <1>11 DEF TakeForLines, Goto, TypeOK
  <2>3. Settled(b)'
    BY <2>1, <2>2, SelfKept
  <2>10. \A c \in Builds : c # b => Settled(c)'
    BY <2>1, <1>e, OthersKept DEF Changing
  <2> QED
    BY <2>3, <2>10 DEF DoneInv
<1>12. ASSUME NEW b \in Builds, ReadList(b) PROVE DoneInv'
  <2>1. /\ \A c \in Builds : c # b => UNCHANGED <<pc[c], at[c], chosen[c], got[c]>>
        /\ UNCHANGED <<stamp, tree, cut>>
    BY <1>12 DEF ReadList, Goto, Unit, Learn, disk, TypeOK
  <2>2. PICK u \in Units : u = Order[at[b]]
    BY OrderIs DEF TypeOK
  <2>4. /\ pc[b] = "read" /\ pc'[b] \in {"generate", "keep", "done"} /\ list[u] # None
        /\ UNCHANGED <<at[b], chosen[b]>> /\ got' = [got EXCEPT ![b][u] = list[u]]
    BY <1>12, <2>2 DEF ReadList, Learn, Goto, Unit, TypeOK
  <2>5. stamp[u] = Fingerprint(u, chosen[b]) /\ (cut[u] = {} => tree[u] = Asked(u, chosen[b]))
    <3>1. Settled(b) /\ at[b] \in 1..Len(Order)
      BY DEF DoneInv, TypeOK
    <3>2. Passed(b, at[b])
      BY <2>4 DEF Passed
    <3> QED
      BY <2>2, <2>4, <3>1, <3>2 DEF Settled
  <2>6. chosen[b] \in world.settings
    BY DEF TypeOK
  <2>8. cut[u] = {} => list[u] \in {None, Asked(u, chosen[b])}
    BY <2>2, <2>5, <2>6 DEF TreeInv
  <2>9. got'[b] = [got[b] EXCEPT ![u] = list[u]]
    BY <2>4 DEF TypeOK
  <2>7. cut[u] = {} => list[u] = Asked(u, chosen[b])
    BY <2>4, <2>5, <2>8
  <2>3. Settled(b)'
    BY <2>1, <2>2, <2>4, <2>7, <2>9, SelfLearns
  <2>10. \A c \in Builds : c # b => Settled(c)'
    BY <2>1, <1>e, OthersKept DEF Changing
  <2> QED
    BY <2>3, <2>10 DEF DoneInv
<1>13. ASSUME NEW b \in Builds, AskMake(b) PROVE DoneInv'
  <2>1. /\ \A c \in Builds : c # b => UNCHANGED <<pc[c], at[c], chosen[c], got[c]>>
        /\ UNCHANGED <<stamp, tree, cut>>
    BY <1>13 DEF AskMake, Goto, Unit, Learn, disk, TypeOK
  <2>2. PICK u \in Units : u = Order[at[b]]
    BY OrderIs DEF TypeOK
  <2>4. /\ pc[b] = "read" /\ pc'[b] \in {"generate", "keep", "done"}
        /\ UNCHANGED <<at[b], chosen[b]>> /\ got' = [got EXCEPT ![b][u] = tree[u]]
    BY <1>13, <2>2 DEF AskMake, Learn, Goto, Unit, TypeOK
  <2>5. stamp[u] = Fingerprint(u, chosen[b]) /\ (cut[u] = {} => tree[u] = Asked(u, chosen[b]))
    <3>1. Settled(b) /\ at[b] \in 1..Len(Order)
      BY DEF DoneInv, TypeOK
    <3>2. Passed(b, at[b])
      BY <2>4 DEF Passed
    <3> QED
      BY <2>2, <2>4, <3>1, <3>2 DEF Settled
  <2>6. chosen[b] \in world.settings
    BY DEF TypeOK
  <2>8. cut[u] = {} => list[u] \in {None, Asked(u, chosen[b])}
    BY <2>2, <2>5, <2>6 DEF TreeInv
  <2>9. got'[b] = [got[b] EXCEPT ![u] = tree[u]]
    BY <2>4 DEF TypeOK
  <2>7. cut[u] = {} => tree[u] = Asked(u, chosen[b])
    BY <2>4, <2>5, <2>8
  <2>3. Settled(b)'
    BY <2>1, <2>2, <2>4, <2>7, <2>9, SelfLearns
  <2>10. \A c \in Builds : c # b => Settled(c)'
    BY <2>1, <1>e, OthersKept DEF Changing
  <2> QED
    BY <2>3, <2>10 DEF DoneInv
<1>14. ASSUME NEW b \in Builds, AskDatabase(b) PROVE DoneInv'
  <2>1. /\ \A c \in Builds : c # b => UNCHANGED <<pc[c], at[c], chosen[c], got[c]>>
        /\ UNCHANGED <<stamp, tree, cut>>
    BY <1>14 DEF AskDatabase, Goto, Unit, Learn, disk, TypeOK
  <2>2. PICK u \in Units : u = Order[at[b]]
    BY OrderIs DEF TypeOK
  <2>4. /\ pc[b] = "read" /\ pc'[b] \in {"generate", "keep", "done"}
        /\ UNCHANGED <<at[b], chosen[b]>> /\ got' = [got EXCEPT ![b][u] = tree[u]]
    BY <1>14, <2>2 DEF AskDatabase, Learn, Goto, Unit, TypeOK
  <2>5. stamp[u] = Fingerprint(u, chosen[b]) /\ (cut[u] = {} => tree[u] = Asked(u, chosen[b]))
    <3>1. Settled(b) /\ at[b] \in 1..Len(Order)
      BY DEF DoneInv, TypeOK
    <3>2. Passed(b, at[b])
      BY <2>4 DEF Passed
    <3> QED
      BY <2>2, <2>4, <3>1, <3>2 DEF Settled
  <2>6. chosen[b] \in world.settings
    BY DEF TypeOK
  <2>8. cut[u] = {} => list[u] \in {None, Asked(u, chosen[b])}
    BY <2>2, <2>5, <2>6 DEF TreeInv
  <2>9. got'[b] = [got[b] EXCEPT ![u] = tree[u]]
    BY <2>4 DEF TypeOK
  <2>7. cut[u] = {} => tree[u] = Asked(u, chosen[b])
    BY <2>4, <2>5, <2>8
  <2>3. Settled(b)'
    BY <2>1, <2>2, <2>4, <2>7, <2>9, SelfLearns
  <2>10. \A c \in Builds : c # b => Settled(c)'
    BY <2>1, <1>e, OthersKept DEF Changing
  <2> QED
    BY <2>3, <2>10 DEF DoneInv
<1>15. ASSUME NEW b \in Builds, MakeGenerated(b) PROVE DoneInv'
  <2>1. /\ \A c \in Builds : c # b => UNCHANGED <<pc[c], at[c], chosen[c], got[c]>>
        /\ UNCHANGED <<stamp, tree, cut>>
    BY <1>15 DEF MakeGenerated, Goto, disk, TypeOK
  <2>2. /\ pc[b] # "out" /\ UNCHANGED <<at[b], chosen[b], got[b]>>
        /\ pc'[b] \in {"release", "lines", "read", "generate", "keep", "done", "compile"} =>
             pc[b] \in {"release", "lines", "read", "generate", "keep", "done", "compile"}
        /\ pc'[b] \in {"generate", "keep", "done", "compile"} =>
             pc[b] \in {"generate", "keep", "done", "compile"} \/ Recipe[Order[at[b]]].sources = "recipe"
    BY <1>15 DEF MakeGenerated, Goto, TypeOK
  <2>3. Settled(b)'
    BY <2>1, <2>2, SelfKept
  <2>10. \A c \in Builds : c # b => Settled(c)'
    BY <2>1, <1>e, OthersKept DEF Changing
  <2> QED
    BY <2>3, <2>10 DEF DoneInv
<1>16. ASSUME NEW b \in Builds, KeepList(b) PROVE DoneInv'
  <2>1. /\ \A c \in Builds : c # b => UNCHANGED <<pc[c], at[c], chosen[c], got[c]>>
        /\ UNCHANGED <<stamp, tree, cut>>
    BY <1>16 DEF KeepList, Goto, Unit, TypeOK
  <2>2. /\ pc[b] # "out" /\ UNCHANGED <<at[b], chosen[b], got[b]>>
        /\ pc'[b] \in {"release", "lines", "read", "generate", "keep", "done", "compile"} =>
             pc[b] \in {"release", "lines", "read", "generate", "keep", "done", "compile"}
        /\ pc'[b] \in {"generate", "keep", "done", "compile"} =>
             pc[b] \in {"generate", "keep", "done", "compile"} \/ Recipe[Order[at[b]]].sources = "recipe"
    BY <1>16 DEF KeepList, Goto, Unit, TypeOK
  <2>3. Settled(b)'
    BY <2>1, <2>2, SelfKept
  <2>10. \A c \in Builds : c # b => Settled(c)'
    BY <2>1, <1>e, OthersKept DEF Changing
  <2> QED
    BY <2>3, <2>10 DEF DoneInv
<1>17. ASSUME NEW b \in Builds, NextUnit(b) PROVE DoneInv'
  <2>1. /\ \A c \in Builds : c # b => UNCHANGED <<pc[c], at[c], chosen[c], got[c]>>
        /\ UNCHANGED <<stamp, tree, cut>>
    BY <1>17 DEF NextUnit, Goto, disk, TypeOK
  <2>2. ASSUME at[b] = Len(Order) PROVE Settled(b)'
    <3>1. pc[b] = "done" /\ pc'[b] = "compile" /\ UNCHANGED <<at[b], chosen[b], got[b]>>
      BY <1>17, <2>2 DEF NextUnit, Goto, TypeOK
    <3> QED
      BY <2>1, <3>1, SelfKept
  <2>4. ASSUME at[b] # Len(Order) PROVE Settled(b)'
    <3>1. /\ pc[b] = "done" /\ pc'[b] = "next" /\ at'[b] = at[b] + 1 /\ at[b] \in Nat
          /\ UNCHANGED <<chosen[b], got[b]>>
      BY <1>17, <2>4 DEF NextUnit, Goto, TypeOK
    <3> SUFFICES ASSUME NEW i \in 1..Len(Order)
                 PROVE  /\ (Passed(b, i))' => stamp[Order[i]] = Fingerprint(Order[i], chosen[b])
                        /\ (Passed(b, i))' /\ cut[Order[i]] = {} => tree[Order[i]] = Asked(Order[i], chosen[b])
                        /\ (Learned(b, i))' /\ Recipe[Order[i]].sources # "recipe" /\ cut[Order[i]] = {} =>
                             got[b][Order[i]] = Asked(Order[i], chosen[b])
      BY <2>1, <3>1 DEF Settled
    <3>2. ((Passed(b, i))' => Passed(b, i)) /\ ((Learned(b, i))' => Learned(b, i))
      BY <3>1 DEF Passed, Learned
    <3>3. Settled(b)
      BY DEF DoneInv
    <3> QED
      BY <3>1, <3>2, <3>3 DEF Settled
  <2>3. Settled(b)'
    BY <2>2, <2>4
  <2>10. \A c \in Builds : c # b => Settled(c)'
    BY <2>1, <1>e, OthersKept DEF Changing
  <2> QED
    BY <2>3, <2>10 DEF DoneInv
<1>18. ASSUME NEW b \in Builds, Compile(b) PROVE DoneInv'
  <2>1. /\ \A c \in Builds : c # b => UNCHANGED <<pc[c], at[c], chosen[c], got[c]>>
        /\ UNCHANGED <<stamp, tree, cut>>
    BY <1>18 DEF Compile, Goto, disk, TypeOK
  <2>2. pc'[b] = "out"
    BY <1>18 DEF Compile, Goto, TypeOK
  <2>3. Settled(b)'
    BY <2>2 DEF Settled
  <2>10. \A c \in Builds : c # b => Settled(c)'
    BY <2>1, <1>e, OthersKept DEF Changing
  <2> QED
    BY <2>3, <2>10 DEF DoneInv
<1>19. ASSUME NEW b \in Builds, StepFails(b) PROVE DoneInv'
  <2>1. /\ \A c \in Builds : c # b => UNCHANGED <<pc[c], at[c], chosen[c], got[c]>>
        /\ pc'[b] = "out"
    BY <1>19 DEF StepFails, Goto, Unit, Blame, disk, TypeOK
  <2>2. \/ UNCHANGED <<stamp, tree, cut>>
        \/ /\ pc[b] \in {"targets", "stamp"}
           /\ \A v \in Units : v # Order[at[b]] => stamp'[v] = stamp[v] /\ tree'[v] = tree[v] /\ cut'[v] = cut[v]
    BY <1>19 DEF StepFails, CutOff, disk, Unit, TypeOK
  <2>3. Settled(b)'
    BY <2>1 DEF Settled
  <2>10. \A c \in Builds : c # b => Settled(c)'
    BY <2>1, <2>2, <1>e, OthersKept DEF Changing
  <2> QED
    BY <2>3, <2>10 DEF DoneInv
<1>20. ASSUME NEW b \in Builds, SaveFails(b) PROVE DoneInv'
  <2>1. /\ \A c \in Builds : c # b => UNCHANGED <<pc[c], at[c], chosen[c], got[c]>>
        /\ pc'[b] = "out"
    BY <1>20 DEF SaveFails, Goto, Unit, Blame, TypeOK
  <2>2. \/ UNCHANGED <<stamp, tree, cut>>
        \/ /\ pc[b] \in {"targets", "stamp"}
           /\ \A v \in Units : v # Order[at[b]] => stamp'[v] = stamp[v] /\ tree'[v] = tree[v] /\ cut'[v] = cut[v]
    BY <1>20 DEF SaveFails, CutOff, Unit, TypeOK
  <2>3. Settled(b)'
    BY <2>1 DEF Settled
  <2>10. \A c \in Builds : c # b => Settled(c)'
    BY <2>1, <2>2, <1>e, OthersKept DEF Changing
  <2> QED
    BY <2>3, <2>10 DEF DoneInv
<1>21. ASSUME NEW b \in Builds, Crash(b) PROVE DoneInv'
  <2>1. /\ \A c \in Builds : c # b => UNCHANGED <<pc[c], at[c], chosen[c], got[c]>>
        /\ pc'[b] = "out"
    BY <1>21 DEF Crash, Goto, Unit, Blame, KernelReleases, TypeOK
  <2>2. \/ UNCHANGED <<stamp, tree, cut>>
        \/ /\ pc[b] \in {"targets", "stamp"}
           /\ \A v \in Units : v # Order[at[b]] => stamp'[v] = stamp[v] /\ tree'[v] = tree[v] /\ cut'[v] = cut[v]
    BY <1>21 DEF Crash, CutOff, Unit, TypeOK
  <2>3. Settled(b)'
    BY <2>1 DEF Settled
  <2>10. \A c \in Builds : c # b => Settled(c)'
    BY <2>1, <2>2, <1>e, OthersKept DEF Changing
  <2> QED
    BY <2>3, <2>10 DEF DoneInv
<1>22. CASE UNCHANGED vars
  BY <1>22 DEF vars, DoneInv, Settled, Passed, Learned
<1> QED
  BY <1>1, <1>2, <1>3, <1>4, <1>5, <1>6, <1>7, <1>8, <1>9, <1>10, <1>11, <1>12, <1>13, <1>14,
     <1>15, <1>16, <1>17, <1>18, <1>19, <1>20, <1>21, <1>22 DEF Next, Step, Fault

------------------------------------------------------------------------------
(* Objects                                                                  *)

\* What a build that compiles has passed is every package.
LEMMA CompilesAsAsked ==
  ASSUME TypeOK, LockInv, CutInv, DoneInv, NEW b \in Builds, pc[b] = "compile", NEW u \in Units
  PROVE  /\ chosen[b] \in world.settings
         /\ stamp[u] = Fingerprint(u, chosen[b])
         /\ cut[u] \subseteq {chosen[b]} => IsAsked(b, u)
<1>1. PICK i \in 1..Len(Order) : u = Order[i]
  BY DEF Units
<1>2. at[b] = Len(Order) /\ Len(Order) \in Nat /\ Settled(b) /\ chosen[b] \in world.settings
  BY OrderIs DEF LockInv, DoneInv, TypeOK
<1>3. Passed(b, i) /\ Learned(b, i)
  BY <1>2 DEF Passed, Learned
<1>4. stamp[u] = Fingerprint(u, chosen[b])
  BY <1>1, <1>2, <1>3 DEF Settled
<1>5. cut[u] \subseteq {chosen[b]} => cut[u] = {}
  BY <1>4 DEF CutInv
<1>6. cut[u] = {} => IsAsked(b, u)
  BY <1>1, <1>2, <1>3 DEF Settled, IsAsked
<1> QED
  BY <1>2, <1>4, <1>5, <1>6

\* A build of the configuration in steps or that fails.
LEMMA StepMoves ==
  ASSUME TypeOK, NEW b \in Builds, Step(b) \/ Fault(b)
  PROVE  /\ chosen' = chosen /\ pc[b] # "out" /\ (pc[b] = "compile" => pc'[b] = "out")
         /\ \A c \in Builds : c # b => pc'[c] = pc[c]
BY DEF TypeOK, Goto, Step, Fault, Refused, Take, Configured, Reconfigure, BuildLibraries,
    RunConfigure, MakeTargets, WriteStamp, Release, TakeForLines, ReadList, AskMake,
    AskDatabase, MakeGenerated, KeepList, NextUnit, Compile, StepFails, SaveFails, Crash, Learn

\* The two kinds of step: one of Configure, and an object that cannot be offered.
LEMMA TwoKinds ==
  ASSUME [CNext]_cvars
  PROVE  \/ [Next]_vars
         \/ Blame("save") /\ UNCHANGED <<world, disk, holder, pc, at, chosen, got, completed, cut>>
BY DEF CNext, cvars, Project, CStep, Look, CompileObject, Stage, Replace, NotOffered, Next

LEMMA WorldIsFixed ==
  ASSUME [CNext]_cvars
  PROVE  world' = world
BY TwoKinds, WorldStays

LEMMA BaseInitially ==
  ASSUME Init
  PROVE  BaseInv
<1> USE DEF Init
<1>1. world \in Worlds /\ world.settings # {} /\ chosen \in [Builds -> world.settings]
  <2>1. world.settings # {}
    BY WorldIs
  <2>2. (CHOOSE s \in world.settings : TRUE) \in world.settings
    BY <2>1
  <2> QED
    BY <2>1, <2>2
<1>2. faults \in 0..MaxFaults /\ 0 \in 0..MaxFaults + 2 /\ 1 \in 1..Len(Order)
  BY BoundAssumption, OrderIs
<1>3. TypeOK
  BY <1>1, <1>2, AskedIs DEF TypeOK, Phases
<1>4. LockInv
  BY DEF LockInv, Holding, Changing
<1>5. OnceInv
  BY DEF OnceInv
<1> QED
  BY <1>3, <1>4, <1>5 DEF BaseInv

LEMMA BaseKept ==
  ASSUME BaseInv, [CNext]_cvars
  PROVE  BaseInv'
<1>1. CASE [Next]_vars
  BY <1>1, TypeStep, LockStep, OnceStep DEF BaseInv
<1>2. CASE Blame("save") /\ UNCHANGED <<world, disk, holder, pc, at, chosen, got, completed, cut>>
  <2>1. faults' = faults + 1 /\ faults' \in 0..MaxFaults /\ Trees' = Trees
    BY <1>2, BlameIs DEF BaseInv, TypeOK, Trees
  <2>2. TypeOK'
    BY <1>2, <2>1 DEF BaseInv, TypeOK, disk
  <2>3. LockInv'
    BY <1>2 DEF BaseInv, LockInv, disk
  <2>4. OnceInv'
    BY <1>2, <2>1, OnceFaulted DEF BaseInv
  <2> QED
    BY <2>2, <2>3, <2>4 DEF BaseInv
<1> QED
  BY <1>1, <1>2, TwoKinds

LEMMA OwnInitially ==
  ASSUME Init, \A w \in Worlds : Harmless(w)
  PROVE  OwnInv
<1>1. AgreeInv
  BY DEF Init, AgreeInv
<1>2. \A u \in Units : stamp[u] = None
  BY DEF Init
<1>3. TreeInv
  BY <1>2, WorldIs DEF Init, TreeInv
<1>4. DoneInv
  BY DEF Init, DoneInv, Settled
<1>5. CutInv
  BY DEF Init, CutInv
<1> QED
  BY <1>1, <1>3, <1>4, <1>5 DEF OwnInv

LEMMA OwnKept ==
  ASSUME BaseInv, OwnInv, [CNext]_cvars
  PROVE  OwnInv'
<1>1. CASE [Next]_vars
  BY <1>1, AgreeStep, TreeStep, CutStep, DoneStep DEF BaseInv, OwnInv
<1>2. CASE UNCHANGED <<world, disk, holder, pc, at, chosen, got, completed, cut>>
  <2>1. AgreeInv'
    BY <1>2 DEF OwnInv, AgreeInv
  <2>2. TreeInv'
    BY <1>2 DEF OwnInv, TreeInv, disk
  <2>3. \A b \in Builds : (Settled(b))'
    BY <1>2 DEF OwnInv, DoneInv, Settled, Passed, Learned, disk
  <2>4. CutInv'
    BY <1>2 DEF OwnInv, CutInv, disk
  <2> QED
    BY <2>1, <2>2, <2>3, <2>4 DEF OwnInv, DoneInv
<1> QED
  BY <1>1, <1>2, TwoKinds

LEMMA ObjectInitially ==
  ASSUME CInit
  PROVE  ObjectInv
<1>1. 1 \in 1..Len(Order) /\ \A i \in 1..Len(Order) : ~(i < 1)
  BY OrderIs
<1> QED
  BY <1>1 DEF CInit, Init, ObjectInv, ShapeInv, EntryInv, Placed, Has

LEMMA IsOfStays ==
  ASSUME world' = world, spoilt \subseteq spoilt'
  PROVE  \A k, o : IsOf(k, o) => IsOf(k, o)'
BY DEF IsOf

\* A step that leaves the build's place and the cache alone.
LEMMA PlacedKept ==
  ASSUME world' = world, spoilt \subseteq spoilt', NEW c \in Builds, Placed(c),
         UNCHANGED <<pc[c], chosen[c], unit[c], phase[c], staging[c], object[c]>>
  PROVE  (Placed(c))'
BY IsOfStays DEF Placed, Has, Mine, Own

\* The next package, when the build has the object of this one.
LEMMA OnwardHas ==
  ASSUME TypeOK, ShapeInv, NEW b \in Builds, Placed(b), pc[b] = "compile", Onward(b),
         world' = world, UNCHANGED <<pc, chosen, spoilt>>,
         \A v \in Units : v # Of(b) => object'[b][v] = object[b][v],
         Mine(b, Of(b), object'[b][Of(b)])
  PROVE  /\ (Placed(b))'
         /\ unit' \in [Builds -> 1..Len(Order)]
         /\ phase' \in [Builds -> {"look", "compile", "stage", "replace", "done"}]
         /\ \A c \in Builds : c # b => UNCHANGED <<unit[c], phase[c]>>
<1>1. Len(Order) \in Nat /\ unit[b] \in 1..Len(Order)
  BY OrderIs DEF ShapeInv
<1>2. PICK n \in 1..Len(Order), p \in {"look", "done"} :
        /\ unit' = [unit EXCEPT ![b] = n] /\ phase' = [phase EXCEPT ![b] = p]
        /\ p = "look" => n = unit[b] + 1
        /\ p = "done" => n = unit[b] /\ n = Len(Order)
  <2>1. CASE unit[b] < Len(Order)
    <3>1. unit[b] + 1 \in 1..Len(Order)
      BY <1>1, <2>1
    <3> QED
      BY <2>1, <3>1 DEF Onward, Move
  <2>2. CASE ~(unit[b] < Len(Order))
    <3>1. unit[b] = Len(Order) /\ unit' = [unit EXCEPT ![b] = unit[b]]
      BY <1>1, <2>2 DEF Onward, ShapeInv
    <3> QED
      BY <1>1, <2>2, <3>1 DEF Onward, Move
  <2> QED
    BY <2>1, <2>2
<1>3. unit'[b] = n /\ phase'[b] = p /\ \A c \in Builds : c # b => UNCHANGED <<unit[c], phase[c]>>
  BY <1>2 DEF ShapeInv
<1>4. ASSUME NEW i \in 1..Len(Order), (Has(b, i))' PROVE (Mine(b, Order[i], object[b][Order[i]]))'
  <2>1. i < unit[b] \/ i = unit[b]
    BY <1>1, <1>2, <1>3, <1>4 DEF Has
  <2>2. Order[i] \in Units /\ \A o : Mine(b, Order[i], o) => Mine(b, Order[i], o)'
    BY OrderIs DEF Mine, Own
  <2>3. CASE Order[i] = Of(b)
    BY <2>2, <2>3 DEF Mine, Own
  <2>4. CASE Order[i] # Of(b)
    <3>1. Has(b, i)
      BY <2>1, <2>4 DEF Has, Of
    <3> QED
      BY <2>2, <2>4, <3>1 DEF Placed, Mine, Own
  <2> QED
    BY <2>3, <2>4
<1>5. (Placed(b))'
  BY <1>2, <1>3, <1>4 DEF Placed
<1>6. unit' \in [Builds -> 1..Len(Order)] /\ phase' \in [Builds -> {"look", "compile", "stage", "replace", "done"}]
  BY <1>2 DEF ShapeInv
<1> QED
  BY <1>3, <1>5, <1>6

\* The key of a build is one of its own setting.
LEMMA KeyIs ==
  ASSUME TypeOK, LockInv, CutInv, DoneInv, ShapeInv, NEW b \in Builds, pc[b] = "compile"
  PROVE  /\ Of(b) \in Units /\ chosen[b] \in world.settings
         /\ Key(b) = <<Of(b), chosen[b].cc, Fingerprint(Of(b), chosen[b])>> /\ Key(b) \in Keys
<1>1. Of(b) \in Units
  BY OrderIs DEF Of, ShapeInv
<1>2. chosen[b] \in world.settings /\ stamp[Of(b)] = Fingerprint(Of(b), chosen[b])
  BY <1>1, CompilesAsAsked
<1>3. chosen[b] \in UNION {w.settings : w \in Worlds}
  BY <1>2 DEF TypeOK
<1>4. chosen[b].cc \in Compilers /\ Fingerprint(Of(b), chosen[b]) \in Stamps
  BY <1>1, <1>3 DEF Compilers, Stamps
<1> QED
  BY <1>1, <1>2, <1>4 DEF Key, Keys

\* What is kept under that key is the build's own object, and its own object may be kept there.
LEMMA OfKeyIsOwn ==
  ASSUME TypeOK, LockInv, AgreeInv, CutInv, DoneInv, ShapeInv, NEW b \in Builds, pc[b] = "compile"
  PROVE  \A o : IsOf(Key(b), o) <=> Mine(b, Of(b), o)
<1>1. /\ Of(b) \in Units /\ chosen[b] \in world.settings
      /\ Key(b)[1] = Of(b) /\ Key(b)[2] = chosen[b].cc /\ Key(b)[3] = Fingerprint(Of(b), chosen[b])
  BY KeyIs
<1>2. ASSUME NEW o, IsOf(Key(b), o), Of(b) \notin spoilt PROVE o = Own(b, Of(b))
  <2>1. PICK s \in world.settings : /\ Key(b)[3] = Fingerprint(Key(b)[1], s)
                                    /\ o = [cc |-> Key(b)[2], tree |-> Asked(Key(b)[1], s)]
    BY <1>1, <1>2 DEF IsOf
  <2>2. Fingerprint(Of(b), s) = Fingerprint(Of(b), chosen[b])
    BY <1>1, <2>1
  <2>3. Asked(Of(b), s) = Asked(Of(b), chosen[b])
    BY <1>1, <2>2, StampTells
  <2> QED
    BY <1>1, <2>1, <2>3 DEF Own
<1>3. ASSUME NEW o, Mine(b, Of(b), o) PROVE IsOf(Key(b), o)
  BY <1>1, <1>3 DEF IsOf, Mine, Own
<1> QED
  BY <1>2, <1>3 DEF Mine

\* Every build has the objects of the configuration it asked for, and so has the cache.
LEMMA ObjectKept ==
  ASSUME BaseInv, OwnInv, ObjectInv, [CNext]_cvars
  PROVE  ObjectInv'
<1>e. world' = world
  BY WorldIsFixed
<1>i. TypeOK /\ LockInv /\ AgreeInv /\ CutInv /\ DoneInv /\ ShapeInv /\ EntryInv /\ \A b \in Builds : Placed(b)
  BY DEF BaseInv, OwnInv, ObjectInv
<1>n. Len(Order) \in Nat \ {0} /\ 1 \in 1..Len(Order) /\ \A i \in 1..Len(Order) : ~(i < 1)
  BY OrderIs
<1>1. ASSUME NEW b \in Builds, Look(b) PROVE ObjectInv'
  <2>1. pc[b] = "compile" /\ phase[b] = "look" /\ UNCHANGED <<pc, chosen, entry, staging, spoilt>>
    BY <1>1 DEF Look, Compiling, vars
  <2>2. EntryInv'
    BY <1>e, <1>i, <2>1, IsOfStays DEF EntryInv
  <2>3. CASE entry[Key(b)] = Missing
    <3>1. phase' = [phase EXCEPT ![b] = "compile"] /\ UNCHANGED <<unit, object>>
      BY <1>1, <2>3 DEF Look, Move
    <3>2. (Placed(b))'
      BY <1>i, <2>1, <3>1 DEF Placed, Has, Mine, Own, ShapeInv
    <3>3. \A c \in Builds : c # b => (Placed(c))'
      BY <1>e, <1>i, <2>1, <3>1, PlacedKept DEF ShapeInv
    <3>4. ShapeInv'
      BY <1>i, <2>1, <3>1 DEF ShapeInv
    <3> QED
      BY <2>2, <3>2, <3>3, <3>4 DEF ObjectInv
  <2>4. CASE entry[Key(b)] # Missing
    <3>1. Key(b) \in Keys /\ Of(b) \in Units
      BY <1>i, <2>1, KeyIs
    <3>2. Mine(b, Of(b), entry[Key(b)])
      BY <1>i, <2>1, <2>4, <3>1, OfKeyIsOwn DEF EntryInv
    <3>3. object' = [object EXCEPT ![b][Of(b)] = entry[Key(b)]] /\ Onward(b)
      BY <1>1, <2>4, <3>2 DEF Look, Put
    <3>4. /\ object'[b][Of(b)] = entry[Key(b)]
          /\ \A v \in Units : v # Of(b) => object'[b][v] = object[b][v]
      BY <1>i, <3>1, <3>3 DEF ShapeInv
    <3>5. /\ (Placed(b))'
          /\ unit' \in [Builds -> 1..Len(Order)]
          /\ phase' \in [Builds -> {"look", "compile", "stage", "replace", "done"}]
          /\ \A c \in Builds : c # b => UNCHANGED <<unit[c], phase[c]>>
      BY <1>e, <1>i, <2>1, <3>2, <3>3, <3>4, OnwardHas
    <3>6. \A c \in Builds : c # b => (Placed(c))'
      BY <1>e, <1>i, <2>1, <3>3, <3>5, PlacedKept DEF ShapeInv
    <3>7. ShapeInv'
      BY <1>i, <2>1, <3>3, <3>5 DEF ShapeInv
    <3> QED
      BY <2>2, <3>5, <3>6, <3>7 DEF ObjectInv
  <2> QED
    BY <2>3, <2>4
<1>2. ASSUME NEW b \in Builds, CompileObject(b) PROVE ObjectInv'
  <2>1. /\ pc[b] = "compile" /\ UNCHANGED <<pc, chosen, unit, entry, staging>>
        /\ phase' = [phase EXCEPT ![b] = "stage"]
        /\ object' = [object EXCEPT ![b][Of(b)] = [cc |-> chosen[b].cc, tree |-> tree[Of(b)]]]
    BY <1>2 DEF CompileObject, Compiling, vars, Move, Put
  <2>3. Of(b) \in Units
    BY OrderIs, <1>i DEF Of, ShapeInv
  <2>s. /\ spoilt \subseteq spoilt'
        /\ cut[Of(b)] \subseteq {chosen[b]} \/ Of(b) \in spoilt'
    BY <1>2 DEF CompileObject
  <2>4. Of(b) \in spoilt' \/ [cc |-> chosen[b].cc, tree |-> tree[Of(b)]] = Own(b, Of(b))
    BY <1>i, <2>1, <2>3, <2>s, CompilesAsAsked DEF Own, IsAsked
  <2>2. EntryInv'
    BY <1>e, <1>i, <2>1, <2>s, IsOfStays DEF EntryInv
  <2>5. /\ object'[b][Of(b)] = [cc |-> chosen[b].cc, tree |-> tree[Of(b)]]
        /\ \A v \in Units : v # Of(b) => object'[b][v] = object[b][v]
    BY <1>i, <2>1, <2>3 DEF ShapeInv
  <2>6. ASSUME NEW i \in 1..Len(Order), (Has(b, i))' PROVE (Mine(b, Order[i], object[b][Order[i]]))'
    <3>1. Order[i] \in Units /\ (Own(b, Order[i]))' = Own(b, Order[i])
      BY OrderIs, <2>1 DEF Own
    <3>2. CASE Order[i] = Of(b)
      BY <2>4, <2>5, <3>1, <3>2 DEF Mine
    <3>3. CASE Order[i] # Of(b)
      <4>1. Has(b, i)
        BY <2>1, <2>6, <3>3 DEF Has, Of
      <4>2. Mine(b, Order[i], object[b][Order[i]])
        BY <1>i, <2>1, <4>1 DEF Placed
      <4> QED
        BY <2>s, <2>5, <3>1, <3>3, <4>2 DEF Mine
    <3> QED
      BY <3>2, <3>3
  <2>7. (Placed(b))'
    BY <1>i, <2>1, <2>6 DEF Placed, ShapeInv
  <2>8. \A c \in Builds : c # b => (Placed(c))'
    BY <1>e, <1>i, <2>1, <2>s, PlacedKept DEF ShapeInv
  <2>9. ShapeInv'
    BY <1>i, <2>1 DEF ShapeInv
  <2> QED
    BY <2>2, <2>7, <2>8, <2>9 DEF ObjectInv
<1>3. ASSUME NEW b \in Builds, Stage(b) PROVE ObjectInv'
  <2>1. /\ pc[b] = "compile" /\ phase[b] = "stage" /\ UNCHANGED <<pc, chosen, unit, entry, object, spoilt>>
        /\ phase' = [phase EXCEPT ![b] = "replace"]
        /\ staging' = [staging EXCEPT ![b] = <<Key(b), object[b][Of(b)]>>]
    BY <1>3 DEF Stage, Compiling, vars, Move
  <2>2. EntryInv'
    BY <1>e, <1>i, <2>1, IsOfStays DEF EntryInv
  <2>3. Mine(b, Of(b), object[b][Of(b)])
    BY <1>i, <2>1 DEF Placed, Has, Of, ShapeInv
  <2>4. Key(b) \in Keys /\ IsOf(Key(b), object[b][Of(b)])
    BY <1>i, <2>1, <2>3, KeyIs, OfKeyIsOwn
  <2>5. staging'[b][1] \in Keys /\ (IsOf(staging[b][1], staging[b][2]))'
    <3>1. staging'[b] = <<Key(b), object[b][Of(b)]>>
      BY <1>i, <2>1 DEF ShapeInv
    <3>2. staging'[b][1] = Key(b) /\ staging'[b][2] = object[b][Of(b)]
      BY <3>1
    <3> QED
      BY <1>e, <2>1, <2>4, <3>2 DEF IsOf
  <2>6. \A i \in 1..Len(Order) : (Has(b, i))' => Has(b, i) /\ (Own(b, Order[i]))' = Own(b, Order[i])
    BY <1>i, <2>1 DEF Has, Own, ShapeInv
  <2>7. (Placed(b))'
    BY <1>i, <2>1, <2>5, <2>6 DEF Placed, Mine, ShapeInv
  <2>8. \A c \in Builds : c # b => (Placed(c))'
    BY <1>e, <1>i, <2>1, PlacedKept DEF ShapeInv
  <2>9. ShapeInv'
    BY <1>i, <2>1 DEF ShapeInv
  <2> QED
    BY <2>2, <2>7, <2>8, <2>9 DEF ObjectInv
<1>4. ASSUME NEW b \in Builds, Replace(b) \/ NotOffered(b) PROVE ObjectInv'
  <2>1. /\ pc[b] = "compile" /\ phase[b] \in {"stage", "replace"} /\ UNCHANGED <<pc, chosen, object, spoilt>>
        /\ staging' = [staging EXCEPT ![b] = Missing] /\ Onward(b)
        /\ \/ entry' = entry
           \/ phase[b] = "replace" /\ entry' = [entry EXCEPT ![staging[b][1]] = staging[b][2]]
    BY <1>4 DEF Replace, NotOffered, Compiling, vars
  <2>2. EntryInv'
    <3>1. CASE entry' = entry
      BY <1>e, <1>i, <2>1, <3>1, IsOfStays DEF EntryInv
    <3>2. CASE phase[b] = "replace" /\ entry' = [entry EXCEPT ![staging[b][1]] = staging[b][2]]
      <4>1. staging[b][1] \in Keys /\ IsOf(staging[b][1], staging[b][2])
        BY <1>i, <3>2 DEF Placed
      <4>2. ASSUME NEW k \in Keys, entry'[k] # Missing PROVE IsOf(k, entry'[k])
        BY <1>i, <3>2, <4>1, <4>2 DEF EntryInv, ShapeInv
      <4>3. \A k \in Keys : IsOf(k, entry'[k]) = (IsOf(k, entry[k]))'
        BY <1>e, <2>1 DEF IsOf
      <4> QED
        BY <4>2, <4>3 DEF EntryInv
    <3> QED
      BY <2>1, <3>1, <3>2
  <2>3. Mine(b, Of(b), object[b][Of(b)])
    <3>1. unit[b] \in 1..Len(Order) /\ Has(b, unit[b])
      BY <1>i, <2>1 DEF Has, ShapeInv
    <3> QED
      BY <1>i, <2>1, <3>1 DEF Placed, Of
  <2>4. Mine(b, Of(b), object'[b][Of(b)]) /\ \A v \in Units : object'[b][v] = object[b][v]
    BY <2>1, <2>3
  <2>5. /\ (Placed(b))'
        /\ unit' \in [Builds -> 1..Len(Order)]
        /\ phase' \in [Builds -> {"look", "compile", "stage", "replace", "done"}]
        /\ \A c \in Builds : c # b => UNCHANGED <<unit[c], phase[c]>>
    BY <1>e, <1>i, <2>1, <2>4, OnwardHas
  <2>6. \A c \in Builds : c # b => (Placed(c))'
    BY <1>e, <1>i, <2>1, <2>5, PlacedKept DEF ShapeInv
  <2>7. ShapeInv'
    BY <1>i, <2>1, <2>5 DEF ShapeInv
  <2> QED
    BY <2>2, <2>5, <2>6, <2>7 DEF ObjectInv
<1>5. ASSUME NEW b \in Builds, Project(b) PROVE ObjectInv'
  <2>1. /\ \A c \in Builds : c # b => pc'[c] = pc[c] /\ chosen'[c] = chosen[c]
        /\ pc'[b] = "next" /\ UNCHANGED <<entry, staging, spoilt>>
        /\ unit' = [unit EXCEPT ![b] = 1] /\ phase' = [phase EXCEPT ![b] = "look"]
        /\ object' = [object EXCEPT ![b] = [u \in Units |-> Missing]]
    BY <1>5, <1>i DEF Project, Begin, Goto, Move, TypeOK
  <2>2. EntryInv'
    BY <1>e, <1>i, <2>1, IsOfStays DEF EntryInv
  <2>3. (Placed(b))'
    BY <1>i, <2>1 DEF Placed, ShapeInv
  <2>4. \A c \in Builds : c # b => (Placed(c))'
    BY <1>e, <1>i, <2>1, PlacedKept DEF ShapeInv
  <2>5. ShapeInv'
    BY <1>i, <1>n, <2>1 DEF ShapeInv
  <2> QED
    BY <2>2, <2>3, <2>4, <2>5 DEF ObjectInv
<1>6. ASSUME NEW b \in Builds, Step(b) \/ Fault(b), UNCHANGED shared PROVE ObjectInv'
  <2>1. /\ chosen' = chosen /\ pc[b] # "out" /\ (pc[b] = "compile" => pc'[b] = "out")
        /\ \A c \in Builds : c # b => pc'[c] = pc[c]
    BY <1>6, <1>i, StepMoves
  <2>2. UNCHANGED <<unit, phase, entry, staging, object, spoilt>>
    BY <1>6 DEF shared
  <2>3. EntryInv' /\ ShapeInv'
    BY <1>e, <1>i, <2>2, IsOfStays DEF EntryInv, ShapeInv
  <2>4. (Placed(b))'
    <3>1. CASE pc[b] = "compile"
      BY <1>e, <1>i, <2>1, <2>2, <3>1, IsOfStays DEF Placed
    <3>2. CASE pc[b] # "compile"
      <4>1. unit[b] = 1 /\ phase[b] = "look"
        BY <1>i, <2>1, <3>2 DEF Placed
      <4>2. \A i \in 1..Len(Order) : ~(Has(b, i))'
        BY <1>n, <2>2, <4>1 DEF Has
      <4> QED
        BY <2>2, <4>1, <4>2 DEF Placed
    <3> QED
      BY <3>1, <3>2
  <2>5. \A c \in Builds : c # b => (Placed(c))'
    BY <1>e, <1>i, <2>1, <2>2, PlacedKept
  <2> QED
    BY <2>3, <2>4, <2>5 DEF ObjectInv
<1>7. CASE UNCHANGED cvars
  <2>1. UNCHANGED <<pc, chosen, unit, phase, entry, staging, object, spoilt>>
    BY <1>7 DEF cvars, vars, shared
  <2>2. EntryInv' /\ ShapeInv' /\ \A c \in Builds : (Placed(c))'
    BY <1>e, <1>i, <2>1, IsOfStays, PlacedKept DEF EntryInv, ShapeInv
  <2> QED
    BY <2>2 DEF ObjectInv
<1> QED
  BY <1>1, <1>2, <1>3, <1>4, <1>5, <1>6, <1>7 DEF CNext, CStep

------------------------------------------------------------------------------
(* Theorems                                                                 *)

\* A configuration that builds want the same way is run once between them, but for those that
\* went wrong (configure_unit reads the stamp under the lock), for any packages and any settings.
THEOREM ConfigureSound == CSpec => []ConfigureIsSound
<1>1. CInit => BaseInv
  BY BaseInitially DEF CInit
<1>2. BaseInv /\ [CNext]_cvars => BaseInv'
  BY BaseKept
<1>3. BaseInv => ConfigureIsSound
  <2> SUFFICES ASSUME BaseInv PROVE ConfigureIsSound
    OBVIOUS
  <2>1. faults \in Nat /\ \A u \in Units : completed[u] \in Nat
    BY BoundAssumption DEF BaseInv, TypeOK
  <2> QED
    BY <2>1 DEF BaseInv, OnceInv, ConfigureIsSound, ConfiguredOnce
<1> QED
  BY <1>1, <1>2, <1>3, PTL DEF CSpec

\* What a build compiles against is what its own setting configured, and its list says so too,
\* whoever configured it and whatever went wrong (configure_dependency, configure_compile_lines),
\* but where another's configuration was cut off over the files.
THEOREM BuiltAsAsked ==
  ASSUME \A w \in Worlds : Harmless(w)
  PROVE  CSpec => []BuiltAsConfigured
<1>1. CInit => BaseInv /\ OwnInv
  BY BaseInitially, OwnInitially DEF CInit
<1>2. BaseInv /\ OwnInv /\ [CNext]_cvars => (BaseInv /\ OwnInv)'
  BY BaseKept, OwnKept
<1>3. BaseInv /\ OwnInv => BuiltAsConfigured
  BY CompilesAsAsked DEF BaseInv, OwnInv, BuiltAsConfigured
<1> QED
  BY <1>1, <1>2, <1>3, PTL DEF CSpec

\* A build links the objects of its own compiler and its own configuration, although it takes
\* them from a cache that others fill (take_from_object_cache, share_in_object_cache), but of a
\* package that was compiled over another's cut-off configuration.
THEOREM ObjectsOwn ==
  ASSUME \A w \in Worlds : Harmless(w)
  PROVE  CSpec => []ObjectsAreOwn
<1>1. CInit => BaseInv /\ OwnInv /\ ObjectInv
  BY BaseInitially, OwnInitially, ObjectInitially DEF CInit
<1>2. BaseInv /\ OwnInv /\ ObjectInv /\ [CNext]_cvars => (BaseInv /\ OwnInv /\ ObjectInv)'
  BY BaseKept, OwnKept, ObjectKept
<1>3. BaseInv /\ OwnInv /\ ObjectInv => ObjectsAreOwn
  <2> SUFFICES ASSUME BaseInv, ObjectInv, NEW b \in Builds, pc[b] = "compile", phase[b] = "done", NEW u \in Units \ spoilt
               PROVE  object[b][u] = Own(b, u)
    BY DEF ObjectsAreOwn, Own
  <2>1. PICK i \in 1..Len(Order) : u = Order[i]
    BY DEF Units
  <2>2. Placed(b) /\ unit[b] = Len(Order) /\ Len(Order) \in Nat
    BY OrderIs DEF ObjectInv, Placed
  <2>3. Has(b, i)
    BY <2>2 DEF Has
  <2> QED
    BY <2>1, <2>2, <2>3 DEF Placed, Mine
<1> QED
  BY <1>1, <1>2, <1>3, PTL
  DEF CSpec
==============================================================================
