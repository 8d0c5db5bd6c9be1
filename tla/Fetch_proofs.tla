----------------------------- MODULE Fetch_proofs -----------------------------
(***************************************************************************)
(* What is proved of Fetch for any number of processes and faults and any  *)
(* files: while no two fetches overlap, a stamped tree is whole and a tree *)
(* in use stays whole.                                                     *)
(*                                                                         *)
(* A world that keeps the promise has one kind of caller, and no stamped   *)
(* tree that a crash may leave half replaced: such a tree still has its    *)
(* stamp, and without its manifest it passes for complete.                 *)
(***************************************************************************)
EXTENDS Fetch, TLAPS

Lone(w) ==
  \/ w.kinds = {"plain"}
  \/ w.kinds = {"carried"} /\ ~("crash" \in w.faults /\ (w.older \/ "tear" \in w.faults))

------------------------------------------------------------------------------
(* The inductive invariant                                                  *)

\* The kind of every caller of the world, which is what a stamp has to answer.
Caller == IF world.kinds = {"plain"} THEN "plain" ELSE "carried"
Wanted == Needs(Caller)

TypeInv == TypeOK /\ Lone(world) /\ world \in Worlds

\* Nothing but the last step of a fetch writes a stamp, and a tar's directory is there.
WorkInv ==
  /\ dir["work"] = Gone \/ Stamp \notin dir["work"]
  /\ \A p \in Procs : at[p] # Gone => dir[at[p]] # Gone

AloneInv ==
  /\ \A p, q \in Procs : Fetching(p) /\ Fetching(q) => p = q
  /\ \A p \in Procs : pc[p] # "out" => kind[p] = Caller
  /\ \A p \in Procs : pc[p] # "unpack" => at[p] = Gone

\* What the fetch has in the working directory, and what is left of the tree it replaces.
StepInv ==
  \A p \in Procs :
    /\ pc[p] \in {"clear", "sweep"} => dir["work"] # Gone /\ dir["work"] \subseteq todo[p]
    /\ pc[p] = "make" => dir["work"] = Gone
    /\ pc[p] = "download" => dir["work"] = {}
    /\ pc[p] = "open" => dir["work"] = {Archive}
    /\ pc[p] = "unpack" => /\ at[p] = "work" /\ dir["work"] # Gone
                           /\ todo[p] \subseteq Packed
                           /\ dir["work"] \subseteq Packed \cup {Archive}
                           /\ Packed \subseteq dir["work"] \cup todo[p]
    /\ pc[p] = "prune" => dir["work"] = Packed /\ Caller = "carried"
    /\ pc[p] \in {"replace", "rename"} => dir["work"] = Wanted
    /\ pc[p] = "replace" => dir["dest"] # Gone /\ dir["dest"] \subseteq todo[p]
    /\ pc[p] = "rename" => dir["dest"] = Gone
    /\ pc[p] = "stamp" => dir["dest"] = Wanted

\* A stamp is on a whole tree, unless that tree is being replaced; and a tree that a process may
\* use, or that a fetch has just stamped, is what the callers want.
Answers == stamp # "none" /\ (stamp \in {"ok", "torn"} => Caller = "plain" \/ Manifest \notin Packed)
StampInv ==
  /\ stamp \in {"ok", "torn"} /\ Caller = "carried" => "crash" \notin world.faults
  /\ stamp = "prune" => Caller = "carried"
  /\ stamp # "none" => /\ dir["dest"] \in {Wanted \cup {Stamp}, Packed \cup {Stamp}}
                          \/ \E p \in Procs : pc[p] = "replace"
  /\ Answers => dir["dest"] = Wanted \cup {Stamp}
  /\ \A p \in Procs : pc[p] \in Phases \ {"out", "check", "use", "sweep"} => ~Answers
  /\ \A p \in Procs : pc[p] = "use" \/ (pc[p] = "sweep" /\ good[p]) => Answers

IInv == TypeInv /\ WorkInv /\ (met \/ (AloneInv /\ StepInv /\ StampInv))
------------------------------------------------------------------------------
(* Every step keeps it                                                      *)

\* Types, and no stamp in the working directory.
LEMMA TypeStep ==
  ASSUME IInv, [Next]_vars
  PROVE  TypeInv' /\ WorkInv'
<1> USE NamesAssumption, GoneAssumption, FaultsAssumption
<1> USE DEF IInv, TypeInv, TypeOK, WorkInv, Holds, Dirs, Kinds, Phases, Removals, Entries
<1>1. ASSUME NEW p \in Procs, NEW k \in Kinds, Begin(p, k) PROVE TypeInv' /\ WorkInv'
  BY <1>1 DEF Begin, disk, Packed
<1>2. ASSUME NEW p \in Procs, Found(p) PROVE TypeInv' /\ WorkInv'
  BY <1>2 DEF Found, Go, Complete, disk, Packed
<1>3. ASSUME NEW p \in Procs, NotFound(p) PROVE TypeInv' /\ WorkInv'
  BY <1>3 DEF NotFound, Complete, Remove, Go, disk, Packed
<1>4. ASSUME NEW p \in Procs, NEW e \in Entries, RemoveEntry(p, e) PROVE TypeInv' /\ WorkInv'
  BY <1>4 DEF RemoveEntry, RemovedFrom, Removals, Packed
<1>5. ASSUME NEW p \in Procs, Cleared(p) PROVE TypeInv' /\ WorkInv'
  BY <1>5 DEF Cleared, Removed, RemovedFrom, Follow, Go, Packed
<1>6. ASSUME NEW p \in Procs, ClearFails(p) PROVE TypeInv' /\ WorkInv'
  BY <1>6 DEF ClearFails, NotRemoved, RemovedFrom, Go, disk, Packed
<1>7. ASSUME NEW p \in Procs, Make(p) PROVE TypeInv' /\ WorkInv'
  BY <1>7 DEF Make, Go, Packed
<1>8. ASSUME NEW p \in Procs, Download(p) PROVE TypeInv' /\ WorkInv'
  BY <1>8 DEF Download, Go, Packed
<1>9. ASSUME NEW p \in Procs, DownloadFails(p) PROVE TypeInv' /\ WorkInv'
  BY <1>9 DEF DownloadFails, Blame, Conclude, Remove, After, Go, disk, Packed
<1>10. ASSUME NEW p \in Procs, Open(p) PROVE TypeInv' /\ WorkInv'
  BY <1>10 DEF Open, Holds, Go, disk, Packed
<1>11. ASSUME NEW p \in Procs, OpenFails(p) PROVE TypeInv' /\ WorkInv'
  BY <1>11 DEF OpenFails, Holds, Conclude, Remove, After, Go, disk, Packed
<1>12. ASSUME NEW p \in Procs, NEW f \in Packed, Extract(p, f) PROVE TypeInv' /\ WorkInv'
  <2>1. at[p] \in Dirs /\ f \in Entries /\ f # Stamp
    BY <1>12 DEF Extract, Packed
  <2>2. dir[at[p]] # Gone => dir[at[p]] \in SUBSET Entries
    BY <2>1
  <2>3. dir[at[p]] # Gone
    BY <1>12, <2>1 DEF Extract
  <2> QED
    BY <1>12, <2>1, <2>2, <2>3 DEF Extract, Packed
<1>13. ASSUME NEW p \in Procs, UnpackFails(p) PROVE TypeInv' /\ WorkInv'
  BY <1>13 DEF UnpackFails, Blame, Conclude, Remove, After, Go, disk, Packed
<1>14. ASSUME NEW p \in Procs, Unpacked(p) PROVE TypeInv' /\ WorkInv'
  BY <1>14 DEF Unpacked, Remove, Go, Packed
<1>15. ASSUME NEW p \in Procs, UnpackedNowhere(p) PROVE TypeInv' /\ WorkInv'
  BY <1>15 DEF UnpackedNowhere, Conclude, Remove, After, Go, disk, Packed
<1>16. ASSUME NEW p \in Procs, Prune(p) PROVE TypeInv' /\ WorkInv'
  BY <1>16 DEF Prune, Holds, Remove, Go, Packed
<1>28. ASSUME NEW p \in Procs, PruneFails(p) PROVE TypeInv' /\ WorkInv'
  BY <1>28
  DEF PruneFails, Holds, Blame, Conclude, Remove, After, Go, Packed
<1>17. ASSUME NEW p \in Procs, Replaced(p) PROVE TypeInv' /\ WorkInv'
  BY <1>17 DEF Replaced, Removed, RemovedFrom, Follow, Go, Packed
<1>18. ASSUME NEW p \in Procs, ReplaceFails(p) PROVE TypeInv' /\ WorkInv'
  BY <1>18 DEF ReplaceFails, NotRemoved, RemovedFrom, Conclude, Remove, After, Go, disk, Packed
<1>19. ASSUME NEW p \in Procs, Rename(p) PROVE TypeInv' /\ WorkInv'
  BY <1>19 DEF Rename, CanRename, Go, Packed
<1>20. ASSUME NEW p \in Procs, RenameFails(p) PROVE TypeInv' /\ WorkInv'
  BY <1>20 DEF RenameFails, CanRename, Conclude, Remove, After, Go, disk, Packed
<1>21. ASSUME NEW p \in Procs, WriteStamp(p) PROVE TypeInv' /\ WorkInv'
  BY <1>21 DEF WriteStamp, StampText, Conclude, Remove, After, Go, Packed
<1>22. ASSUME NEW p \in Procs, StampFails(p) PROVE TypeInv' /\ WorkInv'
  BY <1>22 DEF StampFails, Conclude, Remove, After, Go, disk, Packed
<1>23. ASSUME NEW p \in Procs, Swept(p) PROVE TypeInv' /\ WorkInv'
  BY <1>23 DEF Swept, Removed, RemovedFrom, Follow, After, Go, Packed
<1>24. ASSUME NEW p \in Procs, SweepFails(p) PROVE TypeInv' /\ WorkInv'
  BY <1>24 DEF SweepFails, NotRemoved, RemovedFrom, After, Go, disk, Packed
<1>25. ASSUME NEW p \in Procs, Leave(p) PROVE TypeInv' /\ WorkInv'
  BY <1>25 DEF Leave, Go, disk, Packed
<1>26. ASSUME NEW p \in Procs, Crash(p) PROVE TypeInv' /\ WorkInv'
  BY <1>26 DEF Crash, Blame, Go, disk, Packed
<1>27. CASE UNCHANGED <<world, faults, dir, stamp, pc, kind, todo, at, good, met>>
  BY <1>27
<1> HIDE DEF IInv, TypeInv, TypeOK, WorkInv, Holds, Dirs, Kinds, Phases, Removals, Entries
<1> QED
  BY <1>1, <1>2, <1>3, <1>4, <1>5, <1>6, <1>7, <1>8, <1>9, <1>10, <1>11, <1>12, <1>13, <1>14,
     <1>15, <1>16, <1>17, <1>18, <1>19, <1>20, <1>21, <1>22, <1>23, <1>24, <1>25, <1>26, <1>27,
     <1>28
  DEF Next, Run, Step, Assemble, Install, vars

\* One fetch at a time, and only its tar is in a directory.
LEMMA AloneStep ==
  ASSUME IInv, [Next]_vars, ~met'
  PROVE  AloneInv'
<1> USE GoneAssumption DEF IInv, TypeInv, TypeOK, AloneInv, Fetching, Caller, Kinds
<1>1. ASSUME NEW p \in Procs, NEW k \in Kinds, Begin(p, k) PROVE AloneInv'
  BY <1>1 DEF Begin, disk, Lone, Dirs, Entries, Removals, Phases
<1>2. ASSUME NEW p \in Procs, Found(p) PROVE AloneInv'
  BY <1>2 DEF Found, Go, Complete, disk, Lone, Dirs, Entries, Removals, Phases
<1>3. ASSUME NEW p \in Procs, NotFound(p) PROVE AloneInv'
  BY <1>3 DEF NotFound, Complete, Remove, Go, disk, Lone, Dirs, Entries, Removals, Phases
<1>4. ASSUME NEW p \in Procs, NEW e \in Entries, RemoveEntry(p, e) PROVE AloneInv'
  BY <1>4 DEF RemoveEntry, RemovedFrom, Removals, Lone, Dirs, Entries, Phases
<1>5. ASSUME NEW p \in Procs, Cleared(p) PROVE AloneInv'
  BY <1>5 DEF Cleared, Removed, RemovedFrom, Follow, Go, Lone, Dirs, Entries, Removals, Phases
<1>6. ASSUME NEW p \in Procs, ClearFails(p) PROVE AloneInv'
  BY <1>6
  DEF ClearFails, NotRemoved, RemovedFrom, Go, disk, Lone, Dirs, Entries, Removals, Phases
<1>7. ASSUME NEW p \in Procs, Make(p) PROVE AloneInv'
  BY <1>7 DEF Make, Go, Lone, Dirs, Entries, Removals, Phases
<1>8. ASSUME NEW p \in Procs, Download(p) PROVE AloneInv'
  BY <1>8 DEF Download, Go, Lone, Dirs, Entries, Removals, Phases
<1>9. ASSUME NEW p \in Procs, DownloadFails(p) PROVE AloneInv'
  BY <1>9
  DEF DownloadFails, Blame, Conclude, Remove, After, Go, disk, Lone, Dirs, Entries, Removals,
      Phases
<1>10. ASSUME NEW p \in Procs, Open(p) PROVE AloneInv'
  BY <1>10 DEF Open, Holds, Go, disk, Lone, Dirs, Entries, Removals, Phases
<1>11. ASSUME NEW p \in Procs, OpenFails(p) PROVE AloneInv'
  BY <1>11
  DEF OpenFails, Holds, Conclude, Remove, After, Go, disk, Lone, Dirs, Entries, Removals, Phases
<1>12. ASSUME NEW p \in Procs, NEW f \in Packed, Extract(p, f) PROVE AloneInv'
  BY <1>12 DEF Extract, Lone, Dirs, Entries, Removals, Phases
<1>13. ASSUME NEW p \in Procs, UnpackFails(p) PROVE AloneInv'
  BY <1>13
  DEF UnpackFails, Blame, Conclude, Remove, After, Go, disk, Lone, Dirs, Entries, Removals,
      Phases
<1>14. ASSUME NEW p \in Procs, Unpacked(p) PROVE AloneInv'
  BY <1>14 DEF Unpacked, Remove, Go, Lone, Dirs, Entries, Removals, Phases
<1>15. ASSUME NEW p \in Procs, UnpackedNowhere(p) PROVE AloneInv'
  BY <1>15
  DEF UnpackedNowhere, Conclude, Remove, After, Go, disk, Lone, Dirs, Entries, Removals, Phases
<1>16. ASSUME NEW p \in Procs, Prune(p) PROVE AloneInv'
  BY <1>16 DEF Prune, Holds, Remove, Go, Lone, Dirs, Entries, Removals, Phases
<1>28. ASSUME NEW p \in Procs, PruneFails(p) PROVE AloneInv'
  BY <1>28
  DEF PruneFails, Holds, Blame, Conclude, Remove, After, Go, Lone, Dirs, Entries, Removals, Phases
<1>17. ASSUME NEW p \in Procs, Replaced(p) PROVE AloneInv'
  BY <1>17 DEF Replaced, Removed, RemovedFrom, Follow, Go, Lone, Dirs, Entries, Removals, Phases
<1>18. ASSUME NEW p \in Procs, ReplaceFails(p) PROVE AloneInv'
  BY <1>18
  DEF ReplaceFails, NotRemoved, RemovedFrom, Conclude, Remove, After, Go, disk, Lone, Dirs,
      Entries, Removals, Phases
<1>19. ASSUME NEW p \in Procs, Rename(p) PROVE AloneInv'
  BY <1>19 DEF Rename, CanRename, Go, Lone, Dirs, Entries, Removals, Phases
<1>20. ASSUME NEW p \in Procs, RenameFails(p) PROVE AloneInv'
  BY <1>20
  DEF RenameFails, CanRename, Conclude, Remove, After, Go, disk, Lone, Dirs, Entries, Removals,
      Phases
<1>21. ASSUME NEW p \in Procs, WriteStamp(p) PROVE AloneInv'
  BY <1>21
  DEF WriteStamp, StampText, Conclude, Remove, After, Go, Lone, Dirs, Entries, Removals, Phases
<1>22. ASSUME NEW p \in Procs, StampFails(p) PROVE AloneInv'
  BY <1>22
  DEF StampFails, Conclude, Remove, After, Go, disk, Lone, Dirs, Entries, Removals, Phases
<1>23. ASSUME NEW p \in Procs, Swept(p) PROVE AloneInv'
  BY <1>23
  DEF Swept, Removed, RemovedFrom, Follow, After, Go, Lone, Dirs, Entries, Removals, Phases
<1>24. ASSUME NEW p \in Procs, SweepFails(p) PROVE AloneInv'
  BY <1>24
  DEF SweepFails, NotRemoved, RemovedFrom, After, Go, disk, Lone, Dirs, Entries, Removals,
      Phases
<1>25. ASSUME NEW p \in Procs, Leave(p) PROVE AloneInv'
  BY <1>25 DEF Leave, Go, disk, Lone, Dirs, Entries, Removals, Phases
<1>26. ASSUME NEW p \in Procs, Crash(p) PROVE AloneInv'
  BY <1>26 DEF Crash, Blame, Go, disk, Lone, Dirs, Entries, Removals, Phases
<1>27. CASE UNCHANGED <<world, faults, dir, stamp, pc, kind, todo, at, good, met>>
  BY <1>27
<1> HIDE DEF IInv, TypeInv, TypeOK, AloneInv, Fetching, Caller, Kinds
<1> QED
  BY <1>1, <1>2, <1>3, <1>4, <1>5, <1>6, <1>7, <1>8, <1>9, <1>10, <1>11, <1>12, <1>13, <1>14,
     <1>15, <1>16, <1>17, <1>18, <1>19, <1>20, <1>21, <1>22, <1>23, <1>24, <1>25, <1>26, <1>27,
     <1>28
  DEF Next, Run, Step, Assemble, Install, vars

\* A fetch has in the working directory what its step needs, and nothing else.
LEMMA StepStep ==
  ASSUME IInv, [Next]_vars, ~met'
  PROVE  StepInv'
<1> USE NamesAssumption, GoneAssumption
<1> USE DEF IInv, TypeInv, TypeOK, AloneInv, StepInv, Fetching, Caller, Wanted, Needs
<1>1. ASSUME NEW p \in Procs, NEW k \in Kinds, Begin(p, k) PROVE StepInv'
  <2>1. \A q \in Procs : pc'[q] \in {"out", "use", "check"}
    BY <1>1 DEF Begin, Phases
  <2> QED
    BY <2>1
<1>2. ASSUME NEW p \in Procs, Found(p) PROVE StepInv'
  BY <1>2 DEF Found, Go, Complete, disk, Packed, Dirs, Entries, Removals, Phases, Kinds, WorkInv
<1>3. ASSUME NEW p \in Procs, NotFound(p) PROVE StepInv'
  BY <1>3
  DEF NotFound, Complete, Remove, Go, disk, Packed, Dirs, Entries, Removals, Phases, Kinds,
      WorkInv
<1>4. ASSUME NEW p \in Procs, NEW e \in Entries, RemoveEntry(p, e) PROVE StepInv'
  <2>1. /\ pc' = pc /\ at' = at /\ todo' = [todo EXCEPT ![p] = @ \ {e}]
        /\ pc[p] \in Removals /\ UNCHANGED <<world, kind, met>>
        /\ dir' = [dir EXCEPT ![RemovedFrom(p)] = IF @ = Gone THEN Gone ELSE @ \ {e}]
    BY <1>4 DEF RemoveEntry
  <2>2. \A q \in Procs : q # p => pc[q] \in {"out", "use"}
    BY <2>1 DEF Removals
  <2>3. CASE pc[p] = "replace"
    BY <2>1, <2>2, <2>3 DEF RemovedFrom, Dirs
  <2>4. CASE pc[p] \in {"clear", "sweep"}
    BY <2>1, <2>2, <2>4 DEF RemovedFrom, Dirs
  <2> QED
    BY <2>1, <2>3, <2>4 DEF Removals
<1>5. ASSUME NEW p \in Procs, Cleared(p) PROVE StepInv'
  BY <1>5
  DEF Cleared, Removed, RemovedFrom, Follow, Go, Packed, Dirs, Entries, Removals, Phases, Kinds,
      WorkInv
<1>6. ASSUME NEW p \in Procs, ClearFails(p) PROVE StepInv'
  BY <1>6
  DEF ClearFails, NotRemoved, RemovedFrom, Go, disk, Packed, Dirs, Entries, Removals, Phases,
      Kinds, WorkInv
<1>7. ASSUME NEW p \in Procs, Make(p) PROVE StepInv'
  BY <1>7 DEF Make, Go, Packed, Dirs, Entries, Removals, Phases, Kinds, WorkInv
<1>8. ASSUME NEW p \in Procs, Download(p) PROVE StepInv'
  BY <1>8 DEF Download, Go, Packed, Dirs, Entries, Removals, Phases, Kinds, WorkInv
<1>9. ASSUME NEW p \in Procs, DownloadFails(p) PROVE StepInv'
  BY <1>9
  DEF DownloadFails, Blame, Conclude, Remove, After, Go, disk, Packed, Dirs, Entries, Removals,
      Phases, Kinds, WorkInv
<1>10. ASSUME NEW p \in Procs, Open(p) PROVE StepInv'
  BY <1>10 DEF Open, Holds, Go, disk, Packed, Dirs, Entries, Removals, Phases, Kinds, WorkInv
<1>11. ASSUME NEW p \in Procs, OpenFails(p) PROVE StepInv'
  BY <1>11
  DEF OpenFails, Holds, Conclude, Remove, After, Go, disk, Packed, Dirs, Entries, Removals,
      Phases, Kinds, WorkInv
<1>12. ASSUME NEW p \in Procs, NEW f \in Packed, Extract(p, f) PROVE StepInv'
  BY <1>12 DEF Extract, Packed, Dirs, Entries, Removals, Phases, Kinds, WorkInv
<1>13. ASSUME NEW p \in Procs, UnpackFails(p) PROVE StepInv'
  BY <1>13
  DEF UnpackFails, Blame, Conclude, Remove, After, Go, disk, Packed, Dirs, Entries, Removals,
      Phases, Kinds, WorkInv
<1>14. ASSUME NEW p \in Procs, Unpacked(p) PROVE StepInv'
  BY <1>14 DEF Unpacked, Remove, Go, Packed, Dirs, Entries, Removals, Phases, Kinds, WorkInv
<1>15. ASSUME NEW p \in Procs, UnpackedNowhere(p) PROVE StepInv'
  BY <1>15
  DEF UnpackedNowhere, Conclude, Remove, After, Go, disk, Packed, Dirs, Entries, Removals,
      Phases, Kinds, WorkInv
<1>16. ASSUME NEW p \in Procs, Prune(p) PROVE StepInv'
  <2>1. \A q \in Procs : q # p => pc[q] \in {"out", "use"}
    BY <1>16 DEF Prune
  <2>2. dir["work"] = Packed /\ kind[p] = "carried" /\ Caller = "carried"
    BY <1>16 DEF Prune
  <2>3. dir'["work"] = Wanted /\ dir'["dest"] = dir["dest"] /\ UNCHANGED <<world, at>>
    <3>1. Kept = Packed \ (Dropped \cup {Archive})
      BY DEF Packed
    <3>2. Wanted = IF Manifest \in Packed THEN Kept ELSE Packed
      BY <2>2
    <3>3. UNCHANGED <<world, at>>
          /\ dir' = [dir EXCEPT !["work"] = IF Manifest \in Packed
                                            THEN Packed \ (Dropped \cup {Archive}) ELSE Packed]
        <4>1. Packed # Gone
        BY DEF Packed, Entries
      <4> QED
        BY <1>16, <2>2, <4>1 DEF Prune, Holds
    <3> QED
      BY <3>1, <3>2, <3>3 DEF Dirs
  <2>4. \/ dir["dest"] = Gone /\ pc' = [pc EXCEPT ![p] = "rename"]
        \/ /\ dir["dest"] # Gone /\ pc' = [pc EXCEPT ![p] = "replace"]
           /\ todo' = [todo EXCEPT ![p] = dir["dest"]]
    BY <1>16 DEF Prune, Remove, Go
  <2> QED
    BY <2>1, <2>3, <2>4
<1>28. ASSUME NEW p \in Procs, PruneFails(p) PROVE StepInv'
  BY <1>28
  DEF PruneFails, Holds, Blame, Conclude, Remove, After, Go, Packed, Dirs, Entries, Removals,
      Phases, Kinds, WorkInv
<1>17. ASSUME NEW p \in Procs, Replaced(p) PROVE StepInv'
  BY <1>17
  DEF Replaced, Removed, RemovedFrom, Follow, Go, Packed, Dirs, Entries, Removals, Phases,
      Kinds, WorkInv
<1>18. ASSUME NEW p \in Procs, ReplaceFails(p) PROVE StepInv'
  BY <1>18
  DEF ReplaceFails, NotRemoved, RemovedFrom, Conclude, Remove, After, Go, disk, Packed, Dirs,
      Entries, Removals, Phases, Kinds, WorkInv
<1>19. ASSUME NEW p \in Procs, Rename(p) PROVE StepInv'
  BY <1>19 DEF Rename, CanRename, Go, Packed, Dirs, Entries, Removals, Phases, Kinds, WorkInv
<1>20. ASSUME NEW p \in Procs, RenameFails(p) PROVE StepInv'
  BY <1>20
  DEF RenameFails, CanRename, Conclude, Remove, After, Go, disk, Packed, Dirs, Entries,
      Removals, Phases, Kinds, WorkInv
<1>21. ASSUME NEW p \in Procs, WriteStamp(p) PROVE StepInv'
  BY <1>21
  DEF WriteStamp, StampText, Conclude, Remove, After, Go, Packed, Dirs, Entries, Removals,
      Phases, Kinds, WorkInv
<1>22. ASSUME NEW p \in Procs, StampFails(p) PROVE StepInv'
  BY <1>22
  DEF StampFails, Conclude, Remove, After, Go, disk, Packed, Dirs, Entries, Removals, Phases,
      Kinds, WorkInv
<1>23. ASSUME NEW p \in Procs, Swept(p) PROVE StepInv'
  BY <1>23
  DEF Swept, Removed, RemovedFrom, Follow, After, Go, Packed, Dirs, Entries, Removals, Phases,
      Kinds, WorkInv
<1>24. ASSUME NEW p \in Procs, SweepFails(p) PROVE StepInv'
  BY <1>24
  DEF SweepFails, NotRemoved, RemovedFrom, After, Go, disk, Packed, Dirs, Entries, Removals,
      Phases, Kinds, WorkInv
<1>25. ASSUME NEW p \in Procs, Leave(p) PROVE StepInv'
  BY <1>25 DEF Leave, Go, disk, Packed, Dirs, Entries, Removals, Phases, Kinds, WorkInv
<1>26. ASSUME NEW p \in Procs, Crash(p) PROVE StepInv'
  BY <1>26 DEF Crash, Blame, Go, disk, Packed, Dirs, Entries, Removals, Phases, Kinds, WorkInv
<1>27. CASE UNCHANGED <<world, faults, dir, stamp, pc, kind, todo, at, good, met>>
  BY <1>27
<1> HIDE DEF IInv, TypeInv, TypeOK, AloneInv, StepInv, Fetching, Caller, Wanted, Needs
<1> QED
  BY <1>1, <1>2, <1>3, <1>4, <1>5, <1>6, <1>7, <1>8, <1>9, <1>10, <1>11, <1>12, <1>13, <1>14,
     <1>15, <1>16, <1>17, <1>18, <1>19, <1>20, <1>21, <1>22, <1>23, <1>24, <1>25, <1>26, <1>27,
     <1>28
  DEF Next, Run, Step, Assemble, Install, vars

\* A stamp is written on a whole tree, and outlives it only when a crash cannot hide that.
LEMMA StampStep ==
  ASSUME IInv, [Next]_vars, ~met'
  PROVE  StampInv'
<1> USE NamesAssumption, GoneAssumption
<1> USE DEF IInv, TypeInv, TypeOK, AloneInv, StepInv, StampInv, Answers, Fetching, Caller, Wanted, Needs
<1>1. ASSUME NEW p \in Procs, NEW k \in Kinds, Begin(p, k) PROVE StampInv'
  <2>1. \A q \in Procs : pc[q] \in {"out", "use"} /\ pc'[q] \in {pc[q], "check"}
    BY <1>1 DEF Begin, Phases
  <2>2. UNCHANGED <<world, disk, good>> /\ ~met /\ \A q \in Procs : pc'[q] = "use" => pc[q] = "use"
    BY <1>1 DEF Begin
  <2>3. UNCHANGED Answers
    BY <2>2 DEF disk
  <2> HIDE DEF Answers
  <2>4. \A q \in Procs : /\ pc'[q] \in {"out", "check", "use"}
                         /\ pc'[q] = "use" => Answers
    BY <2>1, <2>2
  <2>5. stamp # "none" => dir["dest"] \in {Wanted \cup {Stamp}, Packed \cup {Stamp}}
    BY <2>1, <2>2
  <2>6. Wanted' = Wanted /\ Caller' = Caller
    BY <2>2
  <2> HIDE DEF Wanted, Caller
  <2> QED
    BY <2>2, <2>3, <2>4, <2>5, <2>6 DEF disk
<1>2. ASSUME NEW p \in Procs, Found(p) PROVE StampInv'
  BY <1>2
  DEF Found, Go, Complete, disk, Packed, Dirs, Entries, Removals, Phases, Kinds, WorkInv, Lone,
      Holds
<1>3. ASSUME NEW p \in Procs, NotFound(p) PROVE StampInv'
  BY <1>3
  DEF NotFound, Complete, Remove, Go, disk, Packed, Dirs, Entries, Removals, Phases, Kinds,
      WorkInv, Lone, Holds
<1>4. ASSUME NEW p \in Procs, NEW e \in Entries, RemoveEntry(p, e) PROVE StampInv'
  BY <1>4
  DEF RemoveEntry, RemovedFrom, Removals, Packed, Dirs, Entries, Phases, Kinds, WorkInv, Lone,
      Holds
<1>5. ASSUME NEW p \in Procs, Cleared(p) PROVE StampInv'
  BY <1>5
  DEF Cleared, Removed, RemovedFrom, Follow, Go, Packed, Dirs, Entries, Removals, Phases, Kinds,
      WorkInv, Lone, Holds
<1>6. ASSUME NEW p \in Procs, ClearFails(p) PROVE StampInv'
  BY <1>6
  DEF ClearFails, NotRemoved, RemovedFrom, Go, disk, Packed, Dirs, Entries, Removals, Phases,
      Kinds, WorkInv, Lone, Holds
<1>7. ASSUME NEW p \in Procs, Make(p) PROVE StampInv'
  BY <1>7 DEF Make, Go, Packed, Dirs, Entries, Removals, Phases, Kinds, WorkInv, Lone, Holds
<1>8. ASSUME NEW p \in Procs, Download(p) PROVE StampInv'
  BY <1>8 DEF Download, Go, Packed, Dirs, Entries, Removals, Phases, Kinds, WorkInv, Lone, Holds
<1>9. ASSUME NEW p \in Procs, DownloadFails(p) PROVE StampInv'
  BY <1>9
  DEF DownloadFails, Blame, Conclude, Remove, After, Go, disk, Packed, Dirs, Entries, Removals,
      Phases, Kinds, WorkInv, Lone, Holds
<1>10. ASSUME NEW p \in Procs, Open(p) PROVE StampInv'
  BY <1>10
  DEF Open, Holds, Go, disk, Packed, Dirs, Entries, Removals, Phases, Kinds, WorkInv, Lone
<1>11. ASSUME NEW p \in Procs, OpenFails(p) PROVE StampInv'
  BY <1>11
  DEF OpenFails, Holds, Conclude, Remove, After, Go, disk, Packed, Dirs, Entries, Removals,
      Phases, Kinds, WorkInv, Lone
<1>12. ASSUME NEW p \in Procs, NEW f \in Packed, Extract(p, f) PROVE StampInv'
  BY <1>12 DEF Extract, Packed, Dirs, Entries, Removals, Phases, Kinds, WorkInv, Lone, Holds
<1>13. ASSUME NEW p \in Procs, UnpackFails(p) PROVE StampInv'
  BY <1>13
  DEF UnpackFails, Blame, Conclude, Remove, After, Go, disk, Packed, Dirs, Entries, Removals,
      Phases, Kinds, WorkInv, Lone, Holds
<1>14. ASSUME NEW p \in Procs, Unpacked(p) PROVE StampInv'
  BY <1>14
  DEF Unpacked, Remove, Go, Packed, Dirs, Entries, Removals, Phases, Kinds, WorkInv, Lone, Holds
<1>15. ASSUME NEW p \in Procs, UnpackedNowhere(p) PROVE StampInv'
  BY <1>15
  DEF UnpackedNowhere, Conclude, Remove, After, Go, disk, Packed, Dirs, Entries, Removals,
      Phases, Kinds, WorkInv, Lone, Holds
<1>16. ASSUME NEW p \in Procs, Prune(p) PROVE StampInv'
  BY <1>16
  DEF Prune, Holds, Remove, Go, Packed, Dirs, Entries, Removals, Phases, Kinds, WorkInv, Lone
<1>28. ASSUME NEW p \in Procs, PruneFails(p) PROVE StampInv'
  BY <1>28
  DEF PruneFails, Holds, Blame, Conclude, Remove, After, Go, Packed, Dirs, Entries, Removals,
      Phases, Kinds, WorkInv, Lone
<1>17. ASSUME NEW p \in Procs, Replaced(p) PROVE StampInv'
  BY <1>17
  DEF Replaced, Removed, RemovedFrom, Follow, Go, Packed, Dirs, Entries, Removals, Phases,
      Kinds, WorkInv, Lone, Holds
<1>18. ASSUME NEW p \in Procs, ReplaceFails(p) PROVE StampInv'
  BY <1>18
  DEF ReplaceFails, NotRemoved, RemovedFrom, Conclude, Remove, After, Go, disk, Packed, Dirs,
      Entries, Removals, Phases, Kinds, WorkInv, Lone, Holds
<1>19. ASSUME NEW p \in Procs, Rename(p) PROVE StampInv'
  BY <1>19
  DEF Rename, CanRename, Go, Packed, Dirs, Entries, Removals, Phases, Kinds, WorkInv, Lone,
      Holds
<1>20. ASSUME NEW p \in Procs, RenameFails(p) PROVE StampInv'
  BY <1>20
  DEF RenameFails, CanRename, Conclude, Remove, After, Go, disk, Packed, Dirs, Entries,
      Removals, Phases, Kinds, WorkInv, Lone, Holds
<1>21. ASSUME NEW p \in Procs, WriteStamp(p) PROVE StampInv'
  BY <1>21
  DEF WriteStamp, StampText, Conclude, Remove, After, Go, Packed, Dirs, Entries, Removals,
      Phases, Kinds, WorkInv, Lone, Holds
<1>22. ASSUME NEW p \in Procs, StampFails(p) PROVE StampInv'
  BY <1>22
  DEF StampFails, Conclude, Remove, After, Go, disk, Packed, Dirs, Entries, Removals, Phases,
      Kinds, WorkInv, Lone, Holds
<1>23. ASSUME NEW p \in Procs, Swept(p) PROVE StampInv'
  BY <1>23
  DEF Swept, Removed, RemovedFrom, Follow, After, Go, Packed, Dirs, Entries, Removals, Phases,
      Kinds, WorkInv, Lone, Holds
<1>24. ASSUME NEW p \in Procs, SweepFails(p) PROVE StampInv'
  BY <1>24
  DEF SweepFails, NotRemoved, RemovedFrom, After, Go, disk, Packed, Dirs, Entries, Removals,
      Phases, Kinds, WorkInv, Lone, Holds
<1>25. ASSUME NEW p \in Procs, Leave(p) PROVE StampInv'
  BY <1>25
  DEF Leave, Go, disk, Packed, Dirs, Entries, Removals, Phases, Kinds, WorkInv, Lone, Holds
<1>26. ASSUME NEW p \in Procs, Crash(p) PROVE StampInv'
  BY <1>26
  DEF Crash, Blame, Go, disk, Packed, Dirs, Entries, Removals, Phases, Kinds, WorkInv, Lone,
      Holds
<1>27. CASE UNCHANGED <<world, faults, dir, stamp, pc, kind, todo, at, good, met>>
  BY <1>27
<1> HIDE DEF IInv, TypeInv, TypeOK, AloneInv, StepInv, StampInv, Answers, Fetching, Caller, Wanted, Needs
<1> QED
  BY <1>1, <1>2, <1>3, <1>4, <1>5, <1>6, <1>7, <1>8, <1>9, <1>10, <1>11, <1>12, <1>13, <1>14,
     <1>15, <1>16, <1>17, <1>18, <1>19, <1>20, <1>21, <1>22, <1>23, <1>24, <1>25, <1>26, <1>27,
     <1>28
  DEF Next, Run, Step, Assemble, Install, vars

LEMMA InitHolds ==
  ASSUME Init, \A w \in Worlds : Lone(w)
  PROVE  IInv
<1> USE NamesAssumption, GoneAssumption, FaultsAssumption
<1>1. TypeInv
  BY DEF Init, TypeInv, TypeOK, Dirs, Kinds, Phases, Entries, Holds
<1>2. WorkInv /\ AloneInv /\ StepInv
  BY DEF Init, WorkInv, AloneInv, StepInv, Fetching, Dirs
<1>3. StampInv
  <2>1. stamp = (IF world.older THEN "ok" ELSE "none")
        /\ (world.older => dir["dest"] = Packed \cup {Stamp})
        /\ Lone(world) /\ \A p \in Procs : pc[p] = "out"
    BY DEF Init, Dirs
  <2>2. Answers => Wanted = Packed
    BY <2>1 DEF Answers, Wanted, Needs
  <2>3. stamp \in {"ok", "torn"} /\ Caller = "carried" => "crash" \notin world.faults
    BY <2>1 DEF Lone, Caller
  <2> QED
    BY <2>1, <2>2, <2>3 DEF StampInv, Answers
<1> QED
  BY <1>1, <1>2, <1>3 DEF IInv

LEMMA Inductive ==
  ASSUME \A w \in Worlds : Lone(w)
  PROVE  Spec => []IInv
<1>1. Init => IInv
  BY InitHolds
<1>2. IInv /\ [Next]_vars => IInv'
  BY TypeStep, AloneStep, StepStep, StampStep DEF IInv
<1> QED
  BY <1>1, <1>2, PTL DEF Spec

------------------------------------------------------------------------------
(* What the cache promises                                                  *)

\* is_complete, install: while no two fetches overlap, a tree with its stamp holds what its callers
\* need and nothing else, and no build that was given a tree sees it being filled or emptied.
THEOREM SourcesAreWhole ==
  ASSUME \A w \in Worlds : Lone(w)
  PROVE  Spec => []SourceIsWhole
<1>1. IInv => SourceIsWhole
  <2> SUFFICES ASSUME IInv, ~met
               PROVE  StampMeansWhole /\ UsedIsWhole
    BY DEF IInv, TypeInv, SourceIsWhole, StampHolds, UsedIsWhole
  <2> USE NamesAssumption, GoneAssumption DEF IInv, AloneInv
  <2>1. Answers => dir["dest"] = Wanted \cup {Stamp}
    BY DEF StampInv
  <2>2. Stamp \notin Wanted
    BY DEF Wanted, Needs, Packed
  <2>3. ASSUME NEW p \in Procs, pc[p] = "check", Complete(kind[p])
        PROVE  dir["dest"] \ {Stamp} = Needs(kind[p])
    <3>1. kind[p] = Caller
      BY <2>3
    <3>2. stamp # "none" /\ dir["dest"] # Gone
      BY <2>3 DEF TypeInv, TypeOK, Complete, Holds
    <3>3. CASE Answers
      BY <3>1, <3>3, <2>1, <2>2 DEF Wanted
    <3>4. CASE ~Answers
      <4>1. Caller # "plain" /\ Manifest \in Packed /\ Manifest \notin dir["dest"]
        BY <2>3, <3>1, <3>2, <3>4 DEF Answers, Complete, Holds, TypeInv, TypeOK
      <4>2. dir["dest"] \in {Wanted \cup {Stamp}, Packed \cup {Stamp}}
        BY <2>3, <3>2 DEF StampInv, Fetching
      <4> QED
        BY <4>1, <4>2 DEF Wanted, Needs, Packed
    <3> QED
      BY <3>3, <3>4
  <2>4. ASSUME NEW p \in Procs, pc[p] = "use"
        PROVE  dir["dest"] # Gone /\ Needs(kind[p]) \subseteq dir["dest"]
    <3>1. kind[p] = Caller /\ Answers
      BY <2>4 DEF StampInv
    <3> QED
      BY <3>1, <2>1 DEF Wanted, TypeInv, TypeOK, Holds, Answers
  <2> QED
    BY <2>3, <2>4 DEF StampMeansWhole, UsedIsWhole
<1> QED
  BY <1>1, Inductive,
     PTL
==============================================================================
