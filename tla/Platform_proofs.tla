---------------------------- MODULE Platform_proofs ----------------------------
(***************************************************************************)
(* What is proved of Platform for any recipes, machines, resolutions and   *)
(* faults, as long as no two resolutions overlap: a platform with its      *)
(* stamp is whole, and one that a build was given can be used.             *)
(***************************************************************************)
EXTENDS Platform, WellFoundedInduction, TLAPS

------------------------------------------------------------------------------
(* The inductive invariant                                                  *)

Full(names) == [d \in names |-> "whole"]
Count == Len(Entry.files)
Before(n) == {Entry.files[i].digest : i \in 1 .. (n - 1)}

\* A file that was kept has been hashed once; one that was spoilt is hashed again.
Done == {Saved(None, "whole"), Saved(None, "wrong")}
Parts == {Saved(r, b) : r \in Resolvers \cup {None}, b \in Bytes}
Installed == Full(Files)
TypeInv ==
  /\ world \in Worlds /\ world.apart
  /\ pc \in [Resolvers -> Phases]
  /\ at \in [Resolvers -> Nat]
  /\ answer \in [Resolvers -> Answers \cup {None}]
  /\ kept \in [Digests -> Done \cup {None}]
  /\ part \in [Digests -> Parts \cup {None}]

AloneInv ==
  /\ \A r, q \in Resolvers : pc[r] # "out" /\ pc[q] # "out" => r = q
  /\ \A r \in Resolvers : pc[r] # "out" => Index # 0 /\ at[r] \in 1 .. Count

\* What a resolution has downloaded and unpacked when it is at a file.
Unstamped == {"clear", "make", "file", "fetch", "fetching", "hash", "keep", "unpack", "relocate",
              "remove", "rename", "record"}
FileInv ==
  \A r \in Resolvers :
    /\ pc[r] = "make" => work = None
    /\ pc[r] \in {"make", "clear", "stamp"} => at[r] = 1
    /\ pc[r] \in {"file", "fetch", "fetching", "hash", "keep", "unpack"} =>
         \A n \in 1 .. Count : at[r] = n => work = Full(Before(n))
    /\ pc[r] \in {"relocate", "remove", "rename"} => work = Installed
    /\ pc[r] = "fetching" => part[File(r)] = Saved(r, "cut")
    /\ pc[r] = "hash" => part[File(r)] \in Done
    /\ pc[r] = "keep" => part[File(r)] = Saved(None, "whole")
    /\ pc[r] = "unpack" => kept[File(r)] = Saved(None, "whole")

\* The stamp is written last, and no directory that has one is touched again.
Linking == {"links", "unlink", "relink"}
StampInv ==
  /\ stamp => Index # 0 /\ dest = Installed
  /\ \A r \in Resolvers :
       /\ pc[r] \in Unstamped => ~stamp
       /\ pc[r] = "rename" => dest = None
       /\ pc[r] = "record" => dest = Installed
       /\ pc[r] = "tidy" => answer[r] = "error" \/ (answer[r] = None /\ stamp)
       /\ pc[r] \in Linking \cup {"copy", "copying"} => stamp
       /\ answer[r] = "fetched" => stamp

\* A link is pointed at the host or known to be lost: those before the one a resolution is at,
\* and all of them once it has answered.
Seen(l) == links[l] = "host" \/ l \in unmade
ByFile == {i \in DOMAIN Entry.link : Entry.link[i].byFile}
LinkInv ==
  /\ links \in [Sonames -> {"own", "host", "gone"}] /\ nth \in [Resolvers -> Nat \ {0}]
  /\ \A l \in unmade : l \in Sonames /\ links[l] = "gone"
  /\ \A r \in Resolvers :
       /\ pc[r] = "record" => \A l \in Sonames : links[l] = "own"
       /\ pc[r] \in Unstamped \cup {"stamp", "tidy"} => nth[r] = 1
       /\ pc[r] \in Linking =>
            \A i \in ByFile : i < nth[r] => Seen(Entry.link[i].name)
       /\ pc[r] \in {"unlink", "relink"} => ~Linked(r) /\ nth[r] \in ByFile
       /\ pc[r] = "unlink" => links[Soname(r)] = "own"
       /\ pc[r] = "relink" => links[Soname(r)] = "gone" /\ Soname(r) \notin unmade
       /\ answer[r] = "fetched" /\ Entry.runtime = "host" =>
            \A i \in ByFile : Seen(Entry.link[i].name)
  /\ stamp => \A l \in Sonames : links[l] = "gone" =>
       l \in unmade \/ \E r \in Resolvers : pc[r] = "relink" /\ Soname(r) = l

IInv == TypeInv /\ AloneInv /\ FileInv /\ StampInv /\ LinkInv

------------------------------------------------------------------------------
(* What a recipe that was read says of its files                            *)

LEMMA Least ==
  ASSUME NEW S \in SUBSET Nat, S # {}
  PROVE  \E x \in S : \A y \in S : x <= y
<1>1. PICK x \in S : \A y \in S : ~ (<<y, x>> \in OpToRel(<, Nat))
  BY NatLessThanWellFounded, WFMin
<1>2. \A y \in S : ~(y < x)
  BY <1>1 DEF OpToRel
<1> QED
  BY <1>2

\* platform_choose answers with a platform of the recipe.
LEMMA ChooseIs ==
  ASSUME NEW doc, NEW host, DOMAIN doc.platforms = 1 .. Len(doc.platforms), Choose(doc, host) # 0
  PROVE  Choose(doc, host) \in DOMAIN doc.platforms
<1>1. Serving(doc, host) \in SUBSET Nat /\ Serving(doc, host) # {}
  BY DEF Choose, Serving
<1>2. \E i \in Serving(doc, host) : \A j \in Serving(doc, host) : i <= j
  BY <1>1, Least
<1>3. Choose(doc, host) \in Serving(doc, host)
  BY <1>1, <1>2 DEF Choose
<1> QED
  BY <1>3 DEF Serving

\* And a platform pins at least one file.
LEMMA EntryIs ==
  ASSUME world \in Worlds, Index # 0
  PROVE  /\ Count \in Nat \ {0} /\ DOMAIN Entry.files = 1 .. Count
         /\ \A i \in 1 .. Count : Entry.files[i].digest \in Digests
         /\ Files \in SUBSET Digests
<1>1. WorldOK(world)
  BY WorldsAssumption
<1>2. Index \in DOMAIN world.doc.platforms
  BY <1>1, ChooseIs DEF WorldOK, Index
<1>3. EntryOK(Entry) /\ Entry \in Range(world.doc.platforms)
  BY <1>1, <1>2 DEF WorldOK, RecipeReads, Entry, Range
<1>4. DOMAIN Entry.files = 1 .. Count
  BY <1>1, <1>3 DEF WorldOK, Count
<1>5. Count \in Nat \ {0}
  BY <1>3, LimitAssumption DEF EntryOK, FilesOK, Count
<1>6. \A i \in 1 .. Count : Entry.files[i].digest \in Digests
  <2> SUFFICES ASSUME NEW i \in 1 .. Count PROVE Entry.files[i].digest \in Digests
    OBVIOUS
  <2>1. Entry \in UNION {Range(w.doc.platforms) : w \in Worlds}
    BY <1>3
  <2>2. Entry.files[i].digest \in {Entry.files[j].digest : j \in DOMAIN Entry.files}
    BY <1>4
  <2> QED
    BY <2>1, <2>2 DEF Digests
<1> QED
  BY <1>4, <1>5, <1>6 DEF Files

LEMMA LinkEntryIs ==
  ASSUME world \in Worlds, Index # 0
  PROVE  /\ DOMAIN Entry.link = 1 .. Len(Entry.link) /\ Len(Entry.link) \in Nat
         /\ \A i \in DOMAIN Entry.link : Entry.link[i].name \in Sonames
<1>1. WorldOK(world)
  BY WorldsAssumption
<1>2. Index \in DOMAIN world.doc.platforms
  BY <1>1, ChooseIs DEF WorldOK, Index
<1>3. Entry \in Range(world.doc.platforms)
  BY <1>2 DEF Entry, Range
<1>4. Entry.link \in Seq([name : STRING, byFile : BOOLEAN])
  BY <1>1, <1>3 DEF WorldOK
<1>5. ASSUME NEW i \in DOMAIN Entry.link PROVE Entry.link[i].name \in Sonames
  <2>1. Entry \in UNION {Range(w.doc.platforms) : w \in Worlds}
    BY <1>3
  <2>2. Entry.link[i].name \in {Entry.link[j].name : j \in DOMAIN Entry.link}
    OBVIOUS
  <2> QED
    BY <2>1, <2>2 DEF Sonames
<1> QED
  BY <1>4, <1>5

\* One file after the other.
LEMMA BeforeIs ==
  ASSUME world \in Worlds, Index # 0, NEW n \in 1 .. Count
  PROVE  /\ Before(1) = {}
         /\ Before(n + 1) = Before(n) \cup {Entry.files[n].digest}
         /\ n = Count => Before(n + 1) = Files
<1>1. Count \in Nat \ {0} /\ DOMAIN Entry.files = 1 .. Count
  BY EntryIs
<1>2. \A i : i \in 1 .. n + 1 - 1 <=> i \in 1 .. n - 1 \/ i = n
  BY <1>1
<1> QED
  BY <1>1, <1>2 DEF Before, Files

\* Trees that are whole are trees.
LEMMA FullIs ==
  ASSUME NEW names \in SUBSET Digests
  PROVE  Full(names) # None /\ Full(names) # Torn
<1>1. Full(names) \in Trees
  BY DEF Full, Trees
<1> QED
  BY <1>1, NoneAssumption

LEMMA FileIs ==
  ASSUME IInv, NEW r \in Resolvers, pc[r] # "out"
  PROVE  File(r) \in Digests
  BY EntryIs DEF IInv, TypeInv, AloneInv, File

LEMMA SameRecipe ==
  ASSUME world' = world
  PROVE  /\ Entry' = Entry /\ Index' = Index /\ Count' = Count /\ Installed' = Installed
         /\ \A n : Full(Before(n))' = Full(Before(n))
  BY DEF Entry, Index, Files, Count, Installed, Full, Before

\* The forms of a file that is kept and of one that is written.
LEMMA DoneIs ==
  /\ Saved(None, "whole") \in Done /\ Saved(None, "wrong") \in Done /\ Done \subseteq Parts
  /\ \A r \in Resolvers : Saved(r, "cut") \in Parts /\ Saved(r, "cut").by = r
  /\ \A x \in Done : x.by = None /\ (x.has = "whole" => x = Saved(None, "whole"))
  /\ \A x \in Parts : x # None
  /\ Saved(None, "whole").has = "whole" /\ None \notin Resolvers
  BY NoneAssumption DEF Done, Parts, Saved, Bytes

\* curl ends the .part it began: no file that is kept is written to.
LEMMA ReceivedIs ==
  ASSUME IInv, NEW r \in Resolvers, Received(r)
  PROVE  /\ pc[r] = "fetching" /\ pc' = [pc EXCEPT ![r] = "hash"]
         /\ \E x \in Done : part' = [part EXCEPT ![File(r)] = x]
         /\ UNCHANGED <<world, kept, work, dest, stamp, beside, at, answer>>
<1>1. File(r) \in Digests /\ part[File(r)] = Saved(r, "cut")
  BY FileIs DEF Received, IInv, FileInv
<1>2. kept[File(r)] # None => kept[File(r)].by # r
  BY <1>1, DoneIs DEF IInv, TypeInv
<1>3. \A has : Written(kept, r, has) = kept
  BY <1>2 DEF Written, IInv, TypeInv
<1>4. \A has : Written(part, r, has) = [part EXCEPT ![File(r)] = Saved(None, has)]
  BY <1>1, DoneIs DEF Written
<1> QED
  BY <1>3, <1>4, DoneIs DEF Received, Goto

------------------------------------------------------------------------------
(* What the steps that branch do                                            *)

LEMMA BeginIs ==
  ASSUME NEW r \in Resolvers, Begin(r)
  PROVE  /\ pc[r] = "out" /\ (world.apart => \A q \in Resolvers : pc[q] = "out")
         /\ at' = [at EXCEPT ![r] = 1] /\ UNCHANGED <<world, kept, part, work, dest, stamp>>
         /\ \/ /\ pc' = [pc EXCEPT ![r] = "out"]
               /\ \E how \in Answers \ {"fetched"} : answer' = [answer EXCEPT ![r] = how]
            \/ Index # 0 /\ pc' = [pc EXCEPT ![r] = "stamp"] /\ answer' = answer
<1> USE DEF Answers
<1>1. CASE AnswerFromHost
  BY <1>1 DEF Begin, End, Goto, disk
<1>2. CASE ~AnswerFromHost /\ Index = 0
  BY <1>2 DEF Begin, End, Goto, disk
<1>3. CASE ~AnswerFromHost /\ Index # 0 /\ Entry.runtime = "host" /\ ~HostRuntimePresent
  BY <1>3 DEF Begin, End, Goto, disk
<1>4. CASE ~AnswerFromHost /\ Index # 0 /\ ~(Entry.runtime = "host" /\ ~HostRuntimePresent)
  BY <1>4 DEF Begin, End, Goto, disk
<1> QED
  BY <1>1, <1>2, <1>3, <1>4

LEMMA HashIs ==
  ASSUME NEW r \in Resolvers, Hash(r)
  PROVE  /\ pc[r] = "hash" /\ UNCHANGED <<world, kept, work, dest, stamp, at>>
         /\ \/ /\ part[File(r)] # None /\ part[File(r)].has = "whole"
               /\ pc' = [pc EXCEPT ![r] = "keep"] /\ UNCHANGED <<part, answer>>
            \/ /\ part' = [part EXCEPT ![File(r)] = None]
               /\ pc' = [pc EXCEPT ![r] = "out"] /\ answer' = [answer EXCEPT ![r] = "error"]
  BY DEF Hash, End, Goto

LEMMA KeepIs ==
  ASSUME NEW r \in Resolvers, Keep(r)
  PROVE  /\ pc[r] = "keep" /\ UNCHANGED <<world, work, dest, stamp, at>>
         /\ \/ /\ part[File(r)] = None /\ UNCHANGED <<kept, part>>
               /\ pc' = [pc EXCEPT ![r] = "out"] /\ answer' = [answer EXCEPT ![r] = "error"]
            \/ /\ part[File(r)] # None
               /\ kept' = [kept EXCEPT ![File(r)] = part[File(r)]]
               /\ part' = [part EXCEPT ![File(r)] = None]
               /\ pc' = [pc EXCEPT ![r] = "unpack"] /\ answer' = answer
  BY DEF Keep, End, Goto

LEMMA MoveIntoIs ==
  ASSUME NEW r \in Resolvers, MoveInto(r)
  PROVE  /\ pc[r] = "rename" /\ UNCHANGED <<world, kept, part, stamp, at>>
         /\ \/ /\ work # None /\ dest = None /\ dest' = work /\ work' = None
               /\ pc' = [pc EXCEPT ![r] = "record"] /\ answer' = answer
            \/ /\ UNCHANGED <<dest, work>>
               /\ pc' = [pc EXCEPT ![r] = "tidy"] /\ answer' = [answer EXCEPT ![r] = "error"]
  BY DEF MoveInto, Goto

LEMMA CopyRuntimeIs ==
  ASSUME NEW r \in Resolvers, CopyRuntime(r)
  PROVE  /\ pc[r] = "copy" /\ UNCHANGED <<world, kept, part, work, dest, stamp, at, answer>>
         /\ \E to \in {"copying", "out"} : pc' = [pc EXCEPT ![r] = to]
  BY DEF CopyRuntime, Goto

LEMMA RemoveOldIs ==
  ASSUME NEW r \in Resolvers, RemoveOld(r)
  PROVE  /\ pc[r] = "remove" /\ UNCHANGED <<world, kept, part, work, at, answer>>
         /\ ~stamp => ~stamp'
         /\ \/ dest' = None /\ pc' = [pc EXCEPT ![r] = "rename"]
            \/ pc' = pc
<1>1. CASE stamp' = stamp
  BY <1>1 DEF RemoveOld, Goto
<1>2. CASE stamp' = FALSE
  BY <1>2 DEF RemoveOld, Goto
<1> QED
  BY <1>1, <1>2 DEF RemoveOld

LEMMA RelocateIs ==
  ASSUME NEW r \in Resolvers, Relocate(r)
  PROVE  /\ pc[r] = "relocate" /\ UNCHANGED <<world, kept, part, work, dest, stamp, at>>
         /\ \/ pc' = [pc EXCEPT ![r] = "remove"] /\ answer' = answer
            \/ pc' = [pc EXCEPT ![r] = "tidy"] /\ answer' = [answer EXCEPT ![r] = "error"]
  BY DEF Relocate, Goto, disk

LEMMA UnpackIs ==
  ASSUME NEW r \in Resolvers, Unpack(r)
  PROVE  /\ pc[r] = "unpack" /\ UNCHANGED <<world, kept, part, dest, stamp, answer>>
         /\ work # None /\ kept[File(r)] # None
         /\ work' = [d \in DOMAIN work \cup {File(r)} |->
                      IF d = File(r) THEN kept[d].has ELSE work[d]]
         /\ at' = [at EXCEPT ![r] = IF @ < Count THEN @ + 1 ELSE @]
         /\ \/ at[r] < Count /\ pc' = [pc EXCEPT ![r] = "file"]
            \/ /\ ~(at[r] < Count)
               /\ \E to \in {"relocate", "remove"} : pc' = [pc EXCEPT ![r] = to]
<1>6. at' = [at EXCEPT ![r] = IF @ < Count THEN @ + 1 ELSE @]
  BY DEF Unpack, Count
<1>1. at[r] < Count => pc' = [pc EXCEPT ![r] = "file"]
  BY DEF Unpack, Goto, Count
<1>2. ~(at[r] < Count) /\ Entry.format = "bottle" => pc' = [pc EXCEPT ![r] = "relocate"]
  BY DEF Unpack, Goto, Count
<1>3. ~(at[r] < Count) /\ Entry.format # "bottle" => pc' = [pc EXCEPT ![r] = "remove"]
  BY DEF Unpack, Goto, Count
<1>4. /\ pc[r] = "unpack" /\ UNCHANGED <<world, kept, part, dest, stamp, answer>>
      /\ work # None /\ kept[File(r)] # None
  BY DEF Unpack, Unpacks
<1>5. work' = [d \in DOMAIN work \cup {File(r)} |->
               IF d = File(r) THEN kept[d].has ELSE work[d]]
  BY DEF Unpack
<1> QED
  BY <1>1, <1>2, <1>3, <1>4, <1>5, <1>6

------------------------------------------------------------------------------
(* Every step keeps it                                                      *)

\* Types.
LEMMA TypeStep ==
  ASSUME IInv, [Next]_vars
  PROVE  TypeInv'
<1> USE DEF IInv, TypeInv
<1>1. ASSUME NEW r \in Resolvers, Begin(r) PROVE TypeInv'
  <2>1. pc' \in [Resolvers -> Phases]
    BY <1>1, BeginIs DEF Phases
  <2>2. at' \in [Resolvers -> Nat]
    BY <1>1, BeginIs
  <2>3. answer' \in [Resolvers -> Answers \cup {None}]
    BY <1>1, BeginIs DEF Answers
  <2>4. kept' \in [Digests -> Done \cup {None}]
    BY <1>1, BeginIs, FileIs, DoneIs DEF FileInv
  <2>5. part' \in [Digests -> Parts \cup {None}]
    BY <1>1, BeginIs, DoneIs
  <2>6. world' = world
    BY <1>1, BeginIs
  <2> QED
    BY <2>1, <2>2, <2>3, <2>4, <2>5, <2>6
<1>2. ASSUME NEW r \in Resolvers, LookForStamp(r) PROVE TypeInv'
  BY <1>2, FileIs, DoneIs DEF LookForStamp, Goto, disk, Phases, Answers
<1>3. ASSUME NEW r \in Resolvers, ClearWork(r) PROVE TypeInv'
  BY <1>3, FileIs, DoneIs DEF ClearWork, Goto, Phases, Answers
<1>4. ASSUME NEW r \in Resolvers, MakeWork(r) PROVE TypeInv'
  BY <1>4, FileIs, DoneIs DEF MakeWork, Goto, Phases, Answers
<1>5. ASSUME NEW r \in Resolvers, Obtain(r) PROVE TypeInv'
  BY <1>5, FileIs, DoneIs DEF Obtain, Found, Goto, disk, Phases, Answers
<1>6. ASSUME NEW r \in Resolvers, Download(r) PROVE TypeInv'
  BY <1>6, FileIs, DoneIs DEF Download, Goto, Phases, Answers
<1>7. ASSUME NEW r \in Resolvers, Received(r) PROVE TypeInv'
  <2>1. pc' \in [Resolvers -> Phases]
    BY <1>7, ReceivedIs DEF Phases
  <2>2. at' \in [Resolvers -> Nat]
    BY <1>7, ReceivedIs
  <2>3. answer' \in [Resolvers -> Answers \cup {None}]
    BY <1>7, ReceivedIs DEF Answers
  <2>4. kept' \in [Digests -> Done \cup {None}]
    BY <1>7, ReceivedIs, FileIs, DoneIs DEF FileInv
  <2>5. part' \in [Digests -> Parts \cup {None}]
    BY <1>7, ReceivedIs, DoneIs
  <2>6. world' = world
    BY <1>7, ReceivedIs
  <2> QED
    BY <2>1, <2>2, <2>3, <2>4, <2>5, <2>6
<1>8. ASSUME NEW r \in Resolvers, Failed(r) PROVE TypeInv'
  BY <1>8, FileIs, DoneIs DEF Failed, End, Goto, disk, Fault, Phases, Answers
<1>9. ASSUME NEW r \in Resolvers, Hash(r) PROVE TypeInv'
  <2>1. pc' \in [Resolvers -> Phases]
    BY <1>9, HashIs DEF Phases
  <2>2. at' \in [Resolvers -> Nat]
    BY <1>9, HashIs
  <2>3. answer' \in [Resolvers -> Answers \cup {None}]
    BY <1>9, HashIs DEF Answers
  <2>4. kept' \in [Digests -> Done \cup {None}]
    BY <1>9, HashIs, FileIs, DoneIs DEF FileInv
  <2>5. part' \in [Digests -> Parts \cup {None}]
    BY <1>9, HashIs, DoneIs
  <2>6. world' = world
    BY <1>9, HashIs
  <2> QED
    BY <2>1, <2>2, <2>3, <2>4, <2>5, <2>6
<1>10. ASSUME NEW r \in Resolvers, Keep(r) PROVE TypeInv'
  <2>1. pc' \in [Resolvers -> Phases]
    BY <1>10, KeepIs DEF Phases
  <2>2. at' \in [Resolvers -> Nat]
    BY <1>10, KeepIs
  <2>3. answer' \in [Resolvers -> Answers \cup {None}]
    BY <1>10, KeepIs DEF Answers
  <2>4. kept' \in [Digests -> Done \cup {None}]
    BY <1>10, KeepIs, FileIs, DoneIs DEF FileInv
  <2>5. part' \in [Digests -> Parts \cup {None}]
    BY <1>10, KeepIs, DoneIs
  <2>6. world' = world
    BY <1>10, KeepIs
  <2> QED
    BY <2>1, <2>2, <2>3, <2>4, <2>5, <2>6
<1>11. ASSUME NEW r \in Resolvers, Unpack(r) PROVE TypeInv'
  <2>0. /\ pc[r] = "unpack" /\ UNCHANGED <<world, kept, part, dest, stamp, answer>>
        /\ work # None /\ kept[File(r)] # None
        /\ work' = [d \in DOMAIN work \cup {File(r)} |->
                     IF d = File(r) THEN kept[d].has ELSE work[d]]
        /\ at' = [at EXCEPT ![r] = IF @ < Count THEN @ + 1 ELSE @]
        /\ \/ at[r] < Count /\ pc' = [pc EXCEPT ![r] = "file"]
           \/ /\ ~(at[r] < Count)
              /\ \E to \in {"relocate", "remove"} : pc' = [pc EXCEPT ![r] = to]
    BY <1>11, UnpackIs
  <2>1. pc' \in [Resolvers -> Phases]
    BY <2>0 DEF Phases
  <2>2. at' \in [Resolvers -> Nat]
    BY <2>0
  <2>3. answer' \in [Resolvers -> Answers \cup {None}]
    BY <2>0 DEF Answers
  <2>4. kept' \in [Digests -> Done \cup {None}]
    BY <2>0, FileIs, DoneIs DEF FileInv
  <2>5. part' \in [Digests -> Parts \cup {None}]
    BY <2>0, DoneIs
  <2>6. world' = world
    BY <2>0
  <2> QED
    BY <2>1, <2>2, <2>3, <2>4, <2>5, <2>6
<1>12. ASSUME NEW r \in Resolvers, UnpackFails(r) PROVE TypeInv'
  BY <1>12, FileIs, DoneIs DEF UnpackFails, Goto, Fault, Unpacks, Phases, Answers
<1>13. ASSUME NEW r \in Resolvers, Relocate(r) PROVE TypeInv'
  <2>1. pc' \in [Resolvers -> Phases]
    BY <1>13, RelocateIs DEF Phases
  <2>2. at' \in [Resolvers -> Nat]
    BY <1>13, RelocateIs
  <2>3. answer' \in [Resolvers -> Answers \cup {None}]
    BY <1>13, RelocateIs DEF Answers
  <2>4. kept' \in [Digests -> Done \cup {None}]
    BY <1>13, RelocateIs, FileIs, DoneIs DEF FileInv
  <2>5. part' \in [Digests -> Parts \cup {None}]
    BY <1>13, RelocateIs, DoneIs
  <2>6. world' = world
    BY <1>13, RelocateIs
  <2> QED
    BY <2>1, <2>2, <2>3, <2>4, <2>5, <2>6
<1>14. ASSUME NEW r \in Resolvers, RemoveOld(r) PROVE TypeInv'
  <2>1. pc' \in [Resolvers -> Phases]
    BY <1>14, RemoveOldIs DEF Phases
  <2>2. at' \in [Resolvers -> Nat]
    BY <1>14, RemoveOldIs
  <2>3. answer' \in [Resolvers -> Answers \cup {None}]
    BY <1>14, RemoveOldIs DEF Answers
  <2>4. kept' \in [Digests -> Done \cup {None}]
    BY <1>14, RemoveOldIs, FileIs, DoneIs DEF FileInv
  <2>5. part' \in [Digests -> Parts \cup {None}]
    BY <1>14, RemoveOldIs, DoneIs
  <2>6. world' = world
    BY <1>14, RemoveOldIs
  <2> QED
    BY <2>1, <2>2, <2>3, <2>4, <2>5, <2>6
<1>15. ASSUME NEW r \in Resolvers, MoveInto(r) PROVE TypeInv'
  <2>1. pc' \in [Resolvers -> Phases]
    BY <1>15, MoveIntoIs DEF Phases
  <2>2. at' \in [Resolvers -> Nat]
    BY <1>15, MoveIntoIs
  <2>3. answer' \in [Resolvers -> Answers \cup {None}]
    BY <1>15, MoveIntoIs DEF Answers
  <2>4. kept' \in [Digests -> Done \cup {None}]
    BY <1>15, MoveIntoIs, FileIs, DoneIs DEF FileInv
  <2>5. part' \in [Digests -> Parts \cup {None}]
    BY <1>15, MoveIntoIs, DoneIs
  <2>6. world' = world
    BY <1>15, MoveIntoIs
  <2> QED
    BY <2>1, <2>2, <2>3, <2>4, <2>5, <2>6
<1>16. ASSUME NEW r \in Resolvers, Record(r) PROVE TypeInv'
  BY <1>16, FileIs, DoneIs DEF Record, Goto, Phases, Answers
<1>17. ASSUME NEW r \in Resolvers, Tidy(r) PROVE TypeInv'
  BY <1>17, FileIs, DoneIs DEF Tidy, Goto, Phases, Answers
<1>18. ASSUME NEW r \in Resolvers, PointLinks(r) PROVE TypeInv'
  <2>1. UNCHANGED <<world, kept, part, at, answer>>
    BY <1>18 DEF PointLinks
  <2>2. pc' = pc \/ \E to \in Phases : pc' = [pc EXCEPT ![r] = to]
    BY <1>18 DEF PointLinks, Goto, Phases
  <2>3. pc' \in [Resolvers -> Phases]
    BY <2>2
  <2> QED
    BY <2>1, <2>3
<1>23. ASSUME NEW r \in Resolvers, RemoveLink(r) PROVE TypeInv'
  <2>1. UNCHANGED <<world, kept, part, at, answer>>
    BY <1>23 DEF RemoveLink
  <2>2. pc' = pc \/ \E to \in Phases : pc' = [pc EXCEPT ![r] = to]
    BY <1>23 DEF RemoveLink, Goto, Phases
  <2>3. pc' \in [Resolvers -> Phases]
    BY <2>2
  <2> QED
    BY <2>1, <2>3
<1>24. ASSUME NEW r \in Resolvers, MakeLink(r) PROVE TypeInv'
  <2>1. UNCHANGED <<world, kept, part, at, answer>>
    BY <1>24 DEF MakeLink
  <2>2. pc' = pc \/ \E to \in Phases : pc' = [pc EXCEPT ![r] = to]
    BY <1>24 DEF MakeLink, Goto, Phases
  <2>3. pc' \in [Resolvers -> Phases]
    BY <2>2
  <2> QED
    BY <2>1, <2>3
<1>25. ASSUME NEW r \in Resolvers, LinkFails(r) PROVE TypeInv'
  <2>1. UNCHANGED <<world, kept, part, at>>
    BY <1>25 DEF LinkFails
  <2>2. \E to \in Phases, how \in Answers :
          pc' = [pc EXCEPT ![r] = to] /\ answer' = [answer EXCEPT ![r] = how]
    BY <1>25 DEF LinkFails, Goto, End, Phases, Answers
  <2>3. pc' \in [Resolvers -> Phases] /\ answer' \in [Resolvers -> Answers \cup {None}]
    BY <2>2
  <2> QED
    BY <2>1, <2>3
<1>26. ASSUME NEW r \in Resolvers, Fetched(r) PROVE TypeInv'
  <2>1. UNCHANGED <<world, kept, part, at>>
    BY <1>26 DEF Fetched, disk
  <2>2. \E to \in Phases, how \in Answers :
          pc' = [pc EXCEPT ![r] = to] /\ answer' = [answer EXCEPT ![r] = how]
    BY <1>26 DEF Fetched, Goto, Phases, Answers
  <2>3. pc' \in [Resolvers -> Phases] /\ answer' \in [Resolvers -> Answers \cup {None}]
    BY <2>2
  <2> QED
    BY <2>1, <2>3
<1>19. ASSUME NEW r \in Resolvers, CopyRuntime(r) PROVE TypeInv'
  <2>1. pc' \in [Resolvers -> Phases]
    BY <1>19, CopyRuntimeIs DEF Phases
  <2>2. at' \in [Resolvers -> Nat]
    BY <1>19, CopyRuntimeIs
  <2>3. answer' \in [Resolvers -> Answers \cup {None}]
    BY <1>19, CopyRuntimeIs DEF Answers
  <2>4. kept' \in [Digests -> Done \cup {None}]
    BY <1>19, CopyRuntimeIs, FileIs, DoneIs DEF FileInv
  <2>5. part' \in [Digests -> Parts \cup {None}]
    BY <1>19, CopyRuntimeIs, DoneIs
  <2>6. world' = world
    BY <1>19, CopyRuntimeIs
  <2> QED
    BY <2>1, <2>2, <2>3, <2>4, <2>5, <2>6
<1>20. ASSUME NEW r \in Resolvers, Copied(r) PROVE TypeInv'
  BY <1>20, FileIs, DoneIs DEF Copied, Goto, Phases, Answers
<1>21. ASSUME NEW r \in Resolvers, Crash(r) PROVE TypeInv'
  BY <1>21, FileIs, DoneIs DEF Crash, End, Goto, disk, Fault, Phases, Answers
<1>22. CASE UNCHANGED <<world, faults, kept, part, work, dest, stamp, beside, pc, at, answer>>
  BY <1>22, FileIs, DoneIs
<1> HIDE DEF IInv, TypeInv
<1> QED
  BY <1>1, <1>2, <1>3, <1>4, <1>5, <1>6, <1>7, <1>8, <1>9, <1>10, <1>11, <1>12, <1>13, <1>14,
     <1>15, <1>16, <1>17, <1>18, <1>19, <1>20, <1>21, <1>22,
     <1>23, <1>24, <1>25, <1>26 DEF Next, Step, vars, disk

\* The recipe of a run is fixed.
LEMMA WorldStays ==
  ASSUME [Next]_vars
  PROVE  world' = world
  BY DEF Next, Step, Begin, LookForStamp, ClearWork, MakeWork, Obtain, Download, Received,
      Failed, Hash, Keep, Unpack, UnpackFails, Relocate, RemoveOld, MoveInto, Record, Tidy,
      PointLinks, RemoveLink, MakeLink, LinkFails, Fetched, CopyRuntime, Copied, Crash, vars, disk

\* One resolution at a time, at a file of its platform.
LEMMA AloneStep ==
  ASSUME IInv, [Next]_vars
  PROVE  AloneInv'
<1> USE DEF IInv, TypeInv, AloneInv
<1>e. /\ Entry' = Entry /\ Index' = Index /\ Count' = Count /\ Installed' = Installed
      /\ \A n : Full(Before(n))' = Full(Before(n))
  BY WorldStays, SameRecipe
<1>1. ASSUME NEW r \in Resolvers, Begin(r) PROVE AloneInv'
  <2>0. /\ pc[r] = "out" /\ (world.apart => \A q \in Resolvers : pc[q] = "out")
        /\ at' = [at EXCEPT ![r] = 1] /\ UNCHANGED <<world, kept, part, work, dest, stamp>>
        /\ \/ /\ pc' = [pc EXCEPT ![r] = "out"]
              /\ \E how \in Answers \ {"fetched"} : answer' = [answer EXCEPT ![r] = how]
           \/ Index # 0 /\ pc' = [pc EXCEPT ![r] = "stamp"] /\ answer' = answer
    BY <1>1, BeginIs
  <2>1. \A q \in Resolvers : q # r => pc[q] = "out" /\ pc'[q] = "out"
    BY <2>0
  <2>2. pc'[r] # "out" => Index # 0
    BY <2>0
  <2>3. Index # 0 => 1 \in 1 .. Count
    BY EntryIs
  <2>4. at'[r] = 1
    BY <2>0
  <2> QED
    BY <2>1, <2>2, <2>3, <2>4, <1>e
<1>2. ASSUME NEW r \in Resolvers, LookForStamp(r) PROVE AloneInv'
  BY <1>2, <1>e, EntryIs DEF LookForStamp, Goto, disk
<1>3. ASSUME NEW r \in Resolvers, ClearWork(r) PROVE AloneInv'
  BY <1>3, <1>e, EntryIs DEF ClearWork, Goto
<1>4. ASSUME NEW r \in Resolvers, MakeWork(r) PROVE AloneInv'
  BY <1>4, <1>e, EntryIs DEF MakeWork, Goto
<1>5. ASSUME NEW r \in Resolvers, Obtain(r) PROVE AloneInv'
  BY <1>5, <1>e, EntryIs DEF Obtain, Found, Goto, disk
<1>6. ASSUME NEW r \in Resolvers, Download(r) PROVE AloneInv'
  BY <1>6, <1>e, EntryIs DEF Download, Goto
<1>7. ASSUME NEW r \in Resolvers, Received(r) PROVE AloneInv'
  <2>1. \A q \in Resolvers : q # r => pc[q] = "out" /\ pc'[q] = "out"
    BY <1>7, ReceivedIs
  <2>2. Index # 0 /\ (pc'[r] # "out" => at'[r] \in 1 .. Count)
    BY <1>7, ReceivedIs, EntryIs
  <2> QED
    BY <2>1, <2>2, <1>e
<1>8. ASSUME NEW r \in Resolvers, Failed(r) PROVE AloneInv'
  BY <1>8, <1>e, EntryIs DEF Failed, End, Goto, disk, Fault
<1>9. ASSUME NEW r \in Resolvers, Hash(r) PROVE AloneInv'
  <2>1. \A q \in Resolvers : q # r => pc[q] = "out" /\ pc'[q] = "out"
    BY <1>9, HashIs
  <2>2. Index # 0 /\ (pc'[r] # "out" => at'[r] \in 1 .. Count)
    BY <1>9, HashIs, EntryIs
  <2> QED
    BY <2>1, <2>2, <1>e
<1>10. ASSUME NEW r \in Resolvers, Keep(r) PROVE AloneInv'
  <2>1. \A q \in Resolvers : q # r => pc[q] = "out" /\ pc'[q] = "out"
    BY <1>10, KeepIs
  <2>2. Index # 0 /\ (pc'[r] # "out" => at'[r] \in 1 .. Count)
    BY <1>10, KeepIs, EntryIs
  <2> QED
    BY <2>1, <2>2, <1>e
<1>11. ASSUME NEW r \in Resolvers, Unpack(r) PROVE AloneInv'
  <2>0. /\ pc[r] = "unpack" /\ UNCHANGED <<world, kept, part, dest, stamp, answer>>
        /\ work # None /\ kept[File(r)] # None
        /\ work' = [d \in DOMAIN work \cup {File(r)} |->
                     IF d = File(r) THEN kept[d].has ELSE work[d]]
        /\ at' = [at EXCEPT ![r] = IF @ < Count THEN @ + 1 ELSE @]
        /\ \/ at[r] < Count /\ pc' = [pc EXCEPT ![r] = "file"]
           \/ /\ ~(at[r] < Count)
              /\ \E to \in {"relocate", "remove"} : pc' = [pc EXCEPT ![r] = to]
    BY <1>11, UnpackIs
  <2>1. \A q \in Resolvers : q # r => pc[q] = "out" /\ pc'[q] = "out"
    BY <2>0
  <2>2. Index # 0 /\ (pc'[r] # "out" => at'[r] \in 1 .. Count)
    BY <2>0, EntryIs
  <2> QED
    BY <2>1, <2>2, <1>e
<1>12. ASSUME NEW r \in Resolvers, UnpackFails(r) PROVE AloneInv'
  BY <1>12, <1>e, EntryIs DEF UnpackFails, Goto, Fault, Unpacks
<1>13. ASSUME NEW r \in Resolvers, Relocate(r) PROVE AloneInv'
  <2>1. \A q \in Resolvers : q # r => pc[q] = "out" /\ pc'[q] = "out"
    BY <1>13, RelocateIs
  <2>2. Index # 0 /\ (pc'[r] # "out" => at'[r] \in 1 .. Count)
    BY <1>13, RelocateIs, EntryIs
  <2> QED
    BY <2>1, <2>2, <1>e
<1>14. ASSUME NEW r \in Resolvers, RemoveOld(r) PROVE AloneInv'
  <2>1. \A q \in Resolvers : q # r => pc[q] = "out" /\ pc'[q] = "out"
    BY <1>14, RemoveOldIs
  <2>2. Index # 0 /\ (pc'[r] # "out" => at'[r] \in 1 .. Count)
    BY <1>14, RemoveOldIs, EntryIs
  <2> QED
    BY <2>1, <2>2, <1>e
<1>15. ASSUME NEW r \in Resolvers, MoveInto(r) PROVE AloneInv'
  <2>1. \A q \in Resolvers : q # r => pc[q] = "out" /\ pc'[q] = "out"
    BY <1>15, MoveIntoIs
  <2>2. Index # 0 /\ (pc'[r] # "out" => at'[r] \in 1 .. Count)
    BY <1>15, MoveIntoIs, EntryIs
  <2> QED
    BY <2>1, <2>2, <1>e
<1>16. ASSUME NEW r \in Resolvers, Record(r) PROVE AloneInv'
  BY <1>16, <1>e, EntryIs DEF Record, Goto
<1>17. ASSUME NEW r \in Resolvers, Tidy(r) PROVE AloneInv'
  BY <1>17, <1>e, EntryIs DEF Tidy, Goto
<1>18. ASSUME NEW r \in Resolvers, PointLinks(r) PROVE AloneInv'
  BY <1>18, <1>e, EntryIs DEF PointLinks, Goto
<1>23. ASSUME NEW r \in Resolvers, RemoveLink(r) PROVE AloneInv'
  BY <1>23, <1>e, EntryIs DEF RemoveLink, Goto
<1>24. ASSUME NEW r \in Resolvers, MakeLink(r) PROVE AloneInv'
  BY <1>24, <1>e, EntryIs DEF MakeLink, Goto
<1>25. ASSUME NEW r \in Resolvers, LinkFails(r) PROVE AloneInv'
  BY <1>25, <1>e, EntryIs DEF LinkFails, Goto, End
<1>26. ASSUME NEW r \in Resolvers, Fetched(r) PROVE AloneInv'
  BY <1>26, <1>e, EntryIs DEF Fetched, Goto, disk
<1>19. ASSUME NEW r \in Resolvers, CopyRuntime(r) PROVE AloneInv'
  <2>1. \A q \in Resolvers : q # r => pc[q] = "out" /\ pc'[q] = "out"
    BY <1>19, CopyRuntimeIs
  <2>2. Index # 0 /\ (pc'[r] # "out" => at'[r] \in 1 .. Count)
    BY <1>19, CopyRuntimeIs, EntryIs
  <2> QED
    BY <2>1, <2>2, <1>e
<1>20. ASSUME NEW r \in Resolvers, Copied(r) PROVE AloneInv'
  BY <1>20, <1>e, EntryIs DEF Copied, Goto
<1>21. ASSUME NEW r \in Resolvers, Crash(r) PROVE AloneInv'
  BY <1>21, <1>e, EntryIs DEF Crash, End, Goto, disk, Fault
<1>22. CASE UNCHANGED <<world, faults, kept, part, work, dest, stamp, beside, pc, at, answer>>
  BY <1>22, <1>e, EntryIs
<1> HIDE DEF IInv, TypeInv, AloneInv
<1> QED
  BY <1>1, <1>2, <1>3, <1>4, <1>5, <1>6, <1>7, <1>8, <1>9, <1>10, <1>11, <1>12, <1>13, <1>14,
     <1>15, <1>16, <1>17, <1>18, <1>19, <1>20, <1>21, <1>22,
     <1>23, <1>24, <1>25, <1>26 DEF Next, Step, vars, disk

\* What has been unpacked is whole.
LEMMA FileStep ==
  ASSUME IInv, [Next]_vars
  PROVE  FileInv'
<1> USE DEF IInv, TypeInv, AloneInv, FileInv, File
<1>e. /\ Entry' = Entry /\ Index' = Index /\ Count' = Count /\ Installed' = Installed
      /\ \A n : Full(Before(n))' = Full(Before(n))
  BY WorldStays, SameRecipe
<1>1. ASSUME NEW r \in Resolvers, Begin(r) PROVE FileInv'
  BY <1>1, <1>e, BeginIs
<1>2. ASSUME NEW r \in Resolvers, LookForStamp(r) PROVE FileInv'
  BY <1>2, <1>e DEF LookForStamp, Goto, disk
<1>3. ASSUME NEW r \in Resolvers, ClearWork(r) PROVE FileInv'
  BY <1>3, <1>e DEF ClearWork, Goto
<1>4. ASSUME NEW r \in Resolvers, MakeWork(r) PROVE FileInv'
  <2>1. at[r] = 1 /\ work = None /\ Index # 0 /\ 1 \in 1 .. Count
    BY <1>4, EntryIs DEF MakeWork
  <2>2. work' = Full(Before(1)) /\ pc' = [pc EXCEPT ![r] = "file"]
    BY <1>4, <2>1, BeforeIs DEF MakeWork, Full, Goto
  <2>3. UNCHANGED <<world, at, part, kept>> /\ pc[r] = "make"
    BY <1>4 DEF MakeWork
  <2> QED
    BY <2>1, <2>2, <2>3, <1>e
<1>5. ASSUME NEW r \in Resolvers, Obtain(r) PROVE FileInv'
  <2>1. File(r) \in Digests /\ pc[r] = "file" /\ UNCHANGED <<world, kept, part, work, at>>
    BY <1>5, FileIs DEF Obtain, disk
  <2>2. (pc' = [pc EXCEPT ![r] = "unpack"] /\ Found(r)) \/ pc' = [pc EXCEPT ![r] = "fetch"]
    BY <1>5 DEF Obtain, Goto
  <2>3. Found(r) => kept[File(r)] = Saved(None, "whole")
    BY <2>1, DoneIs DEF Found
  <2> QED
    BY <2>1, <2>2, <2>3, <1>e
<1>6. ASSUME NEW r \in Resolvers, Download(r) PROVE FileInv'
  <2>1. part' = [part EXCEPT ![File(r)] = Saved(r, "cut")] /\ File(r) \in Digests
    BY <1>6, FileIs DEF Download
  <2>2. pc' = [pc EXCEPT ![r] = "fetching"] /\ pc[r] = "fetch" /\ UNCHANGED <<world, at, work, kept>>
    BY <1>6 DEF Download, Goto
  <2> QED
    BY <2>1, <2>2, <1>e
<1>7. ASSUME NEW r \in Resolvers, Received(r) PROVE FileInv'
  <2>1. PICK x \in Done : part' = [part EXCEPT ![File(r)] = x]
    BY <1>7, ReceivedIs
  <2>2. /\ pc[r] = "fetching" /\ pc' = [pc EXCEPT ![r] = "hash"]
        /\ UNCHANGED <<world, work, kept, at>>
    BY <1>7, ReceivedIs
  <2>3. File(r) \in Digests
    BY <2>2, FileIs
  <2> QED
    BY <2>1, <2>2, <2>3, <1>e
<1>8. ASSUME NEW r \in Resolvers, Failed(r) PROVE FileInv'
  BY <1>8, <1>e DEF Failed, End, Goto, disk, Fault
<1>9. ASSUME NEW r \in Resolvers, Hash(r) PROVE FileInv'
  <2>1. File(r) \in Digests /\ part[File(r)] \in Done /\ part[File(r)] # None /\ pc[r] = "hash"
        /\ UNCHANGED <<world, work, kept, at>>
    BY <1>9, FileIs, DoneIs DEF Hash
  <2>2. CASE part[File(r)].has = "whole"
    <3>1. part[File(r)] = Saved(None, "whole") /\ UNCHANGED part /\ pc' = [pc EXCEPT ![r] = "keep"]
      BY <1>9, <2>1, <2>2, DoneIs DEF Hash, Goto
    <3> QED
      BY <2>1, <3>1, <1>e
  <2>3. CASE part[File(r)].has # "whole"
    <3>1. pc' = [pc EXCEPT ![r] = "out"]
      BY <1>9, <2>1, <2>3 DEF Hash, Goto, End
    <3> QED
      BY <2>1, <3>1, <1>e
  <2> QED
    BY <2>2, <2>3
<1>10. ASSUME NEW r \in Resolvers, Keep(r) PROVE FileInv'
  <2>1. /\ File(r) \in Digests /\ part[File(r)] = Saved(None, "whole") /\ pc[r] = "keep"
        /\ part[File(r)] # None /\ UNCHANGED <<world, work, at>>
    BY <1>10, FileIs, DoneIs DEF Keep
  <2>2. kept' = [kept EXCEPT ![File(r)] = Saved(None, "whole")] /\ pc' = [pc EXCEPT ![r] = "unpack"]
    BY <1>10, <2>1 DEF Keep, Goto
  <2> QED
    BY <2>1, <2>2, <1>e
<1>11. ASSUME NEW r \in Resolvers, Unpack(r) PROVE FileInv'
  <2>1. /\ pc[r] = "unpack" /\ kept[File(r)] = Saved(None, "whole") /\ at[r] \in 1 .. Count
        /\ work = Full(Before(at[r])) /\ Index # 0 /\ UNCHANGED <<world, kept, part>>
    BY <1>11 DEF Unpack
  <2>2. work' = Full(Before(at[r]) \cup {File(r)})
    BY <1>11, <2>1, DoneIs DEF Unpack, Full
  <2>3. /\ Before(at[r] + 1) = Before(at[r]) \cup {File(r)}
        /\ at[r] = Count => Before(at[r] + 1) = Files
    BY <2>1, BeforeIs
  <2>4. work' = Full(Before(at[r] + 1)) /\ (at[r] = Count => work' = Installed)
    BY <2>2, <2>3 DEF Installed
  <2>5. CASE at[r] < Count
    <3>1. at' = [at EXCEPT ![r] = at[r] + 1] /\ pc' = [pc EXCEPT ![r] = "file"]
      BY <1>11, <2>5, UnpackIs
    <3> QED
      BY <2>1, <2>4, <3>1, <1>e
  <2>6. CASE ~(at[r] < Count)
    <3>1. at[r] = Count
      BY <2>1, <2>6, EntryIs
    <3>2. pc' = [pc EXCEPT ![r] = "relocate"] \/ pc' = [pc EXCEPT ![r] = "remove"]
      BY <1>11, <2>6, UnpackIs
    <3> QED
      BY <2>1, <2>4, <3>1, <3>2, <1>e
  <2> QED
    BY <2>5, <2>6
<1>12. ASSUME NEW r \in Resolvers, UnpackFails(r) PROVE FileInv'
  BY <1>12, <1>e DEF UnpackFails, Goto, Fault, Unpacks
<1>13. ASSUME NEW r \in Resolvers, Relocate(r) PROVE FileInv'
  BY <1>13, <1>e, RelocateIs
<1>14. ASSUME NEW r \in Resolvers, RemoveOld(r) PROVE FileInv'
  BY <1>14, <1>e, RemoveOldIs
<1>15. ASSUME NEW r \in Resolvers, MoveInto(r) PROVE FileInv'
  BY <1>15, <1>e, MoveIntoIs
<1>16. ASSUME NEW r \in Resolvers, Record(r) PROVE FileInv'
  BY <1>16, <1>e DEF Record, Goto
<1>17. ASSUME NEW r \in Resolvers, Tidy(r) PROVE FileInv'
  BY <1>17, <1>e DEF Tidy, Goto
<1>18. ASSUME NEW r \in Resolvers, PointLinks(r) PROVE FileInv'
  BY <1>18, <1>e DEF PointLinks, Goto
<1>23. ASSUME NEW r \in Resolvers, RemoveLink(r) PROVE FileInv'
  BY <1>23, <1>e DEF RemoveLink, Goto
<1>24. ASSUME NEW r \in Resolvers, MakeLink(r) PROVE FileInv'
  BY <1>24, <1>e DEF MakeLink, Goto
<1>25. ASSUME NEW r \in Resolvers, LinkFails(r) PROVE FileInv'
  BY <1>25, <1>e DEF LinkFails, Goto, End
<1>26. ASSUME NEW r \in Resolvers, Fetched(r) PROVE FileInv'
  BY <1>26, <1>e DEF Fetched, Goto, disk
<1>19. ASSUME NEW r \in Resolvers, CopyRuntime(r) PROVE FileInv'
  BY <1>19, <1>e, CopyRuntimeIs
<1>20. ASSUME NEW r \in Resolvers, Copied(r) PROVE FileInv'
  BY <1>20, <1>e DEF Copied, Goto
<1>21. ASSUME NEW r \in Resolvers, Crash(r) PROVE FileInv'
  BY <1>21, <1>e DEF Crash, End, Goto, disk, Fault
<1>22. CASE UNCHANGED <<world, faults, kept, part, work, dest, stamp, beside, pc, at, answer>>
  BY <1>22, <1>e
<1> HIDE DEF IInv, TypeInv, AloneInv, FileInv, File
<1> QED
  BY <1>1, <1>2, <1>3, <1>4, <1>5, <1>6, <1>7, <1>8, <1>9, <1>10, <1>11, <1>12, <1>13, <1>14,
     <1>15, <1>16, <1>17, <1>18, <1>19, <1>20, <1>21, <1>22,
     <1>23, <1>24, <1>25, <1>26 DEF Next, Step, vars, disk

\* And so is what gets a stamp.
LEMMA StampStep ==
  ASSUME IInv, [Next]_vars
  PROVE  StampInv'
<1>e. /\ Entry' = Entry /\ Index' = Index /\ Count' = Count /\ Installed' = Installed
      /\ \A n : Full(Before(n))' = Full(Before(n))
  BY WorldStays, SameRecipe
<1>t. /\ world \in Worlds /\ world.apart
      /\ pc \in [Resolvers -> Phases] /\ answer \in [Resolvers -> Answers \cup {None}]
      /\ \A r, q \in Resolvers : pc[r] # "out" /\ pc[q] # "out" => r = q
      /\ \A r \in Resolvers : pc[r] # "out" => Index # 0
      /\ \A r \in Resolvers : pc[r] = "rename" => work = Installed
  BY DEF IInv, TypeInv, AloneInv, FileInv
<1>s. StampInv
  BY DEF IInv
<1> USE DEF StampInv, Unstamped, Linking
<1>1. ASSUME NEW r \in Resolvers, Begin(r) PROVE StampInv'
  <2>0. /\ pc[r] = "out" /\ (world.apart => \A q \in Resolvers : pc[q] = "out")
        /\ at' = [at EXCEPT ![r] = 1] /\ UNCHANGED <<world, kept, part, work, dest, stamp>>
        /\ \/ /\ pc' = [pc EXCEPT ![r] = "out"]
              /\ \E how \in Answers \ {"fetched"} : answer' = [answer EXCEPT ![r] = how]
           \/ Index # 0 /\ pc' = [pc EXCEPT ![r] = "stamp"] /\ answer' = answer
    BY <1>1, BeginIs
  <2>1. \A q \in Resolvers : q # r => pc[q] = "out" /\ pc'[q] = "out"
    BY <2>0, <1>t, <1>s
  <2>2. UNCHANGED <<stamp, dest>>
    BY <2>0, <1>t, <1>s
  <2>3. pc'[r] \in {"out", "stamp"}
    BY <2>0, <1>t, <1>s
  <2>4. \A q \in Resolvers :
          answer'[q] = "fetched" => stamp'
    <3>1. \A q \in Resolvers : answer'[q] = "fetched" => answer[q] = "fetched"
      BY <2>0, <1>t
    <3>2. UNCHANGED <<stamp>>
      BY <2>0, <1>t, <1>s
    <3> QED
      BY <3>1, <3>2, <1>e, <1>s
  <2> QED
    BY <2>1, <2>2, <2>3, <2>4, <1>e, <1>t, <1>s
<1>2. ASSUME NEW r \in Resolvers, LookForStamp(r) PROVE StampInv'
  BY <1>2, <1>e, <1>t, <1>s, NoneAssumption DEF LookForStamp, Goto, disk
<1>3. ASSUME NEW r \in Resolvers, ClearWork(r) PROVE StampInv'
  BY <1>3, <1>e, <1>t, <1>s, NoneAssumption DEF ClearWork, Goto
<1>4. ASSUME NEW r \in Resolvers, MakeWork(r) PROVE StampInv'
  BY <1>4, <1>e, <1>t, <1>s, NoneAssumption DEF MakeWork, Goto
<1>5. ASSUME NEW r \in Resolvers, Obtain(r) PROVE StampInv'
  BY <1>5, <1>e, <1>t, <1>s, NoneAssumption DEF Obtain, Found, Goto, disk
<1>6. ASSUME NEW r \in Resolvers, Download(r) PROVE StampInv'
  BY <1>6, <1>e, <1>t, <1>s, NoneAssumption DEF Download, Goto
<1>7. ASSUME NEW r \in Resolvers, Received(r) PROVE StampInv'
  <2>1. /\ pc[r] = "fetching" /\ pc' = [pc EXCEPT ![r] = "hash"]
        /\ UNCHANGED <<world, work, dest, stamp, at, answer>>
    BY <1>7, ReceivedIs
  <2> QED
    BY <2>1, <1>e, <1>t, <1>s
<1>8. ASSUME NEW r \in Resolvers, Failed(r) PROVE StampInv'
  BY <1>8, <1>e, <1>t, <1>s, NoneAssumption DEF Failed, End, Goto, disk, Fault
<1>9. ASSUME NEW r \in Resolvers, Hash(r) PROVE StampInv'
  <2>0. /\ pc[r] = "hash" /\ UNCHANGED <<world, kept, work, dest, stamp, at>>
        /\ \/ /\ part[File(r)] # None /\ part[File(r)].has = "whole"
              /\ pc' = [pc EXCEPT ![r] = "keep"] /\ UNCHANGED <<part, answer>>
           \/ /\ part' = [part EXCEPT ![File(r)] = None]
              /\ pc' = [pc EXCEPT ![r] = "out"] /\ answer' = [answer EXCEPT ![r] = "error"]
    BY <1>9, HashIs
  <2>1. \A q \in Resolvers : q # r => pc[q] = "out" /\ pc'[q] = "out"
    <3>1. pc[r] # "out" /\ \A q \in Resolvers : q # r => pc'[q] = pc[q]
      BY <2>0, <1>t
    <3> QED
      BY <3>1, <1>t
  <2>2. ~stamp /\ ~stamp'
    BY <2>0, <1>s
  <2>3. \A q \in Resolvers : answer[q] # "fetched" /\ answer'[q] # "fetched"
    <3>1. \A q \in Resolvers : answer'[q] \in {answer[q], "error"}
      BY <2>0, <1>t
    <3>2. \A q \in Resolvers : answer[q] # "fetched"
      BY <2>2, <1>s
    <3> QED
      BY <3>1, <3>2
  <2>4. pc'[r] \in {"keep", "out"}
    <3>1. pc' = [pc EXCEPT ![r] = "keep"] \/ pc' = [pc EXCEPT ![r] = "out"]
      BY <2>0
    <3> QED
      BY <3>1, <1>t
  <2> QED
    BY <2>1, <2>2, <2>3, <2>4, <1>e, <1>t, <1>s
<1>10. ASSUME NEW r \in Resolvers, Keep(r) PROVE StampInv'
  <2>0. /\ pc[r] = "keep" /\ UNCHANGED <<world, work, dest, stamp, at>>
        /\ \/ /\ part[File(r)] = None /\ UNCHANGED <<kept, part>>
              /\ pc' = [pc EXCEPT ![r] = "out"] /\ answer' = [answer EXCEPT ![r] = "error"]
           \/ /\ part[File(r)] # None
              /\ kept' = [kept EXCEPT ![File(r)] = part[File(r)]]
              /\ part' = [part EXCEPT ![File(r)] = None]
              /\ pc' = [pc EXCEPT ![r] = "unpack"] /\ answer' = answer
    BY <1>10, KeepIs
  <2>1. \A q \in Resolvers : q # r => pc[q] = "out" /\ pc'[q] = "out"
    <3>1. pc[r] # "out" /\ \A q \in Resolvers : q # r => pc'[q] = pc[q]
      BY <2>0, <1>t
    <3> QED
      BY <3>1, <1>t
  <2>2. ~stamp /\ ~stamp'
    BY <2>0, <1>s
  <2>3. \A q \in Resolvers : answer[q] # "fetched" /\ answer'[q] # "fetched"
    <3>1. \A q \in Resolvers : answer'[q] \in {answer[q], "error"}
      BY <2>0, <1>t
    <3>2. \A q \in Resolvers : answer[q] # "fetched"
      BY <2>2, <1>s
    <3> QED
      BY <3>1, <3>2
  <2>4. pc'[r] \in {"unpack", "out"}
    <3>1. pc' = [pc EXCEPT ![r] = "unpack"] \/ pc' = [pc EXCEPT ![r] = "out"]
      BY <2>0
    <3> QED
      BY <3>1, <1>t
  <2> QED
    BY <2>1, <2>2, <2>3, <2>4, <1>e, <1>t, <1>s
<1>11. ASSUME NEW r \in Resolvers, Unpack(r) PROVE StampInv'
  <2>0. /\ pc[r] = "unpack" /\ UNCHANGED <<world, kept, part, dest, stamp, answer>>
        /\ work # None /\ kept[File(r)] # None
        /\ work' = [d \in DOMAIN work \cup {File(r)} |->
                     IF d = File(r) THEN kept[d].has ELSE work[d]]
        /\ at' = [at EXCEPT ![r] = IF @ < Count THEN @ + 1 ELSE @]
        /\ \/ at[r] < Count /\ pc' = [pc EXCEPT ![r] = "file"]
           \/ /\ ~(at[r] < Count)
              /\ \E to \in {"relocate", "remove"} : pc' = [pc EXCEPT ![r] = to]
    BY <1>11, UnpackIs
  <2>1. \A q \in Resolvers : q # r => pc[q] = "out" /\ pc'[q] = "out"
    <3>1. pc[r] # "out" /\ \A q \in Resolvers : q # r => pc'[q] = pc[q]
      BY <2>0, <1>t
    <3> QED
      BY <3>1, <1>t
  <2>2. ~stamp /\ ~stamp'
    BY <2>0, <1>s
  <2>3. \A q \in Resolvers : answer[q] # "fetched" /\ answer'[q] # "fetched"
    <3>1. \A q \in Resolvers : answer'[q] \in {answer[q], "error"}
      BY <2>0, <1>t
    <3>2. \A q \in Resolvers : answer[q] # "fetched"
      BY <2>2, <1>s
    <3> QED
      BY <3>1, <3>2
  <2>4. pc'[r] \in {"file", "relocate", "remove"}
    <3>1. \/ pc' = [pc EXCEPT ![r] = "file"]
          \/ pc' = [pc EXCEPT ![r] = "relocate"]
          \/ pc' = [pc EXCEPT ![r] = "remove"]
      BY <2>0, <1>t, <1>s
    <3> QED
      BY <3>1, <1>t
  <2> QED
    BY <2>1, <2>2, <2>3, <2>4, <1>e, <1>t, <1>s
<1>12. ASSUME NEW r \in Resolvers, UnpackFails(r) PROVE StampInv'
  BY <1>12, <1>e, <1>t, <1>s, NoneAssumption DEF UnpackFails, Goto, Fault, Unpacks
<1>13. ASSUME NEW r \in Resolvers, Relocate(r) PROVE StampInv'
  <2>0. /\ pc[r] = "relocate" /\ UNCHANGED <<world, kept, part, work, dest, stamp, at>>
        /\ \/ pc' = [pc EXCEPT ![r] = "remove"] /\ answer' = answer
           \/ pc' = [pc EXCEPT ![r] = "tidy"] /\ answer' = [answer EXCEPT ![r] = "error"]
    BY <1>13, RelocateIs
  <2>1. \A q \in Resolvers : q # r => pc[q] = "out" /\ pc'[q] = "out"
    <3>1. pc[r] # "out" /\ \A q \in Resolvers : q # r => pc'[q] = pc[q]
      BY <2>0, <1>t
    <3> QED
      BY <3>1, <1>t
  <2>2. ~stamp /\ ~stamp'
    BY <2>0, <1>s
  <2>3. \A q \in Resolvers : answer[q] # "fetched" /\ answer'[q] # "fetched"
    <3>1. \A q \in Resolvers : answer'[q] \in {answer[q], "error"}
      BY <2>0, <1>t
    <3>2. \A q \in Resolvers : answer[q] # "fetched"
      BY <2>2, <1>s
    <3> QED
      BY <3>1, <3>2
  <2>4. pc'[r] \in {"remove"} \/ (pc'[r] = "tidy" /\ answer'[r] = "error")
    BY <2>0, <1>t, <1>s
  <2> QED
    BY <2>1, <2>2, <2>3, <2>4, <1>e, <1>t, <1>s
<1>14. ASSUME NEW r \in Resolvers, RemoveOld(r) PROVE StampInv'
  <2>0. /\ pc[r] = "remove" /\ UNCHANGED <<world, kept, part, work, at, answer>>
        /\ ~stamp => ~stamp'
        /\ \/ dest' = None /\ pc' = [pc EXCEPT ![r] = "rename"]
           \/ pc' = pc
    BY <1>14, RemoveOldIs
  <2>1. \A q \in Resolvers : q # r => pc[q] = "out" /\ pc'[q] = "out"
    <3>1. pc[r] # "out" /\ \A q \in Resolvers : q # r => pc'[q] = pc[q]
      BY <2>0, <1>t
    <3> QED
      BY <3>1, <1>t
  <2>2. ~stamp /\ ~stamp'
    BY <2>0, <1>s
  <2>3. \A q \in Resolvers : answer[q] # "fetched" /\ answer'[q] # "fetched"
    <3>1. \A q \in Resolvers : answer'[q] \in {answer[q], "error"}
      BY <2>0, <1>t
    <3>2. \A q \in Resolvers : answer[q] # "fetched"
      BY <2>2, <1>s
    <3> QED
      BY <3>1, <3>2
  <2>4. pc'[r] \in {"remove"} \/ (pc'[r] = "rename" /\ dest' = None)
    BY <2>0, <1>t, <1>s
  <2> QED
    BY <2>1, <2>2, <2>3, <2>4, <1>e, <1>t, <1>s
<1>15. ASSUME NEW r \in Resolvers, MoveInto(r) PROVE StampInv'
  <2>0. /\ pc[r] = "rename" /\ UNCHANGED <<world, kept, part, stamp, at>>
        /\ \/ /\ work # None /\ dest = None /\ dest' = work /\ work' = None
              /\ pc' = [pc EXCEPT ![r] = "record"] /\ answer' = answer
           \/ /\ UNCHANGED <<dest, work>>
              /\ pc' = [pc EXCEPT ![r] = "tidy"] /\ answer' = [answer EXCEPT ![r] = "error"]
    BY <1>15, MoveIntoIs
  <2>1. \A q \in Resolvers : q # r => pc[q] = "out" /\ pc'[q] = "out"
    <3>1. pc[r] # "out" /\ \A q \in Resolvers : q # r => pc'[q] = pc[q]
      BY <2>0, <1>t
    <3> QED
      BY <3>1, <1>t
  <2>2. ~stamp /\ ~stamp'
    BY <2>0, <1>s
  <2>3. \A q \in Resolvers : answer[q] # "fetched" /\ answer'[q] # "fetched"
    <3>1. \A q \in Resolvers : answer'[q] \in {answer[q], "error"}
      BY <2>0, <1>t
    <3>2. \A q \in Resolvers : answer[q] # "fetched"
      BY <2>2, <1>s
    <3> QED
      BY <3>1, <3>2
  <2>4. \/ pc'[r] = "tidy" /\ answer'[r] = "error"
        \/ pc'[r] = "record" /\ dest' = Installed
    <3>1. work = Installed
      BY <2>0, <1>t, <1>s
    <3> QED
      BY <2>0, <3>1, <1>t
  <2> QED
    BY <2>1, <2>2, <2>3, <2>4, <1>e, <1>t, <1>s
<1>16. ASSUME NEW r \in Resolvers, Record(r) PROVE StampInv'
  <2>1. /\ pc[r] = "record" /\ pc' = [pc EXCEPT ![r] = "tidy"] /\ UNCHANGED <<dest>>
        /\ stamp' = (dest # None)
        /\ answer' = [answer EXCEPT ![r] = IF dest = None THEN "error" ELSE None]
    BY <1>16 DEF Record, Goto
  <2>2. ~stamp /\ dest = Installed /\ Index # 0 /\ \A q \in Resolvers : q # r => pc[q] = "out"
    BY <2>1, <1>t, <1>s
  <2>3. dest # None
    BY <2>2, <1>t, EntryIs, FullIs DEF Installed
  <2>4. stamp' /\ answer'[r] = None /\ None # "fetched"
    BY <2>1, <2>3, <1>t, NoneAssumption DEF Answers
  <2>5. \A q \in Resolvers : q # r => answer'[q] = answer[q] /\ answer[q] # "fetched"
    BY <2>1, <2>2, <1>t, <1>s
  <2>6. /\ pc'[r] = "tidy" /\ dest' = Installed' /\ Index' # 0
        /\ \A q \in Resolvers : q # r => pc'[q] = "out"
    BY <2>1, <2>2, <1>e, <1>t
  <2>7. \A q \in Resolvers : answer'[q] # "fetched"
    BY <2>4, <2>5
  <2> QED
    BY <2>4, <2>6, <2>7
<1>17. ASSUME NEW r \in Resolvers, Tidy(r) PROVE StampInv'
  BY <1>17, <1>e, <1>t, <1>s, NoneAssumption DEF Tidy, Goto
<1>18. ASSUME NEW r \in Resolvers, PointLinks(r) PROVE StampInv'
  BY <1>18, <1>e, <1>t, <1>s, NoneAssumption DEF PointLinks, Goto
<1>23. ASSUME NEW r \in Resolvers, RemoveLink(r) PROVE StampInv'
  BY <1>23, <1>e, <1>t, <1>s, NoneAssumption DEF RemoveLink, Goto
<1>24. ASSUME NEW r \in Resolvers, MakeLink(r) PROVE StampInv'
  BY <1>24, <1>e, <1>t, <1>s, NoneAssumption DEF MakeLink, Goto
<1>25. ASSUME NEW r \in Resolvers, LinkFails(r) PROVE StampInv'
  BY <1>25, <1>e, <1>t, <1>s, NoneAssumption DEF LinkFails, Goto, End
<1>26. ASSUME NEW r \in Resolvers, Fetched(r) PROVE StampInv'
  BY <1>26, <1>e, <1>t, <1>s, NoneAssumption DEF Fetched, Goto, disk
<1>19. ASSUME NEW r \in Resolvers, CopyRuntime(r) PROVE StampInv'
  <2>0. /\ pc[r] = "copy" /\ UNCHANGED <<world, kept, part, work, dest, stamp, at, answer>>
        /\ \E to \in {"copying", "out"} : pc' = [pc EXCEPT ![r] = to]
    BY <1>19, CopyRuntimeIs
  <2>1. \A q \in Resolvers : q # r => pc[q] = "out" /\ pc'[q] = "out"
    <3>1. pc[r] # "out" /\ \A q \in Resolvers : q # r => pc'[q] = pc[q]
      BY <2>0, <1>t
    <3> QED
      BY <3>1, <1>t
  <2>2. UNCHANGED <<stamp, dest>> /\ stamp
    BY <2>0, <1>t, <1>s
  <2>3. pc'[r] \in {"out", "copying"}
    BY <2>0, <1>t, <1>s
  <2>4. \A q \in Resolvers :
          answer'[q] = "fetched" => stamp'
    BY <2>0, <1>t, <1>s
  <2> QED
    BY <2>1, <2>2, <2>3, <2>4, <1>e, <1>t, <1>s
<1>20. ASSUME NEW r \in Resolvers, Copied(r) PROVE StampInv'
  BY <1>20, <1>e, <1>t, <1>s, NoneAssumption DEF Copied, Goto
<1>21. ASSUME NEW r \in Resolvers, Crash(r) PROVE StampInv'
  BY <1>21, <1>e, <1>t, <1>s, NoneAssumption DEF Crash, End, Goto, disk, Fault
<1>22. CASE UNCHANGED <<world, faults, kept, part, work, dest, stamp, beside, pc, at, answer>>
  BY <1>s, <1>22, <1>e, NoneAssumption
<1> HIDE DEF StampInv, Unstamped, Linking
<1> QED
  BY <1>1, <1>2, <1>3, <1>4, <1>5, <1>6, <1>7, <1>8, <1>9, <1>10, <1>11, <1>12, <1>13, <1>14,
     <1>15, <1>16, <1>17, <1>18, <1>19, <1>20, <1>21, <1>22,
     <1>23, <1>24, <1>25, <1>26 DEF Next, Step, vars, disk

\* A step that touches no link, and is not in the middle of making one.
LEMMA LinkKept ==
  ASSUME IInv, NEW r \in Resolvers, UNCHANGED <<world, links, unmade>>,
         pc[r] # "relink", \A q \in Resolvers : q # r => pc'[q] = "out" /\ pc[q] = "out",
         nth' = nth \/ nth' = [nth EXCEPT ![r] = 1], stamp' => stamp,
         \A q \in Resolvers : answer'[q] = "fetched" => answer[q] = "fetched",
         pc'[r] \notin {"record", "unlink", "relink"}, pc'[r] = "links" => pc[r] # "out",
         pc'[r] \in Unstamped \cup {"stamp", "tidy", "links"} => nth'[r] = 1
  PROVE  LinkInv'
<1>l. LinkInv
  BY DEF IInv
<1>e. Entry' = Entry /\ ByFile' = ByFile
  BY SameRecipe DEF ByFile
<1>1. \A l : Seen(l)' = Seen(l)
  BY DEF Seen
<1>2. nth' \in [Resolvers -> Nat \ {0}]
  BY <1>l DEF LinkInv
<1>3. \A q \in Resolvers : pc[q] # "relink" /\ pc'[q] # "relink"
  OBVIOUS
<1>4. ASSUME stamp', NEW l \in Sonames, links'[l] = "gone" PROVE l \in unmade'
  BY <1>4, <1>l, <1>3 DEF LinkInv
<1>5. ASSUME pc'[r] = "links", NEW i \in ByFile PROVE ~(i < nth'[r])
  <2>1. world \in Worlds /\ Index # 0
    BY <1>5 DEF IInv, TypeInv, AloneInv
  <2>2. i \in 1 .. Len(Entry.link) /\ Len(Entry.link) \in Nat
    BY <1>5, <2>1, LinkEntryIs DEF ByFile
  <2> QED
    BY <1>5, <2>2
<1>6. ASSUME NEW q \in Resolvers
      PROVE  /\ pc'[q] \in Linking => \A i \in ByFile : i < nth'[q] => Seen(Entry.link[i].name)
             /\ pc'[q] \in Unstamped \cup {"stamp", "tidy"} => nth'[q] = 1
             /\ pc'[q] \notin {"record", "unlink", "relink"}
             /\ answer'[q] = "fetched" /\ Entry.runtime = "host" =>
                  \A i \in ByFile : Seen(Entry.link[i].name)
  BY <1>l, <1>5 DEF LinkInv, Linking, Unstamped
<1>7. Sonames' = Sonames
  BY DEF Sonames
<1> QED
  BY <1>l, <1>e, <1>1, <1>2, <1>4, <1>6, <1>7 DEF LinkInv

\* And every link is pointed at the host, or is one that somebody lost.
LEMMA LinkStep ==
  ASSUME IInv, [Next]_vars
  PROVE  LinkInv'
<1>w. world' = world
  BY WorldStays
<1>e. Entry' = Entry /\ ByFile' = ByFile
  BY <1>w, SameRecipe DEF ByFile
<1>l. LinkInv
  BY DEF IInv
<1>t. /\ pc \in [Resolvers -> Phases] /\ answer \in [Resolvers -> Answers \cup {None}]
      /\ world.apart /\ \A r, q \in Resolvers : pc[r] # "out" /\ pc[q] # "out" => r = q
      /\ "fetched" # None
  BY NoneAssumption DEF IInv, TypeInv, AloneInv, Answers
<1>s. \A r \in Resolvers :
        /\ pc[r] \in Unstamped => ~stamp
        /\ answer[r] = "fetched" => stamp
  BY DEF IInv, StampInv
<1>1. ASSUME NEW r \in Resolvers, Begin(r) PROVE LinkInv'
  <2>1. /\ pc[r] = "out" /\ \A q \in Resolvers : pc[q] = "out"
        /\ \E to \in {"out", "stamp"} : pc' = [pc EXCEPT ![r] = to]
        /\ \/ answer' = answer
           \/ \E how \in Answers \ {"fetched"} : answer' = [answer EXCEPT ![r] = how]
        /\ UNCHANGED <<world, stamp>>
    BY <1>1, <1>t, BeginIs
  <2>2. nth' = [nth EXCEPT ![r] = 1] /\ UNCHANGED <<links, unmade>>
    BY <1>1 DEF Begin
  <2>3. nth'[r] = 1
    BY <2>2, <1>l DEF LinkInv
  <2>4. \A q \in Resolvers : answer'[q] = "fetched" => answer[q] = "fetched"
    BY <2>1, <1>t
  <2>5. /\ \A q \in Resolvers : q # r => pc'[q] = "out" /\ pc[q] = "out"
        /\ pc'[r] \notin {"record", "unlink", "relink", "links"}
    BY <2>1, <1>t
  <2> QED
    BY <2>1, <2>2, <2>3, <2>4, <2>5, LinkKept
<1>2. ASSUME NEW r \in Resolvers, LookForStamp(r) PROVE LinkInv'
  <2>1. pc[r] # "out" /\ pc[r] \notin Linking /\ UNCHANGED <<stamp, links, unmade, nth>>
    BY <1>2 DEF LookForStamp, disk, linking, Linking
  <2>2. pc' = [pc EXCEPT ![r] = "links"] \/ pc' = [pc EXCEPT ![r] = "clear"]
    BY <1>2 DEF LookForStamp, Goto
  <2>5. pc[r] = "stamp"
    BY <1>2 DEF LookForStamp
  <2>3. \A q \in Resolvers : answer'[q] = "fetched" => answer[q] = "fetched"
    BY <1>2, <1>t DEF LookForStamp, disk
  <2> QED
    BY <2>1, <2>2, <2>3, <2>5, <1>w, <1>t, <1>l, LinkKept DEF LinkInv, Linking, Unstamped
<1>3. ASSUME NEW r \in Resolvers, ClearWork(r) PROVE LinkInv'
  <2>1. pc[r] # "out" /\ pc[r] \notin Linking /\ UNCHANGED <<stamp, links, unmade, nth>>
    BY <1>3 DEF ClearWork, linking, Linking
  <2>2. \E to \in Phases \ {"record", "unlink", "relink"} :
          /\ pc' = [pc EXCEPT ![r] = to]
          /\ to \in Unstamped \cup {"stamp", "tidy", "links"} =>
               pc[r] \in Unstamped \cup {"stamp", "tidy"}
    BY <1>3 DEF ClearWork, Goto, Phases, Unstamped
  <2>3. \A q \in Resolvers : answer'[q] = "fetched" => answer[q] = "fetched"
    BY <1>3, <1>t DEF ClearWork
  <2> QED
    BY <2>1, <2>2, <2>3, <1>w, <1>t, <1>l, LinkKept DEF LinkInv, Linking, Unstamped
<1>4. ASSUME NEW r \in Resolvers, MakeWork(r) PROVE LinkInv'
  <2>1. pc[r] # "out" /\ pc[r] \notin Linking /\ UNCHANGED <<stamp, links, unmade, nth>>
    BY <1>4 DEF MakeWork, linking, Linking
  <2>2. \E to \in Phases \ {"record", "unlink", "relink"} :
          /\ pc' = [pc EXCEPT ![r] = to]
          /\ to \in Unstamped \cup {"stamp", "tidy", "links"} =>
               pc[r] \in Unstamped \cup {"stamp", "tidy"}
    BY <1>4 DEF MakeWork, Goto, Phases, Unstamped
  <2>3. \A q \in Resolvers : answer'[q] = "fetched" => answer[q] = "fetched"
    BY <1>4, <1>t DEF MakeWork
  <2> QED
    BY <2>1, <2>2, <2>3, <1>w, <1>t, <1>l, LinkKept DEF LinkInv, Linking, Unstamped
<1>5. ASSUME NEW r \in Resolvers, Obtain(r) PROVE LinkInv'
  <2>1. pc[r] # "out" /\ pc[r] \notin Linking /\ UNCHANGED <<stamp, links, unmade, nth>>
    BY <1>5 DEF Obtain, disk, linking, Linking
  <2>2. \E to \in Phases \ {"record", "unlink", "relink"} :
          /\ pc' = [pc EXCEPT ![r] = to]
          /\ to \in Unstamped \cup {"stamp", "tidy", "links"} =>
               pc[r] \in Unstamped \cup {"stamp", "tidy"}
    BY <1>5 DEF Obtain, disk, Goto, Phases, Unstamped
  <2>3. \A q \in Resolvers : answer'[q] = "fetched" => answer[q] = "fetched"
    BY <1>5, <1>t DEF Obtain, disk
  <2> QED
    BY <2>1, <2>2, <2>3, <1>w, <1>t, <1>l, LinkKept DEF LinkInv, Linking, Unstamped
<1>6. ASSUME NEW r \in Resolvers, Download(r) PROVE LinkInv'
  <2>1. pc[r] # "out" /\ pc[r] \notin Linking /\ UNCHANGED <<stamp, links, unmade, nth>>
    BY <1>6 DEF Download, linking, Linking
  <2>2. \E to \in Phases \ {"record", "unlink", "relink"} :
          /\ pc' = [pc EXCEPT ![r] = to]
          /\ to \in Unstamped \cup {"stamp", "tidy", "links"} =>
               pc[r] \in Unstamped \cup {"stamp", "tidy"}
    BY <1>6 DEF Download, Goto, Phases, Unstamped
  <2>3. \A q \in Resolvers : answer'[q] = "fetched" => answer[q] = "fetched"
    BY <1>6, <1>t DEF Download
  <2> QED
    BY <2>1, <2>2, <2>3, <1>w, <1>t, <1>l, LinkKept DEF LinkInv, Linking, Unstamped
<1>7. ASSUME NEW r \in Resolvers, Received(r) PROVE LinkInv'
  <2>1. pc[r] # "out" /\ pc[r] \notin Linking /\ UNCHANGED <<stamp, links, unmade, nth>>
    BY <1>7 DEF Received, linking, Linking
  <2>2. \E to \in Phases \ {"record", "unlink", "relink"} :
          /\ pc' = [pc EXCEPT ![r] = to]
          /\ to \in Unstamped \cup {"stamp", "tidy", "links"} =>
               pc[r] \in Unstamped \cup {"stamp", "tidy"}
    BY <1>7 DEF Received, Goto, Phases, Unstamped
  <2>3. \A q \in Resolvers : answer'[q] = "fetched" => answer[q] = "fetched"
    BY <1>7, <1>t DEF Received
  <2> QED
    BY <2>1, <2>2, <2>3, <1>w, <1>t, <1>l, LinkKept DEF LinkInv, Linking, Unstamped
<1>8. ASSUME NEW r \in Resolvers, Failed(r) PROVE LinkInv'
  <2>1. pc[r] # "out" /\ pc[r] \notin Linking /\ UNCHANGED <<stamp, links, unmade, nth>>
    BY <1>8 DEF Failed, End, disk, linking, Linking
  <2>2. \E to \in Phases \ {"record", "unlink", "relink"} :
          /\ pc' = [pc EXCEPT ![r] = to]
          /\ to \in Unstamped \cup {"stamp", "tidy", "links"} =>
               pc[r] \in Unstamped \cup {"stamp", "tidy"}
    BY <1>8 DEF Failed, End, disk, Goto, Phases, Unstamped
  <2>3. \A q \in Resolvers : answer'[q] = "fetched" => answer[q] = "fetched"
    BY <1>8, <1>t DEF Failed, End, disk
  <2> QED
    BY <2>1, <2>2, <2>3, <1>w, <1>t, <1>l, LinkKept DEF LinkInv, Linking, Unstamped
<1>9. ASSUME NEW r \in Resolvers, Hash(r) PROVE LinkInv'
  <2>1. pc[r] # "out" /\ pc[r] \notin Linking /\ UNCHANGED <<stamp, links, unmade, nth>>
    BY <1>9 DEF Hash, End, linking, Linking
  <2>2. \E to \in Phases \ {"record", "unlink", "relink"} :
          /\ pc' = [pc EXCEPT ![r] = to]
          /\ to \in Unstamped \cup {"stamp", "tidy", "links"} =>
               pc[r] \in Unstamped \cup {"stamp", "tidy"}
    BY <1>9 DEF Hash, End, Goto, Phases, Unstamped
  <2>3. \A q \in Resolvers : answer'[q] = "fetched" => answer[q] = "fetched"
    BY <1>9, <1>t DEF Hash, End
  <2> QED
    BY <2>1, <2>2, <2>3, <1>w, <1>t, <1>l, LinkKept DEF LinkInv, Linking, Unstamped
<1>10. ASSUME NEW r \in Resolvers, Keep(r) PROVE LinkInv'
  <2>1. pc[r] # "out" /\ pc[r] \notin Linking /\ UNCHANGED <<stamp, links, unmade, nth>>
    BY <1>10 DEF Keep, End, linking, Linking
  <2>2. \E to \in Phases \ {"record", "unlink", "relink"} :
          /\ pc' = [pc EXCEPT ![r] = to]
          /\ to \in Unstamped \cup {"stamp", "tidy", "links"} =>
               pc[r] \in Unstamped \cup {"stamp", "tidy"}
    BY <1>10 DEF Keep, End, Goto, Phases, Unstamped
  <2>3. \A q \in Resolvers : answer'[q] = "fetched" => answer[q] = "fetched"
    BY <1>10, <1>t DEF Keep, End
  <2> QED
    BY <2>1, <2>2, <2>3, <1>w, <1>t, <1>l, LinkKept DEF LinkInv, Linking, Unstamped
<1>11. ASSUME NEW r \in Resolvers, Unpack(r) PROVE LinkInv'
  <2>1. pc[r] # "out" /\ pc[r] \notin Linking /\ UNCHANGED <<stamp, links, unmade, nth>>
    BY <1>11 DEF Unpack, linking, Linking
  <2>2. \E to \in Phases \ {"record", "unlink", "relink"} :
          /\ pc' = [pc EXCEPT ![r] = to]
          /\ to \in Unstamped \cup {"stamp", "tidy", "links"} =>
               pc[r] \in Unstamped \cup {"stamp", "tidy"}
    BY <1>11 DEF Unpack, Goto, Phases, Unstamped
  <2>3. \A q \in Resolvers : answer'[q] = "fetched" => answer[q] = "fetched"
    BY <1>11, <1>t DEF Unpack
  <2> QED
    BY <2>1, <2>2, <2>3, <1>w, <1>t, <1>l, LinkKept DEF LinkInv, Linking, Unstamped
<1>12. ASSUME NEW r \in Resolvers, UnpackFails(r) PROVE LinkInv'
  <2>1. pc[r] # "out" /\ pc[r] \notin Linking /\ UNCHANGED <<stamp, links, unmade, nth>>
    BY <1>12 DEF UnpackFails, linking, Linking
  <2>2. \E to \in Phases \ {"record", "unlink", "relink"} :
          /\ pc' = [pc EXCEPT ![r] = to]
          /\ to \in Unstamped \cup {"stamp", "tidy", "links"} =>
               pc[r] \in Unstamped \cup {"stamp", "tidy"}
    BY <1>12 DEF UnpackFails, Goto, Phases, Unstamped
  <2>3. \A q \in Resolvers : answer'[q] = "fetched" => answer[q] = "fetched"
    BY <1>12, <1>t DEF UnpackFails
  <2> QED
    BY <2>1, <2>2, <2>3, <1>w, <1>t, <1>l, LinkKept DEF LinkInv, Linking, Unstamped
<1>13. ASSUME NEW r \in Resolvers, Relocate(r) PROVE LinkInv'
  <2>1. pc[r] # "out" /\ pc[r] \notin Linking /\ UNCHANGED <<stamp, links, unmade, nth>>
    BY <1>13 DEF Relocate, disk, linking, Linking
  <2>2. \E to \in Phases \ {"record", "unlink", "relink"} :
          /\ pc' = [pc EXCEPT ![r] = to]
          /\ to \in Unstamped \cup {"stamp", "tidy", "links"} =>
               pc[r] \in Unstamped \cup {"stamp", "tidy"}
    BY <1>13 DEF Relocate, disk, Goto, Phases, Unstamped
  <2>3. \A q \in Resolvers : answer'[q] = "fetched" => answer[q] = "fetched"
    BY <1>13, <1>t DEF Relocate, disk
  <2> QED
    BY <2>1, <2>2, <2>3, <1>w, <1>t, <1>l, LinkKept DEF LinkInv, Linking, Unstamped
<1>14. ASSUME NEW r \in Resolvers, Tidy(r) PROVE LinkInv'
  <2>1. pc[r] # "out" /\ pc[r] \notin Linking /\ UNCHANGED <<stamp, links, unmade, nth>>
    BY <1>14 DEF Tidy, linking, Linking
  <2>2. \E to \in Phases \ {"record", "unlink", "relink"} :
          /\ pc' = [pc EXCEPT ![r] = to]
          /\ to \in Unstamped \cup {"stamp", "tidy", "links"} =>
               pc[r] \in Unstamped \cup {"stamp", "tidy"}
    BY <1>14 DEF Tidy, Goto, Phases, Unstamped
  <2>3. \A q \in Resolvers : answer'[q] = "fetched" => answer[q] = "fetched"
    BY <1>14, <1>t DEF Tidy
  <2> QED
    BY <2>1, <2>2, <2>3, <1>w, <1>t, <1>l, LinkKept DEF LinkInv, Linking, Unstamped
<1>15. ASSUME NEW r \in Resolvers, CopyRuntime(r) PROVE LinkInv'
  <2>1. pc[r] # "out" /\ pc[r] \notin Linking /\ UNCHANGED <<stamp, links, unmade, nth>>
    BY <1>15 DEF CopyRuntime, linking, Linking
  <2>2. \E to \in Phases \ {"record", "unlink", "relink"} :
          /\ pc' = [pc EXCEPT ![r] = to]
          /\ to \in Unstamped \cup {"stamp", "tidy", "links"} =>
               pc[r] \in Unstamped \cup {"stamp", "tidy"}
    BY <1>15 DEF CopyRuntime, Goto, Phases, Unstamped
  <2>3. \A q \in Resolvers : answer'[q] = "fetched" => answer[q] = "fetched"
    BY <1>15, <1>t DEF CopyRuntime
  <2> QED
    BY <2>1, <2>2, <2>3, <1>w, <1>t, <1>l, LinkKept DEF LinkInv, Linking, Unstamped
<1>16. ASSUME NEW r \in Resolvers, Copied(r) PROVE LinkInv'
  <2>1. pc[r] # "out" /\ pc[r] \notin Linking /\ UNCHANGED <<stamp, links, unmade, nth>>
    BY <1>16 DEF Copied, linking, Linking
  <2>2. pc' = [pc EXCEPT ![r] = "out"]
    BY <1>16 DEF Copied, Goto
  <2>3. \A q \in Resolvers : answer'[q] = "fetched" => answer[q] = "fetched"
    BY <1>16, <1>t DEF Copied
  <2> QED
    BY <2>1, <2>2, <2>3, <1>w, <1>t, <1>l, LinkKept DEF LinkInv, Linking, Unstamped
<1>n. ASSUME NEW r \in Resolvers, pc[r] # "out"
      PROVE  \A q \in Resolvers : q # r => pc[q] = "out"
  BY <1>n, <1>t
<1>f. \A l : l \in unmade => l \in Sonames /\ links[l] = "gone"
  BY <1>l DEF LinkInv
<1>r. Sonames' = Sonames
  BY DEF Sonames
\* The links at or before the one a resolution is at.
<1>u. ASSUME NEW r \in Resolvers, pc[r] \in Linking, ~Linked(r)
      PROVE  /\ nth[r] \in DOMAIN Entry.link /\ Soname(r) \in Sonames /\ stamp
             /\ Entry.runtime = "host"
             /\ \A i \in ByFile : i \in Nat /\ (i < nth[r] + 1 <=> i < nth[r] \/ i = nth[r])
  <2>1. /\ world \in Worlds /\ Index # 0 /\ nth[r] \in Nat \ {0} /\ stamp
    BY <1>u, <1>l DEF IInv, TypeInv, AloneInv, LinkInv, StampInv, Linking
  <2>2. Entry.runtime = "host" /\ ~(nth[r] > Len(Entry.link))
    BY <1>u DEF Linked
  <2> QED
    BY <2>1, <2>2, LinkEntryIs DEF ByFile, Soname
<1>17. ASSUME NEW r \in Resolvers, RemoveOld(r) PROVE LinkInv'
  <2>1. /\ pc[r] = "remove" /\ UNCHANGED <<answer, nth, unmade>> /\ ~stamp /\ ~stamp'
    BY <1>17, <1>s, RemoveOldIs DEF RemoveOld, Unstamped
  <2>2. links' = [l \in Sonames |-> "gone"]
    BY <1>17 DEF RemoveOld
  <2>3. pc' = [pc EXCEPT ![r] = "rename"] \/ pc' = pc
    BY <1>17, RemoveOldIs
  <2>4. \A q \in Resolvers : answer'[q] # "fetched" /\ (q # r => pc'[q] = "out")
    BY <2>1, <2>3, <1>s, <1>n, <1>t
  <2>5. pc'[r] \in {"remove", "rename"} /\ nth'[r] = 1
    BY <2>1, <2>3, <1>t, <1>l DEF LinkInv, Unstamped
  <2> QED
    BY <2>1, <2>2, <2>4, <2>5, <1>e, <1>f, <1>l, <1>r DEF LinkInv, Unstamped, Linking
<1>18. ASSUME NEW r \in Resolvers, MoveInto(r) PROVE LinkInv'
  <2>1. /\ pc[r] = "rename" /\ UNCHANGED <<stamp, nth>> /\ ~stamp
    BY <1>18, <1>s DEF MoveInto, Unstamped
  <2>2. \A q \in Resolvers : answer'[q] # "fetched"
    BY <2>1, <1>18, <1>s, <1>t DEF MoveInto
  <2>3. pc' = [pc EXCEPT ![r] = "record"] \/ pc' = [pc EXCEPT ![r] = "tidy"]
    BY <1>18, MoveIntoIs
  <2>4. /\ \A q \in Resolvers : q # r => pc'[q] = "out"
        /\ pc'[r] \in {"record", "tidy"} /\ nth'[r] = 1
    BY <2>1, <2>3, <1>n, <1>t, <1>l DEF LinkInv, Unstamped
  <2>5. CASE links' = [l \in Sonames |-> "own"] /\ unmade' = {}
    BY <2>1, <2>2, <2>4, <2>5, <1>e, <1>l, <1>r DEF LinkInv, Unstamped, Linking
  <2>6. CASE pc' = [pc EXCEPT ![r] = "tidy"] /\ UNCHANGED <<links, unmade>>
    <3>1. pc'[r] = "tidy"
      BY <2>6, <1>t
    <3> QED
      BY <2>1, <2>2, <2>4, <2>6, <3>1, <1>e, <1>f, <1>l, <1>r DEF LinkInv, Unstamped, Linking
  <2> QED
    BY <1>18, <2>5, <2>6 DEF MoveInto, Goto
<1>19. ASSUME NEW r \in Resolvers, Record(r) PROVE LinkInv'
  <2>1. /\ pc[r] = "record" /\ UNCHANGED <<links, unmade, nth>> /\ pc' = [pc EXCEPT ![r] = "tidy"]
        /\ answer' = [answer EXCEPT ![r] = IF dest = None THEN "error" ELSE None]
    BY <1>19 DEF Record, linking, Goto
  <2>2. \A q \in Resolvers : answer'[q] # "fetched" /\ (q # r => pc'[q] = "out")
    BY <2>1, <1>s, <1>n, <1>t DEF Unstamped
  <2>3. pc'[r] = "tidy" /\ nth'[r] = 1
    BY <2>1, <1>t, <1>l DEF LinkInv, Unstamped
  <2>4. \A l \in Sonames : links'[l] = "own"
    BY <2>1, <1>l DEF LinkInv
  <2> QED
    BY <2>1, <2>2, <2>3, <2>4, <1>e, <1>f, <1>l, <1>r DEF LinkInv, Unstamped, Linking
<1>20. ASSUME NEW r \in Resolvers, PointLinks(r) PROVE LinkInv'
  <2>1. /\ pc[r] = "links" /\ ~Linked(r) /\ UNCHANGED <<stamp, links, unmade, answer>>
    BY <1>20 DEF PointLinks
  <2>2. /\ stamp /\ nth[r] \in DOMAIN Entry.link /\ Soname(r) \in Sonames
        /\ \A i \in ByFile : i \in Nat /\ (i < nth[r] + 1 <=> i < nth[r] \/ i = nth[r])
        /\ nth[r] \in Nat \ {0}
    BY <2>1, <1>u, <1>l DEF Linking, LinkInv
  <2>3. \A q \in Resolvers : q # r => pc[q] = "out"
    BY <2>1, <1>n
  <2>4. \A l : Seen(l)' = Seen(l)
    BY <2>1 DEF Seen
  <2>5. \A l \in Sonames : links[l] = "gone" => l \in unmade
    BY <2>1, <2>2, <2>3, <1>l DEF LinkInv
  <2>6. CASE /\ Entry.link[nth[r]].byFile /\ links[Soname(r)] = "own"
             /\ pc' = [pc EXCEPT ![r] = "unlink"] /\ UNCHANGED nth
    <3>1. pc'[r] = "unlink" /\ \A q \in Resolvers : q # r => pc'[q] = "out"
      BY <2>3, <2>6, <1>t
    <3>2. nth[r] \in ByFile /\ Soname(r)' = Soname(r) /\ Linked(r)' = Linked(r)
      BY <2>2, <2>6, <1>e DEF ByFile, Soname, Linked
    <3> QED
      BY <2>1, <2>4, <2>5, <2>6, <3>1, <3>2, <1>e, <1>f, <1>l, <1>r DEF LinkInv, Unstamped, Linking
  <2>7. CASE /\ ~(Entry.link[nth[r]].byFile /\ links[Soname(r)] = "own")
             /\ nth' = [nth EXCEPT ![r] = @ + 1] /\ UNCHANGED pc
    <3>1. nth' \in [Resolvers -> Nat \ {0}] /\ nth'[r] = nth[r] + 1
      BY <2>7, <1>l DEF LinkInv
    <3>2. nth[r] \in ByFile => Seen(Soname(r))
      BY <2>2, <2>5, <2>7, <1>l DEF LinkInv, Seen, ByFile
    <3>3. \A i \in ByFile : i < nth'[r] => Seen(Entry.link[i].name)
      BY <2>1, <2>2, <3>1, <3>2, <1>l DEF LinkInv, Linking, Soname
    <3> QED
      BY <2>1, <2>3, <2>4, <2>5, <2>7, <3>1, <3>3, <1>e, <1>f, <1>l, <1>r
      DEF LinkInv, Unstamped, Linking
  <2> QED
    BY <1>20, <2>6, <2>7 DEF PointLinks, Goto
<1>21. ASSUME NEW r \in Resolvers, RemoveLink(r) PROVE LinkInv'
  <2>1. /\ pc[r] = "unlink" /\ UNCHANGED <<stamp, unmade, nth, answer>>
        /\ pc' = [pc EXCEPT ![r] = "relink"] /\ links' = [links EXCEPT ![Soname(r)] = "gone"]
    BY <1>21 DEF RemoveLink, Goto
  <2>2. /\ ~Linked(r) /\ nth[r] \in ByFile /\ links[Soname(r)] = "own"
    BY <2>1, <1>l DEF LinkInv
  <2>3. /\ stamp /\ Soname(r) \in Sonames /\ Entry.runtime = "host"
    BY <2>1, <2>2, <1>u DEF Linking
  <2>4. pc'[r] = "relink" /\ \A q \in Resolvers : q # r => pc'[q] = "out"
    BY <2>1, <1>n, <1>t
  <2>5. Soname(r) \notin unmade /\ ~Seen(Soname(r))
    BY <2>2, <1>f DEF Seen
  <2>6. \A l : Seen(l) => Seen(l)'
    BY <2>1, <2>5 DEF Seen
  <2>7. \A q \in Resolvers : answer[q] # "fetched"
    BY <2>2, <2>3, <2>5, <1>l DEF LinkInv, Soname
  <2>8. links' \in [Sonames -> {"own", "host", "gone"}] /\ links'[Soname(r)] = "gone"
        /\ \A l \in Sonames : l # Soname(r) => links'[l] = links[l]
    BY <2>1, <2>3, <1>l DEF LinkInv
  <2>9. Soname(r)' = Soname(r) /\ Linked(r)' = Linked(r)
    BY <2>1, <1>e DEF Soname, Linked
  <2>10. \A l \in Sonames : links[l] = "gone" => l \in unmade
    BY <2>1, <2>3, <1>n, <1>l DEF LinkInv
  <2>11. \A i \in ByFile : i < nth[r] => Seen(Entry.link[i].name)'
    BY <2>1, <2>6, <1>l, <1>e DEF LinkInv, Linking
  <2> QED
    BY <2>1, <2>2, <2>4, <2>5, <2>7, <2>8, <2>9, <2>10, <2>11, <1>e, <1>f, <1>l, <1>r
    DEF LinkInv, Unstamped, Linking
<1>22. ASSUME NEW r \in Resolvers, MakeLink(r) PROVE LinkInv'
  <2>1. /\ pc[r] = "relink" /\ UNCHANGED <<stamp, unmade, answer>>
        /\ pc' = [pc EXCEPT ![r] = "links"] /\ links' = [links EXCEPT ![Soname(r)] = "host"]
        /\ nth' = [nth EXCEPT ![r] = @ + 1]
    BY <1>22 DEF MakeLink, Goto
  <2>2. /\ ~Linked(r) /\ nth[r] \in ByFile /\ links[Soname(r)] = "gone" /\ Soname(r) \notin unmade
        /\ nth' \in [Resolvers -> Nat \ {0}] /\ nth'[r] = nth[r] + 1
    BY <2>1, <1>l DEF LinkInv
  <2>3. /\ stamp /\ Soname(r) \in Sonames /\ Entry.runtime = "host"
        /\ \A i \in ByFile : i \in Nat /\ (i < nth[r] + 1 <=> i < nth[r] \/ i = nth[r])
    BY <2>1, <2>2, <1>u DEF Linking
  <2>4. pc'[r] = "links" /\ \A q \in Resolvers : q # r => pc'[q] = "out" /\ pc[q] = "out"
    BY <2>1, <1>n, <1>t
  <2>5. links' \in [Sonames -> {"own", "host", "gone"}] /\ links'[Soname(r)] = "host"
        /\ \A l \in Sonames : l # Soname(r) => links'[l] = links[l]
    BY <2>1, <2>3, <1>l DEF LinkInv
  <2>6. \A l : Seen(l) => Seen(l)'
    BY <2>1, <2>2 DEF Seen
  <2>7. \A i \in ByFile : i < nth'[r] => Seen(Entry.link[i].name)'
    <3>1. \A i \in ByFile : i = nth[r] => Seen(Entry.link[i].name)'
      BY <2>5, <1>e DEF Seen, Soname
    <3>2. \A i \in ByFile : i < nth[r] => Seen(Entry.link[i].name)
      BY <2>1, <1>l DEF LinkInv, Linking
    <3> QED
      BY <2>2, <2>3, <2>6, <3>1, <3>2, <1>e
  <2>8. \A l \in Sonames : links'[l] = "gone" => l \in unmade
    BY <2>1, <2>3, <2>4, <2>5, <1>l DEF LinkInv
  <2>9. \A q \in Resolvers : answer[q] # "fetched"
    BY <2>2, <2>3, <1>l DEF LinkInv, Soname, Seen
  <2> QED
    BY <2>1, <2>2, <2>4, <2>5, <2>7, <2>8, <2>9, <1>e, <1>f, <1>l, <1>r DEF LinkInv, Unstamped, Linking
\* Whoever fails or is killed while it makes a link leaves it among those that are lost.
<1>x. ASSUME NEW r \in Resolvers, pc[r] # "out", LeaveLink(r), UNCHANGED <<links, nth, stamp>>,
             pc' = [pc EXCEPT ![r] = "out"],
             \A q \in Resolvers : answer'[q] = "fetched" => answer[q] = "fetched"
      PROVE  LinkInv'
  <2>1. \A q \in Resolvers : pc'[q] = "out"
    BY <1>x, <1>n, <1>t
  <2>2. unmade \subseteq unmade' /\ \A l \in unmade' : l \in unmade \/ (pc[r] = "relink" /\ l = Soname(r))
    BY <1>x DEF LeaveLink
  <2>3. \A l : Seen(l) => Seen(l)'
    BY <1>x, <2>2 DEF Seen
  <2>4. \A l \in unmade' : l \in Sonames /\ links[l] = "gone"
    BY <2>2, <1>f, <1>l, <1>u DEF LinkInv, Linking
  <2>5. \A l \in Sonames : stamp /\ links[l] = "gone" => l \in unmade'
    <3>1. ASSUME NEW l \in Sonames, stamp, links[l] = "gone", l \notin unmade
          PROVE  pc[r] = "relink" /\ Soname(r) = l
      BY <3>1, <1>x, <1>n, <1>l DEF LinkInv
    <3> QED
      BY <3>1, <2>2, <1>x DEF LeaveLink
  <2>6. \A q \in Resolvers : answer'[q] = "fetched" /\ Entry.runtime = "host" =>
          \A i \in ByFile : Seen(Entry.link[i].name)'
    BY <2>3, <1>x, <1>e, <1>l DEF LinkInv
  <2> QED
    BY <1>x, <2>1, <2>4, <2>5, <2>6, <1>e, <1>l, <1>r DEF LinkInv, Unstamped, Linking
<1>23. ASSUME NEW r \in Resolvers, LinkFails(r) PROVE LinkInv'
  <2>1. /\ pc[r] # "out" /\ LeaveLink(r) /\ UNCHANGED <<links, nth, stamp>>
        /\ pc' = [pc EXCEPT ![r] = "out"] /\ answer' = [answer EXCEPT ![r] = "error"]
    BY <1>23 DEF LinkFails, End, Goto
  <2> QED
    BY <2>1, <1>x, <1>t
<1>24. ASSUME NEW r \in Resolvers, Crash(r) PROVE LinkInv'
  <2>1. /\ pc[r] # "out" /\ LeaveLink(r) /\ UNCHANGED <<links, nth, stamp>>
        /\ pc' = [pc EXCEPT ![r] = "out"] /\ answer' = [answer EXCEPT ![r] = "crash"]
    BY <1>24 DEF Crash, End, Goto
  <2> QED
    BY <2>1, <1>x, <1>t
<1>25. ASSUME NEW r \in Resolvers, Fetched(r) PROVE LinkInv'
  <2>1. /\ pc[r] = "links" /\ Linked(r) /\ UNCHANGED <<stamp, links, unmade, nth>>
        /\ answer' = [answer EXCEPT ![r] = "fetched"]
    BY <1>25 DEF Fetched, disk, linking
  <2>2. pc' = [pc EXCEPT ![r] = "copy"] \/ pc' = [pc EXCEPT ![r] = "out"]
    BY <1>25 DEF Fetched, Goto
  <2>3. pc'[r] \in {"copy", "out"} /\ \A q \in Resolvers : q # r => pc'[q] = "out" /\ pc[q] = "out"
    BY <2>1, <2>2, <1>n, <1>t
  <2>4. \A l : Seen(l)' = Seen(l)
    BY <2>1 DEF Seen
  <2>5. Entry.runtime = "host" => \A i \in ByFile : Seen(Entry.link[i].name)
    <3> SUFFICES ASSUME Entry.runtime = "host", NEW i \in ByFile PROVE i < nth[r]
      BY <2>1, <1>l DEF LinkInv, Linking
    <3>1. world \in Worlds /\ Index # 0 /\ nth[r] \in Nat
      BY <2>1, <1>l DEF IInv, TypeInv, AloneInv, LinkInv
    <3>2. nth[r] > Len(Entry.link)
      BY <2>1 DEF Linked
    <3> QED
      BY <3>1, <3>2, LinkEntryIs DEF ByFile
  <2>6. \A q \in Resolvers : answer'[q] = "fetched" /\ Entry.runtime = "host" =>
          \A i \in ByFile : Seen(Entry.link[i].name)
    BY <2>1, <2>5, <1>l, <1>t DEF LinkInv
  <2>7. stamp => \A l \in Sonames : links[l] = "gone" => l \in unmade
    BY <2>1, <2>3, <1>l DEF LinkInv
  <2> QED
    BY <2>1, <2>3, <2>4, <2>6, <2>7, <1>e, <1>f, <1>l, <1>r DEF LinkInv, Unstamped, Linking
<1>26. CASE UNCHANGED <<stamp, links, unmade, nth, pc, answer>>
  <2>1. /\ \A l : Seen(l)' = Seen(l)
        /\ \A r \in Resolvers : Soname(r)' = Soname(r) /\ Linked(r)' = Linked(r)
    BY <1>26, <1>e DEF Seen, Soname, Linked
  <2> QED
    BY <1>26, <2>1, <1>e, <1>l, <1>r DEF LinkInv
<1> QED
  BY <1>1, <1>2, <1>3, <1>4, <1>5, <1>6, <1>7, <1>8, <1>9, <1>10, <1>11, <1>12, <1>13, <1>14, <1>15,
     <1>16, <1>17, <1>18, <1>19, <1>20, <1>21, <1>22, <1>23, <1>24, <1>25, <1>26
  DEF Next, Step, vars, disk, linking

------------------------------------------------------------------------------
(* The theorem                                                              *)

LEMMA InitHolds == Init /\ world.apart => IInv
<1> SUFFICES ASSUME Init, world.apart PROVE IInv
  OBVIOUS
<1> USE DEF Init
<1>1. WorldOK(world)
  BY WorldsAssumption
<1>2. kept \in [Digests -> Done \cup {None}]
  BY <1>1, DoneIs DEF WorldOK
<1>3. TypeInv
  BY <1>2 DEF TypeInv, Phases
<1>4. AloneInv /\ FileInv
  BY DEF AloneInv, FileInv
<1>5. StampInv
  BY NoneAssumption DEF StampInv, Unstamped, Linking, Answers
<1>6. LinkInv
  <2>1. links \in [Sonames -> {"own", "host", "gone"}] /\ nth \in [Resolvers -> Nat \ {0}]
    OBVIOUS
  <2>2. \A r \in Resolvers : pc[r] = "out" /\ answer[r] # "fetched"
    BY NoneAssumption DEF Answers
  <2> QED
    BY <2>1, <2>2 DEF LinkInv, Unstamped, Linking
<1> QED
  BY <1>3, <1>4, <1>5, <1>6 DEF IInv

LEMMA Inductive == IInv /\ [Next]_vars => IInv'
<1> SUFFICES ASSUME IInv, [Next]_vars PROVE IInv'
  OBVIOUS
<1> QED
  BY TypeStep, AloneStep, FileStep, StampStep, LinkStep DEF IInv

LEMMA SoundHere == IInv => PlatformIsSound
<1> SUFFICES ASSUME IInv PROVE PlatformIsSound
  OBVIOUS
<1>1. \A r \in Resolvers : answer[r] = "fetched" => stamp
  BY DEF IInv, StampInv
<1>3. ASSUME NEW r \in Resolvers, answer[r] = "fetched", Entry.runtime = "host"
      PROVE  \A l \in Needed \ unmade : links[l] = "host"
  BY <1>3 DEF IInv, LinkInv, Needed, ByFile, Seen
<1>2. stamp => Whole(dest)
  <2> SUFFICES ASSUME stamp PROVE Whole(dest)
    OBVIOUS
  <2>1. dest = Full(Files)
    BY DEF IInv, StampInv, Installed
  <2>2. Files \in SUBSET Digests
    BY EntryIs DEF IInv, TypeInv, StampInv
  <2> QED
    BY <2>1, <2>2, FullIs DEF Whole, Full
<1> QED
  BY <1>1, <1>2, <1>3 DEF PlatformIsSound, StampedIsWhole, AnswerIsUsable

\* A platform that has its stamp has every file its recipe pins, with the bytes it pins, and a
\* build that was answered with it can use it: every link it needs leads to the host's runtime,
\* unless somebody removed it and was cut off, or refused, before it was made again
\* (fetch_platform, obtain, point_links_at_host).  For any recipes, machines, processes and
\* faults, as long as one resolution runs at a time; it is false of two that overlap.
THEOREM PlatformSound ==
  ASSUME \A w \in Worlds : w.apart
  PROVE  Spec => []PlatformIsSound
<1>1. Init => IInv
  BY InitHolds DEF Init
<1>2. IInv /\ [Next]_vars => IInv'
  BY Inductive
<1>3. IInv => PlatformIsSound
  BY SoundHere
<1> QED
  BY <1>1, <1>2, <1>3, PTL
  DEF Spec
==============================================================================
