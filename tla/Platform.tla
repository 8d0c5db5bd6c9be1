------------------------------- MODULE Platform --------------------------------
(***************************************************************************)
(* A platform package on this machine (services/platform_service.c): the   *)
(* host's own library when it has one, else the files a recipe pins, each  *)
(* downloaded once into an area that every package shares, unpacked beside *)
(* their directory and renamed into it; a stamp says that it is whole.     *)
(* The directory is in the user's cache, and nothing is locked.            *)
(*                                                                         *)
(* A file in the cache has the bytes its digest names ("whole"), others    *)
(* ("wrong"), or is being written ("cut").  A process of curl writes on    *)
(* into the file it made, wherever that has been renamed to.               *)
(***************************************************************************)
EXTENDS PlatformRecipe

CONSTANTS
  Resolvers,   \* molto processes
  None, Torn,
  Worlds,      \* see WorldOK
  MaxFaults    \* bound: things that go wrong

FaultKinds == {"crash", "mirror", "curl", "tool", "link"}

\* doc: the recipe; host: this machine; has: the module of [host] is installed here;
\* runtime: its runtime library is; kept: a download that was spoilt before; apart: one
\* resolution at a time.
WorldOK(w) ==
  /\ DOMAIN w.doc.platforms = 1 .. Len(w.doc.platforms)
  /\ \A p \in Range(w.doc.platforms) :
       DOMAIN p.files = 1 .. Len(p.files) /\ p.link \in Seq([name : STRING, byFile : BOOLEAN])
  /\ RecipeReads(w.doc)
  /\ w.has \in BOOLEAN /\ w.runtime \in BOOLEAN /\ w.kept \in {None, "wrong"}
  /\ w.apart \in BOOLEAN /\ w.faults \in SUBSET FaultKinds

ASSUME WorldsAssumption == \A w \in Worlds : WorldOK(w)
ASSUME BoundAssumption == MaxFaults \in Nat

VARIABLES
  world, faults,
  kept,      \* downloads/<digest>: the file, or None
  part,      \* downloads/<digest>.part
  work,      \* <destination>.fetching/root: what is unpacked in it, or None
  dest,      \* the platform's directory: what is in it, Torn, or None
  stamp,     \* its stamp
  links,     \* the development link of each library in it: "own" as it was unpacked, which
             \* dangles, to the "host"'s file, or "gone"
  unmade,    \* history: those that somebody removed and did not live, or manage, to make
  nth,       \* the link a resolution is at
  beside,    \* the library copied beside an executable
  pc, at,    \* where a resolution is, and the file it is at
  answer     \* history: how the last resolution ended

linking == <<links, unmade, nth>>
disk == <<kept, part, work, dest, stamp, linking, beside>>
vars == <<world, faults, disk, pc, at, answer>>

Index == Choose(world.doc, world.host)
Entry == world.doc.platforms[Index]
Files == {Entry.files[i].digest : i \in DOMAIN Entry.files}
Digests == UNION {{p.files[i].digest : i \in DOMAIN p.files}
                  : p \in UNION {Range(w.doc.platforms) : w \in Worlds}}
File(r) == Entry.files[at[r]].digest
Sonames == UNION {{p.link[i].name : i \in DOMAIN p.link}
                  : p \in UNION {Range(w.doc.platforms) : w \in Worlds}}
Soname(r) == Entry.link[nth[r]].name

Bytes == {"whole", "wrong", "cut"}
Saved(by, has) == [by |-> by, has |-> has]
Answers == {"host", "unserved", "no runtime", "fetched", "error", "crash"}
Trees == {[d \in names |-> "whole"] : names \in SUBSET Digests}
Phases == {"out", "stamp", "clear", "make", "file", "fetch", "fetching", "hash", "keep",
           "unpack", "relocate", "remove", "rename", "record", "tidy",
           "links", "unlink", "relink", "copy", "copying"}

\* Nothing and what is half removed are no file, no tree and no answer.
ASSUME NoneAssumption ==
  /\ None \notin Resolvers \cup Answers \cup Bytes /\ None # Torn
  /\ \A b \in Bytes, r \in Resolvers \cup {None} : Saved(r, b) # None
  /\ \A tree \in Trees : tree # None /\ tree # Torn

Init ==
  /\ world \in Worlds
  /\ faults = 0
  /\ kept = [d \in Digests |-> IF world.kept = None THEN None ELSE Saved(None, world.kept)]
  /\ part = [d \in Digests |-> None]
  /\ work = None /\ dest = None
  /\ stamp = FALSE
  /\ links = [l \in Sonames |-> "gone"] /\ unmade = {} /\ nth = [r \in Resolvers |-> 1]
  /\ beside = None
  /\ pc = [r \in Resolvers |-> "out"]
  /\ at = [r \in Resolvers |-> 1]
  /\ answer = [r \in Resolvers |-> None]

Goto(r, phase) == pc' = [pc EXCEPT ![r] = phase]
End(r, how) == Goto(r, "out") /\ answer' = [answer EXCEPT ![r] = how]
Fault(kind) == kind \in world.faults /\ faults < MaxFaults /\ faults' = faults + 1

------------------------------------------------------------------------------
(* platform_resolve, before anything is fetched                              *)

AnswerFromHost == world.doc.pkgconfig # "" /\ world.has

\* Every library of the host that is linked by its file is installed here.
HostRuntimePresent == (\E i \in DOMAIN Entry.link : Entry.link[i].byFile) => world.runtime

Begin(r) ==
  /\ pc[r] = "out"
  /\ world.apart => \A q \in Resolvers : pc[q] = "out"
  /\ IF AnswerFromHost THEN End(r, "host")
     ELSE IF Index = 0 THEN End(r, "unserved")
     ELSE IF Entry.runtime = "host" /\ ~HostRuntimePresent THEN End(r, "no runtime")
     ELSE Goto(r, "stamp") /\ UNCHANGED answer
  /\ at' = [at EXCEPT ![r] = 1] /\ nth' = [nth EXCEPT ![r] = 1]
  /\ UNCHANGED <<world, faults, kept, part, work, dest, stamp, links, unmade, beside>>

------------------------------------------------------------------------------
(* fetch_platform                                                            *)

LookForStamp(r) ==
  /\ pc[r] = "stamp"
  /\ Goto(r, IF stamp THEN "links" ELSE "clear")
  /\ UNCHANGED <<world, faults, disk, at, answer>>

ClearWork(r) ==
  /\ pc[r] = "clear"
  /\ work' = None
  /\ Goto(r, "make")
  /\ UNCHANGED <<world, faults, kept, part, dest, stamp, linking, beside, at, answer>>

MakeWork(r) ==
  /\ pc[r] = "make"
  /\ work' = IF work = None THEN [d \in {} |-> None] ELSE work
  /\ Goto(r, "file")
  /\ UNCHANGED <<world, faults, kept, part, dest, stamp, linking, beside, at, answer>>

\* Slip: a file that is there under its digest is the file.
FoundExisting(r) == kept[File(r)] # None

\* The hash of the kept file.
Found(r) == kept[File(r)] # None /\ kept[File(r)].has = "whole"

Obtain(r) ==
  /\ pc[r] = "file"
  /\ Goto(r, IF Found(r) THEN "unpack" ELSE "fetch")
  /\ UNCHANGED <<world, faults, disk, at, answer>>

\* The .part of an earlier or another download is removed; curl makes its own.
Download(r) ==
  /\ pc[r] = "fetch"
  /\ part' = [part EXCEPT ![File(r)] = Saved(r, "cut")]
  /\ Goto(r, "fetching")
  /\ UNCHANGED <<world, faults, kept, work, dest, stamp, linking, beside, at, answer>>

\* curl ends its file, wherever it is.
Written(files, r, has) ==
  [files EXCEPT ![File(r)] = IF @ # None /\ @.by = r THEN Saved(None, has) ELSE @]
Received(r) ==
  /\ pc[r] = "fetching"
  /\ \/ kept' = Written(kept, r, "whole") /\ part' = Written(part, r, "whole") /\ UNCHANGED faults
     \/ Fault("mirror") /\ kept' = Written(kept, r, "wrong") /\ part' = Written(part, r, "wrong")
  /\ Goto(r, "hash")
  /\ UNCHANGED <<world, work, dest, stamp, linking, beside, at, answer>>

Failed(r) ==
  /\ pc[r] = "fetching" /\ Fault("curl")
  /\ End(r, "error")
  /\ UNCHANGED <<world, disk, at>>

Hash(r) ==
  /\ pc[r] = "hash"
  /\ IF part[File(r)] # None /\ part[File(r)].has = "whole"
       THEN Goto(r, "keep") /\ UNCHANGED <<part, answer>>
     ELSE part' = [part EXCEPT ![File(r)] = None] /\ End(r, "error")
  /\ UNCHANGED <<world, faults, kept, work, dest, stamp, linking, beside, at>>

Keep(r) ==
  /\ pc[r] = "keep"
  /\ IF part[File(r)] = None THEN End(r, "error") /\ UNCHANGED <<kept, part>>
     ELSE /\ kept' = [kept EXCEPT ![File(r)] = part[File(r)]]
          /\ part' = [part EXCEPT ![File(r)] = None]
          /\ Goto(r, "unpack") /\ UNCHANGED answer
  /\ UNCHANGED <<world, faults, work, dest, stamp, linking, beside, at>>

\* unpack_deb, unpack_rpm, unpack_tarball or untar, into a directory that is there: what the
\* archive has, when the programs take it.  One that is cut short is refused half way.
Unpacks(r) == work # None /\ kept[File(r)] # None /\ kept[File(r)].has # "cut"
Unpack(r) ==
  /\ pc[r] = "unpack" /\ Unpacks(r)
  /\ work' = [d \in DOMAIN work \cup {File(r)} |-> IF d = File(r) THEN kept[d].has ELSE work[d]]
  /\ at' = [at EXCEPT ![r] = IF @ < Len(Entry.files) THEN @ + 1 ELSE @]
  /\ Goto(r, IF at[r] < Len(Entry.files) THEN "file"
             ELSE IF Entry.format = "bottle" THEN "relocate"
             ELSE "remove")
  /\ UNCHANGED <<world, faults, kept, part, dest, stamp, linking, beside, answer>>

\* A program that is missing or gives up: part of the file may be unpacked.  The resolution
\* clears what it worked in.
UnpackFails(r) ==
  /\ pc[r] = "unpack"
  /\ \/ ~Unpacks(r) /\ UNCHANGED faults
     \/ Fault("tool")
  /\ work' = IF work = None THEN None
             ELSE [d \in DOMAIN work \cup {File(r)} |-> IF d = File(r) THEN Torn ELSE work[d]]
  /\ Goto(r, "tidy") /\ answer' = [answer EXCEPT ![r] = "error"]
  /\ UNCHANGED <<world, kept, part, dest, stamp, linking, beside, at>>

\* relocate_tree, signing what it changes: all of it, or an error.
Relocate(r) ==
  /\ pc[r] = "relocate"
  /\ \/ Goto(r, "remove") /\ UNCHANGED <<faults, answer>>
     \/ Fault("tool") /\ Goto(r, "tidy") /\ answer' = [answer EXCEPT ![r] = "error"]
  /\ UNCHANGED <<world, disk, at>>

\* Slip: the old directory is left for the rename to replace.
RemoveOldNot(r) ==
  pc[r] = "remove" /\ Goto(r, "rename")
    /\ UNCHANGED <<world, faults, disk, at, answer>>

\* The stamp is in the directory, and goes with it; a removal may be cut short anywhere.
RemoveOld(r) ==
  /\ pc[r] = "remove"
  /\ \/ dest' = None /\ stamp' = FALSE /\ Goto(r, "rename")
     \/ dest # None /\ dest # Torn /\ dest' = Torn /\ stamp' \in {stamp, FALSE} /\ UNCHANGED pc
  /\ links' = [l \in Sonames |-> "gone"]
  /\ UNCHANGED <<world, faults, kept, part, work, unmade, nth, beside, at, answer>>

MoveInto(r) ==
  /\ pc[r] = "rename"
  /\ IF work # None /\ dest = None
       THEN /\ dest' = work /\ work' = None
            /\ links' = [l \in Sonames |-> "own"] /\ unmade' = {}
            /\ Goto(r, "record") /\ UNCHANGED answer
     ELSE /\ Goto(r, "tidy") /\ answer' = [answer EXCEPT ![r] = "error"]
          /\ UNCHANGED <<dest, work, links, unmade>>
  /\ UNCHANGED <<world, faults, kept, part, stamp, nth, beside, at>>

Record(r) ==
  /\ pc[r] = "record"
  /\ stamp' = (dest # None)
  /\ Goto(r, "tidy")
  /\ answer' = [answer EXCEPT ![r] = IF dest = None THEN "error" ELSE None]
  /\ UNCHANGED <<world, faults, kept, part, work, dest, linking, beside, at>>

Tidy(r) ==
  /\ pc[r] = "tidy"
  /\ work' = None
  /\ Goto(r, IF answer[r] = "error" THEN "out" ELSE "links")
  /\ UNCHANGED <<world, faults, kept, part, dest, stamp, linking, beside, at, answer>>

------------------------------------------------------------------------------
(* The rest of platform_resolve, and platform_copy_runtime                   *)

\* point_links_at_host has nothing to do, or nothing more.
Linked(r) == Entry.runtime # "host" \/ nth[r] > Len(Entry.link)

\* On every resolution: a link that is there and leads elsewhere is to be made again.
PointLinks(r) ==
  /\ pc[r] = "links" /\ ~Linked(r)
  /\ IF Entry.link[nth[r]].byFile /\ links[Soname(r)] = "own"
       THEN Goto(r, "unlink") /\ UNCHANGED nth
     ELSE nth' = [nth EXCEPT ![r] = @ + 1] /\ UNCHANGED pc
  /\ UNCHANGED <<world, faults, kept, part, work, dest, stamp, links, unmade, beside, at, answer>>

\* remove, and then fs_link.
RemoveLink(r) ==
  /\ pc[r] = "unlink" /\ links[Soname(r)] # "gone"
  /\ links' = [links EXCEPT ![Soname(r)] = "gone"]
  /\ Goto(r, "relink")
  /\ UNCHANGED <<world, faults, kept, part, work, dest, stamp, unmade, nth, beside, at, answer>>

MakeLink(r) ==
  /\ pc[r] = "relink" /\ links[Soname(r)] = "gone" /\ dest # None
  /\ links' = [links EXCEPT ![Soname(r)] = "host"]
  /\ nth' = [nth EXCEPT ![r] = @ + 1]
  /\ Goto(r, "links")
  /\ UNCHANGED <<world, faults, kept, part, work, dest, stamp, unmade, beside, at, answer>>

\* The tree is not read, or either call is refused, by the system or because somebody else was
\* there: the resolution fails, and a link it removed stays removed.
LeaveLink(r) == unmade' = IF pc[r] = "relink" /\ links[Soname(r)] = "gone"
                            THEN unmade \cup {Soname(r)} ELSE unmade
LinkFails(r) ==
  /\ pc[r] \in {"links", "unlink", "relink"} /\ ~Linked(r)
  /\ \/ Fault("link")
     \/ pc[r] = "links" /\ dest = None /\ UNCHANGED faults
     \/ pc[r] = "unlink" /\ links[Soname(r)] = "gone" /\ UNCHANGED faults
     \/ pc[r] = "relink" /\ (links[Soname(r)] # "gone" \/ dest \in {None, Torn}) /\ UNCHANGED faults
  /\ End(r, "error")
  /\ LeaveLink(r)
  /\ UNCHANGED <<world, kept, part, work, dest, stamp, links, nth, beside, at>>

\* The build has its answer.
Fetched(r) ==
  /\ pc[r] = "links" /\ Linked(r)
  /\ Goto(r, IF Entry.os = "windows" /\ Entry.bin # <<>> THEN "copy" ELSE "out")
  /\ answer' = [answer EXCEPT ![r] = "fetched"]
  /\ UNCHANGED <<world, faults, disk, at>>

\* The build that asked copies the runtime beside its executable, unless a copy that is newer
\* is there; the copy is written in place.
CopyRuntime(r) ==
  /\ pc[r] = "copy"
  /\ IF beside # None THEN Goto(r, "out") /\ UNCHANGED beside
     ELSE beside' = Torn /\ Goto(r, "copying")
  /\ UNCHANGED <<world, faults, kept, part, work, dest, stamp, linking, at, answer>>
Copied(r) ==
  /\ pc[r] = "copying"
  /\ beside' = "whole"
  /\ Goto(r, "out")
  /\ UNCHANGED <<world, faults, kept, part, work, dest, stamp, linking, at, answer>>

\* A crash loses the process; what it wrote stays as it is.
Crash(r) ==
  /\ pc[r] # "out" /\ Fault("crash")
  /\ End(r, "crash")
  /\ LeaveLink(r)
  /\ UNCHANGED <<world, kept, part, work, dest, stamp, links, nth, beside, at>>

Step(r) ==
  \/ LookForStamp(r) \/ ClearWork(r) \/ MakeWork(r) \/ Obtain(r) \/ Download(r) \/ Received(r)
  \/ Hash(r) \/ Keep(r) \/ Unpack(r) \/ UnpackFails(r) \/ Relocate(r) \/ RemoveOld(r)
  \/ MoveInto(r) \/ Record(r) \/ Tidy(r) \/ PointLinks(r) \/ RemoveLink(r)
  \/ MakeLink(r) \/ LinkFails(r) \/ Fetched(r) \/ CopyRuntime(r) \/ Copied(r)

Next == \E r \in Resolvers : Begin(r) \/ Step(r) \/ Failed(r) \/ Crash(r)

\* A process runs on, and somebody builds again.
Spec == Init /\ [][Next]_vars
             /\ \A r \in Resolvers : WF_vars(Step(r)) /\ WF_vars(Begin(r))

------------------------------------------------------------------------------
Whole(tree) == tree \notin {None, Torn} /\ DOMAIN tree = Files /\ \A d \in Files : tree[d] = "whole"

\* A platform with a stamp has every file its recipe pins, with the bytes it pins, through
\* crashes and mirrors that changed (fetch_platform, obtain).
StampedIsWhole == stamp => Whole(dest)

\* What a build is told to use is there: all of the platform, and links that lead to the host's
\* runtime when it is the host's, although the resolution that fetched it was cut off before it
\* set them, or between two of them (platform_resolve).  Except a link that was removed to be
\* made again, and then was not: none looks for it any more (LinksArePointed is false of it).
Needed == {Entry.link[i].name : i \in {j \in DOMAIN Entry.link : Entry.link[j].byFile}}
AnswerIsUsable ==
  \A r \in Resolvers :
    pc[r] \in {"out", "copy", "copying"} /\ answer[r] = "fetched" /\ world.apart =>
      /\ stamp /\ Whole(dest)
      /\ Entry.runtime = "host" => \A l \in Needed \ unmade : links[l] = "host"

\* The comment at platform_service.c:1050-1052: each link is pointed at the host's own file, on
\* every resolve.
LinksArePointed ==
  \A r \in Resolvers :
    pc[r] = "out" /\ answer[r] = "fetched" /\ world.apart /\ Entry.runtime = "host" =>
      \A l \in Needed : links[l] = "host"

\* The comment at platform_service.c:1182: a runtime library beside an executable is one the
\* linker can load when the build that copies it has returned.
BesideIsWhole == \A r \in Resolvers : pc[r] = "out" /\ answer[r] = "fetched" => beside # Torn

\* Somebody who builds again gets the platform, whatever was left by those who did not finish,
\* if the recipe has one for this machine.
Installs ==
  Index # 0 /\ ~AnswerFromHost /\ (Entry.runtime = "host" => HostRuntimePresent) =>
    <>[](stamp /\ Whole(dest))

\* A platform with its stamp is whole, and one that a build was given can be used.
PlatformIsSound == StampedIsWhole /\ AnswerIsUsable
=============================================================================
