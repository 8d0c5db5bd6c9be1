---------------------------- MODULE PlatformRecipe -----------------------------
(***************************************************************************)
(* What a platform recipe says and which of its platforms serves a machine *)
(* (services/platform_service.c, before anything is fetched).  A path is   *)
(* the sequence of its segments, "" first when it is absolute; a library   *)
(* is a record of the form it is linked by.  Versions are the numbers      *)
(* between their dots.                                                     *)
(***************************************************************************)
EXTENDS Naturals, Integers, Sequences, FiniteSets, SequencesExt

CONSTANTS
  MaxFiles,      \* PLATFORM_MAX_FILES
  MaxPlatforms   \* PLATFORM_MAX

ASSUME LimitAssumption == MaxFiles \in Nat \ {0} /\ MaxPlatforms \in Nat \ {0}

Oses == {"linux", "macos", "windows"}
Arches == {"x86_64", "aarch64"}
Formats == {"deb", "rpm", "pacman", "bottle"}
Runtimes == {"host", "bundled"}
ForeignTables == {"source", "build", "provide", "artifacts", "deps"}

Absent == "(absent)"

------------------------------------------------------------------------------
(* Reading                                                                   *)

\* One segment: lowercase, nothing that separates, and no dot first.
IsSegment(name) == name \notin {Absent, "", "..", ".hidden", "a/b", "A"}

\* stays_inside, and a version of it that looks at the front of a path alone: the slip.
StaysInsideFront(path) == path # <<>> /\ Head(path) \notin {"", "..", "c:"}
StaysInside(path) ==
  path # <<>> /\ Head(path) # "" /\ \A i \in DOMAIN path : path[i] \notin {"..", "c:"}

FileOK(file) == file.https /\ file.digest # Absent

FilesOK(entry) ==
  Len(entry.files) \in 1..MaxFiles /\ \A i \in DOMAIN entry.files : FileOK(entry.files[i])

PathsOK(entry, key) == \A i \in DOMAIN entry[key] : StaysInside(entry[key][i])

\* A name that is no option, whether it is linked as -lname or as -l:file.
LinkIsName(library) == library.name \notin {"", "-rpath", "a/b"}

EntryOK(entry) ==
  /\ IsSegment(entry.name)
  /\ entry.os \in Oses /\ entry.arch \in Arches
  /\ entry.distro_version # Absent => entry.distro # Absent
  /\ entry.distro # Absent => entry.os = "linux"
  /\ entry.format \in Formats /\ entry.runtime \in Runtimes
  /\ PathsOK(entry, "include") /\ PathsOK(entry, "lib") /\ PathsOK(entry, "bin")
  /\ FilesOK(entry)
  /\ \A i \in DOMAIN entry.link : LinkIsName(entry.link[i])

\* doc: the tables beside the platforms, the module of [host], and the platforms.
RecipeReads(doc) ==
  /\ doc.tables \cap ForeignTables = {}
  /\ doc.pkgconfig \notin {"a/b", "-libs"}
  /\ Len(doc.platforms) \in 1..MaxPlatforms
  /\ \A i \in DOMAIN doc.platforms : EntryOK(doc.platforms[i])
  /\ \A i, j \in DOMAIN doc.platforms : doc.platforms[i].name = doc.platforms[j].name => i = j

\* What the lock file compares (platform_recipe_digest).
Digest(doc) ==
  [i \in DOMAIN doc.platforms |->
    <<doc.platforms[i].name,
      [j \in DOMAIN doc.platforms[i].files |-> doc.platforms[i].files[j].digest]>>]

------------------------------------------------------------------------------
(* This machine                                                              *)

\* platform_host_read_os_release: the last line of each name, whatever is around it.
LastOf(lines, key) ==
  LET said == {i \in DOMAIN lines : lines[i].key = key}
  IN  IF said = {} THEN Absent ELSE lines[CHOOSE i \in said : \A j \in said : j <= i].value
OsRelease(lines) == [distro |-> LastOf(lines, "ID"), distro_version |-> LastOf(lines, "VERSION_ID")]

\* platform_version_compare: a number that is not there is zero.
Number(version, i) == IF i \in DOMAIN version THEN version[i] ELSE 0
VersionCompare(a, b) ==
  LET apart == {i \in DOMAIN a \cup DOMAIN b : Number(a, i) # Number(b, i)}
      at == CHOOSE i \in apart : \A j \in apart : i <= j
  IN  CASE apart = {} -> 0
        [] Number(a, at) < Number(b, at) -> -1
        [] OTHER -> 1

Matches(entry, host) ==
  /\ entry.os = host.os /\ entry.arch = host.arch
  /\ entry.distro \in {Absent, host.distro}
  /\ entry.distro_version \in {Absent, host.distro_version}
  /\ entry.os_version_min # <<>> /\ host.os_version # <<>> =>
       VersionCompare(host.os_version, entry.os_version_min) >= 0

Serving(doc, host) == {i \in DOMAIN doc.platforms : Matches(doc.platforms[i], host)}

\* platform_choose: the first, or 0 when none serves this machine.
Choose(doc, host) ==
  IF Serving(doc, host) = {} THEN 0
  ELSE CHOOSE i \in Serving(doc, host) : \A j \in Serving(doc, host) : i <= j

------------------------------------------------------------------------------
(* The answer                                                                *)

\* platform_dir: a name, a version and a platform that can be three directories.
PlatformDir(name, version, platform) ==
  IF IsSegment(name) /\ IsSegment(platform) /\ version \notin {"", "1/2", ".."}
    THEN <<"platforms", name, version, platform>>
  ELSE <<>>

UnderRoot(root, paths) == [i \in DOMAIN paths |-> root \o paths[i]]

\* describe: what goes on the command lines of a consumer.
SearchPaths(entry, root) == IF entry.runtime = "bundled" THEN UnderRoot(root, entry.lib) ELSE <<>>
Rpaths(entry, root) == IF entry.os = "windows" THEN <<>> ELSE SearchPaths(entry, root)
Describe(entry, root) ==
  [answered |-> entry.name,
   includes |-> UnderRoot(root, entry.include),
   search |-> SearchPaths(entry, root),
   rpaths |-> Rpaths(entry, root),
   links |-> entry.link,
   runtime_dirs |-> UnderRoot(root, entry.bin)]

------------------------------------------------------------------------------
(* What the reading is for                                                   *)

\* Where a path leads, one segment at a time; <<"up">> when it leaves the directory it starts in.
Leads(path) ==
  FoldLeft(LAMBDA sofar, segment :
             CASE sofar = <<"up">> -> sofar
               [] segment = ".." -> IF sofar = <<>> THEN <<"up">> ELSE Front(sofar)
               [] segment = "." -> sofar
               [] OTHER -> Append(sofar, segment), <<>>, path)

\* A recipe that is read gives a consumer only directories inside its own and libraries that are
\* names, on a machine it serves, whose minimum is met.
AnswersInside(doc, host, name, version) ==
  LET i == Choose(doc, host)
      root == PlatformDir(name, version, doc.platforms[i].name)
      answer == Describe(doc.platforms[i], root)
      within(path) == Leads(path) # <<"up">> /\ IsPrefix(root, Leads(path))
  IN  RecipeReads(doc) /\ i # 0 /\ root # <<>> =>
        /\ \A key \in {"includes", "search", "rpaths", "runtime_dirs"} :
             \A k \in DOMAIN answer[key] : within(answer[key][k])
        /\ \A j \in DOMAIN doc.platforms : Matches(doc.platforms[j], host) => i <= j
        /\ Len(doc.platforms[i].files) >= 1
        /\ answer.rpaths # <<>> => host.os # "windows"
=============================================================================
