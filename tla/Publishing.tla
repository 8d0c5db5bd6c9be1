------------------------------ MODULE Publishing -------------------------------
(***************************************************************************)
(* One coordinate, from the machine that publishes it to the one that uses *)
(* it: `molto login` (services/credentials_service.c), `molto publish`     *)
(* (commands/publish_command.c, services/pack_service.c), and the resolver *)
(* that asks the registry once and remembers (services/resolve_service.c). *)
(*                                                                         *)
(* The registry is outside this repository: it is what registry_service.c  *)
(* and publish_command.c expect of it, and an answer of it may get lost    *)
(* when what it answers has been done.  The bytes of an archive are Cut  *)
(* or a number: the time it was packed.                                    *)
(***************************************************************************)
EXTENDS Recipe

CONSTANTS
  Recipes,     \* what recipe.toml may say
  None, Cut, Whole,
  Worlds,      \* see WorldOK
  MaxFaults,   \* bound: things that go wrong, edits and lost answers among them
  MaxPacks     \* bound: times an archive is packed

FaultKinds == {"crash", "tar", "network", "lost", "foreign"}

\* os: the machine that builds; way: where the archive comes from; signs: how the registry
\* answers a request to sign, "bad" being a URL or a header that cannot be sent;
\* large: the archive is more than the registry carries; edits: the developer edits while
\* molto runs.
WorldOK(w) ==
  /\ w.os \in OsNames /\ w.way \in {"pack", "file", "find"}
  /\ w.signs \in {"201", "404", "501", "bad"}
  /\ w.large \in BOOLEAN /\ w.dry \in BOOLEAN
  /\ w.edits \in SUBSET {"archive", "recipe"}
  /\ w.faults \in SUBSET FaultKinds

ASSUME WorldsAssumption == \A w \in Worlds : WorldOK(w)
ASSUME BoundsAssumption == MaxFaults \in Nat /\ MaxPacks \in Nat \ {0}

\* Nothing and what is cut off are no bytes, no row and no end of a publish.
Ends == {"refused", "usage", "error", "dry", "published", "crash"}
Packings == 0..MaxPacks + 1
ASSUME NoneAssumption ==
  /\ None \notin Nat \cup Ends /\ Cut \notin Nat /\ None # Cut
  /\ \A doc \in Recipes, bytes \in {None, Cut} \cup Packings :
       [recipe |-> doc, bytes |-> bytes] # None

VARIABLES
  world, faults, packs,
  recipe,                \* recipe.toml, on disk
  beside,                \* the archives beside it: by name, the bytes or None
  creds, fresh,          \* credentials.toml, and credentials.toml.new
  pc, read, digest, token, told,   \* a publish: where it is, what it read, how it ended
  blob, row, yanked,     \* the registry's
  memory,                \* .molto-release.json
  cpc, used              \* a resolution: where it is, and what it ended with

developer == <<recipe, beside>>
publish == <<read, digest, token>>
registry == <<blob, row, yanked>>
consumer == <<memory, cpc, used>>
vars == <<world, faults, packs, developer, creds, fresh, pc, publish, told, registry, consumer>>

Fault(kind) == kind \in world.faults /\ faults < MaxFaults /\ faults' = faults + 1

\* A request of which nothing comes back that is a whole answer with a status: curl gave up, or
\* what it brought is too large or unmarked.
NoAnswer == Fault("network")

Init ==
  /\ world \in Worlds
  /\ faults = 0 /\ packs = 0
  /\ recipe \in Recipes
  /\ beside = [a \in {"packed", "other"} |-> IF a = "other" /\ world.way # "pack" THEN 0 ELSE None]
  /\ creds = None /\ fresh = None
  /\ pc = "out" /\ read = None /\ digest = None /\ token = None /\ told = None
  /\ blob = None /\ row = None /\ yanked = FALSE
  /\ memory = None /\ cpc = "out" /\ used = None

------------------------------------------------------------------------------
(* molto login                                                               *)

\* write_private: a file of its own, then a rename over the credentials.
LoginWrites ==
  /\ fresh = None
  /\ fresh' \in {Cut, Whole}
  /\ UNCHANGED <<world, faults, packs, developer, creds, pc, publish, told, registry, consumer>>

\* What was not written whole is removed; a crash leaves it, for the next login to write over.
LoginReplaces ==
  /\ fresh # None
  /\ creds' = IF fresh = Whole THEN Whole ELSE creds
  /\ fresh' = None
  /\ UNCHANGED <<world, faults, packs, developer, pc, publish, told, registry, consumer>>

------------------------------------------------------------------------------
(* What a publisher reads of its recipe (read_coordinate)                    *)

FormRead(doc) == OneOf(doc, "", "form", {"binary", "source", "platform"})
KeysRead(doc) == \A key \in {"kind", "name", "version", "target"} : IsA(doc, "", key, "string")

\* A package is to be depended on, and a manifest names versions that are semver.
VersionOK(doc) == Says(doc, "", "kind", "package") => ~Says(doc, "", "version", "10.47")

RequiredTables(doc) ==
  IF Form(doc) = "platform" THEN {}
  ELSE IF Form(doc) = "source" THEN {"source", "build", "artifacts"}
  ELSE {At(doc, "", "kind").text}
TablesOK(doc) ==
  /\ Form(doc) = "source" => Says(doc, "", "kind", "package")
  /\ Form(doc) = "binary" => At(doc, "", "kind").text \in {"toolchain", "tool", "package"}
  /\ RequiredTables(doc) \subseteq doc.tables

\* Slip: the tables are there, and nobody looks into [build].
ContentShallow(doc) == ArtifactsOK(doc) /\ ProvideOK(doc)

\* check_content: with the readers of those who will use it.
ContentOK(doc) ==
  IF Form(doc) = "platform" THEN CoordinateOK(doc) /\ doc.platforms = "good"
  ELSE /\ ArtifactsOK(doc) /\ BuildOK(doc) /\ ProvideOK(doc)
       /\ doc.provide # <<>> => System(doc) = "none" \/ Configures(doc)
       /\ Form(doc) = "source" => doc.source = "good"

ArchiveTableOK(doc) == doc.archive \in {"none", "good"}
FromUpstream(doc) == Form(doc) = "binary" /\ doc.archive = "good"

Accepts(doc) ==
  /\ KeysRead(doc) /\ FormRead(doc) /\ VersionOK(doc) /\ TablesOK(doc) /\ ContentOK(doc)
  /\ Form(doc) = "binary" => ArchiveTableOK(doc)

NoBytes(doc) == Form(doc) \in {"source", "platform"} \/ FromUpstream(doc)

------------------------------------------------------------------------------
(* molto publish                                                             *)

Goto(phase) == pc' = phase
End(how) == pc' = "out" /\ told' = how

ReadRecipe ==
  /\ pc = "out" /\ packs < MaxPacks
  /\ read' = recipe /\ digest' = None /\ token' = None
  /\ IF ~Accepts(recipe) THEN End("refused")
     ELSE IF NoBytes(recipe)
       THEN IF world.way = "find" THEN Goto("load") /\ told' = None ELSE End("usage")
     ELSE Goto(IF world.way = "pack" THEN "pack" ELSE "find") /\ told' = None
  /\ packs' = packs + 1
  /\ UNCHANGED <<world, faults, developer, creds, fresh, registry, consumer>>

\* pack_directory: tar writes the archive under its own name.
Pack ==
  /\ pc = "pack"
  /\ beside' = [beside EXCEPT !["packed"] = Cut]
  /\ Goto("packing")
  /\ UNCHANGED <<world, faults, packs, recipe, creds, fresh, publish, told, registry, consumer>>

\* Slip: what tar did not finish stays.
PackFailsKept ==
  /\ pc = "packing" /\ Fault("tar")
  /\ End("error")
  /\ UNCHANGED <<world, packs, developer, creds, fresh, publish, registry, consumer>>

Packed ==
  /\ pc = "packing"
  /\ beside' = [beside EXCEPT !["packed"] = packs]
  /\ Goto("find")
  /\ UNCHANGED <<world, faults, packs, recipe, creds, fresh, publish, told, registry, consumer>>

PackFails ==
  /\ pc = "packing" /\ Fault("tar")
  /\ beside' = [beside EXCEPT !["packed"] = None]
  /\ End("error")
  /\ UNCHANGED <<world, packs, recipe, creds, fresh, publish, registry, consumer>>

\* The archive of this publish; with neither --pack nor --file, the one beside the recipe.
Found == {a \in DOMAIN beside : beside[a] # None}
Archive ==
  IF world.way = "pack" THEN "packed"
  ELSE IF world.way = "file" THEN "other"
  ELSE IF Cardinality(Found) = 1 THEN CHOOSE a \in Found : TRUE
  ELSE None

\* checksum_of, once: the digest stands for the bytes from here on.
HashArchive ==
  /\ pc = "find"
  /\ IF Archive = None \/ (Archive # None /\ beside[Archive] = None)
       THEN End("usage") /\ UNCHANGED digest
     ELSE digest' = beside[Archive] /\ Goto("load") /\ UNCHANGED told
  /\ UNCHANGED <<world, faults, packs, developer, creds, fresh, read, token, registry, consumer>>

LoadCredentials ==
  /\ pc = "load"
  /\ IF creds = None THEN End("error") /\ UNCHANGED token
     ELSE /\ token' = creds
          /\ IF world.dry THEN End("dry")
             ELSE Goto(IF NoBytes(read) THEN "record" ELSE "presign") /\ UNCHANGED told
  /\ UNCHANGED <<world, faults, packs, developer, creds, fresh, read, digest, registry, consumer>>

\* check_signed_url and what is around it.
SignedOK == world.signs = "201"

\* registry_presign_blob: a registry that does not sign is not one that refuses, and neither is
\* one that does not answer.
Presign ==
  /\ pc = "presign"
  /\ \/ NoAnswer /\ End("error")
     \/ UNCHANGED faults /\ IF world.signs \in {"404", "501"} THEN Goto("through") /\ UNCHANGED told
                            ELSE IF row # None \/ ~SignedOK THEN End("error")
                            ELSE Goto("signed") /\ UNCHANGED told
  /\ UNCHANGED <<world, packs, developer, creds, fresh, publish, registry, consumer>>

\* The archive is read from disk as it is sent, and what lands must have the digest.
Lands == beside[Archive] = digest
Upload ==
  /\ \/ pc = "signed"
     \/ pc = "through" /\ ~world.large /\ row = None
  /\ Lands
  /\ blob' = digest
  /\ \/ Goto("record") /\ UNCHANGED <<faults, told>>
     \/ Fault("lost") /\ End("error")
  /\ UNCHANGED <<world, packs, developer, creds, fresh, publish, row, yanked, consumer>>

UploadFails ==
  /\ pc \in {"signed", "through"}
  /\ \/ ~Lands /\ UNCHANGED faults
     \/ pc = "through" /\ (world.large \/ row # None) /\ UNCHANGED faults
     \/ NoAnswer
  /\ End("error")
  /\ UNCHANGED <<world, packs, developer, creds, fresh, publish, registry, consumer>>

\* registry_publish_recipe: the file, as it is on disk when it is sent.  The registry takes a
\* coordinate once, and of a binary one it has measured the blob.
Takes == row = None /\ (NoBytes(recipe) \/ blob # None)
Record ==
  /\ pc = "record" /\ Takes
  /\ row' = [recipe |-> recipe, bytes |-> IF NoBytes(recipe) THEN None ELSE blob]
  /\ \/ End("published") /\ UNCHANGED faults
     \/ Fault("lost") /\ End("error")
  /\ UNCHANGED <<world, packs, developer, creds, fresh, publish, blob, yanked, consumer>>

RecordFails ==
  /\ pc = "record"
  /\ \/ ~Takes /\ UNCHANGED faults
     \/ NoAnswer
  /\ End("error")
  /\ UNCHANGED <<world, packs, developer, creds, fresh, publish, registry, consumer>>

------------------------------------------------------------------------------
(* The consumer: resolve_remembered, resolve_version, resolve_remember       *)

Consumer(phase) == cpc' = phase
Answer == [asked |-> TRUE, row |-> row]
Foreign == [asked |-> FALSE, row |-> [recipe |-> CHOOSE r \in Recipes : ConsumerReads(r), bytes |-> Cut]]

\* read_artifact of an answer that is whole: that of the coordinate that was asked for.
Reads(answer) == answer \notin {None, Cut} /\ answer.asked /\ ConsumerReads(answer.row.recipe)

Remembered ==
  /\ cpc = "out"
  /\ IF Reads(memory) THEN used' = memory.row /\ Consumer("select")
     ELSE Consumer("ask") /\ used' = None
  /\ UNCHANGED <<world, faults, packs, developer, creds, fresh, pc, publish, told, registry, memory>>

\* choose_artifact: nothing but a recipe for any target can be used, and a yanked one by no new
\* build.
Chosen == Says(row.recipe, "", "target", "any") /\ ~yanked

\* Not published, not to be chosen, another coordinate's recipe, or one that cannot be read.
Refuses ==
  /\ cpc = "ask"
  /\ \/ row = None /\ UNCHANGED faults
     \/ row # None /\ (~Chosen \/ ~Reads(Answer)) /\ UNCHANGED faults
     \/ Fault("foreign")
  /\ Consumer("out") /\ used' = None
  /\ UNCHANGED <<world, packs, developer, creds, fresh, pc, publish, told, registry, memory>>

\* Slip: whatever the registry answers is taken.
AskedAnyone(answer) == ConsumerReads(answer.row.recipe)

\* The answer, when it is the answer to what was asked.
Asked(answer) == Reads(answer)
Ask ==
  /\ cpc = "ask" /\ row # None /\ Chosen
  /\ \E answer \in {Answer} \cup (IF "foreign" \in world.faults THEN {Foreign} ELSE {}) :
       /\ Asked(answer)
       /\ used' = answer.row
  /\ Consumer("remember")
  /\ UNCHANGED <<world, faults, packs, developer, creds, fresh, pc, publish, told, registry, memory>>

\* fs_write_file, in place: what is read of it before it is whole is not JSON.
Remember ==
  /\ cpc \in {"remember", "remembering"}
  /\ IF cpc = "remember" THEN memory' = Cut /\ Consumer("remembering")
     ELSE memory' = [asked |-> TRUE, row |-> used] /\ Consumer("select")
  /\ UNCHANGED <<world, faults, packs, developer, creds, fresh, pc, publish, told, registry, used>>

\* dep_graph_select_os: the lists of this platform, if they fit.
Select ==
  /\ cpc = "select"
  /\ used' = IF SelectsOs(used.recipe, world.os) THEN used ELSE None
  /\ Consumer("out")
  /\ UNCHANGED <<world, faults, packs, developer, creds, fresh, pc, publish, told, registry, memory>>

------------------------------------------------------------------------------
(* Around them                                                               *)

Edit ==
  /\ pc # "out" /\ faults < MaxFaults /\ faults' = faults + 1
  /\ \/ "archive" \in world.edits /\ world.way = "file"
          /\ beside' = [beside EXCEPT !["other"] = MaxPacks + 1] /\ UNCHANGED recipe
     \/ "recipe" \in world.edits /\ recipe' \in Recipes \ {recipe} /\ UNCHANGED beside
  /\ UNCHANGED <<world, packs, creds, fresh, pc, publish, told, registry, consumer>>

Yank ==
  /\ row # None /\ ~yanked
  /\ yanked' = TRUE
  /\ UNCHANGED <<world, faults, packs, developer, creds, fresh, pc, publish, told, blob, row, consumer>>

Crash ==
  /\ Fault("crash")
  /\ \/ pc # "out" /\ End("crash") /\ UNCHANGED cpc
     \/ cpc # "out" /\ Consumer("out") /\ UNCHANGED <<pc, told>>
  /\ UNCHANGED <<world, packs, developer, creds, fresh, publish, registry, memory, used>>

\* After a crash of a publish that packed, the developer may publish what is beside the recipe.
PublishBeside ==
  /\ pc = "out" /\ world.way = "pack" /\ Found # {} /\ packs < MaxPacks
  /\ world' = [world EXCEPT !.way = "find"]
  /\ UNCHANGED <<faults, packs, developer, creds, fresh, pc, publish, told, registry, consumer>>

Publish ==
  ReadRecipe \/ Pack \/ Packed \/ HashArchive \/ LoadCredentials \/ Presign \/ Upload
    \/ UploadFails \/ Record \/ RecordFails
Resolve == Remembered \/ Refuses \/ Ask \/ Remember \/ Select

Next ==
  LoginWrites \/ LoginReplaces \/ Publish \/ PackFails \/ Resolve \/ Edit \/ Yank \/ Crash
    \/ PublishBeside

Spec == Init /\ [][Next]_vars

------------------------------------------------------------------------------
\* "The bytes first and the row last": a binary coordinate that anybody can see has the bytes of
\* an archive that was packed to its end, although tar fails, the developer rebuilds it and
\* answers get lost on the way (publish_command.c:788).
RowHasBytes ==
  row # None /\ ~NoBytes(row.recipe) => row.bytes = blob /\ blob \notin {None, Cut}

\* Whoever is told that it is published has published what it read and hashed, and one that is
\* told of a dry run has sent nothing.
ToldIsDone ==
  /\ told = "published" =>
       row # None /\ row.recipe = read /\ (~NoBytes(read) => row.bytes = digest)
  /\ told = "dry" => row = None /\ blob = None

\* What is sent to be published can be read by those who will use it, and is refused by the older
\* molto that would skip what it does not know: a coordinate cannot be taken back (check_content).
PublishedCanBeUsed ==
  row # None /\ Says(row.recipe, "", "kind", "package") =>
    ConsumerReads(row.recipe) /\ OlderRefuses(row.recipe)

\* The same comment, of a package whose lists are read on another platform than the publisher's.
PublishedBuildsEverywhere ==
  row # None /\ Form(row.recipe) = "source" => \A os \in OsNames : SelectsOs(row.recipe, os)

\* What a build uses is what the registry holds under the coordinate, whether it was asked just
\* now or remembered from an answer whose writing was cut off, and also when it answered
\* something else (resolve_remembered, check_coordinate).
UsedIsPublished ==
  used # None => row # None /\ used = row /\ ConsumerReads(used.recipe)

\* The comment at pack_service.c:181: what tar was part-way through writing is not published.
PublishedIsWhole == blob # Cut

\* A row that anybody can see has the bytes of a whole archive, and what the publisher is told is
\* what happened, whatever tar and the registry do on the way (publish_command_run, pack_directory).
PublishIsSound == RowHasBytes /\ ToldIsDone
=============================================================================
