------------------------------ MODULE Frontends ------------------------------
(***************************************************************************)
(* Who describes a directory: the plugins that a machine offers            *)
(* (services/plugin_service.c) and the choice among those that can read    *)
(* the directory (services/frontend_service.c).                            *)
(*                                                                         *)
(* A plugin's name is a number, in the order of strcmp, and 0 stands for   *)
(* every name that is not one.  A directory is a function from the plugins *)
(* whose program it holds to whether that may be executed, and dirs is the *)
(* install directory and then the entries of PATH.                         *)
(***************************************************************************)
EXTENDS Naturals, Sequences, FiniteSets, SequencesExt, TLC

CONSTANTS
  Schema,         \* what this molto speaks
  MaxListed,      \* plugins that a listing has room for
  MaxCandidates   \* frontends that a choice has room for

Valid(name) == name # 0
InDirectory(dir, name) == name \in DOMAIN dir /\ dir[name]

\* Where the program of a plugin would be run from: the install directory, then PATH.
PluginResolve(dirs, name) ==
  LET holders == {d \in DOMAIN dirs : Valid(name) /\ InDirectory(dirs[d], name)}
  IN  IF holders = {} THEN 0 ELSE CHOOSE d \in holders : \A e \in holders : d <= e

------------------------------------------------------------------------------
(* The listing                                                               *)

Listed(list, name) == \E i \in DOMAIN list : list[i].name = name

\* One plugin, unless an earlier directory has claimed the name.
AddEntry(state, d, name) ==
  CASE Listed(state.list, name) -> state
    [] Len(state.list) = MaxListed -> [state EXCEPT !.room = FALSE]
    [] OTHER -> [state EXCEPT !.list = Append(@, [name |-> name, dir |-> d])]

SortedFrom(list, before) ==
  SubSeq(list, 1, before) \o SortSeq(SubSeq(list, before + 1, Len(list)), LAMBDA a, b : a.name < b.name)

\* entries is the order of readdir.
ScanDirectory(state, d, dir, entries) ==
  LET scanned == FoldLeft(LAMBDA sofar, name :
                            IF sofar.room /\ Valid(name) /\ InDirectory(dir, name) THEN AddEntry(sofar, d, name)
                            ELSE sofar, state, entries)
  IN  [scanned EXCEPT !.list = SortedFrom(@, Len(state.list))]

\* A listing that is full is no listing.
PluginList(dirs, orders) ==
  FoldLeft(LAMBDA state, d : IF state.room THEN ScanDirectory(state, d, dirs[d], orders[d]) ELSE state,
           [list |-> <<>>, room |-> TRUE], [d \in DOMAIN dirs |-> d])

------------------------------------------------------------------------------
(* What an install leaves, and a removal                                     *)

Nothing == [binary |-> FALSE, json |-> FALSE, toml |-> FALSE]
PlaceBinary(kept) == [kept EXCEPT !.binary = TRUE]
PlaceRecipe(kept) == [kept EXCEPT !.json = TRUE]
PluginInstall(kept) == PlaceRecipe(PlaceBinary(kept))

\* What molto did not install is not molto's to remove.
PluginRemove(kept) == IF kept.binary THEN Nothing ELSE kept

HasRecipe(kept) == kept.toml \/ kept.json

------------------------------------------------------------------------------
(* The choice                                                                *)

\* A recipe: schema, molto (whether this one is new enough), frontend, extensions.
FrontendCompatible(recipe) == recipe.schema = Schema /\ recipe.molto

EntryPresent(files, recipe) == \E i \in DOMAIN recipe.extensions : recipe.extensions[i] \in files

\* A world: what is kept of each plugin, PATH, the recipes, the files of the directory, and what
\* each plugin answers.
DirsOf(world) == <<[n \in {n \in DOMAIN world.kept : world.kept[n].binary} |-> TRUE]>> \o world.path

IsCandidate(world, name) ==
  HasRecipe(world.kept[name]) /\ world.recipes[name].frontend /\ EntryPresent(world.files, world.recipes[name])

FrontendCandidates(world, orders) ==
  LET listing == PluginList(DirsOf(world), orders)
      found == SelectSeq(listing.list, LAMBDA e : IsCandidate(world, e.name))
  IN  [room |-> listing.room /\ Len(found) <= MaxCandidates, found |-> found]

\* A document names who wrote it, the files it came from, and no dependency.
AnswerIsSound(name, answer) == answer.origin = name /\ answer.files_read > 0 /\ answer.dependencies = 0

\* An answer: how the exchange ended, the exit code, whether the text is a document, what it
\* says, and whether it is within its bounds.
FrontendAsk(world, name) ==
  LET answer == world.answers[name]
  IN  CASE ~FrontendCompatible(world.recipes[name]) -> "failed"
        [] answer.ran # "ok" -> "failed"
        [] answer.code = 3 -> "none"
        [] answer.code # 0 -> "failed"
        [] answer.reads /\ AnswerIsSound(name, answer) /\ answer.valid -> "ok"
        [] OTHER -> "failed"

\* What is not declined is the answer, also when it is a failure.
Asked(world, found) == SelectSeq(found, LAMBDA e : FrontendAsk(world, e.name) # "none")

FrontendRun(world, orders) ==
  LET choice == FrontendCandidates(world, orders)
      asked == Asked(world, choice.found)
  IN  CASE world.manifest -> [result |-> "ok", by |-> <<>>]
        [] ~choice.room -> [result |-> "failed", by |-> <<>>]
        [] asked = <<>> -> [result |-> "none", by |-> <<>>]
        [] OTHER -> [result |-> FrontendAsk(world, asked[1].name), by |-> <<asked[1].name>>]
=============================================================================
