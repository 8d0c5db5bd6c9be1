# A TLA+ verification project for molto

molto is a build tool and package manager for C: it reads `Project.toml`, resolves and fetches
dependencies, compiles and links incrementally, and runs tests, plugins, formatters and linters.
This directory models the parts of it whose correctness depends on order, failure and staleness,
checks them with TLC on small instances, and proves some of them with TLAPS for every instance.

Paths below are relative to `src/src/` (headers: `src/include/molto/`). `PROJECT.json` names, for
every definition, the lines it stands for.

## 1. Inventory

| part | source | state it keeps | operations | what is hard | what makes it correct | here |
|---|---|---|---|---|---|---|
| task pool | `util/task_pool.c` | a deque per worker, `pending`, `shutdown`, two condition variables | create, submit, wait, destroy; a worker pops, steals, runs, parks | threads, lost wakeups, refused submits, half-made pools | every task once, `wait` is a barrier and returns, nothing is freed under a thread | `TaskPool` |
| build and workspace database | `services/build_*.c`, `workspace/wsdb.c`, `build/depfile.c` | objects, the binary, `.bin/wsdb` (records and memo), the lock on it | plan, compile in two passes, record, link, prune, save; clean | staleness, edits during a build, crashes before the save, failures of one unit, two sources of one object | what is skipped is current, success means the binary of a clean build, objects stay apart | `Build`, `IrTransform` |
| child processes | `services/process_service.c` | two pipes, a child, a deadline | execute and capture, exchange a document | full pipes both ways, hangs, half answers | no deadlock, whole answers only, no child left | `Exchange` |
| dependency graph | `services/dep_graph.c`, `resolve_service.c`, `deps_service.c` | the graph, its queue, remembered answers | walk, widen, report a conflict, search a proposal, fetch, select for a target | order of arrival, cycles, repeated trials, bounds | the graph is what the tables reach, conflicts are real, proposals settle | `DepGraph`, `Publishing` |
| lock and prepared build | `project/lockfile.c`, `services/build_prepare.c`, `conflict_prompt.c` | `Molto.lock`, `Project.toml` | match, resolve or ask, verify, write | edits between builds, upstream changes, cut writes | same bytes, no refusal without a cause | `Lock` |
| source cache | `services/source_service.c`, `package_service.c`, `fs_service.c` | a directory per coordinate, its stamp, its working directory | look, clear, download, verify, unpack, prune, install, stamp, sweep | several processes, crashes at any step, no lock | a stamp means whole, a used tree stays whole | `Fetch` |
| object cache | `services/object_cache.c`, `build_compile.c` | objects by key, shared by every project | key, take, offer | trees that are configured anew between look and offer, cut copies | an object that is taken is what this build would have compiled | `ObjectCache` |
| platform packages | `services/platform_service.c`, `platform_formats.c` | downloads by digest, a directory per platform, links to the host's libraries | choose an entry, download, verify, unpack, install, stamp, link, copy | as the source cache, and a cut copy beside an executable | a stamp means whole, an answer can be used, building again installs | `PlatformRecipe`, `Platform` |
| configure step | `services/configure_service.c`, `compile_lines.c` | a stamp with a fingerprint, a list of sources, a lock file, in the shared cache | run a package's own configure once per setting, learn what it compiles | two builds with different settings, a crash half way, a lock that is tried once | a build compiles what its own setting configured (but see section 5) | `Configure`, `CompileLines` |
| reports | `build/report.c`, `util/viewport.c`, `progress.c`, `loader.c`, `thread.c` | the table of running units, the tally, the drawer thread, the rows of the region | started, done, message, draw, stop | workers, drawer and messages share a table and a terminal that changes its height | the screen is what was said, the tally is true, the command ends | `Report` |
| tests | `services/build_tests.c`, `build_link.c`, `commands/test_command.c` | test executables, archives and their records | plan, compile, archive, link, prune, run in order | isolated tests, replacements, entries, a link that fails | every test is in one executable that holds what was declared and what the sources say now | `Suite` |
| manifest | `util/toml.c`, `util/doc.c`, `project/project_ctx.c`, `project_deps.c`, `manifest_edit.c` | `Project.toml` | parse, read, refuse; add and remove by line | arrays of tables, long and short forms, comments | an edit changes one entry and nothing else | `Toml`, `Manifest` |
| values | `util/semver.c`, `glob.c`, `str_map.c`, `build/diff.c`, `util/json.c` | none, or a table | compare, match, look up, diff | boundaries, growth, removal from a probed table | agree with a reference definition | `Algorithms`, `StrMap` |
| representation and plugins | `services/ir_*.c`, `frontend_*.c`, `plugin_service.c` | installed plugins, a document | install, list, choose, ask, read, validate, transform, lower | order of directories, unknown nodes, paths that leave their bounds, scopes | a document is understood whole or refused, a line carries what the manifest says of its source | `IrDocument`, `IrValidate`, `IrTransform`, `Frontends` |
| publishing, registry | `commands/publish_command.c`, `services/pack_service.c`, `registry_service.c`, `recipe_service.c`, `resolve_service.c` | an archive, the row and bytes of a coordinate, remembered answers, the token | check, pack, upload, record, yank; ask, hold against the coordinate, remember | lost answers, edits between hash and upload, cut archives, older readers | a row has its bytes, who is told is told the truth, what is used was published | `Recipe`, `Publishing` |
| lint, format | `services/lint_service.c`, `fmt_service.c`, `style_translate.c` | none | run a tool over files | none beyond the processes | | no |
| toolchain, host | `services/toolchain_service.c`, `tool_service.c`, `host_service.c` | none | probe | none | | no |
| command line, settings, diagnostics, accounts, bill of materials | `cli.c`, `util/cli.c`, `commands/*`, `build/compile_db.c`, `diagnostic*.c`, `services/sbom_service.c` | the credentials file | parse, dispatch, compose, lay out | wording and syntax | | in part (section 7) |

How they meet. A `build` command opens the workspace (the lock on `.bin`, then the database),
prepares the build (reads the manifest and the lock, resolves the graph, which asks the registry
and fills the source cache, verifies, writes the lock), configures packages that need it, and
plans: the database says which units are stale, the object cache may answer for packages. Stale
units go to the task pool, whose workers run compilers through the process service and tell the
report; the main thread records what succeeded, links, prunes and saves. Plugins are spoken to
through the process service as well. The caches are the user's and shared by every project; the
workspace is locked, the caches are not.

The hazards, each at its line and with the properties that look for it, are in `PROJECT.json`.

## 2. Modules

| module | models | what it is held against |
|---|---|---|
| `TaskPool` | `util/task_pool.c` | `TaskBatch`: the contract in `util/task_pool.h` |
| `Build` | planning, passes, linking, pruning and saving over the workspace database | a clean build (`CleanBinary`) |
| `Exchange` | `services/process_service.c` and a child with its pipes | |
| `DepGraph` | `services/dep_graph.c` | reachability of coordinates (`Edges`) |
| `Lock` | the lock file around a resolution | |
| `Fetch` | one directory of the source cache and the processes that fill it | |
| `Configure`, extended by `ObjectCache` | packages that configure themselves, the builds that share them and the objects made of them | what a build asked (`Asked`) |
| `CompileLines` | what a configured build says it compiles | how a shell and make read the same text |
| `Report` | the report of a build and the terminal below it | the log of what was said |
| `PlatformRecipe`, used by `Platform` | a platform package, from its recipe to its directory | |
| `Recipe`, used by `Publishing` | one coordinate, from its publisher to its consumer | |
| `StrMap` | `util/str_map.c` | `Dictionary`: the contract in `util/str_map.h` |
| `Algorithms` | semver, glob and the unified diff | the order of semver.org, the meaning of a pattern, the application of a diff |
| `Toml`, `Manifest` | `Project.toml` as lines, as a document, as a project, and its edits | the lines and the entries that an edit is not about |
| `IrDocument`, `IrValidate`, `IrTransform`, `Frontends` | the document of a project, who writes it, what is made of it and where the objects go | |
| `Suite` | `molto test`, again and again over one directory | what the manifest says of each test; a suite made from nothing (`Anew`) |
| `MC...` | the instances for TLC: constants, worlds and questions. `MCDocuments` and `MCValues` also state what the algorithms are held against. `TaskPool` and `Exchange` are run as they are | |
| `Primitives_proofs` (of `TaskPool`, `Exchange`, `StrMap` and `Report`), `DepGraph_proofs`, `Lock_proofs`, `Build_proofs` (with `Suite`), `Fetch_proofs`, `Platform_proofs`, `Publishing_proofs`, `Configure_proofs` (with `ObjectCache`) | theorems and their proofs | |

`MCValues` extends `MCDocuments`, and they instantiate the modules of
algorithms; it has `StrMap` and, by way of `MCSuite`, `Suite` beside them, each going on while the others rest; the other modules stand alone, and meet through what one promises and another assumes:
`Build` takes the barrier `TaskPool` gives, `Lock` the reachability `DepGraph` is checked against,
`Suite` the objects `Build` leaves, `ObjectCache` runs inside `Configure`.

Operators whose comment begins with "Slip:" are plausible bugs, one per property, that no
specification uses: replacing the definition below them with one of them makes its property fail.

### TaskPool

One step is what a thread does between two points at which another can observe it: a deque
operation under the deque's mutex, one atomic, one hold of a mutex. The test and the sleep of a
wait are two steps, because `pending` and `shutdown` are written without the mutex that the
sleeper holds. `pc[w]` follows `worker_main`, `pool_next_task`, `pool_mark_done` and `pool_park`;
`caller` follows the four calls of the thread that owns the pool. `stage` and `runs` are history.
The peers a thief visits are taken in any order, which includes the code's pseudo-random start.
Deques are sequences, top first: the array, which slides and grows, is left out, except that growing
may fail. Condition variables may wake without a signal.

### Build

State: the files (`text`, `stamp`), what is in the target directory (`obj`, `newer`, `bin`), the saved
database and the one in memory (`disk`, `mem`), the shared object cache, and the phase (`pc`) with
its work list. A content is a number and its own hash, so no collisions; every write advances a
file's stamp, so the memo of `current_hash` is right about a file that was not written. An object
is the record of what its compiler read. `Submit`, `Compile` and `Edit` interleave freely, as
the pool's workers and an editor do; recording (`CheckUnit`, then `Absorb`) is the main thread after the
barrier that `TaskPool` provides. Two molto processes never run at once in one workspace: the kernel's lock
sees to that, and drops when the process dies (`Crash`).

A *world* says when the developer may edit which kind of file, whether an edit may bring an old
content back, and what may go wrong. The passing run covers two:

* `Forward`: nothing gets an old content back; sources may be edited at any moment, also while they
  are compiled; crashes, failed saves, failed compiles and links, and cleans happen.
* `Calm`: contents may come back, files may come back after removal, but nothing is edited while a
  pass runs; failed compiles and links, and cleans happen, not crashes.

What lies outside is where the code does not keep the promise: a source edited while compiled and
then restored (section 5); a header saved between the compiler's read and the record,
whose new hash is recorded with the old object (`set_prereqs`, wsdb.c:206, against the comment at
wsdb.c:65, "The content hash each prerequisite had when this artifact was built"); a crash between compile
and save, or a save that fails, followed by a restored content (wsdb.c:553). `FreshIsRight` does
not hold in the two last, `RecordMatchesObject` not in the second. A source that is saved between `CheckUnit` and `Absorb` is the same
window, a few microseconds wide.

### Exchange

Bytes are counted, not spelled. The child is any program: it commits to a read or a write before
it can know whether that blocks. `Poll` takes down which ends are ready, `WriteChunk`,
`ReadChunk` and `Clock` are the rest of one turn of `exchange_pump`; `End`, `Kill` and `Wait` are its way out (`phase` is where in `exchange_pump` and behind it molto is).
A *willing* child takes its next step whenever it can; a *stuck* one may stop for ever with its
output open; a *closing* one may stop after closing both ends. Windows and `process_run` are
left out.

### DepGraph

A coordinate is a name with a registry version or a place (a path, an archive, a git reference).
Recipes are chosen when a coordinate is first asked for and stay, so one run covers every universe
of packages that `Recipes` allows. `Visit...` are the branches of `visit_one` on the head of
the queue; a failure ends the real walk or a trial of the search (`WalkFails`). Whether the caller
wants a proposal is a choice made at the conflict. `materialize` and `dep_graph_select_os` follow. One
registry; `provide_all` shows as one more way for the fetch to fail.

### Lock

The two tables are one set of coordinates; resolving is reachability, which is what `DepGraph` is shown to
compute. One action is one step of `build_prepare_and_lock` on a file or on the graph. The developer
may edit the manifest while a build runs; upstream may change what a coordinate serves at any
time; `DeleteLock` is what a refusal tells the developer to do. Host answers are left out. No lock, and one
that does not parse, is the empty set of packages, which fits no manifest that declares something; `lock`
and `held` need no other value for it. What a table or a lock reaches (`Beyond`) is what every set holds that has
the start in it and is closed under the edges: for finite sets the same as walking them, and usable in a proof.
`record` is history: what the lock on disk was written from, if it was written whole.

### Fetch

One directory of the cache and its `.fetching` twin, each the set of its entries or gone. Removal
is entry by entry, unpacking is file by file, everything else is one call to the operating
system: what another process can see in between is a state of the model. `tar` works in a
directory and follows it when it is renamed, as a process's working directory does. The source
strips no prefix. A crash takes a process's own children along; one that leaves the stamp empty is a fault of
its own, "tear". Worlds say which kind of caller there is, whether an older molto filled the cache, and
what goes wrong.

### Configure and ObjectCache

Builds of several projects share one cache; a package that configures itself is configured in its
source. One action is one step of `configure_dependency`, `configure_compile_lines` or
`configure_now` on a file: look at the stamp, try the lock, run a step, make the libraries, learn the
list, write the stamp, give the lock back. A configured tree is the set of answers that shaped it,
`Mixed` when a step ended half way. The kernel gives a dead process's lock back
(`KernelReleases`), and a build that is refused is run again by somebody. `ObjectCache` puts the take
and the offer of `build_compile.c` around that: the key is made of the source, the command and the
stamp, read at the take and again at the offer.

A world says which settings the builds want, whether two builds may overlap (`apart`), and what may
fail. The run has builds that want one setting and go wrong in every way, and builds that want two,
one after another, and go wrong as well. With two settings at once the cache is not kept right (section 5).

The old stamp stays until the new one is written over it. So when a configuration with another setting is
cut off, the stamp it was to replace is over files that belong to neither, and a build that wants what it says
compiles them: one failed step is enough. `cut` is history of that: the settings cut off over a package since
its last stamp. `BuiltAsConfigured` claims nothing of a package over which another setting was cut off, and
`ObjectsAreOwn` nothing of one of which something was then compiled (`spoilt`), whose object stays in the cache;
they claim the rest in every such world. Without the exception the property is `BuiltWithItsStamp`, and false.

### Platform and PlatformRecipe

`PlatformRecipe` is everything before the network: an entry's paths stay inside, a library's name is
no option, versions, and the first entry that serves the machine. `Platform` follows
`platform_resolve` to the end: the host's own library, else download each file once into the shared
area, verify, unpack beside the destination, replace it by a rename, stamp it, link the host's
runtime, copy a bundled one beside the executable. A file is whole, wrong or being written. `apart`
keeps resolutions from overlapping.

`point_links_at_host` goes over the links one by one (`nth`). Each is its own as it was unpacked, the host's, or
gone: it is removed (`RemoveLink`) and then made (`MakeLink`), and either call may fail or be cut off (`LinkFails`,
`Crash`). A link that was removed and not made is not there for the next resolution to find, which answers all the same.
`unmade` is history of those links, and `AnswerIsUsable` claims every other one; `LinksArePointed`, which claims them
all, is false (section 5).

### Publishing and Recipe

A recipe is a set of tables and keys; `Recipe` is what a reader of schema `SchemaMax` refuses.
`Publishing` is one coordinate: log in, read the recipe, check it, pack or find the archive, hash it,
have the upload signed, send bytes, record the row; the consumer asks, holds the answer against the
coordinate, remembers it and uses it. The registry is external: it does what
`registry_service.c` and `publish_command.c` expect, loses answers after doing what they answer, and
may answer for another coordinate. Its row is never taken back, only yanked.

### Report

Each action is what a worker, the drawer or the command does under the report's mutex; `Look` and
`Redraw` are the two halves of the drawer's turn. The terminal is modelled as far as `viewport.c`
writes to it: rows of texts, a cursor row, and what `Up`, `Erase`, `Put` and `NewLine` do to them. `Printed` and
`RowsDown` go line by line and row by row, as functions over how far they have come, so that they can be
reasoned about. `Heights` is chosen anew at every frame, as somebody dragging a window does.

### Documents: IrDocument, IrValidate, IrTransform, Frontends

On the wire a node is a function from member names to values; `Reads` and `ReadOf` are what
`ir_read.c` accepts and takes, `Write` what `ir_service.c` writes. `IrValidate` has paths as segments
and the links of the file system as a function (`Real`). `IrTransform` goes from a manifest through the
native front end, the dependencies and the folding to the words on a line, and says where the object of a
source goes. `Frontends` has a directory as
what it holds and an order as `readdir` may give it. A step of the run asks one question of one of them.

### Manifests: Toml, Manifest

A manifest is a sequence of lines of six kinds, with its comments, and ends with a newline or does not. `Toml` makes the flat list of
entries the parser makes, `Manifest` the project and its refusals; its edits (`AddDep`, `RemoveDep`) work on
the lines alone, as `manifest_edit.c` does, with its own narrower idea of what a header is. An entry put behind
a last line that has no newline is in that line's comment, or makes the line unreadable, and the edit is refused (`Glued`).

`EditChangesOne` is of every line of the text, comments and blank lines too. It names four things it does not
claim, each false of the code (section 5): that the comments behind a removed table survive; that an add over a table
does what it says (it is claimed that it changes nothing); anything of an add at a last line without a newline; and
manifests with `[[test.isolated]]` right behind a table of dependencies.

### Suite

`suite` is the project as its manifest and its directories describe it now, and `written` what each
source says. A directory is `made` (what is in each file), `later` (which file was written after which product) and
`noted` (what the database has each product made of). One molto test is a chain of stages. `PlanSuite` or
`PlanRefused` is `build_tests_with` up to `check_isolated_tests`; `CompileSuite` is `build_run_plan`, which leaves each object
with what its source says, since which objects are stale is `Build`'s matter, and may say nothing was compiled when the shared
cache had all of it; `OfferEntry` and `TwoEntries` are `build_entry_objects`; `PackIsolated` and `LinkTest` are
`link_the_suite`, an executable after the other in the order of the list, through `Make`, which both
`build_archive_project` and `build_link_project` are; `PruneDeleted`, `RunTest` and `SuiteEnds` finish
the command. `CompileBreaks`, `OfferFails`, `PackBreaks` and `LinkBreaks` are a tool that fails: some objects are
done, an archive is gone, an executable is gone or the older one, and nothing new is noted. Between two commands
`EditSource` and `EditSuite` change a source or the whole project, its tests, its mode and its packages included.

Which objects go where is in operators over a suite (`Places`, `Executable`, `LinkIsolatedTest`, ...), which name
the functions they are. Left out: the order of objects on a line, crashes, databases that are not saved and edits
while a build runs, which are `Build`'s. `SuiteOK` is what reading a manifest leaves (a package is of one
table; what is isolated lies below `tests/` and is named once), and one thing that molto does not check: that
`[test].sources` names no source that is found without it.

### Values: Algorithms, CompileLines, StrMap

The algorithms as they are written, loop by loop where the loop is the point (the remembered star of
`glob_match`, the stack of directories make is in, the probe of the hash map), beside what they stand for.
What `compile_lines.c` makes of a line is held against a shell of its own (`ShellWords`, `ShellEnds`, `ShellCommands`), which ends a command at
`;` and at `&` and `|`, single or doubled. The code knows `;`, `&&` and `||`. So what is claimed (`LinesCut`) is that
it cuts at all of the shell's ends but a single `&` or `|`, and nowhere else, and that its commands are the shell's where there is none of
those; `LinesAsShell`, without that, is false (section 5). `LinesRead` has the two passes of `read_command` against what each word
of a command means by itself.

`StrMap` is a state machine and refines `Dictionary`: its `entries` are the dense array, its `index` the open
table; `Probe` is the walk of `probe`, `Placed` one round of the loop of `rebuild_index`.

## 3. Runs

| run | instance | bound and why it is enough | shows |
|---|---|---|---|
| `task_pool` | 2 workers, 3 tasks | a steal, a deque of two and a refused submit between accepted ones need no more; everything is symmetric beyond | `PoolIsSound`, `WaitIsBarrier`, `EveryoneReturns`, the refinement of `TaskBatch` |
| `build` | 2 sources, 1 header, 1 package; 2 edits, 1 fault; two worlds | a removal and a return, or an edit and its undo, are two edits; a fault between two builds is one | what is skipped is current, success is the clean binary, failure keeps work, convergence |
| `exchange` | pipes of 2 bytes, request and answer up to 3, caps none and 2 | each document overfills its pipe by one byte, so both directions block | whole answers, end of input, nothing left behind, every call returns |
| `dep_graph` | 5 names, 36 projects, 4 nodes, 3 candidates | a diamond, a cycle, a path, a limited system, more nodes than the bound and more releases than the search tries | the graph is reachability, conflicts are real, proposals settle, nothing is fetched before, it ends |
| `fetch` | 2 processes, 2 files, 2 faults, three worlds | one file is kept and one pruned; interference needs two; a torn stamp and a crash over it are two faults | stamps hold, used trees stay, fetches end, caches heal |
| `lock` | 7 coordinates; 1 edit, 1 rewrite, 1 fault | one change of each kind between builds is what a lock is for | same bytes, refusals have a cause, a written lock fits |
| `configure` | 2 builds, 2 packages (one CMake, one autotools that sees the other), 1 setting and 2 faults, or 2 settings and 1 fault of any kind or 2 failed steps | a crash and a failed step are two faults, and one is enough to leave a stamp over a mixed tree; a package that depends on a configured one is the smallest chain | compiled as configured but for what another cut off, configured once, objects its own, nobody kept out |
| `report` | 3 units, 2 slots, 2 names in a frame, heights 2 and 9, 1 message | one unit more than slots, one name more than rows, a terminal too low for any name | the screen is the log, the tally is true, a frame names the oldest, the command ends |
| `platform` | 2 resolvers, 3 entries of 1 and 2 files, 2 links to the host and 1 that is none, 2 faults, ten worlds | a fault while another file is whole, and one after it; a link that is lost beside one that is not | stamped is whole, answers are usable, building again installs |
| `publishing` | 25 recipes, nine worlds, 2 packs, 2 faults | a fault before and one after the row; an edit between hash and upload | rows have bytes, told is done, published can be read, used was published |
| `values` | every small input of each algorithm: 4 characters of a pattern, files of 4 lines, 5 characters of shell, 5 lines of make, 4 path segments, manifests of 3 tables with and without a last newline, 4 keys of the map; 16 suites of 1 to 3 tests, 2 own sources, a package of 2 and one for development, with 1 edit and 1 failure | each bound lets the special case happen: a bracket that closes at once, a hunk that joins another, a backslash before a quote, more directories than `MaxDepth`, an array of tables behind a table, the index of the map doubling with a colliding key; an edit and a failure between two builds, in either order, are what records are for, and a third test is what a framework is to the other two | `ValuesMean`, `DocumentsHold`, `LoweredAsDeclared`, `ObjectsApart`, `EditChangesOne`, `SuiteAsDeclared`, `TestedIsCurrent`, the refinement of `Dictionary` |
| `manifest_jammed` | as `values`, `Jammed = TRUE` | | finding: an edit of a manifest loses or splits an array of tables |

A property that is a conjunction of named parts (`PoolIsSound`, `RecordsAreSound`, `DocumentsHold`, ...) is
one question asked in several ways; the parts are defined above it and can be checked one by one.

Deadlock is checked except in `dep_graph` (a resolution ends), `lock` (a project without
dependencies, with the developer at the end of the edits, does nothing), `report` (a command
ends) and `values` (a question is answered).

Bounds in the modules: `MaxEdits`, `MaxFaults` (Build), `MaxRequest`, `MaxAnswer` (Exchange),
`MaxFaults` (Fetch, Configure, Platform, Publishing), `MaxPacks` (Publishing), `MaxMessages` (Report),
`MaxEdits`, `MaxRewrites`, `MaxFaults` (Lock), `MaxGrowth` (StrMap), `MaxChanges`, `MaxMishaps` and the two
`Texts` of a source (Suite). The code's own limits, small in the instances, are
`MaxNodes`, `MaxCandidates` and `MaxPivots` (DepGraph), `Slots` and `FilesMax` (Report), `MaxFiles` and
`MaxPlatforms` (PlatformRecipe), `Room` (Recipe), `MaxDepth` (CompileLines), `MaxLines` (Algorithms),
`MaxListed` and `MaxCandidates` (Frontends), `MaxTableArrays`, `MaxDeps`, `MaxRegistries`,
`MaxIsolated`, `MaxReplaces` (Toml, Manifest).

### Fairness

* TaskPool: strong fairness of each worker and of the caller's forced steps. A thread that waits for
  a mutex that others keep giving back gets it; the code has no other source of progress. Nothing forces
  the caller to make a call, and nothing forces a spurious wakeup. The park's timeout is part of a
  worker's steps, as the timed wait in the code is.
* Build: weak fairness of molto's own steps, which includes that somebody runs it again. `Converges` says what repeated
  builds reach once the edits stop; it asks nothing of the edits or of the faults.
* Exchange: molto, the clock, and a willing child. Nothing is assumed of a stuck or a closing one.
* DepGraph: one thread, every request of which returns with an answer, an error or a timeout.
* Fetch: every process goes on, builds end, and somebody builds again. Faults are bounded, never forced.
* Configure and ObjectCache: each build goes on, and somebody builds. Nobody in particular gets in: of two builds
  that overlap each may refuse the other again and again, so `LastOneBuilds` is of one that is
  alone in the end.
* Report: the drawer's thread runs, and the command finishes what it began. Units need not end.
* Platform: every resolver goes on, and somebody builds again.
* Lock, Publishing and Suite have only safety properties; the algorithms have no runs of their own.

## 4. Proofs

A theorem holds for every value of the constants that meets the named assumptions of its module
(`...Assumption`), which only type the constants, say that they are finite where the code's are, that the
values for nothing, gone and torn are no data, of `DepGraph`, that a table names a package once, and, of `Suite`, `SuiteOK` (section 2). TLC evaluates them in the runs. TLC checked every
invariant named here on the instance of the run before it was proved.

`Primitives_proofs` is of the parts the others are built on, and of the report, which is built on none.

`TaskPool`, for any number of workers and any finite set of tasks: `TypeOK`, `PendingCounts`,
`RunsOnce`, `FreedAlone` (together `PoolIsSound`), the barrier `WaitIsBarrier`, and that `TaskPool` implements `TaskBatch`.
The invariants are not inductive by themselves. `IInv` says of every task where it is: a
queued task is in exactly one deque at one position, a taken one in exactly one hand, a counted
one with the caller, and `runs` follows the stage. That pops and steals never hand the same task to two
workers is then a fact about one sequence, and `pending` loses one exactly when the set of live
tasks does.

`Report`, for any finite set of units, any number of slots, of names in a frame and of messages, and any heights:
`ReportIsTrue`, and of every step `FrameIsTrue`. `Shows(s, log, d)` says of a screen all there is to say: the log, a line
to a row, then d rows of one text each, nothing below, and where the cursor is. One lemma for each thing that is
written keeps it: lines printed lengthen the log, a frame painted over one of any other height is the region,
and a region cleared leaves the log alone. They rest on what a cursor movement, an erasure and a text do to one row, and
on an induction over the rows, which is over numbers (`EveryPlace`). `RegionInv` then says when a region may
be up: someone is watching, something is compiled, and the verdict has not come. A message is printed on
a cleared screen or on one without a region, and so never into it. `TableInv` gives every busy slot an order of its own, smaller
than the next; `OldestIs`, that for every n below their number one busy slot has exactly n older ones, is what makes
`Oldest`, and with it the frame, well defined, and `RunningInTable` that the frame's "more" is what it has no row for.

`DepGraph_proofs`, for any finite sets of names and systems, any versions, places, recipes and limits, and any
project whose tables name a package once each (which is how toml.c reads a table): `TypeOK`,
`NothingMissing`, `GraphIsTrue`, `ProposalHolds` and, of every step, `FetchedIsDecided`. `IInv` follows the queue:
what a table that was already queued needs, and what a node of the graph needs, is met or waiting
(`Owed`). A visit takes an entry off the queue only by meeting it or by ending the walk, a widening
changes no source, and a trial moves requirements only in its own graph. That the graph is exactly what is
reached needs more, and from both sides. `RealInv` and `ScopesReal`: what waits, a node, and each scope of
a node are edges of the recipes known so far, no further off than there are nodes that have the scope, so that the
bound in `Edges` is never the reason an edge is there or not; knowing more recipes only adds edges. `ScopeInv`: in the
second pass every node of the first has all it needs below it, so that a widening, which goes along what is
already in the graph, misses nothing (this is the claim of the comment over `widen_scope`); and what a
development node needs has that scope or waits to get it. When nothing waits the graph is closed
(`Closed`), and a closed set of edges that holds the roots holds all that is reached. A conflict is two edges
of the real walk (`ConflictInv`) and stays so; a proposal is the trial that settled (`ProposalInv`), since writing it to
the manifest gives the very project that trial walked (`EditedIsMoved`).

`Edges` and `Widened` of `DepGraph` take one step more each time. An induction over numbers as the library states it cannot be used
here, so `AllNumbers` states it of sets, from the well-founded order of the numbers; with it `Iterated` shows that a
function applied again and again has a sequence of values, and `Grown` that a set growing within a finite one
is at rest when it has as many steps as elements.

`Exchange`, for pipes, documents and caps of any size and any child: `ExchangeIsSound` and
`AnswerIsWhole`. `ExchangeInv` counts bytes: what molto has sent is what the child has read and what is in the
pipe, and so back; an end is closed for one reason, and each phase of the way out has closed or
reaped what the ones before it are to.

`StrMap`, for any keys and values, any hash function and any sizes: it implements `Dictionary`
(`ImplementsDictionary`). `MapInv`: no key is twice in the array; every entry is in the table at a slot its key comes
to before any empty one (`IsTable`); and the table is at most seven tenths full. The last makes a probe stop,
since with fewer entries than slots one slot is empty and a probe comes by every slot; the second makes it stop at
the key's own entry, or at an empty slot when the key has none. Building the index anew, after a growth and
after a removal, puts the entries in one by one: that `Rebuilt` gives a right table is an induction over places,
made of the least place that would be wrong (`EveryPlace`), since the library's induction takes an operator.

`Lock_proofs`, for any coordinates, recipes and numbers of edits, rewrites and faults: `LockIsSound` without
more, and `RefusalMeansRewritten` where a name that some manifest takes from a directory is never taken from anywhere
else (`OnePlace`) and an interrupted write leaves no lock that parses (`WholeOrNothing`). Both are needed, and for what the
code does: without either it refuses builds for which nothing was rewritten (section 5). In `IInv`, `Seen` says that a
sum only goes up, so that a package with the sum it had is served as it was; `Resolved` that what was resolved
has everything it asks for and that its text as a lock fits the manifest, from the moment it is resolved until it is
the record of the lock on disk, whatever upstream does meanwhile; `HeldInv` that a build for the recorded manifest is held
against that very lock. For refusals, `RefusalInv` adds that a lock that is held was written whole and that,
as long as nothing it records was rewritten, the manifest in hand asks only for what is recorded. What is recorded is closed, so
the manifest comes to no more than that, there is no conflict and no proposal, and each package verifies.

`Build_proofs`, for any sources, headers, packages, files and numbers of edits and faults:
`RecordsAreSound`, `SuccessMeansCurrent`, `NothingIsRedone` and, of every step, `RecordMatchesObject`. Assumed of each
world: `Onward` (nothing gets an old content back, and no source is edited between the recheck of its
stamp and the reading of its hash, no header while a pass runs) or `Settled` (nothing is edited while a pass
runs, and no build dies before it has saved). These are `Forward` and `Calm` of section 2, and what lies outside is
where the code does not keep the properties. The argument differs between them. Onward, contents only grow, so an
object that was made of at most what a record says, and at least what its file says now, was made of exactly
that (`BehindObj`, `BehindBin`). Settled, the database and the directory never part: a record matches the object it
names, in whichever database the next build will read (`SettledObjInv`). Both rest on what a build that
nobody disturbs has done so far (the invariants under `quiet`), up to the moment it says ok.

`Build_proofs` has `Suite` too, which is of the same records. For any projects, sources, edits and failures: `SuiteAsDeclared` without more, and
`TestedIsCurrent` and `EveryTestRuns` where no single suite has two executables with one path (`StemsApart`). Of a
`per_file` suite that need not be assumed: it follows from its targets having names of their own, which is checked. Of
a single one nothing checks it, and section 5 has what then happens. `SuiteAsDeclared` is a fact about each
accepted suite, from what `check_isolated_tests` has found of every replacement. `TestedIsCurrent` rests on `SuiteInv`.
Its heart, `DiskInv`, is of whatever projects, modes and failures have left in the directory: a product that is there
is noted, and either something it is noted to be made of is younger or gone, or it has what those files have now. So
what is not made again is what would be made (`MakeHolds`), although its record may be of another project. The rest follows one
command: once compiled, objects are what the sources say (`ObjectsCurrent`); entries, archives and executables are made
of those and keep what they have, since no later step writes a path of theirs or of their parts (`EntriesCurrent`,
`PackedCurrent`, `LinkedCurrent`), which is where `StemsApart` is needed; what the prune leaves is the executables of this
suite (`DeletedGone`, from the records naming every product); and two places are told apart because an index counts the
places below it (`RunCurrent`).

`Fetch_proofs`, for any files and any number of processes: `SourceIsWhole`. Assumed of each world (`Lone`): one kind
of caller, and of callers that carry a manifest no crash where an older or a torn stamp can be on the
tree; the property itself speaks of fetches that have not overlapped. `StepInv` says what is in the
working directory in each phase of a fetch and what is left to remove, `StampInv` that a stamp that would be
accepted is on exactly the wanted files, or else is about to be replaced.

`Platform_proofs`, for any recipes, machines, resolvers and faults where resolutions do not overlap
(`apart`): `PlatformIsSound`. `FileInv` follows a file from its part to its place in the tree: what is
unpacked at the n-th file are the whole files before it, in whatever order they share digests; `StampInv` has the
stamp written last and on the whole. `LinkInv` says of a resolution that uses the host's runtime that the links before the one it
is at lead to the host or are among the `unmade`, and that a link is gone only if it is that, or is being made again.

`Publishing_proofs`, for any recipes, registries and faults: `UsedIsPublished` without more; `PublishedCanBeUsed`
where the recipe is not edited while it is sent and what a publisher does not read of it is in order
(`RestIsGood`; section 5 has what happens otherwise); `PublishIsSound` where the recipe is not edited while it is sent
and no crash cuts off a tar. `RowInv` ties the row to the bytes that were sent, `ArchiveInv` the bytes on disk to the hash
taken of them, `ReadInv` the recipe in hand to the checks it passed.

`Configure_proofs`, of `Configure` and `ObjectCache` together, for any packages, builds, settings and faults:
`ConfigureIsSound` without more; `BuiltAsConfigured` and `ObjectsAreOwn` for worlds that are `Harmless`: all
builds want one setting, however they overlap, or they do not overlap and
settings with one fingerprint ask for one tree; whatever fails in either. That last is an assumption on the settings and not on the code: CMake
is told the C++ compiler also where the fingerprint does not have it (section 5). `CutInv` says that a setting which was cut off
over a package is not the one its stamp names, so that a build of that setting configures it anew. `LockInv` is what the kernel's lock
gives: one build at a package, and a stamp that is not the one wanted while it is configured anew. `OnceInv`
counts: a configuration that was completed and has no stamp was cut off by a fault. `TreeInv` has a stamp tell the
tree and its list where nothing was cut off, and `DoneInv` follows a build along the packages: what it has passed stays as it left it, although
the lock was given back, because whoever else is under way wants the same. `ObjectInv` carries that to
the cache: what is kept under a key is the object of a setting with that fingerprint.

Only model-checked: every liveness property (TLAPS has no `ENABLED`, hence no fairness); and what `values` enumerates.
Those algorithms are recursive or folds over sequences, whose results for every input would need induction over data:
there TLC's bounded inputs are all there is.

## 5. What the modelling found

One statement of the repository about itself has a run that refutes it: `manifest_jammed`
(manifest_edit.c:57). `read_header` takes no `[[array]]` for a header, so a `[[test.isolated]]` block behind the
table of a dependency belongs to that table for whoever edits: `molto remove` deletes it with a
dependency written as `[deps.x]`, and `molto add` may write inside it.

The others can be seen by changing the named configuration and asking for the named property alone.

| what the code does not keep | where | change | property |
|---|---|---|---|
| A source that is edited while compiled and restored afterwards leaves a stale object that passes for fresh, against the comment at 645 | build_compile.c:650 | `MCBuild.cfg`: `Worlds <- RevertingWorld`, `MaxFaults = 0` | `SuccessMeansCurrent` |
| A child that closes both pipes and stays alive holds a call that has a deadline for ever, against process_service.h:188 | process_service.c:1062 | `Exchange.cfg`: `Capacity`, `Capture`, `MaxRequest` and `MaxAnswer` 1, `Caps = {0}`, `Manners = {"closing"}` | `DeadlineReturns` |
| A package met again on more systems does not hand them down, against dep_graph.h | dep_graph.c:825 | `MCDepGraph.cfg` as it is | `OsIsUnion` |
| A build for another system takes part of packages that were never fetched | dep_graph.c:751 | `MCDepGraph.cfg` as it is | `SelectedHasBytes` |
| Two processes that fetch the same source can stamp a partial tree, against the comment at 724 | source_service.c:801 | `MCFetch.cfg`: `Worlds <- Together`, `MaxFaults = 0` | `StampMeansWhole` |
| A lock refuses a path dependency that was moved in the manifest, against lockfile.h:90 | lockfile.c:355 | `MCLock.cfg`: `Coords <- Moving`, `DepsOf <- MovingDeps`, `MaxRewrites = 0`, `MaxFaults = 0` | `RefusalMeansRewritten` |
| The stamp of an earlier configuration stays over files that a failed one left, against configure_service.h:22-24 | configure_service.c:682 | `MCConfigure.cfg` as it is | `StampDescribesTree` |
| So a build that wants what that stamp says runs nothing and compiles those files, which its setting never configured; one failed step of another build is enough | configure_service.c:676 | `MCConfigure.cfg` as it is | `BuiltWithItsStamp` |
| A link to the host's runtime that was removed, and was not made again because that failed or molto was killed, is never made: later resolutions find the stamp and answer without it, against the comment at 1050-1052 | platform_service.c:1083 | `MCPlatform.cfg` as it is | `LinksArePointed` |
| A line of make's output is not cut at a single `&` or `\|`, where a shell ends a command | compile_lines.c:338 | `MCValues.cfg` as it is | `LinesAsShell` |
| `molto remove` of a dependency written as a table deletes the comments between that table and the next header, against manifest_edit.h:11-13 | manifest_edit.c:319 | `MCValues.cfg` as it is | `CommentsSurvive` |
| `molto add` of a dependency that is written as `[deps.x]` adds a short entry that no reader sees, and says "Added", against manifest_edit.h:30-32 | manifest_edit.c:284 | `MCValues.cfg` as it is | `AddReplaces` |
| Where the last line of the table ends the file without a newline, `molto add` glues the entry to it: it is refused, or becomes part of that line's comment and is said to be added | manifest_edit.c:293 | `MCValues.cfg` as it is | `EndIsNothing` |
| An object is offered to the cache under the key of the tree as it is by then, not as it was compiled, when two builds with different settings overlap | build_compile.c:450 | `MCConfigure.cfg`: `Worlds <- Overlapping`, `MaxFaults = 0` | `EntryIsItsKey` |
| Two path dependencies below a directory called `sources` share an object, against the comment at build_layout.c:155 | build_layout.c:166 | `MCValues.cfg`: `Checkouts <- UnderSources` | `ObjectsApart` |
| Two isolated tests of one stem in a single suite share an executable: the last is linked over the first and run twice, and the first never runs, against RFC 0021:78 | build_tests.c:41 | `MCValues.cfg`: `Suites <- Together`, `MaxChanges = 0` | `EveryTestRuns` |
| Two resolutions at once share the working directory of a platform and stamp a remainder, against the comment at 1003 | platform_service.c:998 | `MCPlatform.cfg`: `Worlds <- AtOnce` | `StampedIsWhole` |
| A runtime copied beside an executable stays cut when molto is killed, and is not repaired | platform_service.c:1182 | `MCPlatform.cfg`: `Worlds <- Copying` | `BesideIsWhole` |
| What a publisher does not read of a recipe (its schema, `[deps]`, `[about]`) is published though no consumer reads it | publish_command.c:232 | `MCPublishing.cfg`: `Recipes <- Unread`, `Worlds <- Unchecked` | `PublishedCanBeUsed` |
| An archive that a killed tar left is found and published by the next run, against the comment at pack_service.c:181 | pack_service.c:181 | `MCPublishing.cfg`: `Recipes <- Good`, `Worlds <- CutOff` | `PublishedIsWhole` |

Seen while modelling, without a property of their own:

* Build: the header and crash windows named in section 2.
* Lock: `Molto.lock` is written in place, and one cut between two lines parses and may refuse the next
  build (`Tears = {"short"}` in `MCLock.cfg`). A proposal for a name that both tables declare, or for a
  version the registry does not list, need not settle the graph (`ProposalHolds` names both).
* Fetch: a tree that has a stamp, but not the one its caller needs, is removed entry by entry in no order
  (source_service.c:730), and `is_complete` (399-414) takes a stamp without a manifest beside it for a source
  that never had one. So a crash during that removal can leave a part of the files that passes for complete:
  where an older molto filled the cache (give the third world of `MCFetch` the fault "crash"), and where an
  earlier crash tore the stamp (give the second one "tear"). The second needs two faults, and was found by
  proving `SourceIsWhole`: with `MaxFaults = 1` the run could not reach it.
* Configure: the lock is tried once where its comment (669) expects a wait, so overlapping builds may
  refuse each other for ever; `CMAKE_CXX_COMPILER` is always given (566) but is in the fingerprint only
  when the recipe mentions it (82); a build may compile from a tree that another is configuring anew.
* Suite: the archives of isolated tests are recorded as binaries below `build/<profile>/tests/` and are not
  in the list of live ones, so each `molto test` prunes them, makes them again and links every isolated
  test again (build_tests.c:434, wsdb.c:452), where RFC 0021:103 expects no more than an edit of
  `replaces` costs. Replacing a dependency with an entry still links its `.entry.a`. A test of the
  framework in `per_file` mode lies outside `tests/` and is never pruned.
* Manifest: a dependency's `registry`, `sha256` or `ref` that is no text counts as absent; the first of
  two equal keys wins without a word.
* Documents: `tests/io.c` beside `tests/io.cpp` is refused as one target declared twice.
* Values: a tag of a version may have leading zeros (`read_tag`); a diff of two files that differ in
  their last newline is a header without hunks.
* Registry: a crash leaves the file with the request's authorisation behind (registry_service.c:68).

## 6. Plan

Done: `TaskPool`, `DepGraph`, `Exchange`, `StrMap`, `Report`, `Lock`, `Build`, `Suite`, `Fetch`, `Platform`, `Publishing` and `Configure` with
`ObjectCache`, each with its proofs, `CompileLines`, `PlatformRecipe`, `Recipe`, `Toml`, `Manifest`,
`IrDocument`, `IrValidate`, `IrTransform`, `Frontends`, `Algorithms`.

Next, as far as a run can say something a test would not: the topological order `deps_service.c` hands
the linker, `[[provide]]` files as a third kind of cache, two builds over one workspace around
`clean --all`, and `Lock` over `DepGraph` instead of reachability.

Proofs to come: none of a property that a run checks; what is left to TLC is out of the provers' reach (section 4).

## 7. Not modelled

* Lint and format (`lint_service.c`, `fmt_service.c`, `style_translate.c`): external tools over lists of files and
  a table of style names; nothing is kept, so there is no state a checker could search.
* Toolchain and host probes: what they find is an input of the models.
* Scanning of TOML strings and numbers, JSON, the parsing and layout of compiler messages, the bar and the loader,
  command lines, help and templates, the bill of materials: sequential, and their mistakes are of wording and
  syntax, for which tests are the better tool.
* The readers of `.deb`, `.rpm` and `.pkg` archives and SHA-256: arithmetic over bytes.
* The Windows halves of the process service and of threads, terminals of one or two rows, and what others write
  to the terminal while the region is up.
