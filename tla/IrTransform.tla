------------------------------ MODULE IrTransform ------------------------------
(***************************************************************************)
(* From a manifest and what was resolved for it to the line a source is    *)
(* compiled with: the native frontend (services/frontend_native.c), the    *)
(* transforms in their order (services/ir_transform.c), and the lowering   *)
(* (push_document, build_compile.c); and where its object goes.            *)
(*                                                                         *)
(* An option is a pair of what is put before it and what was written.  A   *)
(* project is its manifest with what was found on disk: its sources and    *)
(* its tests.  A package is what the resolver prepared of it.              *)
(***************************************************************************)
EXTENDS IrDocument

Profiles == {"debug", "release", "coverage"}
Coverage == <<"", "--coverage">>

Scoped(values, scope) == [i \in DOMAIN values |-> [value |-> values[i], scope |-> scope]]
With(prefix, values) == [i \in DOMAIN values |-> <<prefix, values[i]>>]
PushIncludes(values, scope, system) ==
  [i \in DOMAIN values |-> [value |-> values[i], scope |-> scope, system |-> system]]

\* project_link_flag
LinkFlag(name) == IF name = "Cocoa.framework" THEN <<"-Wl,-framework,", "Cocoa">> ELSE <<"-l", name>>
PushLinks(names) == [i \in DOMAIN names |-> [value |-> LinkFlag(names[i]), scope |-> "target"]]

------------------------------------------------------------------------------
(* The native frontend                                                       *)

PushScope(target, options, scope) ==
  [target EXCEPT !.options = @ \o Scoped(With("-D", options.defines) \o With("", options.flags), scope),
                 !.includes = @ \o PushIncludes(options.include, scope, FALSE)]

PushLinkScope(target, project, profile) ==
  [target EXCEPT !.links = @ \o Scoped(With("", project.target.flags), "target")
                             \o Scoped(With("", project.profiles[profile].flags), "profile")
                             \o PushLinks(project.link)]

\* Slip: the instrumentation in the scope of the target.
PushInstrumentationEarly(target, profile) ==
  IF profile # "coverage" THEN target
  ELSE [target EXCEPT !.options = @ \o Scoped(<<Coverage>>, "target"), !.links = @ \o Scoped(<<Coverage>>, "target")]

PushInstrumentation(target, profile) ==
  IF profile # "coverage" THEN target
  ELSE [target EXCEPT !.options = @ \o Scoped(<<Coverage>>, "profile"), !.links = @ \o Scoped(<<Coverage>>, "profile")]

\* What the host answered for each library that [target] asks of it.
PushHostScope(target, project) ==
  [target EXCEPT
     !.includes = @ \o FlattenSeq([i \in DOMAIN project.host |-> PushIncludes(project.host[i].includes, "target", TRUE)]),
     !.links = @ \o FlattenSeq([i \in DOMAIN project.host |-> Scoped(With("", project.host[i].links), "target")])]

FillCommon(target, project, profile) ==
  PushHostScope(
    PushInstrumentation(
      PushLinkScope(
        PushScope(PushScope(target, project.target, "target"), project.profiles[profile], "profile"),
        project, profile), profile), project)

FillSrcInclude(target) == [target EXCEPT !.includes = @ \o PushIncludes(<<"src">>, "target", FALSE)]

PushLibraryScope(target, artifact) ==
  IF artifact # "shared" THEN target
  ELSE [target EXCEPT !.options = @ \o Scoped(<<<<"", "-fPIC">>>>, "target")]

Std(value) == IF value = "" THEN <<>> ELSE Scoped(<<<<"-std=", value>>>>, "unit")
PushSource(project, source) ==
  [path |-> source.path, language |-> IF source.cpp THEN "cpp" ELSE "c",
   options |-> Std(IF source.cpp THEN project.cpp_std ELSE project.std)]
PushSources(project, sources) == [i \in DOMAIN sources |-> PushSource(project, sources[i])]

NewTarget(name, kind, sources) ==
  [name |-> name, package |-> <<>>, kind |-> kind, sources |-> sources, options |-> <<>>,
   includes |-> <<>>, links |-> <<>>, depends_on |-> <<>>, artifact |-> <<>>]
SetArtifact(target, path) ==
  [target EXCEPT !.artifact = <<[kind |-> target.kind, path |-> path, install |-> <<>>]>>]

TargetKindOf(artifact) == IF artifact \in {"static", "shared"} THEN artifact ELSE "executable"
ProjectTarget(project, profile) ==
  SetArtifact(
    PushLibraryScope(
      FillSrcInclude(
        FillCommon(NewTarget(project.name, TargetKindOf(project.artifact), PushSources(project, project.sources)),
                   project, profile)), project.artifact),
    IF project.artifact = "static" THEN "lib" \o project.name \o ".a" ELSE project.name)

FillTest(target, project, profile, path) ==
  SetArtifact(
    [FillSrcInclude(PushScope(FillCommon(target, project, profile), project.test, "target"))
       EXCEPT !.depends_on = <<project.name>>], path)

\* A target for every file, or one for them all when the framework brings the main function.
TestTargets(project, profile) ==
  CASE project.tests = <<>> -> <<>>
    [] project.single -> <<FillTest(NewTarget(project.name \o "_tests", "test", PushSources(project, project.tests)),
                                    project, profile, "tests/" \o project.name \o "_tests")>>
    [] OTHER -> [i \in DOMAIN project.tests |->
                   FillTest(NewTarget(project.tests[i].stem, "test", PushSources(project, <<project.tests[i]>>)),
                            project, profile, project.tests[i].stem)]

Native(project, profile) ==
  [name |-> project.name, version |-> project.version, root |-> project.root, origin |-> "native",
   files_read |-> <<"Project.toml">>, dependencies |-> <<>>,
   targets |-> <<ProjectTarget(project, profile)>> \o TestTargets(project, profile)]

------------------------------------------------------------------------------
(* The transforms                                                            *)

Describe(package, scope) ==
  [name |-> package.name, version |-> package.version, origin |-> package.origin, scope |-> scope,
   root |-> package.root, includes |-> PushIncludes(package.exports.includes, "target", package.system),
   options |-> Scoped(With("-D", package.exports.defines) \o With("", package.exports.flags), "target"),
   links |-> Scoped(With("", package.exports.flags), "target") \o PushLinks(package.exports.links)
               \o Scoped(With("", package.exports.link_flags), "target")]

\* What the dependencies are, the runtime ones first.
Dependencies(doc, deps, dev) ==
  [doc EXCEPT !.dependencies = [i \in DOMAIN deps |-> Describe(deps[i], "runtime")]
                                 \o [i \in DOMAIN dev |-> Describe(dev[i], "dev")]]

Reaches(scope, target) == target.package = <<>> /\ (scope = "runtime" \/ target.kind = "test")

FoldOne(target, dep) ==
  [target EXCEPT !.options = @ \o dep.options, !.includes = @ \o dep.includes, !.links = @ \o dep.links]

\* What they export to the targets.
Fold(doc) ==
  [doc EXCEPT !.targets = [t \in DOMAIN doc.targets |->
     FoldLeft(LAMBDA target, dep : IF Reaches(dep.scope, target) THEN FoldOne(target, dep) ELSE target,
              doc.targets[t], doc.dependencies)]]

StdFor(package, cpp, std, cpp_std) ==
  LET own == IF cpp THEN package.cpp_std ELSE package.std
  IN  IF own # "" THEN own ELSE IF cpp THEN cpp_std ELSE std

\* The arguments of upstream's own lines, when they were read, or a standard.
PackageSource(package, i, std, cpp_std) ==
  LET source == package.sources[i]
  IN  [path |-> source.path,
       language |-> IF source.asm THEN "asm" ELSE IF source.cpp THEN "cpp" ELSE "c",
       options |-> IF package.args # <<>> THEN Scoped(With("", package.args[i]), "unit")
                   ELSE Std(StdFor(package, source.cpp, std, cpp_std))]
DescribeTarget(package, std, cpp_std) ==
  [NewTarget(package.name \o ":objects", "object",
             [i \in DOMAIN package.sources |-> PackageSource(package, i, std, cpp_std)])
     EXCEPT !.package = <<package.name>>,
            !.options = Scoped(With("-D", package.defines) \o With("", package.flags), "target"),
            !.includes = PushIncludes(package.includes, "target", FALSE)]

\* And the targets they are themselves: last, after the fold.
DependencyTargets(doc, deps, dev, std, cpp_std) ==
  LET shipping == SelectSeq(deps, LAMBDA p : p.sources # <<>>) \o SelectSeq(dev, LAMBDA p : p.sources # <<>>)
  IN  [doc EXCEPT !.targets = @ \o [i \in DOMAIN shipping |-> DescribeTarget(shipping[i], std, cpp_std)]]

\* describe_the_project and describe_the_packages.
Plan(project, profile, deps, dev) ==
  DependencyTargets(Fold(Dependencies(Native(project, profile), deps, dev)), deps, dev,
                    project.std, project.cpp_std)

------------------------------------------------------------------------------
(* The line                                                                  *)

Words(options, scope) ==
  LET inScope == SelectSeq(options, LAMBDA o : o.scope = scope)
  IN  [i \in DOMAIN inScope |-> inScope[i].value]

\* One scope of a target and one of its sources: options, those of the unit, includes.
LineOf(target, source, scope) ==
  Words(target.options, scope) \o Words(source.options, scope) \o With("-I", Words(target.includes, scope))

\* push_document; the assembler is told what its own line says and nothing else (nasm_argv).
Line(target, source) ==
  IF source.language = "asm" THEN LineOf(target, source, "unit")
  ELSE LineOf(target, source, "target") \o LineOf(target, source, "profile") \o LineOf(target, source, "unit")

\* What a target's objects are linked with, in the same order of scopes.
LinkLine(target) == Words(target.links, "target") \o Words(target.links, "profile") \o Words(target.links, "unit")

------------------------------------------------------------------------------
(* Where the object goes: services/build_layout.c.  A path is the sequence   *)
(* of its segments, "/" first when it is absolute.                           *)

RelativeToRoot(root, path) ==
  IF IsStrictPrefix(root, path) THEN SubSeq(path, Len(root) + 1, Len(path)) ELSE path

IsAbsolute(path) == path # <<>> /\ Head(path) = "/"

\* The first directory of this name, which need not be the cache's.
Marker(path) ==
  LET at == {i \in 2..(Len(path) - 1) : path[i] = "sources"}
  IN  IF at = {} THEN 0 ELSE CHOOSE i \in at : \A j \in at : i <= j

\* <cache>/sources/<name>/<key>/<target>/<rest>
InCache(path) == IsAbsolute(path) /\ Marker(path) # 0 /\ Len(path) > Marker(path) + 3

\* Slip: the name and then the last segment.
DependencyObjectDirFlat(path) == <<"deps", path[Marker(path) + 1], Last(path)>>

DependencyObjectDir(path) ==
  <<"deps", path[Marker(path) + 1]>> \o SubSeq(path, Marker(path) + 4, Len(path))

ObjectPath(root, source) ==
  LET relative == RelativeToRoot(root, source)
  IN  IF InCache(relative) THEN DependencyObjectDir(relative)
      ELSE IF IsAbsolute(relative) THEN Tail(relative) ELSE relative
=============================================================================
