------------------------------ MODULE IrDocument -------------------------------
(***************************************************************************)
(* What a frontend says of a project, and its form on the wire             *)
(* (services/ir_service.c, services/ir_read.c, RFC-0013).                  *)
(*                                                                         *)
(* On the wire a node is a function from the names of its members to their *)
(* values: a text, a flag, a number, a list of values, or a node.  What is *)
(* NULL in a document when the producer left it out is a sequence of at    *)
(* most one member here.                                                   *)
(***************************************************************************)
EXTENDS Integers, Sequences, FiniteSets, SequencesExt

CONSTANT IrSchema   \* the schema that this molto speaks

Scopes == {"target", "profile", "unit"}
Languages == {"c", "cpp", "asm"}
TargetKinds == {"executable", "static", "shared", "object", "test"}
Origins == {"registry", "path", "git", "archive"}
DepScopes == {"runtime", "dev"}

Text(text) == [type |-> "text", text |-> text]
Flag(on) == [type |-> "flag", on |-> on]
Number(n) == [type |-> "number", n |-> n]
List(items) == [type |-> "list", items |-> items]
Node(node) == [type |-> "node", node |-> node]

------------------------------------------------------------------------------
(* Members of a node, as doc.c gives them                                    *)

Has(node, key, type) == key \in DOMAIN node /\ node[key].type = type
HasText(node, key) == Has(node, key, "text")
TextOf(node, key) == node[key].text
Maybe(node, key) == IF HasText(node, key) THEN <<TextOf(node, key)>> ELSE <<>>
Items(node, key) == IF Has(node, key, "list") THEN node[key].items ELSE <<>>
IsNodeAt(items, i) == i \in DOMAIN items /\ items[i].type = "node"

Every(node, key, OK(_)) ==
  \A i \in DOMAIN Items(node, key) : IsNodeAt(Items(node, key), i) /\ OK(Items(node, key)[i].node)
Each(node, key, Of(_)) == [i \in DOMAIN Items(node, key) |-> Of(Items(node, key)[i].node)]

TextsOK(node, key) ==
  key \in DOMAIN node => Has(node, key, "list") /\ \A i \in DOMAIN Items(node, key) : Items(node, key)[i].type = "text"
Texts(node, key) == [i \in DOMAIN Items(node, key) |-> Items(node, key)[i].text]

\* Vocabulary: what is not in it is refused, and what is absent may have a default.
WordOK(node, key, words) == HasText(node, key) => TextOf(node, key) \in words
Word(node, key, default) == IF HasText(node, key) THEN TextOf(node, key) ELSE default
WordThere(node, key, words) == HasText(node, key) /\ TextOf(node, key) \in words

\* Slip: what is not known is skipped, whatever it is.
KnownOrSkipped(node, names) == TRUE

\* reject_unknown_nodes: a list of nodes under a name that the schema does not know.  Anything
\* else that is not known is an attribute.
Known(node, names) == \A key \in DOMAIN node \ names : ~IsNodeAt(Items(node, key), 1)

------------------------------------------------------------------------------
(* Reading                                                                   *)

OptionOK(node) ==
  /\ Known(node, {"value", "scope"})
  /\ HasText(node, "value") /\ WordOK(node, "scope", Scopes)
OptionOf(node) == [value |-> TextOf(node, "value"), scope |-> Word(node, "scope", "target")]

IncludeOK(node) ==
  /\ Known(node, {"value", "scope", "system"})
  /\ HasText(node, "value") /\ WordOK(node, "scope", Scopes)
IncludeOf(node) ==
  [value |-> TextOf(node, "value"), scope |-> Word(node, "scope", "target"),
   system |-> Has(node, "system", "flag") /\ node["system"].on]

\* A source that some step produces is a node type of its own, told by an attribute.
SourceOK(node) ==
  /\ {"produced_by", "deterministic"} \cap DOMAIN node = {}
  /\ Known(node, {"path", "language", "options"})
  /\ HasText(node, "path") /\ WordThere(node, "language", Languages)
  /\ Every(node, "options", OptionOK)
SourceOf(node) ==
  [path |-> TextOf(node, "path"), language |-> TextOf(node, "language"),
   options |-> Each(node, "options", OptionOf)]

ArtifactOK(node) ==
  /\ Known(node, {"kind", "path", "install"})
  /\ WordOK(node, "kind", TargetKinds) /\ HasText(node, "path")
ArtifactOf(node, kind) ==
  [kind |-> Word(node, "kind", kind), path |-> TextOf(node, "path"), install |-> Maybe(node, "install")]

TargetOK(node) ==
  /\ Known(node, {"name", "package", "kind", "sources", "options", "includes", "links", "depends_on", "artifact"})
  /\ HasText(node, "name") /\ WordThere(node, "kind", TargetKinds)
  /\ Every(node, "sources", SourceOK) /\ Every(node, "options", OptionOK)
  /\ Every(node, "includes", IncludeOK) /\ Every(node, "links", OptionOK)
  /\ TextsOK(node, "depends_on")
  /\ Has(node, "artifact", "node") => ArtifactOK(node["artifact"].node)
TargetOf(node) ==
  [name |-> TextOf(node, "name"), package |-> Maybe(node, "package"), kind |-> TextOf(node, "kind"),
   sources |-> Each(node, "sources", SourceOf), options |-> Each(node, "options", OptionOf),
   includes |-> Each(node, "includes", IncludeOf), links |-> Each(node, "links", OptionOf),
   depends_on |-> Texts(node, "depends_on"),
   artifact |-> IF Has(node, "artifact", "node")
                  THEN <<ArtifactOf(node["artifact"].node, TextOf(node, "kind"))>> ELSE <<>>]

InterfaceOK(node) ==
  /\ Known(node, {"includes", "options", "links"})
  /\ Every(node, "includes", IncludeOK) /\ Every(node, "options", OptionOK) /\ Every(node, "links", OptionOK)
Interface(node) == IF Has(node, "interface", "node") THEN node["interface"].node ELSE <<>>

DependencyOK(node) ==
  /\ Known(node, {"name", "version", "origin", "scope", "root", "interface"})
  /\ HasText(node, "name") /\ HasText(node, "root")
  /\ WordThere(node, "origin", Origins) /\ WordThere(node, "scope", DepScopes)
  /\ InterfaceOK(Interface(node))
DependencyOf(node) ==
  [name |-> TextOf(node, "name"), version |-> Maybe(node, "version"), origin |-> TextOf(node, "origin"),
   scope |-> TextOf(node, "scope"), root |-> TextOf(node, "root"),
   includes |-> Each(Interface(node), "includes", IncludeOf),
   options |-> Each(Interface(node), "options", OptionOf), links |-> Each(Interface(node), "links", OptionOf)]

ProjectOK(node) ==
  /\ Items(node, "steps") = <<>>
  /\ Known(node, {"name", "version", "root", "origin", "targets", "dependencies"})
  /\ \A key \in {"name", "version", "root", "origin"} : HasText(node, key)
  /\ Every(node, "targets", TargetOK) /\ Every(node, "dependencies", DependencyOK)

\* One project, under the very schema; a document that is refused is not read in part.
Reads(wire) ==
  /\ Has(wire, "schema", "number") /\ wire["schema"].n = IrSchema
  /\ Known(wire, {"schema", "files_read", "projects"})
  /\ TextsOK(wire, "files_read")
  /\ Len(Items(wire, "projects")) = 1 /\ Every(wire, "projects", ProjectOK)
ReadOf(wire) ==
  LET project == Items(wire, "projects")[1].node
  IN  [files_read |-> Texts(wire, "files_read"),
       name |-> TextOf(project, "name"), version |-> TextOf(project, "version"),
       root |-> TextOf(project, "root"), origin |-> TextOf(project, "origin"),
       targets |-> Each(project, "targets", TargetOf),
       dependencies |-> Each(project, "dependencies", DependencyOf)]

------------------------------------------------------------------------------
(* Writing                                                                   *)

\* What is not there is left out, for there and blank is another document.
If(there, key, value) == IF there = <<>> THEN <<>> ELSE key :> value
ListOf(items, Of(_)) == List([i \in DOMAIN items |-> Node(Of(items[i]))])

WriteOption(option) == [value |-> Text(option.value), scope |-> Text(option.scope)]
WriteInclude(include) ==
  [value |-> Text(include.value), scope |-> Text(include.scope), system |-> Flag(include.system)]
WriteSource(source) ==
  [path |-> Text(source.path), language |-> Text(source.language),
   options |-> ListOf(source.options, WriteOption)]
WriteArtifact(artifact) ==
  [kind |-> Text(artifact.kind), path |-> Text(artifact.path)]
    @@ If(artifact.install, "install", Text(Head(artifact.install)))
WriteTarget(target) ==
  [name |-> Text(target.name), kind |-> Text(target.kind), sources |-> ListOf(target.sources, WriteSource),
   options |-> ListOf(target.options, WriteOption), includes |-> ListOf(target.includes, WriteInclude),
   links |-> ListOf(target.links, WriteOption),
   depends_on |-> List([i \in DOMAIN target.depends_on |-> Text(target.depends_on[i])])]
    @@ If(target.package, "package", Text(Head(target.package)))
    @@ If(target.artifact, "artifact", Node(WriteArtifact(Head(target.artifact))))
WriteDependency(dep) ==
  [name |-> Text(dep.name), origin |-> Text(dep.origin), scope |-> Text(dep.scope), root |-> Text(dep.root),
   interface |-> Node([includes |-> ListOf(dep.includes, WriteInclude),
                       options |-> ListOf(dep.options, WriteOption), links |-> ListOf(dep.links, WriteOption)])]
    @@ If(dep.version, "version", Text(Head(dep.version)))
Write(doc) ==
  [schema |-> Number(IrSchema), files_read |-> List([i \in DOMAIN doc.files_read |-> Text(doc.files_read[i])]),
   projects |-> List(<<Node([name |-> Text(doc.name), version |-> Text(doc.version), root |-> Text(doc.root),
                             origin |-> Text(doc.origin), targets |-> ListOf(doc.targets, WriteTarget),
                             dependencies |-> ListOf(doc.dependencies, WriteDependency)])>>)]
=============================================================================
