---------------------------- MODULE Lock_proofs ------------------------------
(***************************************************************************)
(* What is proved of Lock for any coordinates, recipes and bounds: that a  *)
(* lock keeps a build to the bytes it was resolved with and fits the       *)
(* manifest it was written for, and, where a directory is always the same  *)
(* one and a lock is whole or unreadable, that a refusal means something   *)
(* it recorded was rewritten.                                              *)
(*                                                                         *)
(* What makes it inductive is that a sum only goes up, so that a package   *)
(* with the sum it had is served as it was; and that what was resolved is  *)
(* closed under what it asks for, from when it is resolved to when it is   *)
(* the record of the lock on disk, however the coordinates move meanwhile. *)
(***************************************************************************)
EXTENDS Lock, TLAPS

Served == [deps : SUBSET Coords, sum : Nat]
Nodes == [coord : Coords, was : Served]
Packages == [coord : Coords, sum : Nat \cup {None}, needs : SUBSET Names]

CoordsOf(g) == {n.coord : n \in g}
Text(g) == {Rendered(n) : n \in g}

World ==
  /\ manifest \in Manifests
  /\ up \in [Coords -> Served]
  /\ rewrites \in 0 .. MaxRewrites
  /\ \A c \in Coords : up[c].deps \in DepsOf[c] /\ up[c].sum \in 1 .. (rewrites + 1)

Progress ==
  /\ pc \in {"idle", "resolve", "verify", "refused", "write"}
  /\ ctx \in Manifests
  /\ pc # "idle" => ctx # {}
  /\ attempt \in 1 .. 2

\* A package with the sum it had is served as it was.
Seen(g) ==
  /\ g \in SUBSET Nodes
  /\ \A n \in g : /\ n.was.deps \in DepsOf[n.coord]
                  /\ n.was.sum <= up[n.coord].sum
                  /\ n.was.sum = up[n.coord].sum => n.was = up[n.coord]

\* g is what m came to when it was resolved, and the lock of g fits m.
Resolved(g, m) ==
  /\ m \subseteq CoordsOf(g)
  /\ OneEach(CoordsOf(g))
  /\ \A n, k \in g : n.coord = k.coord => n = k
  /\ \A n \in g : n.was.deps \subseteq CoordsOf(g)
  /\ Matches(Text(g), m)

GraphInv ==
  /\ Seen(graph)
  /\ pc \in {"verify", "refused", "write"} => Resolved(graph, ctx)

LockInv ==
  /\ lock \in SUBSET Packages /\ OneEach(CoordsOf(lock))
  /\ held \in SUBSET Packages

\* A lock that was written whole is the text of what it records.
RecordInv ==
  /\ record \in [for : Manifests, graph : SUBSET Nodes]
  /\ Seen(record.graph)
  /\ record.for # {} => lock = Text(record.graph) /\ Resolved(record.graph, record.for)

\* A build for the manifest the lock was written for is held against that lock.
HeldInv ==
  /\ pc # "idle" /\ attempt = 1 /\ record.for = ctx => held = lock
  /\ pc = "write" => Fits
  /\ pc = "refused" => ~Fits

IInv == World /\ Progress /\ GraphInv /\ LockInv /\ RecordInv /\ HeldInv

------------------------------------------------------------------------------
(* What following an edge reaches.                                          *)

LEMMA BeyondLeast ==
  ASSUME NEW next, NEW s, NEW t \in SUBSET DOMAIN next, s \subseteq t, Closed(next, t)
  PROVE  Beyond(s, next) \subseteq t
  BY DEF Beyond

LEMMA BeyondIs ==
  ASSUME NEW next, NEW s \in SUBSET DOMAIN next
  PROVE  Beyond(s, next) \subseteq DOMAIN next /\ s \subseteq Beyond(s, next)
  BY DEF Beyond

LEMMA BeyondClosed ==
  ASSUME NEW next, NEW s, \A c \in DOMAIN next : next[c] \subseteq DOMAIN next
  PROVE  Closed(next, Beyond(s, next))
<1> SUFFICES ASSUME NEW c \in Beyond(s, next), NEW d \in next[c]
             PROVE  d \in Beyond(s, next)
  BY DEF Closed
<1>1. c \in DOMAIN next /\ d \in DOMAIN next
  BY DEF Beyond
<1>2. ASSUME NEW t \in SUBSET DOMAIN next, s \subseteq t, Closed(next, t) PROVE d \in t
  BY <1>1, <1>2 DEF Beyond, Closed
<1> QED
  BY <1>1, <1>2 DEF Beyond

LEMMA ReachedIs ==
  ASSUME up \in [Coords -> Served], NEW m \in SUBSET Coords
  PROVE  /\ m \subseteq Reached(m) /\ Reached(m) \subseteq Coords
         /\ \A c \in Reached(m) : up[c].deps \subseteq Reached(m)
<1> DEFINE next == [c \in Coords |-> up[c].deps]
<1>1. DOMAIN next = Coords /\ \A c \in Coords : next[c] = up[c].deps /\ next[c] \subseteq Coords
  BY DEF Served
<1>2. Reached(m) = Beyond(m, next)
  BY DEF Reached
<1> HIDE DEF next
<1>3. Beyond(m, next) \subseteq Coords /\ m \subseteq Beyond(m, next)
  BY <1>1, BeyondIs
<1>4. Closed(next, Beyond(m, next))
  BY <1>1, BeyondClosed
<1> QED
  BY <1>1, <1>2, <1>3, <1>4 DEF Closed

LEMMA ReachedLeast ==
  ASSUME up \in [Coords -> Served], NEW m, NEW t \in SUBSET Coords, m \subseteq t,
         \A c \in t : up[c].deps \subseteq t
  PROVE  Reached(m) \subseteq t
<1> DEFINE next == [c \in Coords |-> up[c].deps]
<1>1. DOMAIN next = Coords /\ \A c \in Coords : next[c] = up[c].deps
  OBVIOUS
<1>2. Reached(m) = Beyond(m, next)
  BY DEF Reached
<1>3. Closed(next, t)
  BY <1>1 DEF Closed
<1> HIDE DEF next
<1> QED
  BY <1>1, <1>2, <1>3, BeyondLeast

------------------------------------------------------------------------------
(* Locks and their text.                                                    *)

LEMMA RenderedType ==
  ASSUME NEW n \in Nodes
  PROVE  /\ Rendered(n) \in Packages
         /\ Rendered(n).coord = n.coord /\ Rendered(n).sum = Sum(n)
         /\ Rendered(n).needs = {d.name : d \in n.was.deps}
<1>1. n.coord \in Coords /\ n.was.deps \in SUBSET Coords /\ n.was.sum \in Nat
  BY DEF Nodes, Served
<1>2. Sum(n) \in Nat \cup {None}
  BY <1>1 DEF Sum
<1>3. {d.name : d \in n.was.deps} \in SUBSET Names
  BY <1>1 DEF Names
<1> QED
  BY <1>1, <1>2, <1>3 DEF Rendered, Packages

LEMMA TextIs ==
  ASSUME NEW g \in SUBSET Nodes
  PROVE  Text(g) \in SUBSET Packages /\ CoordsOf(Text(g)) = CoordsOf(g)
<1>1. \A n \in g : Rendered(n) \in Packages /\ Rendered(n).coord = n.coord
  BY RenderedType
<1> QED
  BY <1>1 DEF Text, CoordsOf

LEMMA LockedIs ==
  ASSUME NEW l, NEW p \in l PROVE p \in Locked(l, p.coord.name)
  BY DEF Locked

\* The lock of what was resolved for a manifest fits that manifest.
LEMMA TextMatches ==
  ASSUME up \in [Coords -> Served], NEW m \in SUBSET Coords
  PROVE  Matches({Rendered(Node(c)) : c \in Reached(m)}, m)
<1> DEFINE R == Reached(m)
           l == {Rendered(Node(c)) : c \in R}
           listed == [p \in l |-> UNION {Locked(l, n) : n \in p.needs}]
           first == UNION {Locked(l, c.name) : c \in m}
<1>1. m \subseteq R /\ R \subseteq Coords /\ \A c \in R : up[c].deps \subseteq R
  BY ReachedIs
<1>2. ASSUME NEW c \in R
      PROVE  /\ Rendered(Node(c)).coord = c
             /\ Rendered(Node(c)).needs = {d.name : d \in up[c].deps}
             /\ Rendered(Node(c)) \in l
             /\ Rendered(Node(c)) \in Locked(l, c.name)
  <2>1. Node(c) \in Nodes /\ Node(c).coord = c /\ Node(c).was = up[c]
    BY <1>1 DEF Node, Nodes
  <2>2. Rendered(Node(c)) \in l
    OBVIOUS
  <2> HIDE DEF l
  <2> QED
    BY <2>1, <2>2, RenderedType, LockedIs
<1>3. \A c \in m : Locked(l, c.name) \subseteq first
  OBVIOUS
<1>4. \A p \in l : \A n \in p.needs : Locked(l, n) \subseteq listed[p]
  OBVIOUS
<1>5. DOMAIN listed = l /\ l = {Rendered(Node(c)) : c \in R}
  OBVIOUS
<1>6. Marked(l, m) = Beyond(first, listed)
  BY DEF Marked
<1> HIDE DEF R, l, listed, first
<1>7. \A c \in m : DeclarationMatches(l, c)
  BY <1>1, <1>2 DEF DeclarationMatches
<1>8. ASSUME NEW t \in SUBSET l, first \subseteq t, Closed(listed, t) PROVE l \subseteq t
  <2> DEFINE q == {c \in R : Rendered(Node(c)) \in t}
  <2>1. m \subseteq q
    BY <1>1, <1>2, <1>3, <1>8
  <2>2. ASSUME NEW c \in q PROVE up[c].deps \subseteq q
    <3> SUFFICES ASSUME NEW d \in up[c].deps PROVE d \in q
      OBVIOUS
    <3>1. c \in R /\ d \in R /\ Rendered(Node(c)) \in t
      BY <1>1
    <3>2. Rendered(Node(d)) \in Locked(l, d.name) /\ d.name \in Rendered(Node(c)).needs
      BY <1>2, <3>1
    <3>3. Rendered(Node(d)) \in listed[Rendered(Node(c))]
      BY <1>2, <1>4, <3>1, <3>2
    <3> QED
      BY <1>8, <3>1, <3>3 DEF Closed
  <2>3. q \subseteq Coords /\ \A c \in q : up[c].deps \subseteq q
    BY <1>1, <2>2
  <2> HIDE DEF q
  <2>4. R \subseteq q
    BY <2>1, <2>3, ReachedLeast DEF R
  <2> QED
    BY <1>5, <2>4 DEF q
<1>9. Beyond(first, listed) = l
  BY <1>5, <1>8 DEF Beyond
<1>10. Matches(l, m)
  BY <1>6, <1>7, <1>9 DEF Matches
<1> QED
  BY <1>5, <1>10 DEF R

------------------------------------------------------------------------------
(* The invariant is inductive.                                              *)

LEMMA InitHolds == Init => IInv
<1> SUFFICES ASSUME Init PROVE IInv
  OBVIOUS
<1>1. World
  <2>1. up \in [Coords -> Served]
    BY DepsAssumption DEF Init, Served
  <2>2. \A c \in Coords : up[c].deps \in DepsOf[c] /\ up[c].sum \in 1 .. (rewrites + 1)
    <3>1. \A c \in Coords : up[c].deps \in DepsOf[c] /\ up[c].sum = 1
      BY DEF Init
    <3>2. rewrites = 0 /\ 1 \in 1 .. (0 + 1)
      BY DEF Init
    <3> QED
      BY <3>1, <3>2, Zenon
  <2>3. manifest \in Manifests /\ rewrites \in 0 .. MaxRewrites
    BY LockBoundsAssumption DEF Init
  <2> QED
    BY <2>1, <2>2, <2>3 DEF World
<1>2. Progress
  BY DEF Init, Progress, Manifests, OneEach
<1>3. GraphInv /\ LockInv
  BY DEF Init, GraphInv, LockInv, Seen, OneEach, CoordsOf
<1>4. RecordInv /\ HeldInv
  BY DEF Init, RecordInv, HeldInv, Unwritten, Seen, Manifests, OneEach
<1> QED
  BY <1>1, <1>2, <1>3, <1>4 DEF IInv

\* What a step does to the coordinates: nothing, or one of them is rewritten.
LEMMA WorldStays ==
  ASSUME World, UNCHANGED <<up, rewrites>>, manifest' \in Manifests
  PROVE  World' /\ \A g : Seen(g) => Seen(g)'
<1>1. World'
  BY DEF World
<1> QED
  BY <1>1 DEF Seen

\* A build begins: a lock that fits is held, and the lock that was written for this manifest does.
LEMMA StartHolds == IInv /\ Start => IInv'
<1> SUFFICES ASSUME IInv, Start PROVE IInv'
  OBVIOUS
<1> USE DEF IInv, Start
<1>1. World' /\ \A g : Seen(g) => Seen(g)'
  BY WorldStays DEF World, world
<1>2. Progress'
  BY DEF World, Progress
<1>3. GraphInv' /\ LockInv' /\ RecordInv'
  BY <1>1 DEF GraphInv, LockInv, RecordInv
<1>4. HeldInv'
  <2>1. record.for = manifest => Matches(lock, manifest)
    BY DEF RecordInv, Resolved
  <2> QED
    BY <2>1 DEF HeldInv
<1> QED
  BY <1>1, <1>2, <1>3, <1>4

\* What is resolved is closed, has one package of a name, and its lock would fit.
LEMMA ResolveHolds == IInv /\ Resolve => IInv'
<1> SUFFICES ASSUME IInv, Resolve PROVE IInv'
  OBVIOUS
<1> USE DEF IInv, Resolve
<1>1. World' /\ \A g : Seen(g) => Seen(g)'
  BY WorldStays DEF World, world
<1>2. Progress'
  BY DEF Progress
<1>3. GraphInv'
  <2>1. ctx \in SUBSET Coords /\ up \in [Coords -> Served]
    BY DEF World, Progress, Manifests
  <2>2. /\ ctx \subseteq Reached(ctx) /\ Reached(ctx) \subseteq Coords
        /\ \A c \in Reached(ctx) : up[c].deps \subseteq Reached(ctx)
    BY <2>1, ReachedIs
  <2>3. \A c \in Coords : Node(c) \in Nodes /\ Node(c).coord = c /\ Node(c).was = up[c]
    BY <2>1 DEF Node, Nodes
  <2>4. CoordsOf(graph') = Reached(ctx)
    BY <2>2, <2>3 DEF CoordsOf
  <2>5. Seen(graph)'
    <3>1. graph' \in SUBSET Nodes
      BY <2>2, <2>3
    <3>2. ASSUME NEW n \in graph' PROVE n.was = up[n.coord] /\ n.coord \in Coords
      BY <2>2, <2>3
    <3>3. \A c \in Coords : up[c].deps \in DepsOf[c] /\ up[c].sum \in Nat
      BY DEF World
    <3>4. up' = up
      BY DEF world
    <3> QED
      BY <3>1, <3>2, <3>3, <3>4 DEF Seen
  <2>6. Resolved(graph', ctx)
    <3>1. OneEach(CoordsOf(graph'))
      BY <2>4 DEF Conflicted
    <3>2. \A n, k \in graph' : n.coord = k.coord => n = k
      BY <2>2, <2>3
    <3>3. \A n \in graph' : n.was.deps \subseteq CoordsOf(graph')
      BY <2>2, <2>3, <2>4
    <3>4. Text(graph') = {Rendered(Node(c)) : c \in Reached(ctx)}
      BY DEF Text
    <3>5. Matches(Text(graph'), ctx)
      BY <2>1, <3>4, TextMatches
    <3> QED
      BY <2>2, <2>4, <3>1, <3>2, <3>3, <3>5 DEF Resolved
  <2> QED
    BY <2>5, <2>6 DEF GraphInv
<1>4. LockInv' /\ RecordInv' /\ HeldInv'
  BY <1>1 DEF LockInv, RecordInv, HeldInv
<1> QED
  BY <1>1, <1>2, <1>3, <1>4

\* A manifest with one entry of a name changed still declares each name once.
LEMMA Swapped ==
  ASSUME NEW m \in Manifests, NEW name, NEW new \in Manifests, \A c \in new : c.name = name
  PROVE  {c \in m : c.name # name} \cup new \in Manifests
  BY DEF Manifests, OneEach

\* The answer is yes: what is resolved next is what the file then says.
LEMMA AcceptHolds == IInv /\ Accept => IInv'
<1> SUFFICES ASSUME IInv, Accept PROVE IInv'
  OBVIOUS
<1> USE DEF IInv
<1>1. manifest' \in Manifests /\ manifest' # {} /\ ctx' = manifest' /\ attempt' = 2
  <2>1. PICK p \in Proposals : manifest' = {c \in manifest : c.name # p[1].name} \cup {p[2]}
    BY DEF Accept
  <2>2. p[2] \in Coords /\ p[2].name = p[1].name
    BY <2>1 DEF Proposals
  <2>3. {p[2]} \in Manifests
    BY <2>2 DEF Manifests, OneEach
  <2>4. manifest' \in Manifests
    BY <2>1, <2>2, <2>3, Swapped DEF World
  <2> QED
    BY <2>1, <2>4 DEF Accept
<1>2. World' /\ \A g : Seen(g) => Seen(g)'
  BY <1>1, WorldStays DEF Accept
<1>3. Progress'
  BY <1>1 DEF Progress, Accept
<1>4. GraphInv' /\ LockInv' /\ RecordInv'
  BY <1>2 DEF GraphInv, LockInv, RecordInv, Accept
<1>5. HeldInv'
  BY <1>1 DEF HeldInv, Accept
<1> QED
  BY <1>2, <1>3, <1>4, <1>5

\* Giving up, holding the resolution against the lock, and stopping leave the disk as it is.
LEMMA VerifyHolds == IInv /\ (GiveUp \/ Accepted \/ Refused \/ Report \/ Stop) => IInv'
<1> SUFFICES ASSUME IInv, GiveUp \/ Accepted \/ Refused \/ Report \/ Stop PROVE IInv'
  OBVIOUS
<1> USE DEF IInv, GiveUp, Accepted, Refused, Report, Stop, world
<1>1. World' /\ \A g : Seen(g) => Seen(g)'
  BY WorldStays DEF World
<1>2. Progress'
  BY DEF Progress
<1>3. GraphInv' /\ LockInv' /\ RecordInv'
  BY <1>1 DEF GraphInv, LockInv, RecordInv
<1>4. HeldInv'
  BY DEF HeldInv, Fits
<1> QED
  BY <1>1, <1>2, <1>3, <1>4

\* The lock is written: what it records is what was resolved, and it fits.
LEMMA WriteHolds == IInv /\ Write => IInv'
<1> SUFFICES ASSUME IInv, Write PROVE IInv'
  OBVIOUS
<1> USE DEF IInv, Write
<1>1. World' /\ \A g : Seen(g) => Seen(g)'
  BY WorldStays DEF World, world
<1>2. Progress' /\ HeldInv'
  BY DEF Progress, HeldInv
<1>3. GraphInv'
  BY <1>1 DEF GraphInv
<1>4. lock' = Text(graph) /\ graph \in SUBSET Nodes /\ Resolved(graph, ctx)
  BY DEF Text, GraphInv, Seen
<1>5. LockInv'
  BY <1>4, TextIs DEF LockInv, Resolved
<1>6. RecordInv'
  BY <1>1, <1>4 DEF RecordInv, GraphInv, Progress
<1> QED
  BY <1>1, <1>2, <1>3, <1>5, <1>6

\* Whatever is left of a lock that was cut off names a package once.
LEMMA WriteFailsHolds == IInv /\ WriteFails => IInv'
<1> SUFFICES ASSUME IInv, WriteFails PROVE IInv'
  OBVIOUS
<1> USE DEF IInv
<1>1. World' /\ \A g : Seen(g) => Seen(g)'
  BY WorldStays DEF World, WriteFails
<1>2. Progress' /\ HeldInv'
  BY DEF Progress, HeldInv, WriteFails
<1>3. GraphInv'
  BY <1>1 DEF GraphInv, WriteFails
<1>4. graph \in SUBSET Nodes /\ OneEach(CoordsOf(graph))
  BY DEF GraphInv, Seen, Resolved, WriteFails
<1>5. ASSUME NEW l \in Short PROVE l \in SUBSET Packages /\ OneEach(CoordsOf(l))
  <2> DEFINE whole == Text(graph)
             cut == {[p EXCEPT !.sum = None, !.needs = {}] : p \in whole}
  <2>1. whole \in SUBSET Packages /\ CoordsOf(whole) = CoordsOf(graph)
    BY <1>4, TextIs
  <2>2. l \subseteq whole \cup cut
    BY DEF Short, Text
  <2> HIDE DEF whole
  <2>3. \A p \in cut : p \in Packages /\ \E q \in whole : p.coord = q.coord
    BY <2>1 DEF Packages
  <2>4. l \subseteq Packages /\ CoordsOf(l) \subseteq CoordsOf(graph)
    BY <2>1, <2>2, <2>3 DEF CoordsOf
  <2> QED
    BY <1>4, <2>4 DEF OneEach
<1>6. lock' \in SUBSET Packages /\ OneEach(CoordsOf(lock'))
  <2>1. lock' \in Short \/ lock' = {}
    BY DEF WriteFails
  <2>2. OneEach(CoordsOf({}))
    BY DEF OneEach, CoordsOf
  <2> QED
    BY <1>5, <2>1, <2>2
<1>7. LockInv'
  BY <1>6 DEF LockInv, WriteFails
<1>8. RecordInv'
  BY DEF RecordInv, WriteFails, Unwritten, Seen, Manifests, OneEach
<1> QED
  BY <1>1, <1>2, <1>3, <1>7, <1>8

\* The developer edits the manifest, or throws the lock away.
LEMMA EditHolds == IInv /\ (Edit \/ DeleteLock) => IInv'
<1> SUFFICES ASSUME IInv, Edit \/ DeleteLock PROVE IInv'
  OBVIOUS
<1> USE DEF IInv
<1>1. manifest' \in Manifests
  <2>1. CASE Edit
    <3>1. PICK name \in Names, new \in Manifests :
            /\ \A c \in new : c.name = name
            /\ manifest' = {c \in manifest : c.name # name} \cup new
      BY <2>1 DEF Edit
    <3> QED
      BY <3>1, Swapped DEF World
  <2>2. CASE DeleteLock
    BY <2>2 DEF World, DeleteLock
  <2> QED
    BY <2>1, <2>2
<1>2. World' /\ \A g : Seen(g) => Seen(g)'
  BY <1>1, WorldStays DEF Edit, DeleteLock
<1>3. Progress' /\ GraphInv'
  BY <1>2 DEF Progress, GraphInv, Edit, DeleteLock, molto
<1>4. LockInv'
  BY DEF LockInv, Edit, DeleteLock, molto, CoordsOf, OneEach
<1>5. RecordInv'
  <2>1. CASE Edit
    BY <1>2, <2>1 DEF RecordInv, Edit
  <2>2. CASE DeleteLock
    BY <2>2 DEF RecordInv, DeleteLock, Unwritten, Seen, Manifests, OneEach
  <2> QED
    BY <2>1, <2>2
<1>6. HeldInv'
  BY DEF HeldInv, Edit, DeleteLock, molto, Fits
<1> QED
  BY <1>2, <1>3, <1>4, <1>5, <1>6

\* Something else is served for a coordinate, under a sum that was never served before.
LEMMA RewriteHolds == ASSUME IInv, NEW c \in Coords, Rewrite(c) PROVE IInv'
<1> USE DEF IInv
<1>1. PICK deps \in DepsOf[c] : up' = [up EXCEPT ![c] = [deps |-> deps, sum |-> @.sum + 1]]
  BY DEF Rewrite
<1>2. deps \in SUBSET Coords /\ up \in [Coords -> Served] /\ rewrites \in Nat /\ rewrites < MaxRewrites
      /\ rewrites' = rewrites + 1 /\ rewrites' \in 0 .. MaxRewrites
  BY DepsAssumption, LockBoundsAssumption DEF World, Rewrite
<1>3. /\ up'[c] = [deps |-> deps, sum |-> up[c].sum + 1]
      /\ \A d \in Coords \ {c} : up'[d] = up[d]
  BY <1>1, <1>2
<1>4. \A d \in Coords : up[d].sum \in 1 .. rewrites + 1
  BY DEF World
<1>5. up' \in [Coords -> Served]
  <2>1. [deps |-> deps, sum |-> up[c].sum + 1] \in Served
    BY <1>2, <1>4 DEF Served
  <2> QED
    BY <1>1, <1>2, <2>1
<1>6. \A d \in Coords : up'[d].deps \in DepsOf[d] /\ up'[d].sum \in 1 .. (rewrites' + 1)
  BY <1>2, <1>3, <1>4 DEF World
<1>7. World'
  BY <1>2, <1>5, <1>6 DEF World, Rewrite
<1>8. ASSUME NEW g, Seen(g) PROVE Seen(g)'
  <2>1. \A n \in g : n.coord \in Coords /\ n.was.sum \in Nat
    BY <1>8 DEF Seen, Nodes, Served
  <2>2. ASSUME NEW n \in g
        PROVE  n.was.sum <= up'[n.coord].sum /\ (n.was.sum = up'[n.coord].sum => n.was = up'[n.coord])
    <3>1. n.was.sum <= up[n.coord].sum /\ (n.was.sum = up[n.coord].sum => n.was = up[n.coord])
      BY <1>8 DEF Seen
    <3>2. CASE n.coord = c
      <4>1. up'[c].sum = up[c].sum + 1 /\ up[c].sum \in Nat
        BY <1>3, <1>4
      <4> QED
        BY <2>1, <3>1, <3>2, <4>1
    <3>3. CASE n.coord # c
      BY <1>3, <2>1, <3>1, <3>3
    <3> QED
      BY <3>2, <3>3
  <2> QED
    BY <1>8, <2>2 DEF Seen
<1>9. Progress' /\ GraphInv' /\ LockInv' /\ RecordInv'
  BY <1>8 DEF Progress, GraphInv, LockInv, RecordInv, Rewrite, molto
<1>10. HeldInv'
  BY DEF HeldInv, Rewrite, molto, Fits
<1> QED
  BY <1>7, <1>9, <1>10

LEMMA StepHolds == IInv /\ [Next]_vars => IInv'
<1> SUFFICES ASSUME IInv, [Next]_vars PROVE IInv'
  OBVIOUS
<1>1. CASE UNCHANGED vars
  BY <1>1 DEF vars, IInv, World, Progress, GraphInv, LockInv, RecordInv, HeldInv, Seen, Fits
<1>2. CASE Build
  BY <1>2, StartHolds, ResolveHolds, AcceptHolds, VerifyHolds, WriteHolds, WriteFailsHolds DEF Build
<1>3. CASE Edit \/ DeleteLock
  BY <1>3, EditHolds
<1>4. ASSUME NEW c \in Coords, Rewrite(c) PROVE IInv'
  BY <1>4, RewriteHolds
<1> QED
  BY <1>1, <1>2, <1>3, <1>4 DEF Next

LEMMA Inductive == Spec => []IInv
<1>1. Init => IInv
  BY InitHolds
<1>2. IInv /\ [Next]_vars => IInv'
  BY StepHolds
<1> QED
  BY <1>1, <1>2, PTL DEF Spec

------------------------------------------------------------------------------
(* The results.                                                             *)

\* lockfile_matches, lockfile_verify: a lock that was written whole fits the manifest it was written
\* for, and a build that it is held against goes ahead with the recorded sums only.
THEOREM LocksAreSound == Spec => []LockIsSound
<1>1. IInv => LockIsSound
  <2> SUFFICES ASSUME IInv PROVE LockIsSound
    OBVIOUS
  <2>1. TypeOK
    <3>1. OneEach(manifest) /\ manifest \subseteq Coords
      BY DEF IInv, World, Manifests
    <3>2. \A c \in Coords : up[c].deps \in DepsOf[c] /\ up[c].sum \in 1 .. (MaxRewrites + 1)
      <4>1. \A c \in Coords : up[c].deps \in DepsOf[c] /\ up[c].sum \in 1 .. (rewrites + 1)
        BY DEF IInv, World
      <4>2. rewrites \in 0 .. MaxRewrites /\ MaxRewrites \in Nat
        BY LockBoundsAssumption DEF IInv, World
      <4>3. \A k \in 1 .. (rewrites + 1) : k \in 1 .. (MaxRewrites + 1)
        BY <4>2
      <4> QED
        BY <4>1, <4>3
    <3>3. IsLock(lock) /\ IsLock(held)
      BY DEF IInv, LockInv, IsLock, Packages
    <3>4. OneEach({p.coord : p \in lock})
      BY DEF IInv, LockInv, CoordsOf
    <3>5. pc \in {"idle", "resolve", "verify", "refused", "write"} /\ attempt \in 1 .. 2
      BY DEF IInv, Progress
    <3>6. \A n \in graph : n.was.deps \in DepsOf[n.coord]
      BY DEF IInv, GraphInv, Seen
    <3> QED
      BY <3>1, <3>2, <3>3, <3>4, <3>5, <3>6 DEF TypeOK
  <2>2. Settles
    BY DEF IInv, RecordInv, Resolved, Settles
  <2>3. SameBytes
    <3> SUFFICES ASSUME pc = "write", attempt = 1, record.for = ctx, NEW n \in graph
                 PROVE  \E r \in record.graph : r.coord = n.coord /\ Sum(r) = Sum(n)
      BY DEF SameBytes
    <3>1. ctx # {} /\ held = lock /\ Fits
      BY DEF IInv, Progress, HeldInv
    <3>2. lock = Text(record.graph) /\ record.graph \in SUBSET Nodes /\ ctx \subseteq CoordsOf(record.graph)
      BY <3>1 DEF IInv, RecordInv, Resolved
    <3>3. lock # {}
      BY <3>1, <3>2 DEF Text, CoordsOf
    <3>4. PICK p \in lock : p.coord = n.coord /\ (p.sum # None /\ Sum(n) # None => p.sum = Sum(n))
      BY <3>1, <3>3 DEF Fits, Verifies, Locked
    <3>5. PICK r \in record.graph : p = Rendered(r)
      BY <3>2 DEF Text
    <3>6. r.coord = n.coord /\ p.sum = Sum(r)
      BY <3>2, <3>4, <3>5, RenderedType
    <3>7. r.was.sum \in Nat /\ n.was.sum \in Nat
      BY <3>2 DEF IInv, GraphInv, Seen, Nodes, Served
    <3> QED
      BY <3>4, <3>6, <3>7, NoneAssumption DEF Sum
  <2> QED
    BY <2>1, <2>2, <2>3 DEF LockIsSound
<1> QED
  BY <1>1, Inductive, PTL
------------------------------------------------------------------------------
(* What a refusal means.                                                    *)

\* A directory has one place, and a lock that was cut off does not parse.
OnePlace == \A c, d \in Coords : c.kind = "path" /\ d.name = c.name => d = c
WholeOrNothing == Tears \subseteq {"unreadable"}

\* Everything the lock records is served as it was.
Steady == \A r \in record.graph : up[r.coord] = r.was

\* A lock that is held was written whole; and while nothing it records was rewritten, the
\* manifest asks for packages it records and resolves to them.
RefusalInv ==
  /\ lock # {} => record.for # {}
  /\ pc # "idle" /\ held # {} =>
       /\ record.for # {}
       /\ held = lock
       /\ Steady => ctx \subseteq CoordsOf(record.graph)
       /\ pc # "resolve" /\ Steady => graph \subseteq record.graph

\* What the lock records is closed, so that a manifest that asks for some of it comes to no more.
LEMMA SteadyIsClosed ==
  ASSUME IInv, Steady, record.for # {}, NEW m, m \subseteq CoordsOf(record.graph)
  PROVE  Reached(m) \subseteq CoordsOf(record.graph) /\ ~Conflicted(m)
<1> DEFINE t == CoordsOf(record.graph)
<1>1. Resolved(record.graph, record.for) /\ record.graph \in SUBSET Nodes /\ up \in [Coords -> Served]
  BY DEF IInv, RecordInv, World
<1>2. t \in SUBSET Coords
  BY <1>1 DEF CoordsOf, Nodes
<1>3. ASSUME NEW c \in t PROVE up[c].deps \subseteq t
  <2>1. PICK r \in record.graph : r.coord = c
    BY DEF CoordsOf
  <2>2. up[c] = r.was /\ r.was.deps \subseteq t
    BY <1>1, <2>1 DEF Steady, Resolved
  <2> QED
    BY <2>2
<1> HIDE DEF t
<1>4. Reached(m) \subseteq t
  BY <1>1, <1>2, <1>3, ReachedLeast DEF t
<1>5. OneEach(t)
  BY <1>1 DEF Resolved, t
<1> QED
  BY <1>4, <1>5 DEF Conflicted, OneEach, t

\* declaration_matches: with one place for each directory, a lock that fits has what is declared.
LEMMA DeclaredIsLocked ==
  ASSUME OnePlace, NEW l \in SUBSET Packages, NEW m \in SUBSET Coords, Matches(l, m)
  PROVE  m \subseteq CoordsOf(l)
<1> SUFFICES ASSUME NEW c \in m PROVE c \in CoordsOf(l)
  OBVIOUS
<1>1. PICK p \in Locked(l, c.name) : c.kind \in {"registry", "git"} => p.coord = c
  BY DEF Matches, DeclarationMatches
<1>2. p \in l /\ p.coord.name = c.name /\ p.coord \in Coords
  BY DEF Locked, Packages
<1>3. p.coord = c
  BY <1>1, <1>2, CoordsAssumption DEF OnePlace, Kinds
<1> QED
  BY <1>2, <1>3 DEF CoordsOf

LEMMA RefusalStart == ASSUME OnePlace, IInv, RefusalInv, Start PROVE RefusalInv'
<1>1. UNCHANGED <<lock, record, up>> /\ pc' = "resolve" /\ ctx' = manifest
      /\ held' = IF Matches(lock, manifest) THEN lock ELSE {}
  BY DEF Start, world
<1>2. ASSUME held' # {} PROVE record.for # {} /\ held' = lock /\ ctx' \subseteq CoordsOf(record.graph)
  <2>1. held' = lock /\ Matches(lock, manifest) /\ record.for # {}
    BY <1>1, <1>2 DEF RefusalInv
  <2>2. manifest \in SUBSET Coords /\ lock \in SUBSET Packages
    BY DEF IInv, World, LockInv, Manifests
  <2>3. manifest \subseteq CoordsOf(lock)
    BY <2>1, <2>2, DeclaredIsLocked
  <2>4. CoordsOf(lock) = CoordsOf(record.graph)
    BY <2>1, TextIs DEF IInv, RecordInv, Seen
  <2> QED
    BY <1>1, <2>1, <2>3, <2>4
<1> QED
  BY <1>1, <1>2 DEF RefusalInv

LEMMA RefusalResolve == ASSUME IInv, RefusalInv, Resolve PROVE RefusalInv'
<1>1. UNCHANGED <<lock, record, up, held, ctx>> /\ pc = "resolve" /\ pc' = "verify"
      /\ graph' = {Node(c) : c \in Reached(ctx)}
  BY DEF Resolve, world
<1>2. ASSUME held # {}, Steady PROVE graph' \subseteq record.graph
  <2>1. record.for # {} /\ ctx \subseteq CoordsOf(record.graph)
    BY <1>1, <1>2 DEF RefusalInv
  <2>2. Reached(ctx) \subseteq CoordsOf(record.graph)
    BY <1>2, <2>1, SteadyIsClosed
  <2>3. record.graph \in SUBSET Nodes
    BY DEF IInv, RecordInv
  <2>4. \A r \in record.graph : r = Node(r.coord)
    BY <1>2, <2>3 DEF Steady, Node, Nodes
  <2> QED
    BY <1>1, <2>2, <2>4 DEF CoordsOf
<1> QED
  BY <1>1, <1>2 DEF RefusalInv, Steady

\* A conflict in what a held lock records is one that something rewritten has made.
LEMMA RefusalAccept == ASSUME IInv, RefusalInv, Accept PROVE RefusalInv'
<1>1. UNCHANGED <<lock, record, up, held>> /\ pc = "resolve" /\ pc' = pc /\ Conflicted(ctx)
  BY DEF Accept
<1>2. held # {} => ~Steady
  BY <1>1, SteadyIsClosed DEF RefusalInv
<1> QED
  BY <1>1, <1>2 DEF RefusalInv, Steady

\* A coordinate that was rewritten never has again what the lock recorded.
LEMMA RefusalRewrite ==
  ASSUME IInv, RefusalInv, NEW c \in Coords, Rewrite(c) PROVE RefusalInv'
<1>1. UNCHANGED <<lock, record, held, ctx, pc, graph>>
  BY DEF Rewrite, molto
<1>2. up \in [Coords -> Served] /\ \A d \in Coords \ {c} : up'[d] = up[d]
  BY DEF IInv, World, Rewrite
<1>3. up'[c].sum = up[c].sum + 1 /\ up[c].sum \in Nat
  BY <1>2 DEF Rewrite, Served
<1>4. ASSUME Steady' PROVE Steady
  <2> SUFFICES ASSUME NEW r \in record.graph PROVE up[r.coord] = r.was
    BY DEF Steady
  <2>1. up'[r.coord] = r.was
    BY <1>1, <1>4 DEF Steady
  <2>2. r.coord \in Coords /\ r.was.sum <= up[r.coord].sum
    BY DEF IInv, RecordInv, Seen, Nodes
  <2>3. r.coord # c
    BY <1>3, <2>1, <2>2
  <2> QED
    BY <1>2, <2>1, <2>2, <2>3
<1> QED
  BY <1>1, <1>4 DEF RefusalInv

LEMMA RefusalStep ==
  ASSUME OnePlace, WholeOrNothing PROVE IInv /\ RefusalInv /\ [Next]_vars => RefusalInv'
<1> SUFFICES ASSUME IInv, RefusalInv, [Next]_vars PROVE RefusalInv'
  OBVIOUS
<1>1. CASE Start
  BY <1>1, RefusalStart
<1>2. CASE Resolve
  BY <1>2, RefusalResolve
<1>3. CASE Accept
  BY <1>3, RefusalAccept
<1>4. CASE GiveUp \/ Accepted \/ Refused \/ Report \/ Stop
  BY <1>4 DEF RefusalInv, Steady, GiveUp, Accepted, Refused, Report, Stop, world
<1>5. CASE Write
  BY <1>5 DEF RefusalInv, Write, IInv, Progress
<1>6. CASE WriteFails
  <2>1. lock' = {} /\ pc' = "idle"
    BY <1>6 DEF WriteFails, WholeOrNothing
  <2> QED
    BY <2>1 DEF RefusalInv
<1>7. CASE Edit
  BY <1>7 DEF RefusalInv, Steady, Edit, molto
<1>8. CASE DeleteLock
  BY <1>8 DEF RefusalInv, DeleteLock, molto
<1>9. ASSUME NEW c \in Coords, Rewrite(c) PROVE RefusalInv'
  BY <1>9, RefusalRewrite
<1>10. CASE UNCHANGED vars
  BY <1>10 DEF RefusalInv, Steady, vars
<1> QED
  BY <1>1, <1>2, <1>3, <1>4, <1>5, <1>6, <1>7, <1>8, <1>9, <1>10 DEF Next, Build

\* lockfile_verify, build_prepare_and_lock: where a directory has one place and no lock is cut
\* short, a build is refused only when something the lock recorded is served differently now.
THEOREM RefusalsMeanRewritten ==
  ASSUME OnePlace, WholeOrNothing PROVE Spec => []RefusalMeansRewritten
<1>1. Init => RefusalInv
  BY DEF Init, RefusalInv
<1>2. IInv /\ RefusalInv /\ [Next]_vars => RefusalInv'
  BY RefusalStep
<1>3. IInv /\ RefusalInv => RefusalMeansRewritten
  <2> SUFFICES ASSUME IInv, RefusalInv, pc = "refused", Steady PROVE FALSE
    BY DEF RefusalMeansRewritten, Steady
  <2>1. PICK n \in graph : ~Verifies(held, n) /\ held # {}
    BY DEF IInv, HeldInv, Fits
  <2>2. n \in record.graph /\ held = lock /\ record.for # {}
    BY <2>1 DEF RefusalInv
  <2>3. lock = Text(record.graph) /\ record.graph \in SUBSET Nodes
    BY <2>2 DEF IInv, RecordInv
  <2>4. Rendered(n) \in Locked(held, n.coord.name)
    BY <2>2, <2>3, RenderedType DEF Text, Locked
  <2> QED
    BY <2>1, <2>2, <2>3, <2>4, RenderedType DEF Verifies
<1> QED
  BY <1>1, <1>2, <1>3, Inductive, PTL DEF Spec
=============================================================================
