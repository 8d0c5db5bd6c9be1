-------------------------------- MODULE Report --------------------------------
(***************************************************************************)
(* The report of a build (build/report.c) on a terminal: an inventory, a   *)
(* region that names what is being compiled and is painted over itself     *)
(* (util/viewport.c), messages above it, and a verdict in its place.       *)
(* Workers, the drawer and the command share the report under its mutex:   *)
(* each action is what one of them does while it holds it.                 *)
(*                                                                         *)
(* The screen is what the terminal makes of what is written: rows, each    *)
(* the texts written to it since it was last erased, and the row that the  *)
(* cursor is on.                                                           *)
(***************************************************************************)
EXTENDS Integers, Sequences, FiniteSets, SequencesExt

CONSTANTS
  Units,        \* what the plan may compile
  Label(_),     \* [origin, package] of a unit; no package for the project's own and its tests
  Slots,        \* INFLIGHT_MAX
  FilesMax,     \* FRAME_FILES_MAX
  Heights,      \* rows that the terminal may have, from frame to frame
  MaxMessages,  \* bound: messages
  Waiting, Ended, NoSlot   \* a unit that has not begun, has ended, runs without a slot

ASSUME UnitsAssumption == IsFiniteSet(Units)
ASSUME ReportBoundsAssumption ==
  Slots \in Nat /\ FilesMax \in Nat /\ Heights \subseteq Nat /\ MaxMessages \in Nat
ASSUME MarksAssumption ==
  Waiting # Ended /\ NoSlot \notin {Waiting, Ended} /\ {Waiting, Ended, NoSlot} \cap Nat = {}

VARIABLES
  progress,        \* "planned", "running", "stopping", "finished"
  planned,      \* what is to be compiled
  skipped,      \* how many are not
  interactive,  \* whether a person is watching
  inflight,     \* the table: [busy, unit, sequence] for each slot
  high,         \* one past the furthest slot ever used
  next,         \* the order of arrival
  done,         \* how many are done
  worker,       \* of each unit: Waiting, Ended, NoSlot, or the slot it was given
  drawer,       \* "none", "awake", "asleep", "gone"
  drawing,      \* cleared to ask the drawer to stop
  drawn,        \* rows of the region that is up
  frameUp,
  screen,       \* [rows, cursor]
  said          \* what was printed for good, in its order

tally == <<inflight, high, next, done, worker>>
region == <<drawn, frameUp, screen>>
reportVars == <<progress, planned, skipped, interactive, tally, drawer, drawing, region, said>>

Free == [busy |-> FALSE, unit |-> NoSlot, sequence |-> 0]

------------------------------------------------------------------------------
(* The terminal                                                              *)

Up(s, n) == [s EXCEPT !.cursor = IF @ > n THEN @ - n ELSE 1]
Erase(s) == [s EXCEPT !.rows[s.cursor] = <<>>]
Put(s, text) == [s EXCEPT !.rows[s.cursor] = Append(@, text)]
NewLine(s) ==
  [cursor |-> s.cursor + 1, rows |-> IF s.cursor = Len(s.rows) THEN Append(s.rows, <<>>) ELSE s.rows]

\* Lines printed where the cursor is.  (Chosen from one, so that each screen is worked out once.)
Printed(s, lines) ==
  LET after[k \in 0..Len(lines)] ==
        IF k = 0 THEN s ELSE CHOOSE t \in {NewLine(Put(u, lines[k])) : u \in {after[k - 1]}} : TRUE
  IN  after[Len(lines)]

------------------------------------------------------------------------------
(* The region (util/viewport.c)                                              *)

ViewportHeight(busy, rows) ==
  LET wanted == IF busy < FilesMax THEN busy ELSE FilesMax
  IN  IF wanted < rows \div 3 THEN wanted ELSE rows \div 3

\* Row by row from the cursor on: erased, and the line that goes there, if there is one.
Row(s, lines, i) == IF i <= Len(lines) THEN Put(Erase(s), lines[i]) ELSE Erase(s)
RowsDown(s, rows, lines) ==
  LET after[k \in 0..(rows - 1)] ==
        IF k = 0 THEN Row(s, lines, 1)
          ELSE CHOOSE t \in {Row(NewLine(u), lines, k + 1) : u \in {after[k - 1]}} : TRUE
  IN  after[rows - 1]

Top(s, before) == Up(s, IF before > 0 THEN before - 1 ELSE 0)

\* Slip: only the rows of the new frame are painted.
PaintShort(s, before, lines) == RowsDown(Top(s, before), Len(lines), lines)

\* Over the last frame, the rows it has given up blanked, and the cursor at the end of the last.
Paint(s, before, lines) ==
  LET rows == IF Len(lines) > before THEN Len(lines) ELSE before
      painted == RowsDown(Top(s, before), rows, lines)
  IN  IF rows > Len(lines) THEN Put(Erase(Up(painted, rows - Len(lines))), Last(lines)) ELSE painted

Clear(s, before) == Up(RowsDown(Top(s, before), before, <<>>), before - 1)

------------------------------------------------------------------------------
(* What a frame says                                                         *)

Busy == {i \in 1..high : inflight[i].busy}
Older(i) == {j \in Busy : inflight[j].sequence < inflight[i].sequence}

\* Slip: in the order of the slots.
OldestBySlot(want) == [k \in 1..want |-> CHOOSE i \in Busy : Cardinality({j \in Busy : j < i}) = k - 1]

Oldest(want) == [k \in 1..want |-> CHOOSE i \in Busy : Cardinality(Older(i)) = k - 1]

Frame(height) ==
  LET shown == Oldest(ViewportHeight(Cardinality(Busy), height))
  IN  [i \in DOMAIN shown |-> <<"unit", inflight[shown[i]].unit>>]
        \o (IF Cardinality(Busy) > Len(shown) THEN <<<<"more", Cardinality(Busy) - Len(shown)>>>> ELSE <<>>)
        \o <<<<"bar", done, Cardinality(planned)>>>>

\* draw_frame_locked, on a screen where a region of that many rows is up.
Draws(s, before, height) ==
  IF ~interactive \/ planned = {} THEN [screen |-> s, drawn |-> before, up |-> frameUp]
  ELSE [screen |-> Paint(s, before, Frame(height)), drawn |-> Len(Frame(height)), up |-> TRUE]
Draw(s, before, height) ==
  LET drawnNow == Draws(s, before, height)
  IN  screen' = drawnNow.screen /\ drawn' = drawnNow.drawn /\ frameUp' = drawnNow.up

Erased == IF frameUp /\ drawn > 0 THEN Clear(screen, drawn) ELSE screen

------------------------------------------------------------------------------
(* The inventory                                                             *)

\* will_compile: a line for every package and for every source of the project.
Entries(origin) ==
  {IF Label(u).package = <<>> THEN <<u>> ELSE Label(u).package : u \in {u \in planned : Label(u).origin = origin}}
CountedNotListed(origin) == interactive /\ origin \in {"project", "tests"}
OfOrigin(origin) ==
  IF Entries(origin) = {} THEN <<>>
  ELSE IF CountedNotListed(origin) THEN <<<<origin, Cardinality(Entries(origin))>>>>
  ELSE [i \in 1..Cardinality(Entries(origin)) |-> <<origin, "line", i>>]
Inventory ==
  OfOrigin("registry") \o OfOrigin("module") \o OfOrigin("project") \o OfOrigin("tests")
    \o (IF skipped > 0 THEN <<<<"cached", skipped>>>> ELSE <<>>)
    \o (IF planned # {} \/ skipped > 0 THEN <<<<"">>>> ELSE <<>>)

------------------------------------------------------------------------------
ReportInit ==
  /\ progress = "planned" /\ planned \in SUBSET Units /\ skipped \in 0..1 /\ interactive \in BOOLEAN
  /\ inflight = [i \in 1..Slots |-> Free] /\ high = 0 /\ next = 0 /\ done = 0
  /\ worker = [u \in Units |-> Waiting]
  /\ drawer = "none" /\ drawing = FALSE
  /\ drawn = 0 /\ frameUp = FALSE /\ screen = [rows |-> <<<<>>>>, cursor |-> 1] /\ said = <<>>

\* build_report_begin; the thread of the drawer may not start.
Begin ==
  /\ progress = "planned" /\ progress' = "running"
  /\ said' = said \o Inventory
  /\ IF interactive /\ planned # {}
       THEN /\ \E height \in Heights : Draw(Printed(screen, Inventory), 0, height)
            /\ \E started \in BOOLEAN : drawing' = started /\ drawer' = IF started THEN "awake" ELSE "none"
       ELSE screen' = Printed(screen, Inventory) /\ UNCHANGED <<drawn, frameUp, drawer, drawing>>
  /\ UNCHANGED <<planned, skipped, interactive, tally>>

\* Who finds no free slot is not named, and counts all the same.
FreeSlots == {i \in 1..Slots : ~inflight[i].busy}
UnitStarted(u) ==
  /\ progress = "running" /\ u \in planned /\ worker[u] = Waiting
  /\ IF interactive /\ FreeSlots # {}
       THEN LET slot == CHOOSE i \in FreeSlots : \A j \in FreeSlots : i <= j
            IN  /\ inflight' = [inflight EXCEPT ![slot] = [busy |-> TRUE, unit |-> u, sequence |-> next]]
                /\ high' = (IF slot > high THEN slot ELSE high) /\ next' = next + 1
                /\ worker' = [worker EXCEPT ![u] = slot]
       ELSE worker' = [worker EXCEPT ![u] = NoSlot] /\ UNCHANGED <<inflight, high, next>>
  /\ UNCHANGED <<progress, planned, skipped, interactive, done, drawer, drawing, region, said>>

Counted(slot) == done + 1

UnitDone(u) ==
  /\ worker[u] \notin {Waiting, Ended}
  /\ inflight' = IF worker[u] = NoSlot THEN inflight ELSE [inflight EXCEPT ![worker[u]].busy = FALSE]
  /\ done' = Counted(worker[u])
  /\ worker' = [worker EXCEPT ![u] = Ended]
  /\ UNCHANGED <<progress, planned, skipped, interactive, high, next, drawer, drawing, region, said>>

\* A diagnostic, from a worker or from the command, before the region, above it or after it.
Message(n) ==
  /\ progress \in {"planned", "running"} /\ n = Cardinality({i \in DOMAIN said : said[i][1] = "message"}) + 1
  /\ said' = Append(said, <<"message", n>>)
  /\ IF frameUp THEN \E height \in Heights : Draw(Printed(Erased, <<<<"message", n>>>>), 0, height)
     ELSE screen' = Printed(screen, <<<<"message", n>>>>) /\ UNCHANGED <<drawn, frameUp>>
  /\ UNCHANGED <<progress, planned, skipped, interactive, tally, drawer, drawing>>

\* Slip: the drawer ends when everything is done.
LookAtCount ==
  /\ drawer = "asleep" /\ drawer' = IF done < Cardinality(planned) THEN "awake" ELSE "gone"
  /\ UNCHANGED <<progress, planned, skipped, interactive, tally, drawing, region, said>>

\* drawer_run: it looks at the flag, draws and sleeps.
Look ==
  /\ drawer = "asleep" /\ drawer' = IF drawing THEN "awake" ELSE "gone"
  /\ UNCHANGED <<progress, planned, skipped, interactive, tally, drawing, region, said>>
Redraw ==
  /\ drawer = "awake" /\ drawer' = "asleep"
  /\ \E height \in Heights : Draw(screen, drawn, height)
  /\ UNCHANGED <<progress, planned, skipped, interactive, tally, drawing, said>>

\* build_report_finish, when no compilation is running: the drawer first.
Stop ==
  /\ progress \in {"planned", "running"} /\ \A u \in Units : worker[u] \in {Waiting, Ended}
  /\ progress' = "stopping" /\ drawing' = FALSE
  /\ UNCHANGED <<planned, skipped, interactive, tally, drawer, region, said>>

Joined == drawer \in {"none", "gone"}

Conclude(verdict) ==
  /\ progress = "stopping" /\ Joined /\ progress' = "finished"
  /\ screen' = Printed(Erased, verdict) /\ said' = said \o verdict
  /\ drawn' = (IF frameUp THEN 0 ELSE drawn) /\ frameUp' = FALSE
  /\ UNCHANGED <<planned, skipped, interactive, tally, drawer, drawing>>

Verdicts == {<<>>, <<<<"Finished">>>>, <<<<"error">>>>}
ReportNext ==
  \/ Begin \/ Look \/ Redraw \/ Stop
  \/ \E u \in Units : UnitStarted(u) \/ UnitDone(u)
  \/ \E n \in 1..MaxMessages : Message(n)
  \/ \E verdict \in Verdicts : Conclude(verdict)

ReportSpec == ReportInit /\ [][ReportNext]_reportVars

\* A thread that can run does, and what was asked of a compiler comes back.
FairReport ==
  /\ ReportSpec
  /\ WF_reportVars(Look) /\ WF_reportVars(Redraw) /\ WF_reportVars(\E verdict \in Verdicts : Conclude(verdict))

------------------------------------------------------------------------------
\* The terminal shows what was printed, each line whole and in its order, and under it the
\* region, whatever frames grew and shrank in between: no row of a frame is left above it, none
\* is left below, and none comes back after the verdict (viewport_paint, build_report_message,
\* build_report_finish).
ScreenIsLog ==
  /\ Len(screen.rows) >= Len(said) + drawn
  /\ \A i \in DOMAIN screen.rows :
       /\ i <= Len(said) => screen.rows[i] = <<said[i]>>
       /\ i \in (Len(said) + 1)..(Len(said) + drawn) => Len(screen.rows[i]) = 1
       /\ i > Len(said) + drawn => screen.rows[i] = <<>>
  /\ screen.cursor = Len(said) + (IF drawn > 0 THEN drawn ELSE 1)
  /\ progress = "finished" => drawn = 0

\* What the figure counts is what is done, also what ran when the table was full, and a unit is
\* in the table while it runs and not after (build_report_unit_started, build_report_unit_done).
TallyIsTrue ==
  /\ done = Cardinality({u \in Units : worker[u] = Ended})
  /\ \A i \in 1..Slots : inflight[i].busy => worker[inflight[i].unit] = i
  /\ \A u \in Units : worker[u] \in 1..Slots => inflight[worker[u]].busy /\ inflight[worker[u]].unit = u
  /\ \A i \in 1..Slots : inflight[i].busy => i <= high

\* A frame names what runs as it is drawn, the oldest first, and never one that it counts as done
\* (compose_frame, oldest_busy).
FrameIsTrue ==
  [][drawn' > 0 /\ screen' # screen =>
       LET row == [i \in 1..drawn' |-> screen'.rows[Len(said') + i][1]]
           named == {i \in 1..drawn' : row[i][1] = "unit"}
           running == {u \in Units : worker[u] \in 1..Slots}
           rest == Cardinality(running) - Cardinality(named)
       IN  /\ row[drawn'] = <<"bar", done, Cardinality(planned)>>
           /\ \A i \in named : row[i][2] \in running
           /\ \A i, j \in named :
                i < j => inflight[worker[row[i][2]]].sequence < inflight[worker[row[j][2]]].sequence
           /\ drawn' = Cardinality(named) + (IF rest > 0 THEN 2 ELSE 1)
           /\ rest > 0 => row[drawn' - 1] = <<"more", rest>>]_reportVars

\* A command that finishes its report gets to the verdict: the drawer is asked to stop and does
\* (stop_drawer).
Finishes == progress = "stopping" ~> progress = "finished"

\* What the screen and the counters of the report show is what was said of the units.
ReportIsTrue == ScreenIsLog /\ TallyIsTrue
=============================================================================
