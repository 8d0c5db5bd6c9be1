------------------------------ MODULE Exchange --------------------------------
(***************************************************************************)
(* services/process_service.c, as POSIX builds it: one child at a time,    *)
(* run to capture what it says (process_execute) or to hand it a document  *)
(* and take one back (process_exchange_run).  The child is any program; it *)
(* and molto share two pipes of bounded size and nothing else.             *)
(*                                                                         *)
(* Bytes are counted, not spelled: a pipe is how many are in it.  The      *)
(* child commits to a read or a write before it can tell whether that will *)
(* block, which is what makes a deadlock possible at all.                  *)
(***************************************************************************)
EXTENDS Naturals

CONSTANTS
  Capacity,     \* bytes a pipe holds
  Capture,      \* bytes process_execute keeps
  MaxRequest,   \* bound: bytes of the request
  MaxAnswer,    \* bound: bytes the child may write
  Caps,         \* values of answer_max, 0 for none
  Manners       \* what children a run covers: see Init

ASSUME PipesAssumption == /\ Capacity \in Nat \ {0} /\ Capture \in Nat
                          /\ MaxRequest \in Nat /\ MaxAnswer \in Nat
                          /\ Caps \subseteq Nat
ASSUME MannersAssumption == Manners \subseteq {"willing", "stuck", "closing"}

VARIABLES
  kind, manners, deadline, cap,   \* the call, and the child it meets
  phase, ready,                   \* molto: where it is, what poll reported
  remaining,                      \* request bytes not yet written
  toChild, fromChild,             \* molto's ends are open
  got, truncated, result, code,   \* what the call has so far
  expired,                        \* the deadline is behind us
  inPipe, outPipe,                \* bytes in each pipe
  child, op,                      \* the child process; what it is committed to
  childIn, childOut,              \* its ends are open
  childRead, wrote, sawEof,       \* history of its side
  request                         \* history: the size of the whole request

call == <<kind, manners, deadline, cap, request>>
ends == <<toChild, fromChild>>
received == <<got, truncated>>
pipes == <<inPipe, outPipe>>
childVars == <<child, op, childIn, childOut, childRead, wrote, sawEof>>
exchangeVars == <<kind, manners, deadline, cap, request, phase, ready, remaining, toChild,
          fromChild, got, truncated, result, code, expired, inPipe, outPipe, child,
          op, childIn, childOut, childRead, wrote, sawEof>>

Results == {"ok", "not_started", "timed_out", "too_large", "failed"}
Codes == {"none", "status", "unrunnable", "killed"}

\* willing: takes its next step whenever it can.  stuck: may stop for ever, but
\* holds its ends open until it exits.  closing: may stop after closing them.
ExchangeInit ==
  /\ kind \in {"execute", "exchange"}
  /\ manners \in Manners
  /\ deadline \in IF kind = "execute" THEN {FALSE}
                  ELSE IF manners = "willing" THEN BOOLEAN ELSE {TRUE}
  /\ kind = "execute" => manners = "willing"
  /\ cap \in IF kind = "execute" THEN {0} ELSE Caps
  /\ request \in IF kind = "execute" THEN {0} ELSE 0 .. MaxRequest
  /\ phase = "spawn" /\ ready = {}
  /\ remaining = request
  /\ toChild = (kind = "exchange") /\ fromChild = TRUE
  /\ got = 0 /\ truncated = FALSE
  /\ result = "ok" /\ code = "none"
  /\ expired = FALSE
  /\ inPipe = 0 /\ outPipe = 0
  /\ child = "none" /\ op = "exec"
  /\ childIn = (kind = "exchange") /\ childOut = TRUE
  /\ childRead = 0 /\ wrote = 0 /\ sawEof = FALSE

------------------------------------------------------------------------------
(* The child                                                                *)

Running == child = "running"
Dead(c) == /\ child' = c
           /\ op' = "none"
           /\ childIn' = FALSE /\ childOut' = FALSE
           /\ UNCHANGED <<childRead, wrote, sawEof>>

molto == <<phase, ready, remaining, toChild, fromChild, got, truncated, result, code,
           expired>>

Exec == /\ Running /\ op = "exec"
        /\ op' = "think"
        /\ UNCHANGED <<call, molto, pipes, child, childIn, childOut, childRead, wrote,
                       sawEof>>

\* The environment, the directory or execvp: it exits as a shell would.
ExecFails == /\ Running /\ op = "exec"
             /\ Dead("unrunnable")
             /\ UNCHANGED <<call, molto, pipes>>

Decide(o) ==
  /\ Running /\ op = "think"
  /\ \/ o = "read" /\ childIn /\ ~sawEof
     \/ o = "write" /\ childOut /\ wrote < MaxAnswer
  /\ op' = o
  /\ UNCHANGED <<call, molto, pipes, child, childIn, childOut, childRead, wrote, sawEof>>

ChildReads(n) ==
  /\ Running /\ op = "read"
  /\ n <= inPipe
  /\ inPipe' = inPipe - n
  /\ childRead' = childRead + n
  /\ op' = "think"
  /\ UNCHANGED <<call, molto, outPipe, child, childIn, childOut, wrote, sawEof>>

ChildSeesEof ==
  /\ Running /\ op = "read"
  /\ inPipe = 0 /\ ~toChild
  /\ sawEof' = TRUE
  /\ op' = "think"
  /\ UNCHANGED <<call, molto, pipes, child, childIn, childOut, childRead, wrote>>

ChildWrites ==
  /\ Running /\ op = "write"
  /\ fromChild /\ outPipe < Capacity
  /\ outPipe' = outPipe + 1
  /\ wrote' = wrote + 1
  /\ op' = "think"
  /\ UNCHANGED <<call, molto, inPipe, child, childIn, childOut, childRead, sawEof>>

\* Nobody holds the other end: the write ends the child.
ChildWritesToNobody ==
  /\ Running /\ op = "write"
  /\ ~fromChild
  /\ Dead("exited")
  /\ UNCHANGED <<call, molto, pipes>>

CloseIn ==
  /\ Running /\ op = "think" /\ childIn
  /\ childIn' = FALSE
  /\ UNCHANGED <<call, molto, pipes, child, op, childOut, childRead, wrote, sawEof>>

CloseOut ==
  /\ Running /\ op = "think" /\ childOut
  /\ manners # "stuck"
  /\ childOut' = FALSE
  /\ UNCHANGED <<call, molto, pipes, child, op, childIn, childRead, wrote, sawEof>>

Exit ==
  /\ Running /\ op = "think"
  /\ Dead("exited")
  /\ UNCHANGED <<call, molto, pipes>>

Child == \/ Exec \/ ExecFails
         \/ \E o \in {"read", "write"} : Decide(o)
         \/ \E n \in 1 .. Capacity : ChildReads(n)
         \/ ChildSeesEof \/ ChildWrites \/ ChildWritesToNobody
         \/ CloseIn \/ CloseOut \/ Exit

------------------------------------------------------------------------------
(* Starting it                                                              *)

\* No pipe or no process: both pipes are closed again.
SpawnFails ==
  /\ phase = "spawn"
  /\ toChild' = FALSE /\ fromChild' = FALSE
  /\ result' = "not_started"
  /\ phase' = "done"
  /\ UNCHANGED <<call, ready, remaining, received, code, expired, pipes, childVars>>

\* A request of nothing is a closed stdin, not an open one.
Spawn ==
  /\ phase = "spawn"
  /\ child' = "running"
  /\ toChild' = (remaining > 0)
  /\ phase' = IF kind = "execute" THEN "drain" ELSE "poll"
  /\ UNCHANGED <<call, ready, remaining, fromChild, received, result, code, expired,
                 pipes, op, childIn, childOut, childRead, wrote, sawEof>>

------------------------------------------------------------------------------
(* process_execute: drain the pipe to its end, then wait                    *)

\* What does not fit is read and dropped, and said to have been.
Drain ==
  /\ phase = "drain"
  /\ outPipe > 0
  /\ got' = IF got + outPipe > Capture THEN Capture ELSE got + outPipe
  /\ truncated' = (truncated \/ got + outPipe > Capture)
  /\ outPipe' = 0
  /\ UNCHANGED <<call, phase, ready, remaining, ends, result, code, expired, inPipe,
                 childVars>>

DrainEof ==
  /\ phase = "drain"
  /\ outPipe = 0 /\ ~childOut
  /\ fromChild' = FALSE
  /\ phase' = "wait"
  /\ UNCHANGED <<call, ready, remaining, toChild, received, result, code, expired, pipes,
                 childVars>>

------------------------------------------------------------------------------
(* exchange_pump: both directions at once                                   *)

\* A closed peer is reported as ready too: the write or the read then says so.
Ready == {e \in {"to", "from"} :
            \/ e = "to" /\ toChild /\ (inPipe < Capacity \/ ~childIn)
            \/ e = "from" /\ fromChild /\ (outPipe > 0 \/ ~childOut)}

\* poll gives up after a tick when neither end is ready.
Poll ==
  /\ phase = "poll"
  /\ toChild \/ fromChild
  /\ ready' = Ready
  /\ phase' = "write"
  /\ UNCHANGED <<call, remaining, ends, received, result, code, expired, pipes,
                 childVars>>

\* poll itself fails.
PollFails ==
  /\ phase = "poll"
  /\ toChild \/ fromChild
  /\ result' = "failed"
  /\ phase' = "end"
  /\ UNCHANGED <<call, ready, remaining, ends, received, code, expired, pipes, childVars>>

Fits == IF remaining < Capacity - inPipe THEN remaining ELSE Capacity - inPipe

\* Slip: a blocking write, which returns when all of the request is in the pipe.
WriteChunkBlocking ==
  /\ phase = "write" /\ "to" \in ready
  /\ ~childIn \/ Fits > 0
  /\ IF ~childIn
     THEN toChild' = FALSE /\ UNCHANGED <<inPipe, remaining>>
     ELSE /\ inPipe' = inPipe + Fits
          /\ remaining' = remaining - Fits
          /\ toChild' = (remaining' > 0)
  /\ phase' = IF toChild' THEN "write" ELSE "read"
  /\ UNCHANGED <<call, ready, fromChild, received, result, code, expired, outPipe,
                 childVars>>

\* As much of the request as fits; a child that stopped reading has all it wants.
WriteChunk ==
  /\ phase = "write" /\ "to" \in ready
  /\ IF ~childIn
     THEN toChild' = FALSE /\ UNCHANGED <<inPipe, remaining>>
     ELSE /\ inPipe' = inPipe + Fits
          /\ remaining' = remaining - Fits
          /\ toChild' = (remaining' > 0)
  /\ phase' = "read"
  /\ UNCHANGED <<call, ready, fromChild, received, result, code, expired, outPipe,
                 childVars>>

NoWrite ==
  /\ phase = "write" /\ "to" \notin ready
  /\ phase' = "read"
  /\ UNCHANGED <<call, ready, remaining, ends, received, result, code, expired, pipes,
                 childVars>>

\* Slip: the cap is looked at before the chunk is counted.
ReadChunkLate ==
  /\ phase = "read" /\ "from" \in ready /\ outPipe > 0
  /\ IF cap > 0 /\ got > cap
     THEN result' = "too_large" /\ phase' = "end" /\ got' = got
     ELSE got' = got + outPipe /\ phase' = "clock" /\ result' = result
  /\ outPipe' = 0
  /\ UNCHANGED <<call, ready, remaining, ends, truncated, code, expired, inPipe,
                 childVars>>

\* answer_take: a chunk that would pass the cap is refused.
ReadChunk ==
  /\ phase = "read" /\ "from" \in ready /\ outPipe > 0
  /\ IF cap > 0 /\ got + outPipe > cap
     THEN result' = "too_large" /\ phase' = "end" /\ got' = got
     ELSE got' = got + outPipe /\ phase' = "clock" /\ result' = result
  /\ outPipe' = 0
  /\ UNCHANGED <<call, ready, remaining, ends, truncated, code, expired, inPipe,
                 childVars>>

\* No memory for the chunk.
ReadLost ==
  /\ phase = "read" /\ "from" \in ready /\ outPipe > 0
  /\ outPipe' = 0
  /\ result' = "failed"
  /\ phase' = "end"
  /\ UNCHANGED <<call, ready, remaining, ends, received, code, expired, inPipe,
                 childVars>>

ReadEof ==
  /\ phase = "read" /\ "from" \in ready /\ outPipe = 0
  /\ fromChild' = FALSE
  /\ phase' = "clock"
  /\ UNCHANGED <<call, ready, remaining, toChild, received, result, code, expired, pipes,
                 childVars>>

NoRead ==
  /\ phase = "read" /\ "from" \notin ready
  /\ phase' = "clock"
  /\ UNCHANGED <<call, ready, remaining, ends, received, result, code, expired, pipes,
                 childVars>>

Clock ==
  /\ phase = "clock"
  /\ IF expired THEN result' = "timed_out" /\ phase' = "end"
     ELSE phase' = "poll" /\ result' = result
  /\ ready' = {}
  /\ UNCHANGED <<call, remaining, ends, received, code, expired, pipes, childVars>>

BothClosed ==
  /\ phase = "poll"
  /\ ~toChild /\ ~fromChild
  /\ phase' = "end"
  /\ UNCHANGED <<call, ready, remaining, ends, received, result, code, expired, pipes,
                 childVars>>

End ==
  /\ phase = "end"
  /\ toChild' = FALSE /\ fromChild' = FALSE
  /\ ready' = {}
  /\ phase' = IF result = "ok" THEN "wait" ELSE "kill"
  /\ UNCHANGED <<call, remaining, received, result, code, expired, pipes, childVars>>

\* Slip: the child is killed and not reaped.
KillOnly ==
  /\ phase = "kill"
  /\ Dead(IF child = "running" THEN "killed" ELSE child)
  /\ phase' = "done"
  /\ UNCHANGED <<call, ready, remaining, ends, received, result, code, expired, pipes>>

Kill ==
  /\ phase = "kill"
  /\ Dead("reaped")
  /\ phase' = "done"
  /\ UNCHANGED <<call, ready, remaining, ends, received, result, code, expired, pipes>>

\* waitpid, which waits for as long as it takes.
Wait ==
  /\ phase = "wait"
  /\ child \in {"exited", "unrunnable"}
  /\ code' = IF child = "exited" THEN "status" ELSE "unrunnable"
  /\ result' = IF kind = "exchange" /\ child = "unrunnable" THEN "not_started"
               ELSE result
  /\ Dead("reaped")
  /\ phase' = "done"
  /\ UNCHANGED <<call, ready, remaining, ends, received, expired, pipes>>

Expire ==
  /\ deadline /\ ~expired /\ phase \notin {"spawn", "done"}
  /\ expired' = TRUE
  /\ UNCHANGED <<call, phase, ready, remaining, ends, received, result, code, pipes,
                 childVars>>

Execute == Drain \/ DrainEof
Pump == Poll \/ WriteChunk \/ NoWrite \/ ReadChunk \/ ReadEof \/ NoRead \/ Clock
        \/ BothClosed
Finish == End \/ Kill \/ Wait
Molto == SpawnFails \/ Spawn \/ Execute \/ Pump \/ Finish

Done == phase = "done" /\ UNCHANGED exchangeVars

ExchangeNext == Molto \/ PollFails \/ ReadLost \/ Expire \/ Child \/ Done

ExchangeSpec == ExchangeInit /\ [][ExchangeNext]_exchangeVars

\* molto and time go on; a child does when it is a willing one.
FairExchange ==
  /\ ExchangeSpec
  /\ WF_exchangeVars(Molto)
  /\ WF_exchangeVars(Expire)
  /\ WF_exchangeVars(manners = "willing" /\ Child)

------------------------------------------------------------------------------
(* Properties                                                               *)

\* Every variable keeps its type.
ExchangeTypes ==
  /\ kind \in {"execute", "exchange"} /\ manners \in Manners
  /\ deadline \in BOOLEAN /\ cap \in Caps \cup {0} /\ request \in 0 .. MaxRequest
  /\ phase \in {"spawn", "drain", "poll", "write", "read", "clock", "end", "kill", "wait",
             "done"}
  /\ ready \subseteq {"to", "from"}
  /\ remaining \in 0 .. request
  /\ toChild \in BOOLEAN /\ fromChild \in BOOLEAN
  /\ got \in 0 .. MaxAnswer /\ truncated \in BOOLEAN
  /\ result \in Results /\ code \in Codes
  /\ expired \in BOOLEAN
  /\ inPipe \in 0 .. Capacity /\ outPipe \in 0 .. Capacity
  /\ child \in {"none", "running", "exited", "unrunnable", "killed", "reaped"}
  /\ op \in {"exec", "think", "read", "write", "none"}
  /\ childIn \in BOOLEAN /\ childOut \in BOOLEAN
  /\ childRead \in 0 .. request /\ wrote \in 0 .. MaxAnswer /\ sawEof \in BOOLEAN

\* A result of ok hands over everything the child wrote, within the cap; a
\* capture holds what fits and says when that is not all of it.
AnswerIsWhole ==
  /\ cap > 0 => got <= cap
  /\ phase = "done" /\ result = "ok" =>
       IF kind = "exchange" THEN got = wrote
       ELSE got = (IF wrote > Capture THEN Capture ELSE wrote)
            /\ truncated = (wrote > Capture)

\* While the exchange goes well, a child that read to the end of its input has
\* the whole request.
EofIsWholeRequest ==
  sawEof /\ kind = "exchange" /\ result = "ok" => childRead = request

\* Whatever the outcome, the call leaves no child and no open pipe behind.
NothingLeftBehind ==
  phase = "done" => child \in {"none", "reaped"} /\ ~toChild /\ ~fromChild

\* A child that takes its steps never waits for molto while molto waits for it,
\* however full the pipes: the call returns.
NoDeadlock == manners = "willing" => <>(phase = "done")

\* A child that never finishes, and holds its output open, is killed once the
\* deadline has passed.
StuckIsKilled == manners = "stuck" => <>(phase = "done")

\* "A child that never finishes is killed at timeout_ms": every call with a
\* deadline returns.
DeadlineReturns == deadline => <>(phase = "done")

\* While the exchange goes well the end of its input tells the child that the request is whole,
\* and a call that is over, however it went, leaves no child and no open pipe behind.
ExchangeIsSound == ExchangeTypes /\ EofIsWholeRequest /\ NothingLeftBehind

\* A call comes to an end, with a child that works and, under a deadline, with one that is stuck.
CallReturns == NoDeadlock /\ StuckIsKilled
=============================================================================
