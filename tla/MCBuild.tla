------------------------------ MODULE MCBuild -------------------------------
(* Build with two project sources that share a header, and a package.       *)
EXTENDS Build

AllDay == [source |-> Phases, header |-> Phases, manifest |-> Phases]

\* Every edit is new, none falls between the check and the record, headers are
\* not touched while they are being compiled; anything may go wrong.
Forward == [reverts |-> FALSE,
            hours |-> [AllDay EXCEPT !.source = @ \ {"absorb"},
                                     !.header = @ \ {"submit", "record", "absorb"}],
            faults |-> Faults]

\* Edits may restore old contents, but not while a pass runs, and no record is
\* lost to a crash or a failed save.
Calm == [reverts |-> TRUE,
         hours |-> [AllDay EXCEPT !.source = @ \ {"submit", "record", "absorb"},
                                  !.header = @ \ {"submit", "record", "absorb"}],
         faults |-> {"compile", "link", "clean"}]

\* A source is edited while it is compiled and its old content restored later.
Reverting == [Calm EXCEPT !.hours.source = @ \cup {"submit"}, !.faults = {}]

BothWorlds == {Forward, Calm}
RevertingWorld == {Reverting}
=============================================================================
