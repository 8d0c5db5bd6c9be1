------------------------------ MODULE TaskBatch ------------------------------
(***************************************************************************)
(* What a caller may rely on when it uses the task pool (the contract in   *)
(* include/molto/util/task_pool.h), with no workers, queues or locks: tasks *)
(* are given, each finishes once, a wait returns only when everything given *)
(* has finished, and the pool is closed only in that condition.            *)
(***************************************************************************)

CONSTANT Tasks

VARIABLES
  given,     \* tasks the pool has accepted
  finished,  \* tasks whose function has returned
  phase      \* what the caller is doing: "open", "waiting" or "closed"

vars == <<given, finished, phase>>

Init ==
  /\ given = {}
  /\ finished = {}
  /\ phase = "open"

Give(t) ==
  /\ phase = "open"
  /\ t \notin given
  /\ given' = given \cup {t}
  /\ UNCHANGED <<finished, phase>>

Finish(t) ==
  /\ t \in given \ finished
  /\ finished' = finished \cup {t}
  /\ UNCHANGED <<given, phase>>

Wait ==
  /\ phase = "open"
  /\ phase' = "waiting"
  /\ UNCHANGED <<given, finished>>

Return ==
  /\ phase = "waiting"
  /\ finished = given
  /\ phase' = "open"
  /\ UNCHANGED <<given, finished>>

Close ==
  /\ phase = "open"
  /\ finished = given
  /\ phase' = "closed"
  /\ UNCHANGED <<given, finished>>

Next ==
  \/ \E t \in Tasks : Give(t) \/ Finish(t)
  \/ Wait
  \/ Return
  \/ Close

Spec == Init /\ [][Next]_vars
=============================================================================
