------------------------------ MODULE TaskPool -------------------------------
(***************************************************************************)
(* The work-stealing pool of src/util/task_pool.c: one deque per worker,   *)
(* a caller that creates the pool, submits, waits and destroys, and the    *)
(* two condition variables between them.                                   *)
(*                                                                         *)
(* A step is what the code does between two points where another thread    *)
(* can be observed: a deque operation under the deque's own mutex, one     *)
(* atomic, or one hold of work_mtx or done_mtx that does not look at       *)
(* anything another thread writes without that mutex.  Where it does look  *)
(* (the test of pending in task_pool_wait, of shutdown in pool_park) the   *)
(* test and the sleep are two steps, because the other thread's write can  *)
(* fall between them.  Who holds a mutex follows from the program counters.*)
(*                                                                         *)
(* Deques are sequences, top first: the array behind one, which slides and *)
(* grows, is not modelled beyond growing being able to fail.               *)
(***************************************************************************)
EXTENDS Integers, Sequences, FiniteSets

CONSTANTS
  N,       \* number of workers
  Tasks,   \* the tasks a caller may submit, each at most once
  NoTask   \* a worker's or the caller's empty hand

ASSUME WorkersAssumption == N \in Nat \ {0}
ASSUME TasksAssumption == IsFiniteSet(Tasks) /\ NoTask \notin Tasks

Workers == 0 .. (N - 1)

VARIABLES
  caller,    \* where the thread that owns the pool is
  born,      \* how many worker threads it has started
  rr,        \* round_robin_next modulo the worker count
  home,      \* the worker whose deque the submit in progress goes to
  cur,       \* the task of the submit in progress
  waited,    \* no submit since the last wait returned
  shutdown,
  pending,
  deque,     \* [Workers -> Seq(Tasks)]
  pc,        \* where each worker is
  task,      \* the task each worker has taken
  victims,   \* the peers a worker's scan has still to visit
  stage,     \* history: how far each task has come
  runs       \* history: how often each task's function was called

callVars == <<caller, born, rr, home, cur, waited>>
taskVars == <<stage, runs>>
vars == <<caller, born, rr, home, cur, waited, shutdown, pending, deque, pc,
          task, victims, stage, runs>>

Stages == {"new", "counted", "queued", "taken", "ran", "retired", "refused"}
CallerAt == {"create", "idle", "counted", "pushed", "locking", "test", "sleepy",
             "asleep", "stopping", "joining", "freed"}
WorkerAt == {"unborn", "loop", "pop", "scan", "run", "count", "lockdone", "wake",
             "lockwork", "check", "drowsy", "parked", "rewake", "exited"}

\* Submitted and not yet marked done: what pending is meant to count.
Live == {t \in Tasks : stage[t] \in {"counted", "queued", "taken", "ran"}}

DoneHeld == caller \in {"test", "sleepy"} \/ \E w \in Workers : pc[w] = "wake"
WorkHeld == \E w \in Workers : pc[w] \in {"check", "drowsy"}

Init ==
  /\ caller = "create"
  /\ born = 0
  /\ rr = 0
  /\ home = 0
  /\ cur = NoTask
  /\ waited = TRUE
  /\ shutdown = FALSE
  /\ pending = 0
  /\ deque = [w \in Workers |-> << >>]
  /\ pc = [w \in Workers |-> "unborn"]
  /\ task = [w \in Workers |-> NoTask]
  /\ victims = [w \in Workers |-> {}]
  /\ stage = [t \in Tasks |-> "new"]
  /\ runs = [t \in Tasks |-> 0]

------------------------------------------------------------------------------
(* task_pool_create: the threads are started one by one and run at once.    *)

StartThread ==
  /\ caller = "create"
  /\ pc' = [pc EXCEPT ![born] = "loop"]
  /\ born' = born + 1
  /\ caller' = IF born + 1 = N THEN "idle" ELSE "create"
  /\ UNCHANGED <<rr, home, cur, waited, shutdown, pending, deque, task, victims,
                 taskVars>>

\* A thread that cannot be started sends the half-built pool to destroy.
StartFails ==
  /\ caller = "create"
  /\ shutdown' = TRUE
  /\ caller' = "stopping"
  /\ UNCHANGED <<born, rr, home, cur, waited, pending, deque, pc, task, victims,
                 taskVars>>

------------------------------------------------------------------------------
(* task_pool_submit                                                         *)

\* Slip: the count is left to the push, after the task is visible.
SubmitCountLate(t) ==
  /\ caller = "idle"
  /\ stage[t] = "new"
  /\ home' = rr
  /\ rr' = IF rr + 1 = N THEN 0 ELSE rr + 1
  /\ cur' = t
  /\ waited' = FALSE
  /\ stage' = [stage EXCEPT ![t] = "counted"]
  /\ caller' = "counted"
  /\ UNCHANGED <<born, shutdown, pending, deque, pc, task, victims, runs>>

\* The count goes up before the task can be seen by any worker.
SubmitCount(t) ==
  /\ caller = "idle"
  /\ stage[t] = "new"
  /\ home' = rr
  /\ rr' = IF rr + 1 = N THEN 0 ELSE rr + 1
  /\ pending' = pending + 1
  /\ cur' = t
  /\ waited' = FALSE
  /\ stage' = [stage EXCEPT ![t] = "counted"]
  /\ caller' = "counted"
  /\ UNCHANGED <<born, shutdown, deque, pc, task, victims, runs>>

SubmitPush ==
  /\ caller = "counted"
  /\ deque' = [deque EXCEPT ![home] = Append(@, cur)]
  /\ stage' = [stage EXCEPT ![cur] = "queued"]
  /\ caller' = "pushed"
  /\ UNCHANGED <<born, rr, home, cur, waited, shutdown, pending, pc, task, victims,
                 runs>>

\* deque_grow found no memory: the count is taken back, nobody is woken.
SubmitRefused ==
  /\ caller = "counted"
  /\ pending' = pending - 1
  /\ stage' = [stage EXCEPT ![cur] = "refused"]
  /\ cur' = NoTask
  /\ caller' = "idle"
  /\ UNCHANGED <<born, rr, home, waited, shutdown, deque, pc, task, victims, runs>>

\* condition_signal wakes one of the parked workers, if any is parked.
SubmitSignal ==
  /\ caller = "pushed"
  /\ ~WorkHeld
  /\ \/ \E w \in Workers :
          /\ pc[w] = "parked"
          /\ pc' = [pc EXCEPT ![w] = "rewake"]
     \/ /\ \A w \in Workers : pc[w] # "parked"
        /\ UNCHANGED pc
  /\ cur' = NoTask
  /\ caller' = "idle"
  /\ UNCHANGED <<born, rr, home, waited, shutdown, pending, deque, task, victims,
                 taskVars>>

------------------------------------------------------------------------------
(* task_pool_wait                                                           *)

CallWait ==
  /\ caller = "idle"
  /\ caller' = "locking"
  /\ UNCHANGED <<born, rr, home, cur, waited, shutdown, pending, deque, pc, task,
                 victims, taskVars>>

WaitLock ==
  /\ caller = "locking"
  /\ ~DoneHeld
  /\ caller' = "test"
  /\ UNCHANGED <<born, rr, home, cur, waited, shutdown, pending, deque, pc, task,
                 victims, taskVars>>

\* Slip: an off-by-one in the loop's condition.
WaitReturnEarly ==
  /\ caller = "test"
  /\ pending <= 1
  /\ caller' = "idle"
  /\ waited' = TRUE
  /\ UNCHANGED <<born, rr, home, cur, shutdown, pending, deque, pc, task, victims,
                 taskVars>>

WaitReturn ==
  /\ caller = "test"
  /\ pending = 0
  /\ caller' = "idle"
  /\ waited' = TRUE
  /\ UNCHANGED <<born, rr, home, cur, shutdown, pending, deque, pc, task, victims,
                 taskVars>>

WaitNotYet ==
  /\ caller = "test"
  /\ pending > 0
  /\ caller' = "sleepy"
  /\ UNCHANGED <<born, rr, home, cur, waited, shutdown, pending, deque, pc, task,
                 victims, taskVars>>

\* condition_wait gives done_mtx back and sleeps in one step.
WaitSleep ==
  /\ caller = "sleepy"
  /\ caller' = "asleep"
  /\ UNCHANGED <<born, rr, home, cur, waited, shutdown, pending, deque, pc, task,
                 victims, taskVars>>

\* A condition variable may wake without a signal; the loop tests again.
SpuriousWake ==
  /\ caller = "asleep"
  /\ caller' = "locking"
  /\ UNCHANGED <<born, rr, home, cur, waited, shutdown, pending, deque, pc, task,
                 victims, taskVars>>

------------------------------------------------------------------------------
(* task_pool_destroy, "call it after task_pool_wait"                        *)

CallDestroy ==
  /\ caller = "idle"
  /\ waited
  /\ shutdown' = TRUE
  /\ caller' = "stopping"
  /\ UNCHANGED <<born, rr, home, cur, waited, pending, deque, pc, task, victims,
                 taskVars>>

DestroyBroadcast ==
  /\ caller = "stopping"
  /\ ~WorkHeld
  /\ pc' = [w \in Workers |-> IF pc[w] = "parked" THEN "rewake" ELSE pc[w]]
  /\ caller' = "joining"
  /\ UNCHANGED <<born, rr, home, cur, waited, shutdown, pending, deque, task,
                 victims, taskVars>>

\* Only the threads that were started are joined, then everything is freed.
DestroyJoin ==
  /\ caller = "joining"
  /\ \A w \in Workers : w < born => pc[w] = "exited"
  /\ caller' = "freed"
  /\ UNCHANGED <<born, rr, home, cur, waited, shutdown, pending, deque, pc, task,
                 victims, taskVars>>

------------------------------------------------------------------------------
(* worker_main                                                              *)

GoTo(w, place) == pc' = [pc EXCEPT ![w] = place]

Loop(w) ==
  /\ pc[w] = "loop"
  /\ GoTo(w, IF shutdown THEN "exited" ELSE "pop")
  /\ UNCHANGED <<callVars, shutdown, pending, deque, task, victims, taskVars>>

Take(w, t) ==
  /\ task' = [task EXCEPT ![w] = t]
  /\ stage' = [stage EXCEPT ![t] = "taken"]
  /\ GoTo(w, "run")

\* deque_pop_bottom: the owner takes the task pushed last.
PopBottom(w) ==
  /\ pc[w] = "pop"
  /\ deque[w] # << >>
  /\ Take(w, deque[w][Len(deque[w])])
  /\ deque' = [deque EXCEPT ![w] = SubSeq(@, 1, Len(@) - 1)]
  /\ UNCHANGED <<callVars, shutdown, pending, victims, runs>>

PopNothing(w) ==
  /\ pc[w] = "pop"
  /\ deque[w] = << >>
  /\ victims' = [victims EXCEPT ![w] = Workers \ {w}]
  /\ GoTo(w, IF N = 1 THEN "lockwork" ELSE "scan")
  /\ UNCHANGED <<callVars, shutdown, pending, deque, task, taskVars>>

\* Slip: the thief reads the top task and leaves it in the deque.
StealTopKept(w, v) ==
  /\ pc[w] = "scan"
  /\ v \in victims[w]
  /\ deque[v] # << >>
  /\ Take(w, deque[v][1])
  /\ victims' = [victims EXCEPT ![w] = {}]
  /\ UNCHANGED <<callVars, shutdown, pending, deque, runs>>

\* deque_steal_top on the next peer of the scan.  The code starts at a
\* pseudo-random peer and goes round; any order of the peers includes that.
StealTop(w, v) ==
  /\ pc[w] = "scan"
  /\ v \in victims[w]
  /\ deque[v] # << >>
  /\ Take(w, deque[v][1])
  /\ deque' = [deque EXCEPT ![v] = Tail(@)]
  /\ victims' = [victims EXCEPT ![w] = {}]
  /\ UNCHANGED <<callVars, shutdown, pending, runs>>

StealNothing(w, v) ==
  /\ pc[w] = "scan"
  /\ v \in victims[w]
  /\ deque[v] = << >>
  /\ victims' = [victims EXCEPT ![w] = @ \ {v}]
  /\ GoTo(w, IF victims[w] = {v} THEN "lockwork" ELSE "scan")
  /\ UNCHANGED <<callVars, shutdown, pending, deque, task, taskVars>>

Run(w) ==
  /\ pc[w] = "run"
  /\ runs' = [runs EXCEPT ![task[w]] = @ + 1]
  /\ stage' = [stage EXCEPT ![task[w]] = "ran"]
  /\ GoTo(w, "count")
  /\ UNCHANGED <<callVars, shutdown, pending, deque, task, victims>>

\* pool_mark_done: the worker that brings pending to zero wakes the waiter.
MarkDone(w) ==
  /\ pc[w] = "count"
  /\ pending' = pending - 1
  /\ stage' = [stage EXCEPT ![task[w]] = "retired"]
  /\ task' = [task EXCEPT ![w] = NoTask]
  /\ GoTo(w, IF pending = 1 THEN "lockdone" ELSE "loop")
  /\ UNCHANGED <<callVars, shutdown, deque, victims, runs>>

LockDone(w) ==
  /\ pc[w] = "lockdone"
  /\ ~DoneHeld
  /\ GoTo(w, "wake")
  /\ UNCHANGED <<callVars, shutdown, pending, deque, task, victims, taskVars>>

WakeWaiter(w) ==
  /\ pc[w] = "wake"
  /\ caller' = IF caller = "asleep" THEN "locking" ELSE caller
  /\ GoTo(w, "loop")
  /\ UNCHANGED <<born, rr, home, cur, waited, shutdown, pending, deque, task,
                 victims, taskVars>>

------------------------------------------------------------------------------
(* pool_park                                                                *)

LockWork(w) ==
  /\ pc[w] = "lockwork"
  /\ ~WorkHeld
  /\ GoTo(w, "check")
  /\ UNCHANGED <<callVars, shutdown, pending, deque, task, victims, taskVars>>

ParkCheck(w) ==
  /\ pc[w] = "check"
  /\ GoTo(w, IF shutdown THEN "loop" ELSE "drowsy")
  /\ UNCHANGED <<callVars, shutdown, pending, deque, task, victims, taskVars>>

Park(w) ==
  /\ pc[w] = "drowsy"
  /\ GoTo(w, "parked")
  /\ UNCHANGED <<callVars, shutdown, pending, deque, task, victims, taskVars>>

\* Slip: condition_wait in place of condition_wait_ms.
ParkTimeoutNever(w) == FALSE /\ UNCHANGED vars

\* PARK_TIMEOUT_MS has passed (or the wake-up is a spurious one).
ParkTimeout(w) ==
  /\ pc[w] = "parked"
  /\ GoTo(w, "rewake")
  /\ UNCHANGED <<callVars, shutdown, pending, deque, task, victims, taskVars>>

\* The woken worker takes work_mtx back, gives it up and loops.
Unpark(w) ==
  /\ pc[w] = "rewake"
  /\ ~WorkHeld
  /\ GoTo(w, "loop")
  /\ UNCHANGED <<callVars, shutdown, pending, deque, task, victims, taskVars>>

------------------------------------------------------------------------------

\* What the caller does inside a call, once it is in it.
CallerStep ==
  \/ StartThread
  \/ SubmitPush
  \/ SubmitSignal
  \/ WaitLock
  \/ WaitReturn
  \/ WaitNotYet
  \/ WaitSleep
  \/ DestroyBroadcast
  \/ DestroyJoin

\* What the caller chooses, and what can go wrong for it.
CallerChoice ==
  \/ StartFails
  \/ \E t \in Tasks : SubmitCount(t)
  \/ SubmitRefused
  \/ CallWait
  \/ SpuriousWake
  \/ CallDestroy

WorkerStep(w) ==
  \/ Loop(w)
  \/ PopBottom(w)
  \/ PopNothing(w)
  \/ \E v \in Workers : StealTop(w, v) \/ StealNothing(w, v)
  \/ Run(w)
  \/ MarkDone(w)
  \/ LockDone(w)
  \/ WakeWaiter(w)
  \/ LockWork(w)
  \/ ParkCheck(w)
  \/ Park(w)
  \/ ParkTimeout(w)
  \/ Unpark(w)

\* The pool is gone and so is every thread: the program goes on elsewhere.
Gone ==
  /\ caller = "freed"
  /\ UNCHANGED vars

Next ==
  \/ CallerStep
  \/ CallerChoice
  \/ \E w \in Workers : WorkerStep(w)
  \/ Gone

Spec == Init /\ [][Next]_vars

\* The operating system runs every runnable thread, and a thread that waits
\* for a mutex nobody keeps gets it: strong fairness, since the mutex may be
\* taken and given back in between.
Fairness ==
  /\ SF_vars(CallerStep)
  /\ \A w \in Workers : SF_vars(WorkerStep(w))

FairSpec == Spec /\ Fairness

------------------------------------------------------------------------------
(* Properties                                                               *)

\* Every variable has its type; the one type invariant of the module.
TypeOK ==
  /\ caller \in CallerAt
  /\ born \in 0 .. N
  /\ rr \in Workers
  /\ home \in Workers
  /\ cur \in Tasks \cup {NoTask}
  /\ waited \in BOOLEAN
  /\ shutdown \in BOOLEAN
  /\ pending \in Nat
  /\ deque \in [Workers -> Seq(Tasks)]
  /\ pc \in [Workers -> WorkerAt]
  /\ task \in [Workers -> Tasks \cup {NoTask}]
  /\ victims \in [Workers -> SUBSET Workers]
  /\ stage \in [Tasks -> Stages]
  /\ runs \in [Tasks -> Nat]

\* pending is exactly the number of tasks submitted and not yet marked done,
\* whatever the submitter and the workers have interleaved: were it ever short,
\* the size_t would pass zero and a wait could return early or never.
PendingCounts == pending = Cardinality(Live)

\* No task's function is called twice, whoever popped or stole it, and every
\* task marked done was called.
RunsOnce ==
  \A t \in Tasks :
    /\ runs[t] <= 1
    /\ stage[t] \in {"ran", "retired"} => runs[t] = 1

\* task_pool_destroy frees the pool only when no thread is left that could
\* touch it, also when task_pool_create gave up half way.
FreedAlone == caller = "freed" => \A w \in Workers : pc[w] \in {"unborn", "exited"}

\* task_pool_wait is a barrier: at the step in which it returns, every task the
\* pool accepted has been run to its end, and run once.
WaitIsBarrier ==
  [][(caller = "test" /\ caller' = "idle") =>
       \A t \in Tasks : stage[t] \notin {"new", "refused"} =>
                           stage[t] = "retired" /\ runs[t] = 1]_vars

\* A caller that waits is woken: the last task's broadcast cannot fall between
\* the caller's test of pending and its sleep.
WaitReturns == (caller = "locking") ~> (caller = "idle")

\* An accepted task runs even if nobody waits for it: a signal sent while every
\* worker was between its scan and its sleep is lost, and the park timeout
\* (PARK_TIMEOUT_MS) makes up for it.
QueuedTaskRuns == \A t \in Tasks : (stage[t] = "queued") ~> (stage[t] = "retired")

\* task_pool_destroy comes back: shutdown reaches every worker.
DestroyReturns == (caller = "stopping") ~> (caller = "freed")

\* The pool implements the contract of task_pool.h.  A task is given when its
\* push succeeds and finished when its function returns.
Given == {t \in Tasks : stage[t] \in {"queued", "taken", "ran", "retired"}}
Finished == {t \in Tasks : stage[t] \in {"ran", "retired"}}
Phase ==
  IF caller \in {"locking", "test", "sleepy", "asleep"} THEN "waiting"
  ELSE IF caller \in {"stopping", "joining", "freed"} THEN "closed"
  ELSE "open"

Batch == INSTANCE TaskBatch WITH given <- Given, finished <- Finished, phase <- Phase

ImplementsTaskBatch == Batch!Spec

\* What task_pool.c keeps at every step: `pending` counts the tasks that are not retired, no task
\* runs twice, and memory is freed when no thread is left to touch it.
PoolIsSound == TypeOK /\ PendingCounts /\ RunsOnce /\ FreedAlone

\* Nobody waits for ever: a wait for the batch, a queued task and the end of the pool all come
\* to their end (task_pool_wait, worker_main, task_pool_destroy).
EveryoneReturns == WaitReturns /\ QueuedTaskRuns /\ DestroyReturns
=============================================================================
