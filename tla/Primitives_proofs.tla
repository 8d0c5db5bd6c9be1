------------------------- MODULE Primitives_proofs ---------------------------
(***************************************************************************)
(* What is proved of the four parts that everything else is built on.      *)
(*                                                                         *)
(* TaskPool, for every number of workers and every finite set of tasks:    *)
(* its types, the four state invariants of the run, the barrier of         *)
(* task_pool_wait, and that it implements TaskBatch.  None of these is     *)
(* inductive alone.  The strengthening ties the three places a live task   *)
(* can be (the submit in progress, a deque, a worker's hand) to its stage, *)
(* and says no task is in two places at once.                              *)
(*                                                                         *)
(* Exchange, for pipes of any size, requests and answers of any length and *)
(* any cap: its types, that a result of ok is the whole answer, that the   *)
(* end of its input tells a child the request is whole, and that a call    *)
(* leaves neither a child nor an open pipe behind.  The strengthening      *)
(* counts the bytes on their way, and says what a closed end means while   *)
(* nothing has gone wrong.                                                 *)
(*                                                                         *)
(* StrMap, for any keys, values, hash function and sizes: that it          *)
(* implements Dictionary.  The strengthening says that no key is twice in  *)
(* the array, that every entry is where a probe for its key comes before   *)
(* any empty slot, and that the table is never full.                       *)
(*                                                                         *)
(* Report, for any units, slots, heights and messages: that the screen is  *)
(* the log and the region below it, that the table and the counter are     *)
(* those of the units, and that a frame names what runs, oldest first.     *)
(* The strengthening says which row every text is on, and when a region    *)
(* may be up.                                                              *)
(***************************************************************************)
EXTENDS TaskPool, Exchange, StrMap, Report, FiniteSetTheorems, SequenceTheorems, TLAPS

(***************************************************************************)
(* The task pool                                                           *)
(***************************************************************************)

\* Positions of deque w.
Positions(w) == 1 .. Len(deque[w])

\* The caller's own bookkeeping.
CallerInv ==
  /\ caller = "create" => born < N
  /\ caller = "counted" => cur \in Tasks /\ stage[cur] = "counted"
  /\ caller \in {"create", "stopping", "joining", "freed"} => waited
  /\ waited => pending = 0

\* What is in a deque is queued, and is there once.
QueueInv ==
  /\ \A w \in Workers : \A i \in Positions(w) : stage[deque[w][i]] = "queued"
  /\ \A w, v \in Workers : \A i \in Positions(w), j \in Positions(v) :
       deque[w][i] = deque[v][j] => w = v /\ i = j

Holding(w) == pc[w] \in {"run", "count"}

\* A worker's hand holds a task only between taking it and marking it done.
HandInv ==
  /\ \A w \in Workers : pc[w] = "run" => task[w] \in Tasks /\ stage[task[w]] = "taken"
  /\ \A w \in Workers : pc[w] = "count" => task[w] \in Tasks /\ stage[task[w]] = "ran"
  /\ \A w, v \in Workers :
       Holding(w) /\ Holding(v) /\ task[w] = task[v] => w = v

RunInv ==
  \A t \in Tasks : runs[t] = IF stage[t] \in {"ran", "retired"} THEN 1 ELSE 0

\* Threads are born in order and the joined ones are gone.
ThreadInv ==
  /\ \A w \in Workers : w >= born => pc[w] = "unborn"
  /\ caller = "freed" => \A w \in Workers : w < born => pc[w] = "exited"

IInv ==
  /\ TypeOK
  /\ CallerInv
  /\ QueueInv
  /\ HandInv
  /\ RunInv
  /\ ThreadInv
  /\ PendingCounts
------------------------------------------------------------------------------
(* Facts about the data.                                                    *)

\* Removing one end of a nonempty sequence moves or drops elements, no more.
LEMMA EndsOfSeq ==
  ASSUME NEW S, NEW s \in Seq(S), s # << >>
  PROVE  /\ Len(s) \in Nat \ {0}
         /\ s[1] \in S
         /\ s[Len(s)] \in S
         /\ SubSeq(s, 1, Len(s) - 1) \in Seq(S)
         /\ Len(SubSeq(s, 1, Len(s) - 1)) = Len(s) - 1
         /\ \A i \in 1 .. Len(s) - 1 : SubSeq(s, 1, Len(s) - 1)[i] = s[i]
         /\ Tail(s) \in Seq(S)
         /\ Len(Tail(s)) = Len(s) - 1
         /\ \A i \in 1 .. Len(s) - 1 : Tail(s)[i] = s[i + 1]
<1>1. Len(s) \in Nat \ {0} /\ s[1] \in S /\ s[Len(s)] \in S
  OBVIOUS
<1>2. /\ SubSeq(s, 1, Len(s) - 1) \in Seq(S)
      /\ Len(SubSeq(s, 1, Len(s) - 1)) = Len(s) - 1
      /\ \A i \in 1 .. Len(s) - 1 : SubSeq(s, 1, Len(s) - 1)[i] = s[i]
  <2>1. 1 \in Int /\ Len(s) - 1 \in Int /\ \A i \in 1 .. Len(s) - 1 : s[i] \in S
    BY <1>1
  <2>2. /\ SubSeq(s, 1, Len(s) - 1) \in Seq(S)
        /\ Len(SubSeq(s, 1, Len(s) - 1))
             = IF 1 <= Len(s) - 1 THEN Len(s) - 1 - 1 + 1 ELSE 0
        /\ \A i \in 1 .. Len(s) - 1 - 1 + 1 : SubSeq(s, 1, Len(s) - 1)[i] = s[1 + i - 1]
    BY ONLY <2>1, SubSeqProperties
  <2>3. Len(s) - 1 - 1 + 1 = Len(s) - 1 /\ \A i \in 1 .. Len(s) - 1 : 1 + i - 1 = i
    BY <1>1
  <2>4. \A n \in Nat \ {0} : ~(1 <= n - 1) => n - 1 = 0
    BY ONLY SMT
  <2>5. ~(1 <= Len(s) - 1) => Len(s) - 1 = 0
    BY ONLY <1>1, <2>4
  <2>. QED
    BY <2>2, <2>3, <2>5
<1>3. Tail(s) \in Seq(S) /\ Len(Tail(s)) = Len(s) - 1
  BY <1>1
<1>4. \A i \in 1 .. Len(s) - 1 : Tail(s)[i] = s[i + 1]
  BY <1>1, <1>3
<1>. QED
  BY <1>1, <1>2, <1>3, <1>4

\* The live tasks are finitely many, so a live task makes pending positive.
LEMMA LivePending ==
  ASSUME TypeOK, PendingCounts
  PROVE  /\ IsFiniteSet(Live)
         /\ \A t \in Live : pending > 0
<1>1. IsFiniteSet(Live)
  BY TasksAssumption, FS_Subset DEF Live
<1>2. Live # {} => Cardinality(Live) # 0
  BY <1>1, FS_EmptySet
<1>. QED
  BY <1>1, <1>2 DEF PendingCounts, TypeOK

------------------------------------------------------------------------------
(* Each part of IInv is preserved by every step.                            *)

\* Who holds a task, and what pending says, when a step takes pending down.
LEMMA CountedIsLive ==
  ASSUME IInv
  PROVE  /\ caller = "counted" => cur \in Live /\ pending > 0
         /\ \A w \in Workers : pc[w] = "count" => task[w] \in Live /\ pending > 0
<1>1. caller = "counted" => cur \in Live
  BY DEF IInv, CallerInv, Live
<1>2. \A w \in Workers : pc[w] = "count" => task[w] \in Live
  BY DEF IInv, HandInv, Live
<1>. QED
  BY <1>1, <1>2, LivePending DEF IInv

LEMMA TypeOKStep == IInv /\ [Next]_vars => TypeOK'
<1> SUFFICES ASSUME IInv, [Next]_vars PROVE TypeOK'
  OBVIOUS
<1> USE WorkersAssumption, TasksAssumption DEF Workers
<1>0. TypeOK
  BY DEF IInv
<1>1. CASE StartThread
  BY <1>0, <1>1 DEF IInv, CallerInv, StartThread, TypeOK, CallerAt, WorkerAt, taskVars
<1>2. ASSUME NEW t \in Tasks, SubmitCount(t) PROVE TypeOK'
  <2>1. stage' \in [Tasks -> Stages]
    BY <1>0, <1>2 DEF SubmitCount, TypeOK, Stages
  <2>2. rr' \in Workers /\ home' \in Workers /\ pending' \in Nat
    BY <1>0, <1>2 DEF SubmitCount, TypeOK
  <2>. QED
    BY <1>0, <1>2, <2>1, <2>2 DEF SubmitCount, TypeOK, CallerAt
<1>3. CASE SubmitPush
  BY <1>0, <1>3 DEF IInv, CallerInv, SubmitPush, TypeOK, Stages, CallerAt
<1>4. CASE SubmitRefused
  <2>1. pending > 0 /\ cur \in Tasks
    BY <1>4, CountedIsLive DEF SubmitRefused, Live
  <2>2. stage' \in [Tasks -> Stages]
    BY <1>0, <1>4 DEF SubmitRefused, TypeOK, Stages
  <2>. QED
    BY <1>0, <1>4, <2>1, <2>2 DEF SubmitRefused, TypeOK, CallerAt
<1>5. CASE SubmitSignal
  <2>1. pc' \in [Workers -> WorkerAt]
    BY <1>0, <1>5 DEF SubmitSignal, TypeOK, WorkerAt
  <2>. QED
    BY <1>0, <1>5, <2>1 DEF SubmitSignal, TypeOK, CallerAt, taskVars
<1>6. CASE StartFails \/ CallWait \/ WaitLock \/ WaitReturn \/ WaitNotYet \/ WaitSleep
           \/ SpuriousWake \/ CallDestroy \/ DestroyJoin
  BY <1>0, <1>6 DEF StartFails, CallWait, WaitLock, WaitReturn, WaitNotYet, WaitSleep,
    SpuriousWake, CallDestroy, DestroyJoin, TypeOK, CallerAt, taskVars
<1>7. CASE DestroyBroadcast
  BY <1>0, <1>7 DEF DestroyBroadcast, TypeOK, CallerAt, WorkerAt, taskVars
<1>8. ASSUME NEW w \in Workers, PopBottom(w) PROVE TypeOK'
  <2>1. deque[w] \in Seq(Tasks) /\ deque[w] # << >>
    BY <1>0, <1>8 DEF PopBottom, TypeOK
  <2>2. deque[w][Len(deque[w])] \in Tasks /\ SubSeq(deque[w], 1, Len(deque[w]) - 1) \in Seq(Tasks)
    BY <2>1, EndsOfSeq
  <2>. QED
    BY <1>0, <1>8, <2>2 DEF PopBottom, Take, GoTo, TypeOK, Stages, WorkerAt, callVars
<1>9. ASSUME NEW w \in Workers, NEW v \in Workers, StealTop(w, v) PROVE TypeOK'
  <2>1. deque[v] \in Seq(Tasks) /\ deque[v] # << >>
    BY <1>0, <1>9 DEF StealTop, TypeOK
  <2>2. deque[v][1] \in Tasks /\ Tail(deque[v]) \in Seq(Tasks)
    BY <2>1, EndsOfSeq
  <2>. QED
    BY <1>0, <1>9, <2>2 DEF StealTop, Take, GoTo, TypeOK, Stages, WorkerAt, callVars
<1>10. ASSUME NEW w \in Workers, Run(w) PROVE TypeOK'
  <2>1. task[w] \in Tasks
    BY <1>10 DEF IInv, HandInv, Run
  <2>2. runs' \in [Tasks -> Nat] /\ stage' \in [Tasks -> Stages]
    BY <1>0, <1>10, <2>1 DEF Run, TypeOK, Stages
  <2>3. pc' \in [Workers -> WorkerAt]
    BY <1>0, <1>10 DEF Run, GoTo, TypeOK, WorkerAt
  <2>. QED
    BY <1>0, <1>10, <2>2, <2>3 DEF Run, TypeOK, callVars
<1>11. ASSUME NEW w \in Workers, MarkDone(w) PROVE TypeOK'
  <2>1. pending > 0 /\ task[w] \in Tasks
    BY <1>11, CountedIsLive DEF MarkDone, Live
  <2>2. pending' \in Nat
    BY <1>0, <1>11, <2>1 DEF MarkDone, TypeOK
  <2>3. stage' \in [Tasks -> Stages]
    BY <1>0, <1>11 DEF MarkDone, TypeOK, Stages
  <2>4. pc' \in [Workers -> WorkerAt]
    BY <1>0, <1>11 DEF MarkDone, GoTo, TypeOK, WorkerAt
  <2>. QED
    BY <1>0, <1>11, <2>2, <2>3, <2>4 DEF MarkDone, TypeOK, callVars
<1>12. ASSUME NEW w \in Workers,
              Loop(w) \/ PopNothing(w) \/ LockDone(w) \/ LockWork(w) \/ ParkCheck(w)
                \/ Park(w) \/ ParkTimeout(w) \/ Unpark(w) \/ \E v \in Workers : StealNothing(w, v)
       PROVE  TypeOK'
  <2>1. pc' \in [Workers -> WorkerAt]
    BY <1>0, <1>12 DEF Loop, PopNothing, LockDone, LockWork, ParkCheck, Park, ParkTimeout,
      Unpark, StealNothing, GoTo, TypeOK, WorkerAt
  <2>2. victims' \in [Workers -> SUBSET Workers]
    <3>1. CASE UNCHANGED victims
      BY <1>0, <3>1 DEF TypeOK
    <3>2. CASE PopNothing(w)
      BY <1>0, <3>2 DEF PopNothing, TypeOK
    <3>3. ASSUME NEW v \in Workers, StealNothing(w, v) PROVE victims' \in [Workers -> SUBSET Workers]
      BY <1>0, <3>3 DEF StealNothing, TypeOK
    <3>. QED
      BY <1>12, <3>1, <3>2, <3>3 DEF Loop, LockDone, LockWork, ParkCheck, Park, ParkTimeout, Unpark
  <2>. QED
    BY <1>0, <1>12, <2>1, <2>2 DEF Loop, PopNothing, LockDone, LockWork, ParkCheck, Park,
      ParkTimeout, Unpark, StealNothing, TypeOK, callVars, taskVars
<1>13. ASSUME NEW w \in Workers, WakeWaiter(w) PROVE TypeOK'
  BY <1>0, <1>13 DEF WakeWaiter, GoTo, TypeOK, CallerAt, WorkerAt, taskVars
<1>14. CASE UNCHANGED vars
  BY <1>0, <1>14 DEF vars, TypeOK
<1>. QED
  BY <1>1, <1>2, <1>3, <1>4, <1>5, <1>6, <1>7, <1>8, <1>9, <1>10, <1>11, <1>12, <1>13, <1>14
  DEF Next, CallerStep, CallerChoice, WorkerStep, Gone

LEMMA CallerInvStep == IInv /\ [Next]_vars => CallerInv'
<1> SUFFICES ASSUME IInv, [Next]_vars PROVE CallerInv'
  OBVIOUS
<1> USE WorkersAssumption, TasksAssumption DEF Workers
<1>0. TypeOK /\ CallerInv
  BY DEF IInv
<1>1. CASE StartThread
  BY <1>0, <1>1 DEF StartThread, CallerInv, TypeOK, taskVars
<1>8. CASE SubmitPush \/ SubmitSignal
  BY <1>0, <1>8 DEF SubmitPush, SubmitSignal, CallerInv
<1>9. CASE StartFails \/ CallWait \/ WaitLock \/ WaitReturn \/ WaitNotYet \/ WaitSleep
           \/ SpuriousWake \/ CallDestroy \/ DestroyBroadcast \/ DestroyJoin
  BY <1>0, <1>9 DEF StartFails, CallWait, WaitLock, WaitReturn, WaitNotYet, WaitSleep,
    SpuriousWake, CallDestroy, DestroyBroadcast, DestroyJoin, CallerInv
<1>2. ASSUME NEW t \in Tasks, SubmitCount(t) PROVE CallerInv'
  BY <1>0, <1>2 DEF SubmitCount, CallerInv, TypeOK
\* The wait has not returned since, or pending would be zero.
<1>3. CASE SubmitRefused
  <2>1. pending > 0
    BY <1>3, CountedIsLive DEF SubmitRefused
  <2>. QED
    BY <1>0, <1>3, <2>1 DEF SubmitRefused, CallerInv
\* The submit's own task is in nobody's deque and nobody's hand.
<1>4. ASSUME NEW w \in Workers, WorkerStep(w) PROVE caller' = "counted" => cur' \in Tasks /\ stage'[cur'] = "counted"
  <2>1. ASSUME caller = "counted", NEW u \in Workers, deque[u] # << >>
        PROVE  /\ deque[u][1] # cur /\ deque[u][Len(deque[u])] # cur
               /\ deque[u][1] \in Tasks /\ deque[u][Len(deque[u])] \in Tasks
    <3>1. deque[u] \in Seq(Tasks)
      BY <1>0 DEF TypeOK
    <3>2. 1 \in Positions(u) /\ Len(deque[u]) \in Positions(u)
      BY <2>1, <3>1, EndsOfSeq DEF Positions
    <3>. QED
      BY <1>0, <2>1, <3>1, <3>2, EndsOfSeq DEF IInv, QueueInv, CallerInv
  <2>2. ASSUME caller = "counted", pc[w] = "run" \/ pc[w] = "count" PROVE task[w] # cur
    BY <1>0, <2>2 DEF IInv, HandInv, CallerInv
  <2>3. CASE PopBottom(w)
    BY <1>0, <2>1, <2>3 DEF PopBottom, Take, CallerInv, TypeOK, callVars
  <2>4. ASSUME NEW v \in Workers, StealTop(w, v) PROVE caller' = "counted" => cur' \in Tasks /\ stage'[cur'] = "counted"
    BY <1>0, <2>1, <2>4 DEF StealTop, Take, CallerInv, TypeOK, callVars
  <2>5. CASE Run(w) \/ MarkDone(w)
    BY <1>0, <2>2, <2>5 DEF Run, MarkDone, CallerInv, TypeOK, callVars
  <2>6. CASE stage' = stage /\ cur' = cur /\ (caller' = "counted" => caller = "counted")
    BY <1>0, <2>6 DEF CallerInv
  <2>. QED
    BY <1>4, <2>3, <2>4, <2>5, <2>6 DEF WorkerStep, Loop, PopNothing, StealNothing, LockDone, WakeWaiter,
      LockWork, ParkCheck, Park, ParkTimeout, Unpark, callVars, taskVars
<1>5. ASSUME NEW w \in Workers, WorkerStep(w) PROVE waited' => pending' = 0
  <2>1. CASE MarkDone(w)
    BY <1>0, <2>1, CountedIsLive DEF MarkDone, CallerInv, callVars
  <2>2. CASE UNCHANGED <<waited, pending>>
    BY <1>0, <2>2 DEF CallerInv
  <2>. QED
    BY <1>5, <2>1, <2>2 DEF WorkerStep, Loop, PopBottom, PopNothing, StealTop, StealNothing, Run,
      LockDone, WakeWaiter, LockWork, ParkCheck, Park, ParkTimeout, Unpark, callVars
<1>6. ASSUME NEW w \in Workers, WorkerStep(w)
      PROVE  /\ caller' = "create" => born' < N
             /\ caller' \in {"create", "stopping", "joining", "freed"} => waited'
  BY <1>0, <1>6 DEF CallerInv, WorkerStep, Loop, PopBottom, PopNothing, StealTop, StealNothing,
    Run, MarkDone, LockDone, WakeWaiter, LockWork, ParkCheck, Park, ParkTimeout, Unpark, callVars
<1>7. CASE UNCHANGED vars
  BY <1>0, <1>7 DEF vars, CallerInv
<1>. QED
  BY <1>1, <1>2, <1>3, <1>4, <1>5, <1>6, <1>7, <1>8, <1>9
  DEF Next, CallerStep, CallerChoice, Gone, CallerInv

LEMMA QueueInvStep == IInv /\ [Next]_vars => QueueInv'
<1> SUFFICES ASSUME IInv, [Next]_vars PROVE QueueInv'
  OBVIOUS
<1>0. TypeOK /\ QueueInv
  BY DEF IInv
\* The pushed task was counted, so it is none of the queued ones.
<1>1. CASE SubmitPush
  <2> DEFINE q == deque[home]
  <2>1. home \in Workers /\ q \in Seq(Tasks) /\ cur \in Tasks /\ stage[cur] = "counted"
    BY <1>0, <1>1 DEF SubmitPush, IInv, CallerInv, TypeOK
  <2>2. /\ Len(Append(q, cur)) = Len(q) + 1
        /\ Append(q, cur)[Len(q) + 1] = cur
        /\ \A i \in 1 .. Len(q) : Append(q, cur)[i] = q[i]
        /\ Len(q) \in Nat
    BY <2>1
  <2>3. \A w \in Workers : deque'[w] = IF w = home THEN Append(q, cur) ELSE deque[w]
    BY <1>0, <1>1, <2>1 DEF SubmitPush, TypeOK
  <2>4. \A w \in Workers : \A i \in Positions(w) : deque[w][i] \in Tasks /\ deque[w][i] # cur
    BY <1>0, <2>1 DEF QueueInv, Positions, TypeOK
  <2>5. \A w \in Workers : \A i \in Positions(w)' :
          \/ i \in Positions(w) /\ deque'[w][i] = deque[w][i]
          \/ w = home /\ i = Len(q) + 1 /\ deque'[w][i] = cur
    <3> SUFFICES ASSUME NEW w \in Workers, NEW i \in Positions(w)'
                 PROVE  \/ i \in Positions(w) /\ deque'[w][i] = deque[w][i]
                        \/ w = home /\ i = Len(q) + 1 /\ deque'[w][i] = cur
      OBVIOUS
    <3>1. CASE w = home
      <4>1. deque'[w] = Append(q, cur) /\ deque[w] = q
        BY <2>3, <3>1
      <4>2. i \in 1 .. Len(q) + 1
        BY <2>2, <4>1 DEF Positions
      <4>. QED
        BY <2>2, <3>1, <4>1, <4>2 DEF Positions
    <3>2. CASE w # home
      BY <2>3, <3>2 DEF Positions
    <3>. QED
      BY <3>1, <3>2
  <2>6. \A t \in Tasks : stage'[t] = IF t = cur THEN "queued" ELSE stage[t]
    BY <1>0, <1>1 DEF SubmitPush, TypeOK
  <2>7. \A w \in Workers : \A i \in Positions(w)' : stage'[deque'[w][i]] = "queued"
    BY <1>0, <2>1, <2>4, <2>5, <2>6 DEF QueueInv
  <2>8. \A w, v \in Workers : \A i \in Positions(w)', j \in Positions(v)' :
          deque'[w][i] = deque'[v][j] => w = v /\ i = j
    BY <1>0, <2>4, <2>5 DEF QueueInv
  <2>. QED
    BY <2>7, <2>8 DEF QueueInv
\* A task that leaves a deque is taken, and the others are still queued.
<1>2. ASSUME NEW v \in Workers, deque[v] # << >>, NEW e \in Positions(v), NEW d \in {0, 1},
             deque' = [deque EXCEPT ![v] = IF d = 0 THEN SubSeq(@, 1, Len(@) - 1) ELSE Tail(@)],
             e = IF d = 0 THEN Len(deque[v]) ELSE 1,
             stage' = [stage EXCEPT ![deque[v][e]] = "taken"]
      PROVE  QueueInv'
  <2>1. deque[v] \in Seq(Tasks)
    BY <1>0 DEF TypeOK
  <2>2. \A w \in Workers : w # v => deque'[w] = deque[w]
    BY <1>0, <1>2 DEF TypeOK
  <2>3. /\ Len(deque'[v]) = Len(deque[v]) - 1
        /\ \A i \in 1 .. Len(deque[v]) - 1 : deque'[v][i] = deque[v][i + d]
    <3>1. CASE d = 0
      BY <1>0, <1>2, <2>1, <3>1, EndsOfSeq DEF TypeOK
    <3>2. CASE d = 1
      BY <1>0, <1>2, <2>1, <3>2, EndsOfSeq DEF TypeOK
    <3>. QED
      BY <3>1, <3>2
  <2>4. Len(deque[v]) \in Nat /\ \A w \in Workers : Len(deque[w]) \in Nat
    BY <1>0, <1>2 DEF TypeOK
  <2>5. \A i \in Positions(v)' : i + d \in Positions(v) /\ i + d # e /\ deque'[v][i] = deque[v][i + d]
    BY <1>2, <2>3, <2>4 DEF Positions
  <2>6. \A w \in Workers : w # v => \A i \in Positions(w)' : i \in Positions(w) /\ deque'[w][i] = deque[w][i]
    BY <2>2 DEF Positions
  <2>7. \A w \in Workers : \A i \in Positions(w) : deque[w][i] \in Tasks
    BY <1>0 DEF Positions, TypeOK
  <2>8. \A t \in Tasks : t # deque[v][e] => stage'[t] = stage[t]
    BY <1>0, <1>2, <2>7 DEF TypeOK
  <2>9. \A w \in Workers : \A i \in Positions(w)' : stage'[deque'[w][i]] = "queued"
    <3> SUFFICES ASSUME NEW w \in Workers, NEW i \in Positions(w)' PROVE stage'[deque'[w][i]] = "queued"
      OBVIOUS
    <3>1. CASE w = v
      <4>1. i + d \in Positions(v) /\ i + d # e /\ deque'[v][i] = deque[v][i + d]
        BY <2>5, <3>1
      <4>2. deque[v][i + d] # deque[v][e]
        BY <1>0, <1>2, <4>1 DEF QueueInv
      <4>. QED
        BY <1>0, <2>7, <2>8, <3>1, <4>1, <4>2 DEF QueueInv
    <3>2. CASE w # v
      BY <1>0, <1>2, <2>6, <2>7, <2>8, <3>2 DEF QueueInv
    <3>. QED
      BY <3>1, <3>2
  <2>10. ASSUME NEW w \in Workers, NEW u \in Workers, NEW i \in Positions(w)', NEW j \in Positions(u)',
                deque'[w][i] = deque'[u][j]
         PROVE  w = u /\ i = j
    <3>1. i \in Int /\ j \in Int
      BY DEF Positions
    <3>2. CASE w = v /\ u = v
      BY <1>0, <2>5, <2>10, <3>1, <3>2 DEF QueueInv
    <3>3. CASE w # v /\ u # v
      BY <1>0, <2>6, <2>10, <3>3 DEF QueueInv
    <3>4. CASE w = v /\ u # v
      BY <1>0, <2>5, <2>6, <2>10, <3>4 DEF QueueInv
    <3>5. CASE w # v /\ u = v
      BY <1>0, <2>5, <2>6, <2>10, <3>5 DEF QueueInv
    <3>. QED
      BY <3>2, <3>3, <3>4, <3>5
  <2>. QED
    BY <2>9, <2>10 DEF QueueInv
<1>3. ASSUME NEW w \in Workers, PopBottom(w) PROVE QueueInv'
  <2>1. Len(deque[w]) \in Positions(w)
    BY <1>0, <1>3, EndsOfSeq DEF PopBottom, Positions, TypeOK
  <2>. QED
    BY <1>3, <2>1, <1>2 DEF PopBottom, Take
<1>4. ASSUME NEW w \in Workers, NEW v \in Workers, StealTop(w, v) PROVE QueueInv'
  <2>1. 1 \in Positions(v)
    BY <1>0, <1>4, EndsOfSeq DEF StealTop, Positions, TypeOK
  <2>2. deque[v] # << >> /\ stage' = [stage EXCEPT ![deque[v][1]] = "taken"]
    BY <1>4 DEF StealTop, Take
  <2>3. deque' = [deque EXCEPT ![v] = IF 1 = 0 THEN SubSeq(@, 1, Len(@) - 1) ELSE Tail(@)]
    BY <1>4 DEF StealTop
  <2>4. 1 = IF 1 = 0 THEN Len(deque[v]) ELSE 1
    OBVIOUS
  <2>. QED
    BY <2>1, <2>2, <2>3, <2>4, <1>2
\* Other changes of a stage are not to a queued task.
<1>5. ASSUME deque' = deque, NEW t, stage[t] # "queued",
             NEW s, stage' = [stage EXCEPT ![t] = s]
      PROVE  QueueInv'
  <2>1. \A w \in Workers : \A i \in Positions(w) : deque[w][i] \in Tasks
    BY <1>0 DEF Positions, TypeOK
  <2>2. \A w \in Workers : \A i \in Positions(w) : stage'[deque[w][i]] = "queued"
    BY <1>0, <1>5, <2>1 DEF QueueInv, TypeOK
  <2>. QED
    BY <1>0, <1>5, <2>2 DEF QueueInv, Positions
<1>6. ASSUME NEW t \in Tasks, SubmitCount(t) PROVE QueueInv'
  BY <1>5, <1>6 DEF SubmitCount
<1>7. CASE SubmitRefused
  <2>1. stage[cur] # "queued"
    BY <1>7 DEF SubmitRefused, IInv, CallerInv
  <2>. QED
    BY <1>5, <1>7, <2>1 DEF SubmitRefused
<1>8. ASSUME NEW w \in Workers, Run(w) \/ MarkDone(w) PROVE QueueInv'
  <2>1. stage[task[w]] # "queued"
    BY <1>8 DEF Run, MarkDone, IInv, HandInv
  <2>. QED
    BY <1>5, <1>8, <2>1 DEF Run, MarkDone
<1>9. CASE UNCHANGED <<deque, stage>>
  BY <1>0, <1>9 DEF QueueInv, Positions
<1>. QED
  BY <1>1, <1>3, <1>4, <1>6, <1>7, <1>8, <1>9
  DEF Next, CallerStep, CallerChoice, WorkerStep, Gone, vars, taskVars, StartThread, StartFails,
    SubmitSignal, CallWait, WaitLock, WaitReturn, WaitNotYet, WaitSleep, SpuriousWake, CallDestroy,
    DestroyBroadcast, DestroyJoin, Loop, PopNothing, StealNothing, LockDone, WakeWaiter, LockWork,
    ParkCheck, Park, ParkTimeout, Unpark

LEMMA HandInvStep == IInv /\ [Next]_vars => HandInv'
<1> SUFFICES ASSUME IInv, [Next]_vars PROVE HandInv'
  OBVIOUS
<1>0. TypeOK /\ HandInv
  BY DEF IInv
<1>1. ASSUME NEW w \in Workers, NEW t \in Tasks, stage[t] = "queued", Take(w, t) PROVE HandInv'
  <2>1. \A u \in Workers : Holding(u) => task[u] \in Tasks /\ task[u] # t
    BY <1>0, <1>1 DEF HandInv, Holding
  <2>2. \A u \in Workers : u # w => task'[u] = task[u] /\ pc'[u] = pc[u]
    BY <1>0, <1>1 DEF Take, GoTo, TypeOK
  <2>3. task'[w] = t /\ pc'[w] = "run" /\ stage'[t] = "taken"
    BY <1>0, <1>1 DEF Take, GoTo, TypeOK
  <2>4. \A u \in Tasks : u # t => stage'[u] = stage[u]
    BY <1>0, <1>1 DEF Take, TypeOK
  <2>. QED
    BY <1>0, <1>1, <2>1, <2>2, <2>3, <2>4 DEF HandInv, Holding
<1>2. ASSUME NEW v \in Workers, deque[v] # << >>
      PROVE  /\ deque[v][1] \in Tasks /\ stage[deque[v][1]] = "queued"
             /\ deque[v][Len(deque[v])] \in Tasks /\ stage[deque[v][Len(deque[v])]] = "queued"
  <2>1. deque[v] \in Seq(Tasks)
    BY <1>0 DEF TypeOK
  <2>2. 1 \in Positions(v) /\ Len(deque[v]) \in Positions(v)
    BY <1>2, <2>1, EndsOfSeq DEF Positions
  <2>. QED
    BY <1>2, <2>1, <2>2, EndsOfSeq DEF IInv, QueueInv
<1>3. ASSUME NEW w \in Workers, PopBottom(w) PROVE HandInv'
  BY <1>1, <1>2, <1>3 DEF PopBottom
<1>4. ASSUME NEW w \in Workers, NEW v \in Workers, StealTop(w, v) PROVE HandInv'
  BY <1>1, <1>2, <1>4 DEF StealTop
<1>5. ASSUME NEW w \in Workers, Run(w) \/ MarkDone(w) PROVE HandInv'
  <2>1. task[w] \in Tasks /\ Holding(w)
    BY <1>0, <1>5 DEF HandInv, Holding, Run, MarkDone
  <2>2. \A u \in Workers : Holding(u) /\ u # w => task[u] # task[w]
    BY <1>0, <1>5, <2>1 DEF HandInv
  <2>3. \A u \in Workers : u # w => task'[u] = task[u] /\ pc'[u] = pc[u]
    BY <1>0, <1>5 DEF Run, MarkDone, GoTo, TypeOK
  <2>4. \A t \in Tasks : t # task[w] => stage'[t] = stage[t]
    BY <1>0, <1>5 DEF Run, MarkDone, TypeOK
  <2>5. CASE Run(w)
    <3>1. task'[w] = task[w] /\ pc'[w] = "count" /\ stage'[task[w]] = "ran"
      BY <1>0, <2>1, <2>5 DEF Run, GoTo, TypeOK
    <3>. QED
      BY <1>0, <2>1, <2>2, <2>3, <2>4, <3>1 DEF HandInv, Holding
  <2>6. CASE MarkDone(w)
    <3>1. pc'[w] \in {"lockdone", "loop"}
      BY <1>0, <2>6 DEF MarkDone, GoTo, TypeOK
    <3>. QED
      BY <1>0, <2>1, <2>2, <2>3, <2>4, <3>1 DEF HandInv, Holding
  <2>. QED
    BY <1>5, <2>5, <2>6
\* The other stages that change are those of tasks nobody holds.
<1>6. ASSUME NEW t, stage[t] \notin {"taken", "ran"}, NEW s, stage' = [stage EXCEPT ![t] = s],
             task' = task, pc' = pc
      PROVE  HandInv'
  BY <1>0, <1>6 DEF HandInv, Holding, TypeOK
<1>7. ASSUME NEW t \in Tasks, SubmitCount(t) PROVE HandInv'
  BY <1>6, <1>7 DEF SubmitCount
<1>8. CASE SubmitPush \/ SubmitRefused
  <2>1. stage[cur] = "counted"
    BY <1>8 DEF SubmitPush, SubmitRefused, IInv, CallerInv
  <2>. QED
    BY <1>6, <1>8, <2>1 DEF SubmitPush, SubmitRefused
\* A worker that only moves on ends with an empty hand.
<1>9. ASSUME stage' = stage, task' = task,
             \A w \in Workers : pc'[w] = pc[w] \/ pc'[w] \notin {"run", "count"}
      PROVE  HandInv'
  BY <1>0, <1>9 DEF HandInv, Holding
<1>10. CASE StartThread \/ SubmitSignal \/ DestroyBroadcast
  BY <1>0, <1>9, <1>10 DEF StartThread, SubmitSignal, DestroyBroadcast, TypeOK, taskVars
<1>11. ASSUME NEW w \in Workers,
              Loop(w) \/ PopNothing(w) \/ LockDone(w) \/ WakeWaiter(w) \/ LockWork(w)
                \/ ParkCheck(w) \/ Park(w) \/ ParkTimeout(w) \/ Unpark(w)
                \/ \E v \in Workers : StealNothing(w, v)
       PROVE  HandInv'
  <2>1. PICK place : pc' = [pc EXCEPT ![w] = place] /\ place \notin {"run", "count"}
    BY <1>11 DEF Loop, PopNothing, LockDone, WakeWaiter, LockWork, ParkCheck, Park,
      ParkTimeout, Unpark, StealNothing, GoTo
  <2>2. stage' = stage /\ task' = task
    BY <1>11 DEF Loop, PopNothing, LockDone, WakeWaiter, LockWork, ParkCheck, Park,
      ParkTimeout, Unpark, StealNothing, taskVars
  <2>. QED
    BY <1>0, <1>9, <2>1, <2>2 DEF TypeOK
<1>12. CASE UNCHANGED <<stage, task, pc>>
  BY <1>9, <1>12
<1>. QED
  BY <1>3, <1>4, <1>5, <1>7, <1>8, <1>10, <1>11, <1>12
  DEF Next, CallerStep, CallerChoice, WorkerStep, Gone, vars, taskVars, StartFails,
    CallWait, WaitLock, WaitReturn, WaitNotYet, WaitSleep, SpuriousWake, CallDestroy, DestroyJoin

LEMMA RunInvStep == IInv /\ [Next]_vars => RunInv'
<1> SUFFICES ASSUME IInv, [Next]_vars PROVE RunInv'
  OBVIOUS
<1>0. TypeOK /\ RunInv
  BY DEF IInv
\* A stage that changes without a call stays on its side of the call.
<1>1. ASSUME NEW t, NEW s, stage' = [stage EXCEPT ![t] = s], runs' = runs,
             stage[t] \in {"ran", "retired"} <=> s \in {"ran", "retired"}
      PROVE  RunInv'
  BY <1>0, <1>1 DEF RunInv, TypeOK
<1>2. ASSUME NEW t \in Tasks, SubmitCount(t) PROVE RunInv'
  BY <1>1, <1>2 DEF SubmitCount
<1>3. CASE SubmitPush \/ SubmitRefused
  <2>1. stage[cur] = "counted"
    BY <1>3 DEF SubmitPush, SubmitRefused, IInv, CallerInv
  <2>. QED
    BY <1>1, <1>3, <2>1 DEF SubmitPush, SubmitRefused
<1>4. ASSUME NEW v \in Workers, deque[v] # << >>
      PROVE  stage[deque[v][1]] = "queued" /\ stage[deque[v][Len(deque[v])]] = "queued"
  <2>1. 1 \in Positions(v) /\ Len(deque[v]) \in Positions(v)
    BY <1>0, <1>4, EndsOfSeq DEF Positions, TypeOK
  <2>. QED
    BY <2>1 DEF IInv, QueueInv
<1>5. ASSUME NEW w \in Workers, PopBottom(w) PROVE RunInv'
  BY <1>1, <1>4, <1>5 DEF PopBottom, Take
<1>6. ASSUME NEW w \in Workers, NEW v \in Workers, StealTop(w, v) PROVE RunInv'
  BY <1>1, <1>4, <1>6 DEF StealTop, Take
<1>7. ASSUME NEW w \in Workers, MarkDone(w) PROVE RunInv'
  <2>1. stage[task[w]] = "ran"
    BY <1>7 DEF MarkDone, IInv, HandInv
  <2>. QED
    BY <1>1, <1>7, <2>1 DEF MarkDone
<1>8. ASSUME NEW w \in Workers, Run(w) PROVE RunInv'
  <2>1. task[w] \in Tasks /\ stage[task[w]] = "taken"
    BY <1>8 DEF Run, IInv, HandInv
  <2>. QED
    BY <1>0, <1>8, <2>1 DEF Run, RunInv, TypeOK
<1>9. CASE UNCHANGED taskVars
  BY <1>0, <1>9 DEF RunInv, taskVars
<1>. QED
  BY <1>2, <1>3, <1>5, <1>6, <1>7, <1>8, <1>9
  DEF Next, CallerStep, CallerChoice, WorkerStep, Gone, vars, taskVars, StartThread, StartFails,
    SubmitSignal, CallWait, WaitLock, WaitReturn, WaitNotYet, WaitSleep, SpuriousWake, CallDestroy,
    DestroyBroadcast, DestroyJoin, Loop, PopNothing, StealNothing, LockDone, WakeWaiter, LockWork,
    ParkCheck, Park, ParkTimeout, Unpark

LEMMA ThreadInvStep == IInv /\ [Next]_vars => ThreadInv'
<1> SUFFICES ASSUME IInv, [Next]_vars PROVE ThreadInv'
  OBVIOUS
<1> USE WorkersAssumption DEF Workers
<1>0. TypeOK /\ ThreadInv
  BY DEF IInv
<1>1. CASE StartThread
  BY <1>0, <1>1 DEF StartThread, ThreadInv, TypeOK
<1>2. CASE SubmitSignal \/ DestroyBroadcast
  BY <1>0, <1>2 DEF SubmitSignal, DestroyBroadcast, ThreadInv, TypeOK
<1>3. CASE DestroyJoin
  BY <1>0, <1>3 DEF DestroyJoin, ThreadInv
\* A worker that takes a step has been born and has not exited.
<1>4. ASSUME NEW w \in Workers, WorkerStep(w) PROVE ThreadInv'
  <2>1. pc[w] \notin {"unborn", "exited"}
    BY <1>4 DEF WorkerStep, Loop, PopBottom, PopNothing, StealTop, StealNothing, Run, MarkDone,
      LockDone, WakeWaiter, LockWork, ParkCheck, Park, ParkTimeout, Unpark
  <2>2. PICK place : pc' = [pc EXCEPT ![w] = place]
    BY <1>4 DEF WorkerStep, Loop, PopBottom, PopNothing, StealTop, StealNothing, Run, MarkDone,
      LockDone, WakeWaiter, LockWork, ParkCheck, Park, ParkTimeout, Unpark, GoTo, Take
  <2>3. born' = born /\ (caller' = "freed" => caller = "freed")
    BY <1>4 DEF WorkerStep, Loop, PopBottom, PopNothing, StealTop, StealNothing, Run, MarkDone,
      LockDone, WakeWaiter, LockWork, ParkCheck, Park, ParkTimeout, Unpark, callVars
  <2>4. w < born
    BY <1>0, <2>1 DEF ThreadInv, TypeOK
  <2>. QED
    BY <1>0, <2>1, <2>2, <2>3, <2>4 DEF ThreadInv, TypeOK
<1>5. CASE UNCHANGED <<pc, born>> /\ (caller' = "freed" => caller = "freed")
  BY <1>0, <1>5 DEF ThreadInv
<1>. QED
  BY <1>1, <1>2, <1>3, <1>4, <1>5
  DEF Next, CallerStep, CallerChoice, Gone, vars, StartFails, SubmitCount, SubmitPush,
    SubmitRefused, CallWait, WaitLock, WaitReturn, WaitNotYet, WaitSleep, SpuriousWake, CallDestroy

LEMMA PendingCountsStep == IInv /\ [Next]_vars => PendingCounts'
<1> SUFFICES ASSUME IInv, [Next]_vars PROVE PendingCounts'
  OBVIOUS
<1>0. TypeOK /\ pending = Cardinality(Live) /\ IsFiniteSet(Live)
  BY LivePending DEF IInv, PendingCounts
<1>1. ASSUME NEW t \in Tasks, SubmitCount(t) PROVE PendingCounts'
  <2>1. t \notin Live /\ Live' = Live \cup {t}
    BY <1>0, <1>1 DEF SubmitCount, Live, TypeOK
  <2>. QED
    BY <1>0, <1>1, <2>1, FS_AddElement DEF SubmitCount, PendingCounts
\* Both ways a count goes down take one live task with them.
<1>2. ASSUME NEW t \in Live, NEW s \in {"retired", "refused"}, stage' = [stage EXCEPT ![t] = s],
             pending' = pending - 1
      PROVE  PendingCounts'
  <2>1. Live' = Live \ {t}
    BY <1>0, <1>2 DEF Live, TypeOK
  <2>. QED
    BY <1>0, <1>2, <2>1, FS_RemoveElement DEF PendingCounts
<1>3. CASE SubmitRefused
  BY <1>2, <1>3, CountedIsLive DEF SubmitRefused
<1>4. ASSUME NEW w \in Workers, MarkDone(w) PROVE PendingCounts'
  BY <1>2, <1>4, CountedIsLive DEF MarkDone
\* Every other change of a stage is between two live stages.
<1>5. ASSUME NEW t, NEW s \in {"queued", "taken", "ran"}, stage' = [stage EXCEPT ![t] = s],
             t \in Live, pending' = pending
      PROVE  PendingCounts'
  <2>1. Live' = Live
    BY <1>0, <1>5 DEF Live, TypeOK
  <2>. QED
    BY <1>0, <1>5, <2>1 DEF PendingCounts
<1>6. CASE SubmitPush
  BY <1>5, <1>6, CountedIsLive DEF SubmitPush
<1>7. ASSUME NEW v \in Workers, deque[v] # << >>
      PROVE  deque[v][1] \in Live /\ deque[v][Len(deque[v])] \in Live
  <2>1. deque[v] \in Seq(Tasks)
    BY <1>0 DEF TypeOK
  <2>2. 1 \in Positions(v) /\ Len(deque[v]) \in Positions(v)
    BY <1>7, <2>1, EndsOfSeq DEF Positions
  <2>. QED
    BY <1>7, <2>1, <2>2, EndsOfSeq DEF IInv, QueueInv, Live
<1>8. ASSUME NEW w \in Workers, PopBottom(w) PROVE PendingCounts'
  BY <1>5, <1>7, <1>8 DEF PopBottom, Take
<1>9. ASSUME NEW w \in Workers, NEW v \in Workers, StealTop(w, v) PROVE PendingCounts'
  BY <1>5, <1>7, <1>9 DEF StealTop, Take
<1>10. ASSUME NEW w \in Workers, Run(w) PROVE PendingCounts'
  <2>1. task[w] \in Live
    BY <1>10 DEF Run, IInv, HandInv, Live
  <2>. QED
    BY <1>5, <1>10, <2>1 DEF Run
<1>11. CASE UNCHANGED <<pending, stage>>
  BY <1>0, <1>11 DEF PendingCounts, Live
<1>. QED
  BY <1>1, <1>3, <1>4, <1>6, <1>8, <1>9, <1>10, <1>11
  DEF Next, CallerStep, CallerChoice, WorkerStep, Gone, vars, taskVars, StartThread, StartFails,
    SubmitSignal, CallWait, WaitLock, WaitReturn, WaitNotYet, WaitSleep, SpuriousWake, CallDestroy,
    DestroyBroadcast, DestroyJoin, Loop, PopNothing, StealNothing, LockDone, WakeWaiter, LockWork,
    ParkCheck, Park, ParkTimeout, Unpark

------------------------------------------------------------------------------
(* The theorems.                                                            *)

\* The inductive invariant holds in every reachable state.
THEOREM Invariance == Spec => []IInv
<1>1. Init => IInv
  <2> SUFFICES ASSUME Init PROVE IInv
    OBVIOUS
  <2> USE WorkersAssumption, TasksAssumption DEF Init, Workers
  <2>1. TypeOK
    <3>1. rr \in Workers /\ home \in Workers /\ born \in 0 .. N /\ pending \in Nat
      OBVIOUS
    <3>2. deque \in [Workers -> Seq(Tasks)] /\ victims \in [Workers -> SUBSET Workers]
      OBVIOUS
    <3>3. stage \in [Tasks -> Stages] /\ runs \in [Tasks -> Nat] /\ pc \in [Workers -> WorkerAt]
      BY DEF Stages, WorkerAt
    <3>. QED
      BY <3>1, <3>2, <3>3 DEF TypeOK, CallerAt
  <2>2. Live = {}
    BY DEF Live
  <2>3. PendingCounts
    BY <2>2, FS_EmptySet DEF PendingCounts
  <2>4. CallerInv /\ QueueInv /\ HandInv /\ RunInv /\ ThreadInv
    BY DEF CallerInv, QueueInv, Positions, HandInv, Holding, RunInv, ThreadInv
  <2>. QED
    BY <2>1, <2>3, <2>4 DEF IInv
<1>2. IInv /\ [Next]_vars => IInv'
  BY TypeOKStep, CallerInvStep, QueueInvStep, HandInvStep, RunInvStep, ThreadInvStep,
    PendingCountsStep DEF IInv
<1>. QED
  BY <1>1, <1>2, PTL DEF Spec

\* Every variable keeps its type; in particular pending never passes below zero.
THEOREM TypeCorrect == Spec => []TypeOK
<1>1. IInv => TypeOK
  BY DEF IInv
<1>. QED
  BY <1>1, Invariance, PTL

\* task_pool.c's pending is the number of unfinished submits, in every interleaving.
THEOREM PendingIsExact == Spec => []PendingCounts
<1>1. IInv => PendingCounts
  BY DEF IInv
<1>. QED
  BY <1>1, Invariance, PTL

\* Popping and stealing never hand the same task to two workers.
THEOREM TasksRunOnce == Spec => []RunsOnce
<1>1. IInv => RunsOnce
  BY DEF IInv, RunInv, RunsOnce
<1>. QED
  BY <1>1, Invariance, PTL

\* Nothing is freed under a running thread.
THEOREM FreedWithNoThread == Spec => []FreedAlone
<1>1. IInv => FreedAlone
  BY WorkersAssumption DEF IInv, ThreadInv, FreedAlone, TypeOK, Workers
<1>. QED
  BY <1>1, Invariance, PTL

\* The state invariants of the pool together, as the run checks them: pending is exact, no task
\* runs twice and nothing is freed under a running thread.
THEOREM PoolSound == Spec => []PoolIsSound
<1>1. PoolIsSound <=> TypeOK /\ PendingCounts /\ RunsOnce /\ FreedAlone
  BY DEF PoolIsSound
<1>. QED
  BY <1>1, TypeCorrect, PendingIsExact, TasksRunOnce, FreedWithNoThread, PTL

\* With pending at zero every task the pool accepted has been retired.
LEMMA NothingPending ==
  ASSUME IInv, pending = 0
  PROVE  \A t \in Tasks : stage[t] \in {"new", "refused", "retired"}
<1>1. Live = {}
  BY LivePending DEF IInv
<1>. QED
  BY <1>1 DEF IInv, TypeOK, Live, Stages

\* task_pool_wait returns only when everything submitted has run, once.
THEOREM WaitBarrier == Spec => WaitIsBarrier
<1>1. IInv /\ [Next]_vars =>
        [(caller = "test" /\ caller' = "idle") =>
           \A t \in Tasks : stage[t] \notin {"new", "refused"} =>
                              stage[t] = "retired" /\ runs[t] = 1]_vars
  <2> SUFFICES ASSUME IInv, [Next]_vars, caller = "test", caller' = "idle"
               PROVE  \A t \in Tasks : stage[t] \notin {"new", "refused"} =>
                                         stage[t] = "retired" /\ runs[t] = 1
    OBVIOUS
  <2>1. pending = 0
    BY DEF Next, CallerStep, CallerChoice, WorkerStep, Gone, vars, StartThread, StartFails,
      SubmitCount, SubmitPush, SubmitRefused, SubmitSignal, CallWait, WaitLock, WaitReturn,
      WaitNotYet, WaitSleep, SpuriousWake, CallDestroy, DestroyBroadcast, DestroyJoin, Loop,
      PopBottom, PopNothing, StealTop, StealNothing, Run, MarkDone, LockDone, WakeWaiter,
      LockWork, ParkCheck, Park, ParkTimeout, Unpark, callVars
  <2>. QED
    BY <2>1, NothingPending DEF IInv, RunInv
<1>. QED
  BY <1>1, Invariance, PTL DEF Spec, WaitIsBarrier

\* The pool with its workers, deques and locks implements the contract of
\* task_pool.h: every step is a step of TaskBatch or changes nothing of it.
THEOREM Implementation == Spec => ImplementsTaskBatch
<1>1. Init => Batch!Init
  BY DEF Init, Batch!Init, Given, Finished, Phase
<1>2. IInv /\ [Next]_vars => [Batch!Next]_(Batch!vars)
  <2> SUFFICES ASSUME IInv, [Next]_vars PROVE [Batch!Next]_(Batch!vars)
    OBVIOUS
  <2>0. TypeOK /\ CallerInv
    BY DEF IInv
  <2> DEFINE Same == UNCHANGED <<Given, Finished, Phase>>
  <2>1. Same => [Batch!Next]_(Batch!vars)
    BY DEF Batch!vars
  <2>2. CASE SubmitPush
    <3>1. cur \in Tasks /\ cur \notin Given /\ Given' = Given \cup {cur} /\ Finished' = Finished
      BY <2>0, <2>2 DEF SubmitPush, CallerInv, Given, Finished, TypeOK
    <3>2. Phase = "open" /\ Phase' = "open"
      BY <2>2 DEF SubmitPush, Phase
    <3>. QED
      BY <3>1, <3>2 DEF Batch!Next, Batch!Give
  <2>3. ASSUME NEW w \in Workers, Run(w) PROVE Batch!Next
    <3>1. task[w] \in Tasks /\ stage[task[w]] = "taken"
      BY <2>3 DEF Run, IInv, HandInv
    <3>2. task[w] \in Given \ Finished /\ Given' = Given /\ Finished' = Finished \cup {task[w]}
      BY <2>0, <2>3, <3>1 DEF Run, Given, Finished, TypeOK
    <3>3. Phase' = Phase
      BY <2>3 DEF Run, Phase, callVars
    <3>. QED
      BY <3>1, <3>2, <3>3 DEF Batch!Next, Batch!Finish
  <2>4. ASSUME pending = 0 PROVE Finished = Given
    BY <2>4, NothingPending DEF Given, Finished
  <2>5. ASSUME UNCHANGED stage PROVE Given' = Given /\ Finished' = Finished
    BY <2>5 DEF Given, Finished
  <2>6. CASE CallWait
    BY <2>5, <2>6 DEF CallWait, taskVars, Phase, Batch!Next, Batch!Wait
  <2>7. CASE WaitReturn
    BY <2>4, <2>5, <2>7 DEF WaitReturn, taskVars, Phase, Batch!Next, Batch!Return
  <2>8. CASE CallDestroy
    BY <2>0, <2>4, <2>5, <2>8 DEF CallDestroy, CallerInv, taskVars, Phase, Batch!Next, Batch!Close
  <2>9. CASE StartFails
    BY <2>0, <2>4, <2>5, <2>9 DEF StartFails, CallerInv, taskVars, Phase, Batch!Next, Batch!Close
  <2>10. ASSUME NEW t, stage[t] \notin {"queued", "taken", "ran", "retired"},
                NEW s \in {"counted", "refused"}, stage' = [stage EXCEPT ![t] = s], Phase' = Phase
         PROVE  Same
    BY <2>0, <2>10 DEF Given, Finished, TypeOK
  <2>11. ASSUME NEW t \in Tasks, SubmitCount(t) PROVE Same
    BY <2>10, <2>11 DEF SubmitCount, Phase
  <2>12. ASSUME SubmitRefused PROVE Same
    <3>1. stage[cur] = "counted" /\ stage' = [stage EXCEPT ![cur] = "refused"]
      BY <2>0, <2>12 DEF SubmitRefused, CallerInv
    <3>2. Phase' = Phase
      BY <2>12 DEF SubmitRefused, Phase
    <3>. QED
      BY <2>10, <3>1, <3>2
  <2>13. ASSUME NEW t, NEW from, NEW to, stage[t] = from, stage' = [stage EXCEPT ![t] = to],
                \/ from = "queued" /\ to = "taken"
                \/ from = "ran" /\ to = "retired",
                caller' = caller
         PROVE  Same
    BY <2>0, <2>13 DEF Given, Finished, Phase, TypeOK
  <2>14. ASSUME NEW v \in Workers, deque[v] # << >>
         PROVE  stage[deque[v][1]] = "queued" /\ stage[deque[v][Len(deque[v])]] = "queued"
    <3>1. 1 \in Positions(v) /\ Len(deque[v]) \in Positions(v)
      BY <2>0, <2>14, EndsOfSeq DEF Positions, TypeOK
    <3>. QED
      BY <3>1 DEF IInv, QueueInv
  <2>15. ASSUME NEW w \in Workers, PopBottom(w) PROVE Same
    BY <2>13, <2>14, <2>15 DEF PopBottom, Take, callVars
  <2>16. ASSUME NEW w \in Workers, NEW v \in Workers, StealTop(w, v) PROVE Same
    BY <2>13, <2>14, <2>16 DEF StealTop, Take, callVars
  <2>17. ASSUME NEW w \in Workers, MarkDone(w) PROVE Same
    <3>1. stage[task[w]] = "ran"
      BY <2>17 DEF MarkDone, IInv, HandInv
    <3>. QED
      BY <2>13, <2>17, <3>1 DEF MarkDone, callVars
  <2>18. ASSUME UNCHANGED stage, UNCHANGED Phase PROVE Same
    BY <2>5, <2>18
  <2>19. ASSUME \/ StartThread \/ SubmitSignal \/ WaitLock \/ WaitNotYet \/ WaitSleep
                \/ SpuriousWake \/ DestroyBroadcast \/ DestroyJoin
         PROVE  Same
    <3>1. CASE StartThread \/ SubmitSignal
      BY <2>18, <3>1 DEF StartThread, SubmitSignal, Phase, taskVars
    <3>2. CASE WaitLock \/ WaitNotYet \/ WaitSleep \/ SpuriousWake
      BY <2>18, <3>2 DEF WaitLock, WaitNotYet, WaitSleep, SpuriousWake, Phase, taskVars
    <3>3. CASE DestroyBroadcast \/ DestroyJoin
      BY <2>18, <3>3 DEF DestroyBroadcast, DestroyJoin, Phase, taskVars
    <3>. QED
      BY <2>19, <3>1, <3>2, <3>3
  <2>20. ASSUME NEW w \in Workers,
                Loop(w) \/ PopNothing(w) \/ LockDone(w) \/ WakeWaiter(w) \/ LockWork(w)
                  \/ ParkCheck(w) \/ Park(w) \/ ParkTimeout(w) \/ Unpark(w)
                  \/ \E v \in Workers : StealNothing(w, v)
         PROVE  Same
    BY <2>18, <2>20 DEF Loop, PopNothing, LockDone, WakeWaiter, LockWork, ParkCheck, Park,
      ParkTimeout, Unpark, StealNothing, Phase, callVars, taskVars
  <2>21. ASSUME UNCHANGED vars PROVE Same
    BY <2>18, <2>21 DEF vars, Phase
  <2>. QED
    BY <2>1, <2>2, <2>3, <2>6, <2>7, <2>8, <2>9, <2>11, <2>12, <2>15, <2>16, <2>17, <2>19, <2>20,
      <2>21 DEF Next, CallerStep, CallerChoice, WorkerStep, Gone
<1>. QED
  BY <1>1, <1>2, Invariance, PTL DEF Spec, ImplementsTaskBatch, Batch!Spec

------------------------------------------------------------------------------
(***************************************************************************)
(* A child process and its pipes                                           *)
(***************************************************************************)

\* The type invariant in three parts, each proved with the facts its kind needs.
Flags ==
  /\ deadline \in BOOLEAN /\ toChild \in BOOLEAN /\ fromChild \in BOOLEAN
  /\ truncated \in BOOLEAN /\ expired \in BOOLEAN
  /\ childIn \in BOOLEAN /\ childOut \in BOOLEAN /\ sawEof \in BOOLEAN
Places ==
  /\ kind \in {"execute", "exchange"} /\ manners \in Manners
  /\ phase \in {"spawn", "drain", "poll", "write", "read", "clock", "end", "kill", "wait",
             "done"}
  /\ ready \subseteq {"to", "from"}
  /\ result \in Results /\ code \in Codes
  /\ child \in {"none", "running", "exited", "unrunnable", "killed", "reaped"}
  /\ op \in {"exec", "think", "read", "write", "none"}
Counts ==
  /\ cap \in Caps \cup {0} /\ request \in 0 .. MaxRequest
  /\ remaining \in 0 .. request /\ childRead \in 0 .. request
  /\ got \in 0 .. MaxAnswer /\ wrote \in 0 .. MaxAnswer
  /\ inPipe \in 0 .. Capacity /\ outPipe \in 0 .. Capacity

Drained == wrote - outPipe

\* Every byte of the request is read, in the pipe or still to be written; what molto has got is
\* what left the other pipe, unless a chunk was refused or lost.
BytesCounted ==
  /\ childRead + inPipe + remaining = request
  /\ kind = "execute" => /\ request = 0 /\ cap = 0
                         /\ got = (IF Drained > Capture THEN Capture ELSE Drained)
                         /\ truncated = (Drained > Capture)
  /\ outPipe <= wrote
  /\ kind = "exchange" => got + outPipe <= wrote /\ (result = "ok" => got + outPipe = wrote)
  /\ cap > 0 => got <= cap

\* A child that is committed to a read or a write holds that end open, and has something to write.
Committed ==
  /\ op = "read" => childIn
  /\ op = "write" => childOut /\ wrote < MaxAnswer

\* Where molto is says which call it is, whether there is a child, and which ends are closed.
PhaseInv ==
  /\ phase = "drain" => kind = "execute"
  /\ phase \in {"poll", "write", "read", "clock", "end", "kill"} => kind = "exchange"
  /\ phase = "spawn" => child = "none" /\ result = "ok"
  /\ kind = "execute" => ~toChild
  /\ phase = "end" /\ result = "ok" => ~toChild /\ ~fromChild
  /\ phase \in {"kill", "wait", "done"} => ~toChild /\ ~fromChild
  /\ phase = "done" => child \in {"none", "reaped"}

\* What poll reported of the child's output is still so when it is read, for only molto takes
\* bytes out of that pipe.
ReadyInv ==
  phase \in {"write", "read"} /\ "from" \in ready => fromChild /\ (outPipe > 0 \/ ~childOut)

\* While the call goes well, molto's ends are closed for one reason each.
ClosedInv ==
  /\ result = "ok" /\ ~fromChild => outPipe = 0
  /\ result = "ok" /\ ~toChild /\ childIn => remaining = 0

ExchangeInv ==
  /\ Flags /\ Places /\ Counts /\ BytesCounted /\ Committed /\ PhaseInv /\ ReadyInv /\ ClosedInv
  /\ EofIsWholeRequest

------------------------------------------------------------------------------
(* The invariant is inductive.                                              *)

LEMMA TypeInParts == ExchangeTypes <=> Flags /\ Places /\ Counts
  BY DEF ExchangeTypes, Flags, Places, Counts

\* A call begins with an open end for each pipe it uses and no byte in either.
LEMMA InitHolds == ExchangeInit => ExchangeInv
<1> SUFFICES ASSUME ExchangeInit PROVE ExchangeInv
  OBVIOUS
<1> USE PipesAssumption, MannersAssumption
<1>1. Flags
  BY DEF ExchangeInit, Flags
<1>2. Places
  BY DEF ExchangeInit, Places, Results, Codes
<1>3. Counts
  BY DEF ExchangeInit, Counts
<1>4. BytesCounted
  <2>1. kind = "execute" => request = 0 /\ cap = 0
    BY DEF ExchangeInit
  <2>2. remaining = request /\ got = 0 /\ inPipe = 0 /\ outPipe = 0 /\ wrote = 0 /\ childRead = 0
    BY DEF ExchangeInit
  <2>3. Drained = 0 /\ (Drained > Capture) = FALSE
    BY <2>2 DEF Drained, PipesAssumption
  <2>4. truncated = (Drained > Capture)
    BY <2>3, Zenon DEF ExchangeInit
  <2> QED
    BY <1>3, <2>1, <2>2, <2>3, <2>4 DEF Counts, BytesCounted, PipesAssumption
<1>5. Committed /\ PhaseInv /\ ReadyInv /\ ClosedInv /\ EofIsWholeRequest
  BY DEF ExchangeInit, Committed, PhaseInv, ReadyInv, ClosedInv, EofIsWholeRequest
<1> QED
  BY <1>1, <1>2, <1>3, <1>4, <1>5 DEF ExchangeInv

\* Each step of the call, of the child and of the clock preserves it.
LEMMA StepHolds == ExchangeInv /\ [ExchangeNext]_exchangeVars => ExchangeInv'
<1> SUFFICES ASSUME ExchangeInv, [ExchangeNext]_exchangeVars PROVE ExchangeInv'
  OBVIOUS
<1> USE PipesAssumption, MannersAssumption
<1> USE DEF ExchangeInv, Flags, Places, Counts, BytesCounted, Drained, Committed, PhaseInv, ReadyInv,
            ClosedInv, EofIsWholeRequest, Results, Codes, call, molto, ends, received, pipes,
            childVars
<1>1. CASE SpawnFails
  <2>1. Flags'
    BY <1>1 DEF SpawnFails
  <2>2. Places' /\ Counts'
    BY <1>1 DEF SpawnFails
  <2>3. BytesCounted' /\ Committed'
    BY <1>1 DEF SpawnFails
  <2>4. PhaseInv' /\ ReadyInv' /\ ClosedInv' /\ EofIsWholeRequest'
    BY <1>1 DEF SpawnFails
  <2> QED
    BY <2>1, <2>2, <2>3, <2>4
<1>2. CASE Spawn
  BY <1>2 DEF Spawn
<1>3. CASE Drain
  BY <1>3 DEF Drain
<1>4. CASE DrainEof
  <2>1. Flags'
    BY <1>4 DEF DrainEof
  <2>2. Places' /\ Counts'
    BY <1>4 DEF DrainEof
  <2>3. BytesCounted' /\ Committed'
    BY <1>4 DEF DrainEof
  <2>4. PhaseInv' /\ ReadyInv' /\ ClosedInv' /\ EofIsWholeRequest'
    BY <1>4 DEF DrainEof
  <2> QED
    BY <2>1, <2>2, <2>3, <2>4
<1>5. CASE Poll
  BY <1>5 DEF Poll, Ready
<1>6. CASE WriteChunk
  <2>1. Flags'
    <3>1. (remaining' > 0) \in BOOLEAN
      OBVIOUS
    <3>2. toChild' = FALSE \/ toChild' = (remaining' > 0)
      BY <1>6, Zenon DEF WriteChunk
    <3>3. toChild' \in BOOLEAN
      BY <3>1, <3>2, Zenon
    <3> QED
      BY <1>6, <3>3 DEF WriteChunk
  <2>2. Places' /\ Counts'
    BY <1>6 DEF WriteChunk, Fits
  <2>3. BytesCounted' /\ Committed'
    BY <1>6 DEF WriteChunk, Fits
  <2>4. PhaseInv' /\ ReadyInv' /\ ClosedInv' /\ EofIsWholeRequest'
    BY <1>6 DEF WriteChunk, Fits
  <2> QED
    BY <2>1, <2>2, <2>3, <2>4
<1>7. CASE NoWrite
  BY <1>7 DEF NoWrite
<1>8. CASE ReadChunk
  BY <1>8 DEF ReadChunk
<1>9. CASE ReadEof
  <2>1. Flags'
    BY <1>9 DEF ReadEof
  <2>2. Places' /\ Counts'
    BY <1>9 DEF ReadEof
  <2>3. BytesCounted' /\ Committed'
    BY <1>9 DEF ReadEof
  <2>4. PhaseInv' /\ ReadyInv' /\ ClosedInv' /\ EofIsWholeRequest'
    BY <1>9 DEF ReadEof
  <2> QED
    BY <2>1, <2>2, <2>3, <2>4
<1>10. CASE NoRead
  BY <1>10 DEF NoRead
<1>11. CASE Clock
  BY <1>11 DEF Clock
<1>12. CASE BothClosed
  BY <1>12 DEF BothClosed
<1>13. CASE End
  <2>1. Flags'
    BY <1>13 DEF End
  <2>2. Places' /\ Counts'
    BY <1>13 DEF End
  <2>3. BytesCounted' /\ Committed'
    BY <1>13 DEF End
  <2>4. PhaseInv' /\ ReadyInv' /\ ClosedInv' /\ EofIsWholeRequest'
    BY <1>13 DEF End
  <2> QED
    BY <2>1, <2>2, <2>3, <2>4
<1>14. CASE Kill
  <2>1. Flags' /\ Places' /\ Counts'
    BY <1>14 DEF Kill, Dead
  <2>2. BytesCounted' /\ Committed' /\ PhaseInv' /\ ReadyInv' /\ ClosedInv' /\ EofIsWholeRequest'
    BY <1>14 DEF Kill, Dead
  <2> QED
    BY <2>1, <2>2
<1>15. CASE Wait
  <2>1. Flags' /\ Places' /\ Counts'
    BY <1>15 DEF Wait, Dead
  <2>2. BytesCounted' /\ Committed' /\ PhaseInv' /\ ReadyInv' /\ ClosedInv' /\ EofIsWholeRequest'
    BY <1>15 DEF Wait, Dead
  <2> QED
    BY <2>1, <2>2
<1>16. CASE PollFails
  BY <1>16 DEF PollFails
<1>17. CASE ReadLost
  BY <1>17 DEF ReadLost
<1>18. CASE Expire
  BY <1>18 DEF Expire
<1>19. CASE Exec
  BY <1>19 DEF Exec, Running
<1>20. CASE ExecFails
  <2>1. Flags'
    BY <1>20 DEF ExecFails, Running, Dead
  <2>2. Places' /\ Counts'
    BY <1>20 DEF ExecFails, Running, Dead
  <2>3. BytesCounted' /\ Committed'
    BY <1>20 DEF ExecFails, Running, Dead
  <2>4. PhaseInv' /\ ReadyInv' /\ ClosedInv' /\ EofIsWholeRequest'
    BY <1>20 DEF ExecFails, Running, Dead
  <2> QED
    BY <2>1, <2>2, <2>3, <2>4
<1>21. ASSUME NEW o \in {"read", "write"}, Decide(o) PROVE ExchangeInv'
  BY <1>21 DEF Decide, Running
<1>22. ASSUME NEW n \in 1 .. Capacity, ChildReads(n) PROVE ExchangeInv'
  BY <1>22 DEF ChildReads, Running
<1>23. CASE ChildSeesEof
  BY <1>23 DEF ChildSeesEof, Running
<1>24. CASE ChildWrites
  BY <1>24 DEF ChildWrites, Running
<1>25. CASE ChildWritesToNobody
  <2>1. Flags'
    BY <1>25 DEF ChildWritesToNobody, Running, Dead
  <2>2. Places' /\ Counts'
    BY <1>25 DEF ChildWritesToNobody, Running, Dead
  <2>3. BytesCounted' /\ Committed'
    BY <1>25 DEF ChildWritesToNobody, Running, Dead
  <2>4. PhaseInv' /\ ReadyInv' /\ ClosedInv' /\ EofIsWholeRequest'
    BY <1>25 DEF ChildWritesToNobody, Running, Dead
  <2> QED
    BY <2>1, <2>2, <2>3, <2>4
<1>26. CASE CloseIn
  <2>1. Flags'
    BY <1>26 DEF CloseIn, Running
  <2>2. Places' /\ Counts'
    BY <1>26 DEF CloseIn, Running
  <2>3. BytesCounted' /\ Committed'
    BY <1>26 DEF CloseIn, Running
  <2>4. PhaseInv' /\ ReadyInv' /\ ClosedInv' /\ EofIsWholeRequest'
    BY <1>26 DEF CloseIn, Running
  <2> QED
    BY <2>1, <2>2, <2>3, <2>4
<1>27. CASE CloseOut
  <2>1. Flags'
    BY <1>27 DEF CloseOut, Running
  <2>2. Places' /\ Counts'
    BY <1>27 DEF CloseOut, Running
  <2>3. BytesCounted' /\ Committed'
    BY <1>27 DEF CloseOut, Running
  <2>4. PhaseInv' /\ ReadyInv' /\ ClosedInv' /\ EofIsWholeRequest'
    BY <1>27 DEF CloseOut, Running
  <2> QED
    BY <2>1, <2>2, <2>3, <2>4
<1>28. CASE Exit
  <2>1. Flags'
    BY <1>28 DEF Exit, Running, Dead
  <2>2. Places' /\ Counts'
    BY <1>28 DEF Exit, Running, Dead
  <2>3. BytesCounted' /\ Committed'
    BY <1>28 DEF Exit, Running, Dead
  <2>4. PhaseInv' /\ ReadyInv' /\ ClosedInv' /\ EofIsWholeRequest'
    BY <1>28 DEF Exit, Running, Dead
  <2> QED
    BY <2>1, <2>2, <2>3, <2>4
<1>29. CASE UNCHANGED exchangeVars
  BY <1>29 DEF exchangeVars
<1> QED
  BY <1>1, <1>2, <1>3, <1>4, <1>5, <1>6, <1>7, <1>8, <1>9, <1>10, <1>11, <1>12, <1>13,
     <1>14, <1>15, <1>16, <1>17, <1>18, <1>19, <1>20, <1>21, <1>22, <1>23, <1>24, <1>25,
     <1>26, <1>27, <1>28, <1>29
  DEF ExchangeNext, Molto, Execute, Pump, Finish, Child, Done
------------------------------------------------------------------------------
(* The results.                                                             *)

LEMMA Inductive == ExchangeSpec => []ExchangeInv
<1>1. ExchangeInit => ExchangeInv
  BY InitHolds
<1>2. ExchangeInv /\ [ExchangeNext]_exchangeVars => ExchangeInv'
  BY StepHolds
<1> QED
  BY <1>1, <1>2, PTL DEF ExchangeSpec

\* process_exchange_run: the end of its input tells the child that the request is whole, and a
\* call that is over, however it went, leaves neither a child nor an open pipe behind.
THEOREM ExchangeSound == ExchangeSpec => []ExchangeIsSound
<1>1. ExchangeInv => ExchangeIsSound
  BY TypeInParts DEF ExchangeInv, PhaseInv, ExchangeIsSound, NothingLeftBehind
<1> QED
  BY <1>1, Inductive, PTL

\* answer_take and the capture of process_execute: a result of ok is all the child wrote, within
\* the cap, and a capture says when it is not all.
THEOREM AnswersAreWhole == ExchangeSpec => []AnswerIsWhole
<1>1. ExchangeInv => AnswerIsWhole
  <2> SUFFICES ASSUME ExchangeInv PROVE AnswerIsWhole
    OBVIOUS
  <2>1. phase = "done" /\ result = "ok" => outPipe = 0
    BY DEF ExchangeInv, PhaseInv, ClosedInv
  <2> QED
    BY <2>1, PipesAssumption DEF ExchangeInv, Flags, Places, Counts, BytesCounted, Drained, AnswerIsWhole
<1> QED
  BY <1>1, Inductive, PTL

------------------------------------------------------------------------------
(***************************************************************************)
(* The hash map                                                            *)
(***************************************************************************)

\* What Min picks of numbers.
LEMMA LeastIs ==
  ASSUME NEW S \in SUBSET Nat, S # {}
  PROVE  Min(S) \in S /\ \A k \in S : Min(S) <= k
<1>1. PICK x \in S : \A y \in S : ~(<<y, x>> \in OpToRel(<, Nat))
  BY NatLessThanWellFounded, WFMin
<1>2. ASSUME NEW y \in S PROVE x <= y
  <2>1. x \in Nat /\ y \in Nat
    OBVIOUS
  <2>2. <<y, x>> \notin {z \in Nat \X Nat : z[1] < z[2]}
    BY <1>1, <2>1, Zenon DEF OpToRel
  <2>3. ~(y < x)
    BY <2>1, <2>2
  <2> QED
    BY <2>1, <2>3
<1> QED
  BY <1>2 DEF Min

\* Induction over the places of a list: what holds of 0, and with each place of the next one,
\* holds of all.
LEMMA EveryPlace ==
  ASSUME NEW S, NEW m \in Nat, 0 \in S, \A k \in 0 .. m - 1 : k \in S => k + 1 \in S
  PROVE  0 .. m \subseteq S
<1> SUFFICES ASSUME (0 .. m) \ S # {} PROVE FALSE
  OBVIOUS
<1> DEFINE x == Min((0 .. m) \ S)
<1>1. x \in (0 .. m) \ S /\ \A k \in (0 .. m) \ S : x <= k
  BY LeastIs
<1> HIDE DEF x
<1>2. x # 0 /\ x - 1 \in 0 .. m - 1 /\ x - 1 \in 0 .. m /\ x - 1 < x /\ (x - 1) + 1 = x
  BY <1>1
<1>3. x - 1 \in S
  BY <1>1, <1>2
<1> QED
  BY <1>1, <1>2, <1>3

------------------------------------------------------------------------------
\* Remainders, for the walk through the table.
LEMMA ModUnique ==
  ASSUME NEW n \in Nat \ {0}, NEW q \in Nat, NEW s \in 0 .. n - 1 PROVE (n * q + s) % n = s
  OBVIOUS

\* From its own slot on a key visits every slot of the table.
LEMMA SlotHits ==
  ASSUME NEW n \in Nat \ {0}, NEW h \in Nat, NEW s \in 0 .. n - 1
  PROVE  \E k \in 0 .. n - 1 : (h + k) % n = s
<1>1. h = n * (h \div n) + (h % n) /\ h \div n \in Nat /\ h % n \in 0 .. n - 1
  OBVIOUS
<1> DEFINE q == h \div n
           r == h % n
<1> HIDE DEF q, r
<1>2. CASE r <= s
  <2>1. s - r \in 0 .. n - 1 /\ h + (s - r) = n * q + s
    BY <1>1, <1>2 DEF q, r
  <2>2. (n * q + s) % n = s
    BY <1>1, ModUnique DEF q
  <2> QED
    BY <2>1, <2>2
<1>3. CASE s < r
  <2>1. PICK p \in Nat : p = q + 1
    BY <1>1 DEF q
  <2>2. s + n - r \in 0 .. n - 1 /\ h + (s + n - r) = n * p + s
    BY <1>1, <1>3, <2>1 DEF q, r
  <2>3. (n * p + s) % n = s
    BY ModUnique
  <2> QED
    BY <2>2, <2>3
<1> QED
  BY <1>1, <1>2, <1>3 DEF r

\* An entry of the array, the slot a key visits after k others, and an array in which no key is
\* twice.
Entry == [key : Keys, value : Values]
At(n, key, k) == (Hash[key] + k) % n
Distinct(list) == \A i, j \in DOMAIN list : list[i].key = list[j].key => i = j

\* The table of n slots is right for the first m entries: it names only those, none of them twice,
\* and each is at a slot its key comes to before any empty one.
IsTable(table, n, list, m) ==
  /\ table \in [0 .. n - 1 -> 0 .. m]
  /\ \A s, t \in 0 .. n - 1 : table[s] # 0 /\ table[s] = table[t] => s = t
  /\ \A i \in 1 .. m : \E k \in 0 .. n - 1 :
       /\ table[At(n, list[i].key, k)] = i
       /\ \A j \in 0 .. k - 1 : table[At(n, list[i].key, j)] # 0

LEMMA AtIs ==
  ASSUME NEW n \in Nat \ {0}, NEW key \in Keys, NEW k \in Nat
  PROVE  At(n, key, k) \in 0 .. n - 1
<1>1. Hash[key] + k \in Nat
  BY HashAssumption
<1> QED
  BY <1>1 DEF At

LEMMA SizeIs ==
  ASSUME NEW n \in Nat, NEW table, DOMAIN table = 0 .. n - 1
  PROVE  Size(table) = n
  BY FS_Interval DEF Size

\* A table that is right for fewer entries than it has slots has an empty one.
LEMMA SomeFree ==
  ASSUME NEW n \in Nat \ {0}, NEW m \in Nat, m < n, NEW table \in [0 .. n - 1 -> 0 .. m],
         \A s, t \in 0 .. n - 1 : table[s] # 0 /\ table[s] = table[t] => s = t
  PROVE  \E s \in 0 .. n - 1 : table[s] = 0
<1> SUFFICES ASSUME \A s \in 0 .. n - 1 : table[s] # 0 PROVE FALSE
  OBVIOUS
<1>1. table \in [0 .. n - 1 -> 1 .. m]
  <2>1. \A s \in 0 .. n - 1 : table[s] \in 1 .. m
    OBVIOUS
  <2> QED
    BY <2>1
<1>2. IsFiniteSet(0 .. n - 1) /\ Cardinality(0 .. n - 1) = n
  BY FS_Interval
<1>3. IsFiniteSet(1 .. m) /\ Cardinality(1 .. m) = m
  BY FS_Interval
<1>4. Cardinality(1 .. m) < Cardinality(0 .. n - 1)
  BY <1>2, <1>3
<1>5. PICK s \in 0 .. n - 1, t \in 0 .. n - 1 : s # t /\ table[s] = table[t]
  <2> DEFINE D == 0 .. n - 1
             R == 1 .. m
  <2>1. IsFiniteSet(D) /\ IsFiniteSet(R) /\ Cardinality(R) < Cardinality(D) /\ table \in [D -> R]
    BY <1>1, <1>2, <1>3, <1>4
  <2> HIDE DEF D, R
  <2>2. \E x, y \in D : x # y /\ table[x] = table[y]
    BY <2>1, FS_PigeonHole
  <2> QED
    BY <2>2 DEF D
<1>6. table[s] # 0
  OBVIOUS
<1> QED
  BY <1>5, <1>6

\* A key meets an empty slot on its way.
LEMMA MeetsFree ==
  ASSUME NEW n \in Nat \ {0}, NEW m \in Nat, m < n, NEW list, NEW table, IsTable(table, n, list, m),
         NEW key \in Keys
  PROVE  \E k \in 0 .. n - 1 : table[At(n, key, k)] = 0
<1>1. PICK s \in 0 .. n - 1 : table[s] = 0
  <2>1. /\ table \in [0 .. n - 1 -> 0 .. m]
        /\ \A s, t \in 0 .. n - 1 : table[s] # 0 /\ table[s] = table[t] => s = t
    BY DEF IsTable
  <2> QED
    BY <2>1, SomeFree
<1>2. PICK k \in 0 .. n - 1 : At(n, key, k) = s
  BY SlotHits, HashAssumption DEF At
<1> QED
  BY <1>1, <1>2

\* An entry put where its key first comes to an empty slot leaves the table right for one more.
LEMMA Extended ==
  ASSUME NEW n \in Nat \ {0}, NEW m \in Nat, NEW list, NEW more, NEW table, IsTable(table, n, list, m),
         \A i \in 1 .. m : list[i].key \in Keys /\ more[i].key = list[i].key,
         more[m + 1].key \in Keys,
         NEW d \in 0 .. n - 1, table[At(n, more[m + 1].key, d)] = 0,
         \A j \in 0 .. d - 1 : table[At(n, more[m + 1].key, j)] # 0
  PROVE  IsTable([table EXCEPT ![At(n, more[m + 1].key, d)] = m + 1], n, more, m + 1)
<1> DEFINE key == more[m + 1].key
           new == [table EXCEPT ![At(n, key, d)] = m + 1]
<1>1. At(n, key, d) \in 0 .. n - 1 /\ table \in [0 .. n - 1 -> 0 .. m]
  <2>1. key \in Keys /\ d \in Nat
    OBVIOUS
  <2>2. At(n, key, d) \in 0 .. n - 1
    BY <2>1, AtIs
  <2> QED
    BY <2>2 DEF IsTable
<1>2. \A s \in 0 .. n - 1 : new[s] = IF s = At(n, key, d) THEN m + 1 ELSE table[s]
  BY <1>1
<1>3. new \in [0 .. n - 1 -> 0 .. m + 1]
  <2>1. \A s \in 0 .. n - 1 : table[s] \in 0 .. m + 1 /\ m + 1 \in 0 .. m + 1
    BY <1>1
  <2> QED
    BY <1>1, <2>1
<1>4. \A s \in 0 .. n - 1 : table[s] # 0 => new[s] = table[s]
  BY <1>1, <1>2
<1>5. new[At(n, key, d)] = m + 1
  BY <1>1, <1>2
<1> HIDE DEF new
<1>6. \A s, t \in 0 .. n - 1 : new[s] # 0 /\ new[s] = new[t] => s = t
  <2>1. \A s \in 0 .. n - 1 : table[s] # m + 1
    BY <1>1
  <2> SUFFICES ASSUME NEW s \in 0 .. n - 1, NEW t \in 0 .. n - 1, new[s] # 0, new[s] = new[t] PROVE s = t
    OBVIOUS
  <2>2. CASE s = At(n, key, d)
    BY <1>2, <2>1, <2>2
  <2>3. CASE t = At(n, key, d)
    BY <1>2, <2>1, <2>3
  <2>4. CASE s # At(n, key, d) /\ t # At(n, key, d)
    <3>1. table[s] # 0 /\ table[s] = table[t]
      BY <1>2, <2>4
    <3> QED
      BY <3>1 DEF IsTable
  <2> QED
    BY <2>2, <2>3, <2>4
<1>7. ASSUME NEW i \in 1 .. m + 1
      PROVE  \E k \in 0 .. n - 1 :
               /\ new[At(n, more[i].key, k)] = i
               /\ \A j \in 0 .. k - 1 : new[At(n, more[i].key, j)] # 0
  <2>1. CASE i = m + 1
    <3>1. \A j \in 0 .. d - 1 : At(n, key, j) \in 0 .. n - 1
      BY AtIs
    <3>2. \A j \in 0 .. d - 1 : new[At(n, key, j)] # 0
      BY <1>4, <3>1
    <3> QED
      BY <1>5, <2>1, <3>2
  <2>2. CASE i # m + 1
    <3>1. i \in 1 .. m
      BY <2>2
    <3>2. PICK k \in 0 .. n - 1 : /\ table[At(n, list[i].key, k)] = i
                                  /\ \A j \in 0 .. k - 1 : table[At(n, list[i].key, j)] # 0
      BY <3>1 DEF IsTable
    <3>3. \A j \in 0 .. k : At(n, list[i].key, j) \in 0 .. n - 1
      BY <3>1, AtIs
    <3>4. \A j \in 0 .. k - 1 : new[At(n, list[i].key, j)] # 0
      BY <1>4, <3>2, <3>3
    <3>5. new[At(n, list[i].key, k)] = i
      BY <1>4, <3>1, <3>2, <3>3
    <3> QED
      BY <3>1, <3>4, <3>5
  <2> QED
    BY <2>1, <2>2
<1> QED
  BY <1>3, <1>6, <1>7 DEF IsTable, new

\* probe
LEMMA ProbeFinds ==
  ASSUME NEW n \in Nat \ {0}, NEW list \in Seq(Entry), Len(list) < n, Distinct(list), NEW table,
         IsTable(table, n, list, Len(list)), NEW key \in Keys
  PROVE  LET s == Probe(table, list, key) IN
           /\ s \in 0 .. n - 1
           /\ \A i \in DOMAIN list : list[i].key = key => table[s] = i
           /\ (\A i \in DOMAIN list : list[i].key # key) =>
                /\ table[s] = 0
                /\ \E d \in 0 .. n - 1 : s = At(n, key, d) /\ \A j \in 0 .. d - 1 : table[At(n, key, j)] # 0
<1> DEFINE K == {k \in 0 .. n - 1 : table[At(n, key, k)] = 0 \/ list[table[At(n, key, k)]].key = key}
           d == Min(K)
           s == At(n, key, d)
<1>1. Len(list) \in Nat /\ DOMAIN list = 1 .. Len(list) /\ \A i \in 1 .. Len(list) : list[i] \in Entry
  OBVIOUS
<1>2. DOMAIN table = 0 .. n - 1 /\ \A t \in 0 .. n - 1 : table[t] \in 0 .. Len(list)
  BY DEF IsTable
<1>3. Size(table) = n
  BY <1>2, SizeIs
<1>4. Probe(table, list, key) = s
  BY <1>3 DEF Probe, Slot, At
<1>5. K # {} /\ K \in SUBSET Nat
  BY <1>1, MeetsFree
<1>6. d \in K /\ \A k \in K : d <= k
  <2> HIDE DEF K
  <2> QED
    BY <1>5, LeastIs
<1> HIDE DEF d
<1>7. d \in 0 .. n - 1 /\ s \in 0 .. n - 1 /\ \A j \in 0 .. d - 1 : j \in 0 .. n - 1 /\ j \notin K
  <2>1. d \in 0 .. n - 1
    BY <1>6
  <2>2. s \in 0 .. n - 1
    <3>1. d \in Nat
      BY <2>1
    <3> QED
      BY <3>1, AtIs
  <2> HIDE DEF K, s
  <2>3. \A j \in 0 .. d - 1 : j \in 0 .. n - 1 /\ ~(d <= j)
    BY <2>1
  <2>4. \A j \in 0 .. d - 1 : j \in 0 .. n - 1 /\ j \notin K
    BY <1>6, <2>3
  <2> QED
    BY <2>1, <2>2, <2>4
<1>8. table[s] = 0 \/ list[table[s]].key = key
  BY <1>6
<1>9. \A j \in 0 .. d - 1 : table[At(n, key, j)] # 0 /\ list[table[At(n, key, j)]].key # key
  BY <1>7
<1>10. \A k \in 0 .. n - 1 : k < d => k \in 0 .. d - 1
  BY <1>7
<1> HIDE DEF K, s
<1>11. ASSUME NEW i \in DOMAIN list, list[i].key = key PROVE table[s] = i
  <2>1. i \in 1 .. Len(list)
    BY <1>1, <1>11
  <2>2. PICK k \in 0 .. n - 1 : table[At(n, key, k)] = i /\ \A j \in 0 .. k - 1 : table[At(n, key, j)] # 0
    <3>1. \E k \in 0 .. n - 1 :
             /\ table[At(n, list[i].key, k)] = i
             /\ \A j \in 0 .. k - 1 : table[At(n, list[i].key, j)] # 0
      BY <2>1, Zenon DEF IsTable
    <3> QED
      BY <1>11, <3>1
  <2>3. k \notin 0 .. d - 1
    BY <1>9, <1>11, <2>2
  <2>4. k = d \/ d \in 0 .. k - 1
    BY <1>7, <2>3
  <2>5. table[s] # 0
    BY <1>1, <2>2, <2>4 DEF s
  <2>6. table[s] \in DOMAIN list /\ list[table[s]].key = key
    BY <1>1, <1>2, <1>7, <1>8, <2>5
  <2> QED
    BY <1>11, <2>6 DEF Distinct
<1>12. ASSUME \A i \in DOMAIN list : list[i].key # key PROVE table[s] = 0
  BY <1>1, <1>2, <1>7, <1>8, <1>12
<1>13. s = At(n, key, d)
  BY DEF s
<1> QED
  BY <1>4, <1>7, <1>9, <1>11, <1>12, <1>13

------------------------------------------------------------------------------
\* rebuild_index
LEMMA PlacedIs ==
  ASSUME NEW n \in Nat \ {0}, NEW list \in Seq(Entry), Len(list) < n, NEW k \in 1 .. Len(list),
         NEW table, IsTable(table, n, list, k - 1)
  PROVE  IsTable(Placed(table, list, k), n, list, k)
<1>1. Len(list) \in Nat /\ \A i \in 1 .. Len(list) : list[i].key \in Keys
  <2>1. \A i \in 1 .. Len(list) : list[i] \in Entry
    OBVIOUS
  <2> QED
    BY <2>1 DEF Entry
<1> DEFINE key == list[k].key
           F == {d \in 0 .. n - 1 : table[At(n, key, d)] = 0}
           free == Min(F)
<1>2. Size(table) = n
  BY SizeIs DEF IsTable
<1>3. Placed(table, list, k) = [table EXCEPT ![At(n, key, free)] = k]
  BY <1>2 DEF Placed, Slot, At
<1>4. F # {} /\ F \in SUBSET Nat
  BY <1>1, MeetsFree
<1>5. free \in F /\ \A d \in F : free <= d
  <2> HIDE DEF F
  <2> QED
    BY <1>4, LeastIs
<1> HIDE DEF free
<1>6. free \in 0 .. n - 1 /\ table[At(n, key, free)] = 0
      /\ \A j \in 0 .. free - 1 : table[At(n, key, j)] # 0
  <2>1. \A j \in 0 .. free - 1 : j \in 0 .. n - 1 /\ j < free
    BY <1>5
  <2> QED
    BY <1>5, <2>1
<1>7. PICK m \in Nat : m = k - 1 /\ m + 1 = k /\ m < n
  BY <1>1
<1>8. \A i \in 1 .. m : list[i].key \in Keys
  BY <1>1, <1>7
<1> DEFINE new == [table EXCEPT ![At(n, list[m + 1].key, free)] = m + 1]
<1>9. /\ IsTable(table, n, list, m) /\ list[m + 1].key \in Keys
      /\ table[At(n, list[m + 1].key, free)] = 0
      /\ \A j \in 0 .. free - 1 : table[At(n, list[m + 1].key, j)] # 0
  BY <1>1, <1>6, <1>7
<1>10. IsTable(new, n, list, m + 1)
  BY <1>6, <1>7, <1>8, <1>9, Extended
<1>11. Placed(table, list, k) = new /\ m + 1 = k
  BY <1>3, <1>7
<1> HIDE DEF new
<1> QED
  BY <1>10, <1>11

LEMMA RebuiltIs ==
  ASSUME NEW n \in Nat \ {0}, NEW list \in Seq(Entry), Len(list) < n
  PROVE  IsTable(Rebuilt(list, n), n, list, Len(list))
<1> DEFINE L == Len(list)
           Empty == [s \in 0 .. (n - 1) |-> 0]
           Unrolls(f, m) == f = [k \in 0 .. m |-> IF k = 0 THEN Empty ELSE Placed(f[k - 1], list, k)]
           Reached == {m \in 0 .. L : \E f : Unrolls(f, m)}
<1>1. L \in Nat
  OBVIOUS
<1> HIDE DEF L
<1>2. 0 \in Reached
  <2>1. Unrolls([k \in 0 .. 0 |-> Empty], 0)
    OBVIOUS
  <2> HIDE DEF Unrolls
  <2> QED
    BY <1>1, <2>1
<1>3. ASSUME NEW m \in 0 .. L - 1, m \in Reached PROVE m + 1 \in Reached
  <2>1. PICK f : Unrolls(f, m)
    BY <1>3
  <2> DEFINE g == [k \in 0 .. m + 1 |-> IF k = m + 1 THEN Placed(f[m], list, m + 1) ELSE f[k]]
  <2>2. \A k \in 0 .. m : f[k] = IF k = 0 THEN Empty ELSE Placed(f[k - 1], list, k)
    BY <2>1
  <2>3. \A k \in 0 .. m : g[k] = f[k]
    BY <1>1
  <2>4. g[m + 1] = Placed(f[m], list, m + 1) /\ g[m] = f[m]
    BY <1>1
  <2>5. DOMAIN g = 0 .. m + 1 /\ g = [k \in 0 .. m + 1 |-> g[k]]
    OBVIOUS
  <2> HIDE DEF g, Empty
  <2>6. \A k \in 0 .. m + 1 : g[k] = IF k = 0 THEN Empty ELSE Placed(g[k - 1], list, k)
    <3> SUFFICES ASSUME NEW k \in 0 .. m + 1 PROVE g[k] = IF k = 0 THEN Empty ELSE Placed(g[k - 1], list, k)
      OBVIOUS
    <3>1. CASE k = m + 1
      <4>1. k # 0 /\ k - 1 = m
        BY <1>1, <3>1
      <4> QED
        BY <2>4, <3>1, <4>1
    <3>2. CASE k # m + 1
      <4>1. k \in 0 .. m /\ (k # 0 => k - 1 \in 0 .. m)
        BY <1>1, <3>2
      <4> QED
        BY <2>2, <2>3, <4>1
    <3> QED
      BY <3>1, <3>2
  <2>7. Unrolls(g, m + 1)
    BY <2>5, <2>6
  <2>8. m + 1 \in 0 .. L
    BY <1>1
  <2> HIDE DEF Unrolls
  <2> QED
    BY <2>7, <2>8
<1>4. PICK f : Unrolls(f, L)
  <2> HIDE DEF Unrolls
  <2>1. 0 .. L \subseteq Reached
    <3> HIDE DEF Reached
    <3> QED
      BY <1>1, <1>2, <1>3, EveryPlace
  <2>2. L \in Reached
    BY <1>1, <2>1
  <2> QED
    BY <2>2
<1> DEFINE after == CHOOSE f2 : Unrolls(f2, L)
<1>5. Unrolls(after, L)
  <2> HIDE DEF Unrolls
  <2> QED
    BY <1>4
<1>6. Rebuilt(list, n) = after[L]
  BY DEF Rebuilt, L
<1> HIDE DEF after
<1>7. \A k \in 0 .. L : after[k] = IF k = 0 THEN Empty ELSE Placed(after[k - 1], list, k)
  BY <1>5
<1> DEFINE Right == {k \in 0 .. L : IsTable(after[k], n, list, k)}
<1>8. 0 \in Right
  BY <1>1, <1>7 DEF IsTable
<1>9. ASSUME NEW k \in 0 .. L - 1, k \in Right PROVE k + 1 \in Right
  <2>1. k + 1 \in 1 .. Len(list) /\ (k + 1) - 1 = k /\ k + 1 \in 0 .. L /\ k + 1 # 0
    BY <1>1 DEF L
  <2>2. after[k + 1] = Placed(after[k], list, k + 1)
    BY <1>7, <2>1
  <2> HIDE DEF Empty
  <2>3. IsTable(after[k + 1], n, list, k + 1)
    BY <1>9, <2>1, <2>2, PlacedIs
  <2> QED
    BY <2>1, <2>3
<1>10. L \in Right
  <2> HIDE DEF Right
  <2>1. 0 .. L \subseteq Right
    BY <1>1, <1>8, <1>9, EveryPlace
  <2> QED
    BY <1>1, <2>1
<1> QED
  BY <1>6, <1>10 DEF L

\* Only the keys of the entries matter to a table.
LEMMA SameKeys ==
  ASSUME NEW n \in Nat \ {0}, NEW m \in Nat, NEW list, NEW more, NEW table, IsTable(table, n, list, m),
         \A i \in 1 .. m : more[i].key = list[i].key
  PROVE  IsTable(table, n, more, m)
<1>1. ASSUME NEW i \in 1 .. m
      PROVE  \E k \in 0 .. n - 1 : /\ table[At(n, more[i].key, k)] = i
                                 /\ \A j \in 0 .. k - 1 : table[At(n, more[i].key, j)] # 0
  <2>1. \E k \in 0 .. n - 1 : /\ table[At(n, list[i].key, k)] = i
                             /\ \A j \in 0 .. k - 1 : table[At(n, list[i].key, j)] # 0
    BY Zenon DEF IsTable
  <2>2. more[i].key = list[i].key
    OBVIOUS
  <2> QED
    BY <2>1, <2>2, Zenon
<1> QED
  BY <1>1, Zenon DEF IsTable

\* The invariant: no key is twice in the array, and from the first put on the table is right for
\* it and seven tenths full at most.
Indexed(table, list) ==
  \E n \in Nat \ {0, 1} : IsTable(table, n, list, Len(list)) /\ Len(list) * 10 < n * 7

MapInv ==
  /\ entries \in Seq(Entry) /\ Distinct(entries)
  /\ capacity \in Nat /\ Len(entries) <= capacity
  /\ \/ entries = <<>> /\ DOMAIN index = {}
     \/ Indexed(index, entries)

\* Before every put the table is right and has room for one more entry.
LEMMA GrownIs ==
  ASSUME MapInv
  PROVE  \E n \in Nat \ {0, 1} : /\ IsTable(Grown, n, entries, Len(entries))
                                 /\ (Len(entries) + 1) * 10 < n * 7
<1>1. entries \in Seq(Entry) /\ Len(entries) \in Nat
  BY DEF MapInv
<1>2. CASE entries = <<>> /\ DOMAIN index = {}
  <2>1. Size(index) = 0
    BY <1>2, FS_EmptySet DEF Size
  <2>2. Len(entries) = 0 /\ InitialIndex \in Nat \ {0, 1}
    BY <1>2, SizesAssumption
  <2>3. IsTable(Rebuilt(entries, InitialIndex), InitialIndex, entries, Len(entries))
    <3>1. Len(entries) < InitialIndex /\ InitialIndex \in Nat \ {0}
      BY <2>2
    <3> QED
      BY <1>1, <3>1, RebuiltIs
  <2>4. Grown = Rebuilt(entries, InitialIndex)
    BY <2>1 DEF Grown
  <2>5. (Len(entries) + 1) * 10 < InitialIndex * 7
    BY <2>2
  <2> QED
    BY <2>2, <2>3, <2>4, <2>5
<1>3. CASE Indexed(index, entries)
  <2>1. PICK n \in Nat \ {0, 1} : IsTable(index, n, entries, Len(entries)) /\ Len(entries) * 10 < n * 7
    BY <1>3 DEF Indexed
  <2>2. Size(index) = n
    BY <2>1, SizeIs DEF IsTable
  <2>3. CASE TooFull(Len(entries), Size(index))
    <3>1. Grown = Rebuilt(entries, 2 * n)
      BY <2>2, <2>3 DEF Grown
    <3>2. 2 * n \in Nat \ {0, 1} /\ (Len(entries) + 1) * 10 < (2 * n) * 7 /\ Len(entries) < 2 * n
      BY <1>1, <2>1
    <3>3. IsTable(Rebuilt(entries, 2 * n), 2 * n, entries, Len(entries))
      BY <1>1, <3>2, RebuiltIs
    <3> QED
      BY <3>1, <3>2, <3>3
  <2>4. CASE ~TooFull(Len(entries), Size(index))
    <3>1. Grown = index
      BY <2>2, <2>4 DEF Grown
    <3>2. (Len(entries) + 1) * 10 < n * 7
      BY <1>1, <2>1, <2>2, <2>4 DEF TooFull
    <3> QED
      BY <2>1, <3>1, <3>2
  <2> QED
    BY <2>3, <2>4
<1> QED
  BY <1>2, <1>3 DEF MapInv

\* The room of the array after it grew.
LEMMA RoomIs ==
  ASSUME MapInv PROVE Room \in Nat /\ capacity <= Room /\ Len(entries) + 1 <= Room
<1>1. capacity \in Nat /\ Len(entries) \in Nat /\ Len(entries) <= capacity /\ InitialEntries \in Nat \ {0}
  BY SizesAssumption DEF MapInv
<1> QED
  BY <1>1 DEF Room

------------------------------------------------------------------------------
\* What the array stands for: the function that Dict has for its map.
Meaning(list) ==
  [k \in {list[i].key : i \in DOMAIN list} |->
     list[Min({i \in DOMAIN list : list[i].key = k})].value]

\* It has every entry under its key.
LEMMA MeaningIs ==
  ASSUME NEW list \in Seq(Entry), Distinct(list)
  PROVE  /\ DOMAIN Meaning(list) = {list[i].key : i \in DOMAIN list}
         /\ \A i \in DOMAIN list : Meaning(list)[list[i].key] = list[i].value
<1> SUFFICES ASSUME NEW i \in DOMAIN list PROVE Meaning(list)[list[i].key] = list[i].value
  BY DEF Meaning
<1> DEFINE S == {j \in DOMAIN list : list[j].key = list[i].key}
<1>1. S = {i}
  BY DEF Distinct
<1>2. S \in SUBSET Nat /\ S # {}
  <2>1. DOMAIN list = 1 .. Len(list) /\ Len(list) \in Nat
    OBVIOUS
  <2> QED
    BY <1>1, <2>1
<1>3. Min(S) \in S
  <2> HIDE DEF S
  <2> QED
    BY <1>2, LeastIs
<1>4. Min(S) = i
  BY <1>1, <1>3
<1>5. Meaning(list)[list[i].key] = list[Min(S)].value
  BY DEF Meaning
<1> HIDE DEF S
<1> QED
  BY <1>4, <1>5

\* A value replaced in place is that change of the function.
LEMMA ReplaceMeans ==
  ASSUME NEW list \in Seq(Entry), Distinct(list), NEW p \in DOMAIN list, NEW value \in Values,
         NEW new \in Seq(Entry), Len(new) = Len(list),
         \A i \in DOMAIN list :
           new[i].key = list[i].key /\ new[i].value = IF i = p THEN value ELSE list[i].value
  PROVE  /\ Distinct(new)
         /\ DOMAIN Meaning(new) = DOMAIN Meaning(list)
         /\ \A k \in DOMAIN Meaning(list) :
              Meaning(new)[k] = IF k = list[p].key THEN value ELSE Meaning(list)[k]
<1>1. new \in Seq(Entry) /\ Len(new) = Len(list) /\ DOMAIN new = DOMAIN list
  OBVIOUS
<1>2. \A i \in DOMAIN list : new[i].key = list[i].key /\ new[i].value = IF i = p THEN value ELSE list[i].value
  OBVIOUS
<1>3. Distinct(new)
  BY <1>1, <1>2 DEF Distinct
<1>4. DOMAIN Meaning(new) = DOMAIN Meaning(list)
  <2>1. {new[i].key : i \in DOMAIN new} = {list[i].key : i \in DOMAIN list}
    BY <1>1, <1>2
  <2> QED
    BY <1>1, <1>3, <2>1, MeaningIs
<1>5. ASSUME NEW k \in DOMAIN Meaning(list)
      PROVE  Meaning(new)[k] = IF k = list[p].key THEN value ELSE Meaning(list)[k]
  <2>1. PICK i \in DOMAIN list : k = list[i].key
    <3>1. DOMAIN Meaning(list) = {list[i].key : i \in DOMAIN list}
      BY MeaningIs, Zenon
    <3> QED
      BY <3>1
  <2>2. Meaning(list)[k] = list[i].value
    BY <2>1, MeaningIs
  <2>3. Meaning(new)[new[i].key] = new[i].value
    BY <1>1, <1>3, MeaningIs
  <2>4. k = list[p].key <=> i = p
    BY <2>1 DEF Distinct
  <2>5. new[i].key = k /\ new[i].value = IF i = p THEN value ELSE list[i].value
    BY <1>2, <2>1
  <2> HIDE DEF Meaning
  <2> QED
    BY <2>2, <2>3, <2>4, <2>5
<1> QED
  BY <1>1, <1>2, <1>3, <1>4, <1>5

\* An entry appended under a new key is one more argument.
LEMMA AppendMeans ==
  ASSUME NEW list \in Seq(Entry), Distinct(list), NEW key \in Keys, NEW value \in Values,
         \A i \in DOMAIN list : list[i].key # key,
         NEW new \in Seq(Entry), NEW l, DOMAIN new = DOMAIN list \cup {l},
         new[l].key = key, new[l].value = value,
         \A i \in DOMAIN list : new[i] = list[i]
  PROVE  /\ Distinct(new)
         /\ \A k : k \in DOMAIN Meaning(new) <=> k \in DOMAIN Meaning(list) \/ k = key
<1>1. \A i \in DOMAIN new : i = l \/ i \in DOMAIN list
  OBVIOUS
<1>2. Distinct(new)
  BY <1>1 DEF Distinct
<1> DEFINE K == {list[i].key : i \in DOMAIN list} \cup {key}
<1>3. K = {new[i].key : i \in DOMAIN new}
  <2>1. \A i \in DOMAIN new : new[i].key \in K
    BY <1>1
  <2>2. \A k \in K : \E i \in DOMAIN new : new[i].key = k
    OBVIOUS
  <2> HIDE DEF K
  <2> QED
    BY <2>1, <2>2
<1>4. DOMAIN Meaning(list) \cup {key} = K
  <2>1. DOMAIN Meaning(list) = {list[i].key : i \in DOMAIN list}
    BY MeaningIs, Zenon
  <2> HIDE DEF Meaning
  <2> QED
    BY <2>1
<1>5. DOMAIN Meaning(new) = K
  BY <1>2, <1>3, MeaningIs
<1>6. ASSUME NEW k PROVE k \in DOMAIN Meaning(new) <=> k \in DOMAIN Meaning(list) \/ k = key
  BY <1>4, <1>5
<1> QED
  BY <1>2, <1>6

\* Its value is the entry's, and the others keep theirs.
LEMMA AppendedMeans ==
  ASSUME NEW list \in Seq(Entry), Distinct(list), NEW new \in Seq(Entry), Distinct(new),
         NEW l, DOMAIN new = DOMAIN list \cup {l}, new[l].key \notin DOMAIN Meaning(list),
         \A i \in DOMAIN list : new[i] = list[i],
         NEW k \in DOMAIN Meaning(new)
  PROVE  Meaning(new)[k] = IF k = new[l].key THEN new[l].value ELSE Meaning(list)[k]
<1>1. PICK i \in DOMAIN new : k = new[i].key
  <2>1. DOMAIN Meaning(new) = {new[i].key : i \in DOMAIN new}
    BY MeaningIs, Zenon
  <2> QED
    BY <2>1
<1>2. Meaning(new)[new[i].key] = new[i].value
  BY MeaningIs
<1>3. CASE i = l
  BY <1>1, <1>2, <1>3
<1>4. CASE i \in DOMAIN list
  <2>1. DOMAIN Meaning(list) = {list[j].key : j \in DOMAIN list}
    BY MeaningIs, Zenon
  <2>2. new[i] = list[i] /\ k # new[l].key
    BY <1>1, <1>4, <2>1
  <2>3. Meaning(list)[list[i].key] = list[i].value
    BY <1>4, MeaningIs
  <2> QED
    BY <1>1, <1>2, <2>2, <2>3
<1> QED
  BY <1>3, <1>4

\* The last entry moved to the place of the one that goes.
LEMMA FrontIs ==
  ASSUME NEW list \in Seq(Entry), NEW p \in DOMAIN list
  PROVE  LET new == Front([list EXCEPT ![p] = Last(list)]) IN
           /\ new \in Seq(Entry) /\ Len(new) = Len(list) - 1
           /\ \A i \in 1 .. Len(list) - 1 : new[i] = IF i = p THEN list[Len(list)] ELSE list[i]
<1> DEFINE L == Len(list)
           moved == [list EXCEPT ![p] = Last(list)]
           new == Front(moved)
<1>1. L \in Nat /\ DOMAIN list = 1 .. L /\ p \in 1 .. L /\ L \in 1 .. L /\ L - 1 \in Nat
  OBVIOUS
<1>2. moved \in Seq(Entry) /\ Len(moved) = L /\ \A i \in 1 .. L : moved[i] = IF i = p THEN list[L] ELSE list[i]
  BY <1>1 DEF Last
<1> HIDE DEF moved, new
<1>3. new = SubSeq(moved, 1, L - 1)
  BY <1>2 DEF Front, new
<1> HIDE DEF L
<1>4. new \in Seq(Entry) /\ Len(new) = L - 1 /\ DOMAIN new = 1 .. L - 1 /\ \A i \in 1 .. L - 1 : new[i] = moved[i]
  <2>1. 1 \in Int /\ L - 1 \in Int /\ (L - 1) - 1 + 1 = L - 1 /\ (L - 1 < 1 => L - 1 = 0)
    BY <1>1
  <2>2. \A i \in 1 .. L - 1 : moved[i] \in Entry
    <3>1. DOMAIN moved = 1 .. L
      BY <1>2
    <3>2. \A i \in 1 .. L : moved[i] \in Entry
      BY <1>2, <3>1
    <3> QED
      BY <1>1, <3>2
  <2>3. /\ SubSeq(moved, 1, L - 1) \in Seq(Entry)
        /\ Len(SubSeq(moved, 1, L - 1)) = IF 1 <= L - 1 THEN (L - 1) - 1 + 1 ELSE 0
        /\ \A i \in 1 .. (L - 1) - 1 + 1 : SubSeq(moved, 1, L - 1)[i] = moved[1 + i - 1]
    BY <2>1, <2>2, SubSeqProperties
  <2>4. \A i \in 1 .. L - 1 : 1 + i - 1 = i
    BY <1>1
  <2>5. new \in Seq(Entry)
    BY <1>3, <2>3, Zenon
  <2>6. Len(new) = L - 1
    <3>1. Len(new) = IF 1 <= L - 1 THEN (L - 1) - 1 + 1 ELSE 0
      BY <1>3, <2>3, Zenon
    <3> QED
      BY <1>1, <3>1
  <2>7. DOMAIN new = 1 .. L - 1
    BY <2>5, <2>6
  <2>8. \A i \in 1 .. L - 1 : new[i] = moved[i]
    BY <1>3, <2>1, <2>3, <2>4
  <2> QED
    BY <2>5, <2>8, <2>6, <2>7
<1>5. \A i \in 1 .. L - 1 : new[i] = IF i = p THEN list[L] ELSE list[i]
  <2>1. \A i \in 1 .. L - 1 : i \in 1 .. L
    BY <1>1
  <2> QED
    BY <1>2, <1>4, <2>1
<1> QED
  BY <1>4, <1>5 DEF L, new, moved

\* That is one argument less.
LEMMA RemoveMeans ==
  ASSUME NEW list \in Seq(Entry), Distinct(list), NEW p \in DOMAIN list,
         NEW new \in Seq(Entry), Len(new) = Len(list) - 1,
         \A i \in 1 .. Len(list) - 1 : new[i] = IF i = p THEN list[Len(list)] ELSE list[i]
  PROVE  /\ Distinct(new)
         /\ DOMAIN Meaning(new) = DOMAIN Meaning(list) \ {list[p].key}
         /\ \A k \in DOMAIN Meaning(new) : Meaning(new)[k] = Meaning(list)[k]
<1> DEFINE L == Len(list)
<1>1. L \in Nat /\ DOMAIN list = 1 .. L /\ p \in 1 .. L /\ L \in 1 .. L /\ L - 1 \in Nat
  OBVIOUS
<1>2. DOMAIN new = 1 .. L - 1 /\ \A i \in 1 .. L - 1 : new[i] = IF i = p THEN list[L] ELSE list[i]
  BY <1>1
<1> HIDE DEF L
<1>3. \A i \in 1 .. L - 1 : i \in 1 .. L /\ i # L /\ new[i] = IF i = p THEN list[L] ELSE list[i]
  <2>1. \A i \in 1 .. L - 1 : i \in 1 .. L /\ i # L
    BY <1>1
  <2> QED
    BY <1>2, <2>1
<1>4. Distinct(new)
  <2> SUFFICES ASSUME NEW i \in 1 .. L - 1, NEW j \in 1 .. L - 1, new[i].key = new[j].key PROVE i = j
    BY <1>2 DEF Distinct
  <2>1. \A a, b \in 1 .. L : list[a].key = list[b].key => a = b
    BY <1>1 DEF Distinct
  <2>2. CASE i = p
    BY <1>1, <1>3, <2>1, <2>2
  <2>3. CASE i # p
    BY <1>1, <1>3, <2>1, <2>3
  <2> QED
    BY <2>2, <2>3
<1> DEFINE K == {list[i].key : i \in DOMAIN list} \ {list[p].key}
<1>5. \A i \in 1 .. L : i = L \/ i \in 1 .. L - 1
  BY <1>1
<1>6. K = {new[i].key : i \in DOMAIN new}
  <2>1. \A i \in 1 .. L - 1 : new[i].key \in K
    BY <1>1, <1>3 DEF Distinct
  <2>2. ASSUME NEW i \in 1 .. L, list[i].key # list[p].key PROVE \E j \in 1 .. L - 1 : new[j].key = list[i].key
    <3>1. CASE i = L
      BY <1>1, <1>3, <1>5, <2>2, <3>1
    <3>2. CASE i # L
      BY <1>1, <1>3, <1>5, <2>2, <3>2
    <3> QED
      BY <3>1, <3>2
  <2>3. \A k \in K : \E j \in DOMAIN new : new[j].key = k
    <3> SUFFICES ASSUME NEW k \in K PROVE \E j \in DOMAIN new : new[j].key = k
      OBVIOUS
    <3>1. PICK i \in 1 .. L : k = list[i].key
      BY <1>1
    <3>2. list[i].key # list[p].key
      BY <3>1
    <3> QED
      BY <1>2, <2>2, <3>1, <3>2
  <2>4. \A j \in DOMAIN new : new[j].key \in K
    BY <1>2, <2>1
  <2> HIDE DEF K
  <2> QED
    BY <2>3, <2>4
<1>7. DOMAIN Meaning(list) \ {list[p].key} = K
  BY MeaningIs
<1>8. DOMAIN Meaning(new) = K
  BY <1>2, <1>4, <1>6, MeaningIs
<1>9. ASSUME NEW k \in DOMAIN Meaning(new) PROVE Meaning(new)[k] = Meaning(list)[k]
  <2>1. PICK i \in 1 .. L - 1 : k = new[i].key
    BY <1>2, <1>6, <1>8
  <2>2. Meaning(new)[new[i].key] = new[i].value
    BY <1>2, <1>4, MeaningIs
  <2>3. PICK j \in DOMAIN list : new[i] = list[j]
    BY <1>1, <1>3
  <2>4. Meaning(list)[list[j].key] = list[j].value
    BY MeaningIs
  <2> QED
    BY <2>1, <2>2, <2>3, <2>4
<1> QED
  BY <1>2, <1>4, <1>7, <1>8, <1>9 DEF L

LEMMA MeaningIsFunction ==
  ASSUME NEW list PROVE Meaning(list) = [k \in DOMAIN Meaning(list) |-> Meaning(list)[k]]
  BY DEF Meaning

\* What a probe of a fitting table answers.
LEMMA ProbeAnswers ==
  ASSUME NEW n \in Nat \ {0}, NEW list \in Seq(Entry), Len(list) < n, Distinct(list), NEW table,
         IsTable(table, n, list, Len(list)), NEW key \in Keys, NEW s, s = Probe(table, list, key)
  PROVE  /\ table[s] # 0 => table[s] \in DOMAIN list /\ list[table[s]].key = key
         /\ table[s] = 0 => \A i \in DOMAIN list : list[i].key # key
         /\ table[s] # 0 <=> key \in DOMAIN Meaning(list)
<1>1. /\ \A i \in DOMAIN list : list[i].key = key => table[s] = i
      /\ (\A i \in DOMAIN list : list[i].key # key) => table[s] = 0
  BY ProbeFinds
<1>2. \A i \in DOMAIN list : i # 0
  OBVIOUS
<1>3. DOMAIN Meaning(list) = {list[i].key : i \in DOMAIN list}
  BY MeaningIs
<1>4. table[s] # 0 => table[s] \in DOMAIN list /\ list[table[s]].key = key
  BY <1>1
<1>5. table[s] = 0 => \A i \in DOMAIN list : list[i].key # key
  BY <1>1, <1>2
<1> QED
  BY <1>3, <1>4, <1>5

\* Each operation keeps the invariant and does to the function what the dictionary does.
LEMMA ReplaceStep ==
  ASSUME MapInv, NEW key \in Keys, NEW value \in Values, Replace(key, value)
  PROVE  /\ MapInv'
         /\ Meaning(entries') = [k \in DOMAIN Meaning(entries) \cup {key} |->
                                   IF k = key THEN value ELSE Meaning(entries)[k]]
<1>1. entries \in Seq(Entry) /\ Distinct(entries) /\ Len(entries) \in Nat
  BY DEF MapInv
<1>2. PICK n \in Nat \ {0, 1} : IsTable(Grown, n, entries, Len(entries)) /\ (Len(entries) + 1) * 10 < n * 7
  BY GrownIs
<1>3. Len(entries) < n /\ n \in Nat \ {0} /\ Len(entries) * 10 < n * 7
  BY <1>1, <1>2
<1> DEFINE s == Probe(Grown, entries, key)
           p == Grown[s]
<1>4. p # 0 /\ entries' = [entries EXCEPT ![p].value = value] /\ index' = Grown /\ capacity' = capacity
  BY DEF Replace
<1>5. p \in DOMAIN entries /\ entries[p].key = key /\ key \in DOMAIN Meaning(entries)
  BY <1>1, <1>2, <1>3, <1>4, ProbeAnswers
<1> HIDE DEF p, s
<1>6. /\ entries' \in Seq(Entry) /\ Distinct(entries') /\ Len(entries') = Len(entries)
      /\ \A i \in DOMAIN entries : (entries')[i].key = entries[i].key
      /\ DOMAIN Meaning(entries') = DOMAIN Meaning(entries)
      /\ \A k \in DOMAIN Meaning(entries) :
           Meaning(entries')[k] = IF k = key THEN value ELSE Meaning(entries)[k]
  <2>1. /\ entries' \in Seq(Entry) /\ Distinct(entries') /\ Len(entries') = Len(entries)
        /\ \A i \in DOMAIN entries : (entries')[i].key = entries[i].key
        /\ DOMAIN Meaning(entries') = DOMAIN Meaning(entries)
        /\ \A k \in DOMAIN Meaning(entries) :
             Meaning(entries')[k] = IF k = entries[p].key THEN value ELSE Meaning(entries)[k]
    <3>1. \A i \in DOMAIN entries : entries[i] \in Entry
      BY <1>1
    <3>2. [entries[p] EXCEPT !.value = value] \in Entry
      BY <1>5, <3>1 DEF Entry
    <3>3. entries' = [entries EXCEPT ![p] = [entries[p] EXCEPT !.value = value]]
      BY <1>4
    <3>4. entries' \in Seq(Entry) /\ Len(entries') = Len(entries)
      BY <1>1, <1>5, <3>2, <3>3
    <3>5. \A i \in DOMAIN entries : /\ (entries')[i].key = entries[i].key
                                    /\ (entries')[i].value = IF i = p THEN value ELSE entries[i].value
      BY <1>1, <1>5, <3>1, <3>3 DEF Entry
    <3> HIDE DEF MapInv
    <3>6. /\ Distinct(entries') /\ DOMAIN Meaning(entries') = DOMAIN Meaning(entries)
          /\ \A k \in DOMAIN Meaning(entries) :
               Meaning(entries')[k] = IF k = entries[p].key THEN value ELSE Meaning(entries)[k]
      BY <1>1, <1>5, <3>4, <3>5, ReplaceMeans
    <3> QED
      BY <3>4, <3>5, <3>6
  <2> QED
    BY <1>5, <2>1
<1>7. IsTable(index', n, entries', Len(entries'))
  <2>1. \A i \in 1 .. Len(entries) : (entries')[i].key = entries[i].key
    BY <1>1, <1>6
  <2>2. IsTable(Grown, n, entries', Len(entries))
    BY <1>1, <1>2, <1>3, <2>1, SameKeys
  <2> QED
    BY <1>4, <1>6, <2>2
<1>8. Indexed(index, entries)'
  BY <1>3, <1>6, <1>7 DEF Indexed
<1>9. MapInv'
  BY <1>4, <1>6, <1>8 DEF MapInv
<1>10. DOMAIN Meaning(entries) \cup {key} = DOMAIN Meaning(entries)
  BY <1>5
<1>11. Meaning(entries') = [k \in DOMAIN Meaning(entries') |-> Meaning(entries')[k]]
  BY MeaningIsFunction
<1> QED
  BY <1>6, <1>9, <1>10, <1>11

LEMMA AddStep ==
  ASSUME MapInv, NEW key \in Keys, NEW value \in Values, Add(key, value)
  PROVE  /\ MapInv'
         /\ Meaning(entries') = [k \in DOMAIN Meaning(entries) \cup {key} |->
                                   IF k = key THEN value ELSE Meaning(entries)[k]]
<1>1. entries \in Seq(Entry) /\ Distinct(entries) /\ Len(entries) \in Nat
  BY DEF MapInv
<1>2. PICK n \in Nat \ {0, 1} : IsTable(Grown, n, entries, Len(entries)) /\ (Len(entries) + 1) * 10 < n * 7
  BY GrownIs
<1>3. Len(entries) < n /\ n \in Nat \ {0}
  BY <1>1, <1>2
<1> DEFINE s == Probe(Grown, entries, key)
<1>4. /\ Grown[s] = 0
      /\ entries' = Append(entries, [key |-> key, value |-> value])
      /\ index' = [Grown EXCEPT ![s] = Len(entries) + 1]
      /\ capacity' = Room
  BY DEF Add
<1>5. \A i \in DOMAIN entries : entries[i].key # key
  BY <1>1, <1>2, <1>3, <1>4, ProbeAnswers
<1>6. /\ entries' \in Seq(Entry) /\ Distinct(entries') /\ Len(entries') = Len(entries) + 1
      /\ (entries')[Len(entries) + 1].key = key
      /\ \A i \in 1 .. Len(entries) : (entries')[i] = entries[i]
      /\ DOMAIN Meaning(entries') = DOMAIN Meaning(entries) \cup {key}
      /\ \A k \in DOMAIN Meaning(entries') :
           Meaning(entries')[k] = IF k = key THEN value ELSE Meaning(entries)[k]
  <2> HIDE DEF s
  <2>1. [key |-> key, value |-> value] \in Entry
    BY DEF Entry
  <2>2. /\ entries' \in Seq(Entry) /\ Len(entries') = Len(entries) + 1
        /\ (entries')[Len(entries) + 1].key = key /\ (entries')[Len(entries) + 1].value = value
        /\ \A i \in 1 .. Len(entries) : (entries')[i] = entries[i]
    BY <1>1, <1>4, <2>1
  <2>3. /\ DOMAIN entries' = DOMAIN entries \cup {Len(entries) + 1}
        /\ \A i \in DOMAIN entries : (entries')[i] = entries[i]
    BY <1>1, <2>2
  <2>4. /\ Distinct(entries')
        /\ key \notin DOMAIN Meaning(entries)
        /\ DOMAIN Meaning(entries') = DOMAIN Meaning(entries) \cup {key}
        /\ \A k \in DOMAIN Meaning(entries') :
             Meaning(entries')[k] = IF k = key THEN value ELSE Meaning(entries)[k]
    <3>1. PICK l : /\ DOMAIN entries' = DOMAIN entries \cup {l}
                   /\ (entries')[l].key = key /\ (entries')[l].value = value
      BY <2>2, <2>3
    <3>2. /\ Distinct(entries')
          /\ key \notin DOMAIN Meaning(entries)
          /\ DOMAIN Meaning(entries') = DOMAIN Meaning(entries) \cup {key}
      <4>1. key \notin DOMAIN Meaning(entries)
        <5>1. DOMAIN Meaning(entries) = {entries[i].key : i \in DOMAIN entries}
          BY <1>1, MeaningIs, Zenon
        <5> QED
          BY <1>5, <5>1
      <4>2. Distinct(entries')
        BY <1>1, <1>5, <2>2, <2>3, <3>1, AppendMeans
      <4>3. DOMAIN Meaning(entries') = DOMAIN Meaning(entries) \cup {key}
        <5>1. \A k : k \in DOMAIN Meaning(entries') <=> k \in DOMAIN Meaning(entries) \/ k = key
          BY <1>1, <1>5, <2>2, <2>3, <3>1, AppendMeans
        <5> QED
          BY <5>1
      <4> QED
        BY <4>1, <4>2, <4>3
    <3>3. ASSUME NEW k \in DOMAIN Meaning(entries')
          PROVE  Meaning(entries')[k] = IF k = key THEN value ELSE Meaning(entries)[k]
      BY <1>1, <2>2, <2>3, <3>1, <3>2, AppendedMeans
    <3> QED
      BY <3>2, <3>3
  <2> QED
    BY <2>2, <2>4
<1>7. PICK d \in 0 .. n - 1 : s = At(n, key, d) /\ \A j \in 0 .. d - 1 : Grown[At(n, key, j)] # 0
  BY <1>1, <1>2, <1>3, <1>5, ProbeFinds
<1> HIDE DEF s
<1>8. IsTable(index', n, entries', Len(entries'))
  <2> DEFINE more == entries'
             m == Len(entries)
  <2>1. \A i \in 1 .. m : entries[i].key \in Keys
    <3>1. \A i \in 1 .. m : entries[i] \in Entry
      BY <1>1
    <3> QED
      BY <3>1 DEF Entry
  <2>2. \A i \in 1 .. m : entries[i].key \in Keys /\ more[i].key = entries[i].key
    BY <1>6, <2>1
  <2>3. more[m + 1].key = key
    BY <1>6
  <2> HIDE DEF more
  <2>4. IsTable([Grown EXCEPT ![At(n, more[m + 1].key, d)] = m + 1], n, more, m + 1)
    <3>1. /\ IsTable(Grown, n, entries, m) /\ m \in Nat /\ n \in Nat \ {0}
          /\ more[m + 1].key \in Keys
          /\ Grown[At(n, more[m + 1].key, d)] = 0
          /\ \A j \in 0 .. d - 1 : Grown[At(n, more[m + 1].key, j)] # 0
      BY <1>1, <1>2, <1>3, <1>4, <1>7, <2>3
    <3> HIDE DEF m
    <3> QED
      BY <2>2, <3>1, Extended, Zenon
  <2> QED
    BY <1>4, <1>6, <1>7, <2>3, <2>4 DEF more
<1>9. Indexed(index, entries)'
  BY <1>2, <1>6, <1>8 DEF Indexed
<1>10. MapInv'
  BY <1>4, <1>6, <1>9, RoomIs DEF MapInv
<1>11. Meaning(entries') = [k \in DOMAIN Meaning(entries') |-> Meaning(entries')[k]]
  BY MeaningIsFunction
<1> QED
  BY <1>6, <1>10, <1>11

LEMMA RefusedStep ==
  ASSUME MapInv, NEW key \in Keys, PutRefused(key)
  PROVE  MapInv' /\ entries' = entries /\ answer' = FALSE
<1>1. entries' = entries /\ answer' = FALSE /\ entries \in Seq(Entry) /\ Len(entries) \in Nat
  BY DEF PutRefused, MapInv
<1>2. CASE UNCHANGED <<index, capacity>>
  BY <1>1, <1>2 DEF MapInv, Indexed
<1>3. CASE index' = Grown /\ capacity' \in {capacity, Room}
  <2>1. PICK n \in Nat \ {0, 1} : IsTable(Grown, n, entries, Len(entries)) /\ (Len(entries) + 1) * 10 < n * 7
    BY GrownIs
  <2>2. Len(entries) * 10 < n * 7
    BY <1>1, <2>1
  <2>3. Indexed(index, entries)'
    BY <1>1, <1>3, <2>1, <2>2 DEF Indexed
  <2>4. (capacity \in Nat /\ Len(entries) <= capacity)'
    BY <1>1, <1>3, RoomIs DEF MapInv
  <2> QED
    BY <1>1, <2>3, <2>4 DEF MapInv
<1> QED
  BY <1>2, <1>3 DEF PutRefused

\* Before the first put the index is empty, and so is the array; from then on it fits.
LEMMA IndexIs ==
  ASSUME MapInv
  PROVE  /\ Size(index) = 0 => entries = <<>>
         /\ Size(index) # 0 => Size(index) \in Nat \ {0, 1} /\ Len(entries) < Size(index)
              /\ IsTable(index, Size(index), entries, Len(entries)) /\ Len(entries) * 10 < Size(index) * 7
<1>1. Len(entries) \in Nat
  BY DEF MapInv
<1>2. CASE entries = <<>> /\ DOMAIN index = {}
  BY <1>2, FS_EmptySet DEF Size
<1>3. CASE Indexed(index, entries)
  <2>1. PICK n \in Nat \ {0, 1} : IsTable(index, n, entries, Len(entries)) /\ Len(entries) * 10 < n * 7
    BY <1>3 DEF Indexed
  <2>2. Size(index) = n
    BY <2>1, SizeIs DEF IsTable
  <2>3. Len(entries) < n
    BY <1>1, <2>1
  <2> QED
    BY <2>1, <2>2, <2>3
<1> QED
  BY <1>2, <1>3 DEF MapInv

LEMMA GetStep ==
  ASSUME MapInv, NEW key \in Keys, Get(key)
  PROVE  /\ MapInv'
         /\ entries' = entries
         /\ answer' = IF key \in DOMAIN Meaning(entries) THEN Meaning(entries)[key] ELSE NoValue
<1>1. entries \in Seq(Entry) /\ Distinct(entries)
  BY DEF MapInv
<1>2. entries' = entries /\ capacity' = capacity /\ index' = index
  BY DEF Get
<1>3. MapInv'
  BY <1>2 DEF MapInv, Indexed
<1>4. DOMAIN Meaning(entries) = {entries[i].key : i \in DOMAIN entries}
  BY <1>1, MeaningIs
<1>5. CASE Size(index) = 0
  <2>1. key \notin DOMAIN Meaning(entries)
    BY <1>4, <1>5, IndexIs
  <2> QED
    BY <1>2, <1>3, <1>5, <2>1 DEF Get
<1>6. CASE Size(index) # 0
  <2> DEFINE place == index[Probe(index, entries, key)]
  <2>1. answer' = IF place = 0 THEN NoValue ELSE entries[place].value
    BY <1>6 DEF Get
  <2>2. /\ place # 0 => place \in DOMAIN entries /\ entries[place].key = key
        /\ place # 0 <=> key \in DOMAIN Meaning(entries)
    BY <1>1, <1>6, IndexIs, ProbeAnswers
  <2> HIDE DEF place
  <2>3. place # 0 => Meaning(entries)[key] = entries[place].value
    BY <1>1, <2>2, MeaningIs
  <2> QED
    BY <1>2, <1>3, <2>1, <2>2, <2>3
<1> QED
  BY <1>5, <1>6

LEMMA DeleteStep ==
  ASSUME MapInv, NEW key \in Keys, Delete(key)
  PROVE  /\ MapInv'
         /\ answer' = (key \in DOMAIN Meaning(entries))
         /\ Meaning(entries') = [k \in DOMAIN Meaning(entries) \ {key} |-> Meaning(entries)[k]]
<1>1. entries \in Seq(Entry) /\ Distinct(entries) /\ Len(entries) \in Nat
  BY DEF MapInv
<1>2. DOMAIN Meaning(entries) = {entries[i].key : i \in DOMAIN entries}
  BY <1>1, MeaningIs
<1>3. capacity' = capacity
  BY DEF Delete
<1>4. CASE ~Holds(key)
  <2>1. answer' = FALSE /\ entries' = entries /\ index' = index
    BY <1>4 DEF Delete
  <2>2. MapInv'
    BY <1>3, <2>1 DEF MapInv, Indexed
  <2>3. key \notin DOMAIN Meaning(entries)
    <3>1. CASE Size(index) = 0
      BY <1>2, <3>1, IndexIs
    <3>2. CASE Size(index) # 0
      <4>1. index[Probe(index, entries, key)] = 0
        BY <1>4, <3>2 DEF Holds
      <4> QED
        BY <1>1, <3>2, <4>1, IndexIs, ProbeAnswers
    <3> QED
      BY <3>1, <3>2
  <2>4. Meaning(entries) = [k \in DOMAIN Meaning(entries) |-> Meaning(entries)[k]]
    BY MeaningIsFunction
  <2>5. DOMAIN Meaning(entries) \ {key} = DOMAIN Meaning(entries)
    BY <2>3
  <2>6. answer' = (key \in DOMAIN Meaning(entries))
    <3>1. (key \in DOMAIN Meaning(entries)) = FALSE
      BY <2>3
    <3> QED
      BY <2>1, <3>1
  <2>7. Meaning(entries') = [k \in DOMAIN Meaning(entries) \ {key} |-> Meaning(entries)[k]]
    BY <2>1, <2>4, <2>5
  <2> QED
    BY <2>2, <2>6, <2>7
<1>5. CASE Holds(key)
  <2> DEFINE p == index[Probe(index, entries, key)]
  <2>1. /\ entries' = Front([entries EXCEPT ![p] = Last(entries)])
        /\ index' = Rebuilt(entries', Size(index))
        /\ answer' = TRUE
    BY <1>5 DEF Delete, Forget
  <2>2. Size(index) # 0 /\ p # 0
    BY <1>5 DEF Holds
  <2>3. p \in DOMAIN entries /\ entries[p].key = key /\ key \in DOMAIN Meaning(entries)
    BY <1>1, <2>2, IndexIs, ProbeAnswers
  <2> HIDE DEF p
  <2>4. /\ entries' \in Seq(Entry) /\ Distinct(entries') /\ Len(entries') = Len(entries) - 1
        /\ DOMAIN Meaning(entries') = DOMAIN Meaning(entries) \ {key}
        /\ \A k \in DOMAIN Meaning(entries') : Meaning(entries')[k] = Meaning(entries)[k]
    <3>1. /\ entries' \in Seq(Entry) /\ Distinct(entries') /\ Len(entries') = Len(entries) - 1
          /\ DOMAIN Meaning(entries') = DOMAIN Meaning(entries) \ {entries[p].key}
          /\ \A k \in DOMAIN Meaning(entries') : Meaning(entries')[k] = Meaning(entries)[k]
      <4>1. /\ entries' \in Seq(Entry) /\ Len(entries') = Len(entries) - 1
            /\ \A i \in 1 .. Len(entries) - 1 :
                 (entries')[i] = IF i = p THEN entries[Len(entries)] ELSE entries[i]
        BY <1>1, <2>1, <2>3, FrontIs
      <4>2. /\ Distinct(entries')
            /\ DOMAIN Meaning(entries') = DOMAIN Meaning(entries) \ {entries[p].key}
            /\ \A k \in DOMAIN Meaning(entries') : Meaning(entries')[k] = Meaning(entries)[k]
        BY <1>1, <2>3, <4>1, RemoveMeans
      <4> QED
        BY <4>1, <4>2
    <3> QED
      BY <2>3, <3>1
  <2>5. PICK n \in Nat \ {0, 1} : n = Size(index) /\ Len(entries) < n /\ Len(entries) * 10 < n * 7
    BY <2>2, IndexIs
  <2>6. Len(entries') < n /\ Len(entries') * 10 < n * 7 /\ Len(entries') <= Len(entries)
    BY <1>1, <2>4, <2>5
  <2>7. IsTable(index', n, entries', Len(entries'))
    BY <2>1, <2>4, <2>5, <2>6, RebuiltIs
  <2>8. Indexed(index, entries)'
    BY <2>6, <2>7 DEF Indexed
  <2>9. (capacity \in Nat /\ Len(entries) <= capacity)'
    BY <1>1, <1>3, <2>4, <2>6 DEF MapInv
  <2>10. MapInv'
    BY <2>4, <2>8, <2>9 DEF MapInv
  <2>11. Meaning(entries') = [k \in DOMAIN Meaning(entries') |-> Meaning(entries')[k]]
    BY MeaningIsFunction
  <2> QED
    BY <2>1, <2>3, <2>4, <2>10, <2>11
<1> QED
  BY <1>4, <1>5

------------------------------------------------------------------------------
\* Every step keeps the invariant and is one of the dictionary.
LEMMA MapStep == MapInv /\ [MapNext]_mapVars => MapInv' /\ [Dict!Next]_<<Meaning(entries), answer>>
<1> SUFFICES ASSUME MapInv, [MapNext]_mapVars PROVE MapInv' /\ [Dict!Next]_<<Meaning(entries), answer>>
  OBVIOUS
<1>1. CASE UNCHANGED mapVars
  BY <1>1 DEF mapVars, MapInv, Indexed, Meaning
<1>2. ASSUME NEW key \in Keys, NEW value \in Values, Replace(key, value)
      PROVE  MapInv' /\ [Dict!Next]_<<Meaning(entries), answer>>
  <2>1. answer' = TRUE
    BY <1>2 DEF Replace
  <2>2. Dict!Put(key, value)
    BY <1>2, <2>1, ReplaceStep DEF Dict!Put, Meaning
  <2> QED
    BY <1>2, <2>2, ReplaceStep DEF Dict!Next
<1>3. ASSUME NEW key \in Keys, NEW value \in Values, Add(key, value)
      PROVE  MapInv' /\ [Dict!Next]_<<Meaning(entries), answer>>
  <2>1. answer' = TRUE
    BY <1>3 DEF Add
  <2>2. Dict!Put(key, value)
    BY <1>3, <2>1, AddStep DEF Dict!Put, Meaning
  <2> QED
    BY <1>3, <2>2, AddStep DEF Dict!Next
<1>4. ASSUME NEW key \in Keys, PutRefused(key)
      PROVE  MapInv' /\ [Dict!Next]_<<Meaning(entries), answer>>
  <2>1. Dict!Refuse
    BY <1>4, RefusedStep DEF Dict!Refuse
  <2> QED
    BY <1>4, <2>1, RefusedStep DEF Dict!Next
<1>5. ASSUME NEW key \in Keys, Get(key)
      PROVE  MapInv' /\ [Dict!Next]_<<Meaning(entries), answer>>
  <2>1. Dict!Get(key)
    BY <1>5, GetStep DEF Dict!Get, Meaning
  <2> QED
    BY <1>5, <2>1, GetStep DEF Dict!Next
<1>6. ASSUME NEW key \in Keys, Delete(key)
      PROVE  MapInv' /\ [Dict!Next]_<<Meaning(entries), answer>>
  <2>1. Dict!Remove(key)
    BY <1>6, DeleteStep DEF Dict!Remove, Dict!Restrict, Restrict, Meaning
  <2> QED
    BY <1>6, <2>1, DeleteStep DEF Dict!Next
<1> QED
  BY <1>1, <1>2, <1>3, <1>4, <1>5, <1>6 DEF MapNext

\* ImplementsDictionary for every hash function, any keys and values and every first size: what was
\* put last under a key is what a get finds, until it is removed.
THEOREM MapIsDictionary == MapSpec => ImplementsDictionary
<1>1. MapInit => MapInv /\ Dict!Init
  <2> SUFFICES ASSUME MapInit PROVE MapInv /\ Dict!Init
    OBVIOUS
  <2>1. entries = <<>> /\ capacity = 0 /\ DOMAIN index = {} /\ answer = NoValue
    BY DEF MapInit
  <2>2. MapInv
    BY <2>1 DEF MapInv, Distinct
  <2>3. Dict!Init
    BY <2>1 DEF Dict!Init
  <2> QED
    BY <2>2, <2>3
<1>2. MapInv /\ [MapNext]_mapVars => MapInv'
  BY MapStep
<1>3. MapInv /\ [MapNext]_mapVars => [Dict!Next]_<<Meaning(entries), answer>>
  BY MapStep
<1> QED
  BY <1>1, <1>2, <1>3, PTL DEF MapSpec, ImplementsDictionary, Dict!Spec, Meaning

(***************************************************************************)
(* The report                                                              *)
(***************************************************************************)

\* What a row may have on it, and a screen with the cursor on one of its rows.
Words ==
  {"unit", "more", "bar", "registry", "module", "project", "tests", "line", "cached", "", "message",
   "Finished", "error"} \cup Nat \cup Units
Texts == Seq(Words)
IsScreen(s) == s \in [rows : Seq(Seq(Texts)), cursor : Nat] /\ s.cursor \in 1 .. Len(s.rows)

\* A row, also below the last one.
RowAt(s, j) == IF j \in 1 .. Len(s.rows) THEN s.rows[j] ELSE <<>>

LEMMA EraseIs ==
  ASSUME NEW s, IsScreen(s)
  PROVE  /\ IsScreen(Erase(s)) /\ Erase(s).cursor = s.cursor
         /\ \A j \in Nat : RowAt(Erase(s), j) = IF j = s.cursor THEN <<>> ELSE RowAt(s, j)
<1>1. s.rows \in Seq(Seq(Texts)) /\ s.cursor \in 1 .. Len(s.rows) /\ s.cursor \in Nat
  BY DEF IsScreen
<1>2. Erase(s) = [rows |-> [s.rows EXCEPT ![s.cursor] = <<>>], cursor |-> s.cursor]
  <2>1. Erase(s) = [s EXCEPT !.rows = [s.rows EXCEPT ![s.cursor] = <<>>]]
    BY DEF IsScreen, Erase
  <2> DEFINE rows == [s.rows EXCEPT ![s.cursor] = <<>>]
  <2> HIDE DEF rows
  <2>2. [s EXCEPT !.rows = rows] = [rows |-> rows, cursor |-> s.cursor]
    BY DEF IsScreen
  <2> QED
    BY <2>1, <2>2 DEF rows
<1>3. [s.rows EXCEPT ![s.cursor] = <<>>] \in Seq(Seq(Texts))
  BY <1>1
<1>4. Len([s.rows EXCEPT ![s.cursor] = <<>>]) = Len(s.rows)
  BY <1>1
<1> QED
  BY <1>1, <1>2, <1>3, <1>4 DEF IsScreen, RowAt

LEMMA PutIs ==
  ASSUME NEW s, IsScreen(s), NEW text \in Texts
  PROVE  /\ IsScreen(Put(s, text)) /\ Put(s, text).cursor = s.cursor
         /\ \A j \in Nat : RowAt(Put(s, text), j)
                             = IF j = s.cursor THEN Append(RowAt(s, j), text) ELSE RowAt(s, j)
<1>1. s.rows \in Seq(Seq(Texts)) /\ s.cursor \in 1 .. Len(s.rows) /\ s.cursor \in Nat
      /\ s.rows[s.cursor] \in Seq(Texts)
  BY DEF IsScreen
<1> DEFINE new == Append(s.rows[s.cursor], text)
<1>2. Put(s, text) = [rows |-> [s.rows EXCEPT ![s.cursor] = new], cursor |-> s.cursor]
  <2>1. Put(s, text) = [s EXCEPT !.rows = [s.rows EXCEPT ![s.cursor] = new]]
    BY DEF IsScreen, Put
  <2> DEFINE rows == [s.rows EXCEPT ![s.cursor] = new]
  <2> HIDE DEF rows
  <2>2. [s EXCEPT !.rows = rows] = [rows |-> rows, cursor |-> s.cursor]
    BY DEF IsScreen
  <2> QED
    BY <2>1, <2>2 DEF rows
<1>3. new \in Seq(Texts)
  BY <1>1
<1> HIDE DEF new
<1>4. [s.rows EXCEPT ![s.cursor] = new] \in Seq(Seq(Texts)) /\ Len([s.rows EXCEPT ![s.cursor] = new]) = Len(s.rows)
  BY <1>1, <1>3
<1> QED
  BY <1>1, <1>2, <1>4 DEF IsScreen, RowAt, new

LEMMA NewLineIs ==
  ASSUME NEW s, IsScreen(s)
  PROVE  /\ IsScreen(NewLine(s)) /\ NewLine(s).cursor = s.cursor + 1
         /\ \A j \in Nat : RowAt(NewLine(s), j) = RowAt(s, j)
<1>1. s.rows \in Seq(Seq(Texts)) /\ s.cursor \in 1 .. Len(s.rows) /\ s.cursor \in Nat
  BY DEF IsScreen
<1>2. CASE s.cursor = Len(s.rows)
  <2>1. NewLine(s) = [rows |-> Append(s.rows, <<>>), cursor |-> s.cursor + 1]
    BY <1>2 DEF NewLine
  <2>2. Append(s.rows, <<>>) \in Seq(Seq(Texts)) /\ Len(Append(s.rows, <<>>)) = Len(s.rows) + 1
    BY <1>1
  <2> QED
    BY <1>1, <1>2, <2>1, <2>2 DEF IsScreen, RowAt
<1>3. CASE s.cursor # Len(s.rows)
  BY <1>1, <1>3 DEF NewLine, IsScreen, RowAt
<1> QED
  BY <1>2, <1>3

LEMMA UpIs ==
  ASSUME NEW s, IsScreen(s), NEW n \in Nat, n < s.cursor
  PROVE  /\ IsScreen(Up(s, n)) /\ Up(s, n).cursor = s.cursor - n
         /\ \A j \in Nat : RowAt(Up(s, n), j) = RowAt(s, j)
<1>1. Up(s, n) = [rows |-> s.rows, cursor |-> s.cursor - n]
  BY DEF IsScreen, Up
<1> QED
  BY <1>1 DEF IsScreen, RowAt

LEMMA RowIs ==
  ASSUME NEW s, IsScreen(s), NEW lines \in Seq(Texts), NEW i \in Nat \ {0}
  PROVE  /\ IsScreen(Row(s, lines, i)) /\ Row(s, lines, i).cursor = s.cursor
         /\ \A j \in Nat : RowAt(Row(s, lines, i), j)
              = IF j = s.cursor THEN IF i <= Len(lines) THEN <<lines[i]>> ELSE <<>> ELSE RowAt(s, j)
<1>1. CASE i <= Len(lines)
  <2>1. lines[i] \in Texts /\ Row(s, lines, i) = Put(Erase(s), lines[i])
    BY <1>1 DEF Row
  <2>2. Append(<<>>, lines[i]) = <<lines[i]>>
    OBVIOUS
  <2>3. /\ IsScreen(Erase(s)) /\ Erase(s).cursor = s.cursor
        /\ \A j \in Nat : RowAt(Erase(s), j) = IF j = s.cursor THEN <<>> ELSE RowAt(s, j)
    BY EraseIs
  <2> DEFINE e == Erase(s)
  <2> HIDE DEF e
  <2>4. /\ IsScreen(Put(e, lines[i])) /\ Put(e, lines[i]).cursor = e.cursor
        /\ \A j \in Nat : RowAt(Put(e, lines[i]), j)
                             = IF j = e.cursor THEN Append(RowAt(e, j), lines[i]) ELSE RowAt(e, j)
    BY <2>1, <2>3, PutIs DEF e
  <2> QED
    BY <1>1, <2>1, <2>2, <2>3, <2>4 DEF e
<1>2. CASE ~(i <= Len(lines))
  BY <1>2, EraseIs DEF Row
<1> QED
  BY <1>1, <1>2

\* Lines that are printed go one below the other, from the row of the cursor on.
LEMMA PrintedIs ==
  ASSUME NEW s, IsScreen(s), NEW lines \in Seq(Texts), \A j \in Nat : j >= s.cursor => RowAt(s, j) = <<>>
  PROVE  /\ IsScreen(Printed(s, lines)) /\ Printed(s, lines).cursor = s.cursor + Len(lines)
         /\ \A j \in Nat : RowAt(Printed(s, lines), j)
              = IF j \in s.cursor .. s.cursor + Len(lines) - 1 THEN <<lines[j - s.cursor + 1]>> ELSE RowAt(s, j)
<1> DEFINE n == Len(lines)
           Next1(u, k) == CHOOSE t \in {NewLine(Put(v, lines[k])) : v \in {u}} : TRUE
<1>1. n \in Nat
  OBVIOUS
<1>n. \A u, k : Next1(u, k) = NewLine(Put(u, lines[k]))
  OBVIOUS
<1>f. Printed(s, lines) = LET after[k \in 0 .. n] == IF k = 0 THEN s ELSE Next1(after[k - 1], k) IN after[n]
  BY DEF Printed
<1> HIDE DEF n, Next1
<1> DEFINE Unrolls(f, m) == f = [k \in 0 .. m |-> IF k = 0 THEN s ELSE Next1(f[k - 1], k)]
           Unrolled == {m \in 0 .. n : \E f : Unrolls(f, m)}
<1>2. 0 \in Unrolled
  <2>1. Unrolls([k \in 0 .. 0 |-> s], 0)
    OBVIOUS
  <2> HIDE DEF Unrolls
  <2> QED
    BY <1>1, <2>1
<1>3. ASSUME NEW m \in 0 .. n - 1, m \in Unrolled PROVE m + 1 \in Unrolled
  <2>1. PICK f : Unrolls(f, m)
    BY <1>3
  <2> DEFINE g == [k \in 0 .. m + 1 |-> IF k = m + 1 THEN Next1(f[m], (m + 1)) ELSE f[k]]
  <2>2. \A k \in 0 .. m : f[k] = IF k = 0 THEN s ELSE Next1(f[k - 1], k)
    BY <2>1
  <2>3. \A k \in 0 .. m : g[k] = f[k]
    BY <1>1
  <2>4. g[m + 1] = Next1(f[m], (m + 1)) /\ g[m] = f[m]
    BY <1>1
  <2>5. g = [k \in 0 .. m + 1 |-> g[k]]
    OBVIOUS
  <2> HIDE DEF g
  <2>6. \A k \in 0 .. m + 1 : g[k] = IF k = 0 THEN s ELSE Next1(g[k - 1], k)
    <3> SUFFICES ASSUME NEW k \in 0 .. m + 1
                 PROVE  g[k] = IF k = 0 THEN s ELSE Next1(g[k - 1], k)
      OBVIOUS
    <3>1. CASE k = m + 1
      <4>1. k # 0 /\ k - 1 = m
        BY <1>1, <3>1
      <4> QED
        BY <2>4, <3>1, <4>1
    <3>2. CASE k # m + 1
      <4>1. k \in 0 .. m /\ (k # 0 => k - 1 \in 0 .. m)
        BY <1>1, <3>2
      <4> QED
        BY <2>2, <2>3, <4>1
    <3> QED
      BY <3>1, <3>2
  <2>7. Unrolls(g, m + 1)
    BY <2>5, <2>6
  <2>8. m + 1 \in 0 .. n
    BY <1>1
  <2> HIDE DEF Unrolls
  <2> QED
    BY <2>7, <2>8
<1>4. \E f : Unrolls(f, n)
  <2> HIDE DEF Unrolls
  <2>1. 0 .. n \subseteq Unrolled
    <3> HIDE DEF Unrolled
    <3> QED
      BY <1>1, <1>2, <1>3, EveryPlace
  <2> QED
    BY <1>1, <2>1
<1> DEFINE after == CHOOSE f : Unrolls(f, n)
<1>5. Unrolls(after, n)
  <2> HIDE DEF Unrolls
  <2> QED
    BY <1>4
<1>6. Printed(s, lines) = after[n]
  BY <1>f
<1> HIDE DEF after
<1>7. \A k \in 0 .. n : after[k] = IF k = 0 THEN s ELSE Next1(after[k - 1], k)
  BY <1>5
<1> DEFINE Right == {k \in 0 .. n :
             /\ IsScreen(after[k]) /\ after[k].cursor = s.cursor + k
             /\ \A j \in Nat : RowAt(after[k], j)
                  = IF j \in s.cursor .. s.cursor + k - 1 THEN <<lines[j - s.cursor + 1]>> ELSE RowAt(s, j)}
<1>c. s.cursor \in Nat
  BY DEF IsScreen
<1>8. 0 \in Right
  BY <1>1, <1>7, <1>c
<1>9. ASSUME NEW k \in 0 .. n - 1, k \in Right PROVE k + 1 \in Right
  <2>1. k + 1 \in 0 .. n /\ k + 1 # 0 /\ (k + 1) - 1 = k /\ k \in Nat /\ lines[k + 1] \in Texts
    BY <1>1 DEF n
  <2> DEFINE u == after[k]
             p == Put(u, lines[k + 1])
             t == NewLine(p)
  <2>2. after[k + 1] = t
    BY <1>7, <1>n, <2>1
  <2>3. /\ IsScreen(u) /\ u.cursor = s.cursor + k
        /\ \A j \in Nat : RowAt(u, j)
             = IF j \in s.cursor .. s.cursor + k - 1 THEN <<lines[j - s.cursor + 1]>> ELSE RowAt(s, j)
    BY <1>9
  <2> HIDE DEF u
  <2>4. /\ IsScreen(p) /\ p.cursor = u.cursor
        /\ \A j \in Nat : RowAt(p, j) = IF j = u.cursor THEN Append(RowAt(u, j), lines[k + 1]) ELSE RowAt(u, j)
    BY <2>1, <2>3, PutIs
  <2> HIDE DEF p
  <2>5. IsScreen(t) /\ t.cursor = p.cursor + 1 /\ \A j \in Nat : RowAt(t, j) = RowAt(p, j)
    BY <2>4, NewLineIs
  <2> HIDE DEF t
  <2>6. RowAt(u, s.cursor + k) = <<>> /\ Append(<<>>, lines[k + 1]) = <<lines[k + 1]>>
    BY <1>c, <2>1, <2>3
  <2>7. ASSUME NEW j \in Nat
        PROVE  RowAt(t, j) = IF j \in s.cursor .. s.cursor + (k + 1) - 1 THEN <<lines[j - s.cursor + 1]>>
                               ELSE RowAt(s, j)
    <3> DEFINE Line == <<lines[j - s.cursor + 1]>>
    <3>0. /\ j \in s.cursor .. s.cursor + (k + 1) - 1 <=> j = s.cursor + k \/ j \in s.cursor .. s.cursor + k - 1
          /\ j = s.cursor + k => j - s.cursor + 1 = k + 1 /\ j \notin s.cursor .. s.cursor + k - 1
      BY ONLY <1>c, <2>1, j \in Nat
    <3>1. CASE j = s.cursor + k
      <4>1. RowAt(t, j) = <<lines[k + 1]>>
        BY <2>3, <2>4, <2>5, <2>6, <3>1
      <4>2. RowAt(t, j) = Line
        BY <3>0, <3>1, <4>1
      <4> HIDE DEF Line
      <4> QED
        BY <3>0, <3>1, <4>2 DEF Line
    <3>2. CASE j # s.cursor + k
      <4> HIDE DEF Line
      <4>1. RowAt(t, j) = RowAt(u, j)
        BY <2>3, <2>4, <2>5, <3>2
      <4>2. RowAt(u, j) = IF j \in s.cursor .. s.cursor + k - 1 THEN Line ELSE RowAt(s, j)
        BY <2>3 DEF Line
      <4> QED
        BY <3>0, <3>2, <4>1, <4>2 DEF Line
    <3> QED
      BY <3>1, <3>2
  <2>8. t.cursor = s.cursor + (k + 1)
    <3>1. t.cursor = (s.cursor + k) + 1 /\ k \in Nat
      BY <2>1, <2>3, <2>4, <2>5
    <3> QED
      BY ONLY <1>c, <3>1
  <2> QED
    BY <2>1, <2>2, <2>5, <2>7, <2>8
<1>10. n \in Right
  <2> HIDE DEF Right
  <2>1. 0 .. n \subseteq Right
    BY <1>1, <1>8, <1>9, EveryPlace
  <2> QED
    BY <1>1, <2>1
<1> QED
  BY <1>6, <1>10 DEF n

\* The rows of a frame go one below the other, from the row of the cursor on, over what was there.
LEMMA RowsDownIs ==
  ASSUME NEW s, IsScreen(s), NEW lines \in Seq(Texts), NEW rows \in Nat \ {0}
  PROVE  /\ IsScreen(RowsDown(s, rows, lines)) /\ RowsDown(s, rows, lines).cursor = s.cursor + rows - 1
         /\ \A j \in Nat : RowAt(RowsDown(s, rows, lines), j)
              = IF j \in s.cursor .. s.cursor + rows - 1
                THEN IF j - s.cursor + 1 <= Len(lines) THEN <<lines[j - s.cursor + 1]>> ELSE <<>>
                ELSE RowAt(s, j)
<1> DEFINE n == rows - 1
           Next1(u, k) == CHOOSE t \in {Row(NewLine(v), lines, k + 1) : v \in {u}} : TRUE
           First == Row(s, lines, 1)
<1>1. n \in Nat
  OBVIOUS
<1>n. \A u, k : Next1(u, k) = Row(NewLine(u), lines, k + 1)
  OBVIOUS
<1>f. RowsDown(s, rows, lines) = LET after[k \in 0 .. n] == IF k = 0 THEN First ELSE Next1(after[k - 1], k) IN after[n]
  BY DEF RowsDown
<1>r. rows = n + 1
  OBVIOUS
<1> HIDE DEF n, Next1, First
<1> DEFINE Unrolls(f, m) == f = [k \in 0 .. m |-> IF k = 0 THEN First ELSE Next1(f[k - 1], k)]
           Unrolled == {m \in 0 .. n : \E f : Unrolls(f, m)}
<1>2. 0 \in Unrolled
  <2>1. Unrolls([k \in 0 .. 0 |-> First], 0)
    OBVIOUS
  <2> HIDE DEF Unrolls
  <2> QED
    BY <1>1, <2>1
<1>3. ASSUME NEW m \in 0 .. n - 1, m \in Unrolled PROVE m + 1 \in Unrolled
  <2>1. PICK f : Unrolls(f, m)
    BY <1>3
  <2> DEFINE g == [k \in 0 .. m + 1 |-> IF k = m + 1 THEN Next1(f[m], (m + 1)) ELSE f[k]]
  <2>2. \A k \in 0 .. m : f[k] = IF k = 0 THEN First ELSE Next1(f[k - 1], k)
    BY <2>1
  <2>3. \A k \in 0 .. m : g[k] = f[k]
    BY <1>1
  <2>4. g[m + 1] = Next1(f[m], (m + 1)) /\ g[m] = f[m]
    BY <1>1
  <2>5. g = [k \in 0 .. m + 1 |-> g[k]]
    OBVIOUS
  <2> HIDE DEF g
  <2>6. \A k \in 0 .. m + 1 : g[k] = IF k = 0 THEN First ELSE Next1(g[k - 1], k)
    <3> SUFFICES ASSUME NEW k \in 0 .. m + 1
                 PROVE  g[k] = IF k = 0 THEN First ELSE Next1(g[k - 1], k)
      OBVIOUS
    <3>1. CASE k = m + 1
      <4>1. k # 0 /\ k - 1 = m
        BY <1>1, <3>1
      <4> QED
        BY <2>4, <3>1, <4>1
    <3>2. CASE k # m + 1
      <4>1. k \in 0 .. m /\ (k # 0 => k - 1 \in 0 .. m)
        BY <1>1, <3>2
      <4> QED
        BY <2>2, <2>3, <4>1
    <3> QED
      BY <3>1, <3>2
  <2>7. Unrolls(g, m + 1)
    BY <2>5, <2>6
  <2>8. m + 1 \in 0 .. n
    BY <1>1
  <2> HIDE DEF Unrolls
  <2> QED
    BY <2>7, <2>8
<1>4. \E f : Unrolls(f, n)
  <2> HIDE DEF Unrolls
  <2>1. 0 .. n \subseteq Unrolled
    <3> HIDE DEF Unrolled
    <3> QED
      BY <1>1, <1>2, <1>3, EveryPlace
  <2> QED
    BY <1>1, <2>1
<1> DEFINE after == CHOOSE f : Unrolls(f, n)
<1>5. Unrolls(after, n)
  <2> HIDE DEF Unrolls
  <2> QED
    BY <1>4
<1>6. RowsDown(s, rows, lines) = after[n]
  BY <1>f
<1> HIDE DEF after
<1>7. \A k \in 0 .. n : after[k] = IF k = 0 THEN First ELSE Next1(after[k - 1], k)
  BY <1>5
<1> DEFINE Line(j) == IF j - s.cursor + 1 <= Len(lines) THEN <<lines[j - s.cursor + 1]>> ELSE <<>>
           Right == {k \in 0 .. n :
             /\ IsScreen(after[k]) /\ after[k].cursor = s.cursor + k
             /\ \A j \in Nat : RowAt(after[k], j)
                  = IF j \in s.cursor .. s.cursor + k THEN Line(j) ELSE RowAt(s, j)}
<1>c. s.cursor \in Nat
  BY DEF IsScreen
<1>8. 0 \in Right
  <2>1. after[0] = First
    BY <1>1, <1>7
  <2>2. /\ IsScreen(First) /\ First.cursor = s.cursor
        /\ \A j \in Nat : RowAt(First, j)
             = IF j = s.cursor THEN IF 1 <= Len(lines) THEN <<lines[1]>> ELSE <<>> ELSE RowAt(s, j)
    BY RowIs DEF First
  <2>3. \A j \in Nat : j \in s.cursor .. s.cursor + 0 <=> j = s.cursor
    BY <1>c
  <2>4. s.cursor - s.cursor + 1 = 1 /\ s.cursor + 0 = s.cursor
    BY <1>c
  <2> QED
    BY <1>1, <2>1, <2>2, <2>3, <2>4
<1>9. ASSUME NEW k \in 0 .. n - 1, k \in Right PROVE k + 1 \in Right
  <2>1. k + 1 \in 0 .. n /\ k + 1 # 0 /\ (k + 1) - 1 = k /\ k \in Nat /\ (k + 1) + 1 \in Nat \ {0}
    BY <1>1
  <2> DEFINE u == after[k]
             p == NewLine(u)
             t == Row(p, lines, (k + 1) + 1)
  <2>2. after[k + 1] = t
    BY <1>7, <1>n, <2>1
  <2>3. /\ IsScreen(u) /\ u.cursor = s.cursor + k
        /\ \A j \in Nat : RowAt(u, j) = IF j \in s.cursor .. s.cursor + k THEN Line(j) ELSE RowAt(s, j)
    BY <1>9
  <2> HIDE DEF u
  <2>4. IsScreen(p) /\ p.cursor = u.cursor + 1 /\ \A j \in Nat : RowAt(p, j) = RowAt(u, j)
    BY <2>3, NewLineIs
  <2> HIDE DEF p
  <2>5. /\ IsScreen(t) /\ t.cursor = p.cursor
        /\ \A j \in Nat : RowAt(t, j)
             = IF j = p.cursor THEN IF (k + 1) + 1 <= Len(lines) THEN <<lines[(k + 1) + 1]>> ELSE <<>> ELSE RowAt(p, j)
    BY <2>1, <2>4, RowIs
  <2> HIDE DEF t
  <2>6. p.cursor = s.cursor + (k + 1) /\ (s.cursor + (k + 1)) - s.cursor + 1 = (k + 1) + 1
    <3>1. p.cursor = (s.cursor + k) + 1 /\ k \in Nat
      BY <2>1, <2>3, <2>4
    <3> QED
      BY ONLY <1>c, <3>1
  <2>7. ASSUME NEW j \in Nat
        PROVE  RowAt(t, j) = IF j \in s.cursor .. s.cursor + (k + 1) THEN Line(j) ELSE RowAt(s, j)
    <3>1. CASE j = s.cursor + (k + 1)
      BY <1>c, <2>1, <2>5, <2>6, <3>1
    <3>2. CASE j # s.cursor + (k + 1)
      <4>1. j \in s.cursor .. s.cursor + (k + 1) <=> j \in s.cursor .. s.cursor + k
        BY <1>c, <2>1, <3>2
      <4> HIDE DEF Line
      <4> QED
        BY <2>3, <2>4, <2>5, <2>6, <3>2, <4>1
    <3> QED
      BY <3>1, <3>2
  <2> HIDE DEF Line
  <2> QED
    BY <2>1, <2>2, <2>5, <2>6, <2>7
<1>10. n \in Right
  <2> HIDE DEF Right
  <2>1. 0 .. n \subseteq Right
    BY <1>1, <1>8, <1>9, EveryPlace
  <2> QED
    BY <1>1, <2>1
<1>11. s.cursor + n = s.cursor + rows - 1
  BY <1>1, <1>c, <1>r
<1> QED
  BY <1>6, <1>10, <1>11

\* Under what was printed, a line to a row, there are d rows with one text each, and nothing below; the
\* cursor is on the last of them, or under the log.
Shows(s, log, d) ==
  /\ IsScreen(s)
  /\ s.cursor = Len(log) + (IF d > 0 THEN d ELSE 1)
  /\ \A j \in Nat \ {0} :
       /\ j <= Len(log) => RowAt(s, j) = <<log[j]>>
       /\ j \in Len(log) + 1 .. Len(log) + d => Len(RowAt(s, j)) = 1
       /\ j > Len(log) + d => RowAt(s, j) = <<>>

LEMMA PrintedShows ==
  ASSUME NEW s, NEW log \in Seq(Texts), Shows(s, log, 0), NEW lines \in Seq(Texts)
  PROVE  Shows(Printed(s, lines), log \o lines, 0)
<1> DEFINE p == Printed(s, lines)
           all == log \o lines
<1>1. IsScreen(s) /\ s.cursor = Len(log) + 1 /\ Len(log) \in Nat /\ Len(lines) \in Nat
  BY DEF Shows
<1>2. \A j \in Nat : j >= s.cursor => RowAt(s, j) = <<>>
  BY <1>1 DEF Shows
<1>3. /\ IsScreen(p) /\ p.cursor = s.cursor + Len(lines)
      /\ \A j \in Nat : RowAt(p, j)
           = IF j \in s.cursor .. s.cursor + Len(lines) - 1 THEN <<lines[j - s.cursor + 1]>> ELSE RowAt(s, j)
  BY <1>1, <1>2, PrintedIs
<1> HIDE DEF p
<1>4. /\ all \in Seq(Texts) /\ Len(all) = Len(log) + Len(lines)
      /\ \A j \in 1 .. Len(log) : all[j] = log[j]
      /\ \A j \in Len(log) + 1 .. Len(log) + Len(lines) : all[j] = lines[j - Len(log)]
  OBVIOUS
<1> HIDE DEF all
<1>5. ASSUME NEW j \in Nat \ {0}
      PROVE  /\ j <= Len(all) => RowAt(p, j) = <<all[j]>>
             /\ j > Len(all) => RowAt(p, j) = <<>>
  <2>1. CASE j <= Len(log)
    <3>1. RowAt(p, j) = RowAt(s, j)
      BY <1>1, <1>3, <2>1
    <3>2. RowAt(s, j) = <<log[j]>>
      BY <2>1 DEF Shows
    <3>3. all[j] = log[j] /\ j <= Len(all) /\ ~(j > Len(all))
      BY <1>1, <1>4, <2>1
    <3> QED
      BY <3>1, <3>2, <3>3, Zenon
  <2>2. CASE j > Len(log) /\ j <= Len(log) + Len(lines)
    <3>1. j \in s.cursor .. s.cursor + Len(lines) - 1 /\ j - s.cursor + 1 = j - Len(log)
      BY <1>1, <2>2
    <3>2. RowAt(p, j) = <<lines[j - Len(log)]>>
      BY <1>3, <3>1
    <3>3. all[j] = lines[j - Len(log)]
      BY <1>1, <1>4, <2>2
    <3>4. j <= Len(all) /\ ~(j > Len(all))
      BY <1>1, <1>4, <2>2
    <3> QED
      BY <3>2, <3>3, <3>4, Zenon
  <2>3. CASE j > Len(log) + Len(lines)
    <3>1. RowAt(p, j) = RowAt(s, j)
      BY <1>1, <1>3, <2>3
    <3> QED
      BY <1>1, <1>2, <1>4, <2>3, <3>1
  <2> QED
    BY <1>1, <2>1, <2>2, <2>3
<1>6. p.cursor = Len(all) + 1
  BY <1>1, <1>3, <1>4
<1> QED
  BY <1>1, <1>3, <1>4, <1>5, <1>6 DEF Shows, p, all

\* The cursor goes up to the first row of the region.
LEMMA TopIs ==
  ASSUME NEW s, NEW log \in Seq(Texts), NEW d \in Nat, Shows(s, log, d)
  PROVE  /\ IsScreen(Top(s, d)) /\ Top(s, d).cursor = Len(log) + 1
         /\ \A j \in Nat : RowAt(Top(s, d), j) = RowAt(s, j)
<1> DEFINE n == IF d > 0 THEN d - 1 ELSE 0
<1>1. IsScreen(s) /\ n \in Nat /\ n < s.cursor /\ s.cursor - n = Len(log) + 1
  BY DEF Shows
<1>2. Top(s, d) = Up(s, n)
  BY DEF Top
<1> HIDE DEF n
<1> QED
  BY <1>1, <1>2, UpIs

LEMMA PaintShows ==
  ASSUME NEW s, NEW log \in Seq(Texts), NEW d \in Nat, Shows(s, log, d),
         NEW frame \in Seq(Texts), frame # <<>>
  PROVE  /\ Shows(Paint(s, d, frame), log, Len(frame))
         /\ \A i \in 1 .. Len(frame) : RowAt(Paint(s, d, frame), Len(log) + i) = <<frame[i]>>
<1> DEFINE rows == IF Len(frame) > d THEN Len(frame) ELSE d
           top == Top(s, d)
           down == RowsDown(top, rows, frame)
           n == Len(frame)
           l == Len(log)
           painted == Paint(s, d, frame)
<1>1. n \in Nat \ {0} /\ l \in Nat /\ rows \in Nat \ {0} /\ n <= rows /\ d <= rows
  OBVIOUS
<1>2. IsScreen(top) /\ top.cursor = l + 1 /\ \A j \in Nat : RowAt(top, j) = RowAt(s, j)
  BY TopIs
<1>3. painted = IF rows > n THEN Put(Erase(Up(down, rows - n)), Last(frame)) ELSE down
  BY DEF Paint
<1>m. \/ rows = n
      \/ rows > n /\ rows = d
  OBVIOUS
<1> HIDE DEF rows, top
<1>4. /\ IsScreen(down) /\ down.cursor = top.cursor + rows - 1
      /\ \A j \in Nat : RowAt(down, j)
           = IF j \in top.cursor .. top.cursor + rows - 1
             THEN IF j - top.cursor + 1 <= n THEN <<frame[j - top.cursor + 1]>> ELSE <<>>
             ELSE RowAt(top, j)
  BY <1>1, <1>2, RowsDownIs
<1> HIDE DEF down, n
<1>5. /\ down.cursor = l + rows
      /\ \A j \in Nat : j <= l => RowAt(down, j) = RowAt(s, j)
      /\ \A j \in Nat : j > l + rows => RowAt(down, j) = RowAt(s, j)
      /\ \A i \in 1 .. n : RowAt(down, l + i) = <<frame[i]>>
      /\ \A j \in l + n + 1 .. l + rows : RowAt(down, j) = <<>>
  <2>1. down.cursor = l + rows
    BY <1>1, <1>2, <1>4
  <2>2. \A j \in Nat : j <= l \/ j > l + rows => j \notin top.cursor .. top.cursor + rows - 1
    BY <1>1, <1>2
  <2>3. \A i \in 1 .. n : /\ l + i \in Nat /\ l + i \in top.cursor .. top.cursor + rows - 1
                          /\ (l + i) - top.cursor + 1 = i
    BY <1>1, <1>2
  <2>4. \A j \in l + n + 1 .. l + rows : /\ j \in Nat /\ j \in top.cursor .. top.cursor + rows - 1
                                         /\ ~(j - top.cursor + 1 <= n)
    BY <1>1, <1>2
  <2>5. \A j \in Nat : j <= l \/ j > l + rows => RowAt(down, j) = RowAt(s, j)
    BY <1>2, <1>4, <2>2
  <2>6. ASSUME NEW i \in 1 .. n PROVE RowAt(down, l + i) = <<frame[i]>>
    <3>1. l + i \in Nat /\ l + i \in top.cursor .. top.cursor + rows - 1 /\ (l + i) - top.cursor + 1 = i /\ i <= n
      BY <1>1, <2>3
    <3> QED
      BY <1>4, <3>1
  <2>7. ASSUME NEW j \in l + n + 1 .. l + rows PROVE RowAt(down, j) = <<>>
    BY <1>4, <2>4
  <2> QED
    BY <2>1, <2>5, <2>6, <2>7
<1>6. /\ IsScreen(painted) /\ painted.cursor = l + n
      /\ \A j \in Nat : RowAt(painted, j) = RowAt(down, j)
  <2>1. CASE rows = n
    BY <1>1, <1>3, <1>4, <1>5, <2>1
  <2>2. CASE rows > n
    <3> DEFINE up == Up(down, rows - n)
               bare == Erase(up)
    <3>1. rows - n \in Nat /\ rows - n < down.cursor /\ down.cursor - (rows - n) = l + n /\ l + n \in Nat
      BY <1>1, <1>5, <2>2
    <3>2. IsScreen(up) /\ up.cursor = l + n /\ \A j \in Nat : RowAt(up, j) = RowAt(down, j)
      BY <1>4, <3>1, UpIs
    <3> HIDE DEF up
    <3>3. /\ IsScreen(bare) /\ bare.cursor = up.cursor
          /\ \A j \in Nat : RowAt(bare, j) = IF j = up.cursor THEN <<>> ELSE RowAt(up, j)
      BY <3>2, EraseIs
    <3> HIDE DEF bare
    <3>4. Last(frame) = frame[n] /\ frame[n] \in Texts /\ Append(<<>>, frame[n]) = <<frame[n]>>
      BY <1>1 DEF Last, n
    <3>5. painted = Put(bare, frame[n])
      BY <1>3, <2>2, <3>4 DEF bare, up
    <3> HIDE DEF painted
    <3>6. /\ IsScreen(painted) /\ painted.cursor = bare.cursor
          /\ \A j \in Nat : RowAt(painted, j)
               = IF j = bare.cursor THEN Append(RowAt(bare, j), frame[n]) ELSE RowAt(bare, j)
      BY <3>3, <3>4, <3>5, PutIs
    <3>7. n \in 1 .. n /\ RowAt(down, l + n) = <<frame[n]>>
      BY <1>1, <1>5
    <3>8. \A j \in Nat : RowAt(painted, j) = RowAt(down, j)
      BY <3>1, <3>2, <3>3, <3>4, <3>6, <3>7
    <3> QED
      BY <3>2, <3>3, <3>6, <3>8
  <2> QED
    BY <1>1, <2>1, <2>2
<1> HIDE DEF painted
<1>7. \A i \in 1 .. n : RowAt(painted, l + i) = <<frame[i]>>
  BY <1>1, <1>5, <1>6
<1>8. ASSUME NEW j \in Nat \ {0}
      PROVE  /\ j <= l => RowAt(painted, j) = <<log[j]>>
             /\ j \in l + 1 .. l + n => Len(RowAt(painted, j)) = 1
             /\ j > l + n => RowAt(painted, j) = <<>>
  <2>1. CASE j <= l
    BY <1>1, <1>5, <1>6, <2>1 DEF Shows, l
  <2>2. CASE j \in l + 1 .. l + n
    <3>1. j - l \in 1 .. n /\ l + (j - l) = j
      BY <1>1, <2>2
    <3>2. RowAt(painted, j) = <<frame[j - l]>>
      BY <1>7, <3>1
    <3> QED
      BY <1>1, <2>2, <3>2
  <2>3. CASE j > l + n
    <3>1. CASE j <= l + rows
      BY <1>1, <1>5, <1>6, <2>3, <3>1
    <3>2. CASE j > l + rows
      BY <1>1, <1>5, <1>6, <2>3, <3>2 DEF Shows, l
    <3> QED
      BY <1>1, <3>1, <3>2
  <2> QED
    BY <1>1, <2>1, <2>2, <2>3
<1> QED
  BY <1>1, <1>6, <1>7, <1>8 DEF Shows, painted, l, n

LEMMA ClearShows ==
  ASSUME NEW s, NEW log \in Seq(Texts), NEW d \in Nat \ {0}, Shows(s, log, d)
  PROVE  Shows(Clear(s, d), log, 0)
<1> DEFINE top == Top(s, d)
           down == RowsDown(top, d, <<>>)
           l == Len(log)
           bare == Clear(s, d)
<1>1. l \in Nat /\ <<>> \in Seq(Texts) /\ Len(<<>>) = 0
  OBVIOUS
<1>2. IsScreen(top) /\ top.cursor = l + 1 /\ \A j \in Nat : RowAt(top, j) = RowAt(s, j)
  BY TopIs
<1>3. bare = Up(down, d - 1)
  BY DEF Clear
<1> HIDE DEF top
<1>4. /\ IsScreen(down) /\ down.cursor = top.cursor + d - 1
      /\ \A j \in Nat : RowAt(down, j)
           = IF j \in top.cursor .. top.cursor + d - 1
             THEN IF j - top.cursor + 1 <= Len(<<>>) THEN <<(<<>>)[j - top.cursor + 1]>> ELSE <<>>
             ELSE RowAt(top, j)
  BY <1>1, <1>2, RowsDownIs
<1> HIDE DEF down
<1>5. d - 1 \in Nat /\ d - 1 < down.cursor /\ down.cursor - (d - 1) = l + 1
  BY <1>1, <1>2, <1>4
<1>6. IsScreen(bare) /\ bare.cursor = l + 1 /\ \A j \in Nat : RowAt(bare, j) = RowAt(down, j)
  BY <1>3, <1>4, <1>5, UpIs
<1> HIDE DEF bare
<1>7. ASSUME NEW j \in Nat \ {0}
      PROVE  (j <= l => RowAt(bare, j) = <<log[j]>>) /\ (j > l => RowAt(bare, j) = <<>>)
  <2>1. CASE j <= l \/ j > l + d
    <3>1. j \notin top.cursor .. top.cursor + d - 1
      BY <1>1, <1>2, <2>1
    <3>2. RowAt(bare, j) = RowAt(s, j)
      BY <1>2, <1>4, <1>6, <3>1
    <3> QED
      BY <1>1, <2>1, <3>2 DEF Shows, l
  <2>2. CASE j > l /\ j <= l + d
    <3>1. j \in top.cursor .. top.cursor + d - 1 /\ ~(j - top.cursor + 1 <= 0)
      BY <1>1, <1>2, <2>2
    <3>2. RowAt(bare, j) = <<>>
      BY <1>1, <1>4, <1>6, <3>1
    <3> QED
      BY <1>1, <2>2, <3>2
  <2> QED
    BY <1>1, <2>1, <2>2
<1> QED
  BY <1>1, <1>6, <1>7 DEF Shows, bare, l

\* The table of what is running: who is in it, and in what order they came.
TableInv ==
  /\ inflight \in [1 .. Slots -> [busy : BOOLEAN, unit : Units \cup {NoSlot}, sequence : Nat]]
  /\ high \in 0 .. Slots /\ next \in Nat /\ done \in Nat
  /\ worker \in [Units -> {Waiting, Ended, NoSlot} \cup 1 .. Slots]
  /\ \A i \in 1 .. Slots : inflight[i].busy => inflight[i].unit \in Units /\ inflight[i].sequence < next
  /\ \A i, j \in 1 .. Slots :
       inflight[i].busy /\ inflight[j].busy /\ inflight[i].sequence = inflight[j].sequence => i = j

\* There is a region only where somebody watches something being compiled, and only between the
\* beginning and the verdict.
RegionInv ==
  /\ progress \in {"planned", "running", "stopping", "finished"}
  /\ planned \in SUBSET Units /\ skipped \in Nat
  /\ drawer \in {"none", "awake", "asleep", "gone"}
  /\ drawer \in {"awake", "asleep"} => progress \in {"running", "stopping"}
  /\ said \in Seq(Texts) /\ drawn \in Nat
  /\ frameUp \in BOOLEAN /\ (frameUp <=> drawn > 0)
  /\ frameUp => interactive /\ planned # {}
  /\ progress \in {"planned", "finished"} => drawn = 0
  /\ Shows(screen, said, drawn)

ReportInv == TableInv /\ TallyIsTrue /\ RegionInv

------------------------------------------------------------------------------
(* What a frame says.                                                       *)

LEMMA BusyIs ==
  ASSUME TableInv, TallyIsTrue
  PROVE  /\ IsFiniteSet(Busy) /\ Cardinality(Busy) \in Nat /\ Busy \subseteq 1 .. Slots
         /\ \A i \in Busy : /\ inflight[i].busy /\ inflight[i].unit \in Units /\ worker[inflight[i].unit] = i
                            /\ inflight[i].sequence \in Nat
         /\ \A i, j \in Busy : inflight[i].sequence = inflight[j].sequence => i = j
<1>1. Busy \in SUBSET (1 .. Slots) /\ high \in Nat /\ Slots \in Nat
  BY ReportBoundsAssumption DEF TableInv, Busy
<1>2. IsFiniteSet(1 .. Slots)
  BY <1>1, FS_Interval
<1>3. IsFiniteSet(Busy) /\ Cardinality(Busy) \in Nat
  BY <1>1, <1>2, FS_Subset, FS_CardinalityType
<1> QED
  BY <1>1, <1>3 DEF TableInv, TallyIsTrue, Busy

\* The older of two has fewer that are older.
LEMMA OlderIs ==
  ASSUME TableInv, TallyIsTrue, NEW i \in Busy, NEW j \in Busy
  PROVE  /\ IsFiniteSet(Older(i)) /\ Cardinality(Older(i)) \in Nat
         /\ Cardinality(Older(i)) < Cardinality(Busy)
         /\ inflight[i].sequence <= inflight[j].sequence => Cardinality(Older(i)) <= Cardinality(Older(j))
         /\ inflight[i].sequence < inflight[j].sequence => Cardinality(Older(i)) < Cardinality(Older(j))
<1>1. IsFiniteSet(Busy) /\ Cardinality(Busy) \in Nat /\ \A k \in Busy : inflight[k].sequence \in Nat
  BY BusyIs
<1>2. Older(i) \in SUBSET Busy /\ Older(j) \in SUBSET Busy
  BY DEF Older
<1>3. /\ IsFiniteSet(Older(i)) /\ Cardinality(Older(i)) \in Nat
      /\ IsFiniteSet(Older(j)) /\ Cardinality(Older(j)) \in Nat
  BY <1>1, <1>2, FS_Subset, FS_CardinalityType
<1>4. i \notin Older(i)
  BY <1>1 DEF Older
<1>5. Cardinality(Older(i)) < Cardinality(Busy)
  <2>1. Cardinality(Older(i)) <= Cardinality(Busy) /\ (Cardinality(Busy) = Cardinality(Older(i)) => Busy = Older(i))
    BY <1>1, <1>2, FS_Subset
  <2>2. Busy # Older(i)
    BY <1>4
  <2> QED
    BY <1>1, <1>3, <2>1, <2>2
<1>6. ASSUME inflight[i].sequence <= inflight[j].sequence PROVE Older(i) \in SUBSET Older(j)
  BY <1>1, <1>6 DEF Older
<1>7. ASSUME inflight[i].sequence <= inflight[j].sequence
      PROVE  /\ Cardinality(Older(i)) <= Cardinality(Older(j))
             /\ Cardinality(Older(j)) = Cardinality(Older(i)) => Older(j) = Older(i)
  BY <1>3, <1>6, <1>7, FS_Subset
<1>8. ASSUME inflight[i].sequence < inflight[j].sequence
      PROVE  Cardinality(Older(i)) < Cardinality(Older(j))
  <2>1. inflight[i].sequence <= inflight[j].sequence
    BY <1>1, <1>8
  <2>2. i \in Older(j)
    BY <1>8 DEF Older
  <2>3. Older(i) # Older(j)
    BY <1>4, <2>2
  <2> QED
    BY <1>3, <1>7, <2>1, <2>3
<1> QED
  BY <1>3, <1>5, <1>7, <1>8

\* There is one that has n older ones, for every n below their number.
LEMMA OldestIs ==
  ASSUME TableInv, TallyIsTrue, NEW want \in Nat, want <= Cardinality(Busy)
  PROVE  /\ DOMAIN Oldest(want) = 1 .. want
         /\ \A k \in 1 .. want : Oldest(want)[k] \in Busy /\ Cardinality(Older(Oldest(want)[k])) = k - 1
<1> DEFINE b == Cardinality(Busy)
           rank == [i \in Busy |-> Cardinality(Older(i)) + 1]
<1>1. IsFiniteSet(Busy) /\ b \in Nat /\ \A i \in Busy : inflight[i].sequence \in Nat
  BY BusyIs
<1>2. rank \in [Busy -> 1 .. b]
  <2> SUFFICES ASSUME NEW i \in Busy PROVE Cardinality(Older(i)) + 1 \in 1 .. b
    OBVIOUS
  <2>1. Cardinality(Older(i)) \in Nat /\ Cardinality(Older(i)) < b
    BY OlderIs
  <2> QED
    BY <1>1, <2>1
<1>3. ASSUME NEW i \in Busy, NEW j \in Busy, rank[i] = rank[j] PROVE i = j
  <2>1. Cardinality(Older(i)) = Cardinality(Older(j))
    <3>1. Cardinality(Older(i)) \in Nat /\ Cardinality(Older(j)) \in Nat
      BY OlderIs
    <3> QED
      BY <1>3, <3>1
  <2>2. ~(inflight[i].sequence < inflight[j].sequence) /\ ~(inflight[j].sequence < inflight[i].sequence)
    <3>1. Cardinality(Older(i)) \in Nat /\ Cardinality(Older(j)) \in Nat
      BY OlderIs
    <3>2. inflight[i].sequence < inflight[j].sequence => Cardinality(Older(i)) < Cardinality(Older(j))
      BY OlderIs
    <3>3. inflight[j].sequence < inflight[i].sequence => Cardinality(Older(j)) < Cardinality(Older(i))
      BY OlderIs
    <3> QED
      BY <2>1, <3>1, <3>2, <3>3
  <2>3. inflight[i].sequence = inflight[j].sequence
    BY <1>1, <2>2
  <2> QED
    BY <2>3, BusyIs
<1>4. rank \in Injection(Busy, 1 .. b)
  <2> HIDE DEF rank, b
  <2> QED
    BY <1>2, <1>3 DEF Injection, IsInjective
<1>5. IsFiniteSet(1 .. b) /\ Cardinality(1 .. b) = b
  BY <1>1, FS_Interval
<1>6. rank \in Surjection(Busy, 1 .. b)
  <2> HIDE DEF rank
  <2> QED
    BY <1>4, <1>5, FS_Injection
<1>7. ASSUME NEW k \in 1 .. want PROVE \E i \in Busy : Cardinality(Older(i)) = k - 1
  <2>1. k \in 1 .. b
    BY <1>1
  <2>2. PICK i \in Busy : rank[i] = k
    <3> HIDE DEF rank, b
    <3> QED
      BY <1>6, <2>1 DEF Surjection
  <2>3. Cardinality(Older(i)) + 1 = k /\ Cardinality(Older(i)) \in Nat
    BY <2>2, OlderIs
  <2> QED
    BY <2>3
<1> QED
  BY <1>7 DEF Oldest

LEMMA TextIs ==
  /\ \A a \in Words : <<a>> \in Texts
  /\ \A a, b \in Words : <<a, b>> \in Texts
  /\ \A a, b, c \in Words : <<a, b, c>> \in Texts
  BY DEF Texts

LEMMA WordIs ==
  /\ \A n \in Nat : n \in Words
  /\ \A u \in Units : u \in Words
  /\ "unit" \in Words /\ "more" \in Words /\ "bar" \in Words /\ "registry" \in Words /\ "module" \in Words
  /\ "project" \in Words /\ "tests" \in Words /\ "line" \in Words /\ "cached" \in Words /\ "" \in Words
  /\ "message" \in Words /\ "Finished" \in Words /\ "error" \in Words
  BY DEF Words

LEMMA LineIs == ASSUME NEW S, NEW x \in S PROVE <<x>> \in Seq(S) /\ Len(<<x>>) = 1 /\ <<x>>[1] = x
  OBVIOUS

\* What a unit needs of its width.
LEMMA HeightIs ==
  ASSUME NEW busy \in Nat, NEW rows \in Nat
  PROVE  ViewportHeight(busy, rows) \in 0 .. busy
<1>1. rows \div 3 \in Nat
  OBVIOUS
<1> QED
  BY <1>1, ReportBoundsAssumption DEF ViewportHeight

LEMMA PlannedIs ==
  ASSUME planned \in SUBSET Units
  PROVE  IsFiniteSet(planned) /\ Cardinality(planned) \in Nat
  BY UnitsAssumption, FS_Subset, FS_CardinalityType

\* The rows of a frame: the oldest that fit, how many did not, and the bar.
Rest(w) == Cardinality(Busy) - w
LEMMA FrameIs ==
  ASSUME TableInv, TallyIsTrue, planned \in SUBSET Units, NEW height \in Nat
  PROVE  LET w == ViewportHeight(Cardinality(Busy), height)
             f == Frame(height)
         IN  /\ Rest(w) \in Nat /\ w \in Nat
             /\ f \in Seq(Texts) /\ f # <<>>
             /\ Len(f) = w + (IF Rest(w) > 0 THEN 2 ELSE 1)
             /\ \A i \in 1 .. w : f[i] = <<"unit", inflight[Oldest(w)[i]].unit>>
             /\ Rest(w) > 0 => f[w + 1] = <<"more", Rest(w)>>
             /\ f[Len(f)] = <<"bar", done, Cardinality(planned)>>
<1> DEFINE b == Cardinality(Busy)
           w == ViewportHeight(b, height)
           names == [i \in 1 .. w |-> <<"unit", inflight[Oldest(w)[i]].unit>>]
           more == IF b > w THEN <<<<"more", b - w>>>> ELSE <<>>
           bar == <<"bar", done, Cardinality(planned)>>
           f == Frame(height)
<1>1. b \in Nat /\ w \in 0 .. b /\ w \in Nat /\ b - w \in Nat
  <2>1. b \in Nat
    BY BusyIs
  <2> HIDE DEF b
  <2>2. w \in 0 .. b
    BY <2>1, HeightIs
  <2> QED
    BY <2>1, <2>2
<1>2. DOMAIN Oldest(w) = 1 .. w /\ \A k \in 1 .. w : Oldest(w)[k] \in Busy
  BY <1>1, OldestIs
<1>3. Len(Oldest(w)) = w
  BY <1>1, <1>2
<1>4. f = names \o more \o <<bar>>
  BY <1>2, <1>3 DEF Frame
<1> HIDE DEF b, w
<1>5. names \in Seq(Texts) /\ Len(names) = w
  <2>1. ASSUME NEW i \in 1 .. w PROVE <<"unit", inflight[Oldest(w)[i]].unit>> \in Texts
    <3>1. inflight[Oldest(w)[i]].unit \in Units
      BY <1>2, BusyIs
    <3>2. inflight[Oldest(w)[i]].unit \in Words /\ "unit" \in Words
      BY <3>1, WordIs
    <3> QED
      BY <3>2, TextIs
  <2> QED
    BY <1>1, <2>1
<1>6. <<"more", b - w>> \in Texts /\ bar \in Texts
  <2>1. done \in Nat /\ Cardinality(planned) \in Nat
    BY PlannedIs DEF TableInv
  <2>2. "more" \in Words /\ "bar" \in Words
    BY WordIs
  <2>3. done \in Words /\ Cardinality(planned) \in Words /\ b - w \in Words
    BY <1>1, <2>1, WordIs
  <2> QED
    BY <2>2, <2>3, TextIs
<1>7. \A i \in 1 .. w : names[i] = <<"unit", inflight[Oldest(w)[i]].unit>>
  OBVIOUS
<1> HIDE DEF names, bar, f
<1>8. CASE b > w
  <2> DEFINE m == <<"more", b - w>>
  <2>1. more = <<m>> /\ m \in Texts
    BY <1>6, <1>8
  <2> HIDE DEF m
  <2>2. f = names \o <<m>> \o <<bar>>
    BY <1>4, <2>1
  <2>3. /\ f \in Seq(Texts) /\ Len(f) = w + 2 /\ f[w + 1] = m /\ f[w + 2] = bar
        /\ \A i \in 1 .. w : f[i] = names[i]
    BY <1>1, <1>5, <1>6, <2>1, <2>2
  <2>4. f # <<>>
    BY <1>1, <2>3
  <2>5. b - w > 0
    BY <1>1, <1>8
  <2> QED
    BY <1>1, <1>7, <2>3, <2>4, <2>5 DEF Rest, f, bar, b, w, m
<1>9. CASE ~(b > w)
  <2>0. names \o <<>> = names
    BY <1>5
  <2>1. f = names \o <<bar>>
    BY <1>4, <1>9, <2>0
  <2>2. /\ f \in Seq(Texts) /\ Len(f) = w + 1 /\ f[w + 1] = bar
        /\ \A i \in 1 .. w : f[i] = names[i]
    <3>1. f \in Seq(Texts) /\ Len(f) = w + 1
      BY <1>1, <1>5, <1>6, <2>1
    <3>2. f[w + 1] = bar
      BY <1>1, <1>5, <1>6, <2>1
    <3>3. ASSUME NEW i \in 1 .. w PROVE f[i] = names[i]
      BY <1>1, <1>5, <1>6, <2>1
    <3> QED
      BY <3>1, <3>2, <3>3
  <2>3. f # <<>>
    BY <1>1, <2>2
  <2>4. ~(b - w > 0)
    BY <1>1, <1>9
  <2> QED
    BY <1>1, <1>7, <2>2, <2>3, <2>4 DEF Rest, f, bar, b, w
<1> QED
  BY <1>8, <1>9

\* The inventory is lines of text.
LEMMA InventoryIs ==
  ASSUME planned \in SUBSET Units, skipped \in Nat
  PROVE  Inventory \in Seq(Texts)
<1>1. ASSUME NEW o \in Words PROVE OfOrigin(o) \in Seq(Texts)
  <2> DEFINE n == Cardinality(Entries(o))
             of == {u \in planned : Label(u).origin = o}
             Entry1(u) == IF Label(u).package = <<>> THEN <<u>> ELSE Label(u).package
  <2>1. IsFiniteSet(of)
    <3>1. of \in SUBSET planned
      OBVIOUS
    <3> QED
      BY <3>1, PlannedIs, FS_Subset
  <2>2. Entries(o) = {Entry1(u) : u \in of}
    BY DEF Entries
  <2>3. IsFiniteSet(Entries(o))
    <3> HIDE DEF of
    <3> DEFINE image == [u \in of |-> Entry1(u)]
    <3>1. image \in Surjection(of, Entries(o))
      BY <2>2 DEF Surjection
    <3> HIDE DEF image
    <3> QED
      BY <2>1, <3>1, FS_Surjection
  <2>4. n \in Nat
    BY <2>3, FS_CardinalityType
  <2> HIDE DEF n
  <2>5. <<<<o, n>>>> \in Seq(Texts)
    <3>1. n \in Words
      BY <2>4, WordIs
    <3>2. <<o, n>> \in Texts
      BY <3>1, TextIs
    <3> QED
      BY <3>2, LineIs
  <2>6. [i \in 1 .. n |-> <<o, "line", i>>] \in Seq(Texts)
    <3>1. ASSUME NEW i \in 1 .. n PROVE <<o, "line", i>> \in Texts
      <4>1. i \in Nat
        BY <2>4
      <4>2. "line" \in Words /\ i \in Words
        BY <4>1, WordIs
      <4> QED
        BY <4>2, TextIs
    <3> QED
      BY <2>4, <3>1
  <2>7. OfOrigin(o) = IF Entries(o) = {} THEN <<>> ELSE IF CountedNotListed(o) THEN <<<<o, n>>>>
                        ELSE [i \in 1 .. n |-> <<o, "line", i>>]
    BY DEF OfOrigin, n
  <2> QED
    BY <2>5, <2>6, <2>7
<1>2. <<<<"cached", skipped>>>> \in Seq(Texts)
  <2>0. "cached" \in Words /\ skipped \in Words
    BY WordIs
  <2>1. <<"cached", skipped>> \in Texts
    BY <2>0, TextIs
  <2> QED
    BY <2>1, LineIs
<1>3. <<<<"">>>> \in Seq(Texts)
  <2>0. "" \in Words
    BY WordIs
  <2>1. <<"">> \in Texts
    BY <2>0, TextIs
  <2> QED
    BY <2>1, LineIs
<1>4. /\ OfOrigin("registry") \in Seq(Texts) /\ OfOrigin("module") \in Seq(Texts)
      /\ OfOrigin("project") \in Seq(Texts) /\ OfOrigin("tests") \in Seq(Texts)
  <2>1. "registry" \in Words /\ "module" \in Words /\ "project" \in Words /\ "tests" \in Words
    BY WordIs
  <2> QED
    BY <1>1, <2>1
<1>e. <<>> \in Seq(Texts)
  OBVIOUS
<1> DEFINE cached == IF skipped > 0 THEN <<<<"cached", skipped>>>> ELSE <<>>
           empty == IF planned # {} \/ skipped > 0 THEN <<<<"">>>> ELSE <<>>
<1>5. cached \in Seq(Texts) /\ empty \in Seq(Texts)
  BY <1>2, <1>3, <1>e
<1>6. Inventory = OfOrigin("registry") \o OfOrigin("module") \o OfOrigin("project") \o OfOrigin("tests") \o cached \o empty
  BY DEF Inventory
<1> HIDE DEF cached, empty
<1> QED
  BY <1>4, <1>5, <1>6

\* What is drawn, and where.
LEMMA DrawShows ==
  ASSUME TableInv, TallyIsTrue, planned \in SUBSET Units,
         NEW s, NEW log \in Seq(Texts), NEW d \in Nat, Shows(s, log, d),
         NEW height \in Heights, Draw(s, d, height), interactive, planned # {}
  PROVE  /\ Shows(screen', log, drawn') /\ frameUp' = TRUE
         /\ drawn' = Len(Frame(height)) /\ drawn' \in Nat /\ drawn' > 0
         /\ \A i \in 1 .. drawn' : RowAt(screen', Len(log) + i) = <<Frame(height)[i]>>
<1>1. height \in Nat
  BY ReportBoundsAssumption
<1>2. Frame(height) \in Seq(Texts) /\ Frame(height) # <<>>
  BY <1>1, FrameIs
<1>3. screen' = Paint(s, d, Frame(height)) /\ drawn' = Len(Frame(height)) /\ frameUp' = TRUE
  BY DEF Draw, Draws
<1> DEFINE f == Frame(height)
<1> HIDE DEF f
<1>4. /\ Shows(Paint(s, d, f), log, Len(f))
      /\ \A i \in 1 .. Len(f) : RowAt(Paint(s, d, f), Len(log) + i) = <<f[i]>>
  BY <1>2, PaintShows DEF f
<1>5. Len(f) \in Nat /\ Len(f) > 0
  BY <1>2 DEF f
<1> QED
  BY <1>3, <1>4, <1>5 DEF f

LEMMA NotDrawn ==
  ASSUME NEW s, NEW d, NEW height, Draw(s, d, height), ~(interactive /\ planned # {})
  PROVE  screen' = s /\ drawn' = d /\ frameUp' = frameUp
  BY DEF Draw, Draws

LEMMA NoRegion ==
  ASSUME NEW up, NEW rows, up = FALSE, rows = 0
  PROVE  up \in BOOLEAN /\ (up <=> rows > 0) /\ ~up /\ rows \in Nat
<1>1. rows \in Nat /\ ~(rows > 0)
  OBVIOUS
<1>2. up \in BOOLEAN /\ ~up
  OBVIOUS
<1> QED
  BY <1>1, <1>2

LEMMA ReportBegins == ReportInit => ReportInv
<1> SUFFICES ASSUME ReportInit PROVE ReportInv
  OBVIOUS
<1>1. TableInv
  BY ReportBoundsAssumption, MarksAssumption DEF ReportInit, TableInv, Free
<1>2. TallyIsTrue
  <2>1. {u \in Units : worker[u] = Ended} = {}
    BY MarksAssumption DEF ReportInit
  <2>2. done = Cardinality({u \in Units : worker[u] = Ended})
    BY <2>1, FS_EmptySet DEF ReportInit
  <2>3. \A u \in Units : worker[u] \notin 1 .. Slots
    BY MarksAssumption, ReportBoundsAssumption DEF ReportInit
  <2>4. \A i \in 1 .. Slots : ~inflight[i].busy
    BY DEF ReportInit, Free
  <2> QED
    BY <2>2, <2>3, <2>4 DEF TallyIsTrue
<1>3. Shows(screen, said, drawn)
  <2>1. screen = [rows |-> <<<<>>>>, cursor |-> 1] /\ said = <<>> /\ drawn = 0
    BY DEF ReportInit
  <2>2. <<<<>>>> \in Seq(Seq(Texts)) /\ Len(<<<<>>>>) = 1 /\ (<<<<>>>>)[1] = <<>>
    OBVIOUS
  <2>3. IsScreen(screen) /\ \A j \in Nat : RowAt(screen, j) = <<>>
    BY <2>1, <2>2 DEF IsScreen, RowAt
  <2> QED
    BY <2>1, <2>3 DEF Shows
<1>4. RegionInv
  <2>1. /\ progress = "planned" /\ planned \in SUBSET Units /\ skipped \in Nat /\ drawer = "none"
        /\ drawn = 0 /\ frameUp = FALSE
    BY DEF ReportInit
  <2>2. said \in Seq(Texts)
    BY DEF ReportInit
  <2>3. frameUp \in BOOLEAN /\ (frameUp <=> drawn > 0) /\ ~frameUp /\ drawn \in Nat
    BY <2>1, NoRegion
  <2> QED
    BY <1>3, <2>1, <2>2, <2>3 DEF RegionInv
<1> QED
  BY <1>1, <1>2, <1>4 DEF ReportInv

------------------------------------------------------------------------------
(* Who runs.                                                                *)

EndedUnits == {u \in Units : worker[u] = Ended}

LEMMA StartedTally ==
  ASSUME TableInv, TallyIsTrue, NEW u \in Units, UnitStarted(u)
  PROVE  TableInv' /\ TallyIsTrue'
<1>1. /\ worker[u] = Waiting /\ done' = done /\ Waiting # Ended /\ NoSlot # Ended
      /\ Waiting \notin 1 .. Slots /\ NoSlot \notin 1 .. Slots /\ Ended \notin 1 .. Slots
  BY MarksAssumption, ReportBoundsAssumption DEF UnitStarted
<1>2. CASE interactive /\ FreeSlots # {}
  <2> DEFINE slot == CHOOSE i \in FreeSlots : \A j \in FreeSlots : i <= j
  <2>1. slot \in FreeSlots
    <3>1. FreeSlots \in SUBSET Nat
      BY ReportBoundsAssumption DEF FreeSlots
    <3>2. Min(FreeSlots) \in FreeSlots /\ \A j \in FreeSlots : Min(FreeSlots) <= j
      BY <1>2, <3>1, LeastIs
    <3> QED
      BY <3>2
  <2>2. /\ inflight' = [inflight EXCEPT ![slot] = [busy |-> TRUE, unit |-> u, sequence |-> next]]
        /\ high' = (IF slot > high THEN slot ELSE high) /\ next' = next + 1
        /\ worker' = [worker EXCEPT ![u] = slot]
    BY <1>2 DEF UnitStarted
  <2> HIDE DEF slot
  <2>3. slot \in 1 .. Slots /\ ~inflight[slot].busy /\ slot \in Nat
    BY <2>1, ReportBoundsAssumption DEF FreeSlots
  <2>4. /\ \A i \in 1 .. Slots : i # slot => inflight'[i] = inflight[i]
        /\ inflight'[slot].busy = TRUE /\ inflight'[slot].unit = u /\ inflight'[slot].sequence = next
        /\ \A v \in Units : v # u => worker'[v] = worker[v]
        /\ worker'[u] = slot
    BY <2>2, <2>3 DEF TableInv
  <2>5. TableInv'
    <3>1. inflight' \in [1 .. Slots -> [busy : BOOLEAN, unit : Units \cup {NoSlot}, sequence : Nat]]
      BY <2>2, <2>3 DEF TableInv
    <3>2. high' \in 0 .. Slots /\ next' \in Nat /\ done' \in Nat
      BY <1>1, <2>2, <2>3, ReportBoundsAssumption DEF TableInv
    <3>3. worker' \in [Units -> {Waiting, Ended, NoSlot} \cup 1 .. Slots]
      BY <2>2, <2>3 DEF TableInv
    <3>4. ASSUME NEW i \in 1 .. Slots, inflight'[i].busy
          PROVE  inflight'[i].unit \in Units /\ inflight'[i].sequence < next'
      <4>1. CASE i = slot
        BY <2>2, <2>4, <4>1 DEF TableInv
      <4>2. CASE i # slot
        <5>1. inflight[i].busy /\ inflight[i].sequence < next /\ inflight[i].sequence \in Nat /\ next \in Nat
          BY <2>4, <3>4, <4>2 DEF TableInv
        <5> QED
          BY <2>2, <2>4, <4>2, <5>1 DEF TableInv
      <4> QED
        BY <4>1, <4>2
    <3>5. ASSUME NEW i \in 1 .. Slots, NEW j \in 1 .. Slots, inflight'[i].busy, inflight'[j].busy,
                 inflight'[i].sequence = inflight'[j].sequence
          PROVE  i = j
      <4>1. \A k \in 1 .. Slots : k # slot /\ inflight'[k].busy => inflight'[k].sequence # next
        <5> SUFFICES ASSUME NEW k \in 1 .. Slots, k # slot, inflight'[k].busy PROVE inflight'[k].sequence # next
          OBVIOUS
        <5>1. inflight[k].busy /\ inflight'[k].sequence = inflight[k].sequence
          BY <2>4
        <5>2. inflight[k].sequence < next /\ inflight[k].sequence \in Nat /\ next \in Nat
          BY <5>1 DEF TableInv
        <5> QED
          BY <5>1, <5>2
      <4>2. CASE i = slot \/ j = slot
        BY <2>4, <3>5, <4>1, <4>2
      <4>3. CASE i # slot /\ j # slot
        BY <2>4, <3>5, <4>3 DEF TableInv
      <4> QED
        BY <4>2, <4>3
    <3> QED
      BY <3>1, <3>2, <3>3, <3>4, <3>5 DEF TableInv
  <2>6. TallyIsTrue'
    <3>1. {v \in Units : worker'[v] = Ended} = EndedUnits
      BY <1>1, <2>3, <2>4 DEF EndedUnits
    <3>2. done' = Cardinality({v \in Units : worker'[v] = Ended})
      BY <1>1, <3>1 DEF TallyIsTrue, EndedUnits
    <3>3. ASSUME NEW i \in 1 .. Slots, inflight'[i].busy PROVE worker'[inflight'[i].unit] = i /\ i <= high'
      <4>1. CASE i = slot
        BY <2>2, <2>3, <2>4, <4>1 DEF TableInv
      <4>2. CASE i # slot
        <5>1. inflight[i].busy /\ inflight'[i].unit = inflight[i].unit /\ inflight[i].unit \in Units
              /\ worker[inflight[i].unit] = i /\ i <= high
          BY <2>4, <3>3, <4>2 DEF TableInv, TallyIsTrue
        <5>2. inflight[i].unit # u
          BY <1>1, <5>1
        <5>3. i <= high'
          BY <2>2, <2>3, <5>1 DEF TableInv
        <5> QED
          BY <2>4, <5>1, <5>2, <5>3
      <4> QED
        BY <4>1, <4>2
    <3>4. ASSUME NEW v \in Units, worker'[v] \in 1 .. Slots
          PROVE  inflight'[worker'[v]].busy /\ inflight'[worker'[v]].unit = v
      <4>1. CASE v = u
        BY <2>4, <4>1
      <4>2. CASE v # u
        <5>1. worker'[v] = worker[v] /\ inflight[worker[v]].busy /\ inflight[worker[v]].unit = v
          BY <2>4, <3>4, <4>2 DEF TallyIsTrue
        <5>2. worker[v] # slot
          BY <2>3, <5>1
        <5> QED
          BY <2>4, <3>4, <5>1, <5>2
      <4> QED
        BY <4>1, <4>2
    <3> QED
      BY <3>2, <3>3, <3>4 DEF TallyIsTrue
  <2> QED
    BY <2>5, <2>6
<1>3. CASE ~(interactive /\ FreeSlots # {})
  <2>1. worker' = [worker EXCEPT ![u] = NoSlot] /\ UNCHANGED <<inflight, high, next>>
    BY <1>3 DEF UnitStarted
  <2>2. worker'[u] = NoSlot /\ \A v \in Units : v # u => worker'[v] = worker[v]
    BY <2>1 DEF TableInv
  <2>3. TableInv'
    BY <1>1, <2>1 DEF TableInv
  <2>4. {v \in Units : worker'[v] = Ended} = EndedUnits
    BY <1>1, <2>2 DEF EndedUnits
  <2>5. done' = Cardinality({v \in Units : worker'[v] = Ended})
    BY <1>1, <2>4 DEF TallyIsTrue, EndedUnits
  <2>6. ASSUME NEW i \in 1 .. Slots, inflight'[i].busy PROVE worker'[inflight'[i].unit] = i /\ i <= high'
    <3>1. inflight[i].unit \in Units /\ worker[inflight[i].unit] = i /\ i <= high
      BY <2>1, <2>6 DEF TableInv, TallyIsTrue
    <3>2. inflight[i].unit # u
      BY <1>1, <3>1
    <3> QED
      BY <2>1, <2>2, <3>1, <3>2
  <2>7. ASSUME NEW v \in Units, worker'[v] \in 1 .. Slots
        PROVE  inflight'[worker'[v]].busy /\ inflight'[worker'[v]].unit = v
    <3>1. v # u
      BY <1>1, <2>2, <2>7
    <3> QED
      BY <2>1, <2>2, <2>7, <3>1 DEF TallyIsTrue
  <2> QED
    BY <2>3, <2>5, <2>6, <2>7 DEF TallyIsTrue
<1> QED
  BY <1>2, <1>3

LEMMA DoneTally ==
  ASSUME TableInv, TallyIsTrue, NEW u \in Units, UnitDone(u)
  PROVE  TableInv' /\ TallyIsTrue'
<1>1. /\ worker[u] \notin {Waiting, Ended} /\ done' = done + 1 /\ done \in Nat
      /\ worker' = [worker EXCEPT ![u] = Ended] /\ UNCHANGED <<high, next>>
      /\ NoSlot \notin 1 .. Slots /\ Ended \notin 1 .. Slots
  BY MarksAssumption, ReportBoundsAssumption DEF UnitDone, Counted, TableInv
<1>2. worker'[u] = Ended /\ \A v \in Units : v # u => worker'[v] = worker[v]
  BY <1>1 DEF TableInv
<1>3. /\ \A i \in 1 .. Slots : /\ inflight'[i].unit = inflight[i].unit
                               /\ inflight'[i].sequence = inflight[i].sequence
                               /\ inflight'[i].busy <=> inflight[i].busy /\ i # worker[u]
      /\ inflight' \in [1 .. Slots -> [busy : BOOLEAN, unit : Units \cup {NoSlot}, sequence : Nat]]
  <2>1. CASE worker[u] = NoSlot
    BY <1>1, <2>1 DEF UnitDone, TableInv
  <2>2. CASE worker[u] # NoSlot
    <3>1. worker[u] \in 1 .. Slots /\ inflight' = [inflight EXCEPT ![worker[u]].busy = FALSE]
      BY <1>1, <2>2 DEF UnitDone, TableInv
    <3> DEFINE w == worker[u]
    <3>2. inflight' = [inflight EXCEPT ![w] = [inflight[w] EXCEPT !.busy = FALSE]]
      BY <3>1 DEF TableInv
    <3> HIDE DEF w
    <3>3. inflight \in [1 .. Slots -> [busy : BOOLEAN, unit : Units \cup {NoSlot}, sequence : Nat]] /\ w \in 1 .. Slots
      BY <3>1 DEF TableInv, w
    <3>4. /\ \A i \in 1 .. Slots : i # w => inflight'[i] = inflight[i]
          /\ inflight'[w] = [inflight[w] EXCEPT !.busy = FALSE]
          /\ DOMAIN inflight' = 1 .. Slots
          /\ inflight' = [i \in 1 .. Slots |-> inflight'[i]]
      BY <3>2, <3>3
    <3>5. inflight[w] \in [busy : BOOLEAN, unit : Units \cup {NoSlot}, sequence : Nat]
      BY <3>3
    <3>6. /\ inflight'[w] \in [busy : BOOLEAN, unit : Units \cup {NoSlot}, sequence : Nat]
          /\ inflight'[w].unit = inflight[w].unit /\ inflight'[w].sequence = inflight[w].sequence
          /\ ~inflight'[w].busy
      BY <3>4, <3>5
    <3>7. \A i \in 1 .. Slots : inflight'[i] \in [busy : BOOLEAN, unit : Units \cup {NoSlot}, sequence : Nat]
      BY <3>3, <3>4, <3>6
    <3>8. inflight' \in [1 .. Slots -> [busy : BOOLEAN, unit : Units \cup {NoSlot}, sequence : Nat]]
      BY <3>4, <3>7
    <3> QED
      BY <3>4, <3>6, <3>8 DEF w
  <2> QED
    BY <2>1, <2>2
<1>4. TableInv'
  <2>1. done' \in Nat /\ high' \in 0 .. Slots /\ next' \in Nat
    BY <1>1 DEF TableInv
  <2>2. worker' \in [Units -> {Waiting, Ended, NoSlot} \cup 1 .. Slots]
    BY <1>1 DEF TableInv
  <2>3. \A i \in 1 .. Slots : inflight'[i].busy => inflight'[i].unit \in Units /\ inflight'[i].sequence < next'
    BY <1>1, <1>3 DEF TableInv
  <2>4. \A i, j \in 1 .. Slots :
          inflight'[i].busy /\ inflight'[j].busy /\ inflight'[i].sequence = inflight'[j].sequence => i = j
    BY <1>3 DEF TableInv
  <2> QED
    BY <1>3, <2>1, <2>2, <2>3, <2>4 DEF TableInv
<1>5. TallyIsTrue'
  <2>1. {v \in Units : worker'[v] = Ended} = EndedUnits \cup {u}
    BY <1>2 DEF EndedUnits
  <2>2. IsFiniteSet(EndedUnits) /\ u \notin EndedUnits
    BY <1>1, UnitsAssumption, FS_Subset DEF EndedUnits
  <2>3. Cardinality(EndedUnits \cup {u}) = Cardinality(EndedUnits) + 1
    BY <2>2, FS_AddElement
  <2>4. done' = Cardinality({v \in Units : worker'[v] = Ended})
    BY <1>1, <2>1, <2>3 DEF TallyIsTrue, EndedUnits
  <2>5. ASSUME NEW i \in 1 .. Slots, inflight'[i].busy PROVE worker'[inflight'[i].unit] = i /\ i <= high'
    <3>1. inflight[i].busy /\ i # worker[u] /\ inflight'[i].unit = inflight[i].unit
      BY <1>3, <2>5
    <3>2. inflight[i].unit \in Units /\ worker[inflight[i].unit] = i /\ i <= high
      BY <3>1 DEF TableInv, TallyIsTrue
    <3> QED
      BY <1>1, <1>2, <3>1, <3>2
  <2>6. ASSUME NEW v \in Units, worker'[v] \in 1 .. Slots
        PROVE  inflight'[worker'[v]].busy /\ inflight'[worker'[v]].unit = v
    <3>1. v # u /\ worker'[v] = worker[v]
      BY <1>1, <1>2, <2>6
    <3>2. inflight[worker[v]].busy /\ inflight[worker[v]].unit = v /\ worker[v] \in 1 .. Slots
      BY <2>6, <3>1 DEF TallyIsTrue
    <3>3. worker[v] # worker[u]
      <4>1. worker[u] \in 1 .. Slots => inflight[worker[u]].unit = u
        BY DEF TallyIsTrue
      <4> QED
        BY <3>1, <3>2, <4>1
    <3> QED
      BY <1>3, <3>1, <3>2, <3>3
  <2> QED
    BY <2>4, <2>5, <2>6 DEF TallyIsTrue
<1> QED
  BY <1>4, <1>5

LEMMA SameTally ==
  ASSUME TableInv, TallyIsTrue, UNCHANGED tally PROVE TableInv' /\ TallyIsTrue'
<1>1. UNCHANGED <<inflight, high, next, done, worker>>
  BY DEF tally
<1> QED
  BY <1>1 DEF TableInv, TallyIsTrue

------------------------------------------------------------------------------
(* What is on the screen.                                                   *)

\* The region gone, the log is what is left.
LEMMA ErasedShows ==
  ASSUME RegionInv
  PROVE  Shows(Erased, said, 0)
<1>1. said \in Seq(Texts) /\ drawn \in Nat /\ Shows(screen, said, drawn) /\ (frameUp <=> drawn > 0)
  BY DEF RegionInv
<1>2. CASE frameUp
  <2>1. Shows(Clear(screen, drawn), said, 0)
    BY <1>1, <1>2, ClearShows
  <2> QED
    BY <1>1, <1>2, <2>1 DEF Erased
<1>3. CASE ~frameUp
  BY <1>1, <1>3 DEF Erased
<1> QED
  BY <1>2, <1>3

LEMMA BeginShows ==
  ASSUME ReportInv, Begin
  PROVE  RegionInv'
<1>1. /\ progress = "planned" /\ progress' = "running" /\ said' = said \o Inventory
      /\ UNCHANGED <<planned, skipped, interactive>>
  BY DEF Begin
<1>2. /\ planned \in SUBSET Units /\ skipped \in Nat /\ said \in Seq(Texts) /\ drawn = 0 /\ frameUp = FALSE
      /\ Shows(screen, said, 0) /\ drawer \in {"none", "gone"} /\ TableInv /\ TallyIsTrue
  BY <1>1 DEF ReportInv, RegionInv
<1>3. Inventory \in Seq(Texts) /\ said' \in Seq(Texts)
  BY <1>1, <1>2, InventoryIs
<1>4. Shows(Printed(screen, Inventory), said', 0)
  BY <1>1, <1>2, <1>3, PrintedShows
<1>5. CASE interactive /\ planned # {}
  <2>1. PICK height \in Heights : Draw(Printed(screen, Inventory), 0, height)
    BY <1>5 DEF Begin
  <2>2. Shows(screen', said', drawn') /\ frameUp' = TRUE /\ drawn' \in Nat /\ drawn' > 0
    BY <1>2, <1>3, <1>4, <1>5, <2>1, DrawShows
  <2>3. drawer' \in {"awake", "none"}
    BY <1>5 DEF Begin
  <2> QED
    BY <1>1, <1>2, <1>3, <1>5, <2>2, <2>3 DEF RegionInv
<1>6. CASE ~(interactive /\ planned # {})
  <2>1. screen' = Printed(screen, Inventory) /\ UNCHANGED <<drawn, frameUp, drawer>>
    BY <1>6 DEF Begin
  <2>2. Shows(screen', said', drawn')
    BY <1>2, <1>4, <2>1
  <2>3. frameUp' \in BOOLEAN /\ (frameUp' <=> drawn' > 0) /\ ~frameUp' /\ drawn' = 0
    BY <1>2, <2>1, NoRegion
  <2>4. drawer' \in {"none", "gone"}
    BY <1>2, <2>1
  <2> QED
    BY <1>1, <1>2, <1>3, <2>2, <2>3, <2>4 DEF RegionInv
<1> QED
  BY <1>5, <1>6

\* A message goes under the log, and the region out of its way first.
LEMMA MessageLog ==
  ASSUME ReportInv, NEW n \in 1 .. MaxMessages, Message(n)
  PROVE  said' \in Seq(Texts) /\ Shows(Printed(Erased, <<<<"message", n>>>>), said', 0)
<1> DEFINE line == <<"message", n>>
<1>1. said' = Append(said, line) /\ RegionInv
  BY DEF Message, ReportInv
<1>2. line \in Texts /\ <<line>> \in Seq(Texts)
  <2>1. n \in Nat
    BY ReportBoundsAssumption
  <2> QED
    BY <2>1, TextIs, WordIs, LineIs
<1> HIDE DEF line
<1>3. said \in Seq(Texts) /\ said' \in Seq(Texts) /\ said' = said \o <<line>>
  <2>1. said \in Seq(Texts)
    BY <1>1 DEF RegionInv
  <2> QED
    BY <1>1, <1>2, <2>1
<1>4. Shows(Printed(Erased, <<line>>), said', 0)
  BY <1>1, <1>2, <1>3, ErasedShows, PrintedShows
<1> QED
  BY <1>3, <1>4 DEF line

LEMMA MessageShows ==
  ASSUME ReportInv, NEW n \in 1 .. MaxMessages, Message(n)
  PROVE  RegionInv'
<1> DEFINE line == <<"message", n>>
<1>1. /\ UNCHANGED <<progress, planned, skipped, interactive, drawer>>
      /\ RegionInv /\ TableInv /\ TallyIsTrue
  BY DEF Message, ReportInv
<1>2. said' \in Seq(Texts) /\ Shows(Printed(Erased, <<line>>), said', 0)
  BY MessageLog
<1>3. CASE frameUp
  <2>1. PICK height \in Heights : Draw(Printed(Erased, <<line>>), 0, height)
    BY <1>3 DEF Message
  <2>2. interactive /\ planned # {} /\ planned \in SUBSET Units /\ progress \notin {"planned", "finished"}
    BY <1>1, <1>3 DEF RegionInv
  <2>3. Shows(screen', said', drawn') /\ frameUp' = TRUE /\ drawn' \in Nat /\ drawn' > 0
    BY <1>1, <1>2, <2>1, <2>2, DrawShows
  <2> QED
    BY <1>1, <1>2, <2>2, <2>3 DEF RegionInv
<1>4. CASE ~frameUp
  <2>1. screen' = Printed(screen, <<line>>) /\ UNCHANGED <<drawn, frameUp>>
    BY <1>4 DEF Message
  <2>2. drawn = 0 /\ Erased = screen
    BY <1>1, <1>4 DEF RegionInv, Erased
  <2>3. Shows(screen', said', drawn')
    BY <1>2, <2>1, <2>2
  <2> QED
    BY <1>1, <1>2, <2>1, <2>2, <2>3 DEF RegionInv
<1> QED
  BY <1>3, <1>4

LEMMA RedrawShows ==
  ASSUME ReportInv, Redraw
  PROVE  RegionInv'
<1>1. /\ drawer = "awake" /\ drawer' = "asleep" /\ UNCHANGED <<progress, planned, skipped, interactive, said>>
      /\ RegionInv /\ TableInv /\ TallyIsTrue
  BY DEF Redraw, ReportInv
<1>2. progress \in {"running", "stopping"} /\ planned \in SUBSET Units /\ said \in Seq(Texts)
      /\ drawn \in Nat /\ Shows(screen, said, drawn)
  BY <1>1 DEF RegionInv
<1>3. PICK height \in Heights : Draw(screen, drawn, height)
  BY DEF Redraw
<1>4. CASE interactive /\ planned # {}
  <2>1. Shows(screen', said, drawn') /\ frameUp' = TRUE /\ drawn' \in Nat /\ drawn' > 0
    BY <1>1, <1>2, <1>3, <1>4, DrawShows
  <2> QED
    BY <1>1, <1>2, <1>4, <2>1 DEF RegionInv
<1>5. CASE ~(interactive /\ planned # {})
  <2>1. screen' = screen /\ drawn' = drawn /\ frameUp' = frameUp
    BY <1>3, <1>5, NotDrawn
  <2> QED
    BY <1>1, <1>2, <2>1 DEF RegionInv
<1> QED
  BY <1>4, <1>5

LEMMA ConcludeShows ==
  ASSUME ReportInv, NEW verdict \in Verdicts, Conclude(verdict)
  PROVE  RegionInv'
<1>1. /\ Joined /\ progress' = "finished" /\ screen' = Printed(Erased, verdict) /\ said' = said \o verdict
      /\ drawn' = (IF frameUp THEN 0 ELSE drawn) /\ frameUp' = FALSE
      /\ UNCHANGED <<planned, skipped, interactive, drawer>> /\ RegionInv
  BY DEF Conclude, ReportInv
<1>2. verdict \in Seq(Texts)
  <2>1. <<"Finished">> \in Texts /\ <<"error">> \in Texts
    BY TextIs, WordIs
  <2>2. <<>> \in Seq(Texts) /\ <<<<"Finished">>>> \in Seq(Texts) /\ <<<<"error">>>> \in Seq(Texts)
    BY <2>1, LineIs
  <2> QED
    BY <2>2 DEF Verdicts
<1>3. said \in Seq(Texts) /\ said' \in Seq(Texts) /\ drawn' = 0
  BY <1>1, <1>2 DEF RegionInv
<1>4. Shows(screen', said', 0)
  BY <1>1, <1>2, <1>3, ErasedShows, PrintedShows
<1>5. planned \in SUBSET Units /\ skipped \in Nat /\ drawer \in {"none", "gone"}
  BY <1>1 DEF RegionInv, Joined
<1>6. frameUp' \in BOOLEAN /\ (frameUp' <=> drawn' > 0) /\ ~frameUp' /\ drawn' \in Nat
  BY <1>1, <1>3, NoRegion
<1> QED
  BY <1>1, <1>3, <1>4, <1>5, <1>6 DEF RegionInv

\* A step that writes nothing leaves the region as it is.
LEMMA RegionStays ==
  ASSUME ReportInv, UNCHANGED <<planned, skipped, interactive, region, said>>,
         progress' \in {"planned", "running", "stopping"}, drawer' \in {"none", "awake", "asleep", "gone"},
         progress' = "planned" => progress = "planned",
         drawer' \in {"awake", "asleep"} => progress' \in {"running", "stopping"}
  PROVE  RegionInv'
BY DEF ReportInv, RegionInv, region

LEMMA ReportSteps == ReportInv /\ [ReportNext]_reportVars => ReportInv'
<1> SUFFICES ASSUME ReportInv, [ReportNext]_reportVars PROVE ReportInv'
  OBVIOUS
<1>1. /\ TableInv /\ TallyIsTrue /\ RegionInv
      /\ progress \in {"planned", "running", "stopping", "finished"}
      /\ drawer \in {"none", "awake", "asleep", "gone"}
      /\ drawer \in {"awake", "asleep"} => progress \in {"running", "stopping"}
  BY DEF ReportInv, RegionInv
<1>2. CASE Begin
  <2>1. UNCHANGED tally
    BY <1>2 DEF Begin
  <2> QED
    BY <1>1, <1>2, <2>1, SameTally, BeginShows DEF ReportInv
<1>3. ASSUME NEW n \in 1 .. MaxMessages, Message(n) PROVE ReportInv'
  <2>1. UNCHANGED tally
    BY <1>3 DEF Message
  <2> QED
    BY <1>1, <1>3, <2>1, SameTally, MessageShows DEF ReportInv
<1>4. CASE Redraw
  <2>1. UNCHANGED tally
    BY <1>4 DEF Redraw
  <2> QED
    BY <1>1, <1>4, <2>1, SameTally, RedrawShows DEF ReportInv
<1>5. ASSUME NEW verdict \in Verdicts, Conclude(verdict) PROVE ReportInv'
  <2>1. UNCHANGED tally
    BY <1>5 DEF Conclude
  <2> QED
    BY <1>1, <1>5, <2>1, SameTally, ConcludeShows DEF ReportInv
<1>6. CASE Look
  <2>1. UNCHANGED tally
    BY <1>6 DEF Look
  <2>2. RegionInv'
    <3>1. progress' = progress /\ drawer = "asleep" /\ drawer' \in {"awake", "gone"}
          /\ UNCHANGED <<planned, skipped, interactive, region, said>>
      BY <1>6 DEF Look
    <3>2. progress \in {"running", "stopping"}
      BY <1>1, <3>1
    <3> QED
      BY <3>1, <3>2, RegionStays
  <2> QED
    BY <1>1, <2>1, <2>2, SameTally DEF ReportInv
<1>7. CASE Stop
  <2>1. UNCHANGED tally
    BY <1>7 DEF Stop
  <2>2. RegionInv'
    <3>1. progress' = "stopping" /\ drawer' = drawer
          /\ UNCHANGED <<planned, skipped, interactive, region, said>>
      BY <1>7 DEF Stop
    <3> QED
      BY <1>1, <3>1, RegionStays
  <2> QED
    BY <1>1, <2>1, <2>2, SameTally DEF ReportInv
<1>8. ASSUME NEW u \in Units, UnitStarted(u) PROVE ReportInv'
  <2>1. TableInv' /\ TallyIsTrue'
    BY <1>1, <1>8, StartedTally
  <2>2. RegionInv'
    <3>1. progress = "running" /\ progress' = progress /\ drawer' = drawer
          /\ UNCHANGED <<planned, skipped, interactive, region, said>>
      BY <1>8 DEF UnitStarted
    <3> QED
      BY <1>1, <3>1, RegionStays
  <2> QED
    BY <2>1, <2>2 DEF ReportInv
<1>9. ASSUME NEW u \in Units, UnitDone(u) PROVE ReportInv'
  <2>1. TableInv' /\ TallyIsTrue'
    BY <1>1, <1>9, DoneTally
  <2>2. RegionInv'
    BY <1>1, <1>9 DEF UnitDone, RegionInv, region
  <2> QED
    BY <2>1, <2>2 DEF ReportInv
<1>10. CASE UNCHANGED reportVars
  <2>1. UNCHANGED tally /\ UNCHANGED <<progress, planned, skipped, interactive, drawer, region, said>>
    BY <1>10 DEF reportVars
  <2>2. RegionInv'
    BY <1>1, <2>1 DEF RegionInv, region
  <2> QED
    BY <1>1, <2>1, <2>2, SameTally DEF ReportInv
<1> QED
  BY <1>2, <1>3, <1>4, <1>5, <1>6, <1>7, <1>8, <1>9, <1>10 DEF ReportNext

LEMMA ReportShows == ReportInv => ReportIsTrue
<1> SUFFICES ASSUME ReportInv PROVE ReportIsTrue
  OBVIOUS
<1>1. /\ TallyIsTrue /\ said \in Seq(Texts) /\ drawn \in Nat /\ Shows(screen, said, drawn)
      /\ progress = "finished" => drawn = 0
  BY DEF ReportInv, RegionInv
<1>2. /\ Len(said) \in Nat /\ screen.rows \in Seq(Seq(Texts)) /\ screen.cursor \in 1 .. Len(screen.rows)
      /\ screen.cursor = Len(said) + (IF drawn > 0 THEN drawn ELSE 1)
      /\ DOMAIN screen.rows = 1 .. Len(screen.rows) /\ Len(screen.rows) \in Nat
  BY <1>1 DEF Shows, IsScreen
<1>3. \A i \in DOMAIN screen.rows : i \in Nat \ {0} /\ RowAt(screen, i) = screen.rows[i]
  BY <1>2 DEF RowAt
<1>4. Len(screen.rows) >= Len(said) + drawn
  BY <1>1, <1>2
<1>5. ASSUME NEW i \in DOMAIN screen.rows
      PROVE  /\ i <= Len(said) => screen.rows[i] = <<said[i]>>
             /\ i \in (Len(said) + 1) .. (Len(said) + drawn) => Len(screen.rows[i]) = 1
             /\ i > Len(said) + drawn => screen.rows[i] = <<>>
  BY <1>1, <1>3 DEF Shows
<1>6. ScreenIsLog
  BY <1>1, <1>2, <1>4, <1>5 DEF ScreenIsLog
<1> QED
  BY <1>1, <1>6 DEF ReportIsTrue

\* Whatever the terminal, the workers and the drawer do, and in whatever order, the screen shows what was
\* printed, a line to a row, under it the region and nothing else, and the table and the counter are those of
\* the units (build_report_begin to build_report_finish, viewport_paint, viewport_clear).
THEOREM ReportTrue == ReportSpec => []ReportIsTrue
<1>1. ReportSpec => []ReportInv
  BY ReportBegins, ReportSteps, PTL DEF ReportSpec
<1> QED
  BY <1>1, ReportShows, PTL

------------------------------------------------------------------------------
(* What a frame names.                                                      *)

InTable == {u \in Units : worker[u] \in 1 .. Slots}

\* There are as many in the table as there are with a slot.
LEMMA RunningInTable ==
  ASSUME TableInv, TallyIsTrue
  PROVE  Cardinality(InTable) = Cardinality(Busy)
<1> DEFINE of == [u \in InTable |-> worker[u]]
<1>1. Busy \subseteq 1 .. Slots /\ \A i \in Busy : inflight[i].unit \in Units /\ worker[inflight[i].unit] = i
  BY BusyIs
<1>2. IsFiniteSet(InTable)
  BY UnitsAssumption, FS_Subset DEF InTable
<1>3. \A u \in InTable : worker[u] \in Busy /\ inflight[worker[u]].unit = u
  <2> SUFFICES ASSUME NEW u \in InTable PROVE worker[u] \in Busy /\ inflight[worker[u]].unit = u
    OBVIOUS
  <2>1. worker[u] \in 1 .. Slots /\ inflight[worker[u]].busy /\ inflight[worker[u]].unit = u
    BY DEF InTable, TallyIsTrue
  <2>2. worker[u] <= high /\ high \in Nat /\ worker[u] \in Nat /\ worker[u] >= 1
    BY <2>1, ReportBoundsAssumption DEF TallyIsTrue, TableInv
  <2> QED
    BY <2>1, <2>2 DEF Busy
<1>4. of \in Injection(InTable, Busy)
  BY <1>3 DEF Injection, IsInjective
<1>5. of \in Surjection(InTable, Busy)
  <2>1. \A i \in Busy : inflight[i].unit \in InTable /\ of[inflight[i].unit] = i
    BY <1>1 DEF InTable
  <2> QED
    BY <1>3, <2>1 DEF Surjection
<1> HIDE DEF of
<1> QED
  BY <1>2, <1>4, <1>5, FS_Surjection

\* Rows that name units that run, the oldest first, how many more there are, and the bar.
SaysWhatRuns(n, row) ==
  LET named == {i \in 1 .. n : row[i][1] = "unit"}
      rest == Cardinality(InTable) - Cardinality(named)
  IN  /\ row[n] = <<"bar", done, Cardinality(planned)>>
      /\ \A i \in named : row[i][2] \in InTable
      /\ \A i, j \in named :
           i < j => inflight[worker[row[i][2]]].sequence < inflight[worker[row[j][2]]].sequence
      /\ n = Cardinality(named) + (IF rest > 0 THEN 2 ELSE 1)
      /\ rest > 0 => row[n - 1] = <<"more", rest>>

LEMMA FrameMeans ==
  ASSUME TableInv, TallyIsTrue, planned \in SUBSET Units, NEW height \in Nat,
         NEW n, n = Len(Frame(height)), NEW row, \A i \in 1 .. n : row[i] = Frame(height)[i]
  PROVE  SaysWhatRuns(n, row)
<1> DEFINE named == {i \in 1 .. n : row[i][1] = "unit"}
           rest == Cardinality(InTable) - Cardinality(named)
           w == ViewportHeight(Cardinality(Busy), height)
           f == Frame(height)
<1>1. /\ Rest(w) \in Nat /\ w \in Nat
      /\ Len(f) = w + (IF Rest(w) > 0 THEN 2 ELSE 1)
      /\ \A i \in 1 .. w : f[i] = <<"unit", inflight[Oldest(w)[i]].unit>>
      /\ Rest(w) > 0 => f[w + 1] = <<"more", Rest(w)>>
      /\ f[Len(f)] = <<"bar", done, Cardinality(planned)>>
  BY FrameIs
<1>2. w <= Cardinality(Busy) /\ Cardinality(Busy) \in Nat
  BY BusyIs, HeightIs
<1>3. \A k \in 1 .. w : Oldest(w)[k] \in Busy /\ Cardinality(Older(Oldest(w)[k])) = k - 1
  BY <1>1, <1>2, OldestIs
<1>4. \A i \in Busy : inflight[i].unit \in Units /\ worker[inflight[i].unit] = i /\ i \in 1 .. Slots
                      /\ inflight[i].sequence \in Nat
  BY BusyIs
<1> HIDE DEF w, f
<1>5. n = Len(f) /\ n \in Nat /\ n >= w + 1 /\ w <= n /\ \A i \in 1 .. n : row[i] = f[i]
  BY <1>1 DEF f
<1>6. named = 1 .. w
  <2>1. \A i \in 1 .. w : i \in 1 .. n /\ row[i][1] = "unit"
    <3> SUFFICES ASSUME NEW i \in 1 .. w PROVE i \in 1 .. n /\ row[i][1] = "unit"
      OBVIOUS
    <3>1. i \in 1 .. n
      BY <1>1, <1>5
    <3>2. row[i] = <<"unit", inflight[Oldest(w)[i]].unit>>
      BY <1>1, <1>5, <3>1
    <3> QED
      BY <3>1, <3>2
  <2>2. \A i \in 1 .. n : i > w => row[i][1] # "unit"
    <3> SUFFICES ASSUME NEW i \in 1 .. n, i > w PROVE row[i][1] # "unit"
      OBVIOUS
    <3>1. CASE i = n
      <4>1. row[i] = <<"bar", done, Cardinality(planned)>>
        BY <1>1, <1>5, <3>1
      <4> QED
        BY <4>1
    <3>2. CASE i # n
      <4>1. Rest(w) > 0 /\ i = w + 1
        BY <1>1, <1>5, <3>2
      <4>2. row[i] = <<"more", Rest(w)>>
        BY <1>1, <1>5, <4>1
      <4> QED
        BY <4>2
    <3> QED
      BY <3>1, <3>2
  <2>3. \A i : i \in named <=> i \in 1 .. n /\ i <= w
    BY <1>1, <1>5, <2>1, <2>2
  <2> HIDE DEF named
  <2>4. \A i : i \in named <=> i \in 1 .. w
    BY <1>1, <1>5, <2>3
  <2> QED
    BY <2>4
<1>7. Cardinality(named) = w
  <2>1. w \in Int /\ Cardinality(1 .. w) = IF 1 > w THEN 0 ELSE w - 1 + 1
    BY <1>1, FS_Interval
  <2> HIDE DEF named
  <2> QED
    BY <1>1, <1>6, <2>1
<1>8. rest = Rest(w)
  BY <1>7, RunningInTable DEF Rest
<1> HIDE DEF named, rest
<1>9. \A i \in named : row[i][2] \in InTable /\ worker[row[i][2]] = Oldest(w)[i]
  <2> SUFFICES ASSUME NEW i \in named PROVE row[i][2] \in InTable /\ worker[row[i][2]] = Oldest(w)[i]
    OBVIOUS
  <2>1. i \in 1 .. w /\ i \in 1 .. n
    BY <1>1, <1>5, <1>6
  <2>2. row[i][2] = inflight[Oldest(w)[i]].unit
    <3>1. row[i] = <<"unit", inflight[Oldest(w)[i]].unit>>
      BY <1>1, <1>5, <2>1
    <3> QED
      BY <3>1
  <2>3. Oldest(w)[i] \in Busy
    BY <1>3, <2>1
  <2> QED
    BY <1>4, <2>2, <2>3 DEF InTable
<1>10. ASSUME NEW i \in named, NEW j \in named, i < j
       PROVE  inflight[worker[row[i][2]]].sequence < inflight[worker[row[j][2]]].sequence
  <2> DEFINE a == Oldest(w)[i]
             b == Oldest(w)[j]
  <2>1. /\ a \in Busy /\ b \in Busy /\ Cardinality(Older(a)) = i - 1 /\ Cardinality(Older(b)) = j - 1
        /\ i \in Int /\ j \in Int
    <3>1. i \in 1 .. w /\ j \in 1 .. w
      BY <1>6
    <3> QED
      BY <1>1, <1>3, <3>1
  <2>2. worker[row[i][2]] = a /\ worker[row[j][2]] = b
    BY <1>9
  <2> HIDE DEF a, b
  <2>3. ~(inflight[b].sequence <= inflight[a].sequence)
    <3> SUFFICES ASSUME inflight[b].sequence <= inflight[a].sequence PROVE FALSE
      OBVIOUS
    <3>1. Cardinality(Older(b)) <= Cardinality(Older(a))
      BY <2>1, OlderIs
    <3> QED
      BY <1>10, <2>1, <3>1
  <2>4. inflight[a].sequence \in Nat /\ inflight[b].sequence \in Nat
    BY <1>4, <2>1
  <2>5. inflight[a].sequence < inflight[b].sequence
    BY <2>3, <2>4
  <2> QED
    BY <2>2, <2>5
<1>11. row[n] = <<"bar", done, Cardinality(planned)>> /\ (rest > 0 => row[n - 1] = <<"more", rest>>)
       /\ n = Cardinality(named) + (IF rest > 0 THEN 2 ELSE 1)
  <2>1. n \in 1 .. n /\ (rest > 0 => n - 1 = w + 1 /\ n - 1 \in 1 .. n)
    BY <1>1, <1>5, <1>8
  <2>2. row[n] = <<"bar", done, Cardinality(planned)>>
    BY <1>1, <1>5, <2>1
  <2>3. rest > 0 => row[n - 1] = <<"more", rest>>
    BY <1>1, <1>5, <1>8, <2>1
  <2> QED
    BY <1>1, <1>5, <1>7, <1>8, <2>2, <2>3
<1> QED
  BY <1>9, <1>10, <1>11 DEF named, rest, SaysWhatRuns

\* A step after which there is another region drew it, of the table and the plan as they are.
LEMMA FrameDrawn ==
  ASSUME ReportInv, [ReportNext]_reportVars, drawn' > 0, screen' # screen
  PROVE  /\ said' \in Seq(Texts)
         /\ \E height \in Nat :
              /\ drawn' = Len(Frame(height))
              /\ \A i \in 1 .. drawn' : RowAt(screen', Len(said') + i) = <<Frame(height)[i]>>
<1>1. /\ TableInv /\ TallyIsTrue /\ RegionInv /\ RegionInv' /\ Heights \subseteq Nat
  BY ReportSteps, ReportBoundsAssumption DEF ReportInv
<1>2. /\ planned \in SUBSET Units /\ skipped \in Nat /\ said \in Seq(Texts) /\ said' \in Seq(Texts)
      /\ drawn \in Nat /\ Shows(screen, said, drawn) /\ (frameUp <=> drawn > 0)
      /\ progress' = "finished" => drawn' = 0
      /\ frameUp => interactive /\ planned # {}
  BY <1>1 DEF RegionInv
<1>3. ASSUME NEW s, NEW d \in Nat, NEW height \in Heights, Draw(s, d, height), Shows(s, said', d),
             interactive /\ planned # {}
      PROVE  \E h \in Nat : /\ drawn' = Len(Frame(h))
                            /\ \A i \in 1 .. drawn' : RowAt(screen', Len(said') + i) = <<Frame(h)[i]>>
  <2>1. /\ drawn' = Len(Frame(height))
        /\ \A i \in 1 .. drawn' : RowAt(screen', Len(said') + i) = <<Frame(height)[i]>>
    BY <1>1, <1>2, <1>3, DrawShows
  <2>2. height \in Nat
    BY <1>1
  <2> QED
    BY <2>1, <2>2
<1>4. CASE Begin
  <2>1. Shows(Printed(screen, Inventory), said', 0) /\ drawn = 0
    <3>1. progress = "planned" /\ said' = said \o Inventory
      BY <1>4 DEF Begin
    <3>2. drawn = 0 /\ Shows(screen, said, 0)
      BY <1>1, <3>1 DEF RegionInv
    <3> QED
      BY <1>2, <3>1, <3>2, InventoryIs, PrintedShows
  <2>2. interactive /\ planned # {}
    <3>1. CASE ~(interactive /\ planned # {})
      <4>1. drawn' = drawn
        BY <1>4, <3>1 DEF Begin
      <4> QED
        BY <2>1, <4>1
    <3> QED
      BY <3>1
  <2>3. PICK height \in Heights : Draw(Printed(screen, Inventory), 0, height)
    BY <1>4, <2>2 DEF Begin
  <2> QED
    BY <1>2, <1>3, <2>1, <2>2, <2>3
<1>5. ASSUME NEW n \in 1 .. MaxMessages, Message(n)
      PROVE  \E h \in Nat : /\ drawn' = Len(Frame(h))
                            /\ \A i \in 1 .. drawn' : RowAt(screen', Len(said') + i) = <<Frame(h)[i]>>
  <2> DEFINE line == <<"message", n>>
  <2>1. frameUp
    <3>1. CASE ~frameUp
      <4>1. drawn' = drawn
        BY <1>5, <3>1 DEF Message
      <4> QED
        BY <1>2, <3>1, <4>1
    <3> QED
      BY <3>1
  <2>2. PICK height \in Heights : Draw(Printed(Erased, <<line>>), 0, height)
    BY <1>5, <2>1 DEF Message
  <2>3. Shows(Printed(Erased, <<line>>), said', 0)
    BY <1>5, MessageLog
  <2> QED
    BY <1>2, <1>3, <2>1, <2>2, <2>3
<1>6. CASE Redraw
  <2>1. PICK height \in Heights : Draw(screen, drawn, height)
    BY <1>6 DEF Redraw
  <2>2. said' = said
    BY <1>6 DEF Redraw
  <2>3. interactive /\ planned # {}
    BY <2>1, NotDrawn
  <2> QED
    BY <1>2, <1>3, <2>1, <2>2, <2>3
<1>7. ASSUME NEW verdict \in Verdicts, Conclude(verdict) PROVE FALSE
  BY <1>2, <1>7 DEF Conclude
<1>8. ASSUME Look \/ Stop \/ (\E u \in Units : UnitStarted(u) \/ UnitDone(u)) \/ UNCHANGED reportVars PROVE FALSE
  BY <1>8 DEF Look, Stop, UnitStarted, UnitDone, reportVars, region
<1> QED
  BY <1>2, <1>4, <1>5, <1>6, <1>7, <1>8 DEF ReportNext

\* Every frame that is drawn, whoever draws it and whatever the terminal has room for, names what runs as it
\* is drawn, the oldest first, says how many it has no row for, and counts what is done
\* (compose_frame, oldest_busy).
THEOREM FrameTrue == ReportSpec => FrameIsTrue
<1>1. ReportSpec => []ReportInv
  BY ReportBegins, ReportSteps, PTL DEF ReportSpec
<1> DEFINE row == [i \in 1 .. drawn' |-> screen'.rows[Len(said') + i][1]]
           named == {i \in 1 .. drawn' : row[i][1] = "unit"}
           running == {u \in Units : worker[u] \in 1 .. Slots}
           rest == Cardinality(running) - Cardinality(named)
           A == drawn' > 0 /\ screen' # screen =>
                  /\ row[drawn'] = <<"bar", done, Cardinality(planned)>>
                  /\ \A i \in named : row[i][2] \in running
                  /\ \A i, j \in named :
                       i < j => inflight[worker[row[i][2]]].sequence < inflight[worker[row[j][2]]].sequence
                  /\ drawn' = Cardinality(named) + (IF rest > 0 THEN 2 ELSE 1)
                  /\ rest > 0 => row[drawn' - 1] = <<"more", rest>>
<1>2. ReportInv /\ [ReportNext]_reportVars => [A]_reportVars
  <2> SUFFICES ASSUME ReportInv, [ReportNext]_reportVars, drawn' > 0, screen' # screen PROVE A
    OBVIOUS
  <2>1. TableInv /\ TallyIsTrue /\ planned \in SUBSET Units
    BY DEF ReportInv, RegionInv
  <2>2. said' \in Seq(Texts)
    BY FrameDrawn
  <2>3. PICK height \in Nat :
          /\ drawn' = Len(Frame(height))
          /\ \A i \in 1 .. drawn' : RowAt(screen', Len(said') + i) = <<Frame(height)[i]>>
    BY FrameDrawn
  <2>4. Shows(screen', said', drawn') /\ drawn' \in Nat
    BY ReportSteps DEF ReportInv, RegionInv
  <2>5. \A i \in 1 .. drawn' : screen'.rows[Len(said') + i][1] = Frame(height)[i]
    <3> SUFFICES ASSUME NEW i \in 1 .. drawn' PROVE screen'.rows[Len(said') + i][1] = Frame(height)[i]
      OBVIOUS
    <3>1. Len(said') + i \in 1 .. Len(screen'.rows)
      BY <2>2, <2>4 DEF Shows, IsScreen
    <3>2. screen'.rows[Len(said') + i] = <<Frame(height)[i]>>
      BY <2>3, <3>1 DEF RowAt
    <3> QED
      BY <3>2
  <2>7. running = InTable
    BY DEF InTable
  <2>8. \A i \in 1 .. drawn' : row[i] = Frame(height)[i]
    BY <2>5
  <2> HIDE DEF row
  <2>9. SaysWhatRuns(drawn', row)
    BY <2>1, <2>3, <2>8, FrameMeans
  <2> QED
    BY <2>7, <2>9 DEF SaysWhatRuns
<1>3. [][ReportNext]_reportVars /\ []ReportInv => [][A]_reportVars
  BY <1>2, PTL
<1>4. [][A]_reportVars => FrameIsTrue
  BY PTL DEF FrameIsTrue
<1> QED
  BY <1>1, <1>3, <1>4, PTL DEF ReportSpec

=============================================================================
