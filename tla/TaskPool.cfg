\* Two workers and three tasks: enough for a steal, for a deque of two, and for a refused
\* submit between two accepted ones.
SPECIFICATION FairSpec
CONSTANTS
  N = 2
  Tasks = {t1, t2, t3}
  NoTask = NoTask
INVARIANTS
  PoolIsSound
PROPERTIES
  WaitIsBarrier
  EveryoneReturns
  ImplementsTaskBatch
