SPECIFICATION FairSpec
CONSTANTS
  Threads = {main, t1, t2}
  Main = main
  NoThread = NoThread
  Semaphores = {sem}
  Locks = {mutex}
  Conditions = {cond}
  ConditionLock <- MCConditionLock
  InitialValue <- MCInitialValue
  MaxValue = 2
  Start = 0
INVARIANTS
  TypeOK
  EachThreadInOnePlace
  EveryUnitHasATaker
  FreeLockHasATaker
  HolderIsRight
  CarcassIsSafe
PROPERTIES
  ImplementsMonitor
  ReadyThreadRuns
CHECK_DEADLOCK FALSE
