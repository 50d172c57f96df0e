SPECIFICATION Spec
CONSTANTS
  Threads = {main, t1, t2}
  Main = main
  NoThread = NoThread
  Semaphores = {sem}
  Locks = {mutex}
  Conditions = {cond}
  ConditionLock <- MCConditionLock
  InitialValue <- MCInitialValue
  MaxValue = 1
  Start = 0
INVARIANTS
  FinishedIsDestroyed
CHECK_DEADLOCK FALSE
