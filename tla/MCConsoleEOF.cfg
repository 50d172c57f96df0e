SPECIFICATION ConsoleSpec
CONSTANTS
  Threads = {main, t1}
  Main = main
  NoThread = NoThread
  Semaphores = {readAvail, writeDone}
  Locks = {consoleLock}
  Conditions = {}
  ConditionLock <- MCConditionLock
  InitialValue <- MCInitialValue
  MaxValue = 1
  consoleLock = consoleLock
  readAvail = readAvail
  writeDone = writeDone
  MaxSize = 2
  MaxTyped = 2
  LooksLikeEOF = {1}
  Preemptive = TRUE
INVARIANT
  BufferHoldsOne
CHECK_DEADLOCK FALSE
