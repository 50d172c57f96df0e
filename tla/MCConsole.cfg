SPECIFICATION ConsoleFairSpec
CONSTANTS
  Threads = {main, t1, t2}
  Main = main
  NoThread = NoThread
  Semaphores = {readAvail, writeDone}
  Locks = {consoleLock}
  Conditions = {}
  ConditionLock <- MCConditionLock
  InitialValue <- MCInitialValue
  MaxValue = 1
  consoleLock = consoleLock
  readAvail = readAvail
  writeDone = writeDone
  MaxSize = 1
  MaxTyped = 2
  LooksLikeEOF = {}
  Preemptive = TRUE
INVARIANTS
  PutsOneAtATime
  UnitIsAChar
PROPERTIES
  ImplementsTerminal
  WriteEnds
CHECK_DEADLOCK FALSE
