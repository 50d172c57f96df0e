SPECIFICATION FairProgram
CONSTANTS
  p1 = p1
  p2 = p2
  c1 = c1
  c2 = c2
  main = main
  Threads <- MCThreads
  Main = main
  NoThread = NoThread
  Semaphores = {}
  Locks = {table}
  Conditions = {production, consumption}
  ConditionLock <- MCConditionLock
  InitialValue <- MCInitialValue
  MaxValue = 0
  Producers = {p1, p2}
  Consumers = {c1, c2}
  ForkOrder <- MCForkOrder
  TableLock = table
  ProduceCondition = production
  ConsumeCondition = consumption
  Capacity = 2
  Numbers = 4
  Preemptive = TRUE
INVARIANTS
  ProgramIsSafe
  NobodyIsForgotten
PROPERTIES
  ImplementsBuffer
  FoodIsEaten
