SPECIFICATION PostSpec
CONSTANTS
  Threads = {main, worker, t1}
  Main = main
  Worker = worker
  NoThread = NoThread
  Semaphores = {messageSent, messageAvailable}
  b1 = b1
  b2 = b2
  lock1 = lock1
  lock2 = lock2
  arrival1 = arrival1
  arrival2 = arrival2
  Boxes = {b1, b2}
  Locks = {sendLock, lock1, lock2}
  Conditions = {arrival1, arrival2}
  BoxLock <- MCBoxLock
  NotEmpty <- MCNotEmpty
  ConditionLock <- MCConditionLock
  InitialValue <- MCInitialValue
  MaxValue = 1
  sendLock = sendLock
  messageSent = messageSent
  messageAvailable = messageAvailable
  NoBox = NoBox
  NoMail = NoMail
  MaxMail = 3
  Preemptive = TRUE
INVARIANTS
  SendsOneAtATime
  PacketIsAnnounced
  EveryMailHasATaker
PROPERTIES
  ImplementsMailService
CHECK_DEADLOCK FALSE
