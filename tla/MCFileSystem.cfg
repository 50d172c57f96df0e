SPECIFICATION FileSystemSpec
CONSTANTS
  Threads = {main, t1}
  Main = main
  NoThread = NoThread
  Semaphores = {diskDone}
  Locks = {diskLock}
  Conditions = {}
  ConditionLock <- MCConditionLock
  InitialValue <- MCInitialValue
  MaxValue = 1
  diskLock = diskLock
  diskDone = diskDone
  Sectors <- MCSectors
  Contents = {full}
  NoCall = NoCall
  Preemptive = TRUE
  Names = {a, b}
  NumDirEntries = 2
  FreeMapSector = 0
  DirectorySector = 1
  MapBlock = 2
  DirBlocks <- MCDirBlocks
  FlagsAt <- MCFlagsAt
  NamesAt <- MCNamesAt
  Blank = blank
  NotOpen = NotOpen
  MaxSize = 1
  SectorSizes = {1, 2, 3}
  ByteCounts = {0, 1, 2, 3, 4, 5, 6, 7, 8}
INVARIANTS
  OneRequestAtATime
  CrashesAreContained
  AccessIsExact
PROPERTIES
  ImplementsSectorStore
  ImplementsFiles
