SPECIFICATION FairSpec
CONSTANTS
  p1 = p1
  p2 = p2
  p3 = p3
  Procs <- ThreeProcs
  First = p1
  NoProc = NoProc
  NumPages = 1
  NumPhysPages = 2
  TableSize = 3
  DataPages <- DataOfFirst
  MaxWrites = 0
  Preemptive = TRUE
INVARIANTS
  FreeFramesAreCounted
  NobodyIsCutShort
PROPERTIES
  MemoryLockIsReleased
  LastOneHalts
CHECK_DEADLOCK FALSE
