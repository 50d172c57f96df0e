SPECIFICATION Spec
CONSTANTS
  p1 = p1
  p2 = p2
  p3 = p3
  Procs <- TwoProcs
  First = p1
  NoProc = NoProc
  NumPages = 1
  NumPhysPages = 1
  TableSize = 2
  DataPages <- DataOfFirst
  MaxWrites = 0
  Preemptive = TRUE
INVARIANT EvictsAnExistingPage
CHECK_DEADLOCK FALSE
