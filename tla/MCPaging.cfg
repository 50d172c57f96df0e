SPECIFICATION Spec
CONSTANTS
  p1 = p1
  p2 = p2
  p3 = p3
  Procs <- ThreeProcs
  First = p1
  NoProc = NoProc
  NumPages = 2
  NumPhysPages = 2
  TableSize = 2
  DataPages <- DataOfFirst
  MaxWrites = 1
  Preemptive = FALSE
SYMMETRY LaterProcs
INVARIANTS
  TablesAgree
  ProcessesAreSafe
PROPERTIES
  ImplementsVirtualMemory
CHECK_DEADLOCK FALSE
