SPECIFICATION MCSpec
CONSTANTS
  WordSize = 8
  R31 = 3
  Decode <- MCDecode
  p1 = p1
  p2 = p2
  Procs = {p1, p2}
  First = p1
  Images <- MCImages
  PageSize = 16
  NumPages = 3
  NumPhysPages = 2
  SC_Halt = 0
  SC_Exit = 1
  SC_Exec = 2
  SC_Read = 6
  SC_Write = 7
  Answers = {0, 6}
  Strays = {0}
INVARIANTS
  RegistersAreSettled
  ArithmeticIsExact
PROPERTIES
  ImplementsIsolated
CHECK_DEADLOCK FALSE
