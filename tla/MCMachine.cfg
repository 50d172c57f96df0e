SPECIFICATION MachineSpec
CONSTANTS
  Threads = {main, t1}
  Main = main
  NoThread = NoThread
  RotationTime = 3
  SeekTime = 4
  SectorsPerTrack = 3
  NumTracks = 2
  SystemTick = 2
  UserTick = 1
  TimerTicks = 2
  PollTime = 3
  MaxTicks = 16
INVARIANTS
  PendingIsRight
  StatusIsRight
  SectorPassesUnderHead
  HaltsOnlyWhenDone
PROPERTIES
  MachineStops
CHECK_DEADLOCK FALSE
