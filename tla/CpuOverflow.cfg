\* A total that outgrows the int it is kept in.
CONSTANTS
  Cores = 1
  FieldsN = 2
  TotalFlags = {0}
  CoreFlags = {}
  Multiplier = 10
  IntValues = 16
  LongValues = 256
  Misreads = {}
  MaxJiffies = 12
  DiskFlags = {0}
  WordValues = 8
  StaleWords = {}
  MaxDisk = 0
  FileNumbers = {0}
  StaleNumbers = {}
  NoNumber = NoNumber
  TimeFlags = {"current"}
  ClockSteps = {}
  MaxClock = 0
  MeminfoLayouts <- MCLayouts
  MaxMeminfo = 0
  Configs = {{"cpu"}}
SPECIFICATION Spec
INVARIANT CpuPercentages
CHECK_DEADLOCK FALSE
