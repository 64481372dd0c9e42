\* Each module alone and some together; sums past an int, counters past a word,
\* reads that fail, a clock that is set back.
CONSTANTS
  Cores = 2
  FieldsN = 2
  TotalFlags = {0, 1}
  CoreFlags = {1}
  Multiplier = 10
  IntValues = 16
  LongValues = 256
  Misreads <- MCMisreads
  MaxJiffies = 9
  DiskFlags = {0, 2}
  WordValues = 4
  StaleWords = {3}
  MaxDisk = 5
  FileNumbers <- MCNumbers
  StaleNumbers = {7, 74}
  NoNumber = NoNumber
  TimeFlags = {"current", "diff"}
  ClockSteps <- MCSteps
  MaxClock = 4
  MeminfoLayouts <- MCLayouts
  MaxMeminfo = 2
  Configs = {{"cpu"}, {"disk_activity"}, {"generic", "time"}, {"ram", "time"}}
SPECIFICATION Spec
INVARIANTS
  TypeOK
  CpuShares
  DiskGrowths
  DiffsChain
  RamAnswers
CHECK_DEADLOCK FALSE
