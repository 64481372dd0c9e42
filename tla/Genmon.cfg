\* Each program with every line of its modules failing in turn.
CONSTANTS
  IntValues = 16384
  Sensors = 2
  Thousand = 10
  TenthGB = 10
  Junk = {0, 150}
  MaxFaults = 1
  MaxUpdates = 2
  Reading <- MCReading
  NvidiaOutput <- MCNvidia
  MeminfoOutput <- MCMeminfo
  SwapOutput <- MCSwap
  DfOutput <- MCDf
  UnsetInt = {0, 77}
SPECIFICATION FairSpec
INVARIANTS
  TypeOK
  BarsSorted
  KillsJustified
  FreshWhenWhole
  RowsResync
PROPERTIES
  TextsAppear
CHECK_DEADLOCK FALSE
