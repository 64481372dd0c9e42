\* Deaths, an interrupted wait and a daemon stopped anywhere.
CONSTANTS
  Client = {c1, c2}
  Daemon = Daemon
  NoOwner = NoOwner
  ModulesN = 2
  MaxCalls = 4
  MaxDeaths = 2
  MaxSignals = 1
SPECIFICATION FairSpec
INVARIANTS
  TypeOK
  MutexSound
  DrainNeverBlocks
  AnswerUnderWay
  SurplusBound
PROPERTIES
  ServiceSpec
  EveryCallReturns
CHECK_DEADLOCK FALSE
