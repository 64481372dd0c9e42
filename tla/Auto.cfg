\* Clients die and the daemon is stopped anywhere.
CONSTANTS
  Client = {c1, c2}
  Daemon = Daemon
  NoOwner = NoOwner
  ModulesN = 2
  MaxCalls = 4
  MaxDeaths = 2
  MaxTicks = 3
SPECIFICATION FairSpec
INVARIANTS
  TypeOK
  MutexSound
PROPERTIES
  ServiceSpec
  EveryCallReturns
  EveryAlarmUpdates
CHECK_DEADLOCK FALSE
