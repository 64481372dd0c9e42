\* A call that reads sync_method before the daemon has set it.
CONSTANTS
  Client = {c1}
  Daemon = Daemon
  NoOwner = NoOwner
  MaxStarts = 1
  MaxKills = 0
  MaxCalls = 1
  MaxTicks = 2
SPECIFICATION FairSpec
PROPERTY AlarmsUpdate
CHECK_DEADLOCK FALSE
