\* A daemon stopped in update() leaves a half-written text that a call returns.
CONSTANTS
  Client = {c1, c2}
  Daemon = Daemon
  NoOwner = NoOwner
  ModulesN = 2
  MaxCalls = 1
  MaxDeaths = 0
  MaxTicks = 2
SPECIFICATION Spec
INVARIANT SyncedAccess
CHECK_DEADLOCK FALSE
