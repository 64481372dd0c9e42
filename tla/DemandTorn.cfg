\* A client that dies waiting leaves an answer behind; a later copy is torn.
CONSTANTS
  Client = {c1, c2}
  Daemon = Daemon
  NoOwner = NoOwner
  ModulesN = 2
  MaxCalls = 3
  MaxDeaths = 1
  MaxSignals = 0
SPECIFICATION Spec
INVARIANT SyncedAccess
CHECK_DEADLOCK FALSE
