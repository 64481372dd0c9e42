\* Two starts, a kill, and clients that open and call at any moment.
CONSTANTS
  Client = {c1, c2}
  Daemon = Daemon
  NoOwner = NoOwner
  MaxStarts = 2
  MaxKills = 1
  MaxCalls = 3
  MaxTicks = 2
SPECIFICATION FairSpec
INVARIANTS
  TypeOK
  InitialisedOnce
  NameMeansDaemon
  OneInside
PROPERTY CallsReturn
CHECK_DEADLOCK FALSE
