SPECIFICATION FairSpec
CONSTANTS
  Clients = {c1, c2, c3}
  Daemon = daemon
  MaxMsg = 1
  MaxOrphans = 1
  MaxLost = 0
PROPERTY EveryRequestReturns
