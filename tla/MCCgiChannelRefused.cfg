SPECIFICATION Spec
CONSTANTS
  Clients = {c1}
  Daemon = daemon
  MaxMsg = 2
  MaxOrphans = 0
  MaxLost = 0
INVARIANT SupportedIsNotRefused
