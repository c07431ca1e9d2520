SPECIFICATION Spec
CONSTANTS
  Clients = {c1, c2, c3}
  Daemon = daemon
  MaxMsg = 2
  MaxOrphans = 3
  MaxLost = 1
SYMMETRY ClientSymmetry
INVARIANTS
  TypeOK
  Conservation
  NoMutualWait
  NoSendWedge
  AloneGetsOwnAnswer
PROPERTY IsMailbox
CHECK_DEADLOCK FALSE
