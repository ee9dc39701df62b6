CONSTANTS
  n1 = n1
  n2 = n2
  Node = {n1, n2}
  Conn = {1, 2, 3}
  Bootstrap <- MCBootstrap
  Seed <- MCSeed
  Manifest = {n1, n2}
  None = None
  Connector = Connector
  Subscribed = {n2}
  MaxFaults = 1
SPECIFICATION FairSpec
CHECK_DEADLOCK FALSE
INVARIANTS
  TypeOK
  EntriesAreRead
PROPERTIES
  NewestKept
  Reconnects
