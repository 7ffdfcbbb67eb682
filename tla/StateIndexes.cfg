SPECIFICATION FairSpec
CONSTANTS
  Host = {h1, h2, h3}
  Run = {r1, r2, r3}
  NoHost = NoHost
  MaxPending = 2
INVARIANTS OneOwner MirrorsDisk
PROPERTIES ImplementsIndex CloseFinishes
CHECK_DEADLOCK FALSE
