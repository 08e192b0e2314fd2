CONSTANTS
  n1 = n1
  n2 = n2
  n3 = n3
  Socket = {n1, n2}
  Seeds <- SeedsOfFirst
  Chain <- OneVnode
  NumPings = 1
  GossipDisperse = 1
  RepFactor = 2
  Unreliable = FALSE
  MaxId = 2
  MaxInFlight = 20
  MaxTimers = 1
  MaxSuspected = 2
  MayStop = {}
  Subscribed = {}
SPECIFICATION FairSpec
PROPERTY DowningsHeal
\* Bounds on identifiers, timers and messages may leave nothing to do.
CHECK_DEADLOCK FALSE
