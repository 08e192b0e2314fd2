CONSTANTS
  n1 = n1
  n2 = n2
  n3 = n3
  Socket = {n1, n2, n3}
  Seeds <- SeedsChain
  Chain <- OneVnode
  NumPings = 1
  GossipDisperse = 1
  RepFactor = 1
  Unreliable = TRUE
  MaxId = 2
  MaxInFlight = 1
  MaxTimers = 1
  MaxSuspected = 1
  MayStop = {n3}
  Subscribed = {n3}
SPECIFICATION Spec
INVARIANTS
  TypeOK ViewsAgree SubscriberInSync NoInventedNews
  HeartbeatsExpected
PROPERTY ImplementsMembership
\* Bounds on identifiers, timers and messages may leave nothing to do.
CHECK_DEADLOCK FALSE
