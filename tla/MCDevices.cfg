CONSTANTS
  d = d
  s1 = s1
  s2 = s2
  Device = {d}
  Server = {s1, s2}
  Rank <- SecondFirst
  Seeds = {s1, s2}
  LogCapacity = 3
  MayStop = {s2}
  MaxSenders = 3
  MaxInbox = 1
  MaxTroubles = 1
SPECIFICATION FairSpec
INVARIANTS TypeOK LogInSync ChargesAreWatched
PROPERTIES DataGrows SettledStays DeviceConvergence
\* A device that is dead and given up is nobody's any more.
CHECK_DEADLOCK FALSE
