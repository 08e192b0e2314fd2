CONSTANTS
  n1 = n1
  n2 = n2
  n3 = n3
  Socket = {n1, n2}
  Op = {o1, o2}
  Amount = 1
  Preferences <- Nobody
  Founders = {n1}
  MaxId <- TwoAndOne
  MayStop = {n2}
  Impatient = {n1}
  MayLeave <- Anybody
  Writers = {n1, n2}
  Unreliable = TRUE
  MaxInFlight = 2
SPECIFICATION FairSpec
PROPERTIES ReplicasConverge ClockTellsData
INVARIANTS TypeOK BufferMatchesClock RetryIsDue RestingAgree
\* All nodes may have stopped or panicked, or have nothing left to do.
CHECK_DEADLOCK FALSE
