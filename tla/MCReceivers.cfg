CONSTANTS
  c1 = c1
  Charge = {c1}
  ReqTries = 2
  MaxSpawns = 3
  MaxBeats = 2
SPECIFICATION FairSpec
INVARIANTS TypeOK VerdictEarned RunningAreRegistered
PROPERTIES FailuresNoticed NamesGivenBack
\* Once the cluster actor has stopped and all receivers with it nothing is left.
CHECK_DEADLOCK FALSE
