CONSTANTS
  c1 = c1
  Charge = {c1}
  ReqTries = 1
  MaxSpawns = 2
  MaxBeats = 1
SPECIFICATION FairSpec
PROPERTY EveryFailureNoticed
CHECK_DEADLOCK FALSE
