CONSTANTS
  n1 = n1
  n2 = n2
  n3 = n3
  Socket = {n1, n2, n3}
  Op = {o1}
  Amount = 1
  Preferences <- NobodyOrSome
  Founders = {n1}
  MaxId <- OneEach
  MayStop = {n2}
  Impatient = {n1}
  Unreliable = TRUE
  MaxInFlight = 2
  MayLeave = {}
  Writers = {n1}
SPECIFICATION Spec
INVARIANT AckedIsReceived
\* All nodes may have stopped or panicked, or have nothing left to do.
CHECK_DEADLOCK FALSE
