CONSTANTS
  Msg = {a, b, c}
  MaxSent = 5
SPECIFICATION FairSpec
INVARIANT NeverStray
PROPERTIES ImplementsMailbox TermStops
\* An actor that has ended, or that nobody sends anything, does nothing.
CHECK_DEADLOCK FALSE
