CONSTANTS
  M = {a, b, c, d}
  MaxVnodes = 2
  NumPoints = 6
  RepFactors = {0, 1, 2}
SPECIFICATION RingSpec
INVARIANTS HistoryIndependent InverseResponsibility FullyManaged
PROPERTY OnlyNeighboursAffected
SYMMETRY Sym
