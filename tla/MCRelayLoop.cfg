SPECIFICATION FairSpec
CONSTANTS
  Callers = {c1}
  Keys = {k1, k2}
  MaxLoops = 3
INVARIANTS AtMostOneLoop StoppedMeansDown ServesLastKey
PROPERTIES SwapReturns StopIsFinal
CHECK_DEADLOCK FALSE
