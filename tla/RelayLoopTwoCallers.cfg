SPECIFICATION Spec
CONSTANTS
  Callers = {c1, c2}
  Keys = {k1, k2}
  MaxLoops = 3
INVARIANT AtMostOneLoop
CHECK_DEADLOCK FALSE
