SPECIFICATION Spec
CONSTANTS
  Senders = {s1}
  MaxAttempts = 2
  MaxHandshakes = 2
  MaxConns = 2
  MaxFrames = 2
INVARIANT WrapNeverPanics
CHECK_DEADLOCK FALSE
