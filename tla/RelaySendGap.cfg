SPECIFICATION Spec
CONSTANTS
  TextSenders = {t1}
  BinarySenders = {b1}
  SendCap = 1
  BinaryCap = 1
  MaxMissed = 1
  KernelBuffer = 1
  MaxSent = 2
INVARIANTS NothingRefused
CHECK_DEADLOCK FALSE
