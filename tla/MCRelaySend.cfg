SPECIFICATION FairSpec
CONSTANTS
  TextSenders = {t1}
  BinarySenders = {b1}
  SendCap = 1
  BinaryCap = 1
  MaxMissed = 1
  KernelBuffer = 1
  MaxSent = 2
INVARIANT TextFirst
PROPERTIES RefinesSealedStream  DeadLinkDetected
CHECK_DEADLOCK FALSE
