SPECIFICATION Spec
CONSTANTS
  MaxOffers = 2
  CandidateNames = {c1}
  MaxMessages = 1
  Clients = {k1, k2}
  Shells = {s1, s2}
  ChCap = 1
  MaxRequests = 2
  MaxChunks = 1
  MaxPushes = 1
  Loggers = {l1, l2}
  Viewers = {v1}
  Capacity = 3
  Recent = 2
  SubCap = 2
  MaxLines = 5
INVARIANTS CandidatesReach LiveIsInstalled NoStrayController LocalMissesNothing RingIsTheLog DropsOldest
PROPERTIES ClosedEnds EverybodyServed
CHECK_DEADLOCK FALSE
