SPECIFICATION P2PSpec
CONSTANTS
  MaxOffers = 2
  CandidateNames = {c1}
  MaxMessages = 2
PROPERTY DeadModeIsLeft
CHECK_DEADLOCK FALSE
