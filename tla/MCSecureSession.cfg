SPECIFICATION FairSpec
CONSTANTS
  Senders = {s1}
  MaxAttempts = 2
  MaxHandshakes = 2
  MaxConns = 2
  MaxFrames = 2
INVARIANTS NonceUnique SecretsOfCurrentPeer RejectOnlyByOverwrite
PROPERTY HandshakeSlotFreed
CHECK_DEADLOCK FALSE
