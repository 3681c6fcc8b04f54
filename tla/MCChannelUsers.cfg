SPECIFICATION Spec
CONSTANTS
  Procs = {r1, r2}
  Paths = {x}
  MaxIds = 3
  Sizes = {0, 2}
  MaxTeardowns = 2
  Keys = {k1, k2}
  MaxConns = 2
  MaxLinks = 2
  MaxLength = 4
  MaxPiece = 3
INVARIANTS Cancellable  EndMeansAll TableIsTrue ChunksAreRight
PROPERTIES CancelEnds ReaderFreed
CHECK_DEADLOCK FALSE
