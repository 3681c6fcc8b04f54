SPECIFICATION Spec
CONSTANTS
  NarrowChar = a
  WideChar = w
  CombiningChar = c
  Dash = dash
  Wide = {w}
  Combining = {c}
  Aligned = e
  Scrollback = 1
  TabStopWidth = 2
  Texts <- TextsDef
  Sizes <- SizesDef
  Counts = {1, 2}
  TextSteps = 2
  ControlSteps = 2
  Item = {i1, i2}
  None = None
  MaxLengths = {2, 3}
  ListOps = 5
  Columns = 2
  Heights = {1, 2}
  Codes <- CodesDef
  Strokes = 5
  Pieces <- PiecesDef
  PieceCount = 3
  MaxParam = 127
  MaxParams = 2
  PayloadLimit = 2
INVARIANTS ScreenTypes RunsJoin Replays ReadAtKeeps StylesReplay ChunkFree
PROPERTIES HistoryKept WideKept RefinesList
CHECK_DEADLOCK FALSE
