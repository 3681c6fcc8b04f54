SPECIFICATION Spec
CONSTANTS
  NarrowChar = a
  WideChar = w
  CombiningChar = c
  Dash = dash
  Wide = {w}
  Combining = {c}
  Aligned = e
  Scrollback = 1
  TabStopWidth = 2
  Texts <- TextsDef
  Sizes <- SizesDef
  Counts = {1}
  TextSteps = 2
  ControlSteps = 1
  Item = {i1}
  None = None
  MaxLengths = {1}
  ListOps = 0
  Columns = 1
  Heights = {1}
  Codes <- CodesDef
  Strokes = 0
  Pieces <- PiecesDef
  PieceCount = 0
  MaxParam = 127
  MaxParams = 2
  PayloadLimit = 2
INVARIANT NoPanic
CHECK_DEADLOCK FALSE
