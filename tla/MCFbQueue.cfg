\* Two columns, three rows, two calls between flushes.
CONSTANTS
  Cols = 2
  Rows = 3
  Glyphs = {" ", "a"}
  Blanks = {" "}
  MaxX = 3
  None = "none"
  MaxCalls = 2
  Modes <- MCModes
SPECIFICATION Spec
INVARIANT OneItemPerCell
PROPERTY KeepsPromise
