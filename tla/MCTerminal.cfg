\* Four columns, three rows, two characters: the margins leave rows out on
\* either side, and the screen is wider than high, as a real one.
CONSTANTS
  Cols = 4
  Rows = 3
  Glyphs = {" ", "a"}
  Blanks = {" "}
  Space = " "
  MaxX = 5
  TabSize = 2
  Params = {0, 1, 2, 3, 5}
  MaxText = 2
SPECIFICATION Spec
INVARIANTS MotionStaysInRegion EditsExact
PROPERTIES TextStaysInRegion CursorLeavesOnlySo
