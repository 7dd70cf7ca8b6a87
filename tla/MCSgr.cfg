\* One colour of the palette and a mixed one.
CONSTANTS
  Palette = {0}
  Mixed = {1}
SPECIFICATION Spec
INVARIANT ColoursAsSelected
PROPERTY IsAPen
