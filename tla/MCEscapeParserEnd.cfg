\* ESC [ in a control sequence.
CONSTANT MAX_ESC_VALUES = 3
SPECIFICATION Spec
PROPERTY RestartsOrEnds
