\* Room for three values.
CONSTANT MAX_ESC_VALUES = 3
SPECIFICATION Spec
INVARIANTS ValuesInBounds PrivateAsWritten
PROPERTY KeepsGrammar
