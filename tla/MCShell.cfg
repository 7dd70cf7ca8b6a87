\* Typed lines that start scripts of every kind; folders two deep.
CONSTANTS
  Letters <- MCLetters
  Keys = {" ", "isl", "run"}
  EditorKeys = {"nl"}
  NUL = "nul"
  SP = " "
  NL = "nl"
  MAX_ARGS = 3
  CleanLen = 5
  Under = 0
  MaxPos = 5
  MaxDoc = 1
  PathLen = 5
  Scripts <- MCScripts
  Garbage <- MCGarbage
  StackFrames = 2
  Root = "root"
  Folders = {"f"}
CHECK_DEADLOCK FALSE
SPECIFICATION FairSpec
INVARIANTS TypeOK LineIsTyped PromptNamesDirectory TextIsTyped OnePrompt HaltsOnlySo
PROPERTIES CommandEnds
