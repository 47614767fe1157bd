SPECIFICATION AsmSpec
CONSTANTS
  Line <- MCLine
  MaxLines = 3
INVARIANT
  HeaderTwelveBytes
CHECK_DEADLOCK FALSE
