SPECIFICATION MCSpec
CONSTANTS
  c1 = c1
  c2 = c2
  Closer = {c1, c2}
  MaxItems = 1
  Reliable = TRUE
  None = None
INVARIANT
  CloseClosesConnections
