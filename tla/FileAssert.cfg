SPECIFICATION FSpec
CONSTANTS
  BUFF_SIZE = 4
  MaxEdges = 0
  MaxRows = 2
  Inputs <- Lengths
INVARIANT LastIsPositive
CHECK_DEADLOCK FALSE
