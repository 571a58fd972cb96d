SPECIFICATION FSpec
CONSTANTS
  BUFF_SIZE = 4
  MaxEdges = 2
  MaxRows = 3
  Inputs <- MCInputs
INVARIANTS
  WrittenGraphIsWhole
  ReadIsWritten
  FailsForCause
PROPERTY ReadingEnds
\* A graph is written, and read, once.
CHECK_DEADLOCK FALSE
