SPECIFICATION Spec
CONSTANTS
  MaxNode = 3
  MaxLimit = 4
  Node <- MCNode
  Graphs <- MCGraphs
  Limits <- MCLimits
INVARIANTS
  TypeOK
  SearchIsSound
  SearchIsComplete
  NearestFirst
  WithinLimit
  ShortOnlyByOverlap
PROPERTIES
  Terminates
\* A search ends with its answer.
CHECK_DEADLOCK FALSE
