SPECIFICATION TSpec
CONSTANTS
  MaxCalls = 2
  Programs <- MCPrograms
INVARIANTS
  TaintIsReal
  NothingMissed
  RecursionBounded
\* The checker ends after its last query.
CHECK_DEADLOCK FALSE
