SPECIFICATION SSpec
CONSTANTS
  Families <- LostJoinFamily
  Exprs <- MCExprs
  Labels <- MCLabels
  Callees = {"f", "g"}
  Functions <- MCFunctions
INVARIANT JoinContinues
\* The builder ends with the function, an execution with its return or trap.
CHECK_DEADLOCK FALSE
