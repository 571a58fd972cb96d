SPECIFICATION SSpec
CONSTANTS
  Families <- EmptyListFamily
  Exprs <- MCExprs
  Labels <- MCLabels
  Callees = {"f", "g"}
  Functions <- MCFunctions
INVARIANT EmptyListsAreBuilt
\* The builder ends with the function, an execution with its return or trap.
CHECK_DEADLOCK FALSE
