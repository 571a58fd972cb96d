SPECIFICATION PSpec
CONSTANTS
  Families <- Aborting
  NumVars <- MCVars
  Exprs <- MCExprs
  Labels <- MCLabels
  Callees = {}
  Functions = {}
  Programs <- MCPrograms
INVARIANT NeverAborts
\* The builder ends with the function.
CHECK_DEADLOCK FALSE
