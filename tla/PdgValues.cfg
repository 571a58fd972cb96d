SPECIFICATION PSpec
CONSTANTS
  Families <- Operands
  NumVars <- MCVars
  Exprs <- MCExprs
  Labels <- MCLabels
  Callees = {}
  Functions = {}
  Programs <- MCPrograms
INVARIANT FlowsRecorded
INVARIANT AbortNeedsCause
\* The builder ends with the function.
CHECK_DEADLOCK FALSE
