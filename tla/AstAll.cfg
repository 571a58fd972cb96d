SPECIFICATION ASpec
CONSTANTS
  Families <- Trees
  NumVars <- MCVars
  Exprs <- MCExprs
  Labels <- MCLabels
  Callees = {}
  Functions = {}
  Programs <- MCPrograms
INVARIANT AstIsTheBody
PROPERTY Terminates
\* The builders end with the function.
CHECK_DEADLOCK FALSE
