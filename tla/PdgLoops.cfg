SPECIFICATION PSpec
CONSTANTS
  Families <- KindsAndLoops
  NumVars <- MCVars
  Exprs <- MCExprs
  Labels <- MCLabels
  Callees = {}
  Functions = {}
  Programs <- MCPrograms
INVARIANT PdgTypeOK
INVARIANT FlowsRecorded
INVARIANT NoOtherFlows
INVARIANT LoopsNest
PROPERTY LoopDefinitionsGrow
\* The builder ends with the function.
CHECK_DEADLOCK FALSE
