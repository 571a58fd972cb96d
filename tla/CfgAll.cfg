SPECIFICATION SSpec
CONSTANTS
  Families <- AllFamilies
  Exprs <- MCExprs
  Labels <- MCLabels
  Callees = {"f", "g"}
  Functions <- MCFunctions
INVARIANT TypeOK
INVARIANT ActivationsNest
INVARIANT ScopesAreNesting
INVARIANT NoWayBack
INVARIANT SoundUnlessJoinLost
INVARIANT PreciseUnlessJoinLost
INVARIANT CallsCoveredUnlessJoinLost
INVARIANT CrashNeedsCause
PROPERTY Completes
PROPERTY WalkSpec
\* The builder ends with the function, an execution with its return or trap.
CHECK_DEADLOCK FALSE
