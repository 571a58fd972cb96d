SPECIFICATION Spec
CONSTANTS
  Var = {x}
  Fun = {f}
  MaxFrames = 3
  MaxContexts = 4
INVARIANTS
  TypeOK
  ScopesAreNesting
  CurrentIsInnermost
  HandlersReachable
  FunctionsStay
PROPERTIES
  ScopesSpec
  JumpsArrive
\* A jump that nothing catches ends the program.
CHECK_DEADLOCK FALSE
