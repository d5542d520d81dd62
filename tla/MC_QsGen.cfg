CONSTANTS
  N = 3
  NONE = NONE

SPECIFICATION Spec
CHECK_DEADLOCK FALSE

INVARIANTS
  TypeOK
  ExitStatusReportsOutputs
