CONSTANTS
  NONE = NONE
  Types <- MCTypes
  TypeInfo <- MCTypeInfo
  Candidates <- MCCandidates

SPECIFICATION Spec
CHECK_DEADLOCK FALSE

INVARIANTS
  TraceReturnAgrees
