CONSTANTS
  u1 = u1
  u2 = u2
  u3 = u3
  u4 = u4
  NoBase = NoBase
  NULL = NULL
  U = {u1, u2, u3}
  MaxIfaces = 3
  Hashes = {0, 1, 4}
  KindChoices = {{}, {"attr", "method"}, {"trace"}}
  BaseChoices <- MCBases
SPECIFICATION Spec
CHECK_DEADLOCK FALSE
INVARIANTS
  TypeOK
  LookupFindsExactlyTabled
  TableWellFormed
  ParentLinksFollowAncestry
PROPERTIES
  DispatchMapRefined
  Terminates
