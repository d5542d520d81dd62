CONSTANTS
  u1 = u1
  u2 = u2
  u3 = u3
  u4 = u4
  NoBase = NoBase
  NULL = NULL
  U = {u1, u2, u3}
  MaxIfaces = 2
  Hashes = {0, 1}
  KindChoices = {{}, {"attr", "method"}}
  BaseChoices <- MCAllBases
SPECIFICATION Spec
CHECK_DEADLOCK FALSE
PROPERTY
  Terminates
