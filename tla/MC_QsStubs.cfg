CONSTANTS
  I1 = I1
  I2 = I2
  m1 = m1
  m2 = m2
  a1 = a1
  a2 = a2
  m3 = m3
  m4 = m4
  NONE = NONE
  Members = {m1, m2, a1, a2, m3, m4}
  Interfaces <- MCInterfaces
  IfaceOf <- MCIfaceOf
  Info <- MCInfo
  TypeInfo <- MCTypeInfo
  StubChoices <- MCStubChoices
  CustomChoices <- MCCustomChoices

SPECIFICATION Spec
CHECK_DEADLOCK FALSE

INVARIANTS
  TypeOK
  EachDefinedOnce
  DefinedBeforeUse
  SharedTemplateForwarding
  ResultCacheDeclared
