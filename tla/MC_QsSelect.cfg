CONSTANTS
  I1 = I1
  I2 = I2
  I3 = I3
  I4 = I4
  m1 = m1
  m2 = m2
  a1 = a1
  a2 = a2
  c1 = c1
  m3 = m3
  a3 = a3
  m5 = m5
  m6 = m6
  m7 = m7
  m4 = m4
  Star = Star
  NoSuch = NoSuch
  NONE = NONE
  Ifaces = {I1, I2, I3, I4}
  Found = {I1, I2, I3}
  Scriptable = {I1, I2}
  MemberIds = {m1, m2, a1, a2, c1, m3, a3, m5, m6, m7, m4}
  MaxSelectors = 3
  MembersOf <- MCMembersOf
  Info <- MCInfo
  Selectors <- MCSelectors
SPECIFICATION Spec
CHECK_DEADLOCK FALSE
INVARIANTS
  TypeOK
  AcceptsExactlyValidSelections
  StubsFollowSelection
