CONSTANTS
  t1 = t1
  t2 = t2
  t3 = t3
  NONE = NONE
  Tests = {t1, t2, t3}
  Info <- MCInfo

SPECIFICATION Spec
CHECK_DEADLOCK FALSE

INVARIANT
  RunReportsRegressions
