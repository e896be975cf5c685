SPECIFICATION Spec
CONSTANTS
  Measurable <- Words
  Limits <- AnyLimit
  InScope <- Small
INVARIANTS
  RulesNeedLength
  LongestRunIsLongest
  SameEitherWay
PROPERTIES
  CountsDown
  TrendIsKept
CHECK_DEADLOCK FALSE
