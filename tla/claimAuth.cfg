SPECIFICATION Spec
CONSTANTS
  MaxLine = 8
  maxName = 1
  maxSecret = 2
  maxContents = 7
  Stale = {"letter", "blank"}
CHECK_DEADLOCK FALSE
INVARIANT AuthAsDocumented
