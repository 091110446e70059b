SPECIFICATION FairSpec
CONSTANTS
  ByteSize = 4
  udpMaxRetries = 1
  CounterSize = 4
  Commands = {"OTHER"}
  ServerKinds = {}
  SrvIds = {1}
  ConfIds = {0,1}
  MaxTyped = 1
  MaxQueue = 3
  EofMarks = {TRUE}
  Duplicates = FALSE
  SigintAllowed = FALSE
  Spurious = FALSE
CHECK_DEADLOCK FALSE
PROPERTY ByeEnds
