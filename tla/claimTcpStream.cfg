SPECIFICATION Spec
CONSTANTS
  ByteSize = 4
  udpMaxRetries = 0
  CounterSize = 2
  Commands = {"AUTH"}
  ServerKinds = {"REPLY","MSG"}
  SrvIds = {}
  ConfIds = {}
  MaxTyped = 1
  MaxQueue = 3
  EofMarks = {FALSE}
  Duplicates = FALSE
  SigintAllowed = FALSE
  Spurious = FALSE
  MaxServer = 2
CHECK_DEADLOCK FALSE
PROPERTY EveryMessageRead
