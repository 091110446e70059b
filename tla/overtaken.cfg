SPECIFICATION Spec
CONSTANTS
  ByteSize = 4
  udpMaxRetries = 1
  CounterSize = 3
  Commands = {"AUTH"}
  ServerKinds = {"CONF","REPLY","MSG"}
  SrvIds = {0,1}
  ConfIds = {0}
  MaxTyped = 1
  MaxQueue = 3
  EofMarks = {FALSE}
  Duplicates = FALSE
  SigintAllowed = FALSE
  Spurious = FALSE
CHECK_DEADLOCK FALSE
PROPERTY OwnStopAndWait
