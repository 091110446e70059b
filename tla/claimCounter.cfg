SPECIFICATION OpenSpec
CONSTANTS
  ByteSize = 4
  udpMaxRetries = 1
  CounterSize = 4
  Commands = {"MSG","JOIN"}
  ServerKinds = {"CONF","REPLY"}
  SrvIds = {1}
  ConfIds = {1,2}
  MaxTyped = 2
  MaxQueue = 3
  EofMarks = {FALSE}
  Duplicates = FALSE
  SigintAllowed = FALSE
  Spurious = FALSE
CHECK_DEADLOCK FALSE
PROPERTY CounterIncreases
