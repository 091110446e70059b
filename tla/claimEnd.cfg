SPECIFICATION OpenSpec
CONSTANTS
  ByteSize = 4
  udpMaxRetries = 1
  CounterSize = 4
  Commands = {"EXIT","MSG"}
  ServerKinds = {"CONF","BYE"}
  SrvIds = {1}
  ConfIds = {0,1}
  MaxTyped = 1
  MaxQueue = 3
  EofMarks = {FALSE}
  Duplicates = FALSE
  SigintAllowed = FALSE
  Spurious = FALSE
CHECK_DEADLOCK FALSE
PROPERTY EndIsFinal
