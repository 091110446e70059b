SPECIFICATION FairOpenSpec
CONSTANTS
  ByteSize = 4
  udpMaxRetries = 1
  CounterSize = 4
  Commands = {"MSG"}
  ServerKinds = {"CONF","MSG"}
  SrvIds = {1}
  ConfIds = {0,1}
  MaxTyped = 2
  MaxQueue = 3
  EofMarks = {FALSE}
  Duplicates = FALSE
  SigintAllowed = FALSE
  Spurious = FALSE
CHECK_DEADLOCK FALSE
PROPERTY MsgSettled
PROPERTY SilentEnds
