SPECIFICATION Spec
CONSTANTS
  ByteSize = 4
  udpMaxRetries = 1
  CounterSize = 4
  Commands = {"AUTH","JOIN","MSG","OTHER"}
  ServerKinds = {"CONF","REPLY"}
  SrvIds = {0,3}
  ConfIds = {0}
  MaxTyped = 2
  MaxQueue = 2
  EofMarks = {FALSE}
  Duplicates = FALSE
  SigintAllowed = FALSE
  Spurious = TRUE
CHECK_DEADLOCK FALSE
INVARIANT TypeOK
INVARIANT OneAuth
INVARIANT AuthBeforeData
INVARIANT LoginIsFinal
