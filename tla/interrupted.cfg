SPECIFICATION Spec
CONSTANTS
  ByteSize = 4
  udpMaxRetries = 1
  CounterSize = 4
  Commands = {"AUTH"}
  ServerKinds = {"CONF","REPLY"}
  SrvIds = {1}
  ConfIds = {0}
  MaxTyped = 1
  MaxQueue = 2
  EofMarks = {TRUE}
  Duplicates = TRUE
  SigintAllowed = TRUE
  Spurious = FALSE
CHECK_DEADLOCK FALSE
INVARIANT NoUserDataAfterSigint
