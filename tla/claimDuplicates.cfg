SPECIFICATION OpenSpec
CONSTANTS
  ByteSize = 4
  udpMaxRetries = 1
  CounterSize = 4
  Commands = {"OTHER"}
  ServerKinds = {"MSG"}
  SrvIds = {2}
  ConfIds = {0,1}
  MaxTyped = 1
  MaxQueue = 3
  EofMarks = {FALSE}
  Duplicates = TRUE
  SigintAllowed = FALSE
  Spurious = FALSE
CHECK_DEADLOCK FALSE
INVARIANT DuplicatesControlled
