SPECIFICATION Spec
CONSTANTS
  ByteSize = 4
  udpMaxRetries = 0
  CounterSize = 2
  Commands = {"AUTH","JOIN","MSG","EXIT"}
  ServerKinds = {"REPLY","BYE","ERR","UNKNOWN"}
  SrvIds = {}
  ConfIds = {}
  MaxTyped = 2
  MaxQueue = 3
  EofMarks = {FALSE}
  Duplicates = FALSE
  SigintAllowed = TRUE
  Spurious = TRUE
  MaxServer = 2
CHECK_DEADLOCK FALSE
INVARIANT DataAfterLogin
INVARIANT OneLoginAtATime
INVARIANT NoLogout
