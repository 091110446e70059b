SPECIFICATION Spec
CONSTANTS
  ByteSize = 2
  Addr = {a1, a2, a3}
  NULL = NULL
  Types = {t1, t2}
  Ids = {0, 1}
  Flags = {f1, f2}
  KeepId = {f2}
SYMMETRY Symmetry
CHECK_DEADLOCK FALSE
INVARIANT ListIntact
INVARIANT NothingLeaked
PROPERTY ImplementsSequence
