\* Every response arrives, or the call throws; and every call ends.
SPECIFICATION MCSpec
CONSTANTS
  Requests <- MCRequests
  FieldSize = 2
  BlockSize = 4
  ChunkSize = 4
  FlagSize = 2
  ErrSize = 2
  MayFail = TRUE
  MayBreak = TRUE
  None = None
INVARIANTS AdjustsInPlace ResponseAccepted
PROPERTIES CallEnds
