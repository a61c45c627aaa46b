\* Two corrections that do not fit into a chunk each.
SPECIFICATION MCSpec
CONSTANTS
  Requests <- MCChunkedPairs
  FieldSize = 2
  BlockSize = 4
  ChunkSize = 4
  FlagSize = 2
  ErrSize = 2
  MayFail = FALSE
  MayBreak = FALSE
  None = None
INVARIANTS AdjustsInPlace
