SPECIFICATION MCSpec
CONSTANTS
  NumOps = 8
  Values <- FreedValues
  Params <- FreedParams
  Operands <- FreedOperands
  Captured <- FreedCaptured
  Results <- FreedResults
  SideEffect = {2}
  DbgPrint = {}
  Frees = {3, 6, 8}
  Comm = {2, 4, 7}
  MayThrow = {4}
  Returned <- FreedReturned
  Parties = {p1, p2, p3}
INVARIANTS IInv NoUseAfterFree
PROPERTIES ImplementsBlock Settles
