\* Two parties with two threads each; the product may throw.
SPECIFICATION MCFairSpec
CONSTANTS
  NumOps = 4
  Values <- StepValues
  Params <- StepParams
  Operands <- StepOperands
  Captured <- StepCaptured
  Results <- StepResults
  SideEffect = {1}
  DbgPrint = {}
  Frees = {3}
  Comm = {2, 4}
  MayThrow = {2}
  Returned <- StepReturned
  Parties = {p1, p2}
  Threads = {t1, t2}
  NoThread = NoThread
INVARIANTS IInv NoLostWakeup PoolAwake NoCrossWait
PROPERTIES ImplementsBlock Settles
