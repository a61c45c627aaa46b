\* Two operations of a block, in two contexts, multiply by the same variable.
SPECIFICATION MCSpec
CONSTANTS
  Scenarios = {"forks"}
  p1 = p1 p2 = p2 t1 = t1 t2 = t2 v = v w = w a1 = a1 a2 = a2 a3 = a3
  None = None
  Party = {p1, p2}
  Var = {v, w}
  Addr = {a1, a2, a3}
  Thread = {t1, t2}
  Kinds = {"mul"}
  Uses <- Shared
  Awaits <- AtOnce
  Marked = {v}
  DropsFirst = TRUE
  Vectorize = TRUE
  MaxOps = 2
  MaxGen = 0
SYMMETRY Symmetric
INVARIANTS SetCacheChecks
