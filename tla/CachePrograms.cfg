\* Contexts one after the other: products, the lives of variables, replays
\* of what an earlier context has cached.
SPECIFICATION MCSpec
CONSTANTS
  Scenarios = {"products", "lives", "joins"}
  p1 = p1 p2 = p2 t1 = t1 t2 = t2 v = v w = w a1 = a1 a2 = a2 a3 = a3
  None = None
  Party = {p1, p2}
  Var = {v, w}
  Addr = {a1, a2, a3}
  Thread = {t1, t2}
  Kinds = {"mul", "dot", "square", "enable", "disable", "replace"}
  Uses <- Shared
  Awaits <- InTurn
  Marked = {v}
  DropsFirst = TRUE
  Vectorize = TRUE
  MaxOps = 3
  MaxGen = 2
SYMMETRY Symmetric
INVARIANTS IInv OpeningsMatch CachesAgree MarkedOnly
