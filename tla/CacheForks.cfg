\* Two contexts share the cache, each with a variable of its own.
SPECIFICATION MCFairSpec
CONSTANTS
  Scenarios = {"forks"}
  p1 = p1 p2 = p2 t1 = t1 t2 = t2 v = v w = w a1 = a1 a2 = a2 a3 = a3
  None = None
  Party = {p1, p2}
  Var = {v, w}
  Addr = {a1, a2}
  Thread = {t1, t2}
  Kinds = {"mul", "disable"}
  Uses <- Apart
  Awaits <- AtOnce
  Marked = {v, w}
  DropsFirst = TRUE
  Vectorize = FALSE
  MaxOps = 2
  MaxGen = 0
INVARIANTS MessagesAgree SetCacheChecks
PROPERTIES ProductsReturn
