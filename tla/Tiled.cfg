SPECIFICATION MCSpec
CONSTANTS
  Parties = {p1, p2}
  Shapes <- SmallShapes
  BlockSize = 2
  Policies = {"queued", "deferred"}
  Faulty = {p1}
INVARIANTS TypeOK Assembled ContextsOutlive
PROPERTIES Settles
