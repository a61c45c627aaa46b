SPECIFICATION MCSpec
CONSTANTS
  p1 = p1
  p2 = p2
  Parties = {p1, p2}
  Cores <- MCCores
  MaxOTParallel = 4
  MinWorkSize = 3
  Programs <- MCPrograms
  Policies = {"queued", "deferred"}
  Faulty = {p1}
INVARIANTS LinksConsistent InstanceExclusive Assembled
PROPERTIES Settles
