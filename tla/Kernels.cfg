CONSTANTS
  K = 4
  Widths = {2, 4}
  BlockBits = 8
  Jobs <- MCJobs
SPECIFICATION MCSpec
INVARIANTS
  Consistent
  StreamsPaired
  NothingAstray
  Authentic

  
