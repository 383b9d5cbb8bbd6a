CONSTANTS
  num_constraints = 2
  blk_dims <- MCBlkDims
  lp_dim = 1
  free_dim = 1
  Givens <- MCGivens
  Settings <- MCSettings
  Solutions <- MCSolutions
  Epsilon <- MCEpsilon
  pc_max_diag = 2
SPECIFICATION Spec
INVARIANTS
  TypeOK
  Recorded
  CumulativeCap
  PerConeUniform
  SolvesTheCallersProblem
CHECK_DEADLOCK FALSE
