CONSTANTS
  num_constraints = 3
  blk_dims <- MCBlkDims
  lp_dim = 1
  free_dim = 1
  Epsilon <- MCEpsilon
  pc_max_diag = 2
  small_dim = 1
  min_batch = 1
  world_size = 4
  Calls <- MCConeSplitCalls
  block_size = 2
  CHUNK_SIZE = 40
  initial_rank = 2
  max_rank = 0
  Growth = {0, 1}
  Factor <- MCFactor
  LinearShare <- MCLinearShare
  Multiplier <- MCMultiplier
SPECIFICATION Spec
INVARIANT ConsolidatedPrimal
