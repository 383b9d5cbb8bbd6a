SPECIFICATION LayoutSpec
CONSTANTS
  n_blks = 4
  dim <- MCDim
  theoretical_max_rank <- MCMaxRank
  initial_rank = 1
  LpDims = {0, 2}
  FreeDims = {0, 1}
  small_cone_dim_threshold = 3
  min_batch_size = 2
  MaxDirections = 2
CHECK_DEADLOCK FALSE
INVARIANT LayoutOK
INVARIANT ReadersFindTheirNumbers
INVARIANT VectorIsFilled
INVARIANT FactorCompleteWithLp
