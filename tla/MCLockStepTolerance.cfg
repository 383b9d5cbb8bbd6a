CONSTANTS
  world_size = 2
  Setups <- MCTwoRows
  low_rank_objective = TRUE
  inner_iterations_limit = 2
  LANCZOS_K = 3
  power_iterations = 1
  NEGATIVE_CURVATURE_LANCZOS_K = 1
  per_cone_cap = 2
  global_cap = 2
SPECIFICATION Spec
INVARIANT SomeoneMoves
CHECK_DEADLOCK FALSE
