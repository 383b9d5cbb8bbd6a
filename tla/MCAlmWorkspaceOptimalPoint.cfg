SPECIFICATION WorkspaceSpec
CONSTANTS
  gap_stall_augment_iters = 3
  curvature_check_gap_stall_iters = 1
  curvature_check_throttle_iters = 1
  max_middle_iters = 2
  max_curvature_escape_steps = 2
  max_stall_uncv = 2
  max_lbfgs_maxiter_streak = 2
  gate_pass_force_iters = 2
  augment_check_max_gap = 3
  augment_cooldown_iters = 1
  iteration_limit = 4
  MaxPenalty = 1
  TopLevel = 1
  RhoJumpSuppression = 1
  EpsPrimal = 1
  AugmentPrimal = 1
CHECK_DEADLOCK FALSE
INVARIANT OptimalMeasuresReturnedPoint
