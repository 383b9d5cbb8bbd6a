SPECIFICATION WorkspaceSpec
CONSTANTS
  gap_stall_augment_iters = 3
  curvature_check_gap_stall_iters = 2
  curvature_check_throttle_iters = 1
  max_middle_iters = 2
  max_curvature_escape_steps = 2
  max_stall_uncv = 2
  max_lbfgs_maxiter_streak = 2
  gate_pass_force_iters = 2
  augment_check_max_gap = 4
  augment_cooldown_iters = 2
  iteration_limit = 5
  MaxPenalty = 1
  TopLevel = 2
  RhoJumpSuppression = 1
  EpsPrimal = 1
  AugmentPrimal = 2
CHECK_DEADLOCK FALSE
INVARIANT BuffersOK
INVARIANT SolverReadsCurrentPoint
INVARIANT DecisionsReadCurrentPoint
INVARIANT ProbeReadsCurrentPoint
INVARIANT OptimalMeasuredUnlessLifted
INVARIANT TypeOK
INVARIANT StreakBounded
INVARIANT EarlyAugmentNeedsExhaustedSolve
PROPERTY CurvatureChecksSpaced
PROPERTY ForcedAugmentInLockstep
PROPERTY Terminates
PROPERTY CancelHonoured
