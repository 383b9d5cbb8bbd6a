---------------------------- MODULE AlmOuterLoop ----------------------------
(***************************************************************************)
(* The control of run_alm_outer_loop (internal/outer_loop.cuh): the        *)
(* augmented-Lagrangian outer loop of one process.                         *)
(*                                                                         *)
(* Residuals, objective values and gradients are data.  What the control   *)
(* sees of them is kept: the primal residual as a level compared with the  *)
(* thresholds of the code, the gap and the dual residual as "clears its    *)
(* tolerance" or not, and each improvement test as a free choice, except   *)
(* in the first iteration, where the last_outer_* values are zero and the  *)
(* code takes the improvement to be 1.                                     *)
(*                                                                         *)
(* The numbers of iterations the code counts to are constants, under the   *)
(* names they have in the source.                                          *)
(***************************************************************************)
EXTENDS Integers

CONSTANTS
  gap_stall_augment_iters,         \* 5: stalled gaps before the early augmentation
  curvature_check_gap_stall_iters, \* 3: stalled gaps before a curvature check
  curvature_check_throttle_iters,  \* 1: outer iterations between curvature checks
  max_middle_iters,                \* 3
  max_curvature_escape_steps,      \* 3
  max_stall_uncv,                  \* 3: unconverged stalls before an augmentation
  max_lbfgs_maxiter_streak,        \* 3
  gate_pass_force_iters,           \* 10
  augment_check_max_gap,           \* 10: an augmentation check at least this often
  augment_cooldown_iters,          \* 5
  iteration_limit,
  MaxPenalty,          \* penalty_factor exponent at which max_penalty_coef caps
  TopLevel,            \* levels of the primal residual are 0..TopLevel
  RhoJumpSuppression,  \* levels below this are below rho_jump_suppression_threshold
  EpsPrimal,           \* levels below this are below eps_primal_relative
  AugmentPrimal        \* levels below this are below augment_primal_threshold

ASSUME LimitsAssumption ==
  /\ gap_stall_augment_iters \in Nat \ {0}
  /\ curvature_check_gap_stall_iters \in Nat \ {0}
  /\ curvature_check_throttle_iters \in Nat
  /\ max_middle_iters \in Nat \ {0}
  /\ max_curvature_escape_steps \in Nat \ {0}
  /\ max_stall_uncv \in Nat \ {0, 1}
  /\ max_lbfgs_maxiter_streak \in Nat \ {0}
  /\ gate_pass_force_iters \in Nat \ {0}
  /\ augment_check_max_gap \in Nat \ {0}
  /\ augment_cooldown_iters \in Nat
  /\ augment_cooldown_iters <= augment_check_max_gap
  /\ curvature_check_throttle_iters <= curvature_check_gap_stall_iters
  /\ curvature_check_gap_stall_iters < gap_stall_augment_iters
  /\ iteration_limit \in Nat \ {0}
  /\ MaxPenalty \in Nat

ASSUME LevelsAssumption ==
  /\ TopLevel \in Nat
  /\ RhoJumpSuppression \in Nat
  /\ EpsPrimal \in Nat
  /\ AugmentPrimal \in Nat

VARIABLES
  pc,                      \* the statement the loop is at
  cancel_requested,        \* the flag behind cardal_cancel_requested()
  termination_reason,
  num_outer_iteration,
  primal,                  \* level of relative_primal_residual
  gap_clears,              \* relative_objective_gap < eps_optimal_relative
  dual,                    \* relative_dual_residual
  gap_stall_count,
  curvature_last_check_iter,  \* -1 stands for the initial -10000
  lbfgs_exit_reason,
  middle_iter,             \* local to the middle loop: 0 outside it
  esc,                     \* escapes done in the current curvature check
  consecutive_gate_pass,
  force_augment_this_iter,
  penalty,                 \* exponent of penalty_factor in penalty_coef
  outer_stall_count,
  lbfgs_maxiter_streak,
  outer_iters_since_augment_check,
  inner_ran                \* history: the last middle loop ran an inner solve

loopVars == <<pc, cancel_requested, termination_reason, num_outer_iteration>>
readings == <<primal, gap_clears, dual>>
middleVars == <<gap_stall_count, curvature_last_check_iter, lbfgs_exit_reason,
                middle_iter, esc, inner_ran>>
gateVars == <<consecutive_gate_pass, force_augment_this_iter, penalty>>
stallVars == <<outer_stall_count, lbfgs_maxiter_streak,
               outer_iters_since_augment_check>>
vars == <<loopVars, readings, middleVars, gateVars, stallVars>>

Level == 0..TopLevel
ExitReason == {"GRAD_CONVERGED", "TAU_STALL", "MAX_ITERS"}
StationaryWithoutTauStall == {"GRAD_CONVERGED"}             \* mutant
Stationary == {"GRAD_CONVERGED", "TAU_STALL"}
DualReading == {"unset", "clears", "large"}   \* "unset" is the 1e30 of the code
Reason == {"UNSPECIFIED", "OPTIMAL", "TIME_LIMIT", "ITERATION_LIMIT",
           "USER_INTERRUPT"}
PC == {"head", "early_augment", "middle", "curvature", "detect", "resolve",
       "dual_step", "gate", "tail", "augment", "dual_check", "terminate", "done"}

\* What an improvement test (x_improvement < eps) can return: the last value
\* is zero on the first iteration, and the improvement is then taken to be 1.
StallTest == IF num_outer_iteration = 0 THEN {FALSE} ELSE BOOLEAN
-----------------------------------------------------------------------------
(* The counters that initialize_solver_state sets and those the loop resets *)
(* on entry.  What safe_calloc leaves at zero: the exit reason reads as      *)
(* LBFGS_GRAD_CONVERGED (the first tail sees it if no inner solve ran), the  *)
(* dual residual as cleared (every path writes it before the first test).    *)
Init ==
  /\ pc = "head"
  /\ cancel_requested \in BOOLEAN
  /\ termination_reason = "UNSPECIFIED"
  /\ num_outer_iteration = 0
  /\ primal = TopLevel
  /\ gap_clears = FALSE
  /\ dual = "clears"
  /\ gap_stall_count = 0
  /\ curvature_last_check_iter = -1
  /\ lbfgs_exit_reason = "GRAD_CONVERGED"
  /\ middle_iter = 0
  /\ esc = 0
  /\ inner_ran = FALSE
  /\ consecutive_gate_pass = 0
  /\ force_augment_this_iter = FALSE
  /\ penalty = 0
  /\ outer_stall_count = 0
  /\ lbfgs_maxiter_streak = 0
  /\ outer_iters_since_augment_check = 0

\* A signal handler sets the flag at any time while the loop runs.
RequestCancel ==
  /\ pc # "done"
  /\ ~cancel_requested
  /\ cancel_requested' = TRUE
  /\ UNCHANGED <<pc, termination_reason, num_outer_iteration, readings,
                 middleVars, gateVars, stallVars>>

\* Residual, gradient and gap at the current point, then the choice between
\* the early augmentation and the middle loop.
Head ==
  /\ pc = "head"
  /\ primal' \in Level
  /\ gap_clears' \in BOOLEAN
  /\ \E gap_stalled \in StallTest :
       gap_stall_count' = IF gap_stalled THEN gap_stall_count + 1 ELSE 0
  /\ IF gap_stall_count' >= gap_stall_augment_iters /\ primal' < AugmentPrimal
     THEN pc' = "early_augment" /\ UNCHANGED inner_ran
     ELSE pc' = "middle" /\ inner_ran' = FALSE
  /\ UNCHANGED <<cancel_requested, termination_reason, num_outer_iteration,
                 dual, curvature_last_check_iter, lbfgs_exit_reason,
                 middle_iter, esc, gateVars, stallVars>>

\* The augmentation that skips the middle loop, the dual update and the gate.
EarlyAugment ==
  /\ pc = "early_augment"
  /\ dual' \in {"clears", "large"}
  /\ gap_stall_count' = 0
  /\ pc' = "terminate"
  /\ UNCHANGED <<cancel_requested, termination_reason, num_outer_iteration,
                 primal, gap_clears, curvature_last_check_iter,
                 lbfgs_exit_reason, middle_iter, esc, inner_ran, gateVars,
                 stallVars>>

\* The gradient is NaN or infinite: the middle loop is left before the solve.
GradientNotFinite ==
  /\ pc = "middle"
  /\ pc' = "gate"
  /\ UNCHANGED <<cancel_requested, termination_reason, num_outer_iteration,
                 readings, middleVars, gateVars, stallVars>>

ItersSinceCurvatureCheckOk ==
  \/ curvature_last_check_iter < 0
  \/ num_outer_iteration - curvature_last_check_iter
       >= curvature_check_throttle_iters

InnerSolve ==
  /\ pc = "middle"
  /\ lbfgs_exit_reason' \in ExitReason
  /\ inner_ran' = TRUE
  /\ pc' = IF /\ lbfgs_exit_reason' \in Stationary
              /\ gap_stall_count >= curvature_check_gap_stall_iters
              /\ ItersSinceCurvatureCheckOk
           THEN "curvature" ELSE "dual_step"
  /\ UNCHANGED <<cancel_requested, termination_reason, num_outer_iteration,
                 readings, gap_stall_count, curvature_last_check_iter,
                 middle_iter, esc, gateVars, stallVars>>

StartCurvatureCheckKeepingCount ==                          \* mutant
  /\ pc = "curvature"
  /\ curvature_last_check_iter' = num_outer_iteration
  /\ pc' = "detect"
  /\ UNCHANGED <<cancel_requested, termination_reason, num_outer_iteration,
                 readings, gap_stall_count, lbfgs_exit_reason, middle_iter,
                 esc, inner_ran, gateVars, stallVars>>

\* The check starts by recording when it ran and clearing the stall count.
StartCurvatureCheck ==
  /\ pc = "curvature"
  /\ curvature_last_check_iter' = num_outer_iteration
  /\ gap_stall_count' = 0
  /\ pc' = "detect"
  /\ UNCHANGED <<cancel_requested, termination_reason, num_outer_iteration,
                 readings, lbfgs_exit_reason, middle_iter, esc, inner_ran,
                 gateVars, stallVars>>

\* DETECT_NEGATIVE_CURVATURE_AND_ESCAPE returns 0: the escape loop ends.
NoEscape ==
  /\ pc = "detect"
  /\ pc' = "dual_step"
  /\ UNCHANGED <<cancel_requested, termination_reason, num_outer_iteration,
                 readings, middleVars, gateVars, stallVars>>

Escape ==
  /\ pc = "detect"
  /\ pc' = "resolve"
  /\ UNCHANGED <<cancel_requested, termination_reason, num_outer_iteration,
                 readings, middleVars, gateVars, stallVars>>

SolveAfterEscapeUncounted ==                                \* mutant
  /\ pc = "resolve"
  /\ lbfgs_exit_reason' \in ExitReason
  /\ pc' = "detect"
  /\ UNCHANGED <<cancel_requested, termination_reason, num_outer_iteration,
                 readings, gap_stall_count, curvature_last_check_iter,
                 middle_iter, esc, inner_ran, gateVars, stallVars>>

\* Residual, gradient and inner solve from the point escaped to.
SolveAfterEscape ==
  /\ pc = "resolve"
  /\ lbfgs_exit_reason' \in ExitReason
  /\ esc' = esc + 1
  /\ pc' = IF esc' < max_curvature_escape_steps THEN "detect" ELSE "dual_step"
  /\ UNCHANGED <<cancel_requested, termination_reason, num_outer_iteration,
                 readings, gap_stall_count, curvature_last_check_iter,
                 middle_iter, inner_ran, gateVars, stallVars>>

\* The multiplier update, then residual and gradient; the middle loop ends
\* after max_middle_iters or when the residual hardly improved.
DualStep ==
  /\ pc = "dual_step"
  /\ middle_iter' = middle_iter + 1
  /\ \E stalled \in BOOLEAN :
       pc' = IF stalled \/ middle_iter' = max_middle_iters
             THEN "gate" ELSE "middle"
  /\ esc' = 0
  /\ UNCHANGED <<cancel_requested, termination_reason, num_outer_iteration,
                 readings, gap_stall_count, curvature_last_check_iter,
                 lbfgs_exit_reason, inner_ran, gateVars, stallVars>>

\* The LANCELOT gate.  relative_primal_residual is still the head's reading.
Gate ==
  /\ pc = "gate"
  /\ \E eta_gate_passed \in BOOLEAN :
       LET allow_rho_jump == ~eta_gate_passed /\ primal >= RhoJumpSuppression
           force_combo == /\ ~allow_rho_jump
                          /\ consecutive_gate_pass + 1 >= gate_pass_force_iters
       IN  /\ consecutive_gate_pass' =
                IF allow_rho_jump \/ force_combo THEN 0
                ELSE consecutive_gate_pass + 1
           /\ penalty' = IF (force_combo \/ allow_rho_jump) /\ penalty < MaxPenalty
                         THEN penalty + 1 ELSE penalty
           /\ force_augment_this_iter' = (force_augment_this_iter \/ force_combo)
  /\ pc' = "tail"
  /\ middle_iter' = 0
  /\ UNCHANGED <<cancel_requested, termination_reason, num_outer_iteration,
                 readings, gap_stall_count, curvature_last_check_iter,
                 lbfgs_exit_reason, esc, inner_ran, stallVars>>

\* The rules by which Tail decides to probe the dual slack and augment.

\* A stall asks at once after a converged solve, else when it has repeated.
StallAsks(stalled) ==
  /\ stalled
  /\ \/ lbfgs_exit_reason = "GRAD_CONVERGED"
     \/ outer_stall_count + 1 >= max_stall_uncv

\* A streak of exhausted solves asks when no stall did.
StreakAsks(by_stall) ==
  /\ lbfgs_exit_reason = "MAX_ITERS"
  /\ ~by_stall
  /\ lbfgs_maxiter_streak + 1 >= max_lbfgs_maxiter_streak

\* The streak after this iteration: only its own request resets it early.
NextStreakUnreset(by_streak) ==                             \* mutant
  IF lbfgs_exit_reason = "MAX_ITERS" THEN lbfgs_maxiter_streak + 1 ELSE 0
NextStreak(by_streak) ==
  IF lbfgs_exit_reason = "MAX_ITERS" /\ ~by_streak
  THEN lbfgs_maxiter_streak + 1 ELSE 0

\* The periodic rule.
PeriodAsksNever(since) == FALSE                             \* mutant
PeriodAsks(since) == since >= augment_check_max_gap

\* The cooldown revokes what the three rules ask for; nothing revokes the
\* augmentation that the gate forces.
ShouldAugmentAllCooled(asked, since) ==                     \* mutant
  (asked \/ force_augment_this_iter) /\ since >= augment_cooldown_iters
ShouldAugment(asked, since) ==
  (asked /\ since >= augment_cooldown_iters) \/ force_augment_this_iter

\* Gap and primal residual of the iteration, then the decision to augment.
Tail ==
  /\ pc = "tail"
  /\ primal' \in Level
  /\ gap_clears' \in BOOLEAN
  /\ dual' = "unset"
  /\ \E primal_stalled, gap_stalled \in StallTest :
       LET stalled == primal_stalled \/ gap_stalled
           by_stall == StallAsks(stalled)
           by_streak == StreakAsks(by_stall)
           since == outer_iters_since_augment_check + 1
           should_augment ==
             ShouldAugment(by_stall \/ by_streak \/ PeriodAsks(since), since)
       IN  /\ outer_stall_count' = IF stalled /\ ~by_stall
                                   THEN outer_stall_count + 1 ELSE 0
           /\ lbfgs_maxiter_streak' = NextStreak(by_streak)
           /\ outer_iters_since_augment_check' = IF should_augment THEN 0 ELSE since
           /\ pc' = IF should_augment THEN "augment"
                    ELSE IF primal' < EpsPrimal /\ gap_clears'
                         THEN "dual_check" ELSE "terminate"
  /\ force_augment_this_iter' = FALSE
  /\ UNCHANGED <<cancel_requested, termination_reason, num_outer_iteration,
                 middleVars, consecutive_gate_pass, penalty>>

\* update_dual_slack_S and CHECK_DUAL_INFEASIBILITY_AND_AUGMENT.
Augment ==
  /\ pc = "augment"
  /\ dual' \in {"clears", "large"}
  /\ pc' = "terminate"
  /\ UNCHANGED <<cancel_requested, termination_reason, num_outer_iteration,
                 primal, gap_clears, middleVars, gateVars, stallVars>>

\* update_dual_slack_S and CHECK_DUAL_INFEASIBILITY.
DualCheck ==
  /\ pc = "dual_check"
  /\ dual' \in {"clears", "large"}
  /\ pc' = "terminate"
  /\ UNCHANGED <<cancel_requested, termination_reason, num_outer_iteration,
                 primal, gap_clears, middleVars, gateVars, stallVars>>

check_termination_optimal_first(iterations, overtime) ==    \* mutant
  IF primal < EpsPrimal /\ dual = "clears" /\ gap_clears THEN "OPTIMAL"
  ELSE IF cancel_requested THEN "USER_INTERRUPT"
  ELSE IF overtime THEN "TIME_LIMIT"
  ELSE IF iterations >= iteration_limit THEN "ITERATION_LIMIT"
  ELSE "UNSPECIFIED"

\* check_termination: the tests in the order of the code.
check_termination(iterations, overtime) ==
  IF cancel_requested THEN "USER_INTERRUPT"
  ELSE IF primal < EpsPrimal /\ dual = "clears" /\ gap_clears THEN "OPTIMAL"
  ELSE IF overtime THEN "TIME_LIMIT"
  ELSE IF iterations >= iteration_limit THEN "ITERATION_LIMIT"
  ELSE "UNSPECIFIED"

Terminate ==
  /\ pc = "terminate"
  /\ num_outer_iteration' = num_outer_iteration + 1
  /\ \E overtime \in BOOLEAN :
       termination_reason' = check_termination(num_outer_iteration + 1, overtime)
  /\ pc' = IF termination_reason' = "UNSPECIFIED" THEN "head" ELSE "done"
  /\ UNCHANGED <<cancel_requested, readings, middleVars, gateVars, stallVars>>

Step ==
  \/ Head \/ EarlyAugment \/ GradientNotFinite \/ InnerSolve
  \/ StartCurvatureCheck \/ NoEscape \/ Escape \/ SolveAfterEscape \/ DualStep
  \/ Gate \/ Tail \/ Augment \/ DualCheck \/ Terminate

Next == Step \/ RequestCancel

\* The loop is sequential host code: it keeps taking steps.  Nothing obliges
\* the user to cancel.
Spec == Init /\ [][Next]_vars /\ WF_vars(Step)
-----------------------------------------------------------------------------
(* Properties. *)

\* The flags and the enumerations.
FlagsOK ==
  /\ pc \in PC
  /\ cancel_requested \in BOOLEAN
  /\ termination_reason \in Reason
  /\ gap_clears \in BOOLEAN
  /\ dual \in DualReading
  /\ lbfgs_exit_reason \in ExitReason
  /\ inner_ran \in BOOLEAN
  /\ force_augment_this_iter \in BOOLEAN

\* The counters; each heuristic counter stays below the limit that resets it.
CountersOK ==
  /\ num_outer_iteration \in 0..iteration_limit
  /\ primal \in Level
  /\ gap_stall_count \in Nat
  /\ curvature_last_check_iter \in -1..num_outer_iteration
  /\ middle_iter \in 0..max_middle_iters
  /\ esc \in 0..max_curvature_escape_steps
  /\ penalty \in 0..MaxPenalty
  /\ consecutive_gate_pass \in 0..(gate_pass_force_iters - 1)
  /\ outer_stall_count \in 0..(max_stall_uncv - 1)
  /\ lbfgs_maxiter_streak \in Nat
  /\ outer_iters_since_augment_check \in 0..(augment_check_max_gap - 1)

\* Every variable stays in its range.  In particular the periodic rule works
\* in spite of the cooldown: no augment_check_max_gap iterations of the full
\* loop go by without an augmentation check.
TypeOK == FlagsOK /\ CountersOK

\* The streak of exhausted inner solves is reset only when the streak itself
\* asks for the augmentation, so it passes its limit unreset whenever a stall
\* asked first.  It still never runs away: it exceeds the limit minus one only
\* right after a stall augmentation, whose own counter was just reset.
StreakBounded ==
  /\ lbfgs_maxiter_streak <= max_lbfgs_maxiter_streak
  /\ lbfgs_maxiter_streak = max_lbfgs_maxiter_streak => outer_stall_count = 0

\* The early augmentation needs more stalled gaps than a curvature check, and
\* a check clears the count.  So it is reached only when the last inner solve
\* ran out of iterations: a stationary point is first examined for negative
\* curvature, although no rule of that path mentions the exit reason.
EarlyAugmentNeedsExhaustedSolve ==
  pc = "early_augment" /\ inner_ran => lbfgs_exit_reason = "MAX_ITERS"

\* Two curvature checks are at least curvature_check_gap_stall_iters outer
\* iterations apart: the explicit throttle is weaker than what the shared
\* gap_stall_count already imposes.
CurvatureChecksSpaced ==
  [][curvature_last_check_iter' # curvature_last_check_iter
       /\ curvature_last_check_iter >= 0
     => num_outer_iteration - curvature_last_check_iter
          >= curvature_check_gap_stall_iters]_vars

\* A forced rho jump and its augmentation happen in the same outer iteration,
\* whatever the cooldown says: no iteration ends with the request pending, and
\* one that had it went through the augmentation.
ForcedAugmentInLockstep ==
  [][force_augment_this_iter /\ pc' # pc => pc' = "augment"]_vars

\* The loop ends: the iteration limit is reached if nothing else stops it.
Terminates == <>(pc = "done")

\* Once requested, a cancellation is what the solve reports, even when the
\* same check could have declared optimality or a limit.
CancelHonoured == cancel_requested ~> termination_reason = "USER_INTERRUPT"
-----------------------------------------------------------------------------
(* The strengthening that makes the properties inductive, by parts.        *)

\* The loop variables of the middle and of the escape loop.
LoopsInv ==
  /\ pc \in {"middle", "curvature", "detect", "resolve", "dual_step"}
       => middle_iter < max_middle_iters
  /\ pc \notin {"middle", "curvature", "detect", "resolve", "dual_step", "gate"}
       => middle_iter = 0
  /\ pc \in {"detect", "resolve"} => esc < max_curvature_escape_steps
  /\ pc \notin {"detect", "resolve", "dual_step"} => esc = 0
  /\ pc # "done" => num_outer_iteration < iteration_limit

\* What gap_stall_count says about the last curvature check and the last solve.
GapStallInv ==
  /\ curvature_last_check_iter >= 0 =>
       gap_stall_count + curvature_last_check_iter
         + (IF pc = "head" THEN 1 ELSE 0) <= num_outer_iteration
  /\ pc = "curvature" => gap_stall_count >= curvature_check_gap_stall_iters
  /\ pc \in {"detect", "resolve"} => gap_stall_count = 0
  /\ /\ inner_ran
     /\ gap_stall_count >= curvature_check_gap_stall_iters
     /\ pc # "curvature"
     => lbfgs_exit_reason = "MAX_ITERS"
  /\ pc = "early_augment" => gap_stall_count > curvature_check_gap_stall_iters

\* The request to force an augmentation lives between the gate and the tail.
ForceInv == force_augment_this_iter => pc = "tail"

IInv == TypeOK /\ LoopsInv /\ GapStallInv /\ ForceInv /\ StreakBounded
=============================================================================
