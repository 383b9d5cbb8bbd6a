------------------------- MODULE AlmWorkspace_proofs -------------------------
(***************************************************************************)
(* Safety of the outer loop and of the buffers it shares with the inner    *)
(* solver, for every value of the loop's limits and thresholds.  IInv is   *)
(* inductive for the control (AlmOuterLoop); WorkspaceInv, which says what *)
(* the buffers hold where they are read, is inductive beside it.           *)
(***************************************************************************)
EXTENDS AlmWorkspace, TLAPS

-----------------------------------------------------------------------------
(* The control: AlmOuterLoop.                                              *)

\* The counters start below their limits.
LEMMA InitIInv == Init => IInv
<1> SUFFICES ASSUME Init PROVE IInv
  OBVIOUS
<1> USE LimitsAssumption, LevelsAssumption DEF Init
<1>1. FlagsOK
  BY DEF FlagsOK, PC, Reason, DualReading, ExitReason
<1>2. CountersOK
  BY DEF CountersOK, Level
<1>3. LoopsInv
  BY DEF LoopsInv
<1>4. GapStallInv /\ ForceInv /\ StreakBounded
  BY DEF GapStallInv, ForceInv, StreakBounded
<1> QED
  BY <1>1, <1>2, <1>3, <1>4 DEF IInv, TypeOK

\* The head counts a stalled gap once and enters the early augmentation only
\* above the curvature threshold.
LEMMA HeadIInv == ASSUME IInv, Head PROVE IInv'
<1> USE LimitsAssumption, LevelsAssumption
    DEF Head, IInv, TypeOK, readings, middleVars, gateVars, stallVars
<1>1. FlagsOK'
  BY DEF FlagsOK, PC
<1>2. CountersOK'
  BY DEF CountersOK, Level, StallTest
<1>3. LoopsInv'
  BY DEF LoopsInv, CountersOK
<1>4. GapStallInv'
  BY DEF GapStallInv, CountersOK
<1>5. ForceInv'
  BY DEF ForceInv, FlagsOK
<1>6. StreakBounded'
  BY DEF StreakBounded, CountersOK
<1> QED
  BY <1>1, <1>2, <1>3, <1>4, <1>5, <1>6

\* The early augmentation clears the gap count and touches nothing else.
LEMMA EarlyAugmentIInv == ASSUME IInv, EarlyAugment PROVE IInv'
<1> USE LimitsAssumption, LevelsAssumption
    DEF EarlyAugment, IInv, TypeOK, readings, middleVars, gateVars, stallVars
<1>1. FlagsOK'
  BY DEF FlagsOK, PC, DualReading
<1>2. CountersOK'
  BY DEF CountersOK
<1>3. LoopsInv'
  BY DEF LoopsInv, CountersOK
<1>4. GapStallInv'
  BY DEF GapStallInv, CountersOK
<1>5. ForceInv'
  BY DEF ForceInv, FlagsOK
<1>6. StreakBounded'
  BY DEF StreakBounded, CountersOK
<1> QED
  BY <1>1, <1>2, <1>3, <1>4, <1>5, <1>6

\* Leaving the middle loop for a bad gradient changes no counter.
LEMMA GradientNotFiniteIInv == ASSUME IInv, GradientNotFinite PROVE IInv'
<1> USE LimitsAssumption, LevelsAssumption
    DEF GradientNotFinite, IInv, TypeOK, readings, middleVars, gateVars, stallVars
<1>1. FlagsOK'
  BY DEF FlagsOK, PC
<1>2. CountersOK'
  BY DEF CountersOK
<1>3. LoopsInv'
  BY DEF LoopsInv, CountersOK
<1>4. GapStallInv'
  BY DEF GapStallInv, CountersOK
<1>5. ForceInv'
  BY DEF ForceInv, FlagsOK
<1>6. StreakBounded'
  BY DEF StreakBounded, CountersOK
<1> QED
  BY <1>1, <1>2, <1>3, <1>4, <1>5, <1>6

\* A stationary solve under a stalled gap goes to the curvature check, because
\* the throttle can never refuse it.
LEMMA InnerSolveIInv == ASSUME IInv, InnerSolve PROVE IInv'
<1> USE LimitsAssumption, LevelsAssumption
    DEF InnerSolve, IInv, TypeOK, readings, middleVars, gateVars, stallVars
<1>1. FlagsOK'
  BY DEF FlagsOK, PC, ExitReason
<1>2. CountersOK'
  BY DEF CountersOK
<1>3. LoopsInv'
  BY DEF LoopsInv, CountersOK
<1>4. GapStallInv'
  BY DEF GapStallInv, CountersOK, ExitReason, Stationary,
         ItersSinceCurvatureCheckOk
<1>5. ForceInv'
  BY DEF ForceInv, FlagsOK
<1>6. StreakBounded'
  BY DEF StreakBounded, CountersOK
<1> QED
  BY <1>1, <1>2, <1>3, <1>4, <1>5, <1>6

\* The check stamps the iteration and clears the gap count together.
LEMMA StartCurvatureCheckIInv == ASSUME IInv, StartCurvatureCheck PROVE IInv'
<1> USE LimitsAssumption, LevelsAssumption
    DEF StartCurvatureCheck, IInv, TypeOK, readings, middleVars, gateVars, stallVars
<1>1. FlagsOK'
  BY DEF FlagsOK, PC
<1>2. CountersOK'
  BY DEF CountersOK
<1>3. LoopsInv'
  BY DEF LoopsInv, CountersOK
<1>4. GapStallInv'
  BY DEF GapStallInv, CountersOK
<1>5. ForceInv'
  BY DEF ForceInv, FlagsOK
<1>6. StreakBounded'
  BY DEF StreakBounded, CountersOK
<1> QED
  BY <1>1, <1>2, <1>3, <1>4, <1>5, <1>6

\* No escape: only the program counter moves.
LEMMA NoEscapeIInv == ASSUME IInv, NoEscape PROVE IInv'
<1> USE LimitsAssumption, LevelsAssumption
    DEF NoEscape, IInv, TypeOK, readings, middleVars, gateVars, stallVars
<1>1. FlagsOK'
  BY DEF FlagsOK, PC
<1>2. CountersOK'
  BY DEF CountersOK
<1>3. LoopsInv'
  BY DEF LoopsInv, CountersOK
<1>4. GapStallInv'
  BY DEF GapStallInv, CountersOK
<1>5. ForceInv'
  BY DEF ForceInv, FlagsOK
<1>6. StreakBounded'
  BY DEF StreakBounded, CountersOK
<1> QED
  BY <1>1, <1>2, <1>3, <1>4, <1>5, <1>6

\* An escape: only the program counter moves.
LEMMA EscapeIInv == ASSUME IInv, Escape PROVE IInv'
<1> USE LimitsAssumption, LevelsAssumption
    DEF Escape, IInv, TypeOK, readings, middleVars, gateVars, stallVars
<1>1. FlagsOK'
  BY DEF FlagsOK, PC
<1>2. CountersOK'
  BY DEF CountersOK
<1>3. LoopsInv'
  BY DEF LoopsInv, CountersOK
<1>4. GapStallInv'
  BY DEF GapStallInv, CountersOK
<1>5. ForceInv'
  BY DEF ForceInv, FlagsOK
<1>6. StreakBounded'
  BY DEF StreakBounded, CountersOK
<1> QED
  BY <1>1, <1>2, <1>3, <1>4, <1>5, <1>6

\* The solve after an escape changes the exit reason while the count is zero.
LEMMA SolveAfterEscapeIInv == ASSUME IInv, SolveAfterEscape PROVE IInv'
<1> USE LimitsAssumption, LevelsAssumption
    DEF SolveAfterEscape, IInv, TypeOK, readings, middleVars, gateVars, stallVars
<1>1. FlagsOK'
  BY DEF FlagsOK, PC, ExitReason
<1>2. CountersOK'
  BY DEF CountersOK, LoopsInv
<1>3. LoopsInv'
  BY DEF LoopsInv, CountersOK
<1>4. GapStallInv'
  BY DEF GapStallInv, CountersOK
<1>5. ForceInv'
  BY DEF ForceInv, FlagsOK
<1>6. StreakBounded'
  BY DEF StreakBounded, CountersOK
<1> QED
  BY <1>1, <1>2, <1>3, <1>4, <1>5, <1>6

\* The multiplier step ends the middle loop within its limit.
LEMMA DualStepIInv == ASSUME IInv, DualStep PROVE IInv'
<1> USE LimitsAssumption, LevelsAssumption
    DEF DualStep, IInv, TypeOK, readings, middleVars, gateVars, stallVars
<1>1. FlagsOK'
  BY DEF FlagsOK, PC
<1>2. CountersOK'
  BY DEF CountersOK, LoopsInv
<1>3. LoopsInv'
  BY DEF LoopsInv, CountersOK
<1>4. GapStallInv'
  BY DEF GapStallInv, CountersOK
<1>5. ForceInv'
  BY DEF ForceInv, FlagsOK
<1>6. StreakBounded'
  BY DEF StreakBounded, CountersOK
<1> QED
  BY <1>1, <1>2, <1>3, <1>4, <1>5, <1>6

\* The gate counts passes below their limit and raises the request to force.
LEMMA GateIInv == ASSUME IInv, Gate PROVE IInv'
<1> USE LimitsAssumption, LevelsAssumption
    DEF Gate, IInv, TypeOK, readings, middleVars, gateVars, stallVars
<1>1. FlagsOK'
  BY DEF FlagsOK, PC
<1>2. CountersOK'
  BY DEF CountersOK
<1>3. LoopsInv'
  BY DEF LoopsInv, CountersOK
<1>4. GapStallInv'
  BY DEF GapStallInv, CountersOK
<1>5. ForceInv'
  BY DEF ForceInv, FlagsOK
<1>6. StreakBounded'
  BY DEF StreakBounded, CountersOK
<1> QED
  BY <1>1, <1>2, <1>3, <1>4, <1>5, <1>6

\* The tail resets each heuristic counter when it reaches its limit and
\* consumes the request to force.
LEMMA TailIInv == ASSUME IInv, Tail PROVE IInv'
<1> USE LimitsAssumption, LevelsAssumption
    DEF Tail, IInv, TypeOK, readings, middleVars, gateVars, stallVars,
        StallAsks, StreakAsks, NextStreak, PeriodAsks, ShouldAugment
<1>1. FlagsOK'
  BY DEF FlagsOK, PC, DualReading
<1>2. CountersOK'
  BY DEF CountersOK, Level, StallTest
<1>3. LoopsInv'
  BY DEF LoopsInv, CountersOK
<1>4. GapStallInv'
  BY DEF GapStallInv, CountersOK
<1>5. ForceInv'
  BY DEF ForceInv, FlagsOK
<1>6. StreakBounded'
  BY DEF StreakBounded, CountersOK
<1> QED
  BY <1>1, <1>2, <1>3, <1>4, <1>5, <1>6

\* The augmentation only writes the dual reading.
LEMMA AugmentIInv == ASSUME IInv, Augment PROVE IInv'
<1> USE LimitsAssumption, LevelsAssumption
    DEF Augment, IInv, TypeOK, readings, middleVars, gateVars, stallVars
<1>1. FlagsOK'
  BY DEF FlagsOK, PC, DualReading
<1>2. CountersOK'
  BY DEF CountersOK
<1>3. LoopsInv'
  BY DEF LoopsInv, CountersOK
<1>4. GapStallInv'
  BY DEF GapStallInv, CountersOK
<1>5. ForceInv'
  BY DEF ForceInv, FlagsOK
<1>6. StreakBounded'
  BY DEF StreakBounded, CountersOK
<1> QED
  BY <1>1, <1>2, <1>3, <1>4, <1>5, <1>6

\* The dual check only writes the dual reading.
LEMMA DualCheckIInv == ASSUME IInv, DualCheck PROVE IInv'
<1> USE LimitsAssumption, LevelsAssumption
    DEF DualCheck, IInv, TypeOK, readings, middleVars, gateVars, stallVars
<1>1. FlagsOK'
  BY DEF FlagsOK, PC, DualReading
<1>2. CountersOK'
  BY DEF CountersOK
<1>3. LoopsInv'
  BY DEF LoopsInv, CountersOK
<1>4. GapStallInv'
  BY DEF GapStallInv, CountersOK
<1>5. ForceInv'
  BY DEF ForceInv, FlagsOK
<1>6. StreakBounded'
  BY DEF StreakBounded, CountersOK
<1> QED
  BY <1>1, <1>2, <1>3, <1>4, <1>5, <1>6

\* The loop goes on only below the iteration limit.
LEMMA TerminateIInv == ASSUME IInv, Terminate PROVE IInv'
<1> USE LimitsAssumption, LevelsAssumption
    DEF Terminate, IInv, TypeOK, readings, middleVars, gateVars, stallVars
<1>1. FlagsOK'
  BY DEF FlagsOK, PC, Reason, check_termination
<1>2. CountersOK'
  BY DEF CountersOK, LoopsInv
<1>3. LoopsInv'
  BY DEF LoopsInv, CountersOK, check_termination
<1>4. GapStallInv'
  BY DEF GapStallInv, CountersOK
<1>5. ForceInv'
  BY DEF ForceInv, FlagsOK
<1>6. StreakBounded'
  BY DEF StreakBounded, CountersOK
<1> QED
  BY <1>1, <1>2, <1>3, <1>4, <1>5, <1>6

\* Setting the cancel flag disturbs no counter.
LEMMA RequestCancelIInv == ASSUME IInv, RequestCancel PROVE IInv'
<1> USE DEF RequestCancel, IInv, TypeOK, readings, middleVars, gateVars, stallVars
<1>1. FlagsOK'
  BY DEF FlagsOK
<1>2. CountersOK' /\ LoopsInv'
  BY DEF CountersOK, LoopsInv
<1>3. GapStallInv' /\ ForceInv' /\ StreakBounded'
  BY DEF GapStallInv, ForceInv, StreakBounded
<1> QED
  BY <1>1, <1>2, <1>3

\* A stuttering step keeps every variable.
LEMMA StutterIInv == ASSUME IInv, UNCHANGED vars PROVE IInv'
<1> USE DEF IInv, TypeOK, vars, loopVars, readings, middleVars, gateVars, stallVars
<1>1. FlagsOK'
  BY DEF FlagsOK
<1>2. CountersOK' /\ LoopsInv'
  BY DEF CountersOK, LoopsInv
<1>3. GapStallInv' /\ ForceInv' /\ StreakBounded'
  BY DEF GapStallInv, ForceInv, StreakBounded
<1> QED
  BY <1>1, <1>2, <1>3

\* IInv is inductive.
LEMMA NextIInv == IInv /\ [Next]_vars => IInv'
  BY HeadIInv, EarlyAugmentIInv, GradientNotFiniteIInv, InnerSolveIInv, StartCurvatureCheckIInv,
     NoEscapeIInv, EscapeIInv, SolveAfterEscapeIInv, DualStepIInv, GateIInv,
     TailIInv, AugmentIInv, DualCheckIInv, TerminateIInv,
     RequestCancelIInv, StutterIInv DEF Next, Step

\* The strengthened invariant holds in every reachable state.
THEOREM Inductive == Spec => []IInv
<1>1. QED
  BY InitIInv, NextIInv, PTL DEF Spec

\* Type correctness: in particular each heuristic counter of the loop stays
\* below the limit that resets it, for all limits.
THEOREM TypeCorrect == Spec => []TypeOK
<1>1. IInv => TypeOK
  BY DEF IInv
<1>2. QED
  BY Inductive, <1>1, PTL

\* The streak of exhausted solves never runs past its limit, although the stall
\* rule may take its augmentation without resetting it.
THEOREM StreakNeverRunsAway == Spec => []StreakBounded
<1>1. IInv => StreakBounded
  BY DEF IInv
<1>2. QED
  BY Inductive, <1>1, PTL

\* The early augmentation is entered only after a solve that ran out of
\* iterations.
THEOREM EarlyAugmentSound == Spec => []EarlyAugmentNeedsExhaustedSolve
<1>1. IInv => EarlyAugmentNeedsExhaustedSolve
  BY LimitsAssumption
  DEF IInv, TypeOK, CountersOK, GapStallInv, EarlyAugmentNeedsExhaustedSolve
<1>2. QED
  BY Inductive, <1>1, PTL

\* Curvature checks are at least curvature_check_gap_stall_iters apart.
THEOREM CurvatureSpacing == Spec => CurvatureChecksSpaced
<1> DEFINE Spaced ==
      curvature_last_check_iter' # curvature_last_check_iter
        /\ curvature_last_check_iter >= 0
      => num_outer_iteration - curvature_last_check_iter
           >= curvature_check_gap_stall_iters
<1>1. ASSUME IInv, [Next]_vars PROVE [Spaced]_vars
  <2>1. CASE StartCurvatureCheck
    BY <1>1, <2>1, LimitsAssumption
    DEF StartCurvatureCheck, IInv, TypeOK, CountersOK, GapStallInv
  <2>2. CASE ~StartCurvatureCheck
    BY <1>1, <2>2
    DEF Next, Step, Head, EarlyAugment, GradientNotFinite, InnerSolve, NoEscape,
        Escape, SolveAfterEscape, DualStep, Gate, Tail, Augment, DualCheck,
        Terminate, RequestCancel, middleVars, vars
  <2> QED
    BY <2>1, <2>2
<1>2. QED
  BY Inductive, <1>1, PTL DEF Spec, CurvatureChecksSpaced

\* A forced rho jump augments in its own iteration, cooldown or not.
THEOREM ForcedAugmentRuns == Spec => ForcedAugmentInLockstep
<1> DEFINE Lockstep == force_augment_this_iter /\ pc' # pc => pc' = "augment"
<1>1. ASSUME IInv, [Next]_vars PROVE [Lockstep]_vars
  <2>1. CASE Tail
    BY <2>1 DEF Tail, ShouldAugment
  <2>2. CASE ~Tail
    BY <1>1, <2>2
    DEF Next, Step, Head, EarlyAugment, GradientNotFinite, InnerSolve,
        StartCurvatureCheck, NoEscape, Escape, SolveAfterEscape, DualStep, Gate,
        Augment, DualCheck, Terminate, RequestCancel, IInv, ForceInv, vars,
        loopVars
  <2> QED
    BY <2>1, <2>2
<1>2. QED
  BY Inductive, <1>1, PTL DEF Spec, ForcedAugmentInLockstep

-----------------------------------------------------------------------------
(* The buffers: AlmWorkspace.                                              *)


USE DEF Q0, Q1, Slack, Mark, Reading

\* The buffers only watch the control.
LEMMA ControlStep == WorkspaceNext => Next
  BY DEF WorkspaceNext, Next, Step

\* Nothing is measured before the first head, and nothing reads before it.
LEMMA InitWorkspaceInv == WorkspaceInit => WorkspaceInv
  BY DEF WorkspaceInit, Init, InitBuffers, WorkspaceInv, BuffersOK, ResidualInv,
         DecisionsReadCurrentPoint, ProbeReadsCurrentPoint, VerdictInv,
         OptimalMeasuredUnlessLifted

\* The head renews every buffer and the readings of the point.
LEMMA HeadWorkspaceInv ==
  ASSUME WorkspaceInv, Head, HeadBuffers PROVE WorkspaceInv'
<1> USE DEF WorkspaceInv, Head, HeadBuffers, ComputePrimalResidual, Measured
<1>1. BuffersOK'
  BY DEF BuffersOK
<1>2. ResidualInv' /\ ProbeReadsCurrentPoint'
  BY DEF ResidualInv, ProbeReadsCurrentPoint
<1>3. DecisionsReadCurrentPoint'
  BY DEF DecisionsReadCurrentPoint
<1>4. VerdictInv' /\ OptimalMeasuredUnlessLifted'
  BY DEF VerdictInv, OptimalMeasuredUnlessLifted
<1> QED
  BY <1>1, <1>2, <1>3, <1>4

\* Both augmentations renew the dual reading; a lift leaves the others behind
\* and marks q0.
LEMMA AugmentWorkspaceInv ==
  ASSUME WorkspaceInv, EarlyAugment \/ Augment, AugmentBuffers
  PROVE  WorkspaceInv'
<1> USE DEF WorkspaceInv, EarlyAugment, Augment, AugmentBuffers, UpdateDualSlack,
            AfterMove
<1>1. pc' = "terminate" /\ pc \in {"early_augment", "augment"}
  OBVIOUS
<1>2. BuffersOK'
  BY DEF BuffersOK
<1>3. ResidualInv' /\ ProbeReadsCurrentPoint' /\ DecisionsReadCurrentPoint'
  BY <1>1 DEF ResidualInv, ProbeReadsCurrentPoint, DecisionsReadCurrentPoint
<1>4. \/ fresh' = Reading
      \/ q0' = "before_lift" /\ "dual" \in fresh'
  BY <1>1 DEF DecisionsReadCurrentPoint, BuffersOK
<1>5. VerdictInv' /\ OptimalMeasuredUnlessLifted'
  BY <1>1, <1>4 DEF VerdictInv, OptimalMeasuredUnlessLifted
<1> QED
  BY <1>2, <1>3, <1>5

\* A bad gradient ends the middle loop, in which nothing has moved since the
\* residual was last computed.
LEMMA GradientNotFiniteWorkspaceInv ==
  ASSUME WorkspaceInv, GradientNotFinite, UNCHANGED buffers
  PROVE  WorkspaceInv'
<1> USE DEF WorkspaceInv, GradientNotFinite, buffers, loopVars, readings, middleVars
<1>1. BuffersOK'
  BY DEF BuffersOK
<1>2. ResidualInv' /\ ProbeReadsCurrentPoint' /\ DecisionsReadCurrentPoint'
  BY DEF ResidualInv, ProbeReadsCurrentPoint, DecisionsReadCurrentPoint
<1>3. VerdictInv' /\ OptimalMeasuredUnlessLifted'
  BY DEF VerdictInv, OptimalMeasuredUnlessLifted
<1> QED
  BY <1>1, <1>2, <1>3

\* However a solve ends, q0 stays a residual of the point or of the trial it
\* stalled at, and a converged one leaves the gradient's buffers.
LEMMA InnerSolveWorkspaceInv ==
  ASSUME WorkspaceInv, InnerSolve, InnerSolveBuffers(q0, primal_solution)
  PROVE  WorkspaceInv'
<1> USE DEF WorkspaceInv, InnerSolve, InnerSolveBuffers, ComputeGradient,
            GradientAt, AfterMove
<1>1. pc = "middle" /\ pc' \in {"curvature", "dual_step"}
  OBVIOUS
<1>2. q0 = "residual"
  BY <1>1 DEF ResidualInv
<1>3. BuffersOK'
  BY DEF BuffersOK
<1>4. ResidualInv' /\ ProbeReadsCurrentPoint' /\ DecisionsReadCurrentPoint'
  BY <1>1, <1>2 DEF ResidualInv, ProbeReadsCurrentPoint, DecisionsReadCurrentPoint
<1>5. VerdictInv' /\ OptimalMeasuredUnlessLifted'
  BY <1>1 DEF VerdictInv, OptimalMeasuredUnlessLifted
<1> QED
  BY <1>3, <1>4, <1>5

\* The rebuilt gradient is the one the first probe reads.
LEMMA StartCurvatureCheckWorkspaceInv ==
  ASSUME WorkspaceInv, StartCurvatureCheck, StartCurvatureCheckBuffers
  PROVE  WorkspaceInv'
<1> USE DEF WorkspaceInv, StartCurvatureCheck, StartCurvatureCheckBuffers,
            ComputeGradient, GradientAt
<1>1. BuffersOK'
  BY DEF BuffersOK
<1>2. ResidualInv' /\ ProbeReadsCurrentPoint' /\ DecisionsReadCurrentPoint'
  BY DEF ResidualInv, ProbeReadsCurrentPoint, DecisionsReadCurrentPoint
<1>3. VerdictInv' /\ OptimalMeasuredUnlessLifted'
  BY DEF VerdictInv, OptimalMeasuredUnlessLifted
<1> QED
  BY <1>1, <1>2, <1>3

\* A probe that finds nothing leaves q0.
LEMMA NoEscapeWorkspaceInv ==
  ASSUME WorkspaceInv, NoEscape, NoEscapeBuffers PROVE WorkspaceInv'
<1> USE DEF WorkspaceInv, NoEscape, NoEscapeBuffers
<1>1. BuffersOK'
  BY DEF BuffersOK
<1>2. ResidualInv' /\ ProbeReadsCurrentPoint' /\ DecisionsReadCurrentPoint'
  BY DEF ResidualInv, ProbeReadsCurrentPoint, DecisionsReadCurrentPoint
<1>3. VerdictInv' /\ OptimalMeasuredUnlessLifted'
  BY DEF VerdictInv, OptimalMeasuredUnlessLifted
<1> QED
  BY <1>1, <1>2, <1>3

\* An escape moves q0 along with the point.
LEMMA EscapeWorkspaceInv ==
  ASSUME WorkspaceInv, Escape, EscapeBuffers PROVE WorkspaceInv'
<1> USE DEF WorkspaceInv, Escape, EscapeBuffers, AfterMove
<1>1. BuffersOK'
  BY DEF BuffersOK
<1>2. ResidualInv' /\ ProbeReadsCurrentPoint' /\ DecisionsReadCurrentPoint'
  BY DEF ResidualInv, ProbeReadsCurrentPoint, DecisionsReadCurrentPoint
<1>3. VerdictInv' /\ OptimalMeasuredUnlessLifted'
  BY DEF VerdictInv, OptimalMeasuredUnlessLifted
<1> QED
  BY <1>1, <1>2, <1>3

\* The solve after an escape starts from a fresh residual.  The next probe is
\* not the first, so only a converged solve promises it anything.
LEMMA SolveAfterEscapeWorkspaceInv ==
  ASSUME IInv, WorkspaceInv, SolveAfterEscape,
         InnerSolveBuffers("residual", "current")
  PROVE  WorkspaceInv'
<1> USE DEF WorkspaceInv, SolveAfterEscape, InnerSolveBuffers, ComputeGradient,
            GradientAt, AfterMove
<1>1. pc' \in {"detect", "dual_step"} /\ q0' \in {"residual", "trial"}
  OBVIOUS
<1>2. esc' # 0
  BY LimitsAssumption DEF IInv, TypeOK, CountersOK
<1>3. BuffersOK'
  BY DEF BuffersOK
<1>4. ResidualInv' /\ DecisionsReadCurrentPoint'
  BY <1>1 DEF ResidualInv, DecisionsReadCurrentPoint
<1>5. ProbeReadsCurrentPoint'
  BY <1>2 DEF ProbeReadsCurrentPoint
<1>6. VerdictInv' /\ OptimalMeasuredUnlessLifted'
  BY <1>1 DEF VerdictInv, OptimalMeasuredUnlessLifted
<1> QED
  BY <1>3, <1>4, <1>5, <1>6

\* After the multiplier step the residual and the gradient are those of the
\* point, whether the middle loop goes on or ends.
LEMMA DualStepWorkspaceInv ==
  ASSUME WorkspaceInv, DualStep, DualStepBuffers PROVE WorkspaceInv'
<1> USE DEF WorkspaceInv, DualStep, DualStepBuffers, ComputePrimalResidual,
            ComputeGradient, GradientAt, AfterMultiplierStep
<1>1. pc' \in {"gate", "middle"}
  OBVIOUS
<1>2. BuffersOK'
  BY DEF BuffersOK
<1>3. ResidualInv' /\ ProbeReadsCurrentPoint' /\ DecisionsReadCurrentPoint'
  BY <1>1 DEF ResidualInv, ProbeReadsCurrentPoint, DecisionsReadCurrentPoint
<1>4. VerdictInv' /\ OptimalMeasuredUnlessLifted'
  BY <1>1 DEF VerdictInv, OptimalMeasuredUnlessLifted
<1> QED
  BY <1>2, <1>3, <1>4

\* A jump of the penalty leaves the residual and the point alone.
LEMMA GateWorkspaceInv ==
  ASSUME WorkspaceInv, Gate, GateBuffers PROVE WorkspaceInv'
<1> USE DEF WorkspaceInv, GateBuffers
<1>1. pc = "gate" /\ pc' = "tail" /\ termination_reason' = termination_reason
  BY DEF Gate
<1>2. BuffersOK'
  BY DEF BuffersOK
<1>3. ResidualInv' /\ ProbeReadsCurrentPoint' /\ DecisionsReadCurrentPoint'
  BY <1>1 DEF ResidualInv, ProbeReadsCurrentPoint, DecisionsReadCurrentPoint
<1>4. VerdictInv' /\ OptimalMeasuredUnlessLifted'
  BY <1>1 DEF VerdictInv, OptimalMeasuredUnlessLifted
<1> QED
  BY <1>2, <1>3, <1>4

\* The tail measures the point once more and forgets the dual reading, so
\* that it cannot pass for cleared without a check.
LEMMA TailWorkspaceInv ==
  ASSUME WorkspaceInv, Tail, TailBuffers PROVE WorkspaceInv'
<1> USE DEF WorkspaceInv, TailBuffers, Measured
<1>1. /\ pc = "tail" /\ pc' \in {"augment", "dual_check", "terminate"}
      /\ dual' = "unset" /\ termination_reason' = termination_reason
  BY DEF Tail
<1>2. fresh' = {"primal", "gap"}
  BY <1>1 DEF ResidualInv
<1>3. BuffersOK'
  BY <1>2 DEF BuffersOK
<1>4. ResidualInv' /\ ProbeReadsCurrentPoint' /\ DecisionsReadCurrentPoint'
  BY <1>1, <1>2
  DEF ResidualInv, ProbeReadsCurrentPoint, DecisionsReadCurrentPoint
<1>5. VerdictInv' /\ OptimalMeasuredUnlessLifted'
  BY <1>1 DEF VerdictInv, OptimalMeasuredUnlessLifted
<1> QED
  BY <1>3, <1>4, <1>5

\* The dual check completes the readings of the point.
LEMMA DualCheckWorkspaceInv ==
  ASSUME WorkspaceInv, DualCheck, DualCheckBuffers PROVE WorkspaceInv'
<1> USE DEF WorkspaceInv, DualCheck, DualCheckBuffers, UpdateDualSlack
<1>1. pc = "dual_check" /\ pc' = "terminate"
  OBVIOUS
<1>2. BuffersOK'
  BY DEF BuffersOK
<1>3. ResidualInv' /\ ProbeReadsCurrentPoint' /\ DecisionsReadCurrentPoint'
  BY <1>1 DEF ResidualInv, ProbeReadsCurrentPoint, DecisionsReadCurrentPoint
<1>4. fresh' = Reading
  BY <1>1 DEF DecisionsReadCurrentPoint, BuffersOK
<1>5. VerdictInv' /\ OptimalMeasuredUnlessLifted'
  BY <1>1, <1>4 DEF VerdictInv, OptimalMeasuredUnlessLifted
<1> QED
  BY <1>2, <1>3, <1>5

\* OPTIMAL needs a dual reading that clears.
LEMMA TerminateWorkspaceInv ==
  ASSUME WorkspaceInv, Terminate, UNCHANGED buffers PROVE WorkspaceInv'
<1> USE DEF WorkspaceInv, buffers, readings, middleVars
<1>1. /\ pc = "terminate" /\ pc' \in {"head", "done"}
      /\ termination_reason' # "UNSPECIFIED" => pc' = "done"
      /\ termination_reason' = "OPTIMAL" => dual = "clears"
  BY DEF Terminate, check_termination
<1>2. BuffersOK'
  BY DEF BuffersOK
<1>3. ResidualInv' /\ ProbeReadsCurrentPoint' /\ DecisionsReadCurrentPoint'
  BY <1>1 DEF ResidualInv, ProbeReadsCurrentPoint, DecisionsReadCurrentPoint
<1>4. VerdictInv' /\ OptimalMeasuredUnlessLifted'
  BY <1>1 DEF VerdictInv, OptimalMeasuredUnlessLifted
<1> QED
  BY <1>2, <1>3, <1>4

\* A request to cancel, or a stuttering step, changes nothing that is read.
LEMMA QuietWorkspaceInv ==
  ASSUME WorkspaceInv, RequestCancel \/ UNCHANGED vars, UNCHANGED buffers
  PROVE  WorkspaceInv'
<1> USE DEF WorkspaceInv, buffers
<1>1. UNCHANGED <<pc, termination_reason, dual, esc, lbfgs_exit_reason>>
  BY DEF RequestCancel, vars, loopVars, readings, middleVars
<1>2. BuffersOK'
  BY DEF BuffersOK
<1>3. ResidualInv' /\ ProbeReadsCurrentPoint' /\ DecisionsReadCurrentPoint'
  BY <1>1 DEF ResidualInv, ProbeReadsCurrentPoint, DecisionsReadCurrentPoint
<1>4. VerdictInv' /\ OptimalMeasuredUnlessLifted'
  BY <1>1 DEF VerdictInv, OptimalMeasuredUnlessLifted
<1> QED
  BY <1>2, <1>3, <1>4

\* WorkspaceInv is inductive beside IInv.
LEMMA NextWorkspaceInv ==
  IInv /\ WorkspaceInv /\ [WorkspaceNext]_workspaceVars => WorkspaceInv'
<1> SUFFICES ASSUME IInv, WorkspaceInv, [WorkspaceNext]_workspaceVars
             PROVE  WorkspaceInv'
  OBVIOUS
<1>1. CASE WorkspaceNext
  BY <1>1, HeadWorkspaceInv, AugmentWorkspaceInv, GradientNotFiniteWorkspaceInv,
     InnerSolveWorkspaceInv, StartCurvatureCheckWorkspaceInv,
     NoEscapeWorkspaceInv, EscapeWorkspaceInv, SolveAfterEscapeWorkspaceInv,
     DualStepWorkspaceInv, GateWorkspaceInv, TailWorkspaceInv,
     DualCheckWorkspaceInv, TerminateWorkspaceInv, QuietWorkspaceInv
  DEF WorkspaceNext
<1>2. CASE UNCHANGED workspaceVars
  BY <1>2, QuietWorkspaceInv DEF workspaceVars
<1> QED
  BY <1>1, <1>2

\* The loop with its buffers takes only the steps of the loop, as fairly, so
\* every property of the control holds of it.
THEOREM WorkspaceRefinesLoop == WorkspaceSpec => Spec
<1>1. WorkspaceInit => Init
  BY DEF WorkspaceInit
<1>2. [WorkspaceNext]_workspaceVars => [Next]_vars
  BY ControlStep DEF workspaceVars
<1> QED
  BY <1>1, <1>2, PTL DEF WorkspaceSpec, Spec

\* Both invariants hold in every reachable state.
THEOREM WorkspaceInductive == WorkspaceSpec => [](IInv /\ WorkspaceInv)
<1>1. IInv /\ [WorkspaceNext]_workspaceVars => IInv'
  <2>1. [WorkspaceNext]_workspaceVars => [Next]_vars
    BY ControlStep DEF workspaceVars
  <2> QED
    BY <2>1, NextIInv
<1>2. WorkspaceInit => IInv
  BY InitIInv DEF WorkspaceInit
<1> QED
  BY <1>1, <1>2, InitWorkspaceInv, NextWorkspaceInv, PTL DEF WorkspaceSpec

\* The slack operator's two halves are never of two multipliers.
THEOREM BuffersCorrect == WorkspaceSpec => []BuffersOK
<1>1. WorkspaceInv => BuffersOK
  BY DEF WorkspaceInv
<1> QED
  BY WorkspaceInductive, <1>1, PTL

\* An inner solve starts from the gradient of the current point and penalty,
\* and the multiplier step never uses a residual of before a rank lift.
THEOREM SolverReadsCurrent == WorkspaceSpec => []SolverReadsCurrentPoint
<1>1. WorkspaceInv => SolverReadsCurrentPoint
  BY DEF WorkspaceInv, ResidualInv, SolverReadsCurrentPoint
<1> QED
  BY WorkspaceInductive, <1>1, PTL

\* The decisions of an iteration read the residual and the gap of the point.
THEOREM DecisionsReadCurrent == WorkspaceSpec => []DecisionsReadCurrentPoint
<1>1. WorkspaceInv => DecisionsReadCurrentPoint
  BY DEF WorkspaceInv
<1> QED
  BY WorkspaceInductive, <1>1, PTL

\* The first probe of a curvature check, and one after a converged solve,
\* reads the Hessian of the current point.
THEOREM ProbeReadsCurrent == WorkspaceSpec => []ProbeReadsCurrentPoint
<1>1. WorkspaceInv => ProbeReadsCurrentPoint
  BY DEF WorkspaceInv
<1> QED
  BY WorkspaceInductive, <1>1, PTL

\* OPTIMAL rests on readings of the returned point, or a lift of the same
\* iteration outdated the residual and the gap and nothing else.
THEOREM OptimalMeasured == WorkspaceSpec => []OptimalMeasuredUnlessLifted
<1>1. WorkspaceInv => OptimalMeasuredUnlessLifted
  BY DEF WorkspaceInv
<1> QED
  BY WorkspaceInductive, <1>1, PTL
=============================================================================
