---------------------------- MODULE AlmWorkspace ----------------------------
(***************************************************************************)
(* The buffers that the routines of the outer loop share                   *)
(* (internal/solver_core_op.cuh, internal/inner_solvers.cuh), added to the *)
(* control of AlmOuterLoop: each action of the loop is conjoined with what *)
(* the routines it calls leave in the buffers.                             *)
(*                                                                         *)
(* A buffer's value is the name of what it holds.  x is the low-rank       *)
(* solution and y the dual solution; both only change in the actions, so   *)
(* they need no variable: a buffer that described them is marked when they *)
(* change.                                                                 *)
(*   q0        A(xx') - b at x, at the trial point of a line search that   *)
(*             stalled (|tau| < 1e-8), or at the x of before a rank lift   *)
(*   q1        the multiplier y + rho*q0, y alone, or an operand of a line *)
(*             search                                                      *)
(*   slack     the slack of q1 (AL or dual), or the products R'R and D'D   *)
(*             that the sampled products leave in the same storage         *)
(*   gradient, primal_solution   of the current point or not               *)
(*   fresh     history: the readings that describe the current (x, y)      *)
(***************************************************************************)
EXTENDS AlmOuterLoop

VARIABLES q0, q1, slack, gradient, primal_solution, fresh

buffers == <<q0, q1, slack, gradient, primal_solution, fresh>>

Q0 == {"residual", "trial", "before_lift"}
Q1 == {"multiplier", "dual", "operand", "old_multiplier"}
Slack == {"al", "dual", "product", "old_al"}
Mark == {"current", "stale"}
Reading == {"primal", "gap", "dual"}

\* x moved: what was measured at x no longer describes it.
AfterMove(measured) == measured \ {"primal", "gap"}
\* y moved.
AfterMultiplierStep(measured) == measured \ {"gap", "dual"}

(* COMPUTE_PRIMAL_RESIDUAL *)
ComputePrimalResidual ==
  primal_solution' = "current" /\ q0' = "residual"

\* The gradient at a given q0.  The point at which a line search stalled is
\* within 1e-8 of x along a unit direction: the code treats it as x.
GradientAt(residual) == IF residual = "before_lift" THEN "stale" ELSE "current"

(* COMPUTE_GRADIENT, from the q0 there is *)
ComputeGradient(residual) ==
  /\ q1' = "multiplier"
  /\ slack' = "al"
  /\ gradient' = GradientAt(residual)

(* update_dual_slack_S: the slack of the sparse and that of the low-rank   *)
(* constraints, the latter read from q1 when the slack is applied          *)
UpdateDualSlackWithoutCopy == UNCHANGED q1 /\ slack' = "dual"   \* mutant
UpdateDualSlack == q1' = "dual" /\ slack' = "dual"

\* The norm of q0 and COMPUTE_OBJECTIVE_GAP, which takes the LP and free part
\* of the objective from primal_solution: the readings they renew.
Measured(residual, solution) ==
  (IF residual = "residual" THEN {"primal"} ELSE {})
    \cup (IF solution = "current" THEN {"gap"} ELSE {})
-----------------------------------------------------------------------------
InitBuffers ==
  /\ q0 = "residual"
  /\ q1 = "operand"
  /\ slack = "product"
  /\ gradient = "stale"
  /\ primal_solution = "stale"
  /\ fresh = {}

HeadBuffersWithoutResidual ==                                   \* mutant
  /\ UNCHANGED <<primal_solution, q0>>
  /\ q1' = "multiplier"
  /\ gradient' = GradientAt(q0)
  /\ slack' = "product"
  /\ fresh' = (fresh \cap {"dual"}) \cup Measured(q0, primal_solution)
\* Residual, gradient, then the gap, which reuses the slack's storage.
HeadBuffers ==
  /\ ComputePrimalResidual
  /\ q1' = "multiplier"
  /\ gradient' = "current"
  /\ slack' = "product"
  /\ fresh' = (fresh \cap {"dual"}) \cup Measured("residual", "current")

AugmentBuffersWithoutSlack ==                                   \* mutant
  /\ UNCHANGED <<q1, slack>>
  /\ \E total_added \in BOOLEAN :
       IF total_added
       THEN /\ q0' = "before_lift"
            /\ gradient' = "stale"
            /\ primal_solution' = "stale"
            /\ fresh' = AfterMove(fresh)
       ELSE UNCHANGED <<q0, gradient, primal_solution, fresh>>
\* The slack of y, its eigenvalues, and the lift if directions were found and
\* columns were built for them.  A direction counts below -1e-4 absolutely,
\* the dual residual is relative: directions may exist although it clears.
\* Directions for which no column was built still used up primal_solution.
AugmentBuffers ==
  /\ UpdateDualSlack
  /\ \E total_added \in BOOLEAN :
       IF total_added
       THEN /\ q0' = "before_lift"
            /\ gradient' = "stale"
            /\ primal_solution' = "stale"
            /\ fresh' = AfterMove(fresh) \cup {"dual"}
       ELSE /\ fresh' = fresh \cup {"dual"}
            /\ primal_solution' \in {primal_solution, "stale"}
            /\ UNCHANGED <<q0, gradient>>

\* What SOLVE_INNER_LBFGS leaves, entered with the given q0 and
\* primal_solution.  It needs a step at least to converge or to exhaust its
\* iterations; each step moves q0 along with x, except that a line search that
\* stalls moves q0 and returns before x follows.
InnerSolveBuffers(residual, solution) ==
  \/ /\ lbfgs_exit_reason' = "GRAD_CONVERGED"
     /\ primal_solution' = "stale" /\ fresh' = AfterMove(fresh)
     /\ q0' = residual
     /\ ComputeGradient(residual)
  \/ /\ lbfgs_exit_reason' = "MAX_ITERS"
     /\ primal_solution' = "stale" /\ fresh' = AfterMove(fresh)
     /\ q0' = residual
     /\ q1' = "operand" /\ slack' = "product" /\ gradient' = "stale"
  \/ /\ lbfgs_exit_reason' = "TAU_STALL"
     /\ q0' = IF residual = "residual" THEN "trial" ELSE residual
     /\ q1' = "operand" /\ slack' = "product"
     /\ gradient' = GradientAt(residual)
     /\ \E moved \in BOOLEAN :
          IF moved
          THEN primal_solution' = "stale" /\ fresh' = AfterMove(fresh)
          ELSE primal_solution' = solution /\ UNCHANGED fresh

StartCurvatureCheckBuffersUnrebuilt == UNCHANGED buffers        \* mutant
StartCurvatureCheckBuffers ==
  /\ ComputeGradient(q0)
  /\ UNCHANGED <<q0, primal_solution, fresh>>

\* The probes reuse primal_solution and put the slack back; the direction may
\* be followed by a line search that returns zero.
NoEscapeBuffers ==
  /\ primal_solution' \in {primal_solution, "stale"}
  /\ \/ UNCHANGED <<q1, slack>>
     \/ q1' = "operand" /\ slack' = "product"
  /\ UNCHANGED <<q0, gradient, fresh>>

EscapeBuffers ==
  /\ q1' = "operand" /\ slack' = "product"
  /\ gradient' = "stale" /\ primal_solution' = "stale"
  /\ fresh' = AfterMove(fresh)
  /\ UNCHANGED q0

DualStepBuffersWithoutResidual ==                               \* mutant
  /\ UNCHANGED <<primal_solution, q0>>
  /\ ComputeGradient(q0)
  /\ fresh' = AfterMultiplierStep(fresh)
DualStepBuffersWithoutGradient ==                               \* mutant
  /\ ComputePrimalResidual
  /\ UNCHANGED <<q1, slack, gradient>>
  /\ fresh' = AfterMultiplierStep(fresh)
DualStepBuffers ==
  /\ ComputePrimalResidual
  /\ ComputeGradient("residual")
  /\ fresh' = AfterMultiplierStep(fresh)

\* A change of rho outdates the multiplier and what was built from it.
GateBuffers ==
  /\ IF penalty' = penalty
     THEN UNCHANGED <<q1, slack, gradient>>
     ELSE /\ q1' = IF q1 = "multiplier" THEN "old_multiplier" ELSE q1
          /\ slack' = IF slack = "al" THEN "old_al" ELSE slack
          /\ gradient' = "stale"
  /\ UNCHANGED <<q0, primal_solution, fresh>>

TailBuffers ==
  /\ slack' = "product"
  /\ fresh' = Measured(q0, primal_solution)
  /\ UNCHANGED <<q0, q1, gradient, primal_solution>>

DualCheckBuffers ==
  /\ UpdateDualSlack
  /\ fresh' = fresh \cup {"dual"}
  /\ UNCHANGED <<q0, gradient, primal_solution>>

WorkspaceInit == Init /\ InitBuffers

WorkspaceNext ==
  \/ Head /\ HeadBuffers
  \/ EarlyAugment /\ AugmentBuffers
  \/ GradientNotFinite /\ UNCHANGED buffers
  \/ InnerSolve /\ InnerSolveBuffers(q0, primal_solution)
  \/ StartCurvatureCheck /\ StartCurvatureCheckBuffers
  \/ NoEscape /\ NoEscapeBuffers
  \/ Escape /\ EscapeBuffers
  \/ SolveAfterEscape /\ InnerSolveBuffers("residual", "current")
  \/ DualStep /\ DualStepBuffers
  \/ Gate /\ GateBuffers
  \/ Tail /\ TailBuffers
  \/ Augment /\ AugmentBuffers
  \/ DualCheck /\ DualCheckBuffers
  \/ Terminate /\ UNCHANGED buffers
  \/ RequestCancel /\ UNCHANGED buffers

workspaceVars == <<vars, buffers>>

\* The loop's own fairness: what is written to a buffer never stops it.
WorkspaceSpec == WorkspaceInit /\ [][WorkspaceNext]_workspaceVars /\ WF_vars(Step)
-----------------------------------------------------------------------------
(* Properties. *)

\* Every buffer holds something the routines put there, and the two halves of
\* the slack operator, q1 and the sparse slack, are never of two multipliers.
BuffersOK ==
  /\ q0 \in Q0
  /\ q1 \in Q1
  /\ slack \in Slack
  /\ gradient \in Mark
  /\ primal_solution \in Mark
  /\ fresh \subseteq Reading
  /\ slack = "al" => q1 = "multiplier"
  /\ slack = "dual" => q1 = "dual"

\* An inner solve starts from the gradient of the current point and penalty,
\* whatever the previous solve, escape, multiplier step, rho jump or rank lift
\* left behind, and the multiplier step adds a residual of x, never that of
\* the point before a lift.
SolverReadsCurrentPoint ==
  /\ pc = "middle" => gradient = "current" /\ q0 = "residual"
  /\ pc = "dual_step" => q0 \in {"residual", "trial"}

\* The primal residual and the gap that the stall rules, the decision to
\* probe the dual slack and the termination test read are those of the
\* current (x, y), on the path through the middle loop, on the one that a bad
\* gradient cuts short and on the early augmentation's.
DecisionsReadCurrentPoint ==
  pc \in {"early_augment", "augment", "dual_check"}
    => {"primal", "gap"} \subseteq fresh

\* The Hessian oracle reads the multiplier and slack of the current point in
\* the first probe of a curvature check, and in later ones if the solve in
\* between converged.
ProbeReadsCurrentPoint ==
  pc = "detect" /\ (esc = 0 \/ lbfgs_exit_reason = "GRAD_CONVERGED")
    => q1 = "multiplier" /\ slack = "al" /\ gradient = "current"

\* OPTIMAL is declared on the readings of the returned point, or on readings
\* that a rank lift of the same iteration has outdated; in that case too the
\* dual residual is that of the returned multiplier.
OptimalMeasuredUnlessLifted ==
  termination_reason = "OPTIMAL"
    => \/ fresh = Reading
       \/ q0 = "before_lift" /\ "dual" \in fresh

\* Claim of include/cardal.h:57-58 ("The solver stops when the primal residual,
\* dual residual, and objective gap all clear."), for the point returned.
OptimalMeasuresReturnedPoint ==
  termination_reason = "OPTIMAL" => fresh = Reading
-----------------------------------------------------------------------------
(* The strengthening that makes the properties inductive, by parts.        *)

\* From the residual of the head or of a multiplier step to the next move.
ResidualInv ==
  /\ pc \in {"middle", "gate", "tail"}
       => q0 = "residual" /\ primal_solution = "current"
  /\ pc \in {"curvature", "detect", "resolve", "dual_step"}
       => q0 \in {"residual", "trial"}
  /\ pc = "middle" => gradient = "current"

\* The readings when the loop is about to stop, and when it stopped.
VerdictInv ==
  /\ termination_reason # "UNSPECIFIED" => pc = "done"
  /\ pc = "terminate" /\ dual = "clears"
       => \/ fresh = Reading
          \/ q0 = "before_lift" /\ "dual" \in fresh

WorkspaceInv ==
  /\ BuffersOK
  /\ ResidualInv
  /\ DecisionsReadCurrentPoint
  /\ ProbeReadsCurrentPoint
  /\ VerdictInv
  /\ OptimalMeasuredUnlessLifted
=============================================================================
