# CARDAL in TLA+

Specifications, model-checking configurations and machine-checked proofs for
CARDAL, a GPU solver of low-rank semidefinite programs. Paths are relative to
the root of the repository. Line numbers are those of the modelled commit;
`PROJECT.json` maps every definition to its lines.

CARDAL writes the PSD variables as `X_b = R_b R_b'` and solves
`min <C,X> + c'x  s.t.  A(X) + B x = b` by an augmented Lagrangian method. An
outer loop adjusts multiplier, penalty and rank, and an inner L-BFGS method
with exact line search minimises over the factors. The numerics is
floating-point linear algebra and out of reach for a finite-state model. What
can go wrong outside it is bookkeeping: the order of dozens of in-place
updates of shared buffers, counters that three heuristics share, a layout that
grows during the solve, a ring buffer, factors that must be undone in the
result, a problem that is taken apart and put together, and a set of processes
that have to make the same decisions. This is what the specifications are about.

## 1. The system

| component | source | state it keeps | operations |
|---|---|---|---|
| outer loop | `internal/outer_loop.cuh` | penalty, stall and streak counters, residual readings, termination reason | one outer iteration: head, early augmentation, middle loop (solve, curvature check, multiplier step), LANCELOT gate, tail, augmentation or dual check, termination test |
| core operators | `internal/solver_core_op.cuh`, `src/sdp_op.cu` | `q0`, `q1`, the slack storage, gradient, `primal_solution` | residual, gradient, gap, dual slack, line search, negative curvature |
| inner solver | `internal/inner_solvers.cuh` | ring of curvature pairs, copies of the last point and gradient | one L-BFGS solve |
| rank growth | `src/solver_state.cu` | flat solution vector, offsets, ranks, batches, buffer capacities | initialise, augment, result |
| joint lift | `src/rank_lift.cu` | candidate directions and their small QP/SDP | choose directions, build columns |
| device operators | `src/low_rank_op.cu`, `src/batched_cone_ops.cu` | stream pool, events, batches | sparse and low-rank products |
| distributed solve | `src/distribution_solver.cu` (the loop compiled with collectives) | a row x rank x cone grid, NCCL/MPI communicators | the same loop in every process |
| partitioning | `src/distribution_utils.cu` | row ranges, cone owners, permutation | serialise, broadcast, permute, partition, gather |
| cancellation | `src/cardal_c_api.c`, `python_bindings/_core.cpp` | process-wide flag, SIGINT handler | request, clear, test; install and restore the handler around a solve |
| C API, entry point | `src/cardal_c_api.c`, `src/solver.cu` | parameters, result handle | straight sequences of the above |
| preconditioning, unscaling | `src/precondition.c`, `src/sdp_op.cu` | the scaled copy, the recorded factors | Ruiz passes, Pock-Chambolle pass, bound/objective scaling, unscaling of the result |
| readers, CLI, generators | `src/*_parser.c`, `src/npz_reader.c`, `src/cli*.c`, `src/*_generator.c` | none beyond a call | file input, test problems |
| Python layer | `python/cardal/` | the problem under construction | building coordinate lists, results |
| QUBO front end | `qubo/` | relaxation and rounding | on top of the C API |

**How they interact.** `solver.cu` and `distribution_solver.cu` include the
same loop; the distributed build defines its macros as collectives. The loop
calls the core operators, which communicate only through shared device
buffers: the line search overwrites `q1` and the slack storage that the
gradient left for the Hessian oracle, the gap reads the `primal_solution` that
the residual left, a rank lift moves the vector that every other component
holds offsets into. The inner solver owns its ring, but its buffers are resized
by the rank growth. The cancel flag is the one thing written from outside (a
signal handler or another thread) while the loop runs.

**What is hard.** The loop is sequential in one process. Its hazards are long
sequences of legal calls, stale buffers, counters shared by several rules,
boundaries of index arithmetic, and the asynchronous cancel flag. The
distributed build adds collectives that a process must not enter alone. The
Python wrapper adds threads that share a process-wide flag and handler.
Nothing is persisted, so there is no crash recovery. `PROJECT.json` lists the
hazards, each at its line, with the properties that catch it or, where none
does, the reason.

**What makes each component correct.**

* Outer loop: it stops; a cancellation is reported; the counters stay bounded;
  an augmentation or a curvature check happens only, and always, when its rule
  says so.
* Core operators: a routine that reads a buffer finds the value of the current
  point, multiplier and penalty.
* Inner solver: the recursion reads the most recent pairs of this solve and
  nothing else.
* Rank growth: every copy of the layout (block pointers, batch tables, LP and
  free offsets, buffer capacities, result length) agrees with the vector.
* Distributed solve: all processes of a communicator enter the same collectives
  in the same order; all stop in the same iteration for the same reason.
* Partitioning: rows and cones have exactly one owner; gathering inverts
  partitioning and permuting.
* Preconditioning: what a pass divides out of any datum is recorded, and the
  unscaled result is one of the caller's problem.
* Cancellation: a request stops the solve it was meant for, once.

## 2. The modules

| module | what it is |
|---|---|
| `AlmOuterLoop` | control of `run_alm_outer_loop` and `check_termination` |
| `AlmWorkspace` | extends `AlmOuterLoop` with the shared buffers: each action of the loop conjoined with what the routines it calls leave behind |
| `AlmWorkspace_proofs` | the safety theorems of the loop, and that the buffers are current where they are read |
| `Layout`, `Layout_proofs` | offsets as running sums, sums over sets, sorted arrays: operators, and the lemmas about them that the other proofs cite |
| `RankGrowth`, `MCRankGrowth` | layout of the low-rank vector and its growth |
| `LbfgsWindow` | abstract: the last `m` pairs, oldest first |
| `LbfgsHistory` | the ring buffer of `SOLVE_INNER_LBFGS`, which implements it |
| `Vectors_proofs` | the theorems of `RankGrowth` and of `LbfgsHistory`, with the refinement |
| `CancelFlag` | threads of a Python process that solve, the cancel flag and the SIGINT handler |
| `CancelFlag_proofs` | its theorems |
| `Scaling` | a problem, the factors of each preconditioning pass, unscaling: operators only |
| `Rescale`, `MCRescale` | `rescale_problem` as a sequence of passes, and the unscaled result |
| `Rescale_proofs` | its theorems |
| `Compress` | `convert_to_compressed`: from the reader's entries to the compressed matrix |
| `Partition` | row ranges, owners of the cones, the part of the problem and of the factors a process takes |
| `Broadcast` | the buffer a problem is serialised into, and its reading |
| `Problem_proofs` | facts about a problem: positions, magnitudes, factors; and that the broadcast copy is what was written |
| `Grid` | coordinates of a process on the grid, and the sum that a call over processes makes |
| `DistributedSolve`, `MCDistributedSolve` | `distributed_optimize` around the loop, on all processes; composes the modules above |
| `DistributedSolve_proofs` | its theorems |
| `RankLift` | the joint lift without its calls: selection, variables, a process's slice, columns |
| `LockStep`, `MCLockStep` | the loop on all processes with every collective call |
| `LockStages` | the same loop written once for all its processes: the stages they go through and the invariant that ties each to its stage |
| `LockStep_proofs` | the theorems of `LockStep` |

`Layout` is used by every module that lays parts out or sorts: `RankGrowth`,
`RankLift`, `Grid` and, through `Compress`, `Partition`, `Broadcast` and
`DistributedSolve`. `Scaling` is used by
`Rescale` and, through `Compress`, by the same three; `Grid` by the two modules with processes. `AlmOuterLoop` follows the counters
of one process and leaves out the numbers; `LockStep` follows where the numbers
come from and leaves out the counters of the heuristics.

### AlmOuterLoop

`pc` names the statement the loop is at, one action per stretch of code between
two decisions. The other variables are the loop's own, under their names.
Numbers are abstracted to what the tests tell apart. `primal` is a level that
is compared with the three thresholds of the code; `gap_clears` and `dual` say
whether a reading clears its tolerance. An improvement test (`x_improvement <
eps`) is a free choice, except in the first iteration, where the code takes
the improvement to be 1 since the last value is zero. `dual = "unset"` is the
`1e30` that the tail writes. The outcome of a solve, of a probe, of the eta
gate and of the clock is a free choice. `penalty` counts multiplications
of the penalty up to the cap.

Two variables are there for the model only. `inner_ran` is a history variable,
and `pc` stands for the position in the code. `curvature_last_check_iter = -1`
stands for the initial `-10000`.

The iteration counts that are literals or defaults in the code (5, 3, 1, 3, 3,
3, 3, 10, 10, 5) are constants, so that the runs can use small ones and the
proofs cover all. `LimitsAssumption` records which relations between them the
properties need. The literals satisfy it: the cooldown is at most the period
of the augmentation check, the curvature throttle at most the curvature stall
limit, and the latter below the stall limit of the early augmentation.

### AlmWorkspace

A buffer's value is the name of what it holds. `q0` may hold the residual
`A(xx')-b` of the point, that of the trial point of a stalled line search, or
that of the point before a rank lift. `q1` and the slack storage hold the
multiplier `y + rho q0`, plain `y`, or the operands of a line search.
`old_multiplier` and `old_al` are what a jump of the penalty makes of them.
`fresh` is the set of readings (primal residual, gap, dual residual) that are of the
current `(x, y)`. The actions translate the routines' writes: for example
`InnerSolveBuffers` distinguishes the three exits of the solve, since a
converged solve ends after a gradient, an exhausted one after a line
search, and a stalled one between the update of `q0` and that of `x`.

A trial point that stalled is within `1e-8` of `x` along the direction. The
code treats its residual as that of `x`, and so does `GradientAt`. The
properties keep the two apart where it matters (`SolverReadsCurrentPoint`
wants the exact one before a solve).

### RankGrowth

A cell of the vector holds `<<owner, k>>`, the k-th number of a block, of the LP
or of the free part. `augment_system_rank` moves the cells as the copy loops
do, block by block from the old offsets, and writes the new
offsets only where the code does (not for empty LP and free parts). The
batches' tables, the capacity of the L-BFGS columns and the length that
`create_result_from_state` reads are separate variables, since the code keeps
them separately and could forget one.

### LbfgsHistory

Vectors are named by the solve and the iteration that made them; the tests on
`s'y`, on the direction, on the step and on the gradient are free choices.
`Slot` is the index expression of the two loops with C's `%`. Buffers outlive a
solve and `head`, `history_size` do not, so the model runs several solves.
`LbfgsWindow` is what this promises: `Remember` appends a pair and drops the
oldest of a full window, `Forget` empties it.

### CancelFlag

`pc` is where each thread is in the `solve` wrapper of `_core.cpp`. The wrapper
holds the GIL except during `cardal_solve`, so its statements are atomic with
respect to other wrappers; a signal can come between any two of them
(`cardal_sigint_handler` needs no GIL), a `request_cancel` of a Python thread
only while no wrapper holds it. Of the C solve only the poll is kept: it ends
with `USER_INTERRUPT` if the flag is up at a poll, with another status if not, or
without a result. `solves`, `requests`, `requested`, `alone` and `overlapped`
are history variables; the first two also carry the model's bounds.

### Scaling and Rescale

A number is the exponent of its magnitude, so a product is a sum and the
factor 1 is 0. A sum is as large as its largest term and a root is rounded to
an exponent. That loses which factors a pass chooses to the last bit, and keeps
what the bookkeeping is about: that a factor is divided out of every array it
concerns, recorded, accumulated over the passes, capped and undone. One
action per pass (`RuizIteration`, `PockChambolle`, `BoundObjective`), each
over all the arrays of the problem, low-rank columns included. As in the code, a
pass looks at an entry from its row's side only (`AtUnit`), which on the symmetric
data of a reader is enough. Rows of a factor carry half of a scale, so their exponents are doubled
(`R2`).

### Partition, Broadcast and DistributedSolve

`pc[p]` is the statement of `distributed_optimize` that process `p` is at. It
takes the statements between two collective calls alone; a call is one step
of all the members of its communicator. The broadcast goes chunk by chunk, and
a process reads the words it has. `Take` is the longest action: the row range,
the owners of the cones, the part of the problem and of the factors, all from
the process's own copy. The solver is a step of all processes, and any
outcome of its shape is considered: the multipliers of a row, and the entries of
a factor or the shares of a linear variable, are values that tell where they come
from (`Multiplier`, `Factor`, `LinearShare`), so a wrong place shows up as
a wrong value. The shuffles depend on a seed and on the C++ library; every order
they can come to is considered.

### RankLift and LockStep

`pc[p]` is the next decision of process `p` and `todo[p]` the collective calls
before it, in the code's order, with a call over a line of one process left out as
in the code. `Collective` is a step of all the processes of a line: enabled only
when each of them waits in the same call. Deadlock of the system is deadlock of
the model.

A number is the bag of the terms it was summed from, and a term names the part of
the grid it was computed on and the sums it was computed from. So "each share of
each cone and each row of the grid is counted once" can be said of a number
(`EveryTermOnce`), and two processes hold the same number exactly if they have
summed the same terms. What a branch decides is a free function of the numbers it reads:
`Decides` keeps the choices that the first process made (`told`), and a
process that comes to the same decision with the same numbers decides the
same, one with other numbers need not. The norms of the data that a process
compares with are part of what it reads (`RhsNorm`, `ObjectiveNorm`, `Linf`).

Calls over the same axis that follow each other without a branch are one
call, and NCCL and MPI are not told apart: both block. The early ends of
the Lanczos and power iterations are left out; the processes that
share such an iteration hold the same vectors and take them in the same step.
`RankLift` keeps the selection and the index arithmetic of the joint lift, and
takes any 0/1 weights, rank-one or diagonal, as the solution of the subproblem.

## 3. The runs

| run | what it asks | instance | distinct states |
|---|---|---|---|
| `outer_loop` | counters bounded, augmentation and curvature rules, termination, cancellation; every reader of a buffer finds what describes the current point | limits 2 to 4, 5 outer iterations, 3 residual levels | 613 958 |
| `optimal_point` | claim of a header, refuted (below) | limits 1 to 3, 4 outer iterations | |
| `rank_growth` | all copies of the layout agree after any sequence of lifts | 4 blocks, dimensions 3, 4, 1, 3, all sequences of lifts of up to 2 directions per block | 216 |
| `factor_length` | claim of the documentation, refuted (below) | as `rank_growth` | |
| `lbfgs_history` | the ring holds the recent pairs and implements the window | histories of 1, 2 and 3 pairs, 5 iterations, 2 solves | 2 152 |
| `cancel_flag` | whose cancellation is reported by which solve; the handler after serial solves | 2 threads, 2 solves each, 2 requests | 42 642 |
| `cancel_handler` | claim of a comment, refuted (below) | as `cancel_flag` | |
| `rescale` | recorded factors, caps, and that the result solves the caller's problem | 24 problems of 2 constraints, 72 settings, up to 3 Ruiz passes | 9 504 |
| `distributed_solve` | nothing of a problem is lost or held twice, dual and factors come back in the caller's order and units | 4 processes on every grid (and a wrong one), all orders of 4 shuffles, 2 problems of 3 constraints, 3 cones, an LP and a free variable | 25 525 |
| `consolidated` | claim of the documentation, refuted (below) | one grid of `distributed_solve` | |
| `lockstep` | collective calls match, decisions are on whole numbers, the lift is joint | 4 processes, 7 setups over all grids and augmentations, 1 or 2 outer iterations | 374 334 |
| `lockstep_tolerance` | claim of a comment, refuted (below) | 2 processes on 2 rows | |

**Why the bounds are enough.** Each limit is small but at least the smallest at
which its rule can be reached both by counting and by a reset, and the
iteration limit is beyond all of them, so every counter reaches its limit and
is reset in a run. Three residual levels and the thresholds between them give
each combination of tests the code can see. In `rank_growth` two blocks share a
batch, one is capped by its rank bound, and one cannot grow at all; LP and free
part are present or empty. The ranks have bounds, so the
reachable layouts are all enumerated. In `lbfgs_history` the window wraps
in the middle of a solve for each size, and the second solve starts on
slots that the first one filled. In `cancel_flag` the second solve of a thread
meets whatever the first and the other thread left, and a second request comes
at every point after the first was served or cleared.

In `rescale` the problems have entries below and above the cap and
the `SCALING_EPSILON`, a right-hand side of 1, low-rank columns in a constraint
and in the objective, and cumulative factors that reach the cap only together with
those of the Ruiz passes. In `distributed_solve` the grids split each axis
alone and each pair of axes, rows are fewer than processes and some are empty, a
rank share and a cone coordinate may get nothing, the cones have a group of
equal ones, one problem has low-rank columns only and is not rescaled, and the
buffer takes several chunks. In `lockstep` the setups split each axis
alone and each pair of axes, one cone
coordinate owns no block, and each augmentation (random columns, QP, SDP, closed form)
is with a grid on which it has something to exchange; found directions are more
than a block may keep, more than all may keep together, equal in strength, or
none. The limits of the loops are 1 or 2 in each setup and differ between them, so
that each loop is repeated in some setup. Every share of a block is at least one
column (section 5). All the setups are of those the theorems are about:
`MCLockStep` asserts `DecideAlike` of each, and TLC evaluates it.

**Processes that decide alike.** What `lockstep` and the theorems about `LockStep`
say holds of setups with `DecideAlike`. Its clauses are what the code needs and does
not ensure; without any one of them `SomeoneMoves` fails:

* a low-rank objective is on a grid of one row. Otherwise the rows have different
  tolerances (`lockstep_tolerance`, the fifth finding);
* without rescaling the grid has one row and one cone coordinate. Otherwise the
  processes compare with the norms of their own parts (`sdp_op.cu:899-912`);
* the shares of a block have the same rank, or each has at least
  `NEGATIVE_CURVATURE_LANCZOS_K` (15) numbers. The search for negative curvature takes
  `min(dim * rank, 15)` steps with the rank of the process's own share
  (`solver_core_op.cuh:646`) and sums over the rank axis in each. With two shares of
  a block of dimension 2, of ranks 2 and 1, and a limit of 3 steps, TLC finds the one
  waiting in a step that the other does not make. The shares of a rank differ by one
  when the number of processes does not divide it (`distribution_solver.cu:123-129`);
* in the modes that solve a joint subproblem a search finds directions on all the
  cones or on none (next paragraph).

In the modes that solve a joint subproblem the setups find negative directions on
all cones or on none. A search that finds some on a part of the cones only sends
the processes of the others past the calls (`solver_core_op.cuh:1529`), and the
solve hangs: `SomeoneMoves` fails at once if such a search is added to a
setup of mode `"qp"`, `"sdp"` or `"closed"` whose grid splits the cones. In
mode `"random"` the setups have searches of that kind.

Most safety properties are also proved without bounds (section 4).

**Deadlock** is checked in `distributed_solve`, `consolidated` and `lockstep`:
processes that wait for each other are what they are about, and the end of the solve
is a step of its own (`Finished`, which changes nothing). It is not checked in the
other runs, where the loop, a returned result and the last solve (of a thread, in
`CancelFlag`) end, nor in `lockstep_tolerance`, whose property says
the same.

**Fairness.** `AlmOuterLoop!Spec` and `AlmWorkspace!WorkspaceSpec` have weak
fairness of `Step`: the loop is
straight-line host code of one process, every call it makes returns, and so it
takes its next step. Nothing obliges a user to cancel: `RequestCancel` has no
fairness. The other modules check safety only and assume none.

**What the properties say.**

* `TypeOK` (outer loop) includes that each heuristic counter stays below
  the limit that resets it. It is not local: for instance the counter of
  iterations since the last augmentation check stays below its period only because the cooldown is
  not longer than the period.
* `StreakBounded`: the streak of exhausted solves passes its limit unreset when
  the stall rule asks first; it still exceeds it by one at most.
* `EarlyAugmentNeedsExhaustedSolve`: no rule of the early augmentation looks at
  the exit reason, yet it is reached only after a solve that ran out
  of iterations, since a stationary one would have gone through the curvature
  check, which clears the count.
* `CurvatureChecksSpaced`: two checks are at least the stall limit apart; the
  explicit throttle of 1 iteration is implied.
* `ForcedAugmentInLockstep`: the gate's request survives the cooldown and is
  served in its own iteration.
* `Terminates`, `CancelHonoured`: the loop ends, and a requested cancellation
  is what it reports even if the same test could declare something else.
* `SolverReadsCurrentPoint`, `DecisionsReadCurrentPoint`,
  `ProbeReadsCurrentPoint`, `OptimalMeasuredUnlessLifted`, `BuffersOK`: each
  reader of a shared buffer finds the current value, but for the two
  cases named below (the first finding and the first observation).
* `ReadersFindTheirNumbers`, `VectorIsFilled`, `FactorCompleteWithLp`: through
  each copy of the layout a part finds its own numbers in order; the vector has
  no gaps and fits the L-BFGS columns; with LP variables the returned factor is whole.
* `WindowIsRecent`, `WindowSpec`: the recursion reads consecutive pairs of this
  solve; the ring implements the abstract window.
* `InterruptWasRequested`: a cancellation of an earlier solve, or one asked for
  while none ran, never interrupts a later one. `LoneSolveReportsCancel`: the
  wrapper reads the flag and not the status, so a signal after the last poll is
  reported too. `SerialSolvesRestoreHandler`: without overlap the handler comes
  back, however a solve ended.
* `Recorded`: after any sequence of passes every datum of the scaled problem is
  the original one divided by the recorded factors. `CumulativeCap`: after the
  Pock-Chambolle pass the cap holds of the product over all passes.
  `PerConeUniform`: per-cone scaling has one factor per cone through every pass
  and cap. `SolvesTheCallersProblem`: the unscaled result satisfies each term of
  the caller's constraints and dual constraints as well as the solution did
  in the scaled problem.
* `CopiesAgree`: what a process reads from the broadcast and permutes is the
  caller's problem in the order it knows. `EveryDatumOnce`: in each layer of the
  grid an entry is on exactly one process, with the factors that make it the
  caller's. `LinearColumnsLast`: the offsets by which the solver finds LP and
  free variables point at them, used or not. `NormsCountOnce`: the reduced norms
  count every datum once, though every row starts with the whole objective.
  `RankSharedOut`: the shares of a rank come to what was asked for, no more, and
  to all of it if the cone's own bound is not below it. It does not say that the
  shares together keep to that bound, which they need not (see the observations).
  `DualInCallersOrder`, `FactorGathered`: row split, shuffle and two
  scalings are undone in the right order, and the columns of all rank shares
  come together in theirs.
* `SomeoneMoves`, `SameCall`: the processes never wait in different calls, and those
  that meet are in the same iteration of each of the four nested loops, with
  factors of the same ranks where they sum over rows. `EveryTermOnce`: each
  branch reads numbers that are summed over the whole grid, nothing missing or
  twice. `LiftIsJoint`: the directions kept are the strongest under a cap per
  block and one over all cones, wherever they were found, and each process
  finds its own variables in the solution.

### Findings

Five claims of the repository do not hold of the code, each shown by a run.

1. *OPTIMAL* (`include/cardal.h:57-58`). An augmentation may add columns after
   the primal residual and the gap of the iteration were measured; if they and
   the dual residual clear, the loop stops with `OPTIMAL` and returns a point
   that was not measured. `OptimalMeasuredUnlessLifted` says that this is the only
   way.
2. *Length of the factor* (`docs/using-cardal/results.md:45-61`,
   `include/cardal.h:291`). `create_result_from_state` takes the length from
   `lp_solution_offset`, which an augmentation updates only when there are LP
   variables. Without them the returned factor is cut to the length before
   the first augmentation. `FactorCompleteWithLp` is the half that holds.
3. *SIGINT handler* (`python_bindings/_core.cpp:642-644`). Of two overlapping
   solves the second saves the first one's handler as the previous one; if it
   also ends last, the process keeps `cardal_sigint_handler` with no solve
   running. `SerialSolvesRestoreHandler` is the half that holds.
4. *Consolidated result* (`docs/multi-gpu.md:105-109`). The documentation says
   that the root writes the consolidated factor and LP/free variables.
   `gather_sdp_result` (`distribution_utils.cu:1348`) never gathers along the
   cone axis and copies the root's own share of the linear variables. On a grid
   that splits cones, the factors of the others' cones are missing.
   `FactorGathered` says what is gathered.
5. *Collectives in order* (`internal/solver_core_op.cuh:1748-1751`). The
   low-rank columns of the objective are on row 0 only
   (`distribution_utils.cu:692-695`), and the largest entry of the objective
   (`solver_state.cu:90-108`) is reduced over the cones only
   (`distribution_solver.cu:349-357`). With such an objective the rows have
   different tolerances (`outer_loop.cuh:170-188`): one leaves the inner solve
   where another goes on, and each waits in a call the other never makes. Without a
   low-rank objective, or with one row, the calls match (`NoDeadlock`).

Observations that no run of the project states:

* The comment at `internal/outer_loop.cuh:220-222` says the gradient is rebuilt
  before the Hessian oracle is entered. That is done before the first probe of
  a curvature check only; after an escape and an inner solve that ended in a line
  search, `q1` and the slack storage hold its operands. `ProbeReadsCurrentPoint`
  says for which probes the claim holds.
* `python/README.md:381` speaks of cancelling running solves. Of two that run when a
  cancellation is requested the first to stop clears the flag
  (`_core.cpp:659`), and the second does not see it.
* The joint lift hangs if only some cones have negative directions
  (`solver_core_op.cuh:1529`, section "Why the bounds are enough").
* Shares of a block with different ranks make different numbers of steps in a search
  for negative curvature and wait for each other (`solver_core_op.cuh:646`, same section).
* Each process of the rank axis appends the columns of the joint lift, and random
  ones from the same seed (`rank_lift.cu:1106`): its shares get equal columns.
* `docs/parameters.md:17` calls `max_rank` a cap per cone. On a grid that splits the
  rank axis each process gets the bound of a cone, given or Pataki's, undivided
  (`distribution_solver.cu:123-128`), and keeps its own share below it. In
  `distributed_solve` cones of dimension 1, whose bound is 1, start with one column on
  each of two processes, and each share then grows to the bound by itself.
* Without rescaling the unscaled norms stay those of a process's own part
  (`sdp_op.cu:899-912`).

## 4. The proofs

All theorems are checked by TLAPS, for every value of the constants that
satisfies the named assumptions. Nothing else is assumed.

**AlmWorkspace_proofs, the loop** (`LimitsAssumption`, `LevelsAssumption`). The inductive
invariant is `IInv == TypeOK /\ LoopsInv /\ GapStallInv /\ ForceInv /\
StreakBounded`. `LoopsInv` ties the loop variables of the nested loops to `pc`.
`GapStallInv` is the heart of it. It says that the number of stalled gaps counted
since the last curvature check cannot exceed the iterations passed since
(`gap_stall_count + curvature_last_check_iter <= num_outer_iteration`, one less
at the head), so that the throttle can never refuse a check that the
stall count asks for; and therefore a large stall count after an inner solve
means that the solve was not stationary. `CurvatureSpacing` and `EarlyAugmentSound` follow.
`ForceInv` confines the gate's request to the tail. There is one lemma per
action, with one step per part. Theorems: `TypeCorrect`, `StreakNeverRunsAway`,
`EarlyAugmentSound`, `CurvatureSpacing`, `ForcedAugmentRuns`.

**AlmWorkspace_proofs, the buffers** (the same assumptions). `WorkspaceInv` is inductive
beside `IInv`: `ResidualInv` says what `q0`, the gradient and `primal_solution`
are along the path from the head to the tail, `VerdictInv` that a dual reading
that clears at the termination test belongs to complete readings or to a lift.
`IInv` is needed to know that the counter `esc` of the escape loop is not
zero after a solve in it. Theorems: `BuffersCorrect`, `SolverReadsCurrent`,
`DecisionsReadCurrent`, `ProbeReadsCurrent`, `OptimalMeasured`, and
`WorkspaceRefinesLoop`, `WorkspaceSpec => Spec`: the module takes only steps of
`AlmOuterLoop`, and as fairly, so the theorems about it hold here too. This is
why one run checks the properties of both.

**Vectors_proofs, the ring of pairs** (`BoundsAssumption`). `IInv == TypeOK /\ SolveInv`,
where `SolveInv` says that the slots counted by `history_size` hold consecutive
iterations up to the newest. The lemmas are about `Slot`: it is in range,
injective over the window, and a store at `head` shifts every index by one
(modular arithmetic over all history sizes, including 1). Theorems:
`TypeCorrect`, `RecentPairs`, and the refinement `RingImplementsWindow`, for
which each step maps to `Remember`, `Forget` or a stutter.

**CancelFlag_proofs** (`ThreadsAssumption`, `BoundsAssumption`). `IInv` has three
groups beside the type. `FlagInv` and `ReadInv`: while the flag is up, each
solve that will read it was asked to stop. `AloneInv` and `AloneReadInv`:
during a solve that is alone no other wrapper is anywhere but outside, so none can
clear the flag. `HandlerInv`: without overlap at most one wrapper is active
and the handler it saved is the process's own. Theorems: `TypeCorrect`,
`InterruptsAreRequested`, `LoneCancelIsReported`, `SerialSolvesKeepHandler`, for any
number of threads.

**Layout_proofs**. The lemmas about the operators that the other modules share:
a running sum is what its recursion says, does not fall and has exactly one part
for each place it covers; a sorted array lists a finite set once and in order; a sum
over a finite set can be taken apart, compared and split; a flattened sequence has its
parts at the running sums of their lengths; a process of the grid is known by its
coordinates. `JointlyKept` is about sorted arrays that several processes
hand over and sort together: each lists the first of every block of its own, as
many as a cap allows, keeps of them those whose places are among the first of the
whole under a second cap, and what they keep is the strongest of all they offered. `PartStarts`
says that a part of a flattened sequence is found again at the sum of the lengths
before it. The library's induction
theorems cannot be instantiated here (their hypothesis is an operator), so
induction is derived from the well-founded minimum of a set of counterexamples, once
for naturals (`NatSetInduction`) and once for finite sets
(`SubsetInduction`); `FoldExists` says that a fold over the subsets of a finite
set is the function it is defined to be. Nothing is assumed.

**Vectors_proofs, the layout** (`ShapeAssumption`: every cone has a positive dimension, as the
readers leave it, and counts, ranks and bounds are natural numbers). The invariant is that
each copy of the layout (pointers, batch tables, offsets, buffer lengths) is
the one computed from the current ranks; an augmentation recomputes some copies and
moves the columns, and the lemmas show that it recomputes enough. Theorems:
`LayoutCorrect`, `ReadersCorrect`, `VectorFilled`, `FactorComplete`, for any number of cones
and any sequence of lifts.

**Problem_proofs** (`SizesAssumption`: dimensions are positive, counts natural).
The positions of the variables are distinct and cover the ranges that
`blk_ptr` and the linear offsets give them, so that `col_mapping` is a list of the
active variables and a position stands for one variable. From this, `CopyIsFaithful`:
`deserialize_compressed_sdp` of `serialize_compressed_sdp` of a compressed problem is that
problem. `Reads` says that a word sequence holds a piece at a cursor; each piece has
a lemma for what is written and one for what is read, and `RoundTrip` puts them one
after the other. The lemmas that magnitudes and factors are numbers are here
too: every factor is taken over a finite set, which has a largest element.

**Rescale_proofs** (`SizesAssumption`, `InputsAssumption`: the problems and
settings are of their types, nothing else). `IInv` is `TypeOK`, the record
(`Recorded`), `BoundScaledLast` (the bound/objective factors are 1 until they are
set, so that they are not overwritten), `CumulativeCap`, `PerConeUniform`, and
`Returned` (the result is the unscaled solution). `PassInv` is the step of a pass for any
factors, so the two diagonal passes differ only in the lemma about their factors.
`UnscaledSolves` is the algebra from the record to the caller's terms. Theorems:
`TypeCorrect`, `RecordedAlways`, `CapHolds`, `UniformPerCone`, `SolvesTheCallers`, for
every problem, sequence of passes and cap.

**DistributedSolve_proofs** (`SizesAssumption`, `PartitionAssumption`,
`WorldAssumption`, `ChunkAssumption`, `BlockAssumption`, `CallsAssumption`,
`RankAssumption`: the thresholds and counts are what the headers and `MPI_Comm_size` give, an
input is what a reader produces, the solver adds columns and takes none away).
`IInv` says, for each process and place, that what it holds is a function of the call:

* `CallInv`, `GridInv`: the call is one of the permitted ones, and who is past the
  start knows its grid, which has as many places as there are processes;
* `WordsInv`: what a process has received is the beginning of what the root has sent, and that
  the beginning of the serialised problem, for every chunk size and any pace of the receivers;
* `CopyInv`: after it, its copy is the caller's problem, permuted. The
  step of the last chunk is `CopyIsFaithful`;
* `LocalInv`: its part, factors and first ranks are those of its coordinates;
* `ResultInv`: the fields that the counting and gathering leave alone.

`CopiesAgree` follows with the lemma that each shuffle is a permutation of the rows
and `NewRow` its inverse (for the block shuffle: the blocks, one after the other,
list each row once). `RankSharedOut` is the sum of the shares over the line of
processes along the rank axis, which `SameLine` shows to be one for each
rank coordinate.

The gathered results are not functions of the call alone, because the solver may add
columns; so two more invariants are proved on top of `IInv`. `DualInv`: from the
collection on, the root's multipliers are the expected ones; the row ranges tile
(`RangesTile`), so the local multipliers, one after the other, list each row once.
`FactorInv` is `SolvedTogether` (all are past the solver, or none), `SolutionInv`
(the factors a process holds are the solver's, with a number of columns that is
the same wherever the rank coordinate is), `UngatheredInv` (until it gathers, its result is
its own, unscaled) and `GatheredInv` (after it, the first of a line has the
columns of all, in their order). Without `UngatheredInv` a member of a line could meet one
that has already dropped its copy.

`EveryDatumOnce` needs no more state than `IInv`, but every operator of the
partition. In order: permuting and scaling give back the caller's numbers (`ScaledBack`);
the row ranges tile the rows (`Tiling`, `SharesCover`, `RowsDivided`);
the greedy assignment gives every cone and every linear variable one owner in range
(`OwnersOfCall`; the fold over the list of items is unfolded by induction and
the least loaded process is one, `LeastLoadedIs`); a process's local columns are the used
variables it owns (`LocalColumnsOwned`), and the factors it took are those of
its copy (`FactorsFound`). So what a process holds is the caller's data in its rows and
of its owners (`EntriesOf`, `RightSidesOf`, `ObjectiveOf`, `LowRankOf`), and
since exactly one process of a layer is at each row and cone coordinate
(`OneProcessAt`), each datum is held once.

`NormsCountOnce` has an invariant of its own, `NormsInv`: at each label before the solve
the two norms are those of the process's own part or the sums over its lines.
`PlacedTogether` (no process is without a place once the communicators are split) is needed
to know who the members of a line are. `DisjointSum` says that data that no two
processes share add up to all of them, each once.

Theorems: `IInvHolds`, `TypeCorrect`, `CopiesAlwaysAgree`, `EveryDatumHeldOnce`,
`LinearColumnsAlwaysLast`, `NormsAlwaysCountOnce`, `DualAlwaysInCallersOrder`,
`RankAlwaysSharedOut`, `FactorAlwaysGathered`, for every number of processes, grid,
problem, shuffle and chunk size: all the invariants of the run `distributed_solve`.

**LockStep_proofs** (`WorldAssumption`, `CountsAssumption`, `CapsAssumption`, and
`DecideAlike` of every setup, which the theorems state as a hypothesis: what the
code needs and does not ensure, section 3). That every process is in the same
call is not inductive by itself: processes run ahead of each other across
several decisions, and which call comes next depends on what was decided and on
numbers. `LockStages` therefore writes the loop a second time, once for all
processes:

* a *stage* is what all processes that come to a decision have in common: its
  label and counters, the ranks of each share of each cone, the calls of each
  cone before the decision, and what earlier decisions left (`To`). `NextStage` is
  the stage that a decision leads to;
* the *story* of a run is a sequence of stages and decisions, `Follows`, from
  the stage of the slowest process on. Its decisions are `told`, each read from the
  whole numbers of its stage (`KeyOf`), and `heard` is the place of a process in it;
* the lists of calls of the cones are side by side in *levels* (`Aligned`): a call over
  several cones is in all lists at one level, calls of one cone are between them.
  `Partners` are two positions in the lists that are one call. `Together` says that
  of one call either all its processes have made theirs or none;
* the numbers of a process are totals of terms over cubes of the grid (`Total`,
  `Matches`), and `Runs` says that with what a process knows now its remaining calls
  make whole what it reads at its decision (`Goal`);
* the directions found and those kept are of the stage (`SameLift`), from the search
  to the end of the iteration (`Lifted`), and those kept are what
  `select_strongest_directions` makes of what all cones found (`Quiet`).

`LockStepInv` says that there is such a story, in which each process has its
place (`Place`) and makes its calls `Together`. In its proof, a call is a step of all its
partners (`Collective`), and sums over disjoint cubes are the total over
their union; a decision of the process that is furthest appends a stage to the
story (all its numbers are whole, so its `KeyOf` is that of the stage), and one of
any other finds its own decision in it, since it reads the same. There is a lemma for
each of the fifteen decisions, for how its calls align, what they need and what they
make known. For `NoDeadlock`, take the waiting process that is furthest behind in
the story, and of those in its stage one whose next call has the lowest level: each
of its partners has made all the calls below, so it waits in that call. For `JointLift`,
the processes of a cone axis that hold kept directions hold those of one lift
(`LineAgrees`): between two lifts all of them sum `Ax` over the cones, so none is an
iteration ahead of another that still holds its own (`NotPast`). What they hold is
then the selection, and the rest is a fact about it (`JointlyKept`, below). Theorems:
`LockStepInvariant`, `NoDeadlock` (`SomeoneMoves`), `CallsMatch` (`SameCall`),
`NumbersWhole` (`EveryTermOnce`), `JointLift` (`LiftIsJoint`), for every grid, number of
cones and blocks, ranks, limits, caps, mode and outcome of the searches.

**Model-checked only.** `Terminates` and `CancelHonoured` (liveness under
fairness is out of the prover's reach). The findings are
violations, which the runs show.

## 5. What is not modelled

* Arithmetic: residuals, eigenvalues, Lanczos, the line search's quartic, the
  QP/SDP of the lift, and the exact factors of a scaling pass. TLC cannot tell
  such values apart; the tests on them are free choices.
* CUDA: kernels, streams and allocations.
* In the distributed loop: the clock and the cancel flag, which every process tests
  for itself (`outer_loop.cuh:451`), and gradients that are not finite on some
  processes only (`:163`). Each can send processes into different calls; it
  depends on values and times that the model does not have. So does
  a share of a block without columns, whose process skips the calls of
  `FIND_AL_NEGATIVE_CURVATURE` over the rank axis.
* The failure of a process: MPI aborts the job, no code handles it.
* A second distributed solve of a problem that the first has permuted in place
  (`distribution_utils.cu:1201`).
* Readers, command line, generators, C API, single-GPU entry point, Python modelling
  layer, QUBO front end: sequential and without state that outlives a call.
  Of the readers the common last step, `Compress`, is modelled.
* `clear_cancel` called by the user during a solve, and what Python's own SIGINT
  handler does: the wrapper neither calls the one nor sees the other.
* Serialisation of the result, logging, printing.

## 6. The plan

Ordered by importance; the parts marked so are done.

1. `AlmOuterLoop`, `AlmWorkspace`: the core. Done, with theorems.
2. `LbfgsHistory` over `LbfgsWindow`. Done, with theorems.
3. `RankGrowth`. Done, with theorems; next: int overflow of `head * len`
   (`inner_solvers.cuh:197`).
4. `LockStep` with `RankLift`. Done, with theorems; next: the clock, the cancel flag and
   non-finite gradients per process, empty and uneven rank shares, and runs for what
   `DecideAlike` excludes.
5. `CancelFlag`. Done, with theorems; next: the C API around it
   (`cardal_c_api.c`) with the life cycle of problem and result handles.
6. `Compress`, `Partition`, `Broadcast`, `DistributedSolve`. Done, with theorems; next:
   the cap on the rank of a cone, over the shares of the rank axis, as a run of its
   own; a second solve of one problem.
7. `Scaling`, `Rescale`. Done, with theorems.
8. The construction of the sparse patterns (`solver_state.cu`) and the rounding of
   `qubo/`, if there is room.

## Running

    tlc -workers 2 -config MCAlmWorkspace.cfg AlmWorkspace
    tlapm AlmWorkspace_proofs.tla

and likewise for the other modules; `PROJECT.json` names the configuration and
the properties of each run, and a mutation of the model for each property under
which the run must fail.
