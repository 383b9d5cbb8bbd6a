------------------------------ MODULE LockStep ------------------------------
(***************************************************************************)
(* run_alm_outer_loop on the processes of a grid.  Every process runs the  *)
(* loop by itself and takes each branch from numbers it holds; a sum over  *)
(* an axis of the grid is one step of all the processes of that line, and  *)
(* a process that arrives waits for the others.                            *)
(*                                                                         *)
(* A number is kept as the bag of the terms it was summed from, a term as  *)
(* the part of the grid it was computed on and the sums it was computed    *)
(* from.  What a branch decides is a function of the numbers it reads: the *)
(* first process to get there chooses, and a process that holds the same   *)
(* numbers decides the same.                                               *)
(*                                                                         *)
(* Calls one after the other over the same axis may be one call, and calls *)
(* of NCCL and of MPI are not told apart.  The early ends of the Lanczos   *)
(* and power iterations, which all the processes that share them take at   *)
(* the same step, are left out.                                            *)
(***************************************************************************)
EXTENDS Grid, RankLift

CONSTANTS
  Setups,    \* grid, blocks and ranks, owners of the linear cones, parameters
  inner_iterations_limit,
  LANCZOS_K,                     \* steps of a search for negative directions,
  power_iterations,              \* of one by power iteration
  NEGATIVE_CURVATURE_LANCZOS_K   \* and of one for negative curvature

VARIABLES
  setup,
  pc,      \* the decision a process comes to next
  todo,    \* the calls before it
  val,     \* the numbers of each process
  told,    \* the decisions not all processes have come to yet
  heard,   \* how many of these each process has
  loop,    \* the counters of its loops, and whether its gap has stalled for
           \* curvature_check_gap_stall_iters
  rank_list,   \* its ranks, by local block
  lift         \* the directions it found and those it kept

vars == <<setup, pc, todo, val, told, heard, loop, rank_list, lift>>

ASSUME CountsAssumption ==
  {LANCZOS_K, power_iterations, NEGATIVE_CURVATURE_LANCZOS_K} \subseteq Nat \ {0}

coords(p) == Coords(setup.dims, p)
my_cone(p) == coords(p)[3]
Cones == 0..(setup.dims[3] - 1)
BlockDims(c) == setup.block_dims[c + 1]
Blocks(c) == 1..Len(BlockDims(c))
null == <<>>

-----------------------------------------------------------------------------
(* Collective calls.                                                       *)

Axes == [row |-> {1}, rank |-> {2}, cone |-> {3}, all |-> 1..3]
Members(on, p) ==
  {q \in Procs : \A a \in (1..3) \ Axes[on] : coords(q)[a] = coords(p)[a]}

One(x) == SetToBag({x})
WinnerIn(v) == CHOOSE w \in DOMAIN v.winner : TRUE

\* The low-rank objective is with the first row, and with it the largest entry
\* of the objective, which is taken over the cones.
Linf(at) == IF setup.low_rank_objective THEN at[1] = 0 ELSE "whole"

\* The term of x at a position of the grid, from the numbers v held there.
Term(x, at, v) ==
  LET row == at[1]
      share == at[2]
      cone == at[3]
      slack == IF Blocks(cone) = {} THEN EmptyBag ELSE v.Sq
  IN  CASE x \in {"Ax", "q"} -> One(<<row, share, cone>>)
        [] x = "gradient" -> One(<<row, v.Ax>>)
        \* The processes of the first row hold the objective.
        [] x \in {"p_obj", "curvature_obj"} ->
             IF row = 0 THEN One(<<share, cone>>) ELSE EmptyBag
        [] x \in {"d_obj", "Sq", "H", "lp_slack", "stationarity"} -> One(row)
        [] x = "q0_norm" -> One(<<row, v.Ax>>)
        [] x = "q_dots" -> One(<<row, v.q>>)
        [] x \in {"grad_norm", "dot", "slope"} -> One(<<share, cone, v.gradient>>)
        [] x = "Hq" -> One(<<row, share>>)
        [] x = "HV" -> One(<<row, v.Hq>>)
        [] x \in {"ritz", "sign"} -> One(<<share, v.HV>>)
        [] x = "min_eigval" -> One(<<cone, slack>>)
        \* The slack of the linear cone and the residual of the free variables
        \* are with the processes that own them.
        [] x = "min_slack" ->
             One(<<cone, slack, IF setup.lp = cone THEN v.lp_slack ELSE EmptyBag>>)
        [] x = "free" ->
             One(<<cone, IF setup.free = cone THEN v.stationarity ELSE EmptyBag>>)
        [] x = "gram" -> One(<<row, v.variables>>)
        \* The first process of each cone speaks for it.
        [] x = "lambda" ->
             IF row = 0 /\ share = 0 /\ Blocks(cone) # {}
             THEN One(<<cone, v.ritz, Linf(at)>>) ELSE EmptyBag
        [] x = "ready" ->
             IF cone = WinnerIn(v)[1] THEN One(<<at, v.ritz, Linf(at)>>) ELSE EmptyBag

\* A call over an axis sums the numbers of; the fresh ones are computed
\* just before.
Call(on, of, fresh) == [on |-> on, of |-> of, fresh |-> fresh]
Reduce(x, axes) ==
  [i \in DOMAIN axes |-> Call(axes[i], {x}, IF i = 1 THEN {x} ELSE {})]
Repeat(n, calls) == FlattenSeq([i \in 1..n |-> calls])

Contribution(call, q, v, x) == IF x \in call.fresh THEN Term(x, coords(q), v) ELSE v[x]
Summed(call, S, x) == BagSum([q \in S |-> Contribution(call, q, val[q], x)])

\* A call over a line of one process is left out: the number is its own.
Ready(p, calls, v) ==
  LET alone(call) == Members(call.on, p) = {p}
      n == Cardinality({i \in DOMAIN calls : \A j \in 1..i : alone(calls[j])})
      after[i \in 0..n] ==
        IF i = 0 THEN v
        ELSE [x \in DOMAIN v |-> IF x \in calls[i].of
                                 THEN Contribution(calls[i], p, after[i - 1], x)
                                 ELSE after[i - 1][x]]
  IN  [todo |-> SubSeq(calls, n + 1, Len(calls)), val |-> after[n]]

GoOn(p, v, label, calls) ==
  LET r == Ready(p, calls, v)
  IN  /\ pc' = [pc EXCEPT ![p] = label]
      /\ todo' = [todo EXCEPT ![p] = r.todo]
      /\ val' = [val EXCEPT ![p] = r.val]

Waiting(p) == todo[p] # <<>>
Meet(p) ==
  /\ Waiting(p)
  /\ \A q \in Members(Head(todo[p]).on, p) : Waiting(q) /\ Head(todo[q]) = Head(todo[p])

Collective(p) ==
  /\ Meet(p)
  /\ LET call == Head(todo[p])
         S == Members(call.on, p)
         sum == [x \in call.of |-> Summed(call, S, x)]
         after == [q \in S |-> Ready(q, Tail(todo[q]),
                    [x \in DOMAIN val[q] |-> IF x \in call.of THEN sum[x] ELSE val[q][x]])]
     IN  /\ p = Min(S)
         /\ todo' = [q \in Procs |-> IF q \in S THEN after[q].todo ELSE todo[q]]
         /\ val' = [q \in Procs |-> IF q \in S THEN after[q].val ELSE val[q]]
  /\ UNCHANGED <<setup, pc, told, heard, loop, rank_list, lift>>

-----------------------------------------------------------------------------
(* The routines of the solver, as the calls they make.                     *)

SYNC_PRIMAL_SOLUTION == <<Call("row", {}, {})>>
COMPUTE_PRIMAL_RESIDUAL == Reduce("Ax", <<"rank", "cone">>)
COMPUTE_GRADIENT == Reduce("gradient", <<"row">>)
ObjectivePerRow ==                                                \* mutant
  Reduce("p_obj", <<"rank", "cone">>) \o Reduce("d_obj", <<"row">>)
COMPUTE_OBJECTIVE_GAP ==
  Reduce("p_obj", <<"rank", "cone">>) \o Reduce("d_obj", <<"row">>)
    \o <<Call("row", {"p_obj"}, {})>>
compute_global_q0_norm == Reduce("q0_norm", <<"row">>)
GLOBAL_NORM == Reduce("grad_norm", <<"rank", "cone">>)
LBFGS_DIRECTION == Reduce("dot", <<"rank", "cone">>)
COMPUTE_EXACT_STEP_SIZE ==
  Reduce("q", <<"rank", "cone">>)
    \o <<Call("row", {"q_dots", "curvature_obj"}, {"q_dots", "curvature_obj"}),
         Call("rank", {"slope", "curvature_obj"}, {"slope"}),
         Call("cone", {"slope", "curvature_obj"}, {})>>

\* What the second derivatives give of a direction, of one block.
COMPUTE_BM_HVP_PERCONE == Reduce("Hq", <<"rank">>) \o Reduce("HV", <<"row">>)
FIND_AL_NEGATIVE_CURVATURE(c, ranks, b) ==
  LET N == BlockDims(c)[b] * ranks[b]
      k == Min({N, NEGATIVE_CURVATURE_LANCZOS_K})
  IN  IF ranks[b] <= 0 THEN <<>>
      ELSE <<Call("rank", {}, {})>>
             \o Repeat(k, COMPUTE_BM_HVP_PERCONE \o Reduce("ritz", <<"rank">>))
Probe(c, ranks) ==
  FlattenSeq([b \in Blocks(c) |-> FIND_AL_NEGATIVE_CURVATURE(c, ranks, b)])
    \o Reduce("lambda", <<"all">>)

\* The two searches for negative directions of the slack of a block.
COMPUTE_NEGATIVE_EIGEN_LANCZOS(c, b) ==
  Repeat(Min({BlockDims(c)[b], LANCZOS_K}), Reduce("Sq", <<"row">>))
COMPUTE_NEGATIVE_EIGEN_POWER_ITER == Repeat(power_iterations, Reduce("Sq", <<"row">>))

COMPUTE_LP_MIN_SLACK(c) == IF setup.lp = c THEN Reduce("lp_slack", <<"row">>) ELSE <<>>
COMPUTE_FREE_STATIONARITY(c) ==
  IF setup.free = c THEN Reduce("stationarity", <<"row">>) ELSE <<>>
RUN_PER_CONE_LANCZOS(c) ==
  FlattenSeq([b \in Blocks(c) |-> COMPUTE_NEGATIVE_EIGEN_LANCZOS(c, b)])
    \o Reduce("min_eigval", <<"cone">>)

\* CHECK_DUAL_INFEASIBILITY_AND_AUGMENT up to the dual residual, and the check
\* without augmentation: the worst of all blocks over the cones.
DualResidual(c) ==
  COMPUTE_LP_MIN_SLACK(c) \o Reduce("min_slack", <<"cone">>)
    \o COMPUTE_FREE_STATIONARITY(c) \o Reduce("free", <<"cone">>)
DualSlack(c) == RUN_PER_CONE_LANCZOS(c) \o DualResidual(c)
CHECK_DUAL_INFEASIBILITY(c) ==
  FlattenSeq([b \in Blocks(c) |-> COMPUTE_NEGATIVE_EIGEN_POWER_ITER]) \o DualResidual(c)

HeadCalls == SYNC_PRIMAL_SOLUTION \o COMPUTE_PRIMAL_RESIDUAL \o COMPUTE_GRADIENT
               \o COMPUTE_OBJECTIVE_GAP \o compute_global_q0_norm
DualStepCalls == COMPUTE_PRIMAL_RESIDUAL \o COMPUTE_GRADIENT \o compute_global_q0_norm
GateCalls == compute_global_q0_norm \o COMPUTE_OBJECTIVE_GAP \o compute_global_q0_norm
\* distributed_optimize checks the dual once before the loop.
WarmUp(c) == CHECK_DUAL_INFEASIBILITY(c) \o <<Call("all", {}, {})>>
OwnersOnly == Reduce("ready", <<"rank">>)                         \* mutant
RebuiltEverywhere == Reduce("ready", <<"all">>)
EscapesUncounted == <<>>                                          \* mutant
EscapeCount == <<Call("all", {"escapes"}, {})>>

-----------------------------------------------------------------------------
(* Decisions.                                                              *)

\* The norms of the data that a process compares with.  The unscaled ones are
\* those of the whole problem only if it was rescaled.
RhsNorm(p) == IF setup.scaled THEN "whole" ELSE coords(p)[1]
ObjectiveNorm(p) == IF setup.scaled THEN "whole" ELSE coords(p)[3]

\* o is what p decides from what it reads, out of options.
Decides(p, reads, options, o) ==
  LET n == heard[p] + 1
      key == <<pc[p], reads>>
      known == n <= Len(told) /\ key \in DOMAIN told[n]
      all == IF n > Len(told) THEN Append(told, [k \in {key} |-> o])
             ELSE [told EXCEPT ![n] = [k \in DOMAIN @ \union {key} |->
                                         IF k \in DOMAIN @ THEN @[k] ELSE o]]
      later == [heard EXCEPT ![p] = n]
      past == Min({later[q] : q \in Procs})
  IN  /\ o \in (IF known THEN {told[n][key]} ELSE options)
      /\ told' = SubSeq(all, past + 1, Len(all))
      /\ heard' = [q \in Procs |-> later[q] - past]

At(p, label) == pc[p] = label /\ ~Waiting(p)
Set(f, p, x) == f' = [f EXCEPT ![p] = x]

Quantities ==
  {"Ax", "q", "gradient", "p_obj", "curvature_obj", "d_obj", "Sq", "H", "lp_slack",
   "stationarity", "q0_norm", "q_dots", "grad_norm", "dot", "slope", "Hq", "HV", "ritz",
   "sign", "min_eigval", "min_slack", "free", "gram", "detect", "lambda", "winner",
   "ready", "escapes", "strengths", "variables"}
NoNumbers == [x \in Quantities |-> EmptyBag]
NoLift == [eig |-> null, kept |-> null]

Start == [outer |-> 0, middle |-> 0, inner |-> 0, esc |-> 0, stalled |-> FALSE]

Init ==
  /\ setup \in Setups
  /\ pc = [p \in Procs |-> "head"]
  /\ rank_list = [p \in Procs |-> setup.ranks[coords(p)[2] + 1][my_cone(p) + 1]]
  /\ LET entry == [p \in Procs |-> Ready(p, WarmUp(my_cone(p)) \o HeadCalls, NoNumbers)]
     IN  /\ todo = [p \in Procs |-> entry[p].todo]
         /\ val = [p \in Procs |-> entry[p].val]
  /\ told = <<>>
  /\ heard = [p \in Procs |-> 0]
  /\ loop = [p \in Procs |-> Start]
  /\ lift = [p \in Procs |-> NoLift]

-----------------------------------------------------------------------------
(* The loop.  What the counters of stalls come to is not followed: the gap *)
(* stalls, and the gate augments, when it is decided so.                   *)

Measures(p) == <<val[p].p_obj, val[p].d_obj, val[p].q0_norm, RhsNorm(p)>>
HeadOfLoop(p) ==
  /\ At(p, "head")
  /\ \E o \in {"moving", "stalled", "early"} :
       /\ Decides(p, Measures(p), {"moving", "stalled", "early"}, o)
       /\ Set(loop, p, [loop[p] EXCEPT !.stalled = (o = "stalled")])
       /\ IF o = "early" THEN GoOn(p, val[p], "lift", DualSlack(my_cone(p)))
          ELSE GoOn(p, val[p], "converged", compute_global_q0_norm \o GLOBAL_NORM)
  /\ UNCHANGED <<setup, rank_list, lift>>

\* The end of SOLVE_INNER_LBFGS: of the main solve the processes ask each
\* other whether to look for negative curvature, of one after an escape they
\* look again.
OwnDetection(p, stationary) ==
  [val[p] EXCEPT !.detect = One(<<p, stationary /\ loop[p].stalled>>)]
LeaveInner(p, stationary) ==
  CASE loop[p].esc = 0 -> GoOn(p, OwnDetection(p, stationary), "detect",
                               <<Call("all", {"detect"}, {})>>)
    [] loop[p].esc \in 1..(setup.max_curvature_escape_steps - 1) ->
         GoOn(p, val[p], "winner", Probe(my_cone(p), rank_list[p]))
    [] OTHER -> GoOn(p, val[p], "dual_step", DualStepCalls)

Converged(p) ==
  /\ At(p, "converged")
  /\ \E o \in BOOLEAN :
       /\ Decides(p, <<val[p].grad_norm, Linf(coords(p)), RhsNorm(p)>>,
                  IF loop[p].inner > 0 THEN BOOLEAN ELSE {FALSE}, o)
       /\ IF o THEN LeaveInner(p, TRUE)
          ELSE GoOn(p, val[p], "step", LBFGS_DIRECTION \o COMPUTE_EXACT_STEP_SIZE)
  /\ UNCHANGED <<setup, loop, rank_list, lift>>

StepSize(p) == <<val[p].dot, val[p].q_dots, val[p].curvature_obj, val[p].slope>>
TakeStep(p) ==
  /\ At(p, "step")
  /\ \E moves \in BOOLEAN :
       /\ Decides(p, StepSize(p), BOOLEAN, moves)
       /\ Set(loop, p, IF moves THEN [loop[p] EXCEPT !.inner = @ + 1] ELSE loop[p])
       /\ IF moves /\ loop[p].inner + 1 < inner_iterations_limit
          THEN GoOn(p, val[p], "converged", COMPUTE_GRADIENT \o GLOBAL_NORM)
          ELSE LeaveInner(p, ~moves)
  /\ UNCHANGED <<setup, rank_list, lift>>

Detect(p) ==
  /\ At(p, "detect")
  /\ LET any == \E t \in DOMAIN val[p].detect : t[2]
     IN  /\ Decides(p, val[p].detect, {any}, any)
         /\ Set(loop, p, [loop[p] EXCEPT !.stalled = @ /\ ~any])
         /\ IF any
            THEN GoOn(p, val[p], "winner", COMPUTE_GRADIENT \o Probe(my_cone(p), rank_list[p]))
            ELSE GoOn(p, val[p], "dual_step", DualStepCalls)
  /\ UNCHANGED <<setup, rank_list, lift>>

-----------------------------------------------------------------------------
(* DETECT_NEGATIVE_CURVATURE_AND_ESCAPE.                                   *)

SpeaksForCone(p) == coords(p)[1] = 0 /\ coords(p)[2] = 0
NoEscape(p) ==
  GoOn(p, [val[p] EXCEPT !.escapes = One(<<p, 0>>)], "count", EscapeCount)

\* MPI_MINLOC: the curvature of a block of one of the cones is negative enough
\* and the most negative, or none is.  The winner tells the others its cone
\* and block.
Curvatures(p) == UNION {{<<t[1], b>> : b \in Blocks(t[1])} : t \in DOMAIN val[p].lambda}
Winner(p) ==
  /\ At(p, "winner")
  /\ \E w \in {null} \union Curvatures(p) :
       /\ Decides(p, val[p].lambda, {null} \union Curvatures(p), w)
       /\ IF w = null THEN NoEscape(p)
          ELSE GoOn(p, [val[p] EXCEPT !.winner = IF SpeaksForCone(p) /\ my_cone(p) = w[1]
                                                 THEN One(w) ELSE EmptyBag],
                    "rebuild", <<Call("all", {"winner"}, {})>>)
  /\ UNCHANGED <<setup, loop, rank_list, lift>>

\* The owners look at the curvature again, and all hear whether it is there.
OwnsWinner(p) == my_cone(p) = WinnerIn(val[p])[1]
Rebuild(p) ==
  /\ At(p, "rebuild")
  /\ Decides(p, val[p].winner, {null}, null)
  /\ GoOn(p, val[p], "escape",
          (IF OwnsWinner(p)
           THEN FIND_AL_NEGATIVE_CURVATURE(my_cone(p), rank_list[p], WinnerIn(val[p])[2])
           ELSE <<>>) \o RebuiltEverywhere)
  /\ UNCHANGED <<setup, loop, rank_list, lift>>

Escape(p) ==
  /\ At(p, "escape")
  /\ \E there \in BOOLEAN :
       /\ Decides(p, val[p].ready, BOOLEAN, there)
       /\ IF there
          THEN GoOn(p, val[p], "escaped",
                    (IF OwnsWinner(p) THEN Reduce("sign", <<"rank">>) ELSE <<>>)
                      \o COMPUTE_EXACT_STEP_SIZE)
          ELSE NoEscape(p)
  /\ UNCHANGED <<setup, loop, rank_list, lift>>

Escaped(p) ==
  /\ At(p, "escaped")
  /\ \E moves \in BOOLEAN :
       /\ Decides(p, StepSize(p), BOOLEAN, moves)
       /\ GoOn(p, [val[p] EXCEPT !.escapes =
                     One(<<p, IF moves /\ SpeaksForCone(p) /\ OwnsWinner(p) THEN 1 ELSE 0>>)],
               "count", EscapeCount)
  /\ UNCHANGED <<setup, loop, rank_list, lift>>

\* global_n_esc: after an escape the inner problem is solved again.
Count(p) ==
  /\ At(p, "count")
  /\ LET n_esc == \E t \in DOMAIN val[p].escapes : t[2] = 1
     IN  /\ Decides(p, val[p].escapes, {n_esc}, n_esc)
         /\ Set(loop, p, [loop[p] EXCEPT !.esc = IF n_esc THEN @ + 1 ELSE @, !.inner = 0])
         /\ IF n_esc
            THEN GoOn(p, val[p], "converged",
                      COMPUTE_PRIMAL_RESIDUAL \o COMPUTE_GRADIENT \o GLOBAL_NORM)
            ELSE GoOn(p, val[p], "dual_step", DualStepCalls)
  /\ UNCHANGED <<setup, rank_list, lift>>

-----------------------------------------------------------------------------
(* The dual step, the gate, the augmentation and the end of an iteration.  *)

DualStep(p) ==
  /\ At(p, "dual_step")
  /\ \E stalls \in BOOLEAN :
       /\ Decides(p, val[p].q0_norm, BOOLEAN, stalls)
       /\ Set(loop, p, [loop[p] EXCEPT !.middle = @ + 1, !.inner = 0, !.esc = 0])
       /\ IF stalls \/ loop[p].middle + 1 = setup.max_middle_iters
          THEN GoOn(p, val[p], "gate", GateCalls)
          ELSE GoOn(p, val[p], "converged", GLOBAL_NORM)
  /\ UNCHANGED <<setup, rank_list, lift>>

NoDualResidual(p) == [val[p] EXCEPT !.min_slack = EmptyBag, !.free = EmptyBag]
Gate(p) ==
  /\ At(p, "gate")
  /\ \E o \in {"augment", "check", "go_on"} :
       /\ Decides(p, Measures(p), {"augment", "check", "go_on"}, o)
       /\ CASE o = "augment" -> GoOn(p, val[p], "lift", DualSlack(my_cone(p)))
            [] o = "check" ->
                 GoOn(p, val[p], "terminate", CHECK_DUAL_INFEASIBILITY(my_cone(p)))
            [] o = "go_on" -> GoOn(p, NoDualResidual(p), "terminate", <<>>)
  /\ UNCHANGED <<setup, loop, rank_list, lift>>

\* augment_system_rank; no block outgrows the bound on its rank.
Grown(c, ranks, incs) ==
  [b \in Blocks(c) |-> Min({ranks[b] + incs[b], BlockDims(c)[b], setup.max_rank})]

\* CHECK_DUAL_INFEASIBILITY_AND_AUGMENT, when its searches are done: a process
\* lifts if blocks of its own have negative directions.
Lift(p) ==
  /\ At(p, "lift")
  /\ \E found \in setup.directions :
       LET eig == found[my_cone(p) + 1]
       IN  /\ Decides(p, val[p].min_eigval, setup.directions, found)
           /\ CASE \A b \in DOMAIN eig : eig[b] = <<>> ->
                     GoOn(p, val[p], "terminate", <<>>) /\ UNCHANGED <<rank_list, lift>>
                [] setup.mode = "random" /\ \E b \in DOMAIN eig : eig[b] # <<>> ->
                     /\ Set(rank_list, p, Grown(my_cone(p), rank_list[p],
                                                [b \in DOMAIN eig |-> Len(eig[b])]))
                     /\ GoOn(p, val[p], "terminate", <<>>)
                     /\ UNCHANGED lift
                [] setup.mode # "random" /\ \E b \in DOMAIN eig : eig[b] # <<>> ->
                     /\ Set(lift, p, [NoLift EXCEPT !.eig = eig])
                     /\ GoOn(p, [val[p] EXCEPT
                                 !.strengths = One(<<my_cone(p), Strengths(eig)>>)],
                             "select", <<Call("cone", {"strengths"}, {})>>)
                     /\ UNCHANGED rank_list
  /\ UNCHANGED <<setup, loop>>

\* What the processes of the cone axis gave, in the order of their cones.
Parts(p, x) ==
  [c \in 1..setup.dims[3] |-> (CHOOSE t \in DOMAIN val[p][x] : t[1] = c - 1)[2]]

SelectCalls(kept) ==
  (IF setup.mode = "sdp" THEN Repeat(Len(FlattenSeq(kept)), Reduce("H", <<"row">>)) ELSE <<>>)
    \o <<Call("cone", {"variables"}, {})>> \o Reduce("gram", <<"row">>)
Select(p) ==
  LET kept == select_strongest_directions(lift[p].eig, Parts(p, "strengths"), my_cone(p))
  IN  /\ At(p, "select")
      /\ Decides(p, val[p].strengths, {null}, null)
      /\ Set(lift, p, [lift[p] EXCEPT !.kept = kept])
      /\ GoOn(p, [val[p] EXCEPT !.variables =
                    One(<<my_cone(p), Variables(my_cone(p), kept, setup.mode)>>)],
              "weigh", SelectCalls(kept))
      /\ UNCHANGED <<setup, loop, rank_list>>

OwnVariables(p) == Variables(my_cone(p), lift[p].kept, setup.mode)
Weigh(p) ==
  LET parts == Parts(p, "variables")
      options == Solutions(FlattenSeq(parts), setup.mode)
  IN  /\ At(p, "weigh")
      /\ \E solution \in options :
           /\ Decides(p, val[p].gram, options, solution)
           /\ Set(rank_list, p,
                  Grown(my_cone(p), rank_list[p],
                        rank_incs(lift[p].kept, OwnVariables(p),
                                  Displacement(parts, my_cone(p)), solution)))
      /\ GoOn(p, val[p], "terminate", <<>>)
      /\ UNCHANGED <<setup, loop, lift>>

\* check_termination, without the time limit and the cancel flag, which every
\* process tests on a clock and a flag of its own.
Terminate(p) ==
  /\ At(p, "terminate")
  /\ \E optimal \in BOOLEAN :
       /\ Decides(p, <<Measures(p), val[p].min_slack, val[p].free, ObjectiveNorm(p)>>,
                  IF val[p].free = EmptyBag THEN {FALSE} ELSE BOOLEAN, optimal)
       /\ IF optimal \/ loop[p].outer + 1 = setup.iteration_limit
          THEN GoOn(p, NoNumbers, "done", <<>>)
          ELSE GoOn(p, NoNumbers, "head", HeadCalls)
  /\ Set(loop, p, [loop[p] EXCEPT !.outer = @ + 1, !.middle = 0])
  /\ Set(lift, p, NoLift)
  /\ UNCHANGED <<setup, rank_list>>

Done == \A p \in Procs : pc[p] = "done"
Finished == Done /\ UNCHANGED vars

Next ==
  \/ \E p \in Procs :
       \/ Collective(p) \/ HeadOfLoop(p) \/ Converged(p) \/ TakeStep(p) \/ Detect(p)
       \/ Winner(p) \/ Rebuild(p) \/ Escape(p)
       \/ Escaped(p) \/ Count(p) \/ DualStep(p) \/ Gate(p) \/ Lift(p) \/ Select(p)
       \/ Weigh(p) \/ Terminate(p)
  \/ Finished

Spec == Init /\ [][Next]_vars
-----------------------------------------------------------------------------
(* Properties.                                                             *)

\* The setups whose processes decide alike: they compare with the same norms,
\* the shares of a block take as many steps of its search for negative
\* curvature, and in the modes that solve a joint subproblem a search finds
\* directions on all the cones or on none: solve_joint_rank_lift is called by
\* the processes whose own cones have some, and calls the others along the
\* cone axis.
IsSetup(s) ==
  /\ s.dims \in (Nat \ {0}) \X (Nat \ {0}) \X (Nat \ {0})
  /\ s.dims[1] * s.dims[2] * s.dims[3] = world_size
  /\ s.block_dims \in [1..s.dims[3] -> Seq(Nat \ {0})]
  /\ s.max_rank \in Nat \ {0}
  /\ {s.iteration_limit, s.max_middle_iters, s.max_curvature_escape_steps} \subseteq Nat
  /\ s.mode \in {"random", "closed", "qp", "sdp"}
  /\ s.ranks \in [1..s.dims[2] -> [1..s.dims[3] -> Seq(Nat \ {0})]]
  /\ \A i \in 1..s.dims[2], c \in 1..s.dims[3] :
       /\ Len(s.ranks[i][c]) = Len(s.block_dims[c])
       /\ \A b \in 1..Len(s.block_dims[c]) :
            s.ranks[i][c][b] <= s.block_dims[c][b] /\ s.ranks[i][c][b] <= s.max_rank
  /\ \A found \in s.directions :
       /\ found \in [1..s.dims[3] -> Seq(Seq(Int))]
       /\ \A c \in 1..s.dims[3] : Len(found[c]) = Len(s.block_dims[c])
DecideAlike(s) ==
  /\ IsSetup(s)
  /\ s.low_rank_objective => s.dims[1] = 1
  /\ ~s.scaled => s.dims[1] = 1 /\ s.dims[3] = 1
  /\ \A i, j \in 1..s.dims[2], c \in 1..s.dims[3] : \A b \in 1..Len(s.block_dims[c]) :
       \/ s.ranks[i][c][b] = s.ranks[j][c][b]
       \/ \A k \in {i, j} : s.block_dims[c][b] * s.ranks[k][c][b] >= NEGATIVE_CURVATURE_LANCZOS_K
  /\ s.mode # "random" => \A found \in s.directions :
       \/ \A c \in 1..s.dims[3] : \A b \in DOMAIN found[c] : found[c][b] = <<>>
       \/ \A c \in 1..s.dims[3] : \E b \in DOMAIN found[c] : found[c][b] # <<>>

\* Until all the processes have left the loop one of them can go on: they
\* never wait for each other in different calls (NCCL and MPI calls block, and
\* no call of the loop has a time limit).
SomeoneMoves ==
  Done \/ \E p \in Procs : (~Waiting(p) /\ pc[p] # "done") \/ Meet(p)

\* Processes that meet in a call are at the same place of the loop, in the
\* same iterations of it, and those that sum over the rows hold factors of the
\* same ranks, whose columns are what they sum.
SameCall ==
  \A p, q \in Procs :
    /\ Waiting(p)
    /\ Waiting(q)
    /\ Head(todo[p]) = Head(todo[q])
    /\ q \in Members(Head(todo[p]).on, p)
    => /\ pc[p] = pc[q] /\ loop[p] = loop[q]
       /\ Head(todo[p]).on = "row" => rank_list[p] = rank_list[q]

All(a) == 0..(setup.dims[a] - 1)
Product(row) == SetToBag({<<row, s, c>> : s \in All(2), c \in All(3)})
Gradient == SetToBag({<<r, Product(r)>> : r \in All(1)})
Ritz ==
  LET image(r) == SetToBag({<<r, s>> : s \in All(2)})
  IN  SetToBag({<<s, SetToBag({<<r, image(r)>> : r \in All(1)})>> : s \in All(2)})
Slack(c) == IF Blocks(c) = {} THEN EmptyBag ELSE SetToBag(All(1))
Whole(x, p) ==
  CASE x \in {"p_obj", "curvature_obj"} -> All(2) \X All(3)
    [] x = "d_obj" -> All(1)
    [] x \in {"q0_norm", "q_dots"} -> {<<r, Product(r)>> : r \in All(1)}
    [] x \in {"grad_norm", "dot", "slope"} -> {<<s, c, Gradient>> : s \in All(2), c \in All(3)}
    [] x = "lambda" ->
         {<<c, Ritz, Linf(<<0, 0, c>>)>> : c \in {c \in Cones : Blocks(c) # {}}}
    [] x = "ready" -> {<<coords(q), Ritz, Linf(coords(q))>> :
                         q \in {q \in Procs : my_cone(q) = WinnerIn(val[p])[1]}}
    [] x = "min_eigval" -> {<<c, Slack(c)>> : c \in Cones}
    [] x = "gram" -> {<<r, val[p].variables>> : r \in All(1)}
Reads(p) ==
  CASE pc[p] \in {"head", "gate"} -> {"p_obj", "d_obj", "q0_norm"}
    [] pc[p] = "converged" -> {"grad_norm"}
    [] pc[p] \in {"step", "escaped"} -> {"dot", "q_dots", "curvature_obj", "slope"}
    [] pc[p] = "winner" -> {"lambda"}
    [] pc[p] = "escape" -> {"ready"}
    [] pc[p] = "dual_step" -> {"q0_norm"}
    [] pc[p] = "lift" -> {"min_eigval"}
    [] pc[p] = "weigh" -> {"gram"}
    [] OTHER -> {}

\* A process decides on whole numbers: each share of each cone and each row of
\* the grid is in them, and in none of them twice, though all but the first
\* row, or all the rows, hold the same objective and the same factors.
EveryTermOnce ==
  \A p \in Procs : ~Waiting(p) => \A x \in Reads(p) : val[p][x] = SetToBag(Whole(x, p))

\* The lift is one over all the cones: with a cap on each block and one on
\* them all, no direction is left out for a weaker one of whatever process, as
\* many are kept as may be, and every process takes its own variables from the
\* solution.
LiftIsJoint ==
  \A p \in Procs :
    LET line == Members("cone", p)
        directions == UNION {UNION {{<<q, b, d>> : d \in DOMAIN lift[q].eig[b]} :
                                      b \in DOMAIN lift[q].eig} : q \in line}
        eigenvalue(t) == lift[t[1]].eig[t[2]][t[3]]
        before(s, t) == \/ eigenvalue(s) < eigenvalue(t)
                        \/ eigenvalue(s) = eigenvalue(t) /\ s[3] < t[3]
        candidates == {t \in directions :
          Cardinality({s \in directions : SubSeq(s, 1, 2) = SubSeq(t, 1, 2) /\ before(s, t)})
            < per_cone_cap}
        kept == {t \in directions : t[3] \in ToSet(lift[t[1]].kept[t[2]])}
    IN  (\A q \in line : lift[q].kept # null) =>
          /\ kept \subseteq candidates
          /\ Cardinality(kept) = Min({global_cap, Cardinality(candidates)})
          /\ \A t \in kept, s \in candidates \ kept : eigenvalue(t) <= eigenvalue(s)
          /\ At(p, "weigh") =>
               LET parts == Parts(p, "variables")
                   start == Displacement(parts, my_cone(p))
               IN  SubSeq(FlattenSeq(parts), start + 1, start + Len(OwnVariables(p)))
                     = OwnVariables(p)
=============================================================================
