----------------------------- MODULE LockStages -----------------------------
(***************************************************************************)
(* The loop of LockStep written once for all its processes.  Each of them  *)
(* goes through the same stages, some further than others, and at a stage  *)
(* a number is what the calls before it make of it.  The invariant at the  *)
(* end says so of every reachable state; LockStep_proofs shows that it is  *)
(* inductive.                                                              *)
(***************************************************************************)
EXTENDS LockStep

-----------------------------------------------------------------------------
(* What each process adds to a number at a stage r of the loop, and what   *)
(* the number comes to.                                                    *)

\* The processes that differ from p in the coordinates of D at most.
Cube(p, D) == {q \in Procs : \A a \in (1..3) \ D : coords(q)[a] = coords(p)[a]}

Image(i) == SetToBag({<<i, s>> : s \in All(2)})
HVs == {<<i, Image(i)>> : i \in All(1)}
Speaks(u) == coords(u)[1] = 0 /\ coords(u)[2] = 0
AllVariables(r) == {<<c, Variables(c, r.kept[c], setup.mode)>> : c \in Cones}
IfOwner(owner, c, S) == IF owner = c THEN SetToBag(S) ELSE EmptyBag
TermSet(x, u, r) ==
  LET row == coords(u)[1]
      share == coords(u)[2]
      cone == coords(u)[3]
  IN  CASE x \in {"Ax", "q"} -> {<<row, share, cone>>}
        [] x \in {"gradient", "q0_norm", "q_dots"} -> {<<row, Product(row)>>}
        [] x \in {"p_obj", "curvature_obj"} -> IF row = 0 THEN {<<share, cone>>} ELSE {}
        [] x \in {"d_obj", "Sq", "H", "lp_slack", "stationarity"} -> {row}
        [] x \in {"grad_norm", "dot", "slope"} -> {<<share, cone, Gradient>>}
        [] x = "Hq" -> {<<row, share>>}
        [] x = "HV" -> {<<row, Image(row)>>}
        [] x \in {"ritz", "sign"} -> {<<share, SetToBag(HVs)>>}
        [] x = "min_eigval" -> {<<cone, Slack(cone)>>}
        [] x = "min_slack" ->
             IF r.checked THEN {<<cone, Slack(cone), IfOwner(setup.lp, cone, All(1))>>} ELSE {}
        [] x = "free" ->
             IF r.checked THEN {<<cone, IfOwner(setup.free, cone, All(1))>>} ELSE {}
        [] x = "gram" -> {<<row, SetToBag(AllVariables(r))>>}
        [] x = "lambda" ->
             IF Speaks(u) /\ Blocks(cone) # {} THEN {<<cone, Ritz, Linf(coords(u))>>} ELSE {}
        [] x = "ready" ->
             IF cone = r.winner[1] THEN {<<coords(u), Ritz, Linf(coords(u))>>} ELSE {}
        [] x = "detect" -> {<<u, r.detect>>}
        [] x = "winner" -> IF Speaks(u) /\ cone = r.winner[1] THEN {r.winner} ELSE {}
        [] x = "escapes" ->
             {<<u, IF r.escaped /\ Speaks(u) /\ cone = r.winner[1] THEN 1 ELSE 0>>}
        [] x = "strengths" -> {<<cone, Strengths(r.eig[cone])>>}
        [] x = "variables" -> {<<cone, Variables(cone, r.kept[cone], setup.mode)>>}

\* The axes a number is to be summed over.
Full(x) ==
  CASE x \in {"Ax", "q", "grad_norm", "dot", "slope"} -> {2, 3}
    [] x \in {"gradient", "d_obj", "Sq", "H", "lp_slack", "stationarity", "q0_norm", "q_dots",
              "HV", "gram"} -> {1}
    [] x \in {"Hq", "ritz", "sign"} -> {2}
    [] x \in {"min_eigval", "min_slack", "free", "strengths", "variables"} -> {3}
    [] x \in {"p_obj", "curvature_obj", "detect", "lambda", "winner", "ready", "escapes"} -> 1..3

\* The terms of the processes that differ from p in the coordinates of D.
Terms(x, p, D, r) == UNION {TermSet(x, u, r) : u \in Cube(p, D)}

Total(x, p, D, r) == SetToBag(Terms(x, p, D, r))
\* The whole of a number, as the set of its terms, in a row of the grid.
WholeSet(x, row, r) ==
  CASE x \in {"Ax", "q"} -> {<<row, sc[1], sc[2]>> : sc \in All(2) \X All(3)}
    [] x \in {"gradient", "q0_norm", "q_dots"} -> {<<i, Product(i)>> : i \in All(1)}
    [] x \in {"p_obj", "curvature_obj"} -> All(2) \X All(3)
    [] x \in {"d_obj", "Sq", "H", "lp_slack", "stationarity"} -> All(1)
    [] x \in {"grad_norm", "dot", "slope"} -> {<<sc[1], sc[2], Gradient>> : sc \in All(2) \X All(3)}
    [] x = "Hq" -> {<<row, s>> : s \in All(2)}
    [] x = "HV" -> HVs
    [] x \in {"ritz", "sign"} -> {<<s, SetToBag(HVs)>> : s \in All(2)}
    [] x = "min_eigval" -> {<<c, Slack(c)>> : c \in Cones}
    [] x = "min_slack" ->
         IF r.checked THEN {<<c, Slack(c), IfOwner(setup.lp, c, All(1))>> : c \in Cones} ELSE {}
    [] x = "free" ->
         IF r.checked THEN {<<c, IfOwner(setup.free, c, All(1))>> : c \in Cones} ELSE {}
    [] x = "gram" -> {<<i, SetToBag(AllVariables(r))>> : i \in All(1)}
    [] x = "lambda" -> {<<c, Ritz, Linf(<<0, 0, c>>)>> : c \in {c \in Cones : Blocks(c) # {}}}
    [] x = "ready" -> {<<coords(q), Ritz, Linf(coords(q))>> :
                         q \in {q \in Procs : my_cone(q) = r.winner[1]}}
    [] x = "detect" -> {<<u, r.detect>> : u \in Procs}
    [] x = "winner" -> {r.winner}
    [] x = "escapes" ->
         {<<u, IF r.escaped /\ Speaks(u) /\ my_cone(u) = r.winner[1] THEN 1 ELSE 0>> : u \in Procs}
    [] x = "strengths" -> {<<c, Strengths(r.eig[c])>> : c \in Cones}
    [] x = "variables" -> AllVariables(r)

-----------------------------------------------------------------------------
(* What a process computes a term from.                                    *)

Announced == {"detect", "winner", "escapes", "strengths", "variables"}
Computed == Quantities \ Announced
\* The numbers that are to be whole before x is computed.
Needs(x, c, r) ==
  CASE x \in {"gradient", "q0_norm"} -> {"Ax"}
    [] x = "q_dots" -> {"q"}
    [] x \in {"grad_norm", "dot", "slope"} -> {"gradient"}
    [] x = "HV" -> {"Hq"}
    [] x \in {"ritz", "sign"} -> {"HV"}
    [] x = "min_eigval" -> IF Blocks(c) = {} THEN {} ELSE {"Sq"}
    [] x = "min_slack" -> (IF Blocks(c) = {} THEN {} ELSE {"Sq"})
                            \union (IF setup.lp = c THEN {"lp_slack"} ELSE {})
    [] x = "free" -> IF setup.free = c THEN {"stationarity"} ELSE {}
    [] x = "gram" -> {"variables"}
    [] x = "lambda" -> IF Blocks(c) = {} THEN {} ELSE {"ritz"}
    [] x = "ready" -> {"winner"} \union (IF c = r.winner[1] THEN {"ritz"} ELSE {})
    [] OTHER -> {}

\* What a term takes from the stage of the loop.
Sensible(x, r) ==
  /\ x \in {"min_slack", "free"} => r.checked
  /\ x \in {"winner", "ready"} => r.winner[1] \in Cones

-----------------------------------------------------------------------------
(* What a process knows: pairs of a number and the axes it has been summed *)
(* over so far.                                                            *)

Calls == [on : DOMAIN Axes, of : SUBSET Quantities, fresh : SUBSET Quantities]
\* The axes a number that is not fresh has been summed over before a call.
Prior(x, on) ==
  CASE x = "curvature_obj" -> (CASE on = "row" -> {} [] on = "rank" -> {1} [] OTHER -> {1, 2})
    [] x = "p_obj" -> (CASE on = "row" -> {2, 3} [] on = "cone" -> {2} [] OTHER -> {})
    [] x \in {"Ax", "q", "grad_norm", "dot", "slope"} -> IF on = "cone" THEN {2} ELSE {}
    [] OTHER -> {}

Before(x, call) == IF x \in call.fresh THEN {} ELSE Prior(x, call.on)
After(x, call) == Before(x, call) \union Axes[call.on]
Matches(p, r, v, facts) == \A f \in facts : v[f[1]] = Total(f[1], p, f[2], r)
Known(X, facts) == \A x \in X : <<x, Full(x)>> \in facts
\* A process of cone c that knows facts may make a call and know those of next
\* after it.
Fits(c, r, call, facts, x) ==
  /\ x \in Quantities
  /\ Before(x, call) \cap Axes[call.on] = {}
  /\ After(x, call) \subseteq Full(x)
  /\ IF x \in call.fresh
     THEN x \in Computed /\ Sensible(x, r) /\ Known(Needs(x, c, r), facts)
     ELSE <<x, Before(x, call)>> \in facts

Legal(c, r, call, facts, next) ==
  /\ call \in Calls
  /\ \A x \in call.of : Fits(c, r, call, facts, x)
  /\ \A f \in next : IF f[1] \in call.of THEN f = <<f[1], After(f[1], call)>> ELSE f \in facts

\* A process of cone c that knows facts may make the calls L in turn, and
\* knows next then.
Runs(c, r, L, facts, next) ==
  \E know : /\ know[0] \subseteq facts
            /\ next \subseteq know[Len(L)]
            /\ \A i \in 1..Len(L) : Legal(c, r, L[i], know[i - 1], know[i])

Named(facts) == \A f \in facts : f[1] \in Quantities
Wholes(X) == {<<x, Full(x)>> : x \in X}

-----------------------------------------------------------------------------
(* The lists of the cones side by side.  A call over the cones is in all   *)
(* of them, at the same level; no call is below one before it.             *)

Common(call) == call.on \in {"cone", "all"}
InOrder(L, lev, c, T) ==
  /\ L \in Seq(Calls)
  /\ \A i \in 1..Len(L) : lev[<<c, i>>] \in 0..T /\ (Common(L[i]) => lev[<<c, i>>] >= 1)
  /\ \A i, j \in 1..Len(L) :
       i < j => lev[<<c, i>>] <= lev[<<c, j>>]
                /\ (Common(L[j]) => lev[<<c, i>>] < lev[<<c, j>>])

InBoth(L, M, lev, c, d) ==
  \A i \in 1..Len(L) :
    Common(L[i]) => \E j \in 1..Len(M) : lev[<<d, j>>] = lev[<<c, i>>] /\ M[j] = L[i]

Levels(f, lev, T) ==
  /\ T \in Nat
  /\ \A c \in Cones : InOrder(f[c], lev, c, T)
  /\ \A c, d \in Cones : InBoth(f[c], f[d], lev, c, d)

Aligned(f) == \E lev, T : Levels(f, lev, T)

-----------------------------------------------------------------------------
(* A stage is what all the processes that come to a decision have in       *)
(* common: their label and counters, the ranks of each share of each cone, *)
(* the calls of each cone before the decision, and what was decided that a *)
(* number tells: whether to look for negative curvature, the winner,       *)
(* whether it escaped, the directions found and those kept, and whether    *)
(* the dual was checked.                                                   *)

Same(L) == [c \in Cones |-> L]
To(r, label, counters, calls) ==
  [pc |-> label, loop |-> counters, calls |-> calls, ranks |-> r.ranks, eig |-> r.eig,
   kept |-> r.kept, detect |-> r.detect, winner |-> r.winner, escaped |-> r.escaped,
   checked |-> TRUE]

FirstRanks(r, c) == r.ranks[<<0, c>>]
ProbeCalls(r) == [c \in Cones |-> Probe(c, FirstRanks(r, c))]
LeaveStage(r, counters, stationary) ==
  CASE counters.esc = 0 ->
         [To(r, "detect", counters, Same(<<Call("all", {"detect"}, {})>>))
            EXCEPT !.detect = (stationary /\ counters.stalled)]
    [] counters.esc \in 1..(setup.max_curvature_escape_steps - 1) ->
         To(r, "winner", counters, ProbeCalls(r))
    [] OTHER -> To(r, "dual_step", counters, Same(DualStepCalls))

AfterHead(r, o) ==
  LET counters == [r.loop EXCEPT !.stalled = (o = "stalled")]
  IN  IF o = "early" THEN To(r, "lift", counters, [c \in Cones |-> DualSlack(c)])
      ELSE To(r, "converged", counters, Same(compute_global_q0_norm \o GLOBAL_NORM))

AfterConverged(r, o) ==
  IF o THEN LeaveStage(r, r.loop, TRUE)
  ELSE To(r, "step", r.loop, Same(LBFGS_DIRECTION \o COMPUTE_EXACT_STEP_SIZE))

AfterStep(r, o) ==
  LET counters == IF o THEN [r.loop EXCEPT !.inner = @ + 1] ELSE r.loop
  IN  IF o /\ r.loop.inner + 1 < inner_iterations_limit
      THEN To(r, "converged", counters, Same(COMPUTE_GRADIENT \o GLOBAL_NORM))
      ELSE LeaveStage(r, counters, ~o)

AfterDetect(r, o) ==
  LET counters == [r.loop EXCEPT !.stalled = @ /\ ~o]
  IN  IF o THEN To(r, "winner", counters,
                   [c \in Cones |-> COMPUTE_GRADIENT \o Probe(c, FirstRanks(r, c))])
      ELSE To(r, "dual_step", counters, Same(DualStepCalls))

AfterWinner(r, o) ==
  IF o = null THEN [To(r, "count", r.loop, Same(EscapeCount)) EXCEPT !.escaped = FALSE]
  ELSE [To(r, "rebuild", r.loop, Same(<<Call("all", {"winner"}, {})>>)) EXCEPT !.winner = o]

AfterRebuild(r, o) ==
  To(r, "escape", r.loop,
     [c \in Cones |->
        (IF c = r.winner[1] THEN FIND_AL_NEGATIVE_CURVATURE(c, FirstRanks(r, c), r.winner[2])
         ELSE <<>>) \o RebuiltEverywhere])

AfterEscape(r, o) ==
  IF o THEN To(r, "escaped", r.loop,
               [c \in Cones |-> (IF c = r.winner[1] THEN Reduce("sign", <<"rank">>) ELSE <<>>)
                                  \o COMPUTE_EXACT_STEP_SIZE])
  ELSE [To(r, "count", r.loop, Same(EscapeCount)) EXCEPT !.escaped = FALSE]

AfterEscaped(r, o) ==
  [To(r, "count", r.loop, Same(EscapeCount)) EXCEPT !.escaped = o]

AfterCount(r, o) ==
  LET counters == [r.loop EXCEPT !.esc = IF o THEN @ + 1 ELSE @, !.inner = 0]
  IN  IF o THEN To(r, "converged", counters,
                   Same(COMPUTE_PRIMAL_RESIDUAL \o COMPUTE_GRADIENT \o GLOBAL_NORM))
      ELSE To(r, "dual_step", counters, Same(DualStepCalls))

AfterDualStep(r, o) ==
  LET counters == [r.loop EXCEPT !.middle = @ + 1, !.inner = 0, !.esc = 0]
  IN  IF o \/ r.loop.middle + 1 = setup.max_middle_iters
      THEN To(r, "gate", counters, Same(GateCalls))
      ELSE To(r, "converged", counters, Same(GLOBAL_NORM))

\* The end of an iteration without a joint lift.
Unlifted(r, calls) == [To(r, "terminate", r.loop, calls) EXCEPT !.kept = null]
AfterGate(r, o) ==
  CASE o = "augment" -> To(r, "lift", r.loop, [c \in Cones |-> DualSlack(c)])
    [] o = "check" -> Unlifted(r, [c \in Cones |-> CHECK_DUAL_INFEASIBILITY(c)])
    [] o = "go_on" -> [Unlifted(r, Same(<<>>)) EXCEPT !.checked = FALSE]

NoneFound(o, c) == \A b \in DOMAIN o[c + 1] : o[c + 1][b] = <<>>
RanksAfterLift(r, o) ==
  [x \in All(2) \X Cones |->
     IF NoneFound(o, x[2]) THEN r.ranks[x]
     ELSE Grown(x[2], r.ranks[x], [b \in DOMAIN o[x[2] + 1] |-> Len(o[x[2] + 1][b])])]

AfterLift(r, o) ==
  CASE setup.mode = "random" ->
         [Unlifted(r, Same(<<>>)) EXCEPT !.ranks = RanksAfterLift(r, o)]
    [] setup.mode # "random" /\ NoneFound(o, 0) -> Unlifted(r, Same(<<>>))
    [] OTHER -> [To(r, "select", r.loop, Same(<<Call("cone", {"strengths"}, {})>>))
                   EXCEPT !.eig = [c \in Cones |-> o[c + 1]]]

StrengthParts(r) == [c \in 1..setup.dims[3] |-> Strengths(r.eig[c - 1])]
KeptAfter(r) ==
  [c \in Cones |-> select_strongest_directions(r.eig[c], StrengthParts(r), c)]

AfterSelect(r, o) ==
  LET kept == KeptAfter(r)
  IN  [To(r, "weigh", r.loop, [c \in Cones |-> SelectCalls(kept[c])]) EXCEPT !.kept = kept]

VariablesOf(r, c) == Variables(c, r.kept[c], setup.mode)
VariableParts(r) == [c \in 1..setup.dims[3] |-> VariablesOf(r, c - 1)]
IncsAfter(r, o, c) ==
  rank_incs(r.kept[c], VariablesOf(r, c), Displacement(VariableParts(r), c), o)

AfterWeigh(r, o) ==
  [To(r, "terminate", r.loop, Same(<<>>)) EXCEPT !.ranks =
     [x \in All(2) \X Cones |-> Grown(x[2], r.ranks[x], IncsAfter(r, o, x[2]))]]

AfterTerminate(r, o) ==
  LET counters == [r.loop EXCEPT !.outer = @ + 1, !.middle = 0]
  IN  IF o \/ r.loop.outer + 1 = setup.iteration_limit
      THEN To(r, "done", counters, Same(<<>>))
      ELSE To(r, "head", counters, Same(HeadCalls))

NextStage(r, o) ==
  CASE r.pc = "head" -> AfterHead(r, o)
    [] r.pc = "converged" -> AfterConverged(r, o)
    [] r.pc = "step" -> AfterStep(r, o)
    [] r.pc = "detect" -> AfterDetect(r, o)
    [] r.pc = "winner" -> AfterWinner(r, o)
    [] r.pc = "rebuild" -> AfterRebuild(r, o)
    [] r.pc = "escape" -> AfterEscape(r, o)
    [] r.pc = "escaped" -> AfterEscaped(r, o)
    [] r.pc = "count" -> AfterCount(r, o)
    [] r.pc = "dual_step" -> AfterDualStep(r, o)
    [] r.pc = "gate" -> AfterGate(r, o)
    [] r.pc = "lift" -> AfterLift(r, o)
    [] r.pc = "select" -> AfterSelect(r, o)
    [] r.pc = "weigh" -> AfterWeigh(r, o)
    [] r.pc = "terminate" -> AfterTerminate(r, o)

FirstStage ==
  [pc |-> "head", loop |-> Start, calls |-> [c \in Cones |-> WarmUp(c) \o HeadCalls],
   ranks |-> [x \in All(2) \X Cones |-> setup.ranks[x[1] + 1][x[2] + 1]],
   eig |-> null, kept |-> null, detect |-> FALSE, winner |-> null, escaped |-> FALSE,
   checked |-> TRUE]

-----------------------------------------------------------------------------
(* What may be decided at a stage, what the stages have in common, and the *)
(* numbers a process has when it decides.                                  *)

\* What may be decided at a stage.
IsCurvature(w) == w[1] \in Cones /\ w[2] \in Blocks(w[1])

IsOption(r, o) ==
  CASE r.pc = "head" -> o \in {"moving", "stalled", "early"}
    [] r.pc = "converged" -> o \in BOOLEAN /\ (o => r.loop.inner > 0)
    [] r.pc \in {"step", "detect", "escape", "escaped", "count", "dual_step", "terminate"} ->
         o \in BOOLEAN
    [] r.pc = "winner" -> o # null => IsCurvature(o)
    [] r.pc = "gate" -> o \in {"augment", "check", "go_on"}
    [] r.pc = "lift" -> o \in setup.directions
    [] OTHER -> TRUE

\* The ranks of a process: of each block of its cone a positive one.
IsRanks(c, ranks) == ranks \in [Blocks(c) -> Nat \ {0}]
                     /\ \A b \in Blocks(c) : ranks[b] <= BlockDims(c)[b] /\ ranks[b] <= setup.max_rank

Counters == [outer : Nat, middle : Nat, inner : Nat, esc : Nat, stalled : BOOLEAN]
SearchedAlike(c, ranks, others) ==
  \A b \in Blocks(c) :
    \/ ranks[b] = others[b]
    \/ /\ BlockDims(c)[b] * ranks[b] >= NEGATIVE_CURVATURE_LANCZOS_K
       /\ BlockDims(c)[b] * others[b] >= NEGATIVE_CURVATURE_LANCZOS_K

RanksOK(r) ==
  \A s \in All(2), c \in Cones :
    /\ IsRanks(c, r.ranks[<<s, c>>])
    /\ SearchedAlike(c, r.ranks[<<s, c>>], FirstRanks(r, c))

IsFound(eig, c) == DOMAIN eig = Blocks(c) /\ \A b \in Blocks(c) : eig[b] \in Seq(Int)
IsList(s) == \E A : \E n \in Nat : s \in [1..n -> A]
IsKept(kept, c) == DOMAIN kept = Blocks(c) /\ \A b \in Blocks(c) : IsList(kept[b])
StageOK(r) ==
  /\ r.loop \in Counters
  /\ RanksOK(r)
  /\ Aligned(r.calls)
  /\ r.pc \in {"rebuild", "escape", "escaped"} => IsCurvature(r.winner)
  /\ r.pc = "select" => \A c \in Cones : IsFound(r.eig[c], c)
  /\ r.pc = "weigh" => \A c \in Cones : IsKept(r.kept[c], c)
  /\ r.pc # "terminate" => r.checked

Base == {"Ax", "gradient", "p_obj", "d_obj", "q0_norm"}
\* The numbers a process of cone c has when it decides.
StepNumbers == {"q_dots", "curvature_obj", "slope"}

Residuals == {"min_slack", "free"}
Goal(r, c) ==
  CASE r.pc \in {"head", "dual_step", "gate"} -> Base
    [] r.pc = "converged" ->
         Base \union {"grad_norm"} \union (IF r.loop.inner > 0 THEN {"dot"} ELSE {})
    [] r.pc = "step" -> Base \union {"dot"} \union StepNumbers
    [] r.pc = "detect" -> Base \union {"dot", "detect"}
    [] r.pc = "winner" -> Base \union {"dot", "lambda"}
    [] r.pc = "rebuild" -> Base \union {"dot", "winner"}
    [] r.pc = "escape" ->
         Base \union {"dot", "winner", "ready"} \union (IF c = r.winner[1] THEN {"HV"} ELSE {})
    [] r.pc = "escaped" -> Base \union {"dot", "winner"} \union StepNumbers
    [] r.pc = "count" -> Base \union {"escapes"}
    [] r.pc = "lift" -> Base \union {"min_eigval"} \union Residuals
    [] r.pc = "select" -> Base \union {"strengths"} \union Residuals
    [] r.pc = "weigh" -> Base \union {"variables", "gram"} \union Residuals
    [] r.pc = "terminate" -> Base \union Residuals
    [] OTHER -> {}

-----------------------------------------------------------------------------
(* Calls of two processes that are one call.                               *)

Leveled(r, lev) == \E T : Levels(r.calls, lev, T)
Meets(r, lev, c, i, d, j) ==
  IF c = d THEN i = j
  ELSE /\ Common(r.calls[c][i])
       /\ r.calls[d][j] = r.calls[c][i]
       /\ lev[<<d, j>>] = lev[<<c, i>>]

CallsOf(r, p) == r.calls[my_cone(p)]
\* The i-th call of p at the stage r is the j-th of q.
Partners(r, lev, p, i, q, j) ==
  /\ i \in 1..Len(CallsOf(r, p))
  /\ j \in 1..Len(CallsOf(r, q))
  /\ q \in Members(CallsOf(r, p)[i].on, p)
  /\ Meets(r, lev, my_cone(p), i, my_cone(q), j)

-----------------------------------------------------------------------------
(* The story of a run: the stages from that of the slowest process on, and *)
(* what is read at each.                                                   *)

\* What a process reads at a stage.
WholeOf(x, r) == SetToBag(WholeSet(x, 0, r))

Norm == IF setup.scaled THEN "whole" ELSE 0
Gaps(r) == <<WholeOf("p_obj", r), WholeOf("d_obj", r), WholeOf("q0_norm", r), Norm>>
Readings(r) ==
  CASE r.pc \in {"head", "gate"} -> Gaps(r)
    [] r.pc = "converged" -> <<WholeOf("grad_norm", r), Linf(<<0, 0, 0>>), Norm>>
    [] r.pc \in {"step", "escaped"} ->
         <<WholeOf("dot", r), WholeOf("q_dots", r), WholeOf("curvature_obj", r), WholeOf("slope", r)>>
    [] r.pc = "detect" -> WholeOf("detect", r)
    [] r.pc = "winner" -> WholeOf("lambda", r)
    [] r.pc = "rebuild" -> WholeOf("winner", r)
    [] r.pc = "escape" -> WholeOf("ready", r)
    [] r.pc = "count" -> WholeOf("escapes", r)
    [] r.pc = "dual_step" -> WholeOf("q0_norm", r)
    [] r.pc = "lift" -> WholeOf("min_eigval", r)
    [] r.pc = "select" -> WholeOf("strengths", r)
    [] r.pc = "weigh" -> WholeOf("gram", r)
    [] r.pc = "terminate" -> <<Gaps(r), WholeOf("min_slack", r), WholeOf("free", r), Norm>>

KeyOf(r) == <<r.pc, Readings(r)>>
Labels == {"head", "converged", "step", "detect", "winner", "rebuild", "escape", "escaped",
           "count", "dual_step", "gate", "lift", "select", "weigh", "terminate"}

\* The directions kept are in use.
Lifted(r) == r.pc = "weigh" \/ (r.pc = "terminate" /\ r.kept # null)
\* Between two main solves there are no steps of the inner loop, and what is
\* kept of the directions found is what the selection makes of them.
Quiet(r) ==
  /\ r.pc \in {"head", "gate", "lift", "select", "weigh", "terminate"} => r.loop.inner = 0
  /\ Lifted(r) => (\A c \in Cones : IsFound(r.eig[c], c)) /\ r.kept = KeptAfter(r)

Follows(r, n, t) ==
  /\ r.pc \in Labels
  /\ \E o : IsOption(r, o) /\ t = [k \in {KeyOf(r)} |-> o] /\ n = NextStage(r, o)

Story(st, lv, t) ==
  /\ IsList(t)
  /\ \A k \in 0..Len(t) : StageOK(st[k]) /\ Quiet(st[k]) /\ Leveled(st[k], lv[k])
  /\ \A k \in 1..Len(t) : Follows(st[k - 1], st[k], t[k])

-----------------------------------------------------------------------------
(* The inductive invariant: there is a story of the run in which every     *)
(* process has its place, and of one call either all its processes have    *)
(* made theirs or none.                                                    *)

\* A process at the stage r that has made i of its calls.
Knows(p, r, L, v) ==
  \E facts : /\ Named(facts)
             /\ Matches(p, r, v, facts)
             /\ Runs(my_cone(p), r, L, facts, Wholes(Goal(r, my_cone(p))))

OwnRanks(p, r) == r.ranks[<<coords(p)[2], my_cone(p)>>]
SameLift(p, r, own) ==
  own = CASE r.pc = "select" -> [eig |-> r.eig[my_cone(p)], kept |-> null]
          [] Lifted(r) -> [eig |-> r.eig[my_cone(p)], kept |-> r.kept[my_cone(p)]]
          [] OTHER -> NoLift

Place(p, r, i, label, counters, ranks, own, L, v) ==
  /\ label = r.pc
  /\ counters = r.loop
  /\ ranks = OwnRanks(p, r)
  /\ SameLift(p, r, own)
  /\ i \in 0..Len(CallsOf(r, p))
  /\ L = SubSeq(CallsOf(r, p), i + 1, Len(CallsOf(r, p)))
  /\ DOMAIN v = Quantities
  /\ Knows(p, r, L, v)

\* Of one call either all its processes have made theirs or none.
Did(h, pos, p, k, i) == h[p] > k \/ (h[p] = k /\ i <= pos[p])

Together(st, lv, n, h, pos) ==
  \A p, q \in Procs, k \in 0..n : \A i, j :
    Partners(st[k], lv[k], p, i, q, j) => (Did(h, pos, p, k, i) <=> Did(h, pos, q, k, j))

OfAll(f) == f = [q \in Procs |-> f[q]]
Hold(st, lv, pos, t, h, label, counters, ranks, own, L, v) ==
  /\ Story(st, lv, t)
  /\ OfAll(pos) /\ OfAll(h) /\ OfAll(label) /\ OfAll(counters) /\ OfAll(ranks) /\ OfAll(own)
  /\ OfAll(L) /\ OfAll(v)
  /\ \A p \in Procs :
       /\ h[p] \in 0..Len(t)
       /\ Place(p, st[h[p]], pos[p], label[p], counters[p], ranks[p], own[p], L[p], v[p])
  /\ Together(st, lv, Len(t), h, pos)

LockStepInv ==
  /\ DecideAlike(setup)
  /\ \E st, lv, pos, t, h, label, counters, ranks, own, L, v :
       /\ t = told /\ h = heard /\ label = pc /\ counters = loop /\ ranks = rank_list
       /\ own = lift /\ L = todo /\ v = val
       /\ Hold(st, lv, pos, t, h, label, counters, ranks, own, L, v)
=============================================================================
