------------------------------- MODULE Rescale -------------------------------
(***************************************************************************)
(* Preconditioning (rescale_problem of src/precondition.c): the problem is *)
(* copied and divided by the factors of Ruiz passes, of one Pock-Chambolle *)
(* pass and of the bound/objective scaling; info records the factors, and  *)
(* unscale_result undoes them in the solution.                             *)
(***************************************************************************)
EXTENDS Scaling

CONSTANTS
  Givens,          \* the problems a behaviour may start from
  Settings,        \* the parameters it may be started with
  Solutions        \* the (scaled) solutions the solver may return

ASSUME InputsAssumption ==
  /\ \A p \in Givens : IsProblem(p)
  /\ \A s \in Solutions : IsSolution(s)
  /\ \A s \in Settings : /\ s.ruiz_iterations \in Nat
                         /\ s.has_alpha \in BOOLEAN
                         /\ s.alpha \in 0..2
                         /\ s.bound_objective \in BOOLEAN
                         /\ s.per_cone \in BOOLEAN

VARIABLES
  stage,     \* the statement rescale_problem and its caller are at
  params,
  original,  \* original_problem
  scaled,    \* info->scaled_problem
  iter,      \* Ruiz iterations done
  info,      \* the recorded factors
  solution,  \* what the solver returned for the scaled problem
  result     \* what unscale_result made of it

vars == <<stage, params, original, scaled, iter, info, solution, result>>
-----------------------------------------------------------------------------
Init ==
  /\ stage = "start"
  /\ params \in Settings
  /\ original \in Givens
  /\ scaled = original
  /\ iter = 0
  /\ info = NoRescaling
  /\ solution \in Solutions
  /\ result = solution

\* rescale_problem returns no info, and the solver gets the original problem.
Disabled ==
  /\ stage = "start"
  /\ ~scaling_enabled(params)
  /\ stage' = "solved"
  /\ UNCHANGED <<params, original, scaled, iter, info, solution, result>>

\* The copy, and factors of 1.
Copy ==
  /\ stage = "start"
  /\ scaling_enabled(params)
  /\ scaled' = original
  /\ info' = NoRescaling
  /\ stage' = "ruiz"
  /\ UNCHANGED <<params, original, iter, solution, result>>

Divide(f) ==
  /\ scaled' = Divided(scaled, f)
  /\ info' = Accumulated(info, f)

RuizIteration ==
  /\ stage = "ruiz"
  /\ iter < params.ruiz_iterations
  /\ Divide(RuizFactors(scaled, params.per_cone))
  /\ iter' = iter + 1
  /\ UNCHANGED <<stage, params, original, solution, result>>

PockChambolle ==
  /\ stage = "ruiz"
  /\ iter = params.ruiz_iterations
  /\ params.has_alpha
  /\ params.alpha > 0
  /\ Divide(Capped(info, PockChambolleFactors(scaled, params.alpha,
                                              params.per_cone)))
  /\ stage' = "capped"
  /\ UNCHANGED <<params, original, iter, solution, result>>

BeforeBound == \/ stage = "capped"
               \/ /\ stage = "ruiz"
                  /\ iter = params.ruiz_iterations
                  /\ ~(params.has_alpha /\ params.alpha > 0)

BoundObjective ==
  /\ BeforeBound
  /\ params.bound_objective
  /\ scaled' = Bounded(scaled, BoundScale(scaled), ObjectiveScale(scaled))
  /\ info' = [info EXCEPT !.tau_b = BoundScale(scaled),
                          !.tau_c = ObjectiveScale(scaled)]
  /\ stage' = "scaled"
  /\ UNCHANGED <<params, original, iter, solution, result>>

NoBoundObjective ==
  /\ BeforeBound
  /\ ~params.bound_objective
  /\ stage' = "scaled"
  /\ UNCHANGED <<params, original, scaled, iter, info, solution, result>>

\* The solver has returned; the caller gets the unscaled result.
Unscale ==
  /\ stage = "scaled"
  /\ result' = Unscaled(info, solution)
  /\ stage' = "solved"
  /\ UNCHANGED <<params, original, scaled, iter, info, solution>>

Next == \/ Disabled \/ Copy \/ RuizIteration \/ PockChambolle
        \/ BoundObjective \/ NoBoundObjective \/ Unscale

Spec == Init /\ [][Next]_vars
-----------------------------------------------------------------------------
\* The copy keeps the structure of the original, and every number is one.
TypeOK ==
  /\ stage \in {"start", "ruiz", "capped", "scaled", "solved"}
  /\ params \in Settings
  /\ original \in Givens
  /\ IsProblem(scaled)
  /\ iter \in 0..params.ruiz_iterations
  /\ IsInfo(info)
  /\ solution \in Solutions
  /\ IsSolution(result)

\* What info records is what the copy was divided by, whatever the passes
\* were and in every datum: constraint entries, right-hand side, objective
\* and low-rank columns (ruiz_rescaling_sdp, pock_chambolle_rescaling_sdp
\* and bound_obj_rescaling_sdp each divide all of these and update info).
RecordedEntries ==
  /\ DOMAIN scaled.A = DOMAIN original.A
  /\ \A e \in DOMAIN original.A :
       scaled.A[e] = original.A[e] - info.row[e[1]] - VarFactor(info.unit, e[2])
RecordedVectors ==
  /\ DOMAIN scaled.c = DOMAIN original.c
  /\ \A r \in Rows : scaled.b[r] = original.b[r] - info.row[r] + info.tau_b
  /\ \A v \in DOMAIN original.c :
       scaled.c[v] = original.c[v] - VarFactor(info.unit, v) + info.tau_c
RecordedColumn(new, old) ==
  /\ new.row = old.row
  /\ new.cone = old.cone
  /\ new.w = IF old.row = objective THEN old.w + info.tau_c
             ELSE old.w - info.row[old.row]
  /\ DOMAIN new.u = DOMAIN old.u
  /\ \A s \in DOMAIN old.u : new.u[s] = old.u[s] - info.unit[s]
RecordedColumns ==
  /\ DOMAIN scaled.L = DOMAIN original.L
  /\ \A j \in DOMAIN original.L : RecordedColumn(scaled.L[j], original.L[j])
Recorded == RecordedEntries /\ RecordedVectors /\ RecordedColumns

\* The bound/objective factors are set once, after the diagonal ones.
BoundScaledLast == stage \in {"start", "ruiz", "capped"}
                     => info.tau_b = 0 /\ info.tau_c = 0

\* After the Pock-Chambolle pass no cumulative diagonal factor, Ruiz
\* included, exceeds pc_max_diag ("Cap CUMULATIVE diagonal scaling").
CumulativeCap ==
  stage = "capped" => /\ \A r \in Rows : info.row[r] <= pc_max_diag
                      /\ \A u \in Units : info.unit[u] <= pc_max_diag

\* Per-cone scaling keeps one factor for all the rows of a cone, through
\* every pass and the cap: the scaled cone is the cone itself.
PerConeUniform ==
  params.per_cone => \A k \in Cones : \A s, t \in ConeSlots(k) :
                       info.unit[s] = info.unit[t]

\* What a result weighs in the terms of a problem, exponents doubled.
Weight2(s, v) == IF v \in LinearVars THEN 2 * s.x[v[1]]
                 ELSE s.R2[v[1]] + s.R2[v[2]]
PrimalTerm2(p, s, e) == 2 * p.A[e] + Weight2(s, e[2]) - 2 * p.b[e[1]]
ColumnTerm2(p, s, j, u) == 2 * p.L[j].w + 4 * p.L[j].u[u] + 2 * s.R2[u]
DualTerm(p, s, e) == p.A[e] + s.y[e[1]] - p.c[e[2]]

\* The unscaled result satisfies a constraint of the caller's problem, and
\* its multipliers the dual constraint of a variable, exactly as well as the
\* solution did in the scaled problem: each term keeps its size relative to
\* the right-hand side, or to the cost.
SolvesTheCallersProblem ==
  stage = "solved" =>
    /\ \A e \in DOMAIN original.A :
         /\ PrimalTerm2(original, result, e) = PrimalTerm2(scaled, solution, e)
         /\ e[2] \in DOMAIN original.c =>
              DualTerm(original, result, e) = DualTerm(scaled, solution, e)
    /\ \A j \in DOMAIN original.L : \A u \in DOMAIN original.L[j].u :
         original.L[j].row # objective =>
           ColumnTerm2(original, result, j, u) - 2 * original.b[original.L[j].row]
             = ColumnTerm2(scaled, solution, j, u) - 2 * scaled.b[original.L[j].row]
=============================================================================
