------------------------------- MODULE Scaling -------------------------------
(***************************************************************************)
(* The data of a problem (compressed_sdp_problem_t) and the factors of its *)
(* preconditioning (src/precondition.c, unscale_result of src/sdp_op.cu).  *)
(*                                                                         *)
(* A number is the exponent of its magnitude in some base, so a product is *)
(* a sum, a square root is a half and 0 stands for the factor 1.  A sum is *)
(* as large as its largest term, and a factor is rounded to an exponent:   *)
(* which factors are chosen matters less here than that whatever is        *)
(* divided out is recorded, and divided out of everything it concerns.     *)
(* A datum that is zero is absent.                                         *)
(***************************************************************************)
EXTENDS Integers, FiniteSets, Sequences

CONSTANTS
  num_constraints,
  blk_dims,        \* the dimensions of the PSD cones, in their order
  lp_dim,
  free_dim,
  Epsilon,         \* SCALING_EPSILON: a maximum below it gives the factor 1
  pc_max_diag      \* cap on the cumulative diagonal factors

Rows == 1..num_constraints
Cones == DOMAIN blk_dims
objective == 0    \* constraint_ind of a low-rank column of the objective

\* What a diagonal factor belongs to: a row of a PSD cone, an LP or a free
\* variable.  A variable is named by the one or two units that scale it.
ConeSlots(k) == {<<k, i>> : i \in 1..blk_dims[k]}
Slots == UNION {ConeSlots(k) : k \in Cones}
LpUnits == {<<0, i>> : i \in 1..lp_dim}
FreeUnits == {<<-1, i>> : i \in 1..free_dim}
Units == Slots \union LpUnits \union FreeUnits
PsdVars == UNION {ConeSlots(k) \X ConeSlots(k) : k \in Cones}
LinearVars == {<<u>> : u \in LpUnits \union FreeUnits}
Vars == PsdVars \union LinearVars

\* compressed_sdp_problem_t: entries of the constraint matrix by row and
\* variable, right-hand side, objective, and low-rank columns w * u u^T.
IsColumn(col) ==
  /\ DOMAIN col = {"row", "cone", "w", "u"}
  /\ col.row \in Rows \union {objective}
  /\ col.cone \in Cones
  /\ col.w \in Int
  /\ DOMAIN col.u # {}
  /\ IsFiniteSet(DOMAIN col.u)
  /\ DOMAIN col.u \subseteq ConeSlots(col.cone)
  /\ col.u \in [DOMAIN col.u -> Int]

IsProblem(p) ==
  /\ DOMAIN p = {"A", "b", "c", "L"}
  /\ IsFiniteSet(DOMAIN p.A)
  /\ DOMAIN p.A \subseteq Rows \X Vars
  /\ p.A \in [DOMAIN p.A -> Int]
  /\ p.b \in [Rows -> Int]
  /\ IsFiniteSet(DOMAIN p.c)
  /\ DOMAIN p.c \subseteq Vars
  /\ p.c \in [DOMAIN p.c -> Int]
  /\ IsFiniteSet(DOMAIN p.L)
  /\ \A j \in DOMAIN p.L : IsColumn(p.L[j])

IsSolution(s) ==   \* low-rank factor rows (exponents doubled), x, multipliers
  /\ s.R2 \in [Slots -> Int]
  /\ s.x \in [LpUnits \union FreeUnits -> Int]
  /\ s.y \in [Rows -> Int]

ASSUME SizesAssumption ==
  /\ num_constraints \in Nat
  /\ blk_dims \in Seq(Nat \ {0})
  /\ lp_dim \in Nat
  /\ free_dim \in Nat
  /\ Epsilon \in Int
  /\ pc_max_diag \in Int
-----------------------------------------------------------------------------
Largest(S) == CHOOSE x \in S : \A y \in S : y <= x
Above(S) == Largest(S \union {0})

\* The d-th root of the largest value, 1 if there is none to speak of.
Root(S, d) == IF S = {} THEN 0
              ELSE IF Largest(S) < Epsilon THEN 0 ELSE Largest(S) \div d

\* What a variable is divided by: the factors of its units together.
VarFactor(f, v) == IF Len(v) = 1 THEN f[v[1]] ELSE f[v[1]] + f[v[2]]

\* The units that share one factor (PSD_SCALE_MODE_PER_CONE).
SharingNothing(u, per_cone) == {u}                               \* mutant
Sharing(u, per_cone) == IF per_cone /\ u \in Slots THEN ConeSlots(u[1]) ELSE {u}

\* Bounds on what a low-rank column contributes.
Entries(col) == {col.u[s] : s \in DOMAIN col.u}
ColumnPeak(col) == col.w + 2 * Largest(Entries(col))
RowPeak(col, u) == col.w + col.u[u] + Largest(Entries(col))
ColumnsOf(p, r) == {j \in DOMAIN p.L : p.L[j].row = r}
ColumnsThrough(p, u) ==
  {j \in DOMAIN p.L : p.L[j].row # objective /\ u \in DOMAIN p.L[j].u}

\* The magnitudes in a constraint, and those in the row a PSD slot names or
\* the column a linear variable names; the slot that is the column of an
\* entry does not see it.
InRow(p, r) == {p.A[e] : e \in {e \in DOMAIN p.A : e[1] = r}}
                 \union {ColumnPeak(p.L[j]) : j \in ColumnsOf(p, r)}
AtUnit(p, u) == {p.A[e] : e \in {e \in DOMAIN p.A : e[2][1] = u}}
                  \union {RowPeak(p.L[j], u) : j \in ColumnsThrough(p, u)}
AtUnits(p, us) == UNION {AtUnit(p, u) : u \in us}

\* Dividing every datum of the problem by the factors of its row and units.
DividedVectorsOnly(col, f) ==                                     \* mutant
  [row |-> col.row, cone |-> col.cone, w |-> col.w,
   u |-> [s \in DOMAIN col.u |-> col.u[s] - f.unit[s]]]
DividedColumn(col, f) ==
  [row |-> col.row, cone |-> col.cone,
   w |-> IF col.row = objective THEN col.w ELSE col.w - f.row[col.row],
   u |-> [s \in DOMAIN col.u |-> col.u[s] - f.unit[s]]]
Divided(p, f) ==
  [A |-> [e \in DOMAIN p.A |-> p.A[e] - f.row[e[1]] - VarFactor(f.unit, e[2])],
   b |-> [r \in Rows |-> p.b[r] - f.row[r]],
   c |-> [v \in DOMAIN p.c |-> p.c[v] - VarFactor(f.unit, v)],
   L |-> [j \in DOMAIN p.L |-> DividedColumn(p.L[j], f)]]
OnlyTheLast(i, f) == [i EXCEPT !.row = f.row, !.unit = f.unit]     \* mutant
OnlyPsdUnits(i, f) ==                                             \* mutant
  [i EXCEPT !.row = [r \in Rows |-> i.row[r] + f.row[r]],
            !.unit = [u \in Slots |-> i.unit[u] + f.unit[u]]]
Accumulated(i, f) ==
  [i EXCEPT !.row = [r \in Rows |-> i.row[r] + f.row[r]],
            !.unit = [u \in Units |-> i.unit[u] + f.unit[u]]]
\* One pass of ruiz_rescaling_sdp: square roots of the largest magnitudes.
RuizFactors(p, per_cone) ==
  [row |-> [r \in Rows |-> Root(InRow(p, r), 2)],
   unit |-> [u \in Units |-> Root(AtUnits(p, Sharing(u, per_cone)), 2)]]
\* pock_chambolle_rescaling_sdp: powers alpha and 2 - alpha, the fourth root
\* for the rows of a cone.
Powers(S, a) == {a * x : x \in S}
PockChambolleFactors(p, alpha, per_cone) ==
  [row |-> [r \in Rows |-> Root(Powers(InRow(p, r), alpha), 2)],
   unit |-> [u \in Units |->
               Root(Powers(AtUnits(p, Sharing(u, per_cone)), 2 - alpha),
                    IF u \in Slots THEN 4 ELSE 2)]]

NoRescaling == [row |-> [r \in Rows |-> 0], unit |-> [u \in Units |-> 0],
                tau_b |-> 0, tau_c |-> 0]
IsInfo(i) == /\ DOMAIN i = {"row", "unit", "tau_b", "tau_c"}
             /\ i.row \in [Rows -> Int]
             /\ i.unit \in [Units -> Int]
             /\ i.tau_b \in Int
             /\ i.tau_c \in Int

\* The cap is on what the factors of a group come to together with those
\* already recorded; the excess is taken off the whole group.
Excess(base, f, group) ==
  Above({base[g] + f[g] - pc_max_diag : g \in group})
Group(u) == IF u \in Slots THEN Slots
            ELSE IF u \in LpUnits THEN LpUnits ELSE FreeUnits
CappedAlone(i, f) ==                                              \* mutant
  [row |-> [r \in Rows |-> f.row[r] - Excess(NoRescaling.row, f.row, Rows)],
   unit |-> [u \in Units |->
               f.unit[u] - Excess(NoRescaling.unit, f.unit, Group(u))]]
Capped(i, f) ==
  [row |-> [r \in Rows |-> f.row[r] - Excess(i.row, f.row, Rows)],
   unit |-> [u \in Units |-> f.unit[u] - Excess(i.unit, f.unit, Group(u))]]
\* bound_obj_rescaling_sdp: factors of at most 1 for all of b and all of c.
ObjectiveSizes(p) == {p.c[v] : v \in DOMAIN p.c}
                       \union {ColumnPeak(p.L[j]) : j \in ColumnsOf(p, objective)}
BoundScale(p) == -Above({p.b[r] : r \in Rows})
ObjectiveScale(p) == -Above(ObjectiveSizes(p))
BoundedColumn(col, tau_c) ==
  [col EXCEPT !.w = IF col.row = objective THEN col.w + tau_c ELSE col.w]
Bounded(p, tau_b, tau_c) ==
  [A |-> p.A,
   b |-> [r \in Rows |-> p.b[r] + tau_b],
   c |-> [v \in DOMAIN p.c |-> p.c[v] + tau_c],
   L |-> [j \in DOMAIN p.L |-> BoundedColumn(p.L[j], tau_c)]]

scaling_enabled(s) == s.ruiz_iterations > 0 \/ s.has_alpha \/ s.bound_objective

\* unscale_result.  Rows of a factor carry half of the scale of X.
UnscaledWithTauC(i, s) ==                                         \* mutant
  [R2 |-> [u \in Slots |-> s.R2[u] - i.tau_b - 2 * i.unit[u]],
   x |-> [u \in LpUnits \union FreeUnits |-> s.x[u] - i.tau_c - i.unit[u]],
   y |-> [r \in Rows |-> s.y[r] - i.tau_c - i.row[r]]]
Unscaled(i, s) ==
  [R2 |-> [u \in Slots |-> s.R2[u] - i.tau_b - 2 * i.unit[u]],
   x |-> [u \in LpUnits \union FreeUnits |-> s.x[u] - i.tau_b - i.unit[u]],
   y |-> [r \in Rows |-> s.y[r] - i.tau_c - i.row[r]]]
=============================================================================
