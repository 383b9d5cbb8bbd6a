--------------------------- MODULE Rescale_proofs ---------------------------
(***************************************************************************)
(* Proofs about Rescale: every pass keeps the record of what it divided    *)
(* the problem by, so the unscaled result is one of the caller's problem.  *)
(***************************************************************************)
EXTENDS Rescale, Problem_proofs

LEMMA PowersType ==
  ASSUME NEW S \in SUBSET Int, IsFiniteSet(S), NEW a \in 0..2
  PROVE  Powers(S, a) \in SUBSET Int /\ IsFiniteSet(Powers(S, a))
<1> DEFINE g == [x \in S |-> a * x]
<1>1. Powers(S, a) = {g[x] : x \in S}
  BY DEF Powers
<1>2. IsFiniteSet({g[x] : x \in S})
  <2> HIDE DEF g
  <2> QED BY FiniteValues
<1>3. \A x \in S : a * x \in Int
  BY SMT
<1> QED BY <1>1, <1>2, <1>3 DEF Powers

LEMMA PockChambolleFactorsType ==
  ASSUME NEW p, IsProblem(p), NEW alpha \in 0..2, NEW per_cone \in BOOLEAN
  PROVE  IsFactors(PockChambolleFactors(p, alpha, per_cone))
<1>1. \A r \in Rows : Root(Powers(InRow(p, r), alpha), 2) \in Int
  BY MagnitudesType, PowersType, RootType
<1>2. 2 - alpha \in 0..2
  OBVIOUS
<1>3. ASSUME NEW u \in Units, NEW d \in {2, 4}
      PROVE  Root(Powers(AtUnits(p, Sharing(u, per_cone)), 2 - alpha), d) \in Int
  BY <1>2, SharedMagnitudesType, PowersType, RootType
<1> QED BY <1>1, <1>3 DEF IsFactors, PockChambolleFactors

\* What a group exceeds the cap by is a natural number.
LEMMA ExcessType ==
  ASSUME NEW U, NEW group \in SUBSET U, IsFiniteSet(group),
         NEW base \in [U -> Int], NEW f \in [U -> Int]
  PROVE  /\ Excess(base, f, group) \in Nat
         /\ \A g \in group : base[g] + f[g] - pc_max_diag <= Excess(base, f, group)
<1> DEFINE over == [g \in group |-> base[g] + f[g] - pc_max_diag]
           S == {base[g] + f[g] - pc_max_diag : g \in group}
<1>1. S = {over[g] : g \in group}
  OBVIOUS
<1>2. IsFiniteSet(S)
  <2> HIDE DEF over, S
  <2> QED BY <1>1, FiniteValues
<1>3. S \in SUBSET Int
  BY SizesAssumption
<1>4. IsFiniteSet(S \union {0}) /\ S \union {0} \in SUBSET Int /\ S \union {0} # {}
  BY <1>2, <1>3, FS_AddElement
<1>5. /\ Largest(S \union {0}) \in Int
      /\ \A y \in S \union {0} : y <= Largest(S \union {0})
  <2> HIDE DEF S
  <2> QED BY <1>4, LargestType
<1> QED BY <1>5 DEF Excess, Above

LEMMA CappedType ==
  ASSUME NEW i, IsInfo(i), NEW f, IsFactors(f)
  PROVE  /\ IsFactors(Capped(i, f))
         /\ \A r \in Rows : i.row[r] + Capped(i, f).row[r] <= pc_max_diag
         /\ \A u \in Units : i.unit[u] + Capped(i, f).unit[u] <= pc_max_diag
<1>1. /\ Excess(i.row, f.row, Rows) \in Nat
      /\ \A r \in Rows : i.row[r] + f.row[r] - pc_max_diag <= Excess(i.row, f.row, Rows)
  BY UnitsFinite, ExcessType DEF IsInfo, IsFactors
<1>2. ASSUME NEW u \in Units
      PROVE  /\ Excess(i.unit, f.unit, Group(u)) \in Nat
             /\ i.unit[u] + f.unit[u] - pc_max_diag <= Excess(i.unit, f.unit, Group(u))
  <2>1. Group(u) \in SUBSET Units /\ IsFiniteSet(Group(u)) /\ u \in Group(u)
    BY UnitsFinite DEF Group, Units
  <2> QED BY <2>1, ExcessType DEF IsInfo, IsFactors
<1>3. ASSUME NEW r \in Rows
      PROVE  /\ f.row[r] - Excess(i.row, f.row, Rows) \in Int
             /\ i.row[r] + (f.row[r] - Excess(i.row, f.row, Rows)) <= pc_max_diag
  BY <1>1, SizesAssumption, SMT DEF IsInfo, IsFactors
<1>4. ASSUME NEW u \in Units
      PROVE  /\ f.unit[u] - Excess(i.unit, f.unit, Group(u)) \in Int
             /\ i.unit[u] + (f.unit[u] - Excess(i.unit, f.unit, Group(u)))
                  <= pc_max_diag
  BY <1>2, SizesAssumption, SMT DEF IsInfo, IsFactors
<1> QED BY <1>3, <1>4 DEF Capped, IsFactors
-----------------------------------------------------------------------------
LEMMA AccumulatedType ==
  ASSUME NEW i, IsInfo(i), NEW f, IsFactors(f)
  PROVE  /\ IsInfo(Accumulated(i, f))
         /\ Accumulated(i, f).tau_b = i.tau_b
         /\ Accumulated(i, f).tau_c = i.tau_c
BY DEF IsInfo, IsFactors, Accumulated
-----------------------------------------------------------------------------
\* What the invariant adds to the properties: the bound factors come last,
\* nothing is recorded before the copy, and the result is the unscaled
\* solution.
Returned ==
  /\ stage = "start" => info = NoRescaling /\ result = solution
  /\ stage = "solved" =>
       /\ \A u \in Slots :
            result.R2[u] = solution.R2[u] - info.tau_b - 2 * info.unit[u]
       /\ \A u \in LpUnits \union FreeUnits :
            result.x[u] = solution.x[u] - info.tau_b - info.unit[u]
       /\ \A r \in Rows : result.y[r] = solution.y[r] - info.tau_c - info.row[r]

IInv == /\ TypeOK
        /\ Recorded
        /\ BoundScaledLast
        /\ CumulativeCap
        /\ PerConeUniform
        /\ Returned

USE DEF IsInfo

\* Factors of 1 record that nothing was divided.
LEMMA UnscaledRecord ==
  ASSUME NEW p, IsProblem(p), scaled = p, original = p, info = NoRescaling
  PROVE  Recorded
<1>1. \A v \in Vars : VarFactor(info.unit, v) = 0
  BY VarUnits DEF VarFactor, NoRescaling
<1>2. RecordedEntries
  BY <1>1 DEF RecordedEntries, NoRescaling, IsProblem
<1>3. RecordedVectors
  BY <1>1 DEF RecordedVectors, NoRescaling, IsProblem
<1>4. ASSUME NEW j \in DOMAIN p.L
      PROVE  RecordedColumn(p.L[j], p.L[j])
  <2>1. IsColumn(p.L[j])
    BY DEF IsProblem
  <2>2. DOMAIN p.L[j].u \subseteq Units
    BY <2>1 DEF IsColumn, Units, Slots
  <2> QED BY <2>1, <2>2 DEF RecordedColumn, IsColumn, NoRescaling
<1> QED BY <1>2, <1>3, <1>4 DEF Recorded, RecordedColumns

LEMMA InitInv == Init => IInv
<1> SUFFICES ASSUME Init PROVE IInv
  OBVIOUS
<1> USE DEF Init
<1>1. IsProblem(original) /\ IsSolution(solution)
  BY InputsAssumption
<1>2. TypeOK
  BY <1>1, NoRescalingType, InputsAssumption DEF TypeOK
<1>3. Recorded
  BY <1>1, UnscaledRecord
<1>4. BoundScaledLast
  BY DEF BoundScaledLast, NoRescaling
<1>5. PerConeUniform
  BY DEF PerConeUniform, NoRescaling, Units, Slots
<1> QED BY <1>2, <1>3, <1>4, <1>5 DEF IInv, CumulativeCap, Returned

\* Dividing the copy and accumulating the factors keeps the record: the
\* heart of the Ruiz and Pock-Chambolle passes.
LEMMA DivideRecorded ==
  ASSUME IsProblem(original), IsProblem(scaled), IsInfo(info), Recorded,
         NEW f, IsFactors(f),
         scaled' = Divided(scaled, f), info' = Accumulated(info, f),
         original' = original
  PROVE  Recorded'
<1>1. /\ \A r \in Rows : info.row[r] \in Int /\ f.row[r] \in Int
      /\ \A u \in Units : info.unit[u] \in Int /\ f.unit[u] \in Int
      /\ info.tau_b \in Int /\ info.tau_c \in Int
  BY DEF IsFactors
<1>2. /\ \A r \in Rows : info'.row[r] = info.row[r] + f.row[r]
      /\ \A u \in Units : info'.unit[u] = info.unit[u] + f.unit[u]
      /\ info'.tau_b = info.tau_b
      /\ info'.tau_c = info.tau_c
  BY DEF Accumulated
<1>3. ASSUME NEW v \in Vars
      PROVE  /\ VarFactor(info'.unit, v) = VarFactor(info.unit, v) + VarFactor(f.unit, v)
             /\ VarFactor(info.unit, v) \in Int
             /\ VarFactor(f.unit, v) \in Int
  BY <1>1, <1>2, VarUnits DEF VarFactor
<1>4. RecordedEntries'
  <2>1. DOMAIN scaled'.A = DOMAIN original.A
    BY DEF Recorded, RecordedEntries, Divided
  <2>2. ASSUME NEW e \in DOMAIN original.A
        PROVE  scaled'.A[e] = original.A[e] - info'.row[e[1]] - VarFactor(info'.unit, e[2])
    <3>1. /\ e[1] \in Rows
          /\ e[2] \in Vars
          /\ original.A[e] \in Int
      BY DEF IsProblem
    <3>2. scaled.A[e] = original.A[e] - info.row[e[1]] - VarFactor(info.unit, e[2])
      BY DEF Recorded, RecordedEntries
    <3>3. scaled'.A[e] = scaled.A[e] - f.row[e[1]] - VarFactor(f.unit, e[2])
      BY DEF Recorded, RecordedEntries, Divided
    <3> QED BY <1>1, <1>2, <1>3, <3>1, <3>2, <3>3
  <2> QED BY <2>1, <2>2 DEF RecordedEntries
<1>5. RecordedVectors'
  <2>1. DOMAIN scaled'.c = DOMAIN original.c
    BY DEF Recorded, RecordedVectors, Divided
  <2>2. ASSUME NEW r \in Rows
        PROVE  scaled'.b[r] = original.b[r] - info'.row[r] + info'.tau_b
    <3>1. original.b[r] \in Int
      BY DEF IsProblem
    <3>2. scaled.b[r] = original.b[r] - info.row[r] + info.tau_b
      BY DEF Recorded, RecordedVectors
    <3>3. scaled'.b[r] = scaled.b[r] - f.row[r]
      BY DEF Divided
    <3> QED BY <1>1, <1>2, <3>1, <3>2, <3>3
  <2>3. ASSUME NEW v \in DOMAIN original.c
        PROVE  scaled'.c[v] = original.c[v] - VarFactor(info'.unit, v) + info'.tau_c
    <3>1. original.c[v] \in Int /\ v \in Vars
      BY DEF IsProblem
    <3>2. scaled.c[v] = original.c[v] - VarFactor(info.unit, v) + info.tau_c
      BY DEF Recorded, RecordedVectors
    <3>3. scaled'.c[v] = scaled.c[v] - VarFactor(f.unit, v)
      BY DEF Recorded, RecordedVectors, Divided
    <3> QED BY <1>1, <1>2, <1>3, <3>1, <3>2, <3>3
  <2> QED BY <2>1, <2>2, <2>3 DEF RecordedVectors
<1>6. RecordedColumns'
  <2>1. DOMAIN scaled'.L = DOMAIN original.L
    BY DEF Recorded, RecordedColumns, Divided
  <2>2. ASSUME NEW j \in DOMAIN original.L
        PROVE  RecordedColumn(scaled.L[j], original.L[j])'
    <3> DEFINE old == original.L[j]
               mid == scaled.L[j]
               new == scaled'.L[j]
    <3>1. IsColumn(old) /\ IsColumn(mid)
      BY DEF IsProblem, Recorded, RecordedColumns
    <3>2. RecordedColumn(mid, old)
      BY DEF Recorded, RecordedColumns
    <3>3. new = DividedColumn(mid, f)
      BY DEF Recorded, RecordedColumns, Divided
    <3>4. old = original'.L[j]
      OBVIOUS
    <3> HIDE DEF old, mid, new
    <3>5. new.row = old.row /\ new.cone = old.cone /\ DOMAIN new.u = DOMAIN old.u
      BY <3>2, <3>3 DEF RecordedColumn, DividedColumn
    <3>6. new.w = IF old.row = objective THEN old.w + info'.tau_c
                  ELSE old.w - info'.row[old.row]
      <4>1. CASE old.row = objective
        BY <1>2, <3>2, <3>3, <4>1 DEF RecordedColumn, DividedColumn
      <4>2. CASE old.row # objective
        <5>1. old.row \in Rows /\ old.w \in Int
          BY <3>1, <4>2 DEF IsColumn
        <5>2. mid.w = old.w - info.row[old.row]
          BY <3>2, <4>2 DEF RecordedColumn
        <5>3. new.w = mid.w - f.row[old.row]
          BY <3>2, <3>3, <4>2 DEF RecordedColumn, DividedColumn
        <5> QED BY <1>1, <1>2, <4>2, <5>1, <5>2, <5>3
      <4> QED BY <4>1, <4>2
    <3>7. ASSUME NEW s \in DOMAIN old.u
          PROVE  new.u[s] = old.u[s] - info'.unit[s]
      <4>1. s \in Units /\ old.u[s] \in Int
        BY <3>1 DEF IsColumn, Units, Slots
      <4>2. mid.u[s] = old.u[s] - info.unit[s]
        BY <3>2 DEF RecordedColumn
      <4>3. new.u[s] = mid.u[s] - f.unit[s]
        BY <3>2, <3>3 DEF RecordedColumn, DividedColumn
      <4> QED BY <1>1, <1>2, <4>1, <4>2, <4>3
    <3>8. /\ new.row = old.row
          /\ new.cone = old.cone
          /\ new.w = IF old.row = objective THEN old.w + info'.tau_c
                     ELSE old.w - info'.row[old.row]
          /\ DOMAIN new.u = DOMAIN old.u
          /\ \A s \in DOMAIN old.u : new.u[s] = old.u[s] - info'.unit[s]
      BY <3>5, <3>6, <3>7
    <3> QED BY <3>4, <3>8 DEF RecordedColumn, new
  <2> QED BY <2>1, <2>2 DEF RecordedColumns
<1> QED BY <1>4, <1>5, <1>6 DEF Recorded

\* Before the bound factors are set, setting them keeps the record.
LEMMA BoundRecorded ==
  ASSUME IsProblem(original), IsProblem(scaled), IsInfo(info), Recorded,
         info.tau_b = 0, info.tau_c = 0, original' = original,
         NEW tau_b \in Int, NEW tau_c \in Int,
         scaled' = Bounded(scaled, tau_b, tau_c),
         info' = [info EXCEPT !.tau_b = tau_b, !.tau_c = tau_c]
  PROVE  Recorded'
<1>1. /\ info'.row = info.row /\ info'.unit = info.unit
      /\ info'.tau_b = tau_b /\ info'.tau_c = tau_c
  OBVIOUS
<1>2. RecordedEntries'
  BY <1>1 DEF Recorded, RecordedEntries, Bounded
<1>3. RecordedVectors'
  <2>1. DOMAIN scaled'.c = DOMAIN original.c
    BY DEF Recorded, RecordedVectors, Bounded
  <2>2. ASSUME NEW r \in Rows
        PROVE  scaled'.b[r] = original.b[r] - info'.row[r] + info'.tau_b
    <3>1. original.b[r] \in Int /\ info.row[r] \in Int
      BY DEF IsProblem
    <3>2. scaled.b[r] = original.b[r] - info.row[r] + 0
      BY DEF Recorded, RecordedVectors
    <3> QED BY <1>1, <3>1, <3>2 DEF Bounded
  <2>3. ASSUME NEW v \in DOMAIN original.c
        PROVE  scaled'.c[v] = original.c[v] - VarFactor(info'.unit, v) + info'.tau_c
    <3>1. original.c[v] \in Int /\ VarFactor(info.unit, v) \in Int
      BY VarFactorType DEF IsProblem
    <3>2. scaled.c[v] = original.c[v] - VarFactor(info.unit, v) + 0
      BY DEF Recorded, RecordedVectors
    <3>3. scaled'.c[v] = scaled.c[v] + tau_c
      BY DEF Recorded, RecordedVectors, Bounded
    <3> QED BY <1>1, <3>1, <3>2, <3>3
  <2> QED BY <2>1, <2>2, <2>3 DEF RecordedVectors
<1>4. RecordedColumns'
  <2>1. DOMAIN scaled'.L = DOMAIN original.L
    BY DEF Recorded, RecordedColumns, Bounded
  <2>2. ASSUME NEW j \in DOMAIN original.L
        PROVE  RecordedColumn(scaled.L[j], original.L[j])'
    <3> DEFINE old == original.L[j]
               mid == scaled.L[j]
               new == scaled'.L[j]
    <3>1. IsColumn(old) /\ IsColumn(mid)
      BY DEF IsProblem, Recorded, RecordedColumns
    <3>2. RecordedColumn(mid, old)
      BY DEF Recorded, RecordedColumns
    <3>3. new = BoundedColumn(mid, tau_c)
      BY DEF Recorded, RecordedColumns, Bounded
    <3>4. old = original'.L[j]
      OBVIOUS
    <3> HIDE DEF old, mid, new
    <3>5. /\ new.row = mid.row /\ new.cone = mid.cone /\ new.u = mid.u
          /\ new.w = IF mid.row = objective THEN mid.w + tau_c ELSE mid.w
      BY <3>1, <3>3 DEF BoundedColumn, IsColumn
    <3>6. new.w = IF old.row = objective THEN old.w + info'.tau_c
                  ELSE old.w - info'.row[old.row]
      BY <1>1, <3>1, <3>2, <3>5 DEF RecordedColumn, IsColumn
    <3>7. /\ new.row = old.row /\ new.cone = old.cone
          /\ DOMAIN new.u = DOMAIN old.u
          /\ \A s \in DOMAIN old.u : new.u[s] = old.u[s] - info'.unit[s]
      BY <1>1, <3>2, <3>5 DEF RecordedColumn
    <3> QED BY <3>4, <3>6, <3>7 DEF RecordedColumn, new
  <2> QED BY <2>1, <2>2 DEF RecordedColumns
<1> QED BY <1>2, <1>3, <1>4 DEF Recorded
-----------------------------------------------------------------------------
\* The factors of one cone stay equal when the scaling is per cone.
LEMMA SameSharing ==
  ASSUME NEW k \in Cones, NEW s \in ConeSlots(k), NEW t \in ConeSlots(k)
  PROVE  /\ Sharing(s, TRUE) = Sharing(t, TRUE)
         /\ s \in Slots /\ t \in Slots
         /\ Group(s) = Group(t)
<1>1. s[1] = k /\ t[1] = k
  BY DEF ConeSlots
<1>2. s \in Slots /\ t \in Slots
  BY DEF Slots
<1> QED BY <1>1, <1>2 DEF Sharing, Group

LEMMA UniformPass ==
  ASSUME IsInfo(info), PerConeUniform, NEW f, IsFactors(f), params' = params,
         info' = Accumulated(info, f),
         params.per_cone => \A k \in Cones : \A s, t \in ConeSlots(k) :
                              f.unit[s] = f.unit[t]
  PROVE  PerConeUniform'
<1>1. SUFFICES ASSUME params.per_cone, NEW k \in Cones,
                      NEW s \in ConeSlots(k), NEW t \in ConeSlots(k)
               PROVE  info'.unit[s] = info'.unit[t]
  BY DEF PerConeUniform
<1>2. s \in Units /\ t \in Units
  BY SameSharing DEF Units
<1> QED BY <1>1, <1>2 DEF PerConeUniform, Accumulated

\* A pass that divides keeps the invariant, whatever stage it leads to.
LEMMA PassInv ==
  ASSUME IInv, NEW f, IsFactors(f), Divide(f),
         params' = params, original' = original, solution' = solution,
         result' = result, iter' \in 0..params.ruiz_iterations,
         stage = "ruiz", stage' \in {"ruiz", "capped"},
         params.per_cone => \A k \in Cones : \A s, t \in ConeSlots(k) :
                              f.unit[s] = f.unit[t],
         stage' = "capped" =>
           /\ \A r \in Rows : info.row[r] + f.row[r] <= pc_max_diag
           /\ \A u \in Units : info.unit[u] + f.unit[u] <= pc_max_diag
  PROVE  IInv'
<1> USE DEF Divide
<1>1. IsProblem(original) /\ IsProblem(scaled) /\ IsInfo(info)
  BY InputsAssumption DEF IInv, TypeOK
<1>2. IsInfo(info') /\ info'.tau_b = info.tau_b /\ info'.tau_c = info.tau_c
  BY <1>1, AccumulatedType
<1>3. TypeOK'
  BY <1>1, <1>2, DividedType DEF IInv, TypeOK
<1>4. Recorded'
  BY <1>1, DivideRecorded DEF IInv
<1>5. BoundScaledLast'
  BY <1>2 DEF IInv, BoundScaledLast
<1>6. CumulativeCap'
  BY DEF CumulativeCap, Accumulated
<1>7. PerConeUniform'
  BY <1>1, UniformPass DEF IInv
<1> QED BY <1>3, <1>4, <1>5, <1>6, <1>7 DEF IInv, Returned

LEMMA RuizIterationInv == IInv /\ RuizIteration => IInv'
<1> SUFFICES ASSUME IInv, RuizIteration PROVE IInv'
  OBVIOUS
<1> DEFINE f == RuizFactors(scaled, params.per_cone)
<1>1. IsProblem(scaled) /\ params.per_cone \in BOOLEAN
  BY InputsAssumption DEF IInv, TypeOK
<1>2. IsFactors(f)
  BY <1>1, RuizFactorsType
<1>3. params.per_cone => \A k \in Cones : \A s, t \in ConeSlots(k) :
                           f.unit[s] = f.unit[t]
  BY <1>1, SameSharing DEF RuizFactors, Units
<1>4. iter' \in 0..params.ruiz_iterations
  BY InputsAssumption DEF IInv, TypeOK, RuizIteration
<1> HIDE DEF f
<1> QED BY <1>2, <1>3, <1>4, PassInv DEF RuizIteration, f

LEMMA PockChambolleInv == IInv /\ PockChambolle => IInv'
<1> SUFFICES ASSUME IInv, PockChambolle PROVE IInv'
  OBVIOUS
<1> DEFINE raw == PockChambolleFactors(scaled, params.alpha, params.per_cone)
           f == Capped(info, raw)
<1>1. IsProblem(scaled) /\ params.per_cone \in BOOLEAN /\ params.alpha \in 0..2
  BY InputsAssumption DEF IInv, TypeOK
<1>2. IsFactors(raw) /\ IsInfo(info)
  BY <1>1, PockChambolleFactorsType DEF IInv, TypeOK
<1>3. params.per_cone => \A k \in Cones : \A s, t \in ConeSlots(k) :
                           raw.unit[s] = raw.unit[t]
  BY <1>1, SameSharing DEF PockChambolleFactors, Units
<1> HIDE DEF raw
<1>4. /\ IsFactors(f)
      /\ \A r \in Rows : info.row[r] + f.row[r] <= pc_max_diag
      /\ \A u \in Units : info.unit[u] + f.unit[u] <= pc_max_diag
  BY <1>2, CappedType
<1>5. params.per_cone => \A k \in Cones : \A s, t \in ConeSlots(k) :
                           f.unit[s] = f.unit[t]
  BY <1>3, SameSharing DEF Capped, Units
<1> HIDE DEF f
<1>6. iter' \in 0..params.ruiz_iterations
  BY DEF IInv, TypeOK, PockChambolle
<1> QED BY <1>4, <1>5, <1>6, PassInv DEF PockChambolle, f, raw

LEMMA BoundObjectiveInv == IInv /\ BoundObjective => IInv'
<1> SUFFICES ASSUME IInv, BoundObjective PROVE IInv'
  OBVIOUS
<1> USE DEF BoundObjective, BeforeBound
<1>1. IsProblem(original) /\ IsProblem(scaled) /\ IsInfo(info)
  BY InputsAssumption DEF IInv, TypeOK
<1>2. BoundScale(scaled) \in Int /\ ObjectiveScale(scaled) \in Int
  BY <1>1, BoundScaleType
<1>3. TypeOK'
  BY <1>1, <1>2, BoundedType DEF IInv, TypeOK
<1>4. Recorded'
  BY <1>1, <1>2, BoundRecorded DEF IInv, BoundScaledLast
<1>5. PerConeUniform'
  BY <1>1 DEF IInv, PerConeUniform
<1> QED BY <1>3, <1>4, <1>5 DEF IInv, BoundScaledLast, CumulativeCap, Returned

LEMMA CopyInv == IInv /\ Copy => IInv'
<1> SUFFICES ASSUME IInv, Copy PROVE IInv'
  OBVIOUS
<1> USE DEF Copy
<1>1. IsProblem(original)
  BY InputsAssumption DEF IInv, TypeOK
<1>2. TypeOK'
  BY <1>1, NoRescalingType DEF IInv, TypeOK
<1>3. Recorded'
  <2>1. \A v \in Vars : VarFactor(info'.unit, v) = 0
    BY VarUnits DEF VarFactor, NoRescaling
  <2>2. RecordedEntries'
    BY <1>1, <2>1 DEF RecordedEntries, NoRescaling, IsProblem
  <2>3. RecordedVectors'
    BY <1>1, <2>1 DEF RecordedVectors, NoRescaling, IsProblem
  <2>4. ASSUME NEW j \in DOMAIN original.L
        PROVE  RecordedColumn(scaled.L[j], original.L[j])'
    <3>1. IsColumn(original.L[j])
      BY <1>1 DEF IsProblem
    <3>2. DOMAIN original.L[j].u \subseteq Units
      BY <3>1 DEF IsColumn, Units, Slots
    <3> QED BY <3>1, <3>2 DEF RecordedColumn, IsColumn, NoRescaling
  <2> QED BY <2>2, <2>3, <2>4 DEF Recorded, RecordedColumns
<1>4. PerConeUniform'
  BY DEF PerConeUniform, NoRescaling, Units, Slots
<1> QED BY <1>2, <1>3, <1>4
        DEF IInv, BoundScaledLast, CumulativeCap, Returned, NoRescaling

LEMMA NoBoundObjectiveInv == IInv /\ NoBoundObjective => IInv'
<1> SUFFICES ASSUME IInv, NoBoundObjective PROVE IInv'
  OBVIOUS
<1> USE DEF NoBoundObjective
<1>1. TypeOK'
  BY DEF IInv, TypeOK
<1>2. Recorded'
  BY DEF IInv, Recorded, RecordedEntries, RecordedVectors, RecordedColumns,
         RecordedColumn
<1>3. PerConeUniform'
  BY DEF IInv, PerConeUniform
<1> QED BY <1>1, <1>2, <1>3
        DEF IInv, BoundScaledLast, CumulativeCap, Returned

LEMMA UnscaledType ==
  ASSUME NEW i, IsInfo(i), NEW s, IsSolution(s)
  PROVE  IsSolution(Unscaled(i, s))
<1>1. \A u \in Slots : s.R2[u] - i.tau_b - 2 * i.unit[u] \in Int
  BY DEF IsSolution, Units
<1>2. \A u \in LpUnits \union FreeUnits : s.x[u] - i.tau_b - i.unit[u] \in Int
  BY DEF IsSolution, Units
<1>3. \A r \in Rows : s.y[r] - i.tau_c - i.row[r] \in Int
  BY DEF IsSolution
<1> QED BY <1>1, <1>2, <1>3 DEF IsSolution, Unscaled

LEMMA UnscaleInv == IInv /\ Unscale => IInv'
<1> SUFFICES ASSUME IInv, Unscale PROVE IInv'
  OBVIOUS
<1> USE DEF Unscale
<1>1. IsInfo(info) /\ IsSolution(solution)
  BY InputsAssumption DEF IInv, TypeOK
<1>2. TypeOK'
  BY <1>1, UnscaledType DEF IInv, TypeOK
<1>3. Recorded'
  BY DEF IInv, Recorded, RecordedEntries, RecordedVectors, RecordedColumns,
         RecordedColumn
<1>4. PerConeUniform'
  BY DEF IInv, PerConeUniform
<1>5. Returned'
  BY DEF Returned, Unscaled
<1> QED BY <1>2, <1>3, <1>4, <1>5 DEF IInv, BoundScaledLast, CumulativeCap

LEMMA DisabledInv == IInv /\ Disabled => IInv'
<1> SUFFICES ASSUME IInv, Disabled PROVE IInv'
  OBVIOUS
<1> USE DEF Disabled
<1>1. TypeOK'
  BY DEF IInv, TypeOK
<1>2. Recorded'
  BY DEF IInv, Recorded, RecordedEntries, RecordedVectors, RecordedColumns,
         RecordedColumn
<1>3. PerConeUniform'
  BY DEF IInv, PerConeUniform
<1>4. Returned'
  <2>1. IsSolution(solution)
    BY InputsAssumption DEF IInv, TypeOK
  <2>2. info = NoRescaling /\ result = solution
    BY DEF IInv, Returned
  <2> QED BY <2>1, <2>2 DEF Returned, NoRescaling, IsSolution, Units
<1> QED BY <1>1, <1>2, <1>3, <1>4 DEF IInv, BoundScaledLast, CumulativeCap

LEMMA StutterInv == IInv /\ UNCHANGED vars => IInv'
  BY DEF vars, IInv, TypeOK, Recorded, RecordedEntries, RecordedVectors,
         RecordedColumns, RecordedColumn, BoundScaledLast, CumulativeCap,
         PerConeUniform, Returned

\* The invariant: types, the record, and what the cap and the modes promise.
THEOREM Invariant == Spec => []IInv
<1>1. IInv /\ [Next]_vars => IInv'
  BY DisabledInv, CopyInv, RuizIterationInv, PockChambolleInv,
     BoundObjectiveInv, NoBoundObjectiveInv, UnscaleInv, StutterInv DEF Next
<1> QED BY <1>1, InitInv, PTL DEF Spec

\* The copy stays a problem of the original's structure, for every problem.
THEOREM TypeCorrect == Spec => []TypeOK
  BY Invariant, PTL DEF IInv

\* For every problem and every setting, what a pass of rescale_problem
\* divides the copy by is what rescale_info_t records.
THEOREM RecordedAlways == Spec => []Recorded
  BY Invariant, PTL DEF IInv

\* No cumulative factor exceeds pc_max_diag after the Pock-Chambolle pass.
THEOREM CapHolds == Spec => []CumulativeCap
  BY Invariant, PTL DEF IInv

\* Per-cone scaling keeps one factor per cone.
THEOREM UniformPerCone == Spec => []PerConeUniform
  BY Invariant, PTL DEF IInv

\* A recorded scaling undone in the solution gives back the sizes of the
\* terms of the caller's constraints.
LEMMA UnscaledSolves == IInv => SolvesTheCallersProblem
<1> SUFFICES ASSUME IInv, stage = "solved"
             PROVE  SolvesTheCallersProblem
  BY DEF SolvesTheCallersProblem
<1>1. IsProblem(original) /\ IsInfo(info) /\ IsSolution(solution)
  BY InputsAssumption DEF IInv, TypeOK
<1>2. /\ \A u \in Slots :
           result.R2[u] = solution.R2[u] - info.tau_b - 2 * info.unit[u]
      /\ \A u \in LpUnits \union FreeUnits :
           result.x[u] = solution.x[u] - info.tau_b - info.unit[u]
      /\ \A r \in Rows : result.y[r] = solution.y[r] - info.tau_c - info.row[r]
  BY DEF IInv, Returned
<1>3. ASSUME NEW v \in Vars
      PROVE  /\ Weight2(result, v) = Weight2(solution, v) - 2 * info.tau_b
                                       - 2 * VarFactor(info.unit, v)
             /\ Weight2(solution, v) \in Int
             /\ VarFactor(info.unit, v) \in Int
  <2>1. VarFactor(info.unit, v) \in Int
    BY <1>1, VarFactorType
  <2>2. CASE v \in LinearVars
    <3>1. v[1] \in LpUnits \union FreeUnits /\ Len(v) = 1
      BY <2>2 DEF LinearVars
    <3>2. /\ solution.x[v[1]] \in Int
          /\ info.unit[v[1]] \in Int
          /\ info.tau_b \in Int
      BY <1>1, <3>1 DEF IsSolution, Units
    <3> QED BY <1>2, <2>1, <2>2, <3>1, <3>2 DEF Weight2, VarFactor
  <2>3. CASE v \notin LinearVars
    <3>1. PICK k \in Cones : v \in ConeSlots(k) \X ConeSlots(k)
      BY <2>3 DEF Vars, PsdVars
    <3>2. v[1] \in Slots /\ v[2] \in Slots /\ Len(v) = 2
      BY <3>1 DEF Slots
    <3>3. /\ solution.R2[v[1]] \in Int /\ solution.R2[v[2]] \in Int
          /\ info.unit[v[1]] \in Int /\ info.unit[v[2]] \in Int
          /\ info.tau_b \in Int
      BY <1>1, <3>2 DEF IsSolution, Units
    <3>4. /\ Weight2(result, v) = result.R2[v[1]] + result.R2[v[2]]
          /\ Weight2(solution, v) = solution.R2[v[1]] + solution.R2[v[2]]
      BY <2>3 DEF Weight2
    <3>5. VarFactor(info.unit, v) = info.unit[v[1]] + info.unit[v[2]]
      BY <3>2 DEF VarFactor
    <3>6. /\ result.R2[v[1]] = solution.R2[v[1]] - info.tau_b - 2 * info.unit[v[1]]
          /\ result.R2[v[2]] = solution.R2[v[2]] - info.tau_b - 2 * info.unit[v[2]]
      BY <1>2, <3>2
    <3> QED BY <3>3, <3>4, <3>5, <3>6, SMT
  <2> QED BY <2>2, <2>3
<1>4. ASSUME NEW e \in DOMAIN original.A
      PROVE  /\ PrimalTerm2(original, result, e) = PrimalTerm2(scaled, solution, e)
             /\ e[2] \in DOMAIN original.c =>
                  DualTerm(original, result, e) = DualTerm(scaled, solution, e)
  <2>1. /\ e[1] \in Rows /\ e[2] \in Vars
        /\ original.A[e] \in Int /\ original.b[e[1]] \in Int
        /\ info.row[e[1]] \in Int /\ info.tau_b \in Int /\ info.tau_c \in Int
        /\ solution.y[e[1]] \in Int
    BY <1>1 DEF IsProblem, IsSolution
  <2>2. /\ scaled.A[e] = original.A[e] - info.row[e[1]] - VarFactor(info.unit, e[2])
        /\ scaled.b[e[1]] = original.b[e[1]] - info.row[e[1]] + info.tau_b
    BY <2>1 DEF IInv, Recorded, RecordedEntries, RecordedVectors
  <2>3. PrimalTerm2(original, result, e) = PrimalTerm2(scaled, solution, e)
    BY <1>3, <2>1, <2>2 DEF PrimalTerm2
  <2>4. ASSUME e[2] \in DOMAIN original.c
        PROVE  DualTerm(original, result, e) = DualTerm(scaled, solution, e)
    <3>1. original.c[e[2]] \in Int
      BY <1>1, <2>4 DEF IsProblem
    <3>2. scaled.c[e[2]] = original.c[e[2]] - VarFactor(info.unit, e[2]) + info.tau_c
      BY <2>4 DEF IInv, Recorded, RecordedVectors
    <3> QED BY <1>2, <1>3, <2>1, <2>2, <3>1, <3>2 DEF DualTerm
  <2> QED BY <2>3, <2>4
<1>5. ASSUME NEW j \in DOMAIN original.L, NEW u \in DOMAIN original.L[j].u,
             original.L[j].row # objective
      PROVE  ColumnTerm2(original, result, j, u) - 2 * original.b[original.L[j].row]
               = ColumnTerm2(scaled, solution, j, u) - 2 * scaled.b[original.L[j].row]
  <2> DEFINE old == original.L[j]
             r == old.row
  <2>1. IsColumn(old)
    BY <1>1 DEF IsProblem
  <2>2. r \in Rows /\ u \in Slots
    BY <1>5, <2>1 DEF IsColumn, Slots
  <2>3. /\ old.w \in Int /\ old.u[u] \in Int
        /\ original.b[r] \in Int /\ info.row[r] \in Int /\ info.unit[u] \in Int
        /\ info.tau_b \in Int /\ solution.R2[u] \in Int
    BY <1>1, <2>1, <2>2 DEF IsColumn, IsProblem, IsSolution, Units
  <2>4. /\ scaled.L[j].w = old.w - info.row[r]
        /\ scaled.L[j].u[u] = old.u[u] - info.unit[u]
    BY <1>5 DEF IInv, Recorded, RecordedColumns, RecordedColumn
  <2>5. scaled.b[r] = original.b[r] - info.row[r] + info.tau_b
    BY <2>2 DEF IInv, Recorded, RecordedVectors
  <2> QED BY <1>2, <2>2, <2>3, <2>4, <2>5 DEF ColumnTerm2
<1> QED BY <1>4, <1>5 DEF SolvesTheCallersProblem

\* Rescaling changes nothing about what the caller's problem asks for: the
\* unscaled result is to the original what the solution was to the copy.
THEOREM SolvesTheCallers == Spec => []SolvesTheCallersProblem
  BY Invariant, UnscaledSolves, PTL
=============================================================================
