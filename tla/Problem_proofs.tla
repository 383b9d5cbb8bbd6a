---------------------------- MODULE Problem_proofs ----------------------------
(***************************************************************************)
(* About a problem: the factors chosen from its magnitudes are numbers,    *)
(* its variables have positions, and what the other processes read from    *)
(* the root's buffer is the root's problem, for every problem a reader can *)
(* produce.                                                                *)
(***************************************************************************)
EXTENDS Broadcast, Layout_proofs

-----------------------------------------------------------------------------
(* The magnitudes scaling looks at.                                        *)

LEMMA LargestType ==
  ASSUME NEW S \in SUBSET Int, IsFiniteSet(S), S # {}
  PROVE  /\ Largest(S) \in S
         /\ Largest(S) \in Int
         /\ \A y \in S : y <= Largest(S)
BY MaximumExists DEF Largest

\* The values of a function on a finite set are finitely many.
LEMMA FiniteValues ==
  ASSUME NEW S, IsFiniteSet(S), NEW f
  PROVE  IsFiniteSet({f[x] : x \in S})
<1> DEFINE T == {f[x] : x \in S}
           g == [x \in S |-> f[x]]
<1>1. g \in Surjection(S, T)
  BY DEF Surjection
<1> QED BY <1>1, FS_Surjection

\* A root of finitely many integers is an integer.
LEMMA RootType ==
  ASSUME NEW S \in SUBSET Int, IsFiniteSet(S), NEW d \in {2, 4}
  PROVE  Root(S, d) \in Int
<1>1. CASE S = {}
  BY <1>1 DEF Root
<1>2. CASE S # {}
  <2>1. Largest(S) \in Int
    BY <1>2, LargestType
  <2>2. Largest(S) \div d \in Int
    BY <2>1
  <2> QED BY <2>2 DEF Root
<1> QED BY <1>1, <1>2

\* The sets of units and rows are finite.
LEMMA ConeSlotsFinite ==
  ASSUME NEW k \in Cones
  PROVE  IsFiniteSet(ConeSlots(k))
<1> DEFINE I == 1..blk_dims[k]
           slot == [i \in I |-> <<k, i>>]
<1>1. blk_dims[k] \in Nat
  BY SizesAssumption DEF Cones
<1>2. IsFiniteSet(I)
  BY <1>1, FS_Interval
<1>3. ConeSlots(k) = {slot[i] : i \in I}
  BY DEF ConeSlots
<1>4. IsFiniteSet({slot[i] : i \in I})
  <2> HIDE DEF slot, I
  <2> QED BY <1>2, FiniteValues
<1> QED BY <1>3, <1>4

LEMMA ConesFinite == IsFiniteSet(Cones)
<1>1. PICK n \in Nat : Cones = 1..n
  BY SizesAssumption DEF Cones
<1> QED BY <1>1, FS_Interval

LEMMA UnitsFinite ==
  /\ IsFiniteSet(Rows)
  /\ IsFiniteSet(Slots)
  /\ IsFiniteSet(LpUnits)
  /\ IsFiniteSet(FreeUnits)
<1>1. IsFiniteSet(Rows)
  BY SizesAssumption, FS_Interval DEF Rows
<1>2. IsFiniteSet(Slots)
  <2> DEFINE slots == [k \in Cones |-> ConeSlots(k)]
  <2>1. {ConeSlots(k) : k \in Cones} = {slots[k] : k \in Cones}
    OBVIOUS
  <2>2. IsFiniteSet({ConeSlots(k) : k \in Cones})
    <3> HIDE DEF slots
    <3> QED BY <2>1, ConesFinite, FiniteValues
  <2>3. \A T \in {ConeSlots(k) : k \in Cones} : IsFiniteSet(T)
    BY ConeSlotsFinite
  <2> QED BY <2>2, <2>3, FS_UNION DEF Slots
<1>3. IsFiniteSet(LpUnits)
  <2> DEFINE unit == [i \in 1..lp_dim |-> <<0, i>>]
  <2>1. LpUnits = {unit[i] : i \in 1..lp_dim}
    BY DEF LpUnits
  <2>2. IsFiniteSet(1..lp_dim)
    BY SizesAssumption, FS_Interval
  <2> HIDE DEF unit
  <2> QED BY <2>1, <2>2, FiniteValues
<1>4. IsFiniteSet(FreeUnits)
  <2> DEFINE unit == [i \in 1..free_dim |-> <<-1, i>>]
  <2>1. FreeUnits = {unit[i] : i \in 1..free_dim}
    BY DEF FreeUnits
  <2>2. IsFiniteSet(1..free_dim)
    BY SizesAssumption, FS_Interval
  <2> HIDE DEF unit
  <2> QED BY <2>1, <2>2, FiniteValues
<1> QED BY <1>1, <1>2, <1>3, <1>4

\* A variable is named by one unit, or by two.
LEMMA VarUnits ==
  ASSUME NEW v \in Vars
  PROVE  \/ v \in LinearVars /\ Len(v) = 1 /\ v[1] \in Units
         \/ v \in PsdVars /\ Len(v) = 2 /\ v[1] \in Units /\ v[2] \in Units
<1>1. CASE v \in LinearVars
  BY <1>1 DEF LinearVars, Units
<1>2. CASE v \in PsdVars
  BY <1>2 DEF PsdVars, Units, Slots
<1> QED BY <1>1, <1>2 DEF Vars

LEMMA VarFactorType ==
  ASSUME NEW f \in [Units -> Int], NEW v \in Vars
  PROVE  VarFactor(f, v) \in Int
BY VarUnits DEF VarFactor

\* The bounds of a low-rank column are integers.
LEMMA ColumnPeakType ==
  ASSUME NEW col, IsColumn(col)
  PROVE  /\ ColumnPeak(col) \in Int
         /\ \A u \in DOMAIN col.u : RowPeak(col, u) \in Int
<1>1. IsFiniteSet(Entries(col))
  BY FiniteValues DEF IsColumn, Entries
<1>2. Entries(col) \in SUBSET Int /\ Entries(col) # {}
  BY DEF IsColumn, Entries
<1>3. Largest(Entries(col)) \in Int
  BY <1>1, <1>2, LargestType
<1> QED BY <1>3 DEF IsColumn, ColumnPeak, RowPeak

\* The magnitudes a factor is chosen from are finitely many integers.
LEMMA MagnitudesType ==
  ASSUME NEW p, IsProblem(p)
  PROVE  /\ \A r \in Rows : InRow(p, r) \in SUBSET Int /\ IsFiniteSet(InRow(p, r))
         /\ \A u \in Units : AtUnit(p, u) \in SUBSET Int /\ IsFiniteSet(AtUnit(p, u))
<1>1. ASSUME NEW D \in SUBSET DOMAIN p.A
      PROVE  IsFiniteSet({p.A[e] : e \in D}) /\ {p.A[e] : e \in D} \in SUBSET Int
  <2>1. IsFiniteSet(D)
    BY FS_Subset DEF IsProblem
  <2>2. IsFiniteSet({p.A[e] : e \in D})
    BY <2>1, FiniteValues
  <2>3. {p.A[e] : e \in D} \in SUBSET Int
    BY DEF IsProblem
  <2> QED BY <2>2, <2>3
<1>2. ASSUME NEW J \in SUBSET DOMAIN p.L
      PROVE  IsFiniteSet(J)
  BY FS_Subset DEF IsProblem
<1>3. ASSUME NEW r \in Rows
      PROVE  InRow(p, r) \in SUBSET Int /\ IsFiniteSet(InRow(p, r))
  <2> DEFINE J == ColumnsOf(p, r)
             P == {ColumnPeak(p.L[j]) : j \in J}
             E == {p.A[e] : e \in {e \in DOMAIN p.A : e[1] = r}}
  <2>1. J \in SUBSET DOMAIN p.L
    BY DEF ColumnsOf
  <2> DEFINE g == [j \in J |-> ColumnPeak(p.L[j])]
  <2>2. P = {g[j] : j \in J}
    OBVIOUS
  <2>3. IsFiniteSet(P)
    <3> HIDE DEF g, J, P
    <3> QED BY <1>2, <2>1, <2>2, FiniteValues
  <2>4. P \in SUBSET Int
    BY <2>1, ColumnPeakType DEF IsProblem
  <2>5. IsFiniteSet(E) /\ E \in SUBSET Int
    BY <1>1
  <2> QED BY <2>3, <2>4, <2>5, FS_Union DEF InRow
<1>4. ASSUME NEW u \in Units
      PROVE  AtUnit(p, u) \in SUBSET Int /\ IsFiniteSet(AtUnit(p, u))
  <2> DEFINE J == ColumnsThrough(p, u)
             P == {RowPeak(p.L[j], u) : j \in J}
             E == {p.A[e] : e \in {e \in DOMAIN p.A : e[2][1] = u}}
  <2>1. J \in SUBSET DOMAIN p.L
    BY DEF ColumnsThrough
  <2> DEFINE g == [j \in J |-> RowPeak(p.L[j], u)]
  <2>2. P = {g[j] : j \in J}
    OBVIOUS
  <2>3. IsFiniteSet(P)
    <3> HIDE DEF g, J, P
    <3> QED BY <1>2, <2>1, <2>2, FiniteValues
  <2>4. P \in SUBSET Int
    BY <2>1, ColumnPeakType DEF IsProblem, ColumnsThrough
  <2>5. IsFiniteSet(E) /\ E \in SUBSET Int
    BY <1>1
  <2> QED BY <2>3, <2>4, <2>5, FS_Union DEF AtUnit
<1> QED BY <1>3, <1>4

LEMMA SharedMagnitudesType ==
  ASSUME NEW p, IsProblem(p), NEW u \in Units, NEW per_cone
  PROVE  /\ AtUnits(p, Sharing(u, per_cone)) \in SUBSET Int
         /\ IsFiniteSet(AtUnits(p, Sharing(u, per_cone)))
<1> DEFINE us == Sharing(u, per_cone)
           P == {AtUnit(p, q) : q \in us}
<1>1. us \in SUBSET Units /\ IsFiniteSet(us)
  <2>1. CASE per_cone /\ u \in Slots
    <3>1. PICK k \in Cones : u \in ConeSlots(k)
      BY <2>1 DEF Slots
    <3>2. u[1] = k
      BY <3>1 DEF ConeSlots
    <3>3. us = ConeSlots(k)
      BY <2>1, <3>2 DEF Sharing
    <3> QED BY <3>3, ConeSlotsFinite DEF Units, Slots
  <2>2. CASE ~(per_cone /\ u \in Slots)
    BY <2>2, FS_Singleton DEF Sharing
  <2> QED BY <2>1, <2>2
<1> DEFINE g == [q \in us |-> AtUnit(p, q)]
<1>2. P = {g[q] : q \in us}
  OBVIOUS
<1>3. IsFiniteSet(P)
  <2> HIDE DEF g, us, P
  <2> QED BY <1>1, <1>2, FiniteValues
<1>4. \A T \in P : IsFiniteSet(T) /\ T \in SUBSET Int
  BY <1>1, MagnitudesType
<1>5. IsFiniteSet(UNION P) /\ UNION P \in SUBSET Int
  BY <1>3, <1>4, FS_UNION
<1> QED BY <1>5 DEF AtUnits

IsFactors(f) == /\ DOMAIN f = {"row", "unit"}
                /\ f.row \in [Rows -> Int]
                /\ f.unit \in [Units -> Int]

\* The factors of a pass are integers.
LEMMA RuizFactorsType ==
  ASSUME NEW p, IsProblem(p), NEW per_cone
  PROVE  IsFactors(RuizFactors(p, per_cone))
<1>1. \A r \in Rows : Root(InRow(p, r), 2) \in Int
  BY MagnitudesType, RootType
<1>2. \A u \in Units : Root(AtUnits(p, Sharing(u, per_cone)), 2) \in Int
  BY SharedMagnitudesType, RootType
<1> QED BY <1>1, <1>2 DEF IsFactors, RuizFactors

\* Dividing a problem keeps it one, with the same structure.
LEMMA DividedType ==
  ASSUME NEW p, IsProblem(p), NEW f, IsFactors(f)
  PROVE  IsProblem(Divided(p, f))
<1>1. \A e \in DOMAIN p.A :
        p.A[e] - f.row[e[1]] - VarFactor(f.unit, e[2]) \in Int
  BY VarFactorType DEF IsProblem, IsFactors
<1>2. \A v \in DOMAIN p.c : p.c[v] - VarFactor(f.unit, v) \in Int
  BY VarFactorType DEF IsProblem, IsFactors
<1>3. \A r \in Rows : p.b[r] - f.row[r] \in Int
  BY DEF IsProblem, IsFactors
<1>4. ASSUME NEW j \in DOMAIN p.L
      PROVE  IsColumn(DividedColumn(p.L[j], f))
  <2> DEFINE col == p.L[j]
  <2>1. IsColumn(col)
    BY DEF IsProblem
  <2>2. \A s \in DOMAIN col.u : s \in Units
    BY <2>1 DEF IsColumn, Units, Slots
  <2>3. \A s \in DOMAIN col.u : col.u[s] - f.unit[s] \in Int
    BY <2>1, <2>2 DEF IsColumn, IsFactors
  <2>4. (IF col.row = objective THEN col.w ELSE col.w - f.row[col.row]) \in Int
    BY <2>1 DEF IsColumn, IsFactors
  <2> HIDE DEF col
  <2> DEFINE new == DividedColumn(col, f)
  <2>5. /\ DOMAIN new = {"row", "cone", "w", "u"}
        /\ new.row = col.row
        /\ new.cone = col.cone
        /\ new.w \in Int
        /\ DOMAIN new.u = DOMAIN col.u
    BY <2>4 DEF DividedColumn
  <2>6. new.u \in [DOMAIN col.u -> Int]
    BY <2>3 DEF DividedColumn
  <2> HIDE DEF new
  <2>7. IsColumn(new)
    BY <2>1, <2>5, <2>6 DEF IsColumn
  <2> QED BY <2>7 DEF new, col
<1> QED BY <1>1, <1>2, <1>3, <1>4 DEF IsProblem, Divided

LEMMA BoundedType ==
  ASSUME NEW p, IsProblem(p), NEW tau_b \in Int, NEW tau_c \in Int
  PROVE  IsProblem(Bounded(p, tau_b, tau_c))
<1>1. ASSUME NEW j \in DOMAIN p.L
      PROVE  IsColumn(BoundedColumn(p.L[j], tau_c))
  <2> DEFINE col == p.L[j]
  <2>1. IsColumn(col)
    BY DEF IsProblem
  <2> HIDE DEF col
  <2>2. (IF col.row = objective THEN col.w + tau_c ELSE col.w) \in Int
    BY <2>1 DEF IsColumn
  <2> DEFINE new == BoundedColumn(col, tau_c)
  <2>3. DOMAIN col = {"row", "cone", "w", "u"}
    BY <2>1 DEF IsColumn
  <2>4. /\ DOMAIN new = {"row", "cone", "w", "u"}
        /\ new.row = col.row
        /\ new.cone = col.cone
        /\ new.w \in Int
        /\ new.u = col.u
    BY <2>2, <2>3 DEF BoundedColumn
  <2> HIDE DEF new
  <2>5. IsColumn(new)
    BY <2>1, <2>4 DEF IsColumn
  <2> QED BY <2>5 DEF new, col
<1>2. \A r \in Rows : p.b[r] + tau_b \in Int
  BY DEF IsProblem
<1>3. \A v \in DOMAIN p.c : p.c[v] + tau_c \in Int
  BY DEF IsProblem
<1> QED BY <1>1, <1>2, <1>3 DEF IsProblem, Bounded

\* The bound and objective factors are integers.
LEMMA AboveType ==
  ASSUME NEW S \in SUBSET Int, IsFiniteSet(S)
  PROVE  Above(S) \in Int
<1>1. IsFiniteSet(S \union {0}) /\ S \union {0} \in SUBSET Int /\ S \union {0} # {}
  BY FS_AddElement
<1> QED BY <1>1, LargestType DEF Above

LEMMA BoundScaleType ==
  ASSUME NEW p, IsProblem(p)
  PROVE  BoundScale(p) \in Int /\ ObjectiveScale(p) \in Int
<1>1. BoundScale(p) \in Int
  <2>1. IsFiniteSet({p.b[r] : r \in Rows})
    BY UnitsFinite, FiniteValues
  <2>2. {p.b[r] : r \in Rows} \in SUBSET Int
    BY DEF IsProblem
  <2> QED BY <2>1, <2>2, AboveType DEF BoundScale
<1>2. ObjectiveScale(p) \in Int
  <2> DEFINE J == ColumnsOf(p, objective)
             P == {ColumnPeak(p.L[j]) : j \in J}
             g == [j \in J |-> ColumnPeak(p.L[j])]
             C == {p.c[v] : v \in DOMAIN p.c}
  <2>1. J \in SUBSET DOMAIN p.L
    BY DEF ColumnsOf
  <2>2. P = {g[j] : j \in J}
    OBVIOUS
  <2>3. IsFiniteSet(J)
    BY <2>1, FS_Subset DEF IsProblem
  <2>4. IsFiniteSet(P)
    <3> HIDE DEF g, J, P
    <3> QED BY <2>2, <2>3, FiniteValues
  <2>5. P \in SUBSET Int
    BY <2>1, ColumnPeakType DEF IsProblem
  <2>6. IsFiniteSet(C)
    <3>1. IsFiniteSet(DOMAIN p.c)
      BY DEF IsProblem
    <3> QED BY <3>1, FiniteValues
  <2>7. C \in SUBSET Int
    BY DEF IsProblem
  <2>8. IsFiniteSet(C \union P) /\ C \union P \in SUBSET Int
    BY <2>4, <2>5, <2>6, <2>7, FS_Union
  <2>9. ObjectiveSizes(p) = C \union P
    BY DEF ObjectiveSizes
  <2> QED BY <2>8, <2>9, AboveType DEF ObjectiveScale
<1> QED BY <1>1, <1>2

LEMMA NoRescalingType == IsInfo(NoRescaling)
  BY DEF IsInfo, NoRescaling

LEMMA Dimensions ==
  /\ Len(blk_dims) \in Nat
  /\ Cones = 1..Len(blk_dims)
  /\ \A k \in Cones : blk_dims[k] \in Nat /\ blk_dims[k] > 0
BY SizesAssumption DEF Cones

\* The slots of a cone lie between its blk_ptr and the next one.
LEMMA ConePointers ==
  /\ blk_ptr \in [1..(Len(blk_dims) + 1) -> Nat]
  /\ total_n_orig \in Nat
  /\ \A k \in Cones : blk_ptr[k + 1] = blk_ptr[k] + blk_dims[k] * blk_dims[k]
  /\ \A k, l \in Cones : k < l => blk_ptr[k + 1] <= blk_ptr[l]
  /\ \A k \in Cones : blk_ptr[k + 1] <= total_n_orig
<1> DEFINE size == [j \in Cones |-> blk_dims[j] * blk_dims[j]]
           n == Len(blk_dims)
           s == RunningSum(size, n)
<1>1. n \in Nat /\ Cones = 1..n
  BY Dimensions
<1>2. \A k \in 1..n : size[k] = blk_dims[k] * blk_dims[k] /\ size[k] \in Nat
  BY Dimensions
<1> HIDE DEF size
<1>3. /\ s \in [0..n -> Nat]
      /\ \A i, j \in 0..n : i <= j => s[i] <= s[j]
      /\ \A k \in 1..n : s[k] = s[k - 1] + size[k]
  <2>1. \A k \in 1..n : size[k] \in Int
    BY <1>2
  <2>2. \A k \in 1..n : size[k] \in Nat
    BY <1>2
  <2> HIDE DEF n
  <2>3. \A k \in 1..n : s[k] = s[k - 1] + size[k]
    BY <1>1, <2>1, RunningSumSteps
  <2> QED BY <1>1, <2>2, <2>3, RunningSumMonotone
<1>4. blk_ptr = [k \in 1..(n + 1) |-> s[k - 1]]
  BY DEF blk_ptr, size
<1> HIDE DEF s, n
<1>5. blk_ptr \in [1..(n + 1) -> Nat]
  <2>1. \A k \in 1..(n + 1) : s[k - 1] \in Nat
    BY <1>1, <1>3
  <2> QED BY <1>4, <2>1
<1>6. \A k \in Cones : /\ k + 1 \in 1..(n + 1) /\ k \in 1..(n + 1) /\ k \in 1..n
                       /\ k \in 0..n /\ k - 1 \in 0..n /\ n \in 0..n /\ n + 1 \in 1..(n + 1)
                       /\ (k + 1) - 1 = k /\ (n + 1) - 1 = n
  BY <1>1
<1>7. \A k \in Cones : blk_ptr[k + 1] = s[k] /\ blk_ptr[k] = s[k - 1]
  BY <1>4, <1>6
<1>8. total_n_orig = s[n]
  BY <1>1, <1>4 DEF total_n_orig, n
<1>9. \A k \in Cones : blk_ptr[k + 1] = blk_ptr[k] + blk_dims[k] * blk_dims[k]
  BY <1>2, <1>3, <1>6, <1>7
<1>10. \A k, l \in Cones : k < l => blk_ptr[k + 1] <= blk_ptr[l]
  <2> SUFFICES ASSUME NEW k \in Cones, NEW l \in Cones, k < l PROVE s[k] <= s[l - 1]
    BY <1>7
  <2>1. k \in 0..n /\ l - 1 \in 0..n /\ k <= l - 1
    BY <1>1
  <2> QED BY <1>3, <2>1
<1>11. \A k \in Cones : blk_ptr[k + 1] <= total_n_orig
  BY <1>1, <1>3, <1>6, <1>7, <1>8
<1>12. total_n_orig \in Nat
  BY <1>1, <1>3, <1>8
<1> QED BY <1>5, <1>9, <1>10, <1>11, <1>12 DEF n

\* The two kinds of variables.
LEMMA VarShapes ==
  ASSUME NEW v \in Vars
  PROVE  \/ /\ v \in PsdVars
            /\ \E k \in Cones : \E i, j \in 1..blk_dims[k] : v = <<<<k, i>>, <<k, j>>>>
         \/ /\ v \in LinearVars /\ v \notin PsdVars
            /\ \E i \in 1..lp_dim : v = <<<<0, i>>>> /\ v[1] \notin FreeUnits
         \/ /\ v \in LinearVars /\ v \notin PsdVars
            /\ \E i \in 1..free_dim : v = <<<<-1, i>>>> /\ v[1] \in FreeUnits
<1>1. CASE v \in PsdVars
  <2>1. PICK k \in Cones : v \in ConeSlots(k) \X ConeSlots(k)
    BY <1>1 DEF PsdVars
  <2> QED BY <1>1, <2>1 DEF ConeSlots
<1>2. CASE v \in LinearVars
  <2>1. PICK u \in LpUnits \union FreeUnits : v = <<u>>
    BY <1>2 DEF LinearVars
  <2>2. v \notin PsdVars
    BY <2>1 DEF PsdVars
  <2>3. CASE u \in LpUnits
    <3>1. u \notin FreeUnits
      BY <2>3 DEF LpUnits, FreeUnits
    <3> QED BY <1>2, <2>1, <2>2, <2>3, <3>1 DEF LpUnits
  <2>4. CASE u \in FreeUnits
    BY <1>2, <2>1, <2>2, <2>4 DEF FreeUnits
  <2> QED BY <2>1, <2>3, <2>4
<1> QED BY <1>1, <1>2 DEF Vars

LEMMA PsdPosition ==
  ASSUME NEW k \in Cones, NEW i \in 1..blk_dims[k], NEW j \in 1..blk_dims[k]
  PROVE  LET v == <<<<k, i>>, <<k, j>>>>
         IN  /\ Position[v] = blk_ptr[k] + ((j - 1) * blk_dims[k] + (i - 1))
             /\ (j - 1) * blk_dims[k] + (i - 1) \in 0..(blk_dims[k] * blk_dims[k] - 1)
<1> DEFINE v == <<<<k, i>>, <<k, j>>>>
           d == blk_dims[k]
<1>1. v \in PsdVars /\ v \in Vars
  BY DEF PsdVars, ConeSlots, Vars
<1>2. d \in Nat /\ d > 0
  BY Dimensions
<1>3. blk_ptr[k] \in Nat
  BY ConePointers, Dimensions
<1>4. (j - 1) * d \in Nat /\ d * d \in Nat
  BY <1>2
<1>5. Position[v] = blk_ptr[k] + (j - 1) * d + i - 1
  BY <1>1 DEF Position
<1>6. Position[v] = blk_ptr[k] + ((j - 1) * d + (i - 1))
  <2> HIDE DEF v, d
  <2> DEFINE x == (j - 1) * d
  <2> HIDE DEF x
  <2>1. x \in Nat /\ Position[v] = blk_ptr[k] + x + i - 1 /\ i \in Int
    BY <1>4, <1>5 DEF x
  <2>2. Position[v] = blk_ptr[k] + (x + (i - 1))
    BY <1>3, <2>1
  <2> QED BY <2>2 DEF x
<1>7. (j - 1) * d + (i - 1) \in 0..(d * d - 1)
  <2>1. (j - 1) * d + d <= d * d
    <3>1. j - 1 \in Nat /\ j - 1 < d
      BY <1>2
    <3> QED BY <1>2, <3>1, Steps
  <2> QED BY <1>2, <1>4, <2>1
<1> QED BY <1>6, <1>7

LEMMA LinearPosition ==
  /\ \A i \in 1..lp_dim : Position[<<<<0, i>>>>] = total_n_orig + (i - 1)
  /\ \A i \in 1..free_dim : Position[<<<<-1, i>>>>] = total_n_orig + lp_dim + (i - 1)
<1>1. total_n_orig \in Nat /\ lp_dim \in Nat
  BY ConePointers, SizesAssumption
<1>2. ASSUME NEW i \in 1..lp_dim PROVE Position[<<<<0, i>>>>] = total_n_orig + (i - 1)
  <2> DEFINE v == <<<<0, i>>>>
  <2>1. v \in Vars /\ v[1] = <<0, i>>
    BY DEF Vars, LinearVars, LpUnits
  <2>2. v \notin PsdVars
    BY DEF PsdVars
  <2>3. v[1] \notin FreeUnits
    BY DEF FreeUnits
  <2>4. Position[v] = total_n_orig + v[1][2] - 1 + 0
    BY <2>1, <2>2, <2>3 DEF Position
  <2> QED BY <1>1, <2>4
<1>3. ASSUME NEW i \in 1..free_dim
      PROVE  Position[<<<<-1, i>>>>] = total_n_orig + lp_dim + (i - 1)
  <2> DEFINE v == <<<<-1, i>>>>
  <2>1. v \in Vars
    BY DEF Vars, LinearVars, FreeUnits
  <2>2. v \notin PsdVars
    BY DEF PsdVars
  <2>3. v[1] \in FreeUnits
    BY DEF FreeUnits
  <2>4. Position[v] = total_n_orig + v[1][2] - 1 + lp_dim
    BY <2>1, <2>2, <2>3 DEF Position
  <2> QED BY <1>1, <2>4
<1> QED BY <1>2, <1>3

\* PSD variables come first, then the LP's and then the free ones.
LEMMA PositionBounds ==
  ASSUME NEW v \in Vars
  PROVE  /\ Position[v] \in Nat
         /\ v \in PsdVars => Position[v] < total_n_orig
         /\ v \in LinearVars =>
              /\ Position[v] >= total_n_orig
              /\ v[1] \in FreeUnits => Position[v] >= total_n_orig + lp_dim
              /\ v[1] \notin FreeUnits => Position[v] < total_n_orig + lp_dim
         /\ Position[v] < total_n_orig + lp_dim + free_dim
<1>1. total_n_orig \in Nat /\ lp_dim \in Nat /\ free_dim \in Nat
  BY ConePointers, SizesAssumption
<1>2. CASE v \in PsdVars
  <2>1. PICK k \in Cones : \E i, j \in 1..blk_dims[k] : v = <<<<k, i>>, <<k, j>>>>
    BY <1>2, VarShapes
  <2>2. PICK i \in 1..blk_dims[k], j \in 1..blk_dims[k] : v = <<<<k, i>>, <<k, j>>>>
    BY <2>1
  <2> DEFINE o == (j - 1) * blk_dims[k] + (i - 1)
             area == blk_dims[k] * blk_dims[k]
  <2>3. Position[v] = blk_ptr[k] + o /\ o \in 0..(area - 1)
    BY <2>2, PsdPosition
  <2>4. blk_ptr[k] \in Nat /\ blk_ptr[k] + area <= total_n_orig
    BY ConePointers, Dimensions
  <2>5. area \in Nat
    BY Dimensions
  <2>6. v \notin LinearVars
    BY <1>2 DEF PsdVars, LinearVars
  <2> HIDE DEF o, area
  <2> QED BY <1>1, <1>2, <2>3, <2>4, <2>5, <2>6
<1>3. CASE v \notin PsdVars
  <2>1. CASE \E i \in 1..lp_dim : v = <<<<0, i>>>> /\ v[1] \notin FreeUnits
    BY <1>1, <1>3, <2>1, LinearPosition
  <2>2. CASE \E i \in 1..free_dim : v = <<<<-1, i>>>> /\ v[1] \in FreeUnits
    BY <1>1, <1>3, <2>2, LinearPosition
  <2> QED BY <1>3, <2>1, <2>2, VarShapes
<1> QED BY <1>2, <1>3

LEMMA ConeOfPosition ==
  ASSUME NEW k \in Cones, NEW a \in 0..(blk_dims[k] * blk_dims[k] - 1),
         NEW l \in Cones, NEW b \in 0..(blk_dims[l] * blk_dims[l] - 1),
         blk_ptr[k] + a = blk_ptr[l] + b
  PROVE  k = l /\ a = b
<1> DEFINE K == blk_dims[k] * blk_dims[k]
           L == blk_dims[l] * blk_dims[l]
<1>1. k \in 1..Len(blk_dims) /\ l \in 1..Len(blk_dims) /\ Len(blk_dims) \in Nat
  BY Dimensions
<1>2. K \in Nat /\ L \in Nat
  BY Dimensions
<1>3. /\ blk_ptr[k + 1] = blk_ptr[k] + K /\ blk_ptr[l + 1] = blk_ptr[l] + L
      /\ k < l => blk_ptr[k + 1] <= blk_ptr[l]
      /\ l < k => blk_ptr[l + 1] <= blk_ptr[k]
  BY ConePointers
<1>4. blk_ptr[k] \in Nat /\ blk_ptr[l] \in Nat
  BY <1>1, ConePointers
<1>5. a \in 0..(K - 1) /\ b \in 0..(L - 1)
  OBVIOUS
<1> HIDE DEF K, L
<1>6. ~ k < l
  BY <1>2, <1>3, <1>4, <1>5
<1>7. ~ l < k
  BY <1>2, <1>3, <1>4, <1>5
<1>8. k = l
  BY <1>1, <1>6, <1>7
<1>9. a = b
  BY <1>2, <1>4, <1>5, <1>8
<1> QED BY <1>8, <1>9

LEMMA PositionUnique ==
  ASSUME NEW u \in Vars, NEW v \in Vars, Position[u] = Position[v]
  PROVE  u = v
<1>1. total_n_orig \in Nat /\ lp_dim \in Nat /\ free_dim \in Nat
  BY ConePointers, SizesAssumption
<1>2. CASE u \in PsdVars
  <2>1. v \in PsdVars
    BY <1>1, <1>2, PositionBounds DEF Vars
  <2>2. PICK k \in Cones : \E i, j \in 1..blk_dims[k] : u = <<<<k, i>>, <<k, j>>>>
    BY <1>2, VarShapes
  <2>3. PICK i \in 1..blk_dims[k], j \in 1..blk_dims[k] : u = <<<<k, i>>, <<k, j>>>>
    BY <2>2
  <2>4. PICK l \in Cones : \E i2, j2 \in 1..blk_dims[l] : v = <<<<l, i2>>, <<l, j2>>>>
    BY <2>1, VarShapes
  <2>5. PICK i2 \in 1..blk_dims[l], j2 \in 1..blk_dims[l] : v = <<<<l, i2>>, <<l, j2>>>>
    BY <2>4
  <2> DEFINE o == (j - 1) * blk_dims[k] + (i - 1)
             o2 == (j2 - 1) * blk_dims[l] + (i2 - 1)
  <2>6. /\ Position[u] = blk_ptr[k] + o /\ o \in 0..(blk_dims[k] * blk_dims[k] - 1)
        /\ Position[v] = blk_ptr[l] + o2 /\ o2 \in 0..(blk_dims[l] * blk_dims[l] - 1)
    BY <2>3, <2>5, PsdPosition
  <2>7. k = l /\ o = o2
    <3> HIDE DEF o, o2
    <3> QED BY <2>6, ConeOfPosition
  <2>8. /\ blk_dims[k] \in Nat /\ j - 1 \in Nat /\ j2 - 1 \in Nat
        /\ i - 1 \in 0..(blk_dims[k] - 1) /\ i2 - 1 \in 0..(blk_dims[k] - 1)
    BY <2>7, Dimensions
  <2>9. (j - 1) * blk_dims[k] + (i - 1) = (j2 - 1) * blk_dims[k] + (i2 - 1)
    BY <2>7
  <2>10. j - 1 = j2 - 1 /\ i - 1 = i2 - 1
    <3> DEFINE d == blk_dims[k]
               x == j - 1
               y == j2 - 1
               r == i - 1
               s == i2 - 1
    <3>1. d \in Nat /\ x \in Nat /\ y \in Nat /\ r \in 0..(d - 1) /\ s \in 0..(d - 1)
      BY <2>8
    <3>2. x * d + r = y * d + s
      BY <2>9
    <3> HIDE DEF d, x, y, r, s
    <3>3. x = y /\ r = s
      BY <3>1, <3>2, DivisionUnique
    <3> QED BY <3>3 DEF x, y, r, s
  <2>11. j = j2 /\ i = i2
    BY <2>10
  <2> QED BY <2>3, <2>5, <2>7, <2>11
<1>3. CASE u \notin PsdVars
  <2>1. u \in LinearVars /\ v \in LinearVars /\ v \notin PsdVars
    BY <1>1, <1>3, PositionBounds DEF Vars
  <2>2. u[1] \in FreeUnits <=> v[1] \in FreeUnits
    BY <1>1, <2>1, PositionBounds
  <2>3. CASE u[1] \in FreeUnits
    <3>1. PICK i \in 1..free_dim : u = <<<<-1, i>>>>
      BY <1>3, <2>3, VarShapes
    <3>2. PICK j \in 1..free_dim : v = <<<<-1, j>>>>
      BY <2>1, <2>2, <2>3, VarShapes
    <3>3. i = j
      BY <1>1, <3>1, <3>2, LinearPosition
    <3> QED BY <3>1, <3>2, <3>3
  <2>4. CASE u[1] \notin FreeUnits
    <3>1. PICK i \in 1..lp_dim : u = <<<<0, i>>>>
      BY <1>3, <2>4, VarShapes
    <3>2. PICK j \in 1..lp_dim : v = <<<<0, j>>>>
      BY <2>1, <2>2, <2>4, VarShapes
    <3>3. i = j
      BY <1>1, <3>1, <3>2, LinearPosition
    <3> QED BY <3>1, <3>2, <3>3
  <2> QED BY <2>3, <2>4
<1> QED BY <1>2, <1>3

LEMMA VarAtPosition ==
  \A v \in Vars : VarAt(Position[v]) = v
<1> TAKE v \in Vars
<1>1. VarAt(Position[v]) \in Vars /\ Position[VarAt(Position[v])] = Position[v]
  BY DEF VarAt
<1> QED BY <1>1, PositionUnique

LEMMA VarsFinite ==
  ASSUME NEW vs \in SUBSET Vars
  PROVE  IsFiniteSet(vs) /\ Cardinality(vs) \in Nat
<1> DEFINE T == 0..(total_n_orig + lp_dim + free_dim - 1)
           f == [v \in vs |-> Position[v]]
<1>1. total_n_orig \in Nat /\ lp_dim \in Nat /\ free_dim \in Nat
  BY ConePointers, SizesAssumption
<1>2. \A v \in vs : f[v] \in T
  BY <1>1, PositionBounds
<1>3. \A u, v \in vs : f[u] = f[v] => u = v
  BY PositionUnique
<1>4. f \in Injection(vs, T)
  BY <1>2, <1>3 DEF Injection, IsInjective
<1>5. IsFiniteSet(T)
  BY <1>1, FS_Interval
<1> QED BY <1>4, <1>5, FS_Injection, FS_CardinalityType

\* Any set of variables is listed by position, each variable once.
LEMMA Positions ==
  ASSUME NEW vs \in SUBSET Vars
  PROVE  /\ Cardinality(vs) \in Nat
         /\ ByPosition(vs) \in [1..Cardinality(vs) -> vs]
         /\ ByPosition(vs) \in Seq(vs)
         /\ Len(ByPosition(vs)) = Cardinality(vs)
         /\ \A v \in vs : \E i \in 1..Cardinality(vs) : ByPosition(vs)[i] = v
         /\ \A i, j \in 1..Cardinality(vs) :
              i < j => Position[ByPosition(vs)[i]] < Position[ByPosition(vs)[j]]
         /\ \A i, j \in 1..Cardinality(vs) :
              ByPosition(vs)[i] = ByPosition(vs)[j] => i = j
<1> DEFINE before == {q \in vs \X vs : Position[q[1]] < Position[q[2]]}
           s == Sorted(vs, before)
           n == Cardinality(vs)
<1>1. \A x, y \in vs : <<x, y>> \in before <=> Position[x] < Position[y]
  OBVIOUS
<1>2. \A x \in vs : Position[x] \in Nat
  BY PositionBounds
<1> HIDE DEF before
<1>3. /\ \A x \in vs : <<x, x>> \notin before
      /\ \A x, y, z \in vs : <<x, y>> \in before /\ <<y, z>> \in before => <<x, z>> \in before
      /\ \A x, y \in vs : x # y => <<x, y>> \in before \/ <<y, x>> \in before
  <2>1. \A x, y \in vs : x # y => Position[x] # Position[y]
    BY PositionUnique
  <2> QED BY <1>1, <1>2, <2>1
<1>4. IsFiniteSet(vs)
  BY VarsFinite
<1>5. /\ n \in Nat
      /\ s \in [1..n -> vs]
      /\ \A x \in vs : \E i \in 1..n : s[i] = x
      /\ \A i, j \in 1..n : i < j => <<s[i], s[j]>> \in before
  BY <1>3, <1>4, SortedSequence
<1>6. ByPosition(vs) = s
  BY DEF ByPosition, before
<1> HIDE DEF s, n
<1>7. \A i, j \in 1..n : i < j => Position[s[i]] < Position[s[j]]
  BY <1>1, <1>5
<1>8. \A i, j \in 1..n : s[i] = s[j] => i = j
  <2> SUFFICES ASSUME NEW i \in 1..n, NEW j \in 1..n, s[i] = s[j], i # j PROVE FALSE
    OBVIOUS
  <2>1. i < j \/ j < i
    BY <1>5
  <2>2. Position[s[i]] \in Nat
    BY <1>2, <1>5
  <2> QED BY <1>7, <2>1, <2>2
<1>9. s \in Seq(vs) /\ Len(s) = n
  BY <1>5
<1> QED BY <1>5, <1>6, <1>7, <1>8, <1>9 DEF n


-----------------------------------------------------------------------------
(* What a reader's problem compresses to.                                  *)

Transmissible(p) ==
  /\ p = [A |-> p.A, b |-> p.b, c |-> p.c, L |-> p.L]
  /\ p.A \in [DOMAIN p.A -> Int]
  /\ DOMAIN p.A \subseteq Rows \X Vars
  /\ p.b \in [Rows -> Int]
  /\ p.c \in [DOMAIN p.c -> Int]
  /\ DOMAIN p.c \subseteq Vars
  /\ Len(p.L) \in Nat
  /\ p.L \in [1..Len(p.L) -> {p.L[j] : j \in 1..Len(p.L)}]
  /\ \A j \in 1..Len(p.L) : IsInputColumn(p.L[j])

LEMMA ImagesAreVars ==
  ASSUME NEW e, e.i \in Units, e.j \in Units,
         IF e.i \in Slots THEN e.j \in ConeSlots(e.i[1]) ELSE e.j = e.i
  PROVE  Images(e) \subseteq Vars
<1>1. CASE e.i \in Slots
  <2>1. PICK k \in Cones : e.i \in ConeSlots(k)
    BY <1>1 DEF Slots
  <2>2. e.i[1] = k
    BY <2>1 DEF ConeSlots
  <2>3. e.j \in ConeSlots(k)
    BY <1>1, <2>2
  <2> QED BY <1>1, <2>1, <2>3 DEF Images, Vars, PsdVars
<1>2. CASE e.i \notin Slots
  BY <1>2 DEF Images, Units, Vars, LinearVars
<1> QED BY <1>1, <1>2

LEMMA EntrySet ==
  ASSUME NEW rows, NEW entries \in Seq(InputEntry(rows)),
         \A e \in ToSet(entries) :
           IF e.i \in Slots THEN e.j \in ConeSlots(e.i[1]) ELSE e.j = e.i
  PROVE  /\ IsFiniteSet(ToSet(entries))
         /\ \A e \in ToSet(entries) :
              /\ e.row \in rows /\ e.val \in Int
              /\ Images(e) \subseteq Vars
<1>1. /\ Len(entries) \in Nat
      /\ entries \in [1..Len(entries) -> InputEntry(rows)]
  BY LenProperties
<1>2. ToSet(entries) = {entries[i] : i \in 1..Len(entries)}
  BY <1>1 DEF ToSet
<1>3. IsFiniteSet(ToSet(entries))
  <2>1. IsFiniteSet(1..Len(entries))
    BY <1>1, FS_Interval
  <2> DEFINE g == [i \in 1..Len(entries) |-> entries[i]]
  <2>2. g \in Surjection(1..Len(entries), ToSet(entries))
    BY <1>1, <1>2 DEF Surjection
  <2> QED BY <2>1, <2>2, FS_Surjection
<1>4. ASSUME NEW e \in ToSet(entries)
      PROVE  e.row \in rows /\ e.val \in Int /\ Images(e) \subseteq Vars
  <2>1. e \in InputEntry(rows)
    BY <1>1, <1>2
  <2>2. e.row \in rows /\ e.val \in Int /\ e.i \in Units /\ e.j \in Units
    BY <2>1 DEF InputEntry
  <2> QED BY <2>2, ImagesAreVars
<1> QED BY <1>3, <1>4

LEMMA Compressed ==
  ASSUME NEW input, IsInput(input)
  PROVE  Transmissible(convert_to_compressed(input))
<1> DEFINE p == convert_to_compressed(input)
           C == ToSet(input.constraints)
           O == ToSet(input.objective)
           valuesA(q) == {e.val : e \in {e \in C : \E v \in Images(e) : <<e.row, v>> = q}}
           valuesC(q) == {e.val : e \in {e \in O : \E v \in Images(e) : v = q}}
           placesA == UNION {{<<e.row, v>> : v \in Images(e)} : e \in C}
           placesC == UNION {{v : v \in Images(e)} : e \in O}
<1>1. /\ p.A = [q \in placesA |-> Largest(valuesA(q))]
      /\ p.c = [q \in placesC |-> Largest(valuesC(q))]
      /\ p.b = input.b /\ p.L = input.L
      /\ p = [A |-> p.A, b |-> p.b, c |-> p.c, L |-> p.L]
  BY DEF convert_to_compressed, Merged
<1>2. /\ IsFiniteSet(C)
      /\ \A e \in C : e.row \in Rows /\ e.val \in Int /\ Images(e) \subseteq Vars
  <2>1. input.constraints \in Seq(InputEntry(Rows))
    BY DEF IsInput
  <2>2. \A e \in C : IF e.i \in Slots THEN e.j \in ConeSlots(e.i[1]) ELSE e.j = e.i
    BY DEF IsInput
  <2> QED BY <2>1, <2>2, EntrySet
<1>3. /\ IsFiniteSet(O)
      /\ \A e \in O : e.val \in Int /\ Images(e) \subseteq Vars
  <2>1. input.objective \in Seq(InputEntry({objective}))
    BY DEF IsInput
  <2>2. \A e \in O : IF e.i \in Slots THEN e.j \in ConeSlots(e.i[1]) ELSE e.j = e.i
    BY DEF IsInput
  <2> QED BY <2>1, <2>2, EntrySet
<1> HIDE DEF p, C, O
<1>4. ASSUME NEW S, IsFiniteSet(S), \A e \in S : e.val \in Int,
             NEW T, T \subseteq S, T # {}
      PROVE  Largest({e.val : e \in T}) \in Int
  <2> DEFINE V == {e.val : e \in T}
             g == [e \in T |-> e.val]
  <2>1. IsFiniteSet(T)
    BY <1>4, FS_Subset
  <2>2. g \in Surjection(T, V)
    BY DEF Surjection
  <2>3. IsFiniteSet(V)
    BY <2>1, <2>2, FS_Surjection
  <2>4. V \in SUBSET Int /\ V # {}
    BY <1>4
  <2> HIDE DEF V
  <2> QED BY <2>3, <2>4, LargestType DEF V
<1>5. ASSUME NEW q \in placesA PROVE q \in Rows \X Vars /\ Largest(valuesA(q)) \in Int
  <2>1. PICK e \in C : \E v \in Images(e) : <<e.row, v>> = q
    OBVIOUS
  <2>2. q \in Rows \X Vars
    BY <1>2, <2>1
  <2> DEFINE T == {f \in C : \E v \in Images(f) : <<f.row, v>> = q}
  <2>3. T \subseteq C /\ T # {}
    BY <2>1
  <2>4. valuesA(q) = {f.val : f \in T}
    OBVIOUS
  <2> HIDE DEF T, valuesA
  <2>5. Largest({f.val : f \in T}) \in Int
    BY <1>2, <1>4, <2>3
  <2> QED BY <2>2, <2>4, <2>5
<1>6. ASSUME NEW q \in placesC PROVE q \in Vars /\ Largest(valuesC(q)) \in Int
  <2>1. PICK e \in O : \E v \in Images(e) : v = q
    OBVIOUS
  <2>2. q \in Vars
    BY <1>3, <2>1
  <2> DEFINE T == {f \in O : \E v \in Images(f) : v = q}
  <2>3. T \subseteq O /\ T # {}
    BY <2>1
  <2>4. valuesC(q) = {f.val : f \in T}
    OBVIOUS
  <2> HIDE DEF T, valuesC
  <2>5. Largest({f.val : f \in T}) \in Int
    BY <1>3, <1>4, <2>3
  <2> QED BY <2>2, <2>4, <2>5
<1> HIDE DEF placesA, placesC, valuesA, valuesC
<1>7. p.A \in [DOMAIN p.A -> Int] /\ DOMAIN p.A \subseteq Rows \X Vars
  BY <1>1, <1>5
<1>8. p.c \in [DOMAIN p.c -> Int] /\ DOMAIN p.c \subseteq Vars
  BY <1>1, <1>6
<1>9. p.b \in [Rows -> Int]
  BY <1>1 DEF IsInput
<1>10. /\ Len(p.L) \in Nat
       /\ p.L \in [1..Len(p.L) -> ToSet(p.L)]
       /\ ToSet(p.L) = {p.L[j] : j \in 1..Len(p.L)}
  <2>1. p.L \in Seq(ToSet(p.L))
    BY <1>1 DEF IsInput
  <2>2. Len(p.L) \in Nat /\ p.L \in [1..Len(p.L) -> ToSet(p.L)]
    BY <2>1, LenProperties
  <2> QED BY <2>2 DEF ToSet
<1>11. \A j \in 1..Len(p.L) : IsInputColumn(p.L[j])
  <2>1. \A col \in ToSet(p.L) : IsInputColumn(col)
    BY <1>1 DEF IsInput
  <2> QED BY <1>10, <2>1
<1> QED BY <1>1, <1>7, <1>8, <1>9, <1>10, <1>11 DEF p, Transmissible


-----------------------------------------------------------------------------
(* Reading what was written, one piece after the other.                    *)

Word == Int \union Seq(Int)
\* From word at + 1 on, w has the words of s.
Reads(w, at, s) == \A i \in 1..Len(s) : w[at + i] = s[i]

LEMMA ReadsConcat ==
  ASSUME NEW s \in Seq(Word), NEW t \in Seq(Word), NEW w, NEW at \in Int,
         Reads(w, at, s \o t)
  PROVE  Reads(w, at, s) /\ Reads(w, at + Len(s), t)
<1>1. /\ Len(s) \in Nat /\ Len(t) \in Nat
      /\ Len(s \o t) = Len(s) + Len(t)
      /\ \A i \in 1..(Len(s) + Len(t)) :
           (s \o t)[i] = IF i <= Len(s) THEN s[i] ELSE t[i - Len(s)]
  BY ConcatProperties, LenProperties
<1>2. ASSUME NEW i \in 1..Len(s) PROVE w[at + i] = s[i]
  <2>1. i \in 1..(Len(s) + Len(t)) /\ i <= Len(s)
    BY <1>1
  <2>2. w[at + i] = (s \o t)[i]
    BY <1>1, <2>1 DEF Reads
  <2> QED BY <1>1, <2>1, <2>2
<1>3. ASSUME NEW i \in 1..Len(t) PROVE w[(at + Len(s)) + i] = t[i]
  <2> DEFINE j == Len(s) + i
  <2>1. /\ j \in 1..(Len(s) + Len(t)) /\ ~ j <= Len(s) /\ j - Len(s) = i
        /\ (at + Len(s)) + i = at + j
    BY <1>1
  <2> HIDE DEF j
  <2>2. w[at + j] = (s \o t)[j]
    BY <1>1, <2>1 DEF Reads
  <2>3. (s \o t)[j] = t[i]
    BY <1>1, <2>1
  <2> QED BY <2>1, <2>2, <2>3
<1> QED BY <1>2, <1>3 DEF Reads

LEMMA ReadsPrefix ==
  ASSUME NEW s \in Seq(Word), NEW t \in Seq(Word), NEW w, Reads(w, 0, s \o t)
  PROVE  Reads(w, 0, s) /\ Reads(w, Len(s), t)
<1>1. Reads(w, 0, s) /\ Reads(w, 0 + Len(s), t)
  BY ReadsConcat
<1>2. Len(s) \in Nat
  BY LenProperties
<1>3. 0 + Len(s) = Len(s)
  BY <1>2
<1> QED BY <1>1, <1>3

LEMMA Words ==
  ASSUME NEW n \in Nat, NEW s, s \in [1..n -> Word]
  PROVE  s \in Seq(Word) /\ Len(s) = n
OBVIOUS

LEMMA ConcatWords ==
  ASSUME NEW s \in Seq(Word), NEW t \in Seq(Word)
  PROVE  s \o t \in Seq(Word) /\ Len(s \o t) = Len(s) + Len(t) /\ Len(s) \in Nat /\ Len(t) \in Nat
BY ConcatProperties, LenProperties

\* The numbers of a dense vector that are not zero come back as they were.
LEMMA SparseDense ==
  ASSUME NEW n \in Nat, NEW names, DOMAIN names = 1..n,
         \A i, j \in 1..n : names[i] = names[j] => i = j,
         NEW f, NEW words, DOMAIN words = 1..n,
         \A i \in 1..n : words[i] = Dense(f, names)[i]
  PROVE  Sparse(words, names) = Restrict(f, (DOMAIN f) \intersect Range(names))
<1>1. \A i \in 1..n : words[i] = IF names[i] \in DOMAIN f THEN <<f[names[i]]>> ELSE <<>>
  BY DEF Dense
<1>2. \A i \in 1..n : words[i] # <<>> <=> names[i] \in DOMAIN f
  <2>1. \A x : <<x>> # <<>>
    OBVIOUS
  <2> QED BY <1>1, <2>1
<1> DEFINE D == {names[i] : i \in {i \in DOMAIN words : words[i] # <<>>}}
           E == (DOMAIN f) \intersect Range(names)
<1>3. D = E
  BY <1>2 DEF Range
<1>4. ASSUME NEW v \in E
      PROVE  words[CHOOSE i \in DOMAIN words : names[i] = v][1] = f[v]
  <2> DEFINE i == CHOOSE i \in DOMAIN words : names[i] = v
  <2>1. i \in 1..n /\ names[i] = v
    BY DEF Range
  <2>2. words[i] = <<f[v]>>
    BY <1>1, <2>1
  <2> QED BY <2>2
<1>5. Sparse(words, names) = [v \in D |-> words[CHOOSE i \in DOMAIN words : names[i] = v][1]]
  BY DEF Sparse
<1> HIDE DEF D, E
<1>6. Sparse(words, names) = [v \in E |-> f[v]]
  BY <1>3, <1>4, <1>5
<1> QED BY <1>6 DEF E, Restrict

LEMMA DenseWords ==
  ASSUME NEW n \in Nat, NEW names, DOMAIN names = 1..n, NEW f, f \in [DOMAIN f -> Int]
  PROVE  Dense(f, names) \in [1..n -> Seq(Int)] /\ Dense(f, names) \in [1..n -> Word]
<1>1. ASSUME NEW i \in 1..n PROVE Dense(f, names)[i] \in Seq(Int)
  <2>1. CASE names[i] \in DOMAIN f
    <3>1. f[names[i]] \in Int
      BY <2>1
    <3>2. Dense(f, names)[i] = <<f[names[i]]>>
      BY <2>1 DEF Dense
    <3> QED BY <3>1, <3>2
  <2>2. CASE names[i] \notin DOMAIN f
    BY <2>2 DEF Dense
  <2> QED BY <2>1, <2>2
<1>2. Dense(f, names) = [i \in 1..n |-> Dense(f, names)[i]]
  BY DEF Dense
<1> QED BY <1>1, <1>2 DEF Word


-----------------------------------------------------------------------------
(* The linear part of the objective.                                       *)

LEMMA SameCount ==
  ASSUME NEW S, NEW T, IsFiniteSet(S), NEW f, f \in [S -> T],
         \A x, y \in S : f[x] = f[y] => x = y,
         \A z \in T : \E x \in S : f[x] = z
  PROVE  IsFiniteSet(T) /\ Cardinality(T) = Cardinality(S)
<1>1. f \in Surjection(S, T)
  BY DEF Surjection
<1>2. f \in Injection(S, T)
  BY DEF Injection, IsInjective
<1> QED BY <1>1, <1>2, FS_Surjection

LinearPart(units) == {<<u>> : u \in units}

LEMMA LinearParts ==
  /\ LinearPart(LpUnits) \subseteq Vars /\ LinearPart(FreeUnits) \subseteq Vars
  /\ Cardinality(LinearPart(LpUnits)) = lp_dim
  /\ Cardinality(LinearPart(FreeUnits)) = free_dim
  /\ LinearPart(LpUnits) \intersect LinearPart(FreeUnits) = {}
  /\ LinearPart(LpUnits) \union LinearPart(FreeUnits) = LinearVars
  /\ LinearPart(LpUnits) \intersect PsdVars = {}
  /\ LinearPart(FreeUnits) \intersect PsdVars = {}
<1>1. lp_dim \in Nat /\ free_dim \in Nat
  BY SizesAssumption
<1>2. LinearPart(LpUnits) \subseteq Vars /\ LinearPart(FreeUnits) \subseteq Vars
  BY DEF LinearPart, Vars, LinearVars
<1>3. Cardinality(LinearPart(LpUnits)) = lp_dim
  <2> DEFINE f == [i \in 1..lp_dim |-> <<<<0, i>>>>]
  <2>1. LinearPart(LpUnits) = {<<<<0, i>>>> : i \in 1..lp_dim}
    BY DEF LinearPart, LpUnits
  <2>2. f \in [1..lp_dim -> LinearPart(LpUnits)]
    BY <2>1
  <2>3. /\ \A x, y \in 1..lp_dim : f[x] = f[y] => x = y
        /\ \A z \in LinearPart(LpUnits) : \E x \in 1..lp_dim : f[x] = z
    BY <2>1
  <2>4. IsFiniteSet(1..lp_dim) /\ Cardinality(1..lp_dim) = lp_dim
    BY <1>1, FS_Interval
  <2> HIDE DEF f
  <2> QED BY <2>2, <2>3, <2>4, SameCount, ZenonT(40)
<1>4. Cardinality(LinearPart(FreeUnits)) = free_dim
  <2> DEFINE f == [i \in 1..free_dim |-> <<<<-1, i>>>>]
  <2>1. LinearPart(FreeUnits) = {<<<<-1, i>>>> : i \in 1..free_dim}
    BY DEF LinearPart, FreeUnits
  <2>2. f \in [1..free_dim -> LinearPart(FreeUnits)]
    BY <2>1
  <2>3. /\ \A x, y \in 1..free_dim : f[x] = f[y] => x = y
        /\ \A z \in LinearPart(FreeUnits) : \E x \in 1..free_dim : f[x] = z
    BY <2>1
  <2>4. IsFiniteSet(1..free_dim) /\ Cardinality(1..free_dim) = free_dim
    BY <1>1, FS_Interval
  <2> HIDE DEF f
  <2> QED BY <2>2, <2>3, <2>4, SameCount, ZenonT(40)
<1>5. /\ LinearPart(LpUnits) \intersect LinearPart(FreeUnits) = {}
      /\ LinearPart(LpUnits) \union LinearPart(FreeUnits) = LinearVars
      /\ LinearPart(LpUnits) \intersect PsdVars = {}
      /\ LinearPart(FreeUnits) \intersect PsdVars = {}
  BY DEF LinearPart, LinearVars, LpUnits, FreeUnits, PsdVars
<1> QED BY <1>2, <1>3, <1>4, <1>5

LEMMA LinearWritten ==
  ASSUME NEW units, LinearPart(units) \subseteq Vars, units = {} <=> Cardinality(LinearPart(units)) = 0,
         NEW f, f \in [DOMAIN f -> Int]
  PROVE  /\ LinearWords(f, units) \in Seq(Word)
         /\ Len(LinearWords(f, units)) = 1 + Cardinality(LinearPart(units))
         /\ units # {} => LinearWords(f, units) = <<1>> \o Dense(f, LinearSeq(units))
         /\ units = {} => LinearWords(f, units) = <<0>> \o <<>>
         /\ <<1>> \in Seq(Word) /\ <<0>> \in Seq(Word) /\ <<>> \in Seq(Word)
         /\ Dense(f, LinearSeq(units)) \in Seq(Word)
         /\ Len(Dense(f, LinearSeq(units))) = Cardinality(LinearPart(units))
<1> DEFINE n == Cardinality(LinearPart(units))
           names == LinearSeq(units)
<1>1. names \in [1..n -> LinearPart(units)] /\ n \in Nat
  BY Positions DEF LinearSeq, LinearPart
<1> HIDE DEF n, names
<1>2. Dense(f, names) \in [1..n -> Word]
  BY <1>1, DenseWords
<1>3. Dense(f, names) \in Seq(Word) /\ Len(Dense(f, names)) = n
  BY <1>1, <1>2, Words
<1>4. <<1>> \in Seq(Word) /\ <<0>> \in Seq(Word) /\ <<>> \in Seq(Word)
  BY DEF Word
<1>5. LinearWords(f, units) = <<Flag(units # {})>> \o (IF units # {} THEN Dense(f, names) ELSE <<>>)
  BY DEF LinearWords, names
<1>6. /\ Len(<<1>> \o Dense(f, names)) = 1 + n /\ <<1>> \o Dense(f, names) \in Seq(Word)
      /\ Len(<<0>> \o <<>>) = 1 /\ <<0>> \o <<>> \in Seq(Word)
  BY <1>3, <1>4, ConcatWords
<1>7. CASE units # {}
  BY <1>3, <1>4, <1>5, <1>6, <1>7 DEF Flag, n, names
<1>8. CASE units = {}
  <2>1. n = 0
    BY <1>8 DEF n
  <2> QED BY <1>3, <1>4, <1>5, <1>6, <1>8, <2>1 DEF Flag, n, names
<1> QED BY <1>7, <1>8

LEMMA LinearRead ==
  ASSUME NEW units, LinearPart(units) \subseteq Vars, units = {} <=> Cardinality(LinearPart(units)) = 0,
         NEW f, f \in [DOMAIN f -> Int], NEW w, NEW at \in Int,
         Reads(w, at, LinearWords(f, units)), w[at - 1] = Cardinality(LinearPart(units))
  PROVE  /\ ReadLinear(w, at, units).f = Restrict(f, (DOMAIN f) \intersect LinearPart(units))
         /\ ReadLinear(w, at, units).end = at + Len(LinearWords(f, units))
<1> DEFINE n == Cardinality(LinearPart(units))
           names == LinearSeq(units)
<1>1. /\ n \in Nat
      /\ names \in [1..n -> LinearPart(units)]
      /\ \A v \in LinearPart(units) : \E i \in 1..n : names[i] = v
      /\ \A i, j \in 1..n : names[i] = names[j] => i = j
  BY Positions DEF LinearSeq, LinearPart
<1>2. LinearPart(units) = Range(names)
  BY <1>1 DEF Range
<1> HIDE DEF n, names
<1>3. CASE units # {}
  <2> DEFINE dense == Dense(f, names)
             words == SubSeq(w, at + 2, at + 1 + n)
  <2>1. Reads(w, at, <<1>>) /\ Reads(w, at + Len(<<1>>), dense)
    BY <1>3, LinearWritten, ReadsConcat DEF names
  <2>2. w[at + 1] = 1
    BY <2>1 DEF Reads
  <2>3. Len(dense) = n /\ dense \in [1..n -> Word]
    BY <1>1, LinearWritten, DenseWords DEF n, names
  <2> HIDE DEF dense
  <2>4. \A i \in 1..n : w[(at + 1) + i] = dense[i]
    BY <2>1, <2>3 DEF Reads
  <2>5. \A q \in (at + 2)..(at + 1 + n) : w[q] \in Word
    <3> SUFFICES ASSUME NEW q \in (at + 2)..(at + 1 + n) PROVE w[q] \in Word
      OBVIOUS
    <3> DEFINE i == q - (at + 1)
    <3>1. i \in 1..n /\ (at + 1) + i = q
      BY <1>1
    <3> HIDE DEF i
    <3> QED BY <2>3, <2>4, <3>1
  <2>6. /\ words \in Seq(Word) /\ Len(words) = n
        /\ \A i \in 1..n : words[i] = w[(at + 2) + i - 1]
    <3> DEFINE a == at + 2
               b == at + 1 + n
    <3>1. a \in Int /\ b \in Int /\ b - a + 1 = n /\ \A q \in a..b : w[q] \in Word
      BY <1>1, <2>5
    <3> HIDE DEF a, b
    <3>2. /\ SubSeq(w, a, b) \in Seq(Word)
          /\ Len(SubSeq(w, a, b)) = IF a <= b THEN b - a + 1 ELSE 0
          /\ \A i \in 1..(b - a + 1) : SubSeq(w, a, b)[i] = w[a + i - 1]
      BY <3>1, SubSeqProperties
    <3>3. Len(SubSeq(w, a, b)) = n
      BY <1>1, <3>1, <3>2
    <3> QED BY <3>1, <3>2, <3>3 DEF a, b
  <2>7. \A i \in 1..n : words[i] = dense[i]
    <3>1. \A i \in 1..n : (at + 2) + i - 1 = (at + 1) + i
      OBVIOUS
    <3> HIDE DEF words
    <3> QED BY <2>4, <2>6, <3>1
  <2> HIDE DEF words
  <2>8. DOMAIN words = 1..n /\ DOMAIN names = 1..n
    BY <1>1, <2>6, LenProperties
  <2>9. Sparse(words, names) = Restrict(f, (DOMAIN f) \intersect Range(names))
    <3>1. \A i \in 1..n : words[i] = Dense(f, names)[i]
      BY <2>7 DEF dense
    <3>2. \A i, j \in 1..n : names[i] = names[j] => i = j
      BY <1>1
    <3>3. n \in Nat
      BY <1>1
    <3> QED BY <2>8, <3>1, <3>2, <3>3, SparseDense
  <2>10. /\ ReadLinear(w, at, units).f = Sparse(words, names)
         /\ ReadLinear(w, at, units).end = at + 1 + n
    BY <2>2 DEF ReadLinear, words, names, n
  <2>11. at + 1 + n = at + (1 + n)
    BY <1>1
  <2> QED BY <1>2, <2>9, <2>10, <2>11, LinearWritten DEF n
<1>4. CASE units = {}
  <2>1. Reads(w, at, <<0>>)
    BY <1>4, LinearWritten, ReadsConcat
  <2>2. w[at + 1] = 0
    BY <2>1 DEF Reads
  <2>3. ReadLinear(w, at, units).f = <<>> /\ ReadLinear(w, at, units).end = at + 1
    BY <2>2 DEF ReadLinear
  <2>4. (DOMAIN f) \intersect LinearPart(units) = {}
    BY <1>4 DEF LinearPart
  <2>5. Restrict(f, (DOMAIN f) \intersect LinearPart(units)) = <<>>
    BY <2>4 DEF Restrict
  <2>6. Len(LinearWords(f, units)) = 1
    BY <1>1, <1>4, LinearWritten
  <2> QED BY <2>3, <2>5, <2>6
<1> QED BY <1>3, <1>4


-----------------------------------------------------------------------------
(* The sparse constraint matrix.                                           *)

LEMMA Columns ==
  ASSUME NEW p, Transmissible(p)
  PROVE  /\ ActiveVars(p) \subseteq Vars
         /\ Len(col_mapping(p)) \in Nat
         /\ col_mapping(p) \in [1..Len(col_mapping(p)) -> ActiveVars(p)]
         /\ Len(col_mapping(p)) = Cardinality(ActiveVars(p))
         /\ \A v \in ActiveVars(p) : \E i \in 1..Len(col_mapping(p)) : col_mapping(p)[i] = v
         /\ \A i, j \in 1..Len(col_mapping(p)) :
              col_mapping(p)[i] = col_mapping(p)[j] => i = j
         /\ \A e \in DOMAIN p.A : /\ e[2] \in ActiveVars(p)
                                  /\ col_ind(p, e) \in 1..Len(col_mapping(p))
                                  /\ col_mapping(p)[col_ind(p, e)] = e[2]
<1> DEFINE psd == {e[2] : e \in DOMAIN p.A} \intersect PsdVars
<1>1. DOMAIN p.A \subseteq Rows \X Vars
  BY DEF Transmissible
<1>2. psd \union LinearVars \subseteq Vars
  BY DEF Vars
<1>3. \A e \in DOMAIN p.A : e[2] \in psd \union LinearVars
  <2>1. \A e \in DOMAIN p.A : e[2] \in Vars
    BY <1>1
  <2> QED BY <2>1 DEF Vars
<1>4. p.L # <<>> => <<<<1, 1>>, <<1, 1>>>> \in Vars
  <2> SUFFICES ASSUME p.L # <<>> PROVE <<<<1, 1>>, <<1, 1>>>> \in Vars
    OBVIOUS
  <2>1. Len(p.L) # 0
    BY DEF Transmissible
  <2>2. 1 \in 1..Len(p.L)
    BY <2>1 DEF Transmissible
  <2>3. p.L[1].cone \in Cones
    BY <2>2 DEF Transmissible, IsInputColumn
  <2>4. 1 \in Cones
    BY <2>3, Dimensions
  <2>5. blk_dims[1] \in Nat /\ blk_dims[1] > 0
    BY <2>4, Dimensions
  <2>6. <<1, 1>> \in ConeSlots(1)
    BY <2>5 DEF ConeSlots
  <2> QED BY <2>4, <2>6 DEF Vars, PsdVars
<1>5. ActiveVars(p) = IF psd \union LinearVars = {} /\ p.L # <<>>
                      THEN {<<<<1, 1>>, <<1, 1>>>>} ELSE psd \union LinearVars
  BY DEF ActiveVars
<1> HIDE DEF psd
<1>6. ActiveVars(p) \subseteq Vars
  BY <1>2, <1>4, <1>5
<1>7. \A e \in DOMAIN p.A : e[2] \in ActiveVars(p)
  BY <1>3, <1>5
<1> DEFINE cols == col_mapping(p)
           n == Cardinality(ActiveVars(p))
<1>8. /\ n \in Nat
      /\ cols \in [1..n -> ActiveVars(p)]
      /\ Len(cols) = n
      /\ \A v \in ActiveVars(p) : \E i \in 1..n : cols[i] = v
      /\ \A i, j \in 1..n : cols[i] = cols[j] => i = j
  BY <1>6, Positions DEF col_mapping
<1>9. ASSUME NEW e \in DOMAIN p.A
      PROVE  col_ind(p, e) \in 1..n /\ cols[col_ind(p, e)] = e[2]
  <2>1. \E i \in DOMAIN cols : cols[i] = e[2]
    BY <1>7, <1>8
  <2>2. col_ind(p, e) = CHOOSE i \in DOMAIN cols : cols[i] = e[2]
    BY DEF col_ind
  <2>3. col_ind(p, e) \in DOMAIN cols /\ cols[col_ind(p, e)] = e[2]
    BY <2>1, <2>2
  <2> QED BY <1>8, <2>3
<1> QED BY <1>6, <1>7, <1>8, <1>9

LEMMA EntriesFinite ==
  ASSUME NEW p, Transmissible(p)
  PROVE  IsFiniteSet(DOMAIN p.A) /\ Cardinality(DOMAIN p.A) \in Nat
<1>1. IsFiniteSet(Rows)
  BY SizesAssumption, FS_Interval DEF Rows
<1>2. IsFiniteSet(Vars)
  BY VarsFinite
<1>3. IsFiniteSet(Rows \X Vars)
  BY <1>1, <1>2, FS_Product
<1> QED BY <1>3, FS_Subset, FS_CardinalityType DEF Transmissible

LEMMA CsrSequence ==
  ASSUME NEW p, Transmissible(p)
  PROVE  /\ Cardinality(DOMAIN p.A) \in Nat
         /\ CsrOrder(p) \in [1..Cardinality(DOMAIN p.A) -> DOMAIN p.A]
         /\ Len(CsrOrder(p)) = Cardinality(DOMAIN p.A)
         /\ \A e \in DOMAIN p.A : \E i \in 1..Cardinality(DOMAIN p.A) : CsrOrder(p)[i] = e
         /\ \A i, j \in 1..Cardinality(DOMAIN p.A) :
              CsrOrder(p)[i] = CsrOrder(p)[j] => i = j
         /\ \A i, j \in 1..Cardinality(DOMAIN p.A) :
              i <= j => CsrOrder(p)[i][1] <= CsrOrder(p)[j][1]
<1> DEFINE S == DOMAIN p.A
           before == {q \in S \X S :
                        \/ q[1][1] < q[2][1]
                        \/ q[1][1] = q[2][1] /\ Position[q[1][2]] < Position[q[2][2]]}
           s == Sorted(S, before)
           n == Cardinality(S)
<1>1. \A x \in S : /\ x[1] \in Int /\ x[2] \in Vars /\ x = <<x[1], x[2]>>
                   /\ Position[x[2]] \in Int
  <2>1. S \subseteq Rows \X Vars
    BY DEF Transmissible
  <2>2. \A x \in S : x[1] \in Rows /\ x[2] \in Vars /\ x = <<x[1], x[2]>>
    BY <2>1
  <2>3. Rows \subseteq Int
    BY SizesAssumption DEF Rows
  <2>4. \A v \in Vars : Position[v] \in Int
    BY PositionBounds
  <2> QED BY <2>2, <2>3, <2>4
<1>2. \A x, y \in S : <<x, y>> \in before <=> \/ x[1] < y[1]
                                              \/ x[1] = y[1] /\ Position[x[2]] < Position[y[2]]
  OBVIOUS
<1> HIDE DEF before
<1>3. \A x \in S : <<x, x>> \notin before
  BY <1>1, <1>2
<1>4. \A x, y, z \in S : <<x, y>> \in before /\ <<y, z>> \in before => <<x, z>> \in before
  <2> SUFFICES ASSUME NEW x \in S, NEW y \in S, NEW z \in S,
                      <<x, y>> \in before, <<y, z>> \in before
               PROVE  <<x, z>> \in before
    OBVIOUS
  <2>1. \/ x[1] < y[1]
        \/ x[1] = y[1] /\ Position[x[2]] < Position[y[2]]
    BY <1>2
  <2>2. \/ y[1] < z[1]
        \/ y[1] = z[1] /\ Position[y[2]] < Position[z[2]]
    BY <1>2
  <2>3. \/ x[1] < z[1]
        \/ x[1] = z[1] /\ Position[x[2]] < Position[z[2]]
    BY <1>1, <2>1, <2>2
  <2> QED BY <1>2, <2>3
<1>5. \A x, y \in S : x # y => <<x, y>> \in before \/ <<y, x>> \in before
  <2> SUFFICES ASSUME NEW x \in S, NEW y \in S, x # y
               PROVE  <<x, y>> \in before \/ <<y, x>> \in before
    OBVIOUS
  <2>1. x[1] # y[1] \/ x[2] # y[2]
    BY <1>1
  <2>2. x[2] # y[2] => Position[x[2]] # Position[y[2]]
    BY <1>1, PositionUnique
  <2> QED BY <1>1, <1>2, <2>1, <2>2
<1>6. IsFiniteSet(S)
  BY EntriesFinite
<1> HIDE DEF S
<1>7. /\ n \in Nat
      /\ s \in [1..n -> S]
      /\ \A x \in S : \E i \in 1..n : s[i] = x
      /\ \A i, j \in 1..n : i < j => <<s[i], s[j]>> \in before
  BY <1>3, <1>4, <1>5, <1>6, SortedSequence
<1>8. CsrOrder(p) = s
  BY DEF CsrOrder, before, S
<1> HIDE DEF s, n
<1>9. \A i, j \in 1..n : i <= j => s[i][1] <= s[j][1]
  <2> SUFFICES ASSUME NEW i \in 1..n, NEW j \in 1..n, i <= j PROVE s[i][1] <= s[j][1]
    OBVIOUS
  <2>1. i < j \/ i = j
    OBVIOUS
  <2>2. s[i] \in S /\ s[j] \in S
    BY <1>7
  <2>3. CASE i < j
    <3>1. <<s[i], s[j]>> \in before
      BY <1>7, <2>3
    <3>2. s[i][1] < s[j][1] \/ s[i][1] = s[j][1]
      BY <1>2, <2>2, <3>1
    <3> QED BY <1>1, <2>2, <3>2
  <2>4. CASE i = j
    BY <1>1, <2>2, <2>4
  <2> QED BY <2>1, <2>3, <2>4
<1>10. \A i, j \in 1..n : s[i] = s[j] => i = j
  <2> SUFFICES ASSUME NEW i \in 1..n, NEW j \in 1..n, s[i] = s[j], i # j PROVE FALSE
    OBVIOUS
  <2>1. i < j \/ j < i
    BY <1>7
  <2>2. <<s[i], s[i]>> \in before
    BY <1>7, <2>1
  <2> QED BY <1>3, <1>7, <2>2
<1>11. Len(s) = n
  BY <1>7
<1> QED BY <1>7, <1>8, <1>9, <1>10, <1>11 DEF n, S

LEMMA RowPointers ==
  ASSUME NEW p, Transmissible(p), NEW r \in 1..(num_constraints + 1)
  PROVE  /\ row_ptr(p)[r] \in Nat
         /\ \A i \in 1..Len(CsrOrder(p)) : CsrOrder(p)[i][1] < r <=> i <= row_ptr(p)[r]
<1> DEFINE S == DOMAIN p.A
           s == CsrOrder(p)
           n == Cardinality(S)
           D == {i \in 1..n : s[i][1] < r}
           E == {e \in S : e[1] < r}
<1>1. /\ n \in Nat
      /\ s \in [1..n -> S]
      /\ Len(s) = n
      /\ \A e \in S : \E i \in 1..n : s[i] = e
      /\ \A i, j \in 1..n : s[i] = s[j] => i = j
      /\ \A i, j \in 1..n : i <= j => s[i][1] <= s[j][1]
  BY CsrSequence
<1>2. \A e \in S : e[1] \in Int
  BY SizesAssumption DEF Transmissible, Rows
<1>3. row_ptr(p)[r] = Cardinality(E)
  BY DEF row_ptr
<1> HIDE DEF s, n, S
<1>4. \A i \in D, j \in 1..n : j <= i => j \in D
  <2> SUFFICES ASSUME NEW i \in D, NEW j \in 1..n, j <= i PROVE s[j][1] < r
    OBVIOUS
  <2>1. s[j][1] <= s[i][1] /\ s[i][1] < r
    BY <1>1
  <2>2. s[j][1] \in Int /\ s[i][1] \in Int
    BY <1>1, <1>2
  <2> QED BY <2>1, <2>2
<1>5. IsFiniteSet(D) /\ Cardinality(D) \in Nat /\ D = 1..Cardinality(D)
  <2>1. D \in SUBSET (1..n)
    OBVIOUS
  <2> HIDE DEF D
  <2> QED BY <1>1, <1>4, <2>1, InitialPositions
<1>6. Cardinality(E) = Cardinality(D)
  <2> DEFINE f == [i \in D |-> s[i]]
  <2>1. f \in [D -> E]
    BY <1>1
  <2>2. \A x, y \in D : f[x] = f[y] => x = y
    BY <1>1
  <2>3. \A z \in E : \E x \in D : f[x] = z
    BY <1>1
  <2> HIDE DEF f, D, E
  <2> QED BY <1>5, <2>1, <2>2, <2>3, SameCount, ZenonT(40)
<1>7. \A i \in 1..n : s[i][1] < r <=> i <= Cardinality(D)
  <2> DEFINE c == Cardinality(D)
  <2>1. \A i \in 1..n : i \in D <=> i \in 1..c
    BY <1>5
  <2> HIDE DEF c
  <2>2. c \in Nat
    BY <1>5 DEF c
  <2>3. \A i \in 1..n : i \in 1..c <=> i <= c
    BY <2>2
  <2>4. \A i \in 1..n : i \in D <=> s[i][1] < r
    OBVIOUS
  <2> QED BY <2>1, <2>3, <2>4 DEF c
<1> HIDE DEF D, E
<1> QED BY <1>1, <1>3, <1>5, <1>6, <1>7 DEF s


CsrCounts(p) == <<1, num_constraints, Len(col_mapping(p)), Len(CsrOrder(p))>>
CsrColumns(p) == [i \in DOMAIN CsrOrder(p) |-> col_ind(p, CsrOrder(p)[i])]
CsrValues(p) == [i \in DOMAIN CsrOrder(p) |-> p.A[CsrOrder(p)[i]]]

LEMMA CsrWritten ==
  ASSUME NEW p, Transmissible(p)
  PROVE  /\ CsrWords(p) = ((CsrCounts(p) \o row_ptr(p)) \o CsrColumns(p)) \o CsrValues(p)
         /\ CsrCounts(p) \in Seq(Word) /\ Len(CsrCounts(p)) = 4
         /\ row_ptr(p) \in Seq(Word) /\ Len(row_ptr(p)) = num_constraints + 1
         /\ CsrColumns(p) \in Seq(Word) /\ Len(CsrColumns(p)) = Len(CsrOrder(p))
         /\ CsrValues(p) \in Seq(Word) /\ Len(CsrValues(p)) = Len(CsrOrder(p))
         /\ CsrWords(p) \in Seq(Word)
         /\ Len(CsrWords(p)) = 5 + num_constraints + 2 * Len(CsrOrder(p))
         /\ Len(CsrOrder(p)) \in Nat /\ DOMAIN CsrOrder(p) = 1..Len(CsrOrder(p))
<1>1. CsrWords(p) = ((CsrCounts(p) \o row_ptr(p)) \o CsrColumns(p)) \o CsrValues(p)
  BY DEF CsrWords, CsrCounts, CsrColumns, CsrValues
<1> DEFINE n == Len(CsrOrder(p))
<1>2. /\ n \in Nat /\ DOMAIN CsrOrder(p) = 1..n
      /\ \A i \in 1..n : CsrOrder(p)[i] \in DOMAIN p.A
  BY CsrSequence
<1> HIDE DEF n
<1>3. CsrCounts(p) \in Seq(Word) /\ Len(CsrCounts(p)) = 4
  BY <1>2, Columns, SizesAssumption DEF CsrCounts, n, Word
<1>4. row_ptr(p) \in Seq(Word) /\ Len(row_ptr(p)) = num_constraints + 1
  <2>1. \A r \in 1..(num_constraints + 1) : row_ptr(p)[r] \in Nat
    BY RowPointers
  <2>2. row_ptr(p) = [r \in 1..(num_constraints + 1) |-> row_ptr(p)[r]]
    BY DEF row_ptr
  <2>3. row_ptr(p) \in [1..(num_constraints + 1) -> Word]
    BY <2>1, <2>2 DEF Word
  <2>4. num_constraints + 1 \in Nat
    BY SizesAssumption
  <2> QED BY <2>3, <2>4, Words
<1>5. CsrColumns(p) \in Seq(Word) /\ Len(CsrColumns(p)) = n
  <2>1. \A i \in 1..n : col_ind(p, CsrOrder(p)[i]) \in Word
    BY <1>2, Columns DEF Word
  <2>2. CsrColumns(p) \in [1..n -> Word]
    BY <1>2, <2>1 DEF CsrColumns
  <2> QED BY <1>2, <2>2, Words
<1>6. CsrValues(p) \in Seq(Word) /\ Len(CsrValues(p)) = n
  <2>1. \A i \in 1..n : p.A[CsrOrder(p)[i]] \in Word
    BY <1>2 DEF Word, Transmissible
  <2>2. CsrValues(p) \in [1..n -> Word]
    BY <1>2, <2>1 DEF CsrValues
  <2> QED BY <1>2, <2>2, Words
<1>7. CsrCounts(p) \o row_ptr(p) \in Seq(Word) /\ Len(CsrCounts(p) \o row_ptr(p)) = 5 + num_constraints
  <2> DEFINE x == CsrCounts(p)
             y == row_ptr(p)
  <2>1. x \in Seq(Word) /\ y \in Seq(Word) /\ Len(x) = 4 /\ Len(y) = num_constraints + 1
    BY <1>3, <1>4
  <2> HIDE DEF x, y
  <2>2. x \o y \in Seq(Word) /\ Len(x \o y) = Len(x) + Len(y)
    BY <2>1, ConcatWords
  <2>3. num_constraints \in Nat
    BY SizesAssumption
  <2>4. Len(x \o y) = 5 + num_constraints
    BY <2>1, <2>2, <2>3
  <2> QED BY <2>2, <2>4 DEF x, y
<1> DEFINE a == CsrCounts(p) \o row_ptr(p)
<1> HIDE DEF a
<1>8. a \o CsrColumns(p) \in Seq(Word) /\ Len(a \o CsrColumns(p)) = 5 + num_constraints + n
  BY <1>5, <1>7, ConcatWords DEF a
<1> DEFINE b == a \o CsrColumns(p)
<1> HIDE DEF b
<1>9. b \o CsrValues(p) \in Seq(Word) /\ Len(b \o CsrValues(p)) = 5 + num_constraints + n + n
  BY <1>6, <1>8, ConcatWords DEF b
<1>10. CsrWords(p) \in Seq(Word) /\ Len(CsrWords(p)) = 5 + num_constraints + 2 * n
  <2>1. CsrWords(p) = b \o CsrValues(p)
    BY <1>1 DEF a, b
  <2>2. 5 + num_constraints + n + n = 5 + num_constraints + 2 * n
    BY <1>2, SizesAssumption
  <2> QED BY <1>9, <2>1, <2>2
<1> QED BY <1>1, <1>2, <1>3, <1>4, <1>5, <1>6, <1>10 DEF n

LEMMA CsrRead ==
  ASSUME NEW p, Transmissible(p), NEW w, NEW at \in Int, Reads(w, at, CsrWords(p)),
         NEW names, \A i \in 1..Len(col_mapping(p)) : names[i] = col_mapping(p)[i]
  PROVE  /\ ReadCsr(w, at, names).A = p.A
         /\ ReadCsr(w, at, names).end = at + Len(CsrWords(p))
<1> DEFINE S == DOMAIN p.A
           s == CsrOrder(p)
           n == Len(CsrOrder(p))
           m == num_constraints
           a == CsrCounts(p) \o row_ptr(p)
           b == a \o CsrColumns(p)
<1>0. m \in Nat /\ n \in Nat
  BY CsrWritten, SizesAssumption
<1>1. /\ s \in [1..n -> S]
      /\ \A e \in S : \E i \in 1..n : s[i] = e
      /\ \A i, j \in 1..n : s[i] = s[j] => i = j
      /\ DOMAIN s = 1..n
  BY CsrSequence
<1>2. /\ \A e \in S : e[1] \in 1..m /\ e = <<e[1], e[2]>>
  BY DEF Transmissible, Rows
<1>3. /\ a \in Seq(Word) /\ Len(a) = 5 + m
      /\ b \in Seq(Word) /\ Len(b) = 5 + m + n
  <2>1. a \in Seq(Word) /\ Len(a) = 5 + m
    BY CsrWritten, ConcatWords, <1>0
  <2> HIDE DEF a
  <2>2. b \in Seq(Word) /\ Len(b) = 5 + m + n
    BY <2>1, CsrWritten, ConcatWords
  <2> QED BY <2>1, <2>2
<1>4. Reads(w, at, b) /\ Reads(w, at + Len(b), CsrValues(p))
  <2>1. Reads(w, at, b \o CsrValues(p))
    BY CsrWritten
  <2> HIDE DEF b
  <2> QED BY <1>3, <2>1, CsrWritten, ReadsConcat
<1>5. Reads(w, at, a) /\ Reads(w, at + Len(a), CsrColumns(p))
  <2> HIDE DEF a
  <2> QED BY <1>3, <1>4, CsrWritten, ReadsConcat
<1>6. Reads(w, at, CsrCounts(p)) /\ Reads(w, at + 4, row_ptr(p))
  BY <1>5, CsrWritten, ReadsConcat
<1> HIDE DEF a, b
<1>7. w[at + 2] = m /\ w[at + 4] = n
  BY <1>6 DEF Reads, CsrCounts
<1>8. \A r \in 1..(m + 1) : w[at + 4 + r] = row_ptr(p)[r]
  BY <1>6, CsrWritten DEF Reads
<1>9. \A i \in 1..n : w[at + 5 + m + i] = col_ind(p, s[i])
  <2>1. \A i \in 1..n : w[(at + (5 + m)) + i] = CsrColumns(p)[i]
    BY <1>3, <1>5, CsrWritten DEF Reads
  <2>2. \A i \in 1..n : (at + (5 + m)) + i = at + 5 + m + i
    BY <1>0
  <2>3. \A i \in 1..n : CsrColumns(p)[i] = col_ind(p, s[i])
    BY <1>1 DEF CsrColumns
  <2> HIDE DEF n, m
  <2> QED BY <2>1, <2>2, <2>3
<1>10. \A i \in 1..n : w[at + 5 + m + n + i] = p.A[s[i]]
  <2>1. \A i \in 1..n : w[(at + (5 + m + n)) + i] = CsrValues(p)[i]
    BY <1>3, <1>4, CsrWritten DEF Reads
  <2>2. \A i \in 1..n : (at + (5 + m + n)) + i = at + 5 + m + n + i
    BY <1>0
  <2>3. \A i \in 1..n : CsrValues(p)[i] = p.A[s[i]]
    BY <1>1 DEF CsrValues
  <2> HIDE DEF n, m
  <2> QED BY <2>1, <2>2, <2>3
<1> DEFINE ptr(r) == w[at + 4 + r]
           rowOf(i) == CHOOSE r \in 1..m : ptr(r) < i /\ i <= ptr(r + 1)
<1>11. \A i \in 1..n : \A r \in 1..(m + 1) : ptr(r) \in Nat /\ (s[i][1] < r <=> i <= ptr(r))
  BY <1>8, RowPointers
<1> HIDE DEF n, m, s, ptr
<1>12. ASSUME NEW i \in 1..n PROVE rowOf(i) = s[i][1]
  <2>1. s[i][1] \in 1..m
    BY <1>1, <1>2
  <2>2. ASSUME NEW r \in 1..m
        PROVE  (ptr(r) < i /\ i <= ptr(r + 1)) <=> r = s[i][1]
    <3>1. r \in 1..(m + 1) /\ r + 1 \in 1..(m + 1)
      BY <1>0
    <3>2. ptr(r) \in Nat /\ (s[i][1] < r <=> i <= ptr(r)) /\ (s[i][1] < r + 1 <=> i <= ptr(r + 1))
      BY <1>11, <3>1
    <3> QED BY <1>0, <2>1, <3>2
  <2> QED BY <2>1, <2>2
<1> HIDE DEF rowOf
<1>13. ASSUME NEW i \in 1..n PROVE names[w[at + 5 + m + i]] = s[i][2]
  <2>1. s[i] \in S
    BY <1>1
  <2>2. col_ind(p, s[i]) \in 1..Len(col_mapping(p)) /\ col_mapping(p)[col_ind(p, s[i])] = s[i][2]
    BY <2>1, Columns
  <2> QED BY <1>9, <2>2
<1>14. \A i \in 1..n : <<rowOf(i), names[w[at + 5 + m + i]]>> = s[i]
  BY <1>1, <1>2, <1>12, <1>13
<1> DEFINE place(i) == <<rowOf(i), names[w[at + 5 + m + i]]>>
           A == [q \in {place(i) : i \in 1..n} |->
                   w[at + 5 + m + n + CHOOSE i \in 1..n : q = place(i)]]
<1>15. ReadCsr(w, at, names).A = A /\ ReadCsr(w, at, names).end = at + 5 + m + 2 * n
  BY <1>7 DEF ReadCsr, place, rowOf, ptr
<1> HIDE DEF place
<1>16. \A i \in 1..n : place(i) = s[i]
  BY <1>14 DEF place
<1>17. {place(i) : i \in 1..n} = S
  BY <1>1, <1>16
<1>18. ASSUME NEW q \in S
       PROVE  w[at + 5 + m + n + CHOOSE i \in 1..n : q = place(i)] = p.A[q]
  <2> DEFINE i == CHOOSE i \in 1..n : q = place(i)
  <2>1. i \in 1..n /\ q = place(i)
    BY <1>17
  <2>2. s[i] = q
    BY <1>16, <2>1
  <2> QED BY <1>10, <2>1, <2>2
<1>19. A = p.A
  <2>1. p.A = [q \in S |-> p.A[q]]
    BY DEF Transmissible
  <2> HIDE DEF S
  <2> QED BY <1>17, <1>18, <2>1
<1>20. at + 5 + m + 2 * n = at + Len(CsrWords(p))
  <2>1. Len(CsrWords(p)) = 5 + m + 2 * n
    BY CsrWritten DEF m, n
  <2> DEFINE k == 2 * n
  <2>2. k \in Nat
    BY <1>0
  <2> HIDE DEF k
  <2>3. at + 5 + m + k = at + (5 + m + k)
    BY <1>0, <2>2
  <2> QED BY <2>1, <2>3 DEF k
<1> QED BY <1>15, <1>19, <1>20


-----------------------------------------------------------------------------
(* The objective over the PSD variables.                                   *)

PsdSupport(p) == (DOMAIN p.c) \intersect PsdVars
PsdPositions(p) == [i \in DOMAIN ByPosition(PsdSupport(p)) |->
                      Position[ByPosition(PsdSupport(p))[i]]]
PsdValues(p) == [i \in DOMAIN ByPosition(PsdSupport(p)) |->
                   p.c[ByPosition(PsdSupport(p))[i]]]

LEMMA ObjectiveWritten ==
  ASSUME NEW p, Transmissible(p)
  PROVE  /\ ObjectiveWords(p) = (<<1, Cardinality(PsdSupport(p))>> \o PsdPositions(p))
                                  \o PsdValues(p)
         /\ Cardinality(PsdSupport(p)) \in Nat
         /\ <<1, Cardinality(PsdSupport(p))>> \in Seq(Word)
         /\ Len(<<1, Cardinality(PsdSupport(p))>>) = 2
         /\ PsdPositions(p) \in Seq(Word) /\ Len(PsdPositions(p)) = Cardinality(PsdSupport(p))
         /\ PsdValues(p) \in Seq(Word) /\ Len(PsdValues(p)) = Cardinality(PsdSupport(p))
         /\ ObjectiveWords(p) \in Seq(Word)
         /\ Len(ObjectiveWords(p)) = 2 + 2 * Cardinality(PsdSupport(p))
<1> DEFINE V == PsdSupport(p)
           n == Cardinality(V)
           s == ByPosition(V)
           head == <<1, n>>
<1>1. V \subseteq Vars /\ V \subseteq DOMAIN p.c
  BY DEF PsdSupport, Transmissible
<1>2. n \in Nat /\ s \in [1..n -> V] /\ Len(s) = n
  BY <1>1, Positions
<1>3. ObjectiveWords(p) = (head \o PsdPositions(p)) \o PsdValues(p)
  BY <1>2 DEF ObjectiveWords, PsdPositions, PsdValues, PsdSupport
<1> HIDE DEF V, n, s
<1>4. head \in Seq(Word) /\ Len(head) = 2
  BY <1>2 DEF Word
<1>5. PsdPositions(p) \in Seq(Word) /\ Len(PsdPositions(p)) = n
  <2>1. \A i \in 1..n : Position[s[i]] \in Word
    BY <1>1, <1>2, PositionBounds DEF Word
  <2>2. PsdPositions(p) \in [1..n -> Word]
    BY <1>2, <2>1 DEF PsdPositions, s, V
  <2> QED BY <1>2, <2>2, Words
<1>6. PsdValues(p) \in Seq(Word) /\ Len(PsdValues(p)) = n
  <2>1. \A v \in DOMAIN p.c : p.c[v] \in Word
    BY DEF Word, Transmissible
  <2>2. \A i \in 1..n : p.c[s[i]] \in Word
    BY <1>1, <1>2, <2>1
  <2>3. PsdValues(p) \in [1..n -> Word]
    BY <1>2, <2>2 DEF PsdValues, s, V
  <2> QED BY <1>2, <2>3, Words
<1> HIDE DEF head
<1>7. head \o PsdPositions(p) \in Seq(Word) /\ Len(head \o PsdPositions(p)) = 2 + n
  BY <1>4, <1>5, ConcatWords
<1> DEFINE a == head \o PsdPositions(p)
<1> HIDE DEF a
<1>8. a \in Seq(Word) /\ Len(a) = 2 + n
  BY <1>7 DEF a
<1>9. a \o PsdValues(p) \in Seq(Word) /\ Len(a \o PsdValues(p)) = 2 + n + n
  BY <1>6, <1>8, ConcatWords
<1>10. ObjectiveWords(p) = a \o PsdValues(p)
  BY <1>3 DEF a
<1>11. 2 + n + n = 2 + 2 * n
  BY <1>2
<1> QED BY <1>2, <1>3, <1>4, <1>5, <1>6, <1>9, <1>10, <1>11 DEF n, V, head

LEMMA ObjectiveRead ==
  ASSUME NEW p, Transmissible(p), NEW w, NEW at \in Int, Reads(w, at, ObjectiveWords(p))
  PROVE  /\ ReadObjective(w, at).c = Restrict(p.c, PsdSupport(p))
         /\ ReadObjective(w, at).end = at + Len(ObjectiveWords(p))
<1> DEFINE V == PsdSupport(p)
           n == Cardinality(V)
           s == ByPosition(V)
           head == <<1, n>>
           a == head \o PsdPositions(p)
<1>1. V \subseteq Vars /\ V \subseteq DOMAIN p.c
  BY DEF PsdSupport, Transmissible
<1>2. /\ n \in Nat /\ s \in [1..n -> V] /\ DOMAIN s = 1..n
      /\ \A v \in V : \E i \in 1..n : s[i] = v
  BY <1>1, Positions
<1>3. /\ head \in Seq(Word) /\ Len(head) = 2
      /\ PsdPositions(p) \in Seq(Word) /\ Len(PsdPositions(p)) = n
      /\ PsdValues(p) \in Seq(Word) /\ Len(PsdValues(p)) = n
      /\ ObjectiveWords(p) = a \o PsdValues(p)
  BY ObjectiveWritten
<1> HIDE DEF head
<1>4. a \in Seq(Word) /\ Len(a) = 2 + n
  BY <1>3, ConcatWords
<1> HIDE DEF a
<1>5. Reads(w, at, a) /\ Reads(w, at + (2 + n), PsdValues(p))
  BY <1>3, <1>4, ReadsConcat
<1>6. Reads(w, at, head) /\ Reads(w, at + 2, PsdPositions(p))
  BY <1>3, <1>5, ReadsConcat DEF a
<1>7. w[at + 2] = n
  BY <1>3, <1>6 DEF Reads, head
<1>8. \A i \in 1..n : w[at + 2 + i] = Position[s[i]]
  <2>1. \A i \in 1..n : PsdPositions(p)[i] = Position[s[i]]
    BY <1>2 DEF PsdPositions
  <2> HIDE DEF n, s
  <2> QED BY <1>3, <1>6, <2>1 DEF Reads
<1>9. \A i \in 1..n : w[at + 2 + n + i] = p.c[s[i]]
  <2>1. \A i \in 1..n : PsdValues(p)[i] = p.c[s[i]]
    BY <1>2 DEF PsdValues
  <2> HIDE DEF n, s
  <2>2. \A i \in 1..n : (at + (2 + n)) + i = at + 2 + n + i
    BY <1>2
  <2> QED BY <1>3, <1>5, <2>1, <2>2 DEF Reads
<1> HIDE DEF n, s, V
<1> DEFINE pos(i) == VarAt(w[at + 2 + i])
           c == [v \in {pos(i) : i \in 1..n} |->
                   w[at + 2 + n + CHOOSE i \in 1..n : pos(i) = v]]
<1>10. ReadObjective(w, at).c = c /\ ReadObjective(w, at).end = at + 2 + 2 * n
  BY <1>7 DEF ReadObjective, pos
<1>11. \A i \in 1..n : pos(i) = s[i]
  BY <1>1, <1>2, <1>8, VarAtPosition
<1> HIDE DEF pos
<1>12. {pos(i) : i \in 1..n} = V
  BY <1>2, <1>11
<1>13. ASSUME NEW v \in V
       PROVE  w[at + 2 + n + CHOOSE i \in 1..n : pos(i) = v] = p.c[v]
  <2> DEFINE i == CHOOSE i \in 1..n : pos(i) = v
  <2>1. i \in 1..n /\ pos(i) = v
    BY <1>12
  <2>2. s[i] = v
    BY <1>11, <2>1
  <2> QED BY <1>9, <2>1, <2>2
<1>14. c = [v \in V |-> p.c[v]]
  BY <1>12, <1>13
<1>15. at + 2 + 2 * n = at + Len(ObjectiveWords(p))
  <2> DEFINE k == 2 * n
  <2>1. k \in Nat /\ Len(ObjectiveWords(p)) = 2 + k
    <3>1. k \in Nat
      BY <1>2
    <3>2. Len(ObjectiveWords(p)) = 2 + 2 * Cardinality(PsdSupport(p))
      BY ObjectiveWritten
    <3> QED BY <3>1, <3>2 DEF n, V
  <2> HIDE DEF k
  <2>2. at + 2 + k = at + (2 + k)
    BY <2>1
  <2> QED BY <2>1, <2>2 DEF k
<1> HIDE DEF c
<1> QED BY <1>10, <1>14, <1>15 DEF Restrict, V


-----------------------------------------------------------------------------
(* The low-rank columns.                                                   *)

LEMMA Excerpt ==
  ASSUME NEW n \in Nat, NEW s, s \in [1..n -> Word], NEW w, NEW a \in Int,
         \A i \in 1..n : w[a + i] = s[i]
  PROVE  SubSeq(w, a + 1, a + n) = s
<1> DEFINE x == a + 1
           y == a + n
<1>1. x \in Int /\ y \in Int /\ y - x + 1 = n /\ (x <= y <=> n > 0)
  OBVIOUS
<1>2. \A q \in x..y : w[q] \in Word
  <2> SUFFICES ASSUME NEW q \in x..y PROVE w[q] \in Word
    OBVIOUS
  <2>1. q - a \in 1..n /\ a + (q - a) = q
    OBVIOUS
  <2>2. w[a + (q - a)] = s[q - a]
    BY <2>1
  <2> QED BY <2>1, <2>2
<1>3. \A i \in 1..n : x + i - 1 = a + i
  OBVIOUS
<1> HIDE DEF x, y
<1>4. /\ SubSeq(w, x, y) \in Seq(Word)
      /\ Len(SubSeq(w, x, y)) = IF x <= y THEN y - x + 1 ELSE 0
      /\ \A i \in 1..(y - x + 1) : SubSeq(w, x, y)[i] = w[x + i - 1]
  BY <1>1, <1>2, SubSeqProperties
<1>5. Len(SubSeq(w, x, y)) = n
  BY <1>1, <1>4
<1>6. \A i \in 1..n : SubSeq(w, x, y)[i] = s[i]
  BY <1>1, <1>3, <1>4
<1>7. SubSeq(w, x, y) = s
  <2>1. s \in Seq(Word) /\ Len(s) = n
    BY Words
  <2> QED BY <1>4, <1>5, <1>6, <2>1, SeqEqual
<1> QED BY <1>7 DEF x, y

ColumnRows(p) == [j \in DOMAIN p.L |-> p.L[j].row]
ColumnCones(p) == [j \in DOMAIN p.L |-> p.L[j].cone]
ColumnWeights(p) == [j \in DOMAIN p.L |-> p.L[j].w]
ColumnNumbers(p) == [j \in DOMAIN p.L |-> Dense(p.L[j].u, SlotSeq(p.L[j].cone))]
ColumnSizes(p) == [j \in DOMAIN p.L |-> blk_dims[p.L[j].cone]]

LEMMA Slotted ==
  ASSUME NEW k \in Cones
  PROVE  /\ SlotSeq(k) \in [1..blk_dims[k] -> ConeSlots(k)]
         /\ DOMAIN SlotSeq(k) = 1..blk_dims[k]
         /\ \A i, j \in 1..blk_dims[k] : SlotSeq(k)[i] = SlotSeq(k)[j] => i = j
         /\ Range(SlotSeq(k)) = ConeSlots(k)
<1>1. SlotSeq(k) \in [1..blk_dims[k] -> ConeSlots(k)] /\ DOMAIN SlotSeq(k) = 1..blk_dims[k]
  BY DEF SlotSeq, ConeSlots
<1>2. \A i, j \in 1..blk_dims[k] : SlotSeq(k)[i] = SlotSeq(k)[j] => i = j
  BY DEF SlotSeq
<1>3. Range(SlotSeq(k)) = ConeSlots(k)
  BY <1>1 DEF Range, SlotSeq, ConeSlots
<1> QED BY <1>1, <1>2, <1>3

LEMMA ColumnsWritten ==
  ASSUME NEW p, Transmissible(p), p.L # <<>>
  PROVE  /\ LowRankWords(p) = ((((<<1, Len(p.L)>> \o ColumnRows(p)) \o ColumnCones(p))
                                  \o factor_ptr(p)) \o ColumnWeights(p))
                                  \o FlattenSeq(ColumnNumbers(p))
         /\ <<1, Len(p.L)>> \in Seq(Word) /\ Len(<<1, Len(p.L)>>) = 2
         /\ ColumnRows(p) \in Seq(Word) /\ Len(ColumnRows(p)) = Len(p.L)
         /\ ColumnCones(p) \in Seq(Word) /\ Len(ColumnCones(p)) = Len(p.L)
         /\ factor_ptr(p) \in Seq(Word) /\ Len(factor_ptr(p)) = Len(p.L) + 1
         /\ ColumnWeights(p) \in Seq(Word) /\ Len(ColumnWeights(p)) = Len(p.L)
         /\ FlattenSeq(ColumnNumbers(p)) \in Seq(Word)
         /\ DOMAIN p.L = 1..Len(p.L)
         /\ \A j \in 1..Len(p.L) :
              /\ ColumnNumbers(p)[j] \in [1..blk_dims[p.L[j].cone] -> Word]
              /\ factor_ptr(p)[j] \in Nat
              /\ factor_ptr(p)[j + 1] = factor_ptr(p)[j] + blk_dims[p.L[j].cone]
              /\ factor_ptr(p)[j + 1] <= Len(FlattenSeq(ColumnNumbers(p)))
              /\ \A i \in 1..blk_dims[p.L[j].cone] :
                   FlattenSeq(ColumnNumbers(p))[factor_ptr(p)[j] + i] = ColumnNumbers(p)[j][i]
<1> DEFINE n == Len(p.L)
           size == ColumnSizes(p)
           sum == RunningSum(size, n)
<1>1. n \in Nat /\ DOMAIN p.L = 1..n
  BY DEF Transmissible
<1>2. ASSUME NEW j \in 1..n
      PROVE  /\ p.L[j].row \in Int /\ p.L[j].cone \in Cones /\ p.L[j].w \in Int
             /\ p.L[j].u \in [DOMAIN p.L[j].u -> Int]
  <2>1. IsInputColumn(p.L[j])
    BY DEF Transmissible
  <2>2. Rows \union {objective} \subseteq Int
    BY SizesAssumption DEF Rows, objective
  <2> QED BY <2>1, <2>2 DEF IsInputColumn
<1>3. \A j \in 1..n : /\ blk_dims[p.L[j].cone] \in Nat
                      /\ size[j] = blk_dims[p.L[j].cone]
                      /\ p.L[j].cone \in Nat
  BY <1>1, <1>2, Dimensions DEF ColumnSizes
<1>4. ASSUME NEW j \in 1..n
      PROVE  /\ ColumnNumbers(p)[j] \in [1..blk_dims[p.L[j].cone] -> Word]
             /\ ColumnNumbers(p)[j] \in Seq(Word)
             /\ Len(ColumnNumbers(p)[j]) = blk_dims[p.L[j].cone]
  <2> DEFINE k == p.L[j].cone
             u == p.L[j].u
  <2>1. ColumnNumbers(p)[j] = Dense(u, SlotSeq(k))
    BY <1>1 DEF ColumnNumbers
  <2>2. k \in Cones /\ u \in [DOMAIN u -> Int] /\ blk_dims[k] \in Nat
    BY <1>2, <1>3
  <2> HIDE DEF k, u
  <2>3. DOMAIN SlotSeq(k) = 1..blk_dims[k]
    BY <2>2, Slotted
  <2>4. Dense(u, SlotSeq(k)) \in [1..blk_dims[k] -> Word]
    BY <2>2, <2>3, DenseWords
  <2>5. Dense(u, SlotSeq(k)) \in Seq(Word) /\ Len(Dense(u, SlotSeq(k))) = blk_dims[k]
    BY <2>2, <2>4, Words
  <2> QED BY <2>1, <2>4, <2>5 DEF k
<1>5. ColumnNumbers(p) \in [1..n -> Seq(Word)]
  <2>1. ColumnNumbers(p) = [j \in 1..n |-> ColumnNumbers(p)[j]]
    BY <1>1 DEF ColumnNumbers
  <2> QED BY <1>4, <2>1
<1> HIDE DEF size, n
<1>6. /\ FlattenSeq(ColumnNumbers(p)) \in Seq(Word)
      /\ Len(FlattenSeq(ColumnNumbers(p))) = sum[n]
      /\ \A j \in 1..n : \A i \in 1..Len(ColumnNumbers(p)[j]) :
           FlattenSeq(ColumnNumbers(p))[sum[j - 1] + i] = ColumnNumbers(p)[j][i]
  <2>1. \A j \in 1..n : size[j] = Len(ColumnNumbers(p)[j])
    BY <1>3, <1>4
  <2> DEFINE seqs == ColumnNumbers(p)
  <2>2. seqs \in [1..n -> Seq(Word)] /\ Lengths(seqs, n, size)
    BY <1>5, <2>1 DEF Lengths
  <2> HIDE DEF seqs
  <2>3. /\ FlattenSeq(seqs) \in Seq(Word)
        /\ Len(FlattenSeq(seqs)) = RunningSum(size, n)[n]
        /\ LaidOut(seqs, n, RunningSum(size, n), FlattenSeq(seqs))
    BY <1>1, <2>2, Flattened
  <2> QED BY <2>3 DEF seqs, LaidOut
<1>7. \A j \in 1..n : sum[j] = sum[j - 1] + size[j]
  <2>1. \A j \in 1..n : size[j] \in Int
    BY <1>3
  <2> QED BY <1>1, <2>1, RunningSumSteps
<1>8. sum \in [0..n -> Nat] /\ \A i, j \in 0..n : i <= j => sum[i] <= sum[j]
  <2>1. \A j \in 1..n : size[j] \in Nat
    BY <1>3
  <2> QED BY <1>1, <2>1, RunningSumMonotone
<1>9. factor_ptr(p) = [j \in 1..(n + 1) |-> sum[j - 1]]
  BY DEF factor_ptr, size, ColumnSizes, n
<1> HIDE DEF sum
<1>10. factor_ptr(p) \in Seq(Word) /\ Len(factor_ptr(p)) = n + 1
  <2>1. \A j \in 1..(n + 1) : sum[j - 1] \in Word
    BY <1>1, <1>8 DEF Word
  <2>2. factor_ptr(p) \in [1..(n + 1) -> Word]
    BY <1>9, <2>1
  <2>3. n + 1 \in Nat
    BY <1>1
  <2> QED BY <2>2, <2>3, Words
<1>11. ASSUME NEW j \in 1..n
       PROVE  /\ factor_ptr(p)[j] = sum[j - 1] /\ factor_ptr(p)[j] \in Nat
              /\ factor_ptr(p)[j + 1] = factor_ptr(p)[j] + blk_dims[p.L[j].cone]
              /\ factor_ptr(p)[j + 1] <= Len(FlattenSeq(ColumnNumbers(p)))
  <2>1. /\ j \in 1..(n + 1) /\ j + 1 \in 1..(n + 1) /\ (j + 1) - 1 = j /\ j - 1 \in 0..n
        /\ j \in 0..n /\ n \in 0..n /\ j <= n
    BY <1>1
  <2>2. factor_ptr(p)[j] = sum[j - 1] /\ factor_ptr(p)[j + 1] = sum[j]
    BY <1>9, <2>1
  <2>3. sum[j] <= sum[n]
    BY <1>8, <2>1
  <2> QED BY <1>3, <1>6, <1>7, <1>8, <2>1, <2>2, <2>3
<1>12. /\ ColumnRows(p) \in Seq(Word) /\ Len(ColumnRows(p)) = n
       /\ ColumnCones(p) \in Seq(Word) /\ Len(ColumnCones(p)) = n
       /\ ColumnWeights(p) \in Seq(Word) /\ Len(ColumnWeights(p)) = n
  <2>1. /\ ColumnRows(p) \in [1..n -> Word]
        /\ ColumnCones(p) \in [1..n -> Word]
        /\ ColumnWeights(p) \in [1..n -> Word]
    BY <1>1, <1>2, <1>3 DEF ColumnRows, ColumnCones, ColumnWeights, Word
  <2> QED BY <1>1, <2>1, Words
<1>13. <<1, n>> \in Seq(Word) /\ Len(<<1, n>>) = 2
  BY <1>1 DEF Word
<1>14. LowRankWords(p) = ((((<<1, n>> \o ColumnRows(p)) \o ColumnCones(p))
                             \o factor_ptr(p)) \o ColumnWeights(p))
                             \o FlattenSeq(ColumnNumbers(p))
  BY DEF LowRankWords, ColumnRows, ColumnCones, ColumnWeights, ColumnNumbers, n
<1>15. \A j \in 1..n : \A i \in 1..blk_dims[p.L[j].cone] :
         FlattenSeq(ColumnNumbers(p))[factor_ptr(p)[j] + i] = ColumnNumbers(p)[j][i]
  BY <1>4, <1>6, <1>11, SMTT(30)
<1> QED BY <1>1, <1>4, <1>6, <1>10, <1>11, <1>12, <1>13, <1>14, <1>15 DEF n


LEMMA LowRankWritten ==
  ASSUME NEW p, Transmissible(p)
  PROVE  LowRankWords(p) \in Seq(Word)
<1>1. CASE p.L = <<>>
  <2>1. <<0>> \in Seq(Word)
    BY DEF Word
  <2> QED BY <1>1, <2>1 DEF LowRankWords
<1>2. CASE p.L # <<>>
  <2> DEFINE a == <<1, Len(p.L)>> \o ColumnRows(p)
             b == a \o ColumnCones(p)
             c == b \o factor_ptr(p)
             d == c \o ColumnWeights(p)
  <2>1. a \in Seq(Word)
    BY <1>2, ColumnsWritten, ConcatWords
  <2> HIDE DEF a
  <2>2. b \in Seq(Word)
    BY <1>2, <2>1, ColumnsWritten, ConcatWords
  <2> HIDE DEF b
  <2>3. c \in Seq(Word)
    BY <1>2, <2>2, ColumnsWritten, ConcatWords
  <2> HIDE DEF c
  <2>4. d \in Seq(Word)
    BY <1>2, <2>3, ColumnsWritten, ConcatWords
  <2> HIDE DEF d
  <2>5. d \o FlattenSeq(ColumnNumbers(p)) \in Seq(Word)
    BY <1>2, <2>4, ColumnsWritten, ConcatWords
  <2>6. LowRankWords(p) = d \o FlattenSeq(ColumnNumbers(p))
    BY <1>2, ColumnsWritten DEF a, b, c, d
  <2> QED BY <2>5, <2>6
<1> QED BY <1>1, <1>2

LEMMA LowRankRead ==
  ASSUME NEW p, Transmissible(p), NEW w, NEW at \in Int, Reads(w, at, LowRankWords(p))
  PROVE  ReadLowRank(w, at) = p.L
<1>1. CASE p.L = <<>>
  <2>1. LowRankWords(p) = <<0>>
    BY <1>1 DEF LowRankWords
  <2>2. w[at + 1] = 0
    BY <2>1 DEF Reads
  <2> QED BY <1>1, <2>2 DEF ReadLowRank
<1>2. CASE p.L # <<>>
  <2> DEFINE n == Len(p.L)
             head == <<1, n>>
             rows == ColumnRows(p)
             cones == ColumnCones(p)
             ptrs == factor_ptr(p)
             ws == ColumnWeights(p)
             flat == FlattenSeq(ColumnNumbers(p))
             a == head \o rows
             b == a \o cones
             c == b \o ptrs
             d == c \o ws
  <2>1. /\ n \in Nat /\ DOMAIN p.L = 1..n
        /\ p.L \in [1..n -> {p.L[j] : j \in 1..n}]
    BY <1>2, ColumnsWritten DEF Transmissible
  <2>2. /\ head \in Seq(Word) /\ Len(head) = 2
        /\ rows \in Seq(Word) /\ Len(rows) = n
        /\ cones \in Seq(Word) /\ Len(cones) = n
        /\ ptrs \in Seq(Word) /\ Len(ptrs) = n + 1
        /\ ws \in Seq(Word) /\ Len(ws) = n
        /\ flat \in Seq(Word)
        /\ LowRankWords(p) = d \o flat
    BY <1>2, ColumnsWritten
  <2>3. \A j \in 1..n : rows[j] = p.L[j].row /\ cones[j] = p.L[j].cone /\ ws[j] = p.L[j].w
    BY <2>1 DEF ColumnRows, ColumnCones, ColumnWeights
  <2> HIDE DEF head, rows, cones, ptrs, ws, flat, n
  <2>4. a \in Seq(Word) /\ Len(a) = 2 + n
    <3>1. a \in Seq(Word) /\ Len(a) = Len(head) + Len(rows)
      BY <2>2, ConcatWords
    <3> QED BY <2>2, <3>1
  <2> HIDE DEF a
  <2>5. b \in Seq(Word) /\ Len(b) = 2 + n + n
    BY <2>2, <2>4, ConcatWords
  <2> HIDE DEF b
  <2>6. c \in Seq(Word) /\ Len(c) = 2 + n + n + (n + 1)
    <3>1. c \in Seq(Word) /\ Len(c) = Len(b) + Len(ptrs)
      BY <2>2, <2>5, ConcatWords
    <3> QED BY <2>1, <2>2, <2>5, <3>1
  <2> HIDE DEF c
  <2>7. d \in Seq(Word) /\ Len(d) = 2 + n + n + (n + 1) + n
    BY <2>2, <2>6, ConcatWords
  <2> HIDE DEF d
  <2>8. Reads(w, at, d) /\ Reads(w, at + (2 + n + n + (n + 1) + n), flat)
    BY <2>2, <2>7, ReadsConcat, ZenonT(40)
  <2>9. Reads(w, at, c) /\ Reads(w, at + (2 + n + n + (n + 1)), ws)
    BY <2>2, <2>6, <2>8, ReadsConcat DEF d
  <2>10. Reads(w, at, b) /\ Reads(w, at + (2 + n + n), ptrs)
    BY <2>2, <2>5, <2>9, ReadsConcat DEF c
  <2>11. Reads(w, at, a) /\ Reads(w, at + (2 + n), cones)
    BY <2>2, <2>4, <2>10, ReadsConcat DEF b
  <2>12. Reads(w, at, head) /\ Reads(w, at + 2, rows)
    BY <2>2, <2>11, ReadsConcat DEF a
  <2>13. w[at + 1] = 1 /\ w[at + 2] = n
    BY <2>2, <2>12 DEF Reads, head
  <2>14. \A j \in 1..n : w[at + 2 + j] = p.L[j].row
    BY <2>2, <2>3, <2>12 DEF Reads
  <2>15. \A j \in 1..n : w[at + 2 + n + j] = p.L[j].cone
    <3>1. \A j \in 1..n : (at + (2 + n)) + j = at + 2 + n + j
      BY <2>1
    <3> QED BY <2>2, <2>3, <2>11, <3>1 DEF Reads
  <2>16. \A j \in 1..(n + 1) : w[at + 2 + 2 * n + j] = ptrs[j]
    <3>1. \A j \in 1..(n + 1) : (at + (2 + n + n)) + j = at + 2 + 2 * n + j
      BY <2>1
    <3> QED BY <2>2, <2>10, <3>1 DEF Reads
  <2>17. \A j \in 1..n : w[at + 3 + 3 * n + j] = p.L[j].w
    <3>1. \A j \in 1..n : (at + (2 + n + n + (n + 1))) + j = at + 3 + 3 * n + j
      BY <2>1
    <3> QED BY <2>2, <2>3, <2>9, <3>1 DEF Reads
  <2> DEFINE values == at + 3 + 4 * n
  <2>18. values \in Int /\ \A i \in 1..Len(flat) : w[values + i] = flat[i]
    <3>1. at + (2 + n + n + (n + 1) + n) = values /\ values \in Int
      BY <2>1
    <3> HIDE DEF values
    <3> QED BY <2>8, <3>1 DEF Reads
  <2> HIDE DEF values
  <2>19. ASSUME NEW j \in 1..n
         PROVE  Sparse(SubSeq(w, values + ptrs[j] + 1, values + ptrs[j + 1]),
                       SlotSeq(p.L[j].cone)) = p.L[j].u
    <3> DEFINE k == p.L[j].cone
               l == blk_dims[k]
               u == p.L[j].u
               words == ColumnNumbers(p)[j]
    <3>1. /\ words \in [1..l -> Word]
          /\ ptrs[j] \in Nat /\ ptrs[j + 1] = ptrs[j] + l
          /\ \A i \in 1..l : flat[ptrs[j] + i] = words[i]
      BY <1>2, ColumnsWritten, ZenonT(40) DEF n, ptrs, flat
    <3>2. IsInputColumn(p.L[j])
      BY DEF Transmissible, n
    <3>3. /\ k \in Cones /\ u \in [DOMAIN u -> Int] /\ DOMAIN u \subseteq ConeSlots(k)
          /\ words = Dense(u, SlotSeq(k))
      BY <2>1, <3>2 DEF IsInputColumn, ColumnNumbers
    <3>4. l \in Nat
      BY <3>3, Dimensions
    <3>5. \A i \in 1..l : ptrs[j] + i \in 1..Len(flat)
      <4>1. ptrs[j + 1] <= Len(flat) /\ Len(flat) \in Nat
        BY <1>2, <2>2, ColumnsWritten, LenProperties DEF n, ptrs, flat
      <4> HIDE DEF l
      <4> QED BY <3>1, <3>4, <4>1
    <3> HIDE DEF k, l, u, words
    <3> DEFINE o == values + ptrs[j]
    <3>6. o \in Int /\ values + ptrs[j + 1] = o + l
      BY <2>18, <3>1, <3>4
    <3>7. \A i \in 1..l : w[o + i] = words[i]
      <4> SUFFICES ASSUME NEW i \in 1..l PROVE w[o + i] = words[i]
        OBVIOUS
      <4>1. w[values + (ptrs[j] + i)] = flat[ptrs[j] + i]
        BY <2>18, <3>5
      <4>2. values + (ptrs[j] + i) = o + i
        BY <2>18, <3>1
      <4> QED BY <3>1, <4>1, <4>2
    <3> HIDE DEF o
    <3>8. SubSeq(w, o + 1, o + l) = words
      BY <3>1, <3>4, <3>6, <3>7, Excerpt
    <3>9. DOMAIN SlotSeq(k) = 1..l /\ Range(SlotSeq(k)) = ConeSlots(k)
      BY <3>3, Slotted DEF l
    <3>10. \A i, i2 \in 1..l : SlotSeq(k)[i] = SlotSeq(k)[i2] => i = i2
      BY <3>3, Slotted DEF l
    <3> DEFINE names == SlotSeq(k)
    <3> HIDE DEF names
    <3>11. Sparse(words, names) = Restrict(u, (DOMAIN u) \intersect Range(names))
      <4>1. DOMAIN words = 1..l /\ DOMAIN names = 1..l
        BY <3>1, <3>9 DEF names
      <4>2. \A i \in 1..l : words[i] = Dense(u, names)[i]
        BY <3>3 DEF names
      <4>3. \A i, i2 \in 1..l : names[i] = names[i2] => i = i2
        BY <3>10 DEF names
      <4> QED BY <3>4, <4>1, <4>2, <4>3, SparseDense
    <3>12. (DOMAIN u) \intersect Range(names) = DOMAIN u
      BY <3>3, <3>9 DEF names
    <3>13. Restrict(u, DOMAIN u) = u
      BY <3>3 DEF Restrict
    <3> QED BY <3>6, <3>8, <3>11, <3>12, <3>13 DEF o, names, k, u
  <2> DEFINE ptr(j) == w[at + 2 + 2 * n + j]
             col(j) == [row |-> w[at + 2 + j],
                        cone |-> w[at + 2 + n + j],
                        w |-> w[at + 3 + 3 * n + j],
                        u |-> Sparse(SubSeq(w, values + ptr(j) + 1, values + ptr(j + 1)),
                                     SlotSeq(w[at + 2 + n + j]))]
  <2>20. ReadLowRank(w, at) = [j \in 1..n |-> col(j)]
    BY <2>13 DEF ReadLowRank, values
  <2>21. ASSUME NEW j \in 1..n PROVE col(j) = p.L[j]
    <3>1. ptr(j) = ptrs[j] /\ ptr(j + 1) = ptrs[j + 1]
      <4>1. j \in 1..(n + 1) /\ j + 1 \in 1..(n + 1)
        BY <2>1
      <4> QED BY <2>16, <4>1
    <3> HIDE DEF ptr
    <3>2. col(j) = [row |-> p.L[j].row, cone |-> p.L[j].cone, w |-> p.L[j].w, u |-> p.L[j].u]
      BY <2>14, <2>15, <2>17, <2>19, <3>1
    <3>3. IsInputColumn(p.L[j])
      BY DEF Transmissible, n
    <3> QED BY <3>2, <3>3 DEF IsInputColumn
  <2> HIDE DEF col
  <2> QED BY <2>1, <2>20, <2>21
<1> QED BY <1>1, <1>2


-----------------------------------------------------------------------------
(* The whole buffer.                                                       *)

LEMMA LinearKinds ==
  ASSUME NEW units \in {LpUnits, FreeUnits}
  PROVE  /\ LinearPart(units) \subseteq Vars
         /\ units = {} <=> Cardinality(LinearPart(units)) = 0
         /\ Cardinality(LinearPart(units)) \in Nat
<1>1. LinearPart(units) \subseteq Vars
  BY LinearParts
<1>2. IsFiniteSet(LinearPart(units)) /\ Cardinality(LinearPart(units)) \in Nat
  BY <1>1, VarsFinite
<1>3. units = {} <=> LinearPart(units) = {}
  BY DEF LinearPart
<1> QED BY <1>1, <1>2, <1>3, FS_EmptySet

Joined(lp, free, obj) ==
  [v \in DOMAIN lp \union DOMAIN free \union DOMAIN obj |->
     CASE v \in DOMAIN lp -> lp[v]
       [] v \in DOMAIN free -> free[v]
       [] OTHER -> obj[v]]

LEMMA ObjectiveJoined ==
  ASSUME NEW p, Transmissible(p), NEW lp, NEW free, NEW obj,
         lp = Restrict(p.c, (DOMAIN p.c) \intersect LinearPart(LpUnits)),
         free = Restrict(p.c, (DOMAIN p.c) \intersect LinearPart(FreeUnits)),
         obj = Restrict(p.c, PsdSupport(p))
  PROVE  Joined(lp, free, obj) = p.c
<1> USE DEF Joined
<1> DEFINE L == (DOMAIN p.c) \intersect LinearPart(LpUnits)
           F == (DOMAIN p.c) \intersect LinearPart(FreeUnits)
           P == PsdSupport(p)
<1>1. /\ DOMAIN lp = L /\ DOMAIN free = F /\ DOMAIN obj = P
      /\ \A v \in L : lp[v] = p.c[v]
      /\ \A v \in F : free[v] = p.c[v]
      /\ \A v \in P : obj[v] = p.c[v]
  BY DEF Restrict
<1>2. DOMAIN p.c = L \union F \union P
  BY LinearParts DEF Transmissible, Vars, PsdSupport
<1> HIDE DEF L, F, P
<1> DEFINE c(v) == CASE v \in DOMAIN lp -> lp[v]
                     [] v \in DOMAIN free -> free[v]
                     [] OTHER -> obj[v]
<1>3. ASSUME NEW v \in DOMAIN p.c PROVE c(v) = p.c[v]
  <2>1. CASE v \in L
    BY <1>1, <2>1
  <2>2. CASE v \notin L /\ v \in F
    BY <1>1, <2>2
  <2>3. CASE v \notin L /\ v \notin F
    BY <1>1, <1>2, <2>3
  <2> QED BY <2>1, <2>2, <2>3
<1>4. p.c = [v \in DOMAIN p.c |-> p.c[v]]
  BY DEF Transmissible
<1> HIDE DEF c
<1>5. [v \in DOMAIN lp \union DOMAIN free \union DOMAIN obj |-> c(v)] = p.c
  BY <1>1, <1>2, <1>3, <1>4
<1> QED BY <1>5 DEF c

Header(p) == <<num_constraints, Len(blk_dims), Len(col_mapping(p)), total_n_orig>>
ColumnPositions(p) == [i \in DOMAIN col_mapping(p) |-> Position[col_mapping(p)[i]]]
Rhs(p) == [r \in Rows |-> p.b[r]]
LpCounts(p) == <<lp_dim, Len(col_mapping(p)) - lp_dim - free_dim>>
FreeCounts(p) == <<free_dim, Len(col_mapping(p)) - free_dim>>

LEMMA PiecesAreWords ==
  ASSUME NEW p, Transmissible(p)
  PROVE  /\ Header(p) \in Seq(Word) /\ Len(Header(p)) = 4
         /\ ColumnPositions(p) \in Seq(Word) /\ Len(ColumnPositions(p)) = Len(col_mapping(p))
         /\ blk_dims \in Seq(Word)
         /\ blk_ptr \in Seq(Word) /\ Len(blk_ptr) = Len(blk_dims) + 1
         /\ Rhs(p) \in Seq(Word) /\ Len(Rhs(p)) = num_constraints
         /\ LpCounts(p) \in Seq(Word) /\ Len(LpCounts(p)) = 2
         /\ FreeCounts(p) \in Seq(Word) /\ Len(FreeCounts(p)) = 2
<1>1. /\ num_constraints \in Nat /\ lp_dim \in Nat /\ free_dim \in Nat
      /\ Len(blk_dims) \in Nat /\ total_n_orig \in Nat
  BY SizesAssumption, Dimensions, ConePointers
<1> DEFINE C == Len(col_mapping(p))
<1>2. /\ C \in Nat /\ col_mapping(p) \in [1..C -> ActiveVars(p)] /\ ActiveVars(p) \subseteq Vars
      /\ DOMAIN col_mapping(p) = 1..C
  BY Columns
<1>3. Header(p) \in Seq(Word) /\ Len(Header(p)) = 4
  BY <1>1, <1>2 DEF Header, Word
<1>4. /\ LpCounts(p) \in Seq(Word) /\ Len(LpCounts(p)) = 2
      /\ FreeCounts(p) \in Seq(Word) /\ Len(FreeCounts(p)) = 2
  BY <1>1, <1>2 DEF LpCounts, FreeCounts, Word
<1> HIDE DEF C
<1>5. ColumnPositions(p) \in Seq(Word) /\ Len(ColumnPositions(p)) = C
  <2>1. \A i \in 1..C : Position[col_mapping(p)[i]] \in Word
    BY <1>2, PositionBounds DEF Word
  <2>2. ColumnPositions(p) \in [1..C -> Word]
    BY <1>2, <2>1 DEF ColumnPositions
  <2> QED BY <1>2, <2>2, Words
<1>6. blk_dims \in Seq(Word)
  <2>1. blk_dims \in Seq(Nat \ {0}) /\ Nat \ {0} \subseteq Word
    BY SizesAssumption DEF Word
  <2> QED BY <2>1, SeqMonotonic
<1>7. blk_ptr \in Seq(Word) /\ Len(blk_ptr) = Len(blk_dims) + 1
  <2>1. blk_ptr \in [1..(Len(blk_dims) + 1) -> Word]
    BY ConePointers DEF Word
  <2>2. Len(blk_dims) + 1 \in Nat
    BY <1>1
  <2> QED BY <2>1, <2>2, Words
<1>8. Rhs(p) \in Seq(Word) /\ Len(Rhs(p)) = num_constraints
  <2>1. Rhs(p) \in [1..num_constraints -> Word]
    BY DEF Rhs, Transmissible, Word, Rows
  <2> QED BY <1>1, <2>1, Words
<1> QED BY <1>3, <1>4, <1>5, <1>6, <1>7, <1>8 DEF C

\* Every process that has the whole buffer has the root's problem.
LEMMA RoundTrip ==
  ASSUME NEW p, Transmissible(p)
  PROVE  /\ deserialize_compressed_sdp(serialize_compressed_sdp(p)) = p
         /\ serialize_compressed_sdp(p) \in Seq(Word)
         /\ Len(serialize_compressed_sdp(p)) >= 4
<1> DEFINE M == num_constraints
           N == Len(blk_dims)
           cols == col_mapping(p)
           C == Len(cols)
           p1 == Header(p)
           p2 == ColumnPositions(p)
           p5 == Rhs(p)
           p6 == LpCounts(p)
           p7 == LinearWords(p.c, LpUnits)
           p8 == FreeCounts(p)
           p9 == LinearWords(p.c, FreeUnits)
           p10 == CsrWords(p)
           p11 == ObjectiveWords(p)
           p12 == LowRankWords(p)
           s2 == p1 \o p2
           s3 == s2 \o blk_dims
           s4 == s3 \o blk_ptr
           s5 == s4 \o p5
           s6 == s5 \o p6
           s7 == s6 \o p7
           s8 == s7 \o p8
           s9 == s8 \o p9
           s10 == s9 \o p10
           s11 == s10 \o p11
           w == s11 \o p12
<1>1. serialize_compressed_sdp(p) = w
  BY DEF serialize_compressed_sdp, Header, ColumnPositions, Rhs, LpCounts, FreeCounts
<1>2. M \in Nat /\ N \in Nat /\ C \in Nat
  BY SizesAssumption, Dimensions, Columns
<1>3. /\ p1 \in Seq(Word) /\ Len(p1) = 4
      /\ p2 \in Seq(Word) /\ Len(p2) = C
      /\ blk_dims \in Seq(Word) /\ Len(blk_dims) = N
      /\ blk_ptr \in Seq(Word) /\ Len(blk_ptr) = N + 1
      /\ p5 \in Seq(Word) /\ Len(p5) = M
      /\ p6 \in Seq(Word) /\ Len(p6) = 2
      /\ p8 \in Seq(Word) /\ Len(p8) = 2
  BY PiecesAreWords
<1>4. p7 \in Seq(Word) /\ p9 \in Seq(Word)
  <2>1. p.c \in [DOMAIN p.c -> Int]
    BY DEF Transmissible
  <2> QED BY <2>1, LinearKinds, LinearWritten
<1>5. p10 \in Seq(Word) /\ p11 \in Seq(Word) /\ p12 \in Seq(Word)
  BY CsrWritten, ObjectiveWritten, LowRankWritten
<1> HIDE DEF p1, p2, p5, p6, p7, p8, p9, p10, p11, p12, N, C
<1>6. s2 \in Seq(Word) /\ Len(s2) = 4 + C
  <2>1. s2 \in Seq(Word) /\ Len(s2) = Len(p1) + Len(p2)
    BY <1>3, ConcatWords
  <2> QED BY <1>3, <2>1
<1> HIDE DEF s2
<1>7. s3 \in Seq(Word) /\ Len(s3) = 4 + C + N
  <2>1. s3 \in Seq(Word) /\ Len(s3) = Len(s2) + Len(blk_dims)
    BY <1>3, <1>6, ConcatWords
  <2> QED BY <1>3, <1>6, <2>1
<1> HIDE DEF s3
<1>8. s4 \in Seq(Word) /\ Len(s4) = 4 + C + N + N + 1
  <2>1. s4 \in Seq(Word) /\ Len(s4) = Len(s3) + Len(blk_ptr)
    BY <1>3, <1>7, ConcatWords
  <2>2. 4 + C + N + (N + 1) = 4 + C + N + N + 1
    BY <1>2
  <2> QED BY <1>3, <1>7, <2>1, <2>2
<1> DEFINE rhs == 4 + C + N + N + 1
<1>9. rhs \in Nat
  BY <1>2
<1> HIDE DEF s4, rhs
<1>10. s5 \in Seq(Word) /\ Len(s5) = rhs + M
  <2>1. s5 \in Seq(Word) /\ Len(s5) = Len(s4) + Len(p5)
    BY <1>3, <1>8, ConcatWords
  <2> QED BY <1>3, <1>8, <2>1 DEF rhs
<1> HIDE DEF s5
<1>11. s6 \in Seq(Word) /\ Len(s6) = rhs + M + 2
  <2>1. s6 \in Seq(Word) /\ Len(s6) = Len(s5) + Len(p6)
    BY <1>3, <1>10, ConcatWords
  <2> QED BY <1>3, <1>10, <2>1
<1> HIDE DEF s6
<1>12. s7 \in Seq(Word) /\ Len(s7) = (rhs + M + 2) + Len(p7) /\ Len(s7) \in Nat
  <2>1. s7 \in Seq(Word) /\ Len(s7) = Len(s6) + Len(p7)
    BY <1>4, <1>11, ConcatWords
  <2> QED BY <1>11, <2>1, LenProperties
<1> HIDE DEF s7
<1>13. s8 \in Seq(Word) /\ Len(s8) = Len(s7) + 2
  <2>1. s8 \in Seq(Word) /\ Len(s8) = Len(s7) + Len(p8)
    BY <1>3, <1>12, ConcatWords
  <2> QED BY <1>3, <2>1
<1> HIDE DEF s8
<1>14. s9 \in Seq(Word) /\ Len(s9) = Len(s8) + Len(p9) /\ Len(s9) \in Nat
  BY <1>4, <1>13, ConcatWords, LenProperties
<1> HIDE DEF s9
<1>15. s10 \in Seq(Word) /\ Len(s10) = Len(s9) + Len(p10) /\ Len(s10) \in Nat
  BY <1>5, <1>14, ConcatWords, LenProperties
<1> HIDE DEF s10
<1>16. s11 \in Seq(Word) /\ Len(s11) = Len(s10) + Len(p11) /\ Len(s11) \in Nat
  BY <1>5, <1>15, ConcatWords, LenProperties
<1> HIDE DEF s11
<1>17. w \in Seq(Word) /\ Len(w) = Len(s11) + Len(p12) /\ Len(p12) \in Nat
  BY <1>5, <1>16, ConcatWords, LenProperties
<1>18. Reads(w, 0, w)
  <2> HIDE DEF w
  <2>1. \A i \in 1..Len(w) : 0 + i = i
    BY <1>17
  <2> QED BY <2>1 DEF Reads
<1>19. Reads(w, 0, s11) /\ Reads(w, Len(s11), p12)
  <2> DEFINE v == w
  <2>1. Reads(v, 0, s11 \o p12)
    BY <1>18
  <2> HIDE DEF v
  <2>2. Reads(v, 0, s11) /\ Reads(v, Len(s11), p12)
    BY <1>5, <1>16, <2>1, ReadsPrefix
  <2> QED BY <2>2 DEF v
<1>20. Len(w) >= 4
  <2>1. Len(s7) >= 4
    BY <1>2, <1>4, <1>9, <1>11, <1>12, LenProperties DEF rhs
  <2>2. Len(s11) >= Len(s7)
    <3>1. Len(p9) \in Nat /\ Len(p10) \in Nat /\ Len(p11) \in Nat
      BY <1>4, <1>5, LenProperties
    <3> HIDE DEF w
    <3> QED BY <1>12, <1>13, <1>14, <1>15, <1>16, <3>1, SMTT(30)
  <2> HIDE DEF w
  <2> QED BY <1>12, <1>16, <1>17, <2>1, <2>2
<1> HIDE DEF w
<1>21. Reads(w, 0, s10) /\ Reads(w, Len(s10), p11)
  BY <1>5, <1>15, <1>19, ReadsPrefix DEF s11
<1>22. Reads(w, 0, s9) /\ Reads(w, Len(s9), p10)
  BY <1>5, <1>14, <1>21, ReadsPrefix DEF s10
<1>23. Reads(w, 0, s8) /\ Reads(w, Len(s8), p9)
  BY <1>4, <1>12, <1>13, <1>22, ReadsPrefix DEF s9
<1>24. Reads(w, 0, s7) /\ Reads(w, Len(s7), p8)
  BY <1>3, <1>12, <1>23, ReadsPrefix DEF s8
<1>25. Reads(w, 0, s6) /\ Reads(w, rhs + M + 2, p7)
  <2>1. rhs + M + 2 \in Nat
    BY <1>2, <1>9
  <2> QED BY <1>4, <1>11, <1>24, <2>1, ReadsPrefix DEF s7
<1>26. Reads(w, 0, s5) /\ Reads(w, rhs + M, p6)
  <2>1. rhs + M \in Nat
    BY <1>2, <1>9
  <2> QED BY <1>3, <1>10, <1>25, <2>1, ReadsPrefix DEF s6
<1>27. Reads(w, 0, s4) /\ Reads(w, rhs, p5)
  BY <1>3, <1>8, <1>9, <1>26, ReadsPrefix DEF s5, rhs
<1>28. Reads(w, 0, s2)
  <2>1. Reads(w, 0, s3)
    BY <1>3, <1>7, <1>27, ReadsPrefix DEF s4
  <2> QED BY <1>3, <1>6, <2>1, ReadsPrefix DEF s3
<1>29. Reads(w, 0, p1) /\ Reads(w, 4, p2)
  BY <1>3, <1>28, ReadsPrefix DEF s2
<1>30. w[1] = M /\ w[2] = N /\ w[3] = C
  <2>1. \A i \in 1..4 : w[0 + i] = p1[i]
    BY <1>3, <1>29 DEF Reads
  <2>2. \A i \in 1..4 : w[i] = p1[i]
    BY <2>1
  <2>3. p1[1] = M /\ p1[2] = N /\ p1[3] = C
    BY DEF p1, Header, N, C
  <2> QED BY <2>2, <2>3
<1>31. \A i \in 1..C : w[4 + i] = Position[cols[i]]
  <2>1. DOMAIN cols = 1..C
    BY Columns DEF C
  <2>2. \A i \in 1..C : p2[i] = Position[cols[i]]
    BY <2>1 DEF p2, ColumnPositions
  <2> QED BY <1>3, <1>29, <2>2 DEF Reads
<1> DEFINE lp == ReadLinear(w, rhs + M + 2, LpUnits)
           free == ReadLinear(w, lp.end + 2, FreeUnits)
           names == [i \in 1..C |-> VarAt(w[4 + i])]
           csr == ReadCsr(w, free.end, names)
           obj == ReadObjective(w, csr.end)
<1>32. /\ lp.f = Restrict(p.c, (DOMAIN p.c) \intersect LinearPart(LpUnits))
       /\ lp.end = Len(s7)
  <2> DEFINE at == rhs + M + 2
  <2>1. at \in Int /\ at - 1 = (rhs + M) + 1
    BY <1>2, <1>9
  <2>2. w[(rhs + M) + 1] = lp_dim
    BY <1>3, <1>26 DEF Reads, p6, LpCounts
  <2> HIDE DEF at
  <2>3. Reads(w, at, LinearWords(p.c, LpUnits)) /\ Len(LinearWords(p.c, LpUnits)) = Len(p7)
    BY <1>25 DEF at, p7
  <2>4. w[at - 1] = Cardinality(LinearPart(LpUnits))
    BY <2>1, <2>2, LinearParts
  <2>5. p.c \in [DOMAIN p.c -> Int]
    BY DEF Transmissible
  <2>6. /\ ReadLinear(w, at, LpUnits).f = Restrict(p.c, (DOMAIN p.c) \intersect LinearPart(LpUnits))
        /\ ReadLinear(w, at, LpUnits).end = at + Len(LinearWords(p.c, LpUnits))
    BY <2>1, <2>3, <2>4, <2>5, LinearKinds, LinearRead, ZenonT(40)
  <2> QED BY <1>12, <2>3, <2>6 DEF at
<1> HIDE DEF lp
<1>33. /\ free.f = Restrict(p.c, (DOMAIN p.c) \intersect LinearPart(FreeUnits))
       /\ free.end = Len(s9)
  <2> DEFINE at == lp.end + 2
  <2>1. at \in Int /\ at - 1 = Len(s7) + 1 /\ at = Len(s8)
    BY <1>12, <1>13, <1>32
  <2>2. w[Len(s7) + 1] = free_dim
    BY <1>3, <1>24 DEF Reads, p8, FreeCounts
  <2> HIDE DEF at
  <2>3. Reads(w, at, LinearWords(p.c, FreeUnits)) /\ Len(LinearWords(p.c, FreeUnits)) = Len(p9)
    BY <1>23, <2>1 DEF p9
  <2>4. w[at - 1] = Cardinality(LinearPart(FreeUnits))
    BY <2>1, <2>2, LinearParts
  <2>5. p.c \in [DOMAIN p.c -> Int]
    BY DEF Transmissible
  <2>6. /\ ReadLinear(w, at, FreeUnits).f
             = Restrict(p.c, (DOMAIN p.c) \intersect LinearPart(FreeUnits))
        /\ ReadLinear(w, at, FreeUnits).end = at + Len(LinearWords(p.c, FreeUnits))
    BY <2>1, <2>3, <2>4, <2>5, LinearKinds, LinearRead
  <2> QED BY <1>14, <2>1, <2>3, <2>6 DEF at
<1> HIDE DEF free
<1>34. csr.A = p.A /\ csr.end = Len(s10)
  <2>1. \A i \in 1..Len(col_mapping(p)) : names[i] = col_mapping(p)[i]
    <3>1. \A i \in 1..C : cols[i] \in Vars
      BY Columns DEF C
    <3> QED BY <1>31, <3>1, VarAtPosition DEF C
  <2> HIDE DEF names
  <2>2. Reads(w, free.end, CsrWords(p)) /\ free.end \in Int
    BY <1>14, <1>22, <1>33 DEF p10
  <2>3. csr.A = p.A /\ csr.end = free.end + Len(CsrWords(p))
    BY <2>1, <2>2, CsrRead
  <2> QED BY <1>15, <1>33, <2>3 DEF p10
<1> HIDE DEF csr
<1>35. obj.c = Restrict(p.c, PsdSupport(p)) /\ obj.end = Len(s11)
  <2>1. Reads(w, csr.end, ObjectiveWords(p)) /\ csr.end \in Int
    BY <1>15, <1>21, <1>34 DEF p11
  <2>2. obj.c = Restrict(p.c, PsdSupport(p)) /\ obj.end = csr.end + Len(ObjectiveWords(p))
    BY <2>1, ObjectiveRead
  <2> QED BY <1>16, <1>34, <2>2 DEF p11
<1> HIDE DEF obj
<1>36. ReadLowRank(w, obj.end) = p.L
  <2>1. Reads(w, obj.end, LowRankWords(p)) /\ obj.end \in Int
    BY <1>16, <1>19, <1>35 DEF p12
  <2> QED BY <2>1, LowRankRead
<1>37. SubSeq(w, rhs + 1, rhs + M) = p.b
  <2>1. p5 = p.b /\ p5 \in [1..M -> Word]
    BY DEF p5, Rhs, Transmissible, Rows, Word
  <2>2. \A i \in 1..M : w[rhs + i] = p5[i]
    BY <1>3, <1>27 DEF Reads
  <2> QED BY <1>2, <1>9, <2>1, <2>2, Excerpt
<1> DEFINE c == Joined(lp.f, free.f, obj.c)
<1>38. c = p.c
  BY <1>32, <1>33, <1>35, ObjectiveJoined
<1> HIDE DEF c
<1>39. deserialize_compressed_sdp(w) = [A |-> csr.A, b |-> SubSeq(w, rhs + 1, rhs + M),
                                        c |-> c, L |-> ReadLowRank(w, obj.end)]
  BY <1>30 DEF deserialize_compressed_sdp, rhs, lp, free, names, csr, obj, c, Joined
<1>40. deserialize_compressed_sdp(w) = p
  BY <1>34, <1>36, <1>37, <1>38, <1>39 DEF Transmissible
<1> QED BY <1>1, <1>17, <1>20, <1>40

\* A process that reads the buffer of any problem a reader may produce gets
\* that problem back: at every part the cursor of deserialize_compressed_sdp
\* stands where serialize_compressed_sdp began it, whatever parts are missing
\* or empty, and each number is given the name it was written for.
THEOREM CopyIsFaithful ==
  \A input : IsInput(input) =>
    LET p == convert_to_compressed(input)
    IN  deserialize_compressed_sdp(serialize_compressed_sdp(p)) = p
BY Compressed, RoundTrip
=============================================================================
