------------------------------ MODULE Partition ------------------------------
(***************************************************************************)
(* How a problem is divided over the process grid (the compute_ and        *)
(* partition_ functions of src/distribution_utils.cu): rows of the         *)
(* constraints along one axis, whole cones along another.  Every process   *)
(* computes its own part from the whole problem, without communication.    *)
(***************************************************************************)
EXTENDS Compress

CONSTANTS small_dim,   \* CARDAL_SMALL_CONE_DIM_THRESHOLD
          min_batch    \* CARDAL_MIN_BATCH_SIZE

ASSUME PartitionAssumption == small_dim \in Nat /\ min_batch \in Nat \ {0}

-----------------------------------------------------------------------------
(* Rows: ranges of about equal numbers of entries.                         *)

RowCost(p, r) ==
  Cardinality({e \in DOMAIN p.A : e[1] = r})
    + SumOver([j \in ColumnsOf(p, r) |-> blk_dims[p.L[j].cone]], ColumnsOf(p, r))
Prefix(p) == RunningSum([r \in Rows |-> RowCost(p, r)], num_constraints)

\* The binary searches: the first index from lo on that reaches the target.
FirstReaching(prefix, lo, target) ==
  LET m == num_constraints
  IN  CHOOSE i \in lo..m : /\ i = m \/ prefix[i] >= target
                           /\ \A j \in lo..(i - 1) : prefix[j] < target

Share(n, P, i) == (n \div P) + IF i < n % P THEN 1 ELSE 0
ShareStart(n, P, i) == i * (n \div P) + IF i < n % P THEN i ELSE n % P

\* The rows start + 1 .. end of the i-th of P processes, from 0.
TruncatedRange(prefix, P, i) ==                                   \* mutant
  LET total == prefix[num_constraints]
      start == FirstReaching(prefix, 0, (total \div P) * i)
  IN  [start |-> start,
       end |-> FirstReaching(prefix, start, (total \div P) * (i + 1))]
RowRange(prefix, P, i) ==
  LET total == prefix[num_constraints]
      start == FirstReaching(prefix, 0, (total * i) \div P)
  IN  IF P <= 1 THEN [start |-> 0, end |-> num_constraints]
      ELSE IF total = 0
      THEN [start |-> ShareStart(num_constraints, P, i),
            end |-> ShareStart(num_constraints, P, i) + Share(num_constraints, P, i)]
      ELSE [start |-> start,
            end |-> IF i = P - 1 THEN num_constraints
                    ELSE FirstReaching(prefix, start, (total * (i + 1)) \div P)]

-----------------------------------------------------------------------------
(* Cones: longest processing time first.                                   *)

\* compute_theoretical_max_rank: the least r >= 1 with r(r+1)/2 >= m.
MaxRank(m) == Min({r \in 1..(m + 1) : r * (r + 1) >= 2 * m})

RowsInCone(p, k) == {r \in Rows : \E e \in DOMAIN p.A :
                                    e[1] = r /\ e[2] \in ConeSlots(k) \X ConeSlots(k)}
LowRankRows(p, k) == {p.L[j].row : j \in {j \in DOMAIN p.L : p.L[j].cone = k}}
                       \ {objective}
ConeCost(p, k) ==
  LET m == Cardinality(RowsInCone(p, k)) + Cardinality(LowRankRows(p, k))
  IN  blk_dims[k] * blk_dims[k] * Min({blk_dims[k], MaxRank(m)})

Item(kind, blks, cost) == [kind |-> kind, blks |-> blks, cost |-> cost]

\* A run of consecutive small cones of one dimension, cut into chunks of
\* consecutive cones; a run is listed where it starts.
RunFrom(k) ==
  {j \in Cones : j >= k /\ \A i \in k..j : blk_dims[i] = blk_dims[k]}
NumChunks(N, P) == Min({P, N, Max({1, N \div min_batch})})
Chunk(k, K, i) ==
  LET N == Cardinality(RunFrom(k))
  IN  {j \in RunFrom(k) : j - k \in ShareStart(N, K, i)..(ShareStart(N, K, i)
                                                         + Share(N, K, i) - 1)}
ItemsAt(p, k, P) ==
  IF blk_dims[k] > small_dim THEN <<Item("cone", {k}, ConeCost(p, k))>>
  ELSE IF k > 1 /\ blk_dims[k - 1] = blk_dims[k] THEN <<>>
  ELSE LET K == NumChunks(Cardinality(RunFrom(k)), P)
       IN  [i \in 1..K |->
              Item("batch", Chunk(k, K, i - 1),
                   SumOver([j \in Cones |-> ConeCost(p, j)], Chunk(k, K, i - 1)))]
Items(p, P) ==
  FlattenSeq([k \in Cones |-> ItemsAt(p, k, P)])
    \o (IF lp_dim > 0 THEN <<Item("lp", {}, lp_dim)>> ELSE <<>>)
    \o (IF free_dim > 0 THEN <<Item("free", {}, free_dim)>> ELSE <<>>)

\* Items by falling cost (equal ones as they come, as a stable qsort leaves
\* them), the batches after all others.
Order(items, batches) ==
  LET mine == {i \in DOMAIN items : (items[i].kind = "batch") = batches}
  IN  Sorted(mine, {q \in mine \X mine :
                      \/ items[q[1]].cost > items[q[2]].cost
                      \/ items[q[1]].cost = items[q[2]].cost /\ q[1] < q[2]})

\* Each goes to the first of the least loaded; among batches the load of the
\* batches counts before the whole load.
LeastLoaded(loads, batch) ==
  LET before(q, r) == \/ batch /\ loads.batch[q] < loads.batch[r]
                      \/ /\ batch => loads.batch[q] = loads.batch[r]
                         /\ loads.all[q] < loads.all[r]
  IN  Min({q \in DOMAIN loads.all : \A r \in DOMAIN loads.all : ~before(r, q)})
Place(items, loads, i) ==
  LET batch == items[i].kind = "batch"
      q == LeastLoaded(loads, batch)
  IN  [all |-> [loads.all EXCEPT ![q] = @ + items[i].cost],
       batch |-> IF batch THEN [loads.batch EXCEPT ![q] = @ + items[i].cost]
                 ELSE loads.batch,
       owner |-> [loads.owner EXCEPT ![i] = q]]
Placed(p, P) ==
  LET items == Items(p, P)
      none == [q \in 0..(P - 1) |-> 0]
      start == [all |-> none, batch |-> none, owner |-> [i \in DOMAIN items |-> 0]]
  IN  FoldLeft(LAMBDA l, i : Place(items, l, i), start,
               Order(items, FALSE) \o Order(items, TRUE)).owner

compute_cone_assignment(p, P) ==
  LET items == Items(p, P)
      owner == Placed(p, P)
      of(kind) == {owner[i] : i \in {i \in DOMAIN items : items[i].kind = kind}}
      sole(S) == IF S = {} THEN 0 ELSE CHOOSE q \in S : TRUE
  IN  IF P <= 1 THEN [blk |-> [k \in Cones |-> 0], lp |-> 0, free |-> 0]
      ELSE [blk |-> [k \in Cones |->
                       owner[CHOOSE i \in DOMAIN items : k \in items[i].blks]],
            lp |-> sole(of("lp")),
            free |-> sole(of("free"))]

-----------------------------------------------------------------------------
(* The part of one process.  grid.coords and grid.dims are <<row, rank,    *)
(* cone>>; rows, columns and cones of the part are numbered from 1.        *)

\* What the process owns: its rows, its cones in their order, its units.
Part(p, dims, coords) ==
  LET assigned == compute_cone_assignment(p, dims[3])
      range == RowRange(Prefix(p), dims[1], coords[1])
      mine == {k \in Cones : assigned.blk[k] = coords[3]}
  IN  [start |-> range.start,
       m |-> range.end - range.start,
       cones |-> Sorted(mine, Increasing(mine)),
       units |-> (IF assigned.lp = coords[3] THEN LpUnits ELSE {})
                   \union (IF assigned.free = coords[3] THEN FreeUnits ELSE {})]

Owned(part, v) ==
  IF v \in LinearVars THEN v[1] \in part.units ELSE v[1][1] \in ToSet(part.cones)
RowsOf(part) == (part.start + 1)..(part.start + part.m)

\* Columns no row of the part and no objective entry uses are dropped, but
\* never a linear one; without any column a cone keeps its first position.
OnlyUsed(p, part, v) ==                                           \* mutant
  /\ Owned(part, v)
  /\ \E e \in DOMAIN p.A : e[1] \in RowsOf(part) /\ e[2] = v
Kept(p, part, v) ==
  /\ Owned(part, v)
  /\ \/ v \in LinearVars
     \/ v \in DOMAIN p.c
     \/ \E e \in DOMAIN p.A : e[1] \in RowsOf(part) /\ e[2] = v
LocalColumns(p, part) ==
  LET kept == ByPosition({v \in ActiveVars(p) : Kept(p, part, v)})
  IN  IF kept = <<>> /\ part.cones # <<>>
      THEN <<<<<<part.cones[1], 1>>, <<part.cones[1], 1>>>>>>
      ELSE kept

KeptColumn(part, my_row, col) ==
  /\ col.cone \in ToSet(part.cones)
  /\ IF col.row = objective THEN my_row = 0 ELSE col.row \in RowsOf(part)
LocalColumn(part, col) ==
  [col EXCEPT !.row = IF @ = objective THEN @ ELSE @ - part.start,
              !.cone = CHOOSE l \in DOMAIN part.cones : part.cones[l] = @]

partition_problem(p, part, coords) ==
  LET cols == LocalColumns(p, part)
      col_used == {e \in DOMAIN p.A : e[1] \in RowsOf(part) /\ e[2] \in ToSet(cols)}
      global(q) == <<q[1] + part.start, cols[q[2]]>>
  IN  [m |-> part.m,
       cones |-> part.cones,
       units |-> part.units,
       cols |-> cols,
       free_start |-> Len(cols) - Cardinality(part.units \intersect FreeUnits),
       lp_start |-> Len(cols) - Cardinality(part.units),
       A |-> [q \in {q \in (1..part.m) \X DOMAIN cols : global(q) \in col_used}
                |-> p.A[global(q)]],
       b |-> [r \in 1..part.m |-> p.b[r + part.start]],
       c |-> [v \in {v \in DOMAIN p.c : Owned(part, v)} |-> p.c[v]],
       L |-> LET mine == {j \in DOMAIN p.L : KeptColumn(part, coords[1], p.L[j])}
                 kept == Sorted(mine, Increasing(mine))
             IN  [j \in DOMAIN kept |-> LocalColumn(part, p.L[kept[j]])]]

\* Where the rows of the l-th cone of the part begin among those of its cones.
FirstSlot(part, l) ==
  RunningSum([h \in DOMAIN part.cones |-> blk_dims[part.cones[h]]], Len(part.cones))[l - 1]

\* Factors of the rows, one after the other those of the cones, of the units.
partition_rescale_info(info, part) ==
  [row |-> [r \in 1..part.m |-> info.row[r + part.start]],
   psd |-> FlattenSeq([l \in DOMAIN part.cones |->
             [i \in 1..blk_dims[part.cones[l]] |-> info.unit[<<part.cones[l], i>>]]]),
   unit |-> [u \in part.units |-> info.unit[u]],
   tau_b |-> info.tau_b,
   tau_c |-> info.tau_c]
=============================================================================
