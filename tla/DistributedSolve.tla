-------------------------- MODULE DistributedSolve --------------------------
(***************************************************************************)
(* distributed_optimize (src/distribution_solver.cu, with the grid, the    *)
(* permutation and the gathering of src/distribution_utils.cu): the        *)
(* processes of a grid get the caller's problem from process 0, each takes *)
(* its part, they solve together, and the parts of the solution are        *)
(* brought together.                                                       *)
(*                                                                         *)
(* A process runs on its own between collective calls; a collective call   *)
(* is one step of all the members of its communicator.  The solver itself  *)
(* (AlmOuterLoop) is one such step of all processes, with any outcome of   *)
(* its shape: the iterates of the same rows, or of the same cones and      *)
(* rank share, are the same on all processes that hold them.               *)
(***************************************************************************)
EXTENDS Partition, Broadcast, Grid

CONSTANTS
  Calls,          \* what the callers may ask: input, grid, shuffle, scaling
  block_size,     \* rows per block of the block shuffle
  CHUNK_SIZE,     \* words per broadcast
  initial_rank,   \* of a factor, before its columns are shared out
  max_rank,       \* the user's cap on the rank of a cone, 0 if none
  Growth,         \* columns the solver may add to the factors of a process
  Factor(_, _, _, _),  \* size of an entry: cone, row, process, column
  LinearShare(_, _),   \* size of a linear variable's share: unit, process
  Multiplier(_)        \* size of the multiplier of a caller's constraint

root == 0
null == <<>>

ASSUME ChunkAssumption == CHUNK_SIZE \in Nat \ {0}
ASSUME BlockAssumption == block_size \in Nat \ {0}
ASSUME CallsAssumption ==
  \A c \in Calls : /\ c.grid = null \/ c.grid \in Nat \X Nat \X Nat
                   /\ IsInput(c.input)
                   /\ c.shuffle \in {"none", "uniform", "block", "col"}
\* distributed_optimize takes compute_initial_rank, which is positive, for a
\* rank that is not; the solver adds columns and takes none away.
ASSUME RankAssumption ==
  initial_rank \in Nat \ {0} /\ max_rank \in Int /\ Growth \subseteq Nat

VARIABLES
  call,      \* what the caller asked, and the order the shuffle comes to
  pc,
  dims,      \* the grid: its rows, rank shares and cones
  buffer,    \* the words of the broadcast each process has
  sent,      \* what the root has sent of them
  problem,   \* synced_global_prob; the root's is the caller's own
  perm,      \* global_perm
  local,     \* the part of each process, scaled, and its factors
  norms,     \* the data counted in the norms of a process, as bags
  state,     \* rank_list, factors, linear variables and multipliers
  result

vars == <<call, pc, dims, buffer, sent, problem, perm, local, norms, state, result>>
-----------------------------------------------------------------------------
(* The grid.                                                               *)

WrongGrid(grid) ==
  grid # null /\ grid[1] * grid[2] * (IF grid[3] > 0 THEN grid[3] ELSE 1) # world_size
Dims(grid) ==
  IF grid = null THEN <<world_size, 1, 1>>
  ELSE <<grid[1], grid[2], IF grid[3] > 0 THEN grid[3] ELSE 1>>

my_row(p) == Coords(dims[p], p)[1]
my_rank(p) == Coords(dims[p], p)[2]
my_cone(p) == Coords(dims[p], p)[3]

\* MPI_Comm_split: the processes of one color.
row_color(p) == my_rank(p) * dims[p][3] + my_cone(p)
rank_color(p) == my_row(p) * dims[p][3] + my_cone(p)
ForgetsRank(p) == my_row(p)                                       \* mutant
cone_color(p) == my_row(p) * dims[p][2] + my_rank(p)
Comm(color(_), p) == {q \in Procs : color(q) = color(p)}

-----------------------------------------------------------------------------
(* The order of the constraints: perm[i] is the caller's number of row i.  *)

Bijections(S) == {f \in [1..Cardinality(S) -> S] :
                    \A i, j \in DOMAIN f : f[i] = f[j] => i = j}
Blocks == 0..((num_constraints - 1) \div block_size)
BlockOrder(f) ==
  FlattenSeq([i \in DOMAIN f |->
    LET block == {r \in Rows : (r - 1) \div block_size = f[i]}
    IN  Sorted(block, Increasing(block))])
\* The first two columns of a row decide; rows without an entry come last.
LocalityKey(p, r) ==
  LET inds == {col_ind(p, e) : e \in {e \in DOMAIN p.A : e[1] = r}}
      cols == Sorted(inds, Increasing(inds))
      last == Len(col_mapping(p)) + 1
  IN  CASE cols = <<>> -> <<last, last>>
        [] Len(cols) = 1 -> <<cols[1], cols[1]>>
        [] OTHER -> <<cols[1], cols[2]>>
ByLocality(p, f) ==
  \A i, j \in Rows : i < j => LET k == LocalityKey(p, f[i])
                                  l == LocalityKey(p, f[j])
                              IN  \/ k[1] < l[1]
                                  \/ k[1] = l[1] /\ k[2] <= l[2]

\* The orders a shuffle may come to: the seed and the library are the same
\* on every process, so one of them is every process's.
Orders(shuffle, p) ==
  IF num_constraints <= 1 \/ shuffle = "none" THEN {null}
  ELSE CASE shuffle = "uniform" -> Bijections(Rows)
         [] shuffle = "block" -> {BlockOrder(f) : f \in Bijections(Blocks)}
         [] shuffle = "col" -> {f \in Bijections(Rows) : ByLocality(p, f)}

CallersRow(order, r) == IF order = null THEN r ELSE order[r]
NewRow(order, r) == IF order = null THEN r ELSE CHOOSE i \in Rows : order[i] = r
PermutedSparseOnly(p, order) ==                                   \* mutant
  [p EXCEPT !.A = [e \in {<<NewRow(order, e[1]), e[2]>> : e \in DOMAIN p.A} |->
                     p.A[<<CallersRow(order, e[1]), e[2]>>]],
            !.b = [r \in Rows |-> p.b[CallersRow(order, r)]]]
permute_global_problem_constraints(p, order) ==
  [p EXCEPT !.A = [e \in {<<NewRow(order, e[1]), e[2]>> : e \in DOMAIN p.A} |->
                     p.A[<<CallersRow(order, e[1]), e[2]>>]],
            !.b = [r \in Rows |-> p.b[CallersRow(order, r)]],
            !.L = [j \in DOMAIN p.L |->
                     [p.L[j] EXCEPT !.row = IF @ = objective THEN @
                                            ELSE NewRow(order, @)]]]

-----------------------------------------------------------------------------
(* What a process computes by itself before it meets the others.           *)

\* rescale_problem.  Its passes come to one division by the factors recorded
\* (Rescale!Recorded), so that one pass stands for them all.
Rescaled(s, p) ==
  LET f == RuizFactors(p, s.per_cone)
      divided == Divided(p, f)
      tau_b == BoundScale(divided)
      tau_c == ObjectiveScale(divided)
  IN  IF ~scaling_enabled(s) THEN [problem |-> p, info |-> NoRescaling]
      ELSE [problem |-> Bounded(divided, tau_b, tau_c),
            info |-> [row |-> f.row, unit |-> f.unit, tau_b |-> tau_b, tau_c |-> tau_c]]

\* compute_per_block_max_rank counts the sparse rows of a cone only.
compute_per_block_max_rank(p, k) ==
  LET r == MaxRank(Cardinality(RowsInCone(p, k)))
  IN  IF max_rank > 0 /\ r > max_rank THEN max_rank ELSE r
SharedDown(P, i) == initial_rank \div P                           \* mutant
RankShare(P, i) == Share(initial_rank, P, i)
InitialRanks(p, part, share) ==
  [l \in DOMAIN part.cones |->
     LET k == part.cones[l]
     IN  Min({share, blk_dims[k], compute_per_block_max_rank(p, k)})]

\* The data of a part that norms are taken of, by the caller's names of them (a
\* low-rank column by its place among those of the processes at k).
RhsData(part, order, start) == SetToBag({CallersRow(order, r + start) : r \in 1..part.m})
ObjectiveData(part, k) ==
  SetToBag({<<"c", v>> : v \in DOMAIN part.c}
             \union {<<"L", k, j>> : j \in
                       {j \in DOMAIN part.L : part.L[j].row = objective}})

-----------------------------------------------------------------------------
Init ==
  /\ \E c \in Calls :
       LET p == convert_to_compressed(c.input)
       IN  \E order \in Orders(c.shuffle, p) :
             /\ call = [input |-> c.input, grid |-> c.grid,
                        settings |-> c.settings, order |-> order]
             /\ problem = [q \in Procs |-> IF q = root THEN p ELSE null]
  /\ pc = [p \in Procs |-> "start"]
  /\ dims = [p \in Procs |-> null]
  /\ buffer = [p \in Procs |-> null]
  /\ sent = [total |-> 0, words |-> <<>>]
  /\ perm = [p \in Procs |-> null]
  /\ local = [p \in Procs |-> null]
  /\ norms = [p \in Procs |-> null]
  /\ state = [p \in Procs |-> null]
  /\ result = [p \in Procs |-> null]

At(S, label) == \A p \in S : pc[p] = label
Go(S, label) == pc' = [p \in Procs |-> IF p \in S THEN label ELSE pc[p]]

\* select_valid_grid_size; MPI_Abort ends every process.
SelectGrid(p) ==
  /\ pc[p] = "start"
  /\ ~WrongGrid(call.grid)
  /\ dims' = [dims EXCEPT ![p] = Dims(call.grid)]
  /\ Go({p}, "grid")
  /\ UNCHANGED <<call, buffer, sent, problem, perm, local, norms, state, result>>

Abort(p) ==
  /\ pc[p] = "start"
  /\ WrongGrid(call.grid)
  /\ Go(Procs, "aborted")
  /\ UNCHANGED <<call, dims, buffer, sent, problem, perm, local, norms, state, result>>

\* initialize_parallel_context: the communicators are split for all at once.
InitializeContext ==
  /\ At(Procs, "grid")
  /\ Go(Procs, "serialize")
  /\ UNCHANGED <<call, dims, buffer, sent, problem, perm, local, norms, state, result>>

Serialize(p) ==
  /\ pc[p] = "serialize"
  /\ buffer' = [buffer EXCEPT ![p] = IF p = root THEN serialize_compressed_sdp(problem[p])
                                     ELSE @]
  /\ Go({p}, "barrier")
  /\ UNCHANGED <<call, dims, sent, problem, perm, local, norms, state, result>>

Barrier ==
  /\ At(Procs, "barrier")
  /\ Go(Procs, "bcast")
  /\ UNCHANGED <<call, dims, buffer, sent, problem, perm, local, norms, state, result>>

\* big_bcast_bytes: chunk after chunk; the root need not wait for the others.
SendChunk(p) ==
  /\ p = root
  /\ pc[p] = "bcast"
  /\ LET total == Len(buffer[p])
         to == Min({total, Len(sent.words) + CHUNK_SIZE})
     IN  /\ sent' = [total |-> total, words |-> SubSeq(buffer[p], 1, to)]
         /\ IF to = total THEN Go({p}, "permute") ELSE UNCHANGED pc
  /\ UNCHANGED <<call, dims, buffer, problem, perm, local, norms, state, result>>

ReceiveChunk(p) ==
  /\ p # root
  /\ pc[p] = "bcast"
  /\ Len(buffer[p]) < Len(sent.words)
  /\ LET to == Min({Len(sent.words), Len(buffer[p]) + CHUNK_SIZE})
     IN  /\ buffer' = [buffer EXCEPT ![p] = @ \o SubSeq(sent.words, Len(@) + 1, to)]
         /\ IF to = sent.total THEN Go({p}, "permute") ELSE UNCHANGED pc
  /\ UNCHANGED <<call, dims, sent, problem, perm, local, norms, state, result>>

\* The constraints are permuted in place, on the root in the caller's problem.
Copy(p) == IF p = root THEN problem[p] ELSE deserialize_compressed_sdp(buffer[p])
Permute(p) ==
  /\ pc[p] = "permute"
  /\ problem' = [problem EXCEPT ![p] =
       IF call.order = null THEN Copy(p)
       ELSE permute_global_problem_constraints(Copy(p), call.order)]
  /\ perm' = [perm EXCEPT ![p] = call.order]
  /\ buffer' = [buffer EXCEPT ![p] = null]
  /\ Go({p}, "partition")
  /\ UNCHANGED <<call, dims, sent, local, norms, state, result>>

\* Scaling, partition and the initial state of the solver.
Take(p) ==
  /\ pc[p] = "partition"
  /\ LET scaled == Rescaled(call.settings, problem[p])
         coords == Coords(dims[p], p)
         owned == Part(scaled.problem, dims[p], coords)
         part == partition_problem(scaled.problem, owned, coords)
     IN  /\ local' = [local EXCEPT ![p] =
              [part |-> part,
               start |-> owned.start,
               info |-> partition_rescale_info(scaled.info, owned)]]
         /\ norms' = [norms EXCEPT ![p] =
              [b |-> RhsData(part, call.order, owned.start), c |-> ObjectiveData(part, my_cone(p))]]
         /\ state' = [state EXCEPT ![p] =
              [rank_list |-> InitialRanks(problem[p], part,
                                          RankShare(dims[p][2], my_rank(p)))]]
  /\ Go({p}, "row_norms")
  /\ UNCHANGED <<call, dims, buffer, sent, problem, perm, result>>

-----------------------------------------------------------------------------
(* preprocess_distributed_solver.                                          *)

RowNorms(p) ==
  LET members == Comm(row_color, p)
  IN  /\ pc[p] = "row_norms"
      /\ At(members, "row_norms")
      /\ norms' = [q \in Procs |->
           IF q \in members
           THEN [norms[q] EXCEPT !.b = BagSum([s \in members |-> norms[s].b])]
           ELSE norms[q]]
      /\ Go(members, "cone_norms")
      /\ UNCHANGED <<call, dims, buffer, sent, problem, perm, local, state, result>>

ConeNorms(p) ==
  LET members == Comm(cone_color, p)
  IN  /\ pc[p] = "cone_norms"
      /\ At(members, "cone_norms")
      /\ norms' = [q \in Procs |->
           IF q \in members
           THEN [norms[q] EXCEPT !.c = BagSum([s \in members |-> norms[s].c])]
           ELSE norms[q]]
      /\ Go(members, "objective")
      /\ UNCHANGED <<call, dims, buffer, sent, problem, perm, local, state, result>>

\* Only the first row keeps the objective.
ZeroObjective(p) ==
  /\ pc[p] = "objective"
  /\ local' = IF my_row(p) = 0 THEN local ELSE [local EXCEPT ![p].part.c = <<>>]
  /\ Go({p}, "solve")
  /\ UNCHANGED <<call, dims, buffer, sent, problem, perm, norms, state, result>>

-----------------------------------------------------------------------------
(* The solver, and what becomes of its solution.                           *)

Solution(p, grown) ==
  LET part == local[p].part
      ranks == [l \in DOMAIN part.cones |-> state[p].rank_list[l] + grown[my_rank(p)]]
  IN  [rank_list |-> ranks,
       R |-> [l \in DOMAIN part.cones |-> [c \in 1..ranks[l] |->
                [i \in 1..blk_dims[part.cones[l]] |->
                   Factor(part.cones[l], i, my_rank(p), c)]]],
       x |-> [u \in part.units |-> LinearShare(u, my_rank(p))],
       dual |-> [r \in 1..part.m |-> Multiplier(CallersRow(perm[p], r + local[p].start))]]
Solve ==
  /\ At(Procs, "solve")
  /\ \E grown \in [{my_rank(p) : p \in Procs} -> Growth] :
       state' = [p \in Procs |-> Solution(p, grown)]
  /\ Go(Procs, "solved")
  /\ UNCHANGED <<call, dims, buffer, sent, problem, perm, local, norms, result>>

\* create_result_from_state and unscale_result: an LP variable is the square
\* of its factor.  Magnitudes of factor rows carry half of the scale of X.
Unscaled2(info, part, l, i, size) ==
  2 * size - info.tau_b - 2 * info.psd[FirstSlot(part, l) + i]
LocalResult(p) ==
  LET part == local[p].part
      info == local[p].info
      s == state[p]
      size(u) == IF u \in LpUnits THEN 2 * s.x[u] ELSE s.x[u]
  IN  [R2 |-> [l \in DOMAIN s.R |-> [c \in DOMAIN s.R[l] |-> [i \in DOMAIN s.R[l][c] |->
                 Unscaled2(info, part, l, i, s.R[l][c][i])]]],
       x |-> [u \in part.units |-> {size(u) - info.tau_b - info.unit[u]}],
       rank_list |-> s.rank_list,
       nnz |-> Cardinality(DOMAIN part.A),
       rank |-> SumOver(s.rank_list, DOMAIN s.rank_list),
       dual |-> null]
CreateResult(p) ==
  /\ pc[p] = "solved"
  /\ result' = [result EXCEPT ![p] = LocalResult(p)]
  /\ Go({p}, "nonzeros")
  /\ UNCHANGED <<call, dims, buffer, sent, problem, perm, local, norms, state>>

Total(S, f(_)) == SumOver([q \in S |-> f(q)], S)
CountNonzeros(p) ==
  LET members == Comm(row_color, p)
  IN  /\ pc[p] = "nonzeros"
      /\ At(members, "nonzeros")
      /\ result' = [q \in Procs |->
           IF q \in members
           THEN [result[q] EXCEPT !.nnz = Total(members, LAMBDA s : result[s].nnz)]
           ELSE result[q]]
      /\ Go(members, "ranks")
      /\ UNCHANGED <<call, dims, buffer, sent, problem, perm, local, norms, state>>
CountRanks(p) ==
  LET members == Comm(rank_color, p)
  IN  /\ pc[p] = "ranks"
      /\ At(members, "ranks")
      /\ result' = [q \in Procs |->
           IF q \in members
           THEN [result[q] EXCEPT !.rank = Total(members, LAMBDA s : result[s].rank)]
           ELSE result[q]]
      /\ Go(members, "collect")
      /\ UNCHANGED <<call, dims, buffer, sent, problem, perm, local, norms, state>>

\* The multipliers, unscaled, from the collector's members by their row
\* coordinate, and back into the caller's order on its first member.
Collectors == {p \in Procs : my_rank(p) = 0 /\ my_cone(p) = 0}
LocalDual(p) == LET info == local[p].info
                IN  [r \in DOMAIN state[p].dual |->
                       state[p].dual[r] - info.tau_c - info.row[r]]
GatheredDual ==
  LET order == Sorted(Collectors, {q \in Collectors \X Collectors : my_row(q[1]) < my_row(q[2])})
  IN  FlattenSeq([i \in DOMAIN order |-> LocalDual(order[i])])
AppliedTwice(order, dual) == [r \in Rows |-> dual[CallersRow(order, r)]]  \* mutant
unpermute_dual_solution(order, dual) == [r \in Rows |-> dual[NewRow(order, r)]]
EveryCollector(p) == p \in Collectors                             \* mutant
KeepsDual(p) == p \in Collectors /\ my_row(p) = 0
CollectDual ==
  /\ At(Procs, "collect")
  /\ result' = [p \in Procs |->
       IF KeepsDual(p)
       THEN [result[p] EXCEPT !.dual = unpermute_dual_solution(perm[p], GatheredDual)]
       ELSE result[p]]
  /\ Go(Procs, "gather")
  /\ UNCHANGED <<call, dims, buffer, sent, problem, perm, local, norms, state>>

\* gather_sdp_result.  The copies of the other rows are dropped; on the first
\* row the columns of each cone are gathered along the rank axis.
Dropped(r) == [r EXCEPT !.R2 = <<>>, !.x = <<>>, !.rank_list = null]
NotGathered(p) ==
  /\ pc[p] = "gather"
  /\ dims[p][1] = 1 /\ dims[p][2] = 1
  /\ Go({p}, "done")
  /\ UNCHANGED <<call, dims, buffer, sent, problem, perm, local, norms, state, result>>
DropReplica(p) ==
  /\ pc[p] = "gather"
  /\ my_row(p) # 0
  /\ result' = [result EXCEPT ![p] = Dropped(@)]
  /\ Go({p}, "done")
  /\ UNCHANGED <<call, dims, buffer, sent, problem, perm, local, norms, state>>

ByRankShare(members) ==
  Sorted(members, {q \in members \X members : my_rank(q[1]) < my_rank(q[2])})
BlockOfFirst(members, l) == result[ByRankShare(members)[1]].R2[l]  \* mutant
GatheredBlock(members, l) ==
  FlattenSeq([i \in DOMAIN ByRankShare(members) |->
                result[ByRankShare(members)[i]].R2[l]])
GatherFactor(p) ==
  LET members == Comm(rank_color, p)
      cones == DOMAIN local[p].part.cones
      gathered(q) ==
        [result[q] EXCEPT
           !.R2 = [l \in cones |-> GatheredBlock(members, l)],
           !.rank_list = [l \in cones |->
              Total(members, LAMBDA s : state[s].rank_list[l])]]
  IN  /\ pc[p] = "gather"
      /\ At(members, "gather")
      /\ dims[p][1] # 1 \/ dims[p][2] # 1
      /\ my_row(p) = 0
      /\ result' = [q \in Procs |->
           IF q \notin members THEN result[q]
           ELSE IF my_rank(q) = 0 THEN gathered(q) ELSE Dropped(result[q])]
      /\ Go(members, "done")
      /\ UNCHANGED <<call, dims, buffer, sent, problem, perm, local, norms, state>>

Step(p) == \/ SelectGrid(p) \/ Abort(p) \/ Serialize(p) \/ SendChunk(p)
           \/ ReceiveChunk(p) \/ Permute(p) \/ Take(p) \/ RowNorms(p) \/ ConeNorms(p)
           \/ ZeroObjective(p) \/ CreateResult(p) \/ CountNonzeros(p)
           \/ CountRanks(p) \/ NotGathered(p) \/ DropReplica(p) \/ GatherFactor(p)
\* The end: every process has returned, or MPI_Abort has ended them all.
Finished == (At(Procs, "done") \/ At(Procs, "aborted")) /\ UNCHANGED vars

\* Every step but Finished moves a process on, so that behaviors are finite,
\* and one that stops anywhere else is a deadlock.
Next == \/ \E p \in Procs : Step(p)
        \/ InitializeContext \/ Barrier \/ Solve \/ CollectDual
        \/ Finished
Spec == Init /\ [][Next]_vars
-----------------------------------------------------------------------------
Labels == {"start", "grid", "serialize", "barrier", "bcast", "permute", "partition",
           "row_norms", "cone_norms", "objective", "solve", "solved", "nonzeros",
           "ranks", "collect", "gather", "done", "aborted"}
\* Each process is somewhere on the way, and has what it made or was sent
\* there; only the root may have a dual solution (distributed_optimize).
TypeOK ==
  /\ pc \in [Procs -> Labels]
  /\ \A p \in Procs :
       /\ (dims[p] = null) = (pc[p] \in {"start", "aborted"})
       /\ local[p] # null => problem[p] # null /\ norms[p] # null /\ state[p] # null
       /\ result[p] # null => (result[p].dual # null => p = root)

Caller == convert_to_compressed(call.input)

\* Every process works on the caller's problem, in one order of its rows.
CopiesAgree ==
  \A p \in Procs : pc[p] \notin {"start", "grid", "serialize", "barrier", "bcast", "permute",
                                 "aborted"} =>
    /\ perm[p] = call.order
    /\ DOMAIN problem[p].A = {<<NewRow(perm[p], e[1]), e[2]>> : e \in DOMAIN Caller.A}
    /\ \A e \in DOMAIN problem[p].A :
         problem[p].A[e] = Caller.A[<<CallersRow(perm[p], e[1]), e[2]>>]
    /\ \A r \in Rows : problem[p].b[r] = Caller.b[CallersRow(perm[p], r)]
    /\ problem[p].c = Caller.c
    /\ DOMAIN problem[p].L = DOMAIN Caller.L
    /\ \A j \in DOMAIN Caller.L :
         LET new == problem[p].L[j]
             old == Caller.L[j]
         IN  /\ new.row # objective => CallersRow(perm[p], new.row) = old.row
             /\ (new.row = objective) = (old.row = objective)
             /\ new.cone = old.cone /\ new.w = old.w /\ new.u = old.u

\* The entries of the caller's problem a process holds.  Values are those it
\* computes with, times its factors.
UnitFactor(p, u) ==
  LET part == local[p].part
      l == CHOOSE l \in DOMAIN part.cones : part.cones[l] = u[1]
  IN  IF u \in Slots THEN local[p].info.psd[FirstSlot(part, l) + u[2]] ELSE local[p].info.unit[u]
VarFactorAt(p, v) ==
  IF Len(v) = 1 THEN UnitFactor(p, v[1]) ELSE UnitFactor(p, v[1]) + UnitFactor(p, v[2])
CallersRowAt(p, r) ==
  CallersRow(perm[p], r + local[p].start)

HeldEntries(p) ==
  LET part == local[p].part
      info == local[p].info
  IN  {<<"A", CallersRowAt(p, q[1]), part.cols[q[2]],
         part.A[q] + info.row[q[1]] + VarFactorAt(p, part.cols[q[2]])>> : q \in DOMAIN part.A}
HeldRhs(p) ==
  LET part == local[p].part
      info == local[p].info
  IN  {<<"b", CallersRowAt(p, r), part.b[r] + info.row[r] - info.tau_b>> : r \in 1..part.m}
HeldObjective(p) ==
  LET part == local[p].part
  IN  {<<"c", v, part.c[v] + VarFactorAt(p, v) - local[p].info.tau_c>> : v \in DOMAIN part.c}
HeldColumn(p, col) ==
  LET info == local[p].info
      u == [s \in DOMAIN col.u |-> col.u[s] + UnitFactor(p, s)]
  IN  IF col.row = objective
      THEN <<"L", objective, local[p].part.cones[col.cone], col.w - info.tau_c, u>>
      ELSE <<"L", CallersRowAt(p, col.row), local[p].part.cones[col.cone],
             col.w + info.row[col.row], u>>
HeldColumns(p) == {HeldColumn(p, local[p].part.L[j]) : j \in DOMAIN local[p].part.L}
CallersData ==
  [A |-> {<<"A", e[1], e[2], Caller.A[e]>> : e \in DOMAIN Caller.A},
   b |-> {<<"b", r, Caller.b[r]>> : r \in Rows},
   c |-> {<<"c", v, Caller.c[v]>> : v \in DOMAIN Caller.c},
   L |-> {<<"L", Caller.L[j].row, Caller.L[j].cone, Caller.L[j].w, Caller.L[j].u>> :
            j \in DOMAIN Caller.L}]

Layer(j) == {p \in Procs : my_rank(p) = j}
OnceOver(S, held(_), all) ==
  /\ UNION {held(p) : p \in S} = all
  /\ \A p, q \in S : p # q => held(p) \intersect held(q) = {}

\* In each layer of the grid (the processes with one share of the rank) an
\* entry, an objective coefficient and a low-rank column of the caller's
\* problem are on exactly one process, a right-hand side on one process of
\* each cone coordinate, and times the local factors they are the caller's
\* (partition_problem, partition_rescale_info, and the zeroed objective).
EveryDatumOnce ==
  At(Procs, "solve") =>
    /\ \A j \in {my_rank(p) : p \in Procs} :
         /\ OnceOver(Layer(j), HeldEntries, CallersData.A)
         /\ OnceOver(Layer(j), HeldObjective, CallersData.c)
         /\ OnceOver(Layer(j), HeldColumns, CallersData.L)
    /\ \A p \in Procs : OnceOver(Comm(row_color, p), HeldRhs, CallersData.b)

\* The local columns keep the order of positions, the LP's are those from
\* lp_start_idx and the free ones those from free_start_idx on, all there
\* whether the rows of the process use them or not.
LinearColumnsLast ==
  \A p \in Procs : local[p] # null =>
    LET part == local[p].part
    IN  /\ \A i, j \in DOMAIN part.cols :
             i < j => Position[part.cols[i]] < Position[part.cols[j]]
        /\ {<<u>> : u \in part.units} \subseteq ToSet(part.cols)
        /\ \A i \in DOMAIN part.cols :
             /\ (i > part.free_start) = (part.cols[i][1] \in FreeUnits)
             /\ (i > part.lp_start) = (part.cols[i] \in LinearVars)

\* After the reductions a norm counts every right-hand side, and every entry
\* of the objective, once.  (A low-rank column of the objective is counted on
\* the first row only.)
NormsCountOnce ==
  At(Procs, "solve") => \A p \in Procs :
    /\ norms[p].b = SetToBag(Rows)
    /\ \A v \in DOMAIN Caller.c : BagIn(<<"c", v>>, norms[p].c)
    /\ \A d \in BagToSet(norms[p].c) : norms[p].c[d] = 1
    /\ my_row(p) = 0 =>
         Cardinality(BagToSet(norms[p].c)) =
           Cardinality(DOMAIN Caller.c)
             + Cardinality({j \in DOMAIN Caller.L : Caller.L[j].row = objective})

\* The shares of the initial rank along the rank axis come to the rank that
\* was asked for, unless a cone's own bound cuts them, and the processes that
\* hold the same rows and columns of a factor agree on its rank.  Each process
\* keeps its own share below that bound: together they may exceed it.
RankSharedOut ==
  At(Procs, "solve") => \A p \in Procs : \A l \in DOMAIN local[p].part.cones :
    LET k == local[p].part.cones[l]
        bound == Min({blk_dims[k], compute_per_block_max_rank(problem[p], k)})
        shares == [q \in Comm(rank_color, p) |-> state[q].rank_list[l]]
        together == SumOver(shares, Comm(rank_color, p))
    IN  /\ together <= initial_rank
        /\ bound >= initial_rank => together = initial_rank
        /\ \A q \in Comm(row_color, p) : state[q].rank_list = state[p].rank_list

\* The multipliers the root returns are in the caller's order and units,
\* whatever the shuffle, the row ranges and the scaling were.
Reference == Rescaled(call.settings, Caller).info
DualInCallersOrder ==
  At(Procs, "done") =>
    result[root].dual = [r \in Rows |-> Multiplier(r) - Reference.tau_c - Reference.row[r]]

\* On the first row and rank share the factor of each of its cones has the
\* columns of all the shares, in their order and in the caller's units; no
\* other process returns a factor.
AllColumns(k, S) ==
  FlattenSeq([i \in DOMAIN ByRankShare(S) |->
    LET q == ByRankShare(S)[i]
        l == CHOOSE l \in DOMAIN local[q].part.cones : local[q].part.cones[l] = k
    IN  [c \in 1..state[q].rank_list[l] |-> [i2 \in 1..blk_dims[k] |->
           2 * Factor(k, i2, my_rank(q), c) - Reference.tau_b
             - 2 * Reference.unit[<<k, i2>>]]]])
FactorGathered ==
  At(Procs, "done") => \A p \in Procs :
    IF my_row(p) = 0 /\ my_rank(p) = 0
    THEN \A l \in DOMAIN local[p].part.cones :
           /\ result[p].R2[l] = AllColumns(local[p].part.cones[l], Comm(rank_color, p))
           /\ result[p].rank_list[l] = Len(result[p].R2[l])
    ELSE result[p].R2 = <<>>

\* What docs/multi-gpu.md says of the root's result: the consolidated factor,
\* of every cone, and linear variables, with every process's share in them.
ConsolidatedPrimal ==
  At(Procs, "done") =>
    /\ \A k \in Cones : \E l \in DOMAIN local[root].part.cones :
         local[root].part.cones[l] = k /\ Len(result[root].R2[l]) > 0
    /\ \A u \in LpUnits \union FreeUnits :
         /\ u \in DOMAIN result[root].x
         /\ Cardinality(result[root].x[u]) = Cardinality({my_rank(p) : p \in Procs})
=============================================================================
