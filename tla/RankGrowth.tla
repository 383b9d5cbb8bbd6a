----------------------------- MODULE RankGrowth -----------------------------
(***************************************************************************)
(* The layout of the low-rank solution and its growth (src/solver_state.cu)*)
(*                                                                         *)
(* low_rank_solution is one flat vector: the factors of the PSD blocks,    *)
(* block after block, column-major, then the LP and the free variables.    *)
(* Every rank augmentation moves it to a larger vector.  Each of its       *)
(* readers has its own copy of the layout: the pointer and rank of the     *)
(* block, the offsets and ranks of its batch, the offsets of the LP and    *)
(* free part, the capacity of the L-BFGS buffers, and in the end the       *)
(* result.                                                                 *)
(*                                                                         *)
(* A cell of the vector holds <<owner, k>>: the k-th number of that owner, *)
(* a block, LP or Free.                                                    *)
(***************************************************************************)
EXTENDS Integers, FiniteSets, Layout

CONSTANTS
  n_blks,                  \* number of PSD blocks, numbered from 1
  dim,                     \* dim[b]
  theoretical_max_rank,    \* theoretical_max_rank[b]
  initial_rank,
  LpDims, FreeDims,        \* the problem's lp_dim and free_dim, one of these
  small_cone_dim_threshold,  \* CARDAL_SMALL_CONE_DIM_THRESHOLD, 128
  min_batch_size,            \* CARDAL_MIN_BATCH_SIZE, 16
  MaxDirections            \* bound of the model: directions of one lift per block

Blocks == 1..n_blks
LP == n_blks + 1
Free == n_blks + 2

ASSUME ShapeAssumption ==
  /\ n_blks \in Nat
  /\ dim \in [Blocks -> Nat \ {0}]
  /\ theoretical_max_rank \in [Blocks -> Nat]
  /\ initial_rank \in Nat
  /\ LpDims \subseteq Nat
  /\ FreeDims \subseteq Nat
  /\ small_cone_dim_threshold \in Nat
  /\ min_batch_size \in Nat
  /\ MaxDirections \in Nat

VARIABLES
  phase,                     \* "solving" or "returned"
  lp_dim, free_dim,
  rank_list,              \* also the rank of each block
  solution,               \* block -> offset of blk->solution in the vector
  low_rank_solution,      \* the vector: 0..length_low_rank_solution-1 -> cell
  length_low_rank_solution,
  lp_solution_offset,
  free_solution_offset,
  lbfgs_buf_capacity_n,   \* columns of the L-BFGS buffers are this long
  d_R_offsets, d_ranks,   \* batch data of the blocks in custom batches
  psd_factor_length       \* of the result

layout == <<rank_list, solution, low_rank_solution, length_low_rank_solution,
            lp_solution_offset, free_solution_offset, lbfgs_buf_capacity_n,
            d_R_offsets, d_ranks>>
layout_vars == <<phase, lp_dim, free_dim, layout, psd_factor_length>>

Smaller(x, y) == IF x < y THEN x ELSE y
max_allowed_rank(b) == Smaller(dim[b], theoretical_max_rank[b])

\* Length of the factors of the blocks before block b.
BlockOffset(ranks, b) == RunningSum([c \in Blocks |-> dim[c] * ranks[c]], n_blks)[b - 1]
PsdLength(ranks) == BlockOffset(ranks, n_blks + 1)

\* The block whose factor covers position i of the vector.
BlockAt(ranks, i) ==
  CHOOSE b \in Blocks : /\ BlockOffset(ranks, b) <= i
                        /\ i < BlockOffset(ranks, b) + dim[b] * ranks[b]

\* build_cone_batches: dimensions that are small and frequent enough share a
\* batched kernel, the other blocks are on their own.
custom(b) ==
  /\ dim[b] <= small_cone_dim_threshold
  /\ Cardinality({c \in Blocks : dim[c] = dim[b]}) >= min_batch_size
CustomBlocks == {b \in Blocks : custom(b)}
-----------------------------------------------------------------------------
\* initialize_solver_state.
LayoutInit ==
  LET ranks == [b \in Blocks |-> Smaller(initial_rank, max_allowed_rank(b))]
      psd == PsdLength(ranks)
  IN  /\ phase = "solving"
      /\ lp_dim \in LpDims
      /\ free_dim \in FreeDims
      /\ rank_list = ranks
      /\ solution = [b \in Blocks |-> BlockOffset(ranks, b)]
      /\ lp_solution_offset = psd
      /\ free_solution_offset = psd + lp_dim
      /\ length_low_rank_solution = psd + lp_dim + free_dim
      /\ low_rank_solution =
           [i \in 0..(psd + lp_dim + free_dim - 1) |->
              IF i < psd
              THEN <<BlockAt(ranks, i), i - BlockOffset(ranks, BlockAt(ranks, i))>>
              ELSE IF i < psd + lp_dim THEN <<LP, i - psd>>
              ELSE <<Free, i - psd - lp_dim>>]
      /\ lbfgs_buf_capacity_n = psd + lp_dim + free_dim
      /\ d_ranks = [b \in CustomBlocks |-> ranks[b]]
      /\ d_R_offsets = [b \in CustomBlocks |-> BlockOffset(ranks, b)]
      /\ psd_factor_length = 0

\* The vector after an augmentation: old columns, new columns, and the LP and
\* free part from where their offsets say they are.
Moved(ranks, at) ==
  LET psd == PsdLength(ranks) IN
  [i \in 0..(psd + lp_dim + free_dim - 1) |->
     IF i < psd
     THEN LET b == BlockAt(ranks, i)
              k == i - at[b]
          IN  IF k < dim[b] * rank_list[b]
              THEN low_rank_solution[BlockOffset(rank_list, b) + k]
              ELSE <<b, k>>
     ELSE IF i < psd + lp_dim
     THEN low_rank_solution[lp_solution_offset + i - psd]
     ELSE low_rank_solution[free_solution_offset + i - psd - lp_dim]]

\* The rank of a block after a lift that adds inc columns to it.
new_rank_uncapped(b, inc) == rank_list[b] + inc                 \* mutant
new_rank(b, inc) == Smaller(rank_list[b] + inc, max_allowed_rank(b))

\* refresh_cone_batches: the batches read rank and pointer of their blocks.
refresh_cone_batches_ranks_only ==                              \* mutant
  /\ d_ranks' = [b \in CustomBlocks |-> rank_list'[b]]
  /\ UNCHANGED d_R_offsets
refresh_cone_batches ==
  /\ d_ranks' = [b \in CustomBlocks |-> rank_list'[b]]
  /\ d_R_offsets' = [b \in CustomBlocks |-> solution'[b]]

\* The L-BFGS buffers grow with the vector and are not copied: every solve
\* starts with an empty history.
NextCapacityKept(length) == lbfgs_buf_capacity_n                \* mutant
NextCapacity(length) ==
  IF length > lbfgs_buf_capacity_n THEN length ELSE lbfgs_buf_capacity_n

NextLpOffsetKept(psd) == lp_solution_offset                     \* mutant
NextLpOffset(psd) == IF lp_dim > 0 THEN psd ELSE lp_solution_offset

\* augment_system_rank.  It returns early when every block with new columns is
\* at its maximal rank.  The offset of a part that is empty is left as it is.
augment_system_rank(rank_incs) ==
  LET ranks == [b \in Blocks |-> new_rank(b, rank_incs[b])]
      at == [b \in Blocks |-> BlockOffset(ranks, b)]
      psd == PsdLength(ranks)
      length == psd + lp_dim + free_dim
  IN  /\ phase = "solving"
      /\ \E b \in Blocks : ranks[b] > rank_list[b]
      /\ rank_list' = ranks
      /\ solution' = at
      /\ low_rank_solution' = Moved(ranks, at)
      /\ lp_solution_offset' = NextLpOffset(psd)
      /\ free_solution_offset' =
           IF free_dim > 0 THEN psd + lp_dim ELSE free_solution_offset
      /\ length_low_rank_solution' = length
      /\ lbfgs_buf_capacity_n' = NextCapacity(length)
      /\ refresh_cone_batches
      /\ UNCHANGED <<phase, lp_dim, free_dim, psd_factor_length>>

\* create_result_from_state.
create_result_from_state ==
  /\ phase = "solving"
  /\ phase' = "returned"
  /\ psd_factor_length' = lp_solution_offset
  /\ UNCHANGED <<lp_dim, free_dim, layout>>

LayoutNext ==
  \/ \E rank_incs \in [Blocks -> 0..MaxDirections] : augment_system_rank(rank_incs)
  \/ create_result_from_state

LayoutSpec == LayoutInit /\ [][LayoutNext]_layout_vars
-----------------------------------------------------------------------------
(* Properties. *)

LayoutOK ==
  /\ phase \in {"solving", "returned"}
  /\ lp_dim \in LpDims
  /\ free_dim \in FreeDims
  /\ rank_list \in [Blocks -> Nat]
  /\ \A b \in Blocks : rank_list[b] <= max_allowed_rank(b)
  /\ length_low_rank_solution \in Nat
  /\ lbfgs_buf_capacity_n \in Nat

\* Through every copy of the layout, a block, its batch, the LP and the free
\* variables find their own numbers, in order, after any sequence of lifts.
Holds(owner, start, size) ==
  \A k \in 0..(size - 1) : /\ start + k \in DOMAIN low_rank_solution
                           /\ low_rank_solution[start + k] = <<owner, k>>

ReadersFindTheirNumbers ==
  /\ \A b \in Blocks : Holds(b, solution[b], dim[b] * rank_list[b])
  /\ \A b \in CustomBlocks : Holds(b, d_R_offsets[b], dim[b] * d_ranks[b])
  /\ Holds(LP, lp_solution_offset, lp_dim)
  /\ Holds(Free, free_solution_offset, free_dim)

\* The parts leave no gap: what a kernel over the whole vector touches is what
\* the parts own, and it fits the columns of the L-BFGS buffers.
VectorIsFilled ==
  /\ length_low_rank_solution = PsdLength(rank_list) + lp_dim + free_dim
  /\ DOMAIN low_rank_solution = 0..(length_low_rank_solution - 1)
  /\ length_low_rank_solution <= lbfgs_buf_capacity_n

\* With LP variables, the returned length is that of the PSD factors.
FactorCompleteWithLp ==
  phase = "returned" /\ lp_dim > 0 => psd_factor_length = PsdLength(rank_list)

\* Claim of docs/using-cardal/results.md:45 and of its loop over rank_list at
\* lines 53-59 (and include/cardal.h:291): the returned factor contains
\* the factors of all cones, dim * rank numbers each.
ReturnedFactorIsComplete ==
  phase = "returned" => psd_factor_length = PsdLength(rank_list)
=============================================================================
