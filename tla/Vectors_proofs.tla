---------------------------- MODULE Vectors_proofs ----------------------------
(***************************************************************************)
(* Proofs about the vectors of the solver.  After any sequence of lifts    *)
(* every reader of the low-rank vector finds its own numbers, for all      *)
(* blocks, dimensions, ranks and rank bounds (RankGrowth).  The ring of    *)
(* L-BFGS pairs never leaves its bounds, the recursion reads the pairs of  *)
(* the present solve, newest first, and the ring implements the window of  *)
(* LbfgsWindow (LbfgsHistory).                                             *)
(***************************************************************************)
EXTENDS RankGrowth, LbfgsHistory, Layout_proofs

-----------------------------------------------------------------------------
(* The layout for a given list of ranks.                                   *)

\* The factor of a block has dim * rank numbers.
Sizes(ranks) == [c \in Blocks |-> dim[c] * ranks[c]]

LEMMA FactorSizes ==
  ASSUME NEW ranks \in [Blocks -> Nat]
  PROVE  /\ n_blks \in Nat
         /\ Blocks = 1..n_blks
         /\ \A k \in 1..n_blks : Sizes(ranks)[k] = dim[k] * ranks[k] /\ Sizes(ranks)[k] \in Nat
<1>1. n_blks \in Nat /\ Blocks = 1..n_blks
  BY ShapeAssumption DEF Blocks
<1>2. ASSUME NEW k \in 1..n_blks
      PROVE  Sizes(ranks)[k] = dim[k] * ranks[k] /\ Sizes(ranks)[k] \in Nat
  <2>1. k \in Blocks /\ dim[k] \in Nat /\ ranks[k] \in Nat
    BY <1>1, <1>2, ShapeAssumption
  <2>2. \A x, y \in Nat : x * y \in Nat
    OBVIOUS
  <2> QED BY <2>1, <2>2 DEF Sizes
<1> QED BY <1>1, <1>2

\* The factors follow each other: each ends where the next one begins, and
\* the last one where the PSD part ends.
LEMMA Offsets ==
  ASSUME NEW ranks \in [Blocks -> Nat]
  PROVE  /\ PsdLength(ranks) \in Nat
         /\ \A b \in Blocks :
              /\ BlockOffset(ranks, b) \in Nat
              /\ dim[b] * ranks[b] \in Nat
              /\ BlockOffset(ranks, b) + dim[b] * ranks[b] <= PsdLength(ranks)
<1> DEFINE s == RunningSum(Sizes(ranks), n_blks)
<1>1. /\ n_blks \in Nat
      /\ Blocks = 1..n_blks
      /\ \A k \in 1..n_blks : Sizes(ranks)[k] = dim[k] * ranks[k] /\ Sizes(ranks)[k] \in Nat
  BY FactorSizes
<1>2. \A b : BlockOffset(ranks, b) = s[b - 1]
  BY DEF BlockOffset, Sizes
<1>3. PsdLength(ranks) = s[n_blks]
  BY <1>1, <1>2 DEF PsdLength
<1>4. /\ s \in [0..n_blks -> Nat]
      /\ \A i, j \in 0..n_blks : i <= j => s[i] <= s[j]
  BY <1>1, RunningSumMonotone
<1>5. \A k \in 1..n_blks : s[k] = s[k - 1] + Sizes(ranks)[k]
  BY <1>1, RunningSumSteps
<1> HIDE DEF s
<1>6. ASSUME NEW b \in Blocks
      PROVE  /\ BlockOffset(ranks, b) \in Nat
             /\ dim[b] * ranks[b] \in Nat
             /\ BlockOffset(ranks, b) + dim[b] * ranks[b] <= PsdLength(ranks)
  <2>1. /\ b \in 1..n_blks /\ b \in 0..n_blks /\ b - 1 \in 0..n_blks /\ n_blks \in 0..n_blks
        /\ b <= n_blks
    BY <1>1
  <2>2. s[b - 1] + dim[b] * ranks[b] = s[b] /\ s[b - 1] \in Nat /\ dim[b] * ranks[b] \in Nat
    BY <1>1, <1>4, <1>5, <2>1
  <2>3. s[b] <= s[n_blks]
    BY <1>4, <2>1
  <2> QED BY <1>2, <1>3, <2>2, <2>3
<1>7. PsdLength(ranks) \in Nat
  BY <1>1, <1>3, <1>4
<1> QED BY <1>6, <1>7

\* BlockAt finds the block whose factor covers a position ...
LEMMA BlockAtCovers ==
  ASSUME NEW ranks \in [Blocks -> Nat], NEW i \in 0..(PsdLength(ranks) - 1)
  PROVE  /\ BlockAt(ranks, i) \in Blocks
         /\ BlockOffset(ranks, BlockAt(ranks, i)) <= i
         /\ i < BlockOffset(ranks, BlockAt(ranks, i))
                  + dim[BlockAt(ranks, i)] * ranks[BlockAt(ranks, i)]
<1> DEFINE s == RunningSum(Sizes(ranks), n_blks)
<1>1. /\ n_blks \in Nat
      /\ Blocks = 1..n_blks
      /\ \A k \in 1..n_blks : Sizes(ranks)[k] = dim[k] * ranks[k] /\ Sizes(ranks)[k] \in Nat
  BY FactorSizes
<1>2. \A b : BlockOffset(ranks, b) = s[b - 1]
  BY DEF BlockOffset, Sizes
<1>3. i \in Nat /\ i < s[n_blks]
  <2>1. PsdLength(ranks) \in Nat /\ PsdLength(ranks) = s[n_blks]
    BY <1>1, <1>2, Offsets, SMTT(30) DEF PsdLength
  <2> HIDE DEF s
  <2> QED BY <2>1
<1>4. PICK k \in 1..n_blks : s[k - 1] <= i /\ i < s[k]
  BY <1>1, <1>3, PartCovers
<1>5. s[k] = s[k - 1] + Sizes(ranks)[k]
  BY <1>1, RunningSumSteps
<1> HIDE DEF s
<1>6. /\ k \in Blocks
      /\ BlockOffset(ranks, k) <= i
      /\ i < BlockOffset(ranks, k) + dim[k] * ranks[k]
  BY <1>1, <1>2, <1>4, <1>5
<1> QED BY <1>6 DEF BlockAt

\* ... and every position in a factor leads to its block.
LEMMA BlockAtOf ==
  ASSUME NEW ranks \in [Blocks -> Nat], NEW b \in Blocks,
         NEW k \in 0..(dim[b] * ranks[b] - 1)
  PROVE  /\ BlockOffset(ranks, b) + k \in 0..(PsdLength(ranks) - 1)
         /\ BlockAt(ranks, BlockOffset(ranks, b) + k) = b
<1> DEFINE s == RunningSum(Sizes(ranks), n_blks)
           i == BlockOffset(ranks, b) + k
           c == BlockAt(ranks, i)
<1>1. /\ n_blks \in Nat
      /\ Blocks = 1..n_blks
      /\ \A l \in 1..n_blks : Sizes(ranks)[l] = dim[l] * ranks[l] /\ Sizes(ranks)[l] \in Nat
  BY FactorSizes
<1>2. \A d : BlockOffset(ranks, d) = s[d - 1]
  BY DEF BlockOffset, Sizes
<1>3. /\ PsdLength(ranks) \in Nat
      /\ BlockOffset(ranks, b) \in Nat
      /\ dim[b] * ranks[b] \in Nat
      /\ BlockOffset(ranks, b) + dim[b] * ranks[b] <= PsdLength(ranks)
  BY Offsets
<1>4. i \in 0..(PsdLength(ranks) - 1)
  BY <1>3
<1>5. /\ c \in Blocks
      /\ BlockOffset(ranks, c) <= i
      /\ i < BlockOffset(ranks, c) + dim[c] * ranks[c]
  BY <1>4, BlockAtCovers
<1>6. \A d \in 1..n_blks : s[d] = s[d - 1] + Sizes(ranks)[d]
  BY <1>1, RunningSumSteps
<1>7. /\ s[b - 1] <= i /\ i < s[b]
      /\ s[c - 1] <= i /\ i < s[c]
  <2> HIDE DEF s, c
  <2>1. s[b] = BlockOffset(ranks, b) + dim[b] * ranks[b]
    BY <1>1, <1>2, <1>6
  <2>2. s[c] = BlockOffset(ranks, c) + dim[c] * ranks[c]
    BY <1>1, <1>2, <1>5, <1>6
  <2>3. BlockOffset(ranks, b) <= i /\ i < BlockOffset(ranks, b) + dim[b] * ranks[b]
    BY <1>3
  <2> QED BY <1>2, <1>5, <2>1, <2>2, <2>3
<1>8. c = b
  <2> HIDE DEF c, i
  <2>1. i \in Nat /\ b \in 1..n_blks /\ c \in 1..n_blks
    BY <1>1, <1>3, <1>4, <1>5
  <2> QED BY <1>1, <1>7, <2>1, PartUnique
<1> QED BY <1>4, <1>8

-----------------------------------------------------------------------------
(* The inductive invariant.                                                *)

\* The copies of the layout agree with the ranks of the blocks.  Nothing is
\* said of the offset of an empty part: a lift leaves it stale.
CopiesFollowRanks ==
  /\ solution = [b \in Blocks |-> BlockOffset(rank_list, b)]
  /\ d_ranks = [b \in CustomBlocks |-> rank_list[b]]
  /\ d_R_offsets = [b \in CustomBlocks |-> solution[b]]
  /\ lp_dim > 0 => lp_solution_offset = PsdLength(rank_list)
  /\ free_dim > 0 => free_solution_offset = PsdLength(rank_list) + lp_dim

\* The vector holds what the layout says.
VectorFollowsRanks ==
  /\ \A b \in Blocks : Holds(b, BlockOffset(rank_list, b), dim[b] * rank_list[b])
  /\ Holds(LP, PsdLength(rank_list), lp_dim)
  /\ Holds(Free, PsdLength(rank_list) + lp_dim, free_dim)

Inv ==
  /\ LayoutOK
  /\ CopiesFollowRanks
  /\ VectorIsFilled
  /\ VectorFollowsRanks
  /\ FactorCompleteWithLp

\* The bound on a rank is a number.
LEMMA MaxRanks ==
  \A b \in Blocks : /\ max_allowed_rank(b) \in Nat
                    /\ \A r \in Nat : /\ Smaller(r, max_allowed_rank(b)) \in Nat
                                      /\ Smaller(r, max_allowed_rank(b)) <= max_allowed_rank(b)
<1> TAKE b \in Blocks
<1>1. dim[b] \in Nat /\ theoretical_max_rank[b] \in Nat
  BY ShapeAssumption
<1>2. max_allowed_rank(b) \in Nat
  BY <1>1 DEF max_allowed_rank, Smaller
<1> QED BY <1>2 DEF Smaller

LEMMA LayoutInitInv == LayoutInit => Inv
<1> SUFFICES ASSUME LayoutInit PROVE Inv
  OBVIOUS
<1> DEFINE psd == PsdLength(rank_list)
<1>1. /\ phase = "solving"
      /\ lp_dim \in LpDims /\ lp_dim \in Nat
      /\ free_dim \in FreeDims /\ free_dim \in Nat
  BY ShapeAssumption DEF LayoutInit
<1>2. /\ rank_list \in [Blocks -> Nat]
      /\ \A b \in Blocks : rank_list[b] <= max_allowed_rank(b)
  BY MaxRanks, ShapeAssumption DEF LayoutInit
<1>3. /\ psd \in Nat
      /\ \A b \in Blocks : /\ BlockOffset(rank_list, b) \in Nat
                           /\ dim[b] * rank_list[b] \in Nat
                           /\ BlockOffset(rank_list, b) + dim[b] * rank_list[b] <= psd
  BY <1>2, Offsets
<1>4. /\ length_low_rank_solution = psd + lp_dim + free_dim
      /\ lbfgs_buf_capacity_n = psd + lp_dim + free_dim
      /\ lp_solution_offset = psd
      /\ free_solution_offset = psd + lp_dim
      /\ low_rank_solution =
           [i \in 0..(psd + lp_dim + free_dim - 1) |->
              IF i < psd
              THEN <<BlockAt(rank_list, i), i - BlockOffset(rank_list, BlockAt(rank_list, i))>>
              ELSE IF i < psd + lp_dim THEN <<LP, i - psd>>
              ELSE <<Free, i - psd - lp_dim>>]
  BY DEF LayoutInit
<1>5. LayoutOK
  BY <1>1, <1>2, <1>3, <1>4 DEF LayoutOK
<1>6. CopiesFollowRanks
  BY <1>4 DEF CopiesFollowRanks, LayoutInit, CustomBlocks
<1>7. VectorIsFilled
  BY <1>1, <1>3, <1>4 DEF VectorIsFilled
<1>8. VectorFollowsRanks
  <2> HIDE DEF psd
  <2>1. ASSUME NEW b \in Blocks PROVE Holds(b, BlockOffset(rank_list, b), dim[b] * rank_list[b])
    <3> SUFFICES ASSUME NEW k \in 0..(dim[b] * rank_list[b] - 1)
                 PROVE  /\ BlockOffset(rank_list, b) + k \in DOMAIN low_rank_solution
                        /\ low_rank_solution[BlockOffset(rank_list, b) + k] = <<b, k>>
      BY DEF Holds
    <3> DEFINE i == BlockOffset(rank_list, b) + k
    <3>1. i \in 0..(psd - 1) /\ BlockAt(rank_list, i) = b
      BY <1>2, BlockAtOf DEF psd
    <3>2. i \in 0..(psd + lp_dim + free_dim - 1) /\ i < psd
      BY <1>1, <1>3, <3>1
    <3>3. low_rank_solution[i] = <<b, i - BlockOffset(rank_list, b)>>
      BY <1>4, <3>1, <3>2
    <3>4. i - BlockOffset(rank_list, b) = k
      BY <1>3
    <3> QED BY <1>4, <3>2, <3>3, <3>4
  <2>2. Holds(LP, psd, lp_dim)
    BY <1>1, <1>3, <1>4 DEF Holds
  <2>3. Holds(Free, psd + lp_dim, free_dim)
    BY <1>1, <1>3, <1>4 DEF Holds
  <2> QED BY <2>1, <2>2, <2>3 DEF VectorFollowsRanks, psd
<1>9. FactorCompleteWithLp
  BY <1>1 DEF FactorCompleteWithLp
<1> QED BY <1>5, <1>6, <1>7, <1>8, <1>9 DEF Inv

\* A lift moves every number to where the new layout has it.
LEMMA AugmentInv ==
  ASSUME Inv, NEW rank_incs \in [Blocks -> 0..MaxDirections], augment_system_rank(rank_incs)
  PROVE  Inv'
<1> DEFINE ranks == [b \in Blocks |-> new_rank(b, rank_incs[b])]
           at == [b \in Blocks |-> BlockOffset(ranks, b)]
           psd == PsdLength(ranks)
           before == PsdLength(rank_list)
<1>1. /\ phase = "solving" /\ phase' = phase
      /\ lp_dim' = lp_dim /\ lp_dim \in LpDims /\ lp_dim \in Nat
      /\ free_dim' = free_dim /\ free_dim \in FreeDims /\ free_dim \in Nat
      /\ rank_list \in [Blocks -> Nat]
  BY ShapeAssumption DEF Inv, LayoutOK, augment_system_rank
<1>2. /\ rank_list' = ranks
      /\ solution' = at
      /\ low_rank_solution' = Moved(ranks, at)
      /\ length_low_rank_solution' = psd + lp_dim + free_dim
      /\ lbfgs_buf_capacity_n' = NextCapacity(psd + lp_dim + free_dim)
      /\ lp_solution_offset' = NextLpOffset(psd)
      /\ free_dim > 0 => free_solution_offset' = psd + lp_dim
      /\ d_ranks' = [b \in CustomBlocks |-> rank_list'[b]]
      /\ d_R_offsets' = [b \in CustomBlocks |-> solution'[b]]
  BY DEF augment_system_rank, refresh_cone_batches
<1>3. /\ ranks \in [Blocks -> Nat]
      /\ \A b \in Blocks : ranks[b] <= max_allowed_rank(b)
  <2>1. \A b \in Blocks : rank_list[b] + rank_incs[b] \in Nat
    BY <1>1, ShapeAssumption
  <2> QED BY <2>1, MaxRanks DEF new_rank
<1> HIDE DEF ranks
<1>4. /\ psd \in Nat
      /\ \A b \in Blocks : /\ BlockOffset(ranks, b) \in Nat
                           /\ dim[b] * ranks[b] \in Nat
                           /\ BlockOffset(ranks, b) + dim[b] * ranks[b] <= psd
  BY <1>3, Offsets
<1>5. /\ before \in Nat
      /\ \A b \in Blocks : BlockOffset(rank_list, b) \in Nat /\ dim[b] * rank_list[b] \in Nat
  BY <1>1, Offsets
<1> HIDE DEF at, psd, before
<1>6. LayoutOK'
  BY <1>1, <1>2, <1>3, <1>4 DEF LayoutOK, Inv, NextCapacity
<1>7. CopiesFollowRanks'
  BY <1>1, <1>2 DEF CopiesFollowRanks, NextLpOffset, at, psd
<1>8. low_rank_solution' =
        [i \in 0..(psd + lp_dim + free_dim - 1) |->
           IF i < psd
           THEN IF i - at[BlockAt(ranks, i)] < dim[BlockAt(ranks, i)] * rank_list[BlockAt(ranks, i)]
                THEN low_rank_solution[BlockOffset(rank_list, BlockAt(ranks, i))
                                         + (i - at[BlockAt(ranks, i)])]
                ELSE <<BlockAt(ranks, i), i - at[BlockAt(ranks, i)]>>
           ELSE IF i < psd + lp_dim
           THEN low_rank_solution[lp_solution_offset + i - psd]
           ELSE low_rank_solution[free_solution_offset + i - psd - lp_dim]]
  BY <1>2 DEF Moved, psd
<1>9. VectorIsFilled'
  <2>1. PsdLength(rank_list)' = psd
    BY <1>2 DEF psd, PsdLength, BlockOffset
  <2>2. DOMAIN low_rank_solution' = 0..(psd + lp_dim + free_dim - 1)
    BY <1>8
  <2>3. psd + lp_dim + free_dim <= NextCapacity(psd + lp_dim + free_dim)
    BY <1>1, <1>4 DEF NextCapacity, Inv, LayoutOK
  <2>4. length_low_rank_solution' = PsdLength(rank_list)' + lp_dim' + free_dim'
    BY <1>1, <1>2, <2>1
  <2>5. DOMAIN low_rank_solution' = 0..(length_low_rank_solution' - 1)
    <3>1. length_low_rank_solution' = psd + lp_dim + free_dim
      BY <1>2
    <3> QED BY <1>1, <1>4, <2>2, <3>1
  <2>6. length_low_rank_solution' <= lbfgs_buf_capacity_n'
    BY <1>2, <2>3
  <2> QED BY <2>4, <2>5, <2>6 DEF VectorIsFilled
<1>10. ASSUME NEW b \in Blocks, NEW k \in 0..(dim[b] * ranks[b] - 1)
       PROVE  /\ BlockOffset(ranks, b) + k \in DOMAIN low_rank_solution'
              /\ low_rank_solution'[BlockOffset(ranks, b) + k] = <<b, k>>
  <2> DEFINE i == BlockOffset(ranks, b) + k
  <2>1. i \in 0..(psd - 1) /\ BlockAt(ranks, i) = b
    BY <1>3, BlockAtOf DEF psd
  <2>2. i \in 0..(psd + lp_dim + free_dim - 1) /\ i < psd
    BY <1>1, <1>4, <2>1
  <2>3. i - at[b] = k
    BY <1>4 DEF at
  <2> HIDE DEF i
  <2>4. low_rank_solution'[i] = IF k < dim[b] * rank_list[b]
                                THEN low_rank_solution[BlockOffset(rank_list, b) + k]
                                ELSE <<b, k>>
    BY <1>8, <2>1, <2>2, <2>3
  <2>5. k < dim[b] * rank_list[b] => low_rank_solution[BlockOffset(rank_list, b) + k] = <<b, k>>
    <3>1. Holds(b, BlockOffset(rank_list, b), dim[b] * rank_list[b])
      BY DEF Inv, VectorFollowsRanks
    <3> QED BY <1>4, <1>5, <3>1 DEF Holds
  <2>6. i \in DOMAIN low_rank_solution'
    BY <1>8, <2>2
  <2> QED BY <2>4, <2>5, <2>6 DEF i
<1>11. ASSUME NEW k \in 0..(lp_dim - 1)
       PROVE  /\ psd + k \in DOMAIN low_rank_solution'
              /\ low_rank_solution'[psd + k] = <<LP, k>>
  <2>1. lp_solution_offset = before
    BY <1>1 DEF Inv, CopiesFollowRanks, before
  <2>2. low_rank_solution[before + k] = <<LP, k>>
    BY DEF Inv, VectorFollowsRanks, Holds, before
  <2>3. /\ psd + k \in 0..(psd + lp_dim + free_dim - 1)
        /\ ~ psd + k < psd /\ psd + k < psd + lp_dim
        /\ lp_solution_offset + (psd + k) - psd = before + k
    BY <1>1, <1>4, <1>5, <2>1
  <2> QED BY <1>8, <2>2, <2>3
<1>12. ASSUME NEW k \in 0..(free_dim - 1)
       PROVE  /\ psd + lp_dim + k \in DOMAIN low_rank_solution'
              /\ low_rank_solution'[psd + lp_dim + k] = <<Free, k>>
  <2>1. free_solution_offset = before + lp_dim
    BY <1>1 DEF Inv, CopiesFollowRanks, before
  <2>2. low_rank_solution[before + lp_dim + k] = <<Free, k>>
    BY DEF Inv, VectorFollowsRanks, Holds, before
  <2>3. /\ psd + lp_dim + k \in 0..(psd + lp_dim + free_dim - 1)
        /\ ~ psd + lp_dim + k < psd /\ ~ psd + lp_dim + k < psd + lp_dim
        /\ free_solution_offset + (psd + lp_dim + k) - psd - lp_dim = before + lp_dim + k
    BY <1>1, <1>4, <1>5, <2>1
  <2> QED BY <1>8, <2>2, <2>3
<1>13. VectorFollowsRanks'
  BY <1>1, <1>2, <1>10, <1>11, <1>12 DEF VectorFollowsRanks, Holds, psd
<1>14. FactorCompleteWithLp'
  BY <1>1 DEF FactorCompleteWithLp
<1> QED BY <1>6, <1>7, <1>9, <1>13, <1>14 DEF Inv

\* Returning the result leaves the layout alone.
LEMMA ReturnInv ==
  ASSUME Inv, create_result_from_state
  PROVE  Inv'
<1>1. /\ phase' = "returned"
      /\ psd_factor_length' = lp_solution_offset
      /\ UNCHANGED <<lp_dim, free_dim, layout>>
  BY DEF create_result_from_state
<1>2. /\ UNCHANGED <<lp_dim, free_dim, rank_list, solution, low_rank_solution>>
      /\ UNCHANGED <<length_low_rank_solution, lp_solution_offset, free_solution_offset>>
      /\ UNCHANGED <<lbfgs_buf_capacity_n, d_R_offsets, d_ranks>>
  BY <1>1 DEF layout
<1>3. LayoutOK'
  BY <1>1, <1>2 DEF Inv, LayoutOK
<1>4. CopiesFollowRanks'
  BY <1>2 DEF Inv, CopiesFollowRanks
<1>5. VectorIsFilled'
  BY <1>2 DEF Inv, VectorIsFilled
<1>6. VectorFollowsRanks'
  BY <1>2 DEF Inv, VectorFollowsRanks, Holds
<1>7. FactorCompleteWithLp'
  BY <1>1, <1>2 DEF Inv, CopiesFollowRanks, FactorCompleteWithLp
<1> QED BY <1>3, <1>4, <1>5, <1>6, <1>7 DEF Inv

LEMMA StutterInv ==
  ASSUME Inv, UNCHANGED layout_vars
  PROVE  Inv'
<1>1. UNCHANGED <<phase, lp_dim, free_dim, layout, psd_factor_length>>
  BY DEF layout_vars
<1>2. /\ UNCHANGED <<phase, psd_factor_length>>
      /\ UNCHANGED <<lp_dim, free_dim, rank_list, solution, low_rank_solution>>
      /\ UNCHANGED <<length_low_rank_solution, lp_solution_offset, free_solution_offset>>
      /\ UNCHANGED <<lbfgs_buf_capacity_n, d_R_offsets, d_ranks>>
  BY <1>1 DEF layout
<1>3. LayoutOK'
  BY <1>2 DEF Inv, LayoutOK
<1>4. CopiesFollowRanks'
  BY <1>2 DEF Inv, CopiesFollowRanks
<1>5. VectorIsFilled'
  BY <1>2 DEF Inv, VectorIsFilled
<1>6. VectorFollowsRanks'
  BY <1>2 DEF Inv, VectorFollowsRanks, Holds
<1>7. FactorCompleteWithLp'
  BY <1>2 DEF Inv, FactorCompleteWithLp
<1> QED BY <1>3, <1>4, <1>5, <1>6, <1>7 DEF Inv

\* The invariant is inductive: it holds when the solver starts, and lifts and
\* the return of the result (src/solver_state.cu) keep it.
THEOREM InvHolds == LayoutSpec => []Inv
<1>1. Inv /\ [LayoutNext]_layout_vars => Inv'
  BY AugmentInv, ReturnInv, StutterInv DEF LayoutNext
<1> QED BY LayoutInitInv, <1>1, PTL DEF LayoutSpec

-----------------------------------------------------------------------------
(* What follows for the readers of the vector.                             *)

\* No rank exceeds the bound of its block, whatever a lift asks for
\* (augment_system_rank).
THEOREM LayoutCorrect == LayoutSpec => []LayoutOK
<1>1. Inv => LayoutOK
  BY DEF Inv
<1> QED BY <1>1, InvHolds, PTL

\* The pointer of a block, the offsets and ranks of its batch, and the offsets
\* of the LP and free part lead to the numbers they stand for, after any
\* lifts: no reader is left with an old copy of the layout
\* (augment_system_rank, refresh_cone_batches).
THEOREM ReadersCorrect == LayoutSpec => []ReadersFindTheirNumbers
<1>1. Inv => ReadersFindTheirNumbers
  <2> SUFFICES ASSUME Inv PROVE ReadersFindTheirNumbers
    OBVIOUS
  <2>1. ASSUME NEW b \in Blocks PROVE Holds(b, solution[b], dim[b] * rank_list[b])
    BY DEF Inv, CopiesFollowRanks, VectorFollowsRanks
  <2>2. ASSUME NEW b \in CustomBlocks PROVE Holds(b, d_R_offsets[b], dim[b] * d_ranks[b])
    <3>1. b \in Blocks
      BY DEF CustomBlocks
    <3> QED BY <2>1, <3>1 DEF Inv, CopiesFollowRanks
  <2>3. lp_dim \in Nat /\ free_dim \in Nat
    BY ShapeAssumption DEF Inv, LayoutOK
  <2>4. Holds(LP, lp_solution_offset, lp_dim)
    <3>1. CASE lp_dim = 0
      BY <3>1 DEF Holds
    <3>2. CASE lp_dim > 0
      BY <3>2 DEF Inv, CopiesFollowRanks, VectorFollowsRanks
    <3> QED BY <2>3, <3>1, <3>2
  <2>5. Holds(Free, free_solution_offset, free_dim)
    <3>1. CASE free_dim = 0
      BY <3>1 DEF Holds
    <3>2. CASE free_dim > 0
      BY <3>2 DEF Inv, CopiesFollowRanks, VectorFollowsRanks
    <3> QED BY <2>3, <3>1, <3>2
  <2> QED BY <2>1, <2>2, <2>4, <2>5 DEF ReadersFindTheirNumbers
<1> QED BY <1>1, InvHolds, PTL

\* The parts fill the vector and the vector fits the columns of the L-BFGS
\* buffers, which grow with it (augment_system_rank).
THEOREM VectorFilled == LayoutSpec => []VectorIsFilled
<1>1. Inv => VectorIsFilled
  BY DEF Inv
<1> QED BY <1>1, InvHolds, PTL

\* With LP variables the returned psd_factor_length is the length of all the
\* factors (create_result_from_state takes it from lp_solution_offset).
THEOREM FactorComplete == LayoutSpec => []FactorCompleteWithLp
<1>1. Inv => FactorCompleteWithLp
  BY DEF Inv
<1> QED BY <1>1, InvHolds, PTL

-----------------------------------------------------------------------------
(* The ring of LbfgsHistory.                                               *)

USE DEF Exit, Empty

\* The remainder of what is already smaller.
LEMMA ModSmall == ASSUME NEW n \in Nat \ {0}, NEW a \in 0..(n - 1)
                  PROVE  a % n = a
  BY SMT

\* The remainder of what exceeds the divisor once.
LEMMA ModOnce == ASSUME NEW n \in Nat \ {0}, NEW a \in n..(2 * n - 1)
                 PROVE  a % n = a - n
  BY SMT

\* The slot i places before the newest, without a remainder.
LEMMA Position ==
  ASSUME NEW m \in Nat \ {0}, NEW h \in 0..(m - 1), NEW i \in 0..(m - 1)
  PROVE  CMod(h - 1 - i + m, m) = IF i < h THEN h - 1 - i ELSE h - 1 - i + m
<1>1. CMod(h - 1 - i + m, m) = (h - 1 - i + m) % m
  BY SMT DEF CMod
<1>2. CASE i < h
  <2>1. h - 1 - i + m \in m..(2 * m - 1)
    BY <1>2, SMT
  <2>2. (h - 1 - i + m) % m = h - 1 - i + m - m
    BY <2>1, ModOnce
  <2> QED BY <1>1, <1>2, <2>2, SMT
<1>3. CASE ~(i < h)
  <2>1. h - 1 - i + m \in 0..(m - 1)
    BY <1>3, SMT
  <2> QED BY <1>1, <1>3, <2>1, ModSmall, Zenon
<1> QED BY <1>2, <1>3, Zenon

\* The new head, without a remainder.
LEMMA HeadAfter ==
  ASSUME NEW m \in Nat \ {0}, NEW h \in 0..(m - 1)
  PROVE  (h + 1) % m = IF h + 1 < m THEN h + 1 ELSE 0
<1>1. CASE h + 1 < m
  <2>1. h + 1 \in 0..(m - 1)
    BY <1>1, SMT
  <2> QED BY <2>1, <1>1, ModSmall, Zenon
<1>2. CASE h + 1 = m
  <2>1. m \in m..(2 * m - 1)
    BY SMT
  <2>2. m % m = m - m
    BY <2>1, ModOnce, Zenon
  <2> QED BY <1>2, <2>2, SMT
<1> QED BY <1>1, <1>2, SMT

\* After a pair was stored, the newest slot is the old head, and the others
\* are one place further back; none of them is the slot overwritten.
LEMMA Shift ==
  ASSUME NEW m \in Nat \ {0}, NEW h \in 0..(m - 1), NEW i \in 0..(m - 1),
         NEW g, g = (h + 1) % m
  PROVE  /\ g \in 0..(m - 1)
         /\ i = 0 => CMod(g - 1 - i + m, m) = h
         /\ i > 0 => /\ CMod(g - 1 - i + m, m) = CMod(h - 1 - (i - 1) + m, m)
                     /\ CMod(g - 1 - i + m, m) # h
                     /\ CMod(g - 1 - i + m, m) \in 0..(m - 1)
<1>1. g = IF h + 1 < m THEN h + 1 ELSE 0
  BY HeadAfter, Zenon
<1>2. g \in 0..(m - 1)
  BY <1>1, SMT
<1>3. CMod(g - 1 - i + m, m) = IF i < g THEN g - 1 - i ELSE g - 1 - i + m
  BY <1>2, Position, Zenon
<1>4. ASSUME i > 0
      PROVE  CMod(h - 1 - (i - 1) + m, m)
               = IF i - 1 < h THEN h - 1 - (i - 1) ELSE h - 1 - (i - 1) + m
  <2>1. i - 1 \in 0..(m - 1)
    BY <1>4, SMT
  <2> QED BY <2>1, Position, Zenon
<1> QED BY <1>1, <1>2, <1>3, <1>4, SMT
-----------------------------------------------------------------------------
\* m_lbfgs is the length of a ring that has slots.
LEMMA RingLength == TypeOK => m_lbfgs \in Nat \ {0}
  BY BoundsAssumption, SMT DEF TypeOK

\* Nothing is counted in the empty ring.
LEMMA InitInv == Init => IInv
  BY BoundsAssumption, SMT DEF Init, IInv, TypeOK, SolveInv

\* A solve starts with an empty ring, whatever the slots still hold.
LEMMA StartInv == IInv /\ Start => IInv'
  BY BoundsAssumption, SMT DEF Start, IInv, TypeOK, SolveInv, newest

\* The exits leave the ring, and no solve is running after them.
LEMMA ConvergedInv == IInv /\ Converged => IInv'
  BY SMT DEF Converged, IInv, TypeOK, SolveInv, ring

\* In the first iteration there is no pair, and the copies are made.
LEMMA FirstIterationInv == IInv /\ FirstIteration => IInv'
  BY SMT DEF FirstIteration, IInv, TypeOK, SolveInv, ring, newest

\* A rejected pair empties the ring.
LEMMA RejectPairInv == IInv /\ RejectPair => IInv'
  BY BoundsAssumption, SMT DEF RejectPair, IInv, TypeOK, SolveInv, newest

\* Computing the direction only reads the ring.
LEMMA DirectionInv == IInv /\ Direction => IInv'
  BY SMT DEF Direction, IInv, TypeOK, SolveInv, ring, newest, Slot

\* The reset to steepest descent empties the ring.
LEMMA SteepestDescentInv == IInv /\ SteepestDescent => IInv'
  BY BoundsAssumption, SMT DEF SteepestDescent, IInv, TypeOK, SolveInv, newest

\* A stalled line search ends the solve.
LEMMA TauStallInv == IInv /\ TauStall => IInv'
  BY SMT DEF TauStall, IInv, TypeOK, SolveInv, ring

\* A step makes the copies lag behind the point by one; what was the newest
\* pair still is.
LEMMA TakeStepInv == IInv /\ TakeStep => IInv'
<1> SUFFICES ASSUME IInv, TakeStep PROVE IInv'
  OBVIOUS
<1> USE DEF IInv, TakeStep
<1>1. inner' = inner + 1 /\ inner' \in 0..inner_iterations_limit
  BY BoundsAssumption, SMT DEF TypeOK, SolveInv
<1>2. UNCHANGED ring /\ \A i : Slot(i)' = Slot(i)
  BY SMT DEF ring, Slot
<1>3. TypeOK'
  BY <1>1, SMT DEF TypeOK, ring
<1>4. pc' # "idle" => pc' = "history" /\ newest' = newest
  BY <1>1, SMT DEF TypeOK, newest
<1>5. SolveInv'
  BY <1>1, <1>2, <1>4, SMT DEF TypeOK, SolveInv, ring, newest
<1> QED BY <1>3, <1>5, Zenon

\* The new pair takes the slot of the oldest; the others keep their order.
LEMMA StorePairInv == IInv /\ StorePair => IInv'
<1> SUFFICES ASSUME IInv, StorePair PROVE IInv'
  OBVIOUS
<1> USE DEF IInv, StorePair
<1>1. /\ m_lbfgs \in Nat \ {0} /\ m_lbfgs' = m_lbfgs
      /\ head \in 0..(m_lbfgs - 1)
      /\ history_size \in 0..m_lbfgs
      /\ solve' = solve /\ inner' = inner /\ point' = point
  BY RingLength, SMT DEF TypeOK
<1>2. NewPair = <<solve, inner>> /\ NewPair \in Pairs
  BY SMT DEF NewPair, TypeOK, SolveInv, Pairs
<1>3. /\ history_size' = IF history_size < m_lbfgs
                         THEN history_size + 1 ELSE history_size
      /\ history_size' \in 1..m_lbfgs
      /\ head' = (head + 1) % m_lbfgs
  BY <1>1, SMT DEF NextSize, NextHead
<1>4. 0 \in 0..(m_lbfgs - 1)
  BY <1>1, SMT
<1>5. head' \in 0..(m_lbfgs - 1)
  BY <1>1, <1>3, <1>4, Shift, Zenon
<1>6. TypeOK'
  BY <1>1, <1>2, <1>3, <1>5, SMT DEF TypeOK, SolveInv
<1>7. newest = inner - 1 /\ newest' = inner
  BY <1>1, SMT DEF newest
<1>8. ASSUME NEW i \in 0..(history_size' - 1)
      PROVE  slots'[Slot(i)'] = <<solve, inner - i>>
               /\ rho'[Slot(i)'] = slots'[Slot(i)']
  <2>1. i \in 0..(m_lbfgs - 1)
    BY <1>1, <1>3, SMT
  <2>2. Slot(i)' = CMod(head' - 1 - i + m_lbfgs, m_lbfgs)
    BY <1>1, Zenon DEF Slot
  <2>3. /\ i = 0 => CMod(head' - 1 - i + m_lbfgs, m_lbfgs) = head
        /\ i > 0 => /\ CMod(head' - 1 - i + m_lbfgs, m_lbfgs)
                         = CMod(head - 1 - (i - 1) + m_lbfgs, m_lbfgs)
                    /\ CMod(head' - 1 - i + m_lbfgs, m_lbfgs) # head
                    /\ CMod(head' - 1 - i + m_lbfgs, m_lbfgs)
                         \in 0..(m_lbfgs - 1)
    BY <1>1, <1>3, <2>1, Shift, Zenon
  <2>4. CASE i = 0
    <3>1. Slot(i)' = head
      BY <2>2, <2>4, <2>3, Zenon
    <3> QED BY <1>1, <1>2, <2>4, <3>1, SMT DEF TypeOK
  <2>5. CASE i > 0
    <3>1. /\ Slot(i)' = CMod(head - 1 - (i - 1) + m_lbfgs, m_lbfgs)
          /\ Slot(i)' # head
          /\ Slot(i)' \in 0..(m_lbfgs - 1)
      BY <2>2, <2>5, <2>3, Zenon
    <3>2. Slot(i)' = Slot(i - 1)
      BY <3>1, Zenon DEF Slot
    <3>3. i - 1 \in 0..(history_size - 1)
      BY <1>1, <1>3, <2>5, SMT
    <3>4. /\ slots[Slot(i - 1)] = <<solve, newest - (i - 1)>>
          /\ rho[Slot(i - 1)] = slots[Slot(i - 1)]
      BY <3>3, Zenon DEF SolveInv
    <3>5. newest - (i - 1) = inner - i
      BY <1>7, <2>1, SMT DEF TypeOK
    <3>6. slots'[Slot(i)'] = slots[Slot(i)'] /\ rho'[Slot(i)'] = rho[Slot(i)']
      BY <1>1, <3>1, Zenon DEF TypeOK
    <3> QED BY <3>2, <3>4, <3>5, <3>6, Zenon
  <2> QED BY <2>1, <2>4, <2>5, SMT
<1>9. SolveInv'
  <2>1. history_size' <= newest' + 1
    BY <1>1, <1>3, <1>7, SMT DEF TypeOK, SolveInv
  <2> QED BY <1>1, <1>7, <1>8, <2>1, SMT DEF TypeOK, SolveInv
<1> QED BY <1>6, <1>9, Zenon

\* IInv is inductive.
LEMMA Inductive == IInv /\ [Next]_vars => IInv'
<1> SUFFICES ASSUME IInv, [Next]_vars PROVE IInv'
  OBVIOUS
<1>1. CASE UNCHANGED vars
  BY <1>1, SMT DEF vars, ring, IInv, TypeOK, SolveInv, newest, Slot
<1>2. CASE Next
  BY <1>2, StartInv, ConvergedInv, FirstIterationInv, StorePairInv,
     RejectPairInv, DirectionInv, SteepestDescentInv, TauStallInv, TakeStepInv,
     Zenon DEF Next
<1> QED BY <1>1, <1>2, Zenon

\* IInv holds in every reachable state.
LEMMA Invariance == Spec => []IInv
  BY InitInv, Inductive, PTL DEF Spec
-----------------------------------------------------------------------------
\* The ring never leaves its bounds, for every history size and every number
\* of iterations and solves: head and history_size address slots that exist.
THEOREM TypeCorrect == Spec => []TypeOK
<1>1. IInv => TypeOK
  BY Zenon DEF IInv
<1> QED BY <1>1, Invariance, PTL

\* The recursion reads the pairs of the present solve and of consecutive
\* iterations, newest first, from slots that exist.
THEOREM RecentPairs == Spec => []WindowIsRecent
<1>1. IInv => WindowIsRecent
  <2> SUFFICES ASSUME IInv, pc = "direction", NEW i \in 0..(history_size - 1)
               PROVE  /\ Slot(i) \in 0..(m_lbfgs - 1)
                      /\ slots[Slot(i)] = <<solve, inner - i>>
                      /\ rho[Slot(i)] = slots[Slot(i)]
    BY Zenon DEF WindowIsRecent
  <2>1. /\ m_lbfgs \in Nat \ {0}
        /\ head \in 0..(m_lbfgs - 1)
        /\ i \in 0..(m_lbfgs - 1)
    BY RingLength, SMT DEF IInv, TypeOK
  <2>2. Slot(i) = IF i < head THEN head - 1 - i ELSE head - 1 - i + m_lbfgs
    BY <2>1, Position, Zenon DEF Slot
  <2>3. Slot(i) \in 0..(m_lbfgs - 1)
    BY <2>1, <2>2, SMT
  <2> QED BY <2>3, Zenon DEF IInv, SolveInv, newest
<1> QED BY <1>1, Invariance, PTL
-----------------------------------------------------------------------------
(* The ring implements the window. *)

\* The window is a sequence of pairs, read from the ring.
LEMMA WindowIsSequence ==
  IInv => /\ window \in Seq(Pairs \cup {Empty})
          /\ Len(window) = history_size
          /\ \A i \in 1..history_size : window[i] = slots[Slot(history_size - i)]
<1> SUFFICES ASSUME IInv
             PROVE  /\ window \in Seq(Pairs \cup {Empty})
                    /\ Len(window) = history_size
                    /\ \A i \in 1..history_size :
                         window[i] = slots[Slot(history_size - i)]
  OBVIOUS
<1>1. /\ m_lbfgs \in Nat \ {0}
      /\ head \in 0..(m_lbfgs - 1)
      /\ history_size \in 0..m_lbfgs
  BY RingLength, SMT DEF IInv, TypeOK
<1>2. ASSUME NEW i \in 1..history_size
      PROVE  slots[Slot(history_size - i)] \in Pairs \cup {Empty}
  <2>1. history_size - i \in 0..(m_lbfgs - 1)
    BY <1>1, SMT
  <2>2. Slot(history_size - i)
          = IF history_size - i < head THEN head - 1 - (history_size - i)
            ELSE head - 1 - (history_size - i) + m_lbfgs
    BY <1>1, <2>1, Position, Zenon DEF Slot
  <2>3. Slot(history_size - i) \in 0..(m_lbfgs - 1)
    BY <1>1, <2>1, <2>2, SMT
  <2> QED BY <2>3, SMT DEF IInv, TypeOK
<1> HIDE DEF Empty
<1>3. window \in Seq(Pairs \cup {Empty}) /\ Len(window) = history_size
  BY <1>1, <1>2, SMT DEF window
<1>4. \A i \in 1..history_size : window[i] = slots[Slot(history_size - i)]
  BY Zenon DEF window
<1> QED BY <1>3, <1>4, Zenon

\* The window of an empty ring is empty.
LEMMA EmptyWindow == history_size = 0 => window = << >>
  BY SMT DEF window

\* Storing a pair in the ring appends it to the window, which first loses its
\* oldest pair if it is full.
LEMMA StorePairRemembers ==
  IInv /\ IInv' /\ StorePair => Window!Remember(NewPair) /\ NewPair \in Pairs
<1> SUFFICES ASSUME IInv, IInv', StorePair
             PROVE  Window!Remember(NewPair) /\ NewPair \in Pairs
  OBVIOUS
<1> DEFINE Pair == Pairs \cup {Empty}
           kept == IF Len(window) < m_lbfgs THEN window ELSE Tail(window)
<1>1. /\ m_lbfgs \in Nat \ {0} /\ m_lbfgs' = m_lbfgs
      /\ head \in 0..(m_lbfgs - 1)
      /\ history_size \in 0..m_lbfgs
      /\ head' = (head + 1) % m_lbfgs
      /\ history_size' = IF history_size < m_lbfgs
                         THEN history_size + 1 ELSE history_size
  BY RingLength, SMT DEF IInv, TypeOK, StorePair, NextHead, NextSize
<1>2. NewPair \in Pairs
  BY SMT DEF NewPair, IInv, TypeOK, SolveInv, Pairs, StorePair
<1>3. /\ window \in Seq(Pair)
      /\ Len(window) = history_size
      /\ \A i \in 1..history_size : window[i] = slots[Slot(history_size - i)]
  BY WindowIsSequence, Zenon
<1>4. (IInv => /\ window \in Seq(Pairs \cup {Empty})
               /\ Len(window) = history_size
               /\ \A i \in 1..history_size :
                    window[i] = slots[Slot(history_size - i)])'
  BY WindowIsSequence, PTL
<1>5. /\ window' \in Seq(Pair)
      /\ Len(window') = history_size'
      /\ \A i \in 1..history_size' :
           window'[i] = slots'[Slot(history_size - i)']
  BY <1>4, Zenon
<1>6. /\ kept \in Seq(Pair)
      /\ Len(kept) = history_size' - 1
      /\ \A i \in 1..(history_size' - 1) :
           kept[i] = window[i + history_size - (history_size' - 1)]
  <2>1. CASE history_size < m_lbfgs
    BY <1>1, <1>3, <2>1, SMT
  <2>2. CASE history_size = m_lbfgs
    <3>1. window # << >>
      BY <1>1, <1>3, <2>2, SMT
    <3>2. /\ Tail(window) \in Seq(Pair)
          /\ Len(Tail(window)) = Len(window) - 1
          /\ \A i \in 1..Len(Tail(window)) : Tail(window)[i] = window[i + 1]
      BY <1>3, <3>1, HeadTailProperties, Zenon
    <3> QED BY <1>1, <1>3, <2>2, <3>2, SMT
  <2> QED BY <1>1, <2>1, <2>2, SMT
<1>7. <<NewPair>> \in Seq(Pair) /\ Len(<<NewPair>>) = 1
  BY <1>2, SMT
<1> HIDE DEF kept, Pair
<1>8. /\ kept \o <<NewPair>> \in Seq(Pair)
      /\ Len(kept \o <<NewPair>>) = Len(kept) + Len(<<NewPair>>)
      /\ \A i \in 1..Len(kept) + Len(<<NewPair>>) :
           (kept \o <<NewPair>>)[i]
             = IF i <= Len(kept) THEN kept[i] ELSE <<NewPair>>[i - Len(kept)]
  BY <1>6, <1>7, ConcatProperties, Zenon
<1>9. \A k \in 0..(m_lbfgs - 1) :
         /\ k = 0 => CMod(head' - 1 - k + m_lbfgs, m_lbfgs) = head
         /\ k > 0 => /\ CMod(head' - 1 - k + m_lbfgs, m_lbfgs)
                           = CMod(head - 1 - (k - 1) + m_lbfgs, m_lbfgs)
                     /\ CMod(head' - 1 - k + m_lbfgs, m_lbfgs) # head
                     /\ CMod(head' - 1 - k + m_lbfgs, m_lbfgs) \in 0..(m_lbfgs - 1)
  <2>1. TAKE k \in 0..(m_lbfgs - 1)
  <2>2. head' = (head + 1) % m_lbfgs /\ m_lbfgs \in Nat \ {0}
          /\ head \in 0..(m_lbfgs - 1)
    BY <1>1, Zenon
  <2> QED BY <2>2, Shift, Zenon
<1>10. ASSUME NEW i \in 1..history_size'
      PROVE  window'[i] = (kept \o <<NewPair>>)[i]
  <2>1. i = history_size' \/ i < history_size'
    BY <1>1, SMT
  <2>2. window'[i] = slots'[CMod(head' - 1 - (history_size' - i) + m_lbfgs, m_lbfgs)]
    BY <1>1, <1>5, Zenon DEF Slot
  <2>3. history_size' - i \in 0..(m_lbfgs - 1)
    BY <1>1, SMT
  <2>4. /\ history_size' - i = 0
             => CMod(head' - 1 - (history_size' - i) + m_lbfgs, m_lbfgs) = head
        /\ history_size' - i > 0
             => /\ CMod(head' - 1 - (history_size' - i) + m_lbfgs, m_lbfgs)
                     = CMod(head - 1 - (history_size' - i - 1) + m_lbfgs, m_lbfgs)
                /\ CMod(head' - 1 - (history_size' - i) + m_lbfgs, m_lbfgs) # head
                /\ CMod(head' - 1 - (history_size' - i) + m_lbfgs, m_lbfgs)
                     \in 0..(m_lbfgs - 1)
    BY <2>3, <1>9, Zenon
  <2>5. CASE i = history_size'
    <3>1. window'[i] = slots'[head]
      BY <1>1, <2>2, <2>4, <2>5, SMT
    <3>2. slots'[head] = NewPair
      BY <1>1, SMT DEF StorePair, IInv, TypeOK
    <3>3. (kept \o <<NewPair>>)[i] = NewPair
      BY <1>1, <1>6, <1>7, <1>8, <2>5, SMT
    <3> QED BY <3>1, <3>2, <3>3, Zenon
  <2>6. CASE i < history_size'
    <3> DEFINE j == i + history_size - (history_size' - 1)
    <3>1. /\ j \in 1..history_size
          /\ history_size' - i > 0
          /\ history_size' - i - 1 = history_size - j
          /\ i \in 1..(history_size' - 1)
      BY <1>1, <2>6, SMT
    <3>2. /\ window'[i] = slots'[Slot(history_size - j)]
          /\ Slot(history_size - j) # head
          /\ Slot(history_size - j) \in 0..(m_lbfgs - 1)
      BY <2>2, <2>4, <3>1, Zenon DEF Slot
    <3>3. slots'[Slot(history_size - j)] = slots[Slot(history_size - j)]
      BY <3>2, Zenon DEF StorePair, IInv, TypeOK
    <3>4. window[j] = slots[Slot(history_size - j)]
      BY <1>3, <3>1, Zenon
    <3>5. kept[i] = window[j]
      BY <1>6, <3>1, Zenon
    <3>6. (kept \o <<NewPair>>)[i] = kept[i]
      BY <1>1, <1>6, <1>7, <1>8, <2>6, SMT
    <3> QED BY <3>2, <3>3, <3>4, <3>5, <3>6, Zenon
  <2> QED BY <2>1, <2>5, <2>6, Zenon
<1>11. Len(window') = Len(kept \o <<NewPair>>)
  BY <1>1, <1>5, <1>6, <1>7, <1>8, SMT
<1>12. window' = kept \o <<NewPair>>
  BY <1>5, <1>8, <1>10, <1>11, SeqEqual, Zenon
<1> QED BY <1>1, <1>2, <1>12, Zenon DEF kept, Window!Remember

\* Every step of the ring is a step of the window, or leaves it alone.
LEMMA StepRefines ==
  IInv /\ IInv' /\ [Next]_vars => [Window!Next]_<<m_lbfgs, window>>
<1> SUFFICES ASSUME IInv, IInv', [Next]_vars
             PROVE  [Window!Next]_<<m_lbfgs, window>>
  OBVIOUS
<1>1. ASSUME UNCHANGED <<m_lbfgs, ring>>
      PROVE  UNCHANGED <<m_lbfgs, window>>
  BY <1>1, SMT DEF ring, window, Slot
<1>2. ASSUME history_size' = 0, m_lbfgs' = m_lbfgs
      PROVE  Window!Forget
  <2>1. (history_size = 0 => window = << >>)'
    BY EmptyWindow, PTL
  <2> QED BY <1>2, <2>1, Zenon DEF Window!Forget
<1>3. CASE StorePair
  BY <1>3, StorePairRemembers, Zenon DEF Window!Next
<1>4. CASE Start \/ RejectPair \/ SteepestDescent
  BY <1>2, <1>4, Zenon DEF Start, RejectPair, SteepestDescent, Window!Next
<1>5. CASE Converged \/ FirstIteration \/ Direction \/ TauStall \/ TakeStep
  BY <1>1, <1>5, Zenon
     DEF Converged, FirstIteration, Direction, TauStall, TakeStep
<1>6. CASE UNCHANGED vars
  BY <1>1, <1>6, Zenon DEF vars
<1> QED BY <1>3, <1>4, <1>5, <1>6, Zenon DEF Next

\* The ring buffer implements the window of the most recent pairs: storing in
\* the ring is remembering, resetting its two indices is forgetting.
THEOREM RingImplementsWindow == Spec => WindowSpec
<1>1. Init => Window!Init
  BY EmptyWindow, Zenon DEF Init, Window!Init
<1> QED BY <1>1, Invariance, StepRefines, PTL DEF Spec, WindowSpec, Window!Spec
==============================================================================
