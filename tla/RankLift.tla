------------------------------ MODULE RankLift ------------------------------
(***************************************************************************)
(* The joint rank lift of src/rank_lift.cu without its calls: which of the *)
(* negative directions of the blocks are kept, the variables of the        *)
(* subproblem over them, the part of its solution a process takes, and how *)
(* many columns come of it.                                                *)
(*                                                                         *)
(* eig[b][i] is the eigenvalue of direction i of the local block b.        *)
(***************************************************************************)
EXTENDS Layout, Sequences, FiniteSets, SequencesExt

CONSTANTS per_cone_cap,   \* kRankLiftPerConeDirectionCap
          global_cap      \* kRankLiftGlobalDirectionCap

ASSUME CapsAssumption == per_cone_cap \in Nat \ {0} /\ global_cap \in Nat \ {0}

\* The candidates of a process, block after block, and their eigenvalues.
Candidates(eig) ==
  FlattenSeq([b \in DOMAIN eig |->
    [i \in DOMAIN AtMost(per_cone_cap, Ascending(eig[b])) |-> <<b, Ascending(eig[b])[i]>>]])
Strengths(eig) ==
  [i \in DOMAIN Candidates(eig) |-> eig[Candidates(eig)[i][1]][Candidates(eig)[i][2]]]

\* Where the part of the c-th process (from 0) of the cone axis starts in what
\* they all hand over.
NoDisplacement(parts, c) == 0                                     \* mutant
Displacement(parts, c) == Len(FlattenSeq(AtMost(c, parts)))

\* select_strongest_directions: the directions kept of each local block.
KeptBy(cap, eig, parts, c) ==
  LET strongest == ToSet(AtMost(cap, Ascending(FlattenSeq(parts))))
      kept(b) == {d \in DOMAIN eig[b] : \E i \in DOMAIN Candidates(eig) :
                    Candidates(eig)[i] = <<b, d>> /\ Displacement(parts, c) + i \in strongest}
  IN  [b \in DOMAIN eig |-> Sorted(kept(b), ByValue(eig[b]))]
select_strongest_directions(eig, parts, c) == KeptBy(global_cap, eig, parts, c)

-----------------------------------------------------------------------------
(* The subproblem.  A block of r directions has a variable for each, and in *)
(* the semidefinite form one for each pair after them, row by row.          *)

Pairs(r) ==
  Sorted({p \in (1..r) \X (1..r) : p[1] < p[2]},
         {q \in ((1..r) \X (1..r)) \X ((1..r) \X (1..r)) :
            q[1][1] < q[2][1] \/ (q[1][1] = q[2][1] /\ q[1][2] < q[2][2])})
Variables(c, selected, mode) ==
  FlattenSeq([b \in DOMAIN selected |->
    LET r == Len(selected[b])
    IN  [i \in 1..r |-> <<c, b, i, i>>]
          \o (IF mode = "sdp" THEN [k \in DOMAIN Pairs(r) |-> <<c, b>> \o Pairs(r)[k]]
              ELSE <<>>)])

\* The solutions considered: weights 0 and 1, which in the semidefinite form
\* make a diagonal or a rank-one matrix of each block; the shared scalar, in
\* the closed form or for a solver that fails; or none.
Weights(variables, mixed) ==
  LET directions == {SubSeq(v, 1, 3) : v \in {v \in ToSet(variables) : v[3] = v[4]}}
  IN  {[k \in DOMAIN variables |->
          LET v == variables[k]
          IN  IF {<<v[1], v[2], v[3]>>, <<v[1], v[2], v[4]>>} \subseteq on
                 /\ (v[3] = v[4] \/ mixed) THEN 1 ELSE 0] : on \in SUBSET directions}
solve_active_set_qp(variables) == Weights(variables, FALSE)
solve_semismooth_sdp(variables) == Weights(variables, FALSE) \union Weights(variables, TRUE)
Solutions(variables, mode) ==
  {[by |-> "none"], [by |-> "scalar"]}
    \union {[by |-> mode, weights |-> w] :
              w \in CASE mode = "closed" -> {}
                     [] mode = "qp" -> solve_active_set_qp(variables)
                     [] mode = "sdp" -> solve_semismooth_sdp(variables)}

\* The columns a process adds to each block: of the weights it takes those of
\* its own variables, and counts the positive ones (build_qp_or_closed_columns)
\* or the positive eigenvalues (build_sdp_columns): a matrix of zeros and ones
\* has as many as it has different rows that are not zero.
rank_incs(selected, own, displacement, solution) ==
  LET slice == SubSeq(solution.weights, displacement + 1, displacement + Len(own))
      weight(b, i, j) ==
        LET hits == {k \in DOMAIN own : Tail(own[k]) \in {<<b, i, j>>, <<b, j, i>>}}
        IN  IF hits = {} THEN 0 ELSE slice[CHOOSE k \in hits : TRUE]
      rows(b) == {{j \in DOMAIN selected[b] : weight(b, i, j) = 1} : i \in DOMAIN selected[b]}
  IN  [b \in DOMAIN selected |->
         CASE solution.by = "none" -> 0
           [] solution.by = "scalar" -> Len(selected[b])
           [] OTHER -> Cardinality(rows(b) \ {{}})]
=============================================================================
