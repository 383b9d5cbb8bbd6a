------------------------- MODULE MCDistributedSolve -------------------------
(***************************************************************************)
(* DistributedSolve on four processes: three constraints over a cone of    *)
(* dimension 2, two of dimension 1, an LP and a free variable, and a       *)
(* problem of low-rank columns only.                                       *)
(***************************************************************************)
EXTENDS DistributedSolve, TLC

Psd(row, k, i, j, val) == [row |-> row, i |-> <<k, i>>, j |-> <<k, j>>, val |-> val]
Linear(row, u, val) == [row |-> row, i |-> u, j |-> u, val |-> val]
Lp == <<0, 1>>
Free == <<-1, 1>>
Column(row, k, w, u) == [row |-> row, cone |-> k, w |-> w, u |-> u]

MCBlkDims == <<2, 1, 1>>

Mixed ==
  [constraints |-> <<Psd(3, 1, 2, 1, 4), Psd(1, 2, 1, 1, 3), Psd(1, 1, 1, 1, 2),
                     Linear(1, Free, 1), Psd(3, 1, 2, 1, 6), Psd(3, 3, 1, 1, -2)>>,
   objective |-> <<Psd(0, 1, 1, 2, 2), Psd(0, 3, 1, 1, 1), Linear(0, Lp, -1)>>,
   b |-> <<5, 0, -2>>,
   L |-> <<Column(2, 1, 3, (<<1, 1>> :> 2)), Column(objective, 2, 1, (<<2, 1>> :> 4)),
           Column(objective, 2, 1, (<<2, 1>> :> 4))>>]
Rowless ==
  [constraints |-> <<Psd(2, 2, 1, 1, 3)>>,
   objective |-> <<Linear(0, Free, 2)>>,
   b |-> <<1, 2, 3>>,
   L |-> <<Column(2, 1, 3, (<<1, 1>> :> 2) @@ (<<1, 2>> :> 5)),
           Column(1, 1, 1, (<<1, 2>> :> 7))>>]

Scaled == [ruiz_iterations |-> 1, has_alpha |-> TRUE, alpha |-> 1,
           bound_objective |-> TRUE, per_cone |-> FALSE]
Unscaled0 == [Scaled EXCEPT !.ruiz_iterations = 0, !.has_alpha = FALSE,
                            !.bound_objective = FALSE]

Call(input, grid, shuffle, s) ==
  [input |-> input, grid |-> grid, shuffle |-> shuffle, settings |-> s]
MCCalls ==
  {Call(Mixed, g, "col", Scaled) :
     g \in {null, <<2, 2, 1>>, <<1, 2, 2>>, <<2, 1, 2>>, <<1, 4, 1>>, <<1, 1, 4>>, <<3, 1, 1>>}}
    \union {Call(Mixed, g, h, Scaled) : g \in {<<2, 2, 0>>, <<2, 1, 2>>},
                                         h \in {"uniform", "block", "none"}}
    \union {Call(Rowless, g, h, Unscaled0) : g \in {null, <<2, 1, 2>>}, h \in {"col", "block"}}
MCConeSplitCalls == {Call(Mixed, <<1, 2, 2>>, "col", Scaled)}
MCEpsilon == -7
MCFactor(k, i, j, c) == k + 2 * i + 10 * j + 30 * c
MCLinearShare(u, j) == 3 * j + u[1]
MCMultiplier(r) == 4 * r
=============================================================================
