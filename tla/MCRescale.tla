------------------------------ MODULE MCRescale ------------------------------
(***************************************************************************)
(* Rescale on two constraints over a cone of dimension 2, one of dimension *)
(* 1, an LP and a free variable, with a low-rank column in a constraint    *)
(* and one in the objective.                                               *)
(***************************************************************************)
EXTENDS Rescale, TLC

Entry(k, i, j) == <<<<k, i>>, <<k, j>>>>
Lp == <<<<0, 1>>>>
Free == <<<<-1, 1>>>>

Column(row, w, u) == [row |-> row, cone |-> 1, w |-> w, u |-> u]
Problem(a, d, b, w) ==
  [A |-> (<<1, Entry(1, 1, 1)>> :> a) @@ (<<1, Entry(1, 2, 1)>> :> 3)
           @@ (<<1, Lp>> :> d) @@ (<<2, Entry(2, 1, 1)>> :> -5)
           @@ (<<2, Entry(1, 2, 2)>> :> 0) @@ (<<2, Free>> :> 1),
   b |-> <<b, -2>>,
   c |-> (Entry(1, 1, 1) :> 2) @@ (Lp :> -1) @@ (Free :> w),
   L |-> <<Column(2, w, (<<1, 1>> :> 2) @@ (<<1, 2>> :> -1)),
           Column(objective, 3, (<<1, 2>> :> a))>>]

MCBlkDims == <<2, 1>>
MCGivens == {Problem(a, d, b, w) : a \in {-9, 2, 8}, d \in {-3, 6},
                                   b \in {0, 5}, w \in {-2, 4}}
MCSettings == [ruiz_iterations : {0, 1, 3}, has_alpha : BOOLEAN, alpha : 0..2,
               bound_objective : BOOLEAN, per_cone : BOOLEAN]
MCEpsilon == -7
MCSolutions ==
  {[R2 |-> [s \in Slots |-> s[1] + s[2]], x |-> [u \in LpUnits \union FreeUnits |-> u[1]],
    y |-> <<3, -4>>]}
=============================================================================
