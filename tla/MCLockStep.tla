----------------------------- MODULE MCLockStep -----------------------------
EXTENDS LockStep, TLC

CONSTANT low_rank_objective

\* A solve on a grid: limits are the iterations, the steps of the middle loop
\* and the escapes from negative curvature it may take.
Setup(dims, block_dims, ranks, limits, mode, directions) ==
  [dims |-> dims, block_dims |-> block_dims, ranks |-> ranks, lp |-> 0, free |-> dims[3] - 1,
   scaled |-> dims # <<1, 4, 1>>, low_rank_objective |-> low_rank_objective,
   max_rank |-> 2, iteration_limit |-> limits[1], max_middle_iters |-> limits[2],
   max_curvature_escape_steps |-> limits[3], mode |-> mode, directions |-> directions]

\* The first cone of the grid owns two blocks, the second one.
TwoCones == <<<<2, 2>>, <<2>>>>
OneRank(shares) == [s \in 1..shares |-> <<<<1, 1>>, <<1>>>>]
\* The eigenvalues of the directions found in each: more than a block, or all
\* of them together, may keep, and a block without any.
Found == {<<<<<<-1>>, <<-3, -1>>>>, <<<<-1>>>>>>, <<<<<<>>, <<-1>>>>, <<<<-2, -3>>>>>>}

\* Every grid of four processes that splits an axis, and each augmentation.
MCSetups ==
  {Setup(<<2, 1, 2>>, TwoCones, OneRank(1), <<1, 1, 2>>, "sdp", Found),
   Setup(<<1, 2, 2>>, TwoCones, OneRank(2), <<1, 1, 1>>, "qp", Found),
   Setup(<<1, 1, 4>>, <<<<2>>, <<2>>, <<2>>, <<3>>>>, <<<<<<1>>, <<1>>, <<1>>, <<1>>>>>>,
         <<1, 2, 1>>, "qp", {<<<<<<-1>>>>, <<<<-4>>>>, <<<<-2>>>>, <<<<-3, -2, -1>>>>>>}),
   Setup(<<4, 1, 1>>, <<<<2, 2>>>>, <<<<<<1, 1>>>>>>, <<2, 1, 2>>, "closed",
         {<<<<<<-1, -2>>, <<-1>>>>>>, <<<<<<>>, <<>>>>>>}),
   Setup(<<2, 2, 1>>, <<<<2>>>>, <<<<<<1>>>>, <<<<1>>>>>>, <<2, 2, 1>>, "random",
         {<<<<<<>>>>>>, <<<<<<-1>>>>>>}),
   \* The first cone owns the linear cone alone.
   Setup(<<2, 1, 2>>, <<<<>>, <<2, 2>>>>, <<<<<<>>, <<1, 1>>>>>>, <<2, 1, 1>>, "random",
         {<<<<>>, <<<<>>, <<-1>>>>>>, <<<<>>, <<<<-1>>, <<-1>>>>>>}),
   Setup(<<1, 4, 1>>, <<<<4>>>>, <<<<<<1>>>>, <<<<1>>>>, <<<<1>>>>, <<<<1>>>>>>, <<2, 1, 2>>,
         "random", {<<<<<<-1>>>>>>})}

\* But for a low-rank objective they are setups the theorems are about.
ASSUME low_rank_objective \/ world_size # 4 \/ \A s \in MCSetups : DecideAlike(s)

\* Two processes, one on each row.
MCTwoRows ==
  {Setup(<<2, 1, 1>>, <<<<2>>>>, <<<<<<1>>>>>>, <<1, 1, 1>>, "random", {<<<<<<-1>>>>>>})}
=============================================================================
