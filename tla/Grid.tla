-------------------------------- MODULE Grid --------------------------------
(***************************************************************************)
(* The grid of processes (initialize_parallel_context of                   *)
(* src/distribution_utils.cu): d is its number of rows, of rank shares and *)
(* of cones.                                                               *)
(***************************************************************************)
EXTENDS Layout, Bags

CONSTANT world_size

ASSUME WorldAssumption == world_size \in Nat \ {0}

Procs == 0..(world_size - 1)
Coords(d, p) == <<(p \div d[3]) \div d[2], (p \div d[3]) % d[2], p % d[3]>>

\* What MPI_Allreduce adds up: every datum as often as the processes have it.
BagSum(bags) ==
  LET S == DOMAIN bags
  IN  [d \in UNION {DOMAIN bags[q] : q \in S} |->
         SumOver([q \in S |-> IF BagIn(d, bags[q]) THEN bags[q][d] ELSE 0], S)]
=============================================================================
