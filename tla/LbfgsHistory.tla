---------------------------- MODULE LbfgsHistory ----------------------------
(***************************************************************************)
(* The curvature history of SOLVE_INNER_LBFGS (internal/inner_solvers.cuh):*)
(* a ring of m_lbfgs slots in buffers that outlive the solve, addressed by *)
(* head and history_size, which do not.                                    *)
(*                                                                         *)
(* Vectors are data.  A pair (s, y) is named by the solve and the iteration*)
(* that computed it; a point (R, Gradient) by the solve and the steps taken*)
(* to it.  Whether s'y > 1e-10, whether the direction descends, whether    *)
(* the line search stalls and whether the gradient is small are choices.   *)
(***************************************************************************)
EXTENDS Integers, Sequences

CONSTANTS
  HistorySizes,            \* the values lbfgs_history_size may have
  inner_iterations_limit,
  MaxSolves                \* bound of the model: inner solves

ASSUME BoundsAssumption ==
  /\ HistorySizes \subseteq Nat \ {0}
  /\ inner_iterations_limit \in Nat \ {0}
  /\ MaxSolves \in Nat

Exit == {"MAX_ITERS", "GRAD_CONVERGED", "TAU_STALL"}
Pairs == (1..MaxSolves) \X (1..inner_iterations_limit)
Empty == <<0, 0>>          \* a slot that no pair was ever stored in

VARIABLES
  pc,                \* "idle", "history", "direction", "step"
  m_lbfgs,
  solve,             \* inner solves started
  inner,
  head, history_size,
  slots,             \* d_lbfgs_S and d_lbfgs_Y, slot by slot
  rho,               \* d_lbfgs_rho: of the pair it was computed from
  point,             \* steps taken in this solve: low_rank_solution
  old,               \* what d_R_old and d_Grad_old are copies of
  lbfgs_exit_reason

ring == <<head, history_size, slots, rho>>
vars == <<pc, m_lbfgs, solve, inner, ring, point, old, lbfgs_exit_reason>>

\* The remainder of C, which has the sign of a.
CMod(a, n) == IF a >= 0 THEN a % n ELSE -((-a) % n)

\* The slot i places before the newest.
SlotWithoutWrap(i) == CMod(head - 1 - i, m_lbfgs)               \* mutant
Slot(i) == CMod(head - 1 - i + m_lbfgs, m_lbfgs)

\* head and history_size after a pair was stored.
NextHeadOneFurther == (head + 1) % (m_lbfgs + 1)                \* mutant
NextHead == (head + 1) % m_lbfgs
NextSizeUnbounded == history_size + 1                           \* mutant
NextSize == IF history_size < m_lbfgs THEN history_size + 1 ELSE history_size
-----------------------------------------------------------------------------
Init ==
  /\ pc = "idle"
  /\ m_lbfgs \in HistorySizes
  /\ solve = 0
  /\ inner = 0
  /\ head = 0 /\ history_size = 0
  /\ slots = [i \in 0..(m_lbfgs - 1) |-> Empty]
  /\ rho = [i \in 0..(m_lbfgs - 1) |-> Empty]
  /\ point = 0
  /\ old = 0
  /\ lbfgs_exit_reason = "GRAD_CONVERGED"

\* Entry of the routine: the ring is empty, the slots keep their contents.
Start ==
  /\ pc = "idle"
  /\ solve < MaxSolves
  /\ solve' = solve + 1
  /\ head' = 0 /\ history_size' = 0
  /\ inner' = 0 /\ point' = 0 /\ old' = 0
  /\ lbfgs_exit_reason' = "MAX_ITERS"
  /\ pc' = "history"
  /\ UNCHANGED <<m_lbfgs, slots, rho>>

\* The gradient is below the tolerance: not tested in the first iteration.
Converged ==
  /\ pc = "history"
  /\ inner > 0
  /\ lbfgs_exit_reason' = "GRAD_CONVERGED"
  /\ pc' = "idle"
  /\ UNCHANGED <<m_lbfgs, solve, inner, ring, point, old>>

FirstIteration ==
  /\ pc = "history"
  /\ inner = 0
  /\ old' = point
  /\ pc' = "direction"
  /\ UNCHANGED <<m_lbfgs, solve, inner, ring, point, lbfgs_exit_reason>>

\* The pair between the last two points goes to the head of the ring.  The
\* names of a pair and of the point it ends in agree if old is the point before.
NewPair == IF old = point - 1 THEN <<solve, point>> ELSE Empty

StorePair ==
  /\ pc = "history"
  /\ inner > 0
  /\ slots' = [slots EXCEPT ![head] = NewPair]
  /\ rho' = [rho EXCEPT ![head] = NewPair]
  /\ head' = NextHead
  /\ history_size' = NextSize
  /\ old' = point
  /\ pc' = "direction"
  /\ UNCHANGED <<m_lbfgs, solve, inner, point, lbfgs_exit_reason>>

\* No curvature along the step: the history is dropped.
RejectPair ==
  /\ pc = "history"
  /\ inner > 0
  /\ head' = 0 /\ history_size' = 0
  /\ old' = point
  /\ pc' = "direction"
  /\ UNCHANGED <<m_lbfgs, solve, inner, slots, rho, point, lbfgs_exit_reason>>

\* The two-loop recursion (or the gradient, if the history is empty) gives a
\* descent direction.
Direction ==
  /\ pc = "direction"
  /\ pc' = "step"
  /\ UNCHANGED <<m_lbfgs, solve, inner, ring, point, old, lbfgs_exit_reason>>

\* It does not: steepest descent, and the history is dropped.
SteepestDescent ==
  /\ pc = "direction"
  /\ head' = 0 /\ history_size' = 0
  /\ pc' = "step"
  /\ UNCHANGED <<m_lbfgs, solve, inner, slots, rho, point, old,
                 lbfgs_exit_reason>>

\* The line search stalls: the routine returns before the step.
TauStall ==
  /\ pc = "step"
  /\ lbfgs_exit_reason' = "TAU_STALL"
  /\ pc' = "idle"
  /\ UNCHANGED <<m_lbfgs, solve, inner, ring, point, old>>

TakeStep ==
  /\ pc = "step"
  /\ point' = point + 1
  /\ inner' = inner + 1
  /\ pc' = IF inner + 1 < inner_iterations_limit THEN "history" ELSE "idle"
  /\ UNCHANGED <<m_lbfgs, solve, ring, old, lbfgs_exit_reason>>

Next ==
  \/ Start \/ Converged \/ FirstIteration \/ StorePair \/ RejectPair
  \/ Direction \/ SteepestDescent \/ TauStall \/ TakeStep

Spec == Init /\ [][Next]_vars
-----------------------------------------------------------------------------
(* Properties. *)

TypeOK ==
  /\ pc \in {"idle", "history", "direction", "step"}
  /\ m_lbfgs \in HistorySizes
  /\ solve \in 0..MaxSolves
  /\ inner \in 0..inner_iterations_limit
  /\ head \in 0..(m_lbfgs - 1)
  /\ history_size \in 0..m_lbfgs
  /\ slots \in [0..(m_lbfgs - 1) -> Pairs \cup {Empty}]
  /\ rho \in [0..(m_lbfgs - 1) -> Pairs \cup {Empty}]
  /\ point \in Nat
  /\ old \in Nat
  /\ lbfgs_exit_reason \in Exit

\* The pairs in the order in which the second loop of the recursion reads them.
window == [i \in 1..history_size |-> slots[Slot(history_size - i)]]

\* The ring is the window of the most recent pairs.
Window == INSTANCE LbfgsWindow WITH m <- m_lbfgs
WindowSpec == Window!Spec

\* The pairs that the recursion reads are of this solve and of consecutive
\* iterations up to the present one, newest first, read from slots that exist:
\* nothing of an earlier solve or from before a dropped history is left in the
\* ring, and rho belongs to the pair of its slot.
WindowIsRecent ==
  pc = "direction" =>
    \A i \in 0..(history_size - 1) :
      /\ Slot(i) \in 0..(m_lbfgs - 1)
      /\ slots[Slot(i)] = <<solve, inner - i>>
      /\ rho[Slot(i)] = slots[Slot(i)]
-----------------------------------------------------------------------------
(* The strengthening that makes the properties inductive. *)

\* The iteration of the newest pair.
newest == IF pc = "history" THEN inner - 1 ELSE inner

\* What holds while a solve runs: how far the copies lag behind the point, and
\* what the ring holds in the slots that history_size counts.
SolveInv ==
  pc # "idle" =>
    /\ solve \in 1..MaxSolves
    /\ inner < inner_iterations_limit
    /\ point = inner
    /\ history_size <= newest + 1
    /\ inner = 0 => history_size = 0
    /\ pc = "history" /\ inner > 0 => old = inner - 1
    /\ pc \in {"direction", "step"} => old = inner
    /\ \A i \in 0..(history_size - 1) :
         /\ slots[Slot(i)] = <<solve, newest - i>>
         /\ rho[Slot(i)] = slots[Slot(i)]

IInv == TypeOK /\ SolveInv
=============================================================================
