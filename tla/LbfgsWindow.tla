----------------------------- MODULE LbfgsWindow -----------------------------
(***************************************************************************)
(* What the L-BFGS history promises: the most recent curvature pairs, at   *)
(* most m of them, oldest first.  A pair is named by the solve and the     *)
(* iteration that made it.                                                 *)
(***************************************************************************)
EXTENDS Integers, Sequences

CONSTANTS HistorySizes,   \* the values lbfgs_history_size may have
          Pairs           \* the names of pairs

VARIABLES m,              \* pairs kept
          window          \* the pairs, oldest first

Init == m \in HistorySizes /\ window = << >>

\* A new pair; the oldest one makes room for it.
Remember(pair) ==
  /\ window' = (IF Len(window) < m THEN window ELSE Tail(window)) \o <<pair>>
  /\ UNCHANGED m

\* The history is dropped: a new solve, a pair without curvature, or a
\* direction that does not descend.
Forget == window' = << >> /\ UNCHANGED m

Next == Forget \/ \E pair \in Pairs : Remember(pair)

Spec == Init /\ [][Next]_<<m, window>>
=============================================================================
