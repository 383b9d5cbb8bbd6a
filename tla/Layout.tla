------------------------------- MODULE Layout -------------------------------
(***************************************************************************)
(* How the code lays parts out one after the other: a loop over n parts    *)
(* that advances an offset by the size of each, and sorted arrays.         *)
(***************************************************************************)
EXTENDS Integers, Sequences, FiniteSetsExt

\* Part k begins at RunningSum(size, n)[k - 1] and ends before
\* RunningSum(size, n)[k].
RunningSum(size, n) ==
  LET sum[k \in 0..n] == IF k = 0 THEN 0 ELSE sum[k - 1] + size[k]
  IN  sum

\* The sum of f over a finite set.
SumOver(f, S) == MapThenSumSet(LAMBDA x : f[x], S)

\* A set as a sequence, in the order given by a set of pairs.
Sorted(S, before) ==
  [i \in 1..Cardinality(S) |->
     CHOOSE x \in S : Cardinality({y \in S : <<y, x>> \in before}) = i - 1]
Increasing(S) == {q \in S \X S : q[1] < q[2]}

AtMost(n, s) == SubSeq(s, 1, Min({n, Len(s)}))

\* Positions of a sequence of values, the smallest first, ties by position.
ByValue(values) ==
  {q \in (DOMAIN values) \X (DOMAIN values) :
     values[q[1]] < values[q[2]] \/ (values[q[1]] = values[q[2]] /\ q[1] < q[2])}
Ascending(values) == Sorted(DOMAIN values, ByValue(values))
=============================================================================
