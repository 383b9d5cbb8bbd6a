--------------------------- MODULE LockStep_proofs ---------------------------
(***************************************************************************)
(* The processes of LockStep never wait for each other in different calls, *)
(* those that meet in one are at the same place, and each decides on whole *)
(* numbers: for every grid, whatever blocks and ranks it holds, if the     *)
(* setups are such that the processes decide alike.                        *)
(*                                                                         *)
(* The invariant of LockStages holds at first, and of what happens next    *)
(* there are two kinds.  A process decides: then the stage it goes on to   *)
(* is the next of the story, or becomes it, and the calls of that stage    *)
(* make of what it brings the numbers of the next decision.  Or the        *)
(* processes of a line make a call: they are all before it, by the order   *)
(* of the calls in the lists, and each gives the sum of the terms that it  *)
(* is to give, so that the sum over the line is that of its processes.     *)
(***************************************************************************)
EXTENDS LockStages, Layout_proofs

-----------------------------------------------------------------------------
(* The grid.                                                               *)

LEMMA SetupDims ==
  ASSUME IsSetup(setup)
  PROVE  /\ IsDims(setup.dims)
         /\ setup.dims[1] \in Nat \ {0} /\ setup.dims[2] \in Nat \ {0} /\ setup.dims[3] \in Nat \ {0}
         /\ Cones = All(3)
BY DEF IsSetup, IsDims, Cones, All

LEMMA CoordsIn ==
  ASSUME IsSetup(setup), NEW p \in Procs
  PROVE  /\ coords(p) \in All(1) \X All(2) \X All(3)
         /\ coords(p) = <<coords(p)[1], coords(p)[2], coords(p)[3]>>
         /\ coords(p)[1] \in All(1) /\ coords(p)[2] \in All(2) /\ coords(p)[3] \in All(3)
         /\ my_cone(p) = coords(p)[3] /\ my_cone(p) \in Cones
<1>1. coords(p) \in All(1) \X All(2) \X All(3)
  BY SetupDims, CoordinatesOf DEF coords, All
<1> QED BY <1>1, SetupDims DEF my_cone

LEMMA CoordsAt ==
  ASSUME IsSetup(setup), NEW i \in All(1), NEW j \in All(2), NEW k \in All(3)
  PROVE  \E q \in Procs : coords(q) = <<i, j, k>>
BY SetupDims, ProcessAt DEF coords, All

LEMMA CoordsOnce ==
  ASSUME IsSetup(setup), NEW p \in Procs, NEW q \in Procs,
         \A a \in 1..3 : coords(p)[a] = coords(q)[a]
  PROVE  p = q
<1>1. coords(p) = coords(q)
  BY CoordsIn
<1> QED BY <1>1, SetupDims, CoordinatesUnique DEF coords

\* The processes of a line are those that differ in the coordinates it sums over.
LEMMA LineIsCube ==
  ASSUME NEW p, NEW on
  PROVE  Members(on, p) = Cube(p, Axes[on])
BY DEF Members, Cube

\* A process with the coordinates of w in D and those of p elsewhere.
LEMMA Mixed ==
  ASSUME IsSetup(setup), NEW p \in Procs, NEW w \in Procs, NEW D \in SUBSET (1..3)
  PROVE  \E q \in Procs :
           \A a \in 1..3 : coords(q)[a] = IF a \in D THEN coords(w)[a] ELSE coords(p)[a]
<1> DEFINE mix(a) == IF a \in D THEN coords(w)[a] ELSE coords(p)[a]
<1>1. mix(1) \in All(1) /\ mix(2) \in All(2) /\ mix(3) \in All(3)
  BY CoordsIn
<1>2. PICK q \in Procs : coords(q) = <<mix(1), mix(2), mix(3)>>
  BY <1>1, CoordsAt
<1>3. \A a \in 1..3 : coords(q)[a] = mix(a)
  BY <1>2
<1> QED BY <1>3

LEMMA CubeBasics ==
  ASSUME NEW p \in Procs, NEW D
  PROVE  /\ p \in Cube(p, D)
         /\ Cube(p, D) \subseteq Procs
         /\ IsFiniteSet(Cube(p, D))
         /\ \A q \in Cube(p, D) : Cube(q, D) = Cube(p, D) /\ p \in Cube(q, D)
<1>1. IsFiniteSet(Procs)
  BY WorldAssumption, FS_Interval DEF Procs
<1> QED BY <1>1, FS_Subset DEF Cube

LEMMA CubeAll ==
  ASSUME NEW p
  PROVE  Cube(p, 1..3) = Procs
BY DEF Cube

LEMMA CubeNone ==
  ASSUME IsSetup(setup), NEW p \in Procs
  PROVE  Cube(p, {}) = {p}
BY CoordsOnce DEF Cube

LEMMA CubeUnion ==
  ASSUME IsSetup(setup), NEW p \in Procs, NEW A \in SUBSET (1..3), NEW D \in SUBSET (1..3)
  PROVE  Cube(p, A \union D) = UNION {Cube(q, D) : q \in Cube(p, A)}
<1>1. ASSUME NEW u \in Cube(p, A \union D) PROVE \E q \in Cube(p, A) : u \in Cube(q, D)
  <2>1. u \in Procs /\ \A a \in (1..3) \ (A \union D) : coords(u)[a] = coords(p)[a]
    BY DEF Cube
  <2>2. PICK q \in Procs :
          \A a \in 1..3 : coords(q)[a] = IF a \in A THEN coords(u)[a] ELSE coords(p)[a]
    BY <2>1, Mixed
  <2>3. q \in Cube(p, A)
    BY <2>2 DEF Cube
  <2>4. u \in Cube(q, D)
    BY <2>1, <2>2 DEF Cube
  <2> QED BY <2>3, <2>4
<1>2. ASSUME NEW q \in Cube(p, A), NEW u \in Cube(q, D) PROVE u \in Cube(p, A \union D)
  BY DEF Cube
<1> QED BY <1>1, <1>2

\* Different processes of a cube: what tells their coordinates in D apart
\* tells them apart.
LEMMA CubeApart ==
  ASSUME IsSetup(setup), NEW p \in Procs, NEW D \in SUBSET (1..3),
         NEW u \in Cube(p, D), NEW w \in Cube(p, D), \A a \in D : coords(u)[a] = coords(w)[a]
  PROVE  u = w
<1>1. u \in Procs /\ w \in Procs
  BY DEF Cube
<1>2. \A a \in 1..3 : coords(u)[a] = coords(w)[a]
  BY DEF Cube
<1> QED BY <1>1, <1>2, CoordsOnce

LEMMA CubeCoords ==
  ASSUME IsSetup(setup), NEW p \in Procs, NEW D \in SUBSET (1..3),
         NEW i \in All(1), NEW j \in All(2), NEW k \in All(3)
  PROVE  \E u \in Cube(p, D) :
           /\ coords(u)[1] = IF 1 \in D THEN i ELSE coords(p)[1]
           /\ coords(u)[2] = IF 2 \in D THEN j ELSE coords(p)[2]
           /\ coords(u)[3] = IF 3 \in D THEN k ELSE coords(p)[3]
<1>1. PICK w \in Procs : coords(w) = <<i, j, k>>
  BY CoordsAt
<1>2. PICK u \in Procs :
        \A a \in 1..3 : coords(u)[a] = IF a \in D THEN coords(w)[a] ELSE coords(p)[a]
  BY Mixed
<1>3. u \in Cube(p, D)
  BY <1>2 DEF Cube
<1> QED BY <1>1, <1>2, <1>3

-----------------------------------------------------------------------------
(* What each process adds to a number, at a stage r of the loop.           *)

LEMMA FullAxes ==
  ASSUME NEW x \in Quantities
  PROVE  Full(x) \in SUBSET (1..3)
<1> USE DEF Full
<1>1. x \in {"Ax", "q", "grad_norm", "dot", "slope"} => Full(x) = {2, 3}
  OBVIOUS
<1> QED BY DEF Quantities

\* No two processes add the same term to a number they are to sum over an axis.
LEMMA TermsApart ==
  ASSUME IsSetup(setup), NEW r, NEW x \in Quantities, NEW u \in Procs, NEW w \in Procs,
         NEW d \in TermSet(x, u, r), d \in TermSet(x, w, r), NEW a \in Full(x)
  PROVE  coords(u)[a] = coords(w)[a]
<1>1. CASE x \in {"Ax", "q", "grad_norm", "dot", "slope"}
  BY <1>1 DEF TermSet, Full
<1>2. CASE x \in {"gradient", "q0_norm", "q_dots", "d_obj", "Sq", "H", "lp_slack",
                  "stationarity", "HV", "gram"}
  BY <1>2 DEF TermSet, Full
<1>3. CASE x \in {"Hq", "ritz", "sign"}
  BY <1>3 DEF TermSet, Full
<1>4. CASE x \in {"min_eigval", "min_slack", "free", "strengths", "variables"}
  BY <1>4 DEF TermSet, Full
<1>5. CASE x \in {"detect", "escapes"}
  <2>1. u = w
    BY <1>5 DEF TermSet
  <2> QED BY <2>1
<1>6. CASE x \in {"p_obj", "curvature_obj", "winner", "lambda", "ready"}
  <2>1. a = 1 \/ a = 2 \/ a = 3
    BY <1>6 DEF Full
  <2> QED BY <1>6, <2>1 DEF TermSet, Speaks
<1> QED BY <1>1, <1>2, <1>3, <1>4, <1>5, <1>6 DEF Quantities

\* Before it is summed, a number is what its process adds.
LEMMA TotalNone ==
  ASSUME IsSetup(setup), NEW r, NEW x \in Quantities, NEW p \in Procs
  PROVE  Total(x, p, {}, r) = SetToBag(TermSet(x, p, r))
BY CubeNone DEF Total, Terms

\* The sum over the axes of D of sums over those of A is the sum over both.
LEMMA TotalSum ==
  ASSUME IsSetup(setup), NEW r, NEW x \in Quantities, NEW p \in Procs,
         NEW A \in SUBSET (1..3), NEW D \in SUBSET (1..3), A \cap D = {},
         A \union D \subseteq Full(x)
  PROVE  BagSum([q \in Cube(p, D) |-> Total(x, q, A, r)]) = Total(x, p, A \union D, r)
<1> DEFINE data == [q \in Cube(p, D) |-> Terms(x, q, A, r)]
<1>1. ASSUME NEW q \in Cube(p, D), NEW w \in Cube(p, D), NEW d, d \in data[q], d \in data[w]
      PROVE  q = w
  <2>1. PICK u \in Cube(q, A) : d \in TermSet(x, u, r)
    BY <1>1 DEF Terms
  <2>2. PICK z \in Cube(w, A) : d \in TermSet(x, z, r)
    BY <1>1 DEF Terms
  <2>3. q \in Procs /\ w \in Procs /\ u \in Procs /\ z \in Procs
    BY DEF Cube
  <2>4. \A a \in A \union D : coords(u)[a] = coords(z)[a]
    BY <2>1, <2>2, <2>3, TermsApart
  <2>5. \A a \in D : coords(q)[a] = coords(w)[a]
    BY <2>4 DEF Cube
  <2> QED BY <2>5, CubeApart
<1>2. IsFiniteSet(Cube(p, D))
  BY CubeBasics
<1>3. BagSum([q \in Cube(p, D) |-> SetToBag(data[q])])
        = SetToBag(UNION {data[q] : q \in Cube(p, D)})
  <2> HIDE DEF data
  <2> QED BY <1>1, <1>2, DisjointSum
<1>4. [q \in Cube(p, D) |-> SetToBag(data[q])] = [q \in Cube(p, D) |-> Total(x, q, A, r)]
  BY DEF Total
<1>5. UNION {data[q] : q \in Cube(p, D)} = Terms(x, p, A \union D, r)
  <2>1. Cube(p, D \union A) = UNION {Cube(q, A) : q \in Cube(p, D)}
    BY CubeUnion
  <2>2. A \union D = D \union A
    OBVIOUS
  <2>3. \A d : d \in UNION {data[q] : q \in Cube(p, D)} <=> d \in Terms(x, p, D \union A, r)
    BY <2>1 DEF Terms
  <2> QED BY <2>2, <2>3
<1> QED BY <1>3, <1>4, <1>5 DEF Total

\* A line has a process at each position of its axis.
LEMMA OverAxis ==
  ASSUME IsSetup(setup), NEW p \in Procs, NEW a \in 1..3, NEW D, D = {a}
  PROVE  /\ \A u \in Cube(p, D) : coords(u)[a] \in All(a)
         /\ \A i \in All(a) : \E u \in Cube(p, D) : coords(u)[a] = i
<1>1. \A u \in Cube(p, D) : coords(u)[a] \in All(a)
  BY CoordsIn DEF Cube
<1>2. ASSUME NEW i \in All(a) PROVE \E u \in Cube(p, D) : coords(u)[a] = i
  <2>1. 0 \in All(1) /\ 0 \in All(2) /\ 0 \in All(3) /\ D \in SUBSET (1..3) /\ D = {a}
    BY SetupDims DEF All
  <2>2. CASE a = 1
    BY <2>1, <2>2, <1>2, CubeCoords
  <2>3. CASE a = 2
    BY <2>1, <2>3, <1>2, CubeCoords
  <2>4. CASE a = 3
    BY <2>1, <2>4, <1>2, CubeCoords
  <2> QED BY <2>2, <2>3, <2>4
<1> QED BY <1>1, <1>2

LEMMA OverShares ==
  ASSUME IsSetup(setup), NEW p \in Procs, NEW D, D = {2, 3}
  PROVE  /\ \A u \in Cube(p, D) : coords(u)[2] \in All(2) /\ coords(u)[3] \in All(3)
         /\ \A s \in All(2), c \in All(3) :
              \E u \in Cube(p, D) : coords(u)[2] = s /\ coords(u)[3] = c
<1>1. \A u \in Cube(p, D) : coords(u)[2] \in All(2) /\ coords(u)[3] \in All(3)
  BY CoordsIn DEF Cube
<1>2. ASSUME NEW s \in All(2), NEW c \in All(3)
      PROVE  \E u \in Cube(p, D) : coords(u)[2] = s /\ coords(u)[3] = c
  <2>1. 0 \in All(1)
    BY SetupDims DEF All
  <2>2. D \in SUBSET (1..3) /\ 2 \in D /\ 3 \in D
    OBVIOUS
  <2> QED BY <2>1, <2>2, CubeCoords
<1> QED BY <1>1, <1>2

\* Summed over all its axes, a number has the terms of the whole grid.
LEMMA WholeTerms ==
  ASSUME IsSetup(setup), NEW r, NEW x \in Quantities, NEW p \in Procs,
         x = "winner" => r.winner[1] \in Cones
  PROVE  Terms(x, p, Full(x), r) = WholeSet(x, coords(p)[1], r)
<1> DEFINE T == Terms(x, p, Full(x), r)
           W == WholeSet(x, coords(p)[1], r)
<1>1. T = UNION {TermSet(x, u, r) : u \in Cube(p, Full(x))}
  BY DEF Terms
<1>2. \A u \in Cube(p, Full(x)) :
        /\ u \in Procs
        /\ coords(u)[1] \in All(1) /\ coords(u)[2] \in All(2) /\ coords(u)[3] \in All(3)
        /\ coords(u) = <<coords(u)[1], coords(u)[2], coords(u)[3]>>
        /\ my_cone(u) = coords(u)[3]
        /\ 1 \notin Full(x) => coords(u)[1] = coords(p)[1]
  BY FullAxes, CoordsIn DEF Cube
<1>3. Cones = All(3) /\ 0 \in All(1) /\ 0 \in All(2) /\ 0 \in All(3)
  BY SetupDims DEF All
<1> SUFFICES T = W
  OBVIOUS
<1> HIDE DEF T
<1>4. ASSUME NEW a \in 1..3, Full(x) = {a}, NEW f, W = {f[i] : i \in All(a)},
              \A u \in Cube(p, Full(x)) : TermSet(x, u, r) = {f[coords(u)[a]]}
       PROVE  T = W
  <2>1. \A d : d \in T <=> \E u \in Cube(p, Full(x)) : d \in TermSet(x, u, r)
    BY <1>1
  <2>2. /\ \A u \in Cube(p, Full(x)) : coords(u)[a] \in All(a)
        /\ \A i \in All(a) : \E u \in Cube(p, Full(x)) : coords(u)[a] = i
    BY <1>4, OverAxis
  <2> HIDE DEF W
  <2>3. \A d : d \in T <=> d \in W
    BY <1>4, <2>1, <2>2
  <2> QED BY <2>3
<1>5. CASE x \in {"gradient", "q0_norm", "q_dots"}
  <2> DEFINE f == [i \in All(1) |-> <<i, Product(i)>>]
  <2>1. Full(x) = {1} /\ W = {f[i] : i \in All(1)}
    BY <1>3, <1>5 DEF Full, WholeSet
  <2>2. \A u \in Cube(p, Full(x)) : TermSet(x, u, r) = {f[coords(u)[1]]}
    BY <1>2, <1>3, <1>5 DEF TermSet
  <2> HIDE DEF f, W
  <2> QED BY <2>1, <2>2, <1>4
<1>6. CASE x \in {"d_obj", "Sq", "H", "lp_slack", "stationarity"}
  <2> DEFINE f == [i \in All(1) |-> i]
  <2>1. Full(x) = {1} /\ W = {f[i] : i \in All(1)}
    BY <1>3, <1>6 DEF Full, WholeSet
  <2>2. \A u \in Cube(p, Full(x)) : TermSet(x, u, r) = {f[coords(u)[1]]}
    BY <1>2, <1>3, <1>6 DEF TermSet
  <2> HIDE DEF f, W
  <2> QED BY <2>1, <2>2, <1>4
<1>7. CASE x = "Hq"
  <2> DEFINE f == [i \in All(2) |-> <<coords(p)[1], i>>]
  <2>1. Full(x) = {2} /\ W = {f[i] : i \in All(2)}
    BY <1>3, <1>7 DEF Full, WholeSet
  <2>2. \A u \in Cube(p, Full(x)) : TermSet(x, u, r) = {f[coords(u)[2]]}
    <3>1. Full(x) = {2}
      BY <1>7 DEF Full
    <3> QED BY <1>2, <1>3, <1>7, <3>1 DEF TermSet
  <2> HIDE DEF f, W
  <2> QED BY <2>1, <2>2, <1>4
<1>8. CASE x = "HV"
  <2> DEFINE f == [i \in All(1) |-> <<i, Image(i)>>]
  <2>1. Full(x) = {1} /\ W = {f[i] : i \in All(1)}
    BY <1>3, <1>8 DEF Full, WholeSet, HVs
  <2>2. \A u \in Cube(p, Full(x)) : TermSet(x, u, r) = {f[coords(u)[1]]}
    BY <1>2, <1>3, <1>8 DEF TermSet
  <2> HIDE DEF f, W
  <2> QED BY <2>1, <2>2, <1>4
<1>9. CASE x \in {"ritz", "sign"}
  <2> DEFINE f == [i \in All(2) |-> <<i, SetToBag(HVs)>>]
  <2>1. Full(x) = {2} /\ W = {f[i] : i \in All(2)}
    BY <1>3, <1>9 DEF Full, WholeSet
  <2>2. \A u \in Cube(p, Full(x)) : TermSet(x, u, r) = {f[coords(u)[2]]}
    BY <1>2, <1>3, <1>9 DEF TermSet
  <2> HIDE DEF f, W
  <2> QED BY <2>1, <2>2, <1>4
<1>10. CASE x = "min_eigval"
  <2> DEFINE f == [i \in All(3) |-> <<i, Slack(i)>>]
  <2>1. Full(x) = {3} /\ W = {f[i] : i \in All(3)}
    BY <1>3, <1>10 DEF Full, WholeSet
  <2>2. \A u \in Cube(p, Full(x)) : TermSet(x, u, r) = {f[coords(u)[3]]}
    BY <1>2, <1>3, <1>10 DEF TermSet
  <2> HIDE DEF f, W
  <2> QED BY <2>1, <2>2, <1>4
<1>11. CASE x = "min_slack" /\ r.checked
  <2> DEFINE f == [i \in All(3) |-> <<i, Slack(i), IfOwner(setup.lp, i, All(1))>>]
  <2>1. Full(x) = {3} /\ W = {f[i] : i \in All(3)}
    BY <1>3, <1>11 DEF Full, WholeSet
  <2>2. \A u \in Cube(p, Full(x)) : TermSet(x, u, r) = {f[coords(u)[3]]}
    BY <1>2, <1>3, <1>11 DEF TermSet
  <2> HIDE DEF f, W
  <2> QED BY <2>1, <2>2, <1>4
<1>12. CASE x = "free" /\ r.checked
  <2> DEFINE f == [i \in All(3) |-> <<i, IfOwner(setup.free, i, All(1))>>]
  <2>1. Full(x) = {3} /\ W = {f[i] : i \in All(3)}
    BY <1>3, <1>12 DEF Full, WholeSet
  <2>2. \A u \in Cube(p, Full(x)) : TermSet(x, u, r) = {f[coords(u)[3]]}
    BY <1>2, <1>3, <1>12 DEF TermSet
  <2> HIDE DEF f, W
  <2> QED BY <2>1, <2>2, <1>4
<1>13. CASE x = "gram"
  <2> DEFINE f == [i \in All(1) |-> <<i, SetToBag(AllVariables(r))>>]
  <2>1. Full(x) = {1} /\ W = {f[i] : i \in All(1)}
    BY <1>3, <1>13 DEF Full, WholeSet
  <2>2. \A u \in Cube(p, Full(x)) : TermSet(x, u, r) = {f[coords(u)[1]]}
    BY <1>2, <1>3, <1>13 DEF TermSet
  <2> HIDE DEF f, W
  <2> QED BY <2>1, <2>2, <1>4
<1>14. CASE x = "strengths"
  <2> DEFINE f == [i \in All(3) |-> <<i, Strengths(r.eig[i])>>]
  <2>1. Full(x) = {3} /\ W = {f[i] : i \in All(3)}
    BY <1>3, <1>14 DEF Full, WholeSet
  <2>2. \A u \in Cube(p, Full(x)) : TermSet(x, u, r) = {f[coords(u)[3]]}
    BY <1>2, <1>3, <1>14 DEF TermSet
  <2> HIDE DEF f, W
  <2> QED BY <2>1, <2>2, <1>4
<1>15. CASE x = "variables"
  <2> DEFINE f == [i \in All(3) |-> <<i, Variables(i, r.kept[i], setup.mode)>>]
  <2>1. Full(x) = {3} /\ W = {f[i] : i \in All(3)}
    BY <1>3, <1>15 DEF Full, WholeSet, AllVariables
  <2>2. \A u \in Cube(p, Full(x)) : TermSet(x, u, r) = {f[coords(u)[3]]}
    BY <1>2, <1>3, <1>15 DEF TermSet
  <2> HIDE DEF f, W
  <2> QED BY <2>1, <2>2, <1>4
<1>16. CASE x \in {"min_slack", "free"} /\ ~r.checked
  <2>1. W = {} /\ \A u \in Cube(p, Full(x)) : TermSet(x, u, r) = {}
    BY <1>16 DEF WholeSet, TermSet
  <2> QED BY <2>1, <1>1
<1>17. CASE x \in {"Ax", "q"}
  <2>1. Full(x) = {2, 3} /\ W = {<<coords(p)[1], sc[1], sc[2]>> : sc \in All(2) \X All(3)}
    BY <1>17 DEF Full, WholeSet
  <2>2. \A u \in Cube(p, Full(x)) : TermSet(x, u, r) = {<<coords(p)[1], coords(u)[2], coords(u)[3]>>}
    BY <1>2, <1>17, <2>1 DEF TermSet
  <2> HIDE DEF W
  <2>3. \A d : d \in T <=> \E u \in Cube(p, Full(x)) : d = <<coords(p)[1], coords(u)[2], coords(u)[3]>>
    BY <1>1, <2>2
  <2>4. /\ \A u \in Cube(p, Full(x)) : coords(u)[2] \in All(2) /\ coords(u)[3] \in All(3)
        /\ \A s \in All(2), c \in All(3) :
             \E u \in Cube(p, Full(x)) : coords(u)[2] = s /\ coords(u)[3] = c
    BY <2>1, OverShares
  <2>5. \A d : d \in W <=> \E s \in All(2), c \in All(3) : d = <<coords(p)[1], s, c>>
    <3>1. ASSUME NEW d \in W PROVE \E s \in All(2), c \in All(3) : d = <<coords(p)[1], s, c>>
      <4>1. PICK sc \in All(2) \X All(3) : d = <<coords(p)[1], sc[1], sc[2]>>
        BY <2>1
      <4>2. sc[1] \in All(2) /\ sc[2] \in All(3)
        OBVIOUS
      <4> QED BY <4>1, <4>2
    <3>2. ASSUME NEW s \in All(2), NEW c \in All(3) PROVE <<coords(p)[1], s, c>> \in W
      <4> DEFINE sc == <<s, c>>
      <4>1. sc \in All(2) \X All(3) /\ sc[1] = s /\ sc[2] = c
        OBVIOUS
      <4> HIDE DEF sc
      <4>2. <<coords(p)[1], sc[1], sc[2]>> \in W
        BY <2>1, <4>1
      <4> QED BY <4>1, <4>2
    <3> QED BY <3>1, <3>2
  <2>6. \A d : d \in T <=> d \in W
    BY <2>3, <2>4, <2>5
  <2> QED BY <2>6
<1>18. CASE x \in {"grad_norm", "dot", "slope"}
  <2>1. Full(x) = {2, 3} /\ W = {<<sc[1], sc[2], Gradient>> : sc \in All(2) \X All(3)}
    BY <1>18 DEF Full, WholeSet
  <2>2. \A u \in Cube(p, Full(x)) : TermSet(x, u, r) = {<<coords(u)[2], coords(u)[3], Gradient>>}
    BY <1>2, <1>18, <2>1 DEF TermSet
  <2> HIDE DEF W
  <2>3. \A d : d \in T <=> \E u \in Cube(p, Full(x)) : d = <<coords(u)[2], coords(u)[3], Gradient>>
    BY <1>1, <2>2
  <2>4. /\ \A u \in Cube(p, Full(x)) : coords(u)[2] \in All(2) /\ coords(u)[3] \in All(3)
        /\ \A s \in All(2), c \in All(3) :
             \E u \in Cube(p, Full(x)) : coords(u)[2] = s /\ coords(u)[3] = c
    BY <2>1, OverShares
  <2>5. \A d : d \in W <=> \E s \in All(2), c \in All(3) : d = <<s, c, Gradient>>
    <3>1. ASSUME NEW d \in W PROVE \E s \in All(2), c \in All(3) : d = <<s, c, Gradient>>
      <4>1. PICK sc \in All(2) \X All(3) : d = <<sc[1], sc[2], Gradient>>
        BY <2>1
      <4>2. sc[1] \in All(2) /\ sc[2] \in All(3)
        OBVIOUS
      <4> QED BY <4>1, <4>2
    <3>2. ASSUME NEW s \in All(2), NEW c \in All(3) PROVE <<s, c, Gradient>> \in W
      <4> DEFINE sc == <<s, c>>
      <4>1. sc \in All(2) \X All(3) /\ sc[1] = s /\ sc[2] = c
        OBVIOUS
      <4> HIDE DEF sc
      <4>2. <<sc[1], sc[2], Gradient>> \in W
        BY <2>1, <4>1
      <4> QED BY <4>1, <4>2
    <3> QED BY <3>1, <3>2
  <2>6. \A d : d \in T <=> d \in W
    BY <2>3, <2>4, <2>5
  <2> QED BY <2>6
<1>19. CASE x \in {"p_obj", "curvature_obj", "detect", "lambda", "winner", "ready", "escapes"}
  <2>1. Full(x) = 1..3 /\ Cube(p, Full(x)) = Procs
    BY <1>19, CubeAll DEF Full
  <2>2. \A j \in All(2), c \in All(3) : \E u \in Procs : coords(u) = <<0, j, c>>
    BY <1>3, CoordsAt
  <2>3. CASE x \in {"p_obj", "curvature_obj"}
    <3>1. W = All(2) \X All(3)
      BY <2>3 DEF WholeSet
    <3>2. \A u \in Procs :
            TermSet(x, u, r) = IF coords(u)[1] = 0 THEN {<<coords(u)[2], coords(u)[3]>>} ELSE {}
      BY <2>3 DEF TermSet
    <3>3. ASSUME NEW u \in Procs, NEW d \in TermSet(x, u, r) PROVE d \in All(2) \X All(3)
      BY <3>2, <2>1, <1>2
    <3>4. ASSUME NEW j \in All(2), NEW c \in All(3)
          PROVE  \E u \in Procs : <<j, c>> \in TermSet(x, u, r)
      BY <3>2, <2>2
    <3> QED BY <3>1, <3>3, <3>4, <1>1, <2>1
  <2>4. CASE x = "lambda"
    <3> DEFINE e(c) == <<c, Ritz, Linf(<<0, 0, c>>)>>
               C == {c \in Cones : Blocks(c) # {}}
    <3>1. W = {e(c) : c \in C}
      BY <2>4 DEF WholeSet
    <3>2. ASSUME NEW u \in Procs
          PROVE  TermSet(x, u, r) = IF Speaks(u) /\ coords(u)[3] \in C
                                    THEN {e(coords(u)[3])} ELSE {}
      <4>1. TermSet(x, u, r) = IF Speaks(u) /\ Blocks(coords(u)[3]) # {}
                               THEN {<<coords(u)[3], Ritz, Linf(coords(u))>>} ELSE {}
        BY <2>4 DEF TermSet
      <4>2. Speaks(u) => coords(u) = <<0, 0, coords(u)[3]>>
        BY <2>1, <1>2 DEF Speaks
      <4> QED BY <4>1, <4>2, <1>2, <1>3, <2>1
    <3>3. \A c \in C : \E u \in Procs : Speaks(u) /\ coords(u)[3] = c
      BY <2>2, <1>3 DEF Speaks
    <3> HIDE DEF e, W, C
    <3> QED BY <3>1, <3>2, <3>3, <1>1, <2>1
  <2>5. CASE x = "ready"
    <3> DEFINE e(u) == <<coords(u), Ritz, Linf(coords(u))>>
               C == {u \in Procs : my_cone(u) = r.winner[1]}
    <3>1. W = {e(u) : u \in C}
      BY <2>5 DEF WholeSet
    <3>2. \A u \in Procs : TermSet(x, u, r) = IF u \in C THEN {e(u)} ELSE {}
      BY <2>5, <2>1, <1>2 DEF TermSet
    <3>3. C \subseteq Procs
      OBVIOUS
    <3> HIDE DEF e, W, C
    <3> QED BY <3>1, <3>2, <3>3, <1>1, <2>1
  <2>6. CASE x \in {"detect", "escapes"}
    <3> DEFINE e(u) == <<u, IF x = "detect" THEN r.detect
                            ELSE IF r.escaped /\ Speaks(u) /\ my_cone(u) = r.winner[1] THEN 1 ELSE 0>>
    <3>1. W = {e(u) : u \in Procs}
      BY <2>6 DEF WholeSet
    <3>2. \A u \in Procs : TermSet(x, u, r) = {e(u)}
      BY <2>6, <2>1, <1>2 DEF TermSet
    <3> HIDE DEF e, W
    <3> QED BY <3>1, <3>2, <1>1, <2>1
  <2>7. CASE x = "winner"
    <3>1. W = {r.winner}
      BY <2>7 DEF WholeSet
    <3>2. \A u \in Procs :
            TermSet(x, u, r) = IF Speaks(u) /\ coords(u)[3] = r.winner[1] THEN {r.winner} ELSE {}
      BY <2>7 DEF TermSet
    <3>3. \E u \in Procs : Speaks(u) /\ coords(u)[3] = r.winner[1]
      BY <2>7, <2>2, <1>3 DEF Speaks
    <3> HIDE DEF W
    <3> QED BY <3>1, <3>2, <3>3, <1>1, <2>1
  <2> QED BY <1>19, <2>3, <2>4, <2>5, <2>6, <2>7
<1> QED BY <1>5, <1>6, <1>7, <1>8, <1>9, <1>10, <1>11, <1>12, <1>13, <1>14, <1>15, <1>16, <1>17, <1>18, <1>19 DEF Quantities

-----------------------------------------------------------------------------
(* What a process computes a term from.                                    *)

LEMMA Products ==
  \A i : Product(i) = SetToBag({<<i, sc[1], sc[2]>> : sc \in All(2) \X All(3)})
<1> TAKE i
<1> DEFINE A == {<<i, s, c>> : s \in All(2), c \in All(3)}
           B == {<<i, sc[1], sc[2]>> : sc \in All(2) \X All(3)}
<1>1. ASSUME NEW d \in A PROVE d \in B
  <2>1. PICK s \in All(2), c \in All(3) : d = <<i, s, c>>
    OBVIOUS
  <2>2. <<s, c>> \in All(2) \X All(3) /\ <<s, c>>[1] = s /\ <<s, c>>[2] = c
    OBVIOUS
  <2> QED BY <2>1, <2>2
<1>2. ASSUME NEW d \in B PROVE d \in A
  <2>1. PICK sc \in All(2) \X All(3) : d = <<i, sc[1], sc[2]>>
    OBVIOUS
  <2>2. sc[1] \in All(2) /\ sc[2] \in All(3)
    OBVIOUS
  <2> QED BY <2>1, <2>2
<1>3. A = B
  BY <1>1, <1>2
<1> QED BY <1>3 DEF Product

LEMMA TotalIsWhole ==
  ASSUME IsSetup(setup), NEW r, NEW x \in Quantities, NEW p \in Procs, Sensible(x, r)
  PROVE  Total(x, p, Full(x), r) = SetToBag(WholeSet(x, coords(p)[1], r))
BY WholeTerms DEF Total, Sensible

LEMMA WholeNumbers ==
  ASSUME NEW r, NEW i
  PROVE  /\ SetToBag(WholeSet("Ax", i, r)) = Product(i)
         /\ SetToBag(WholeSet("q", i, r)) = Product(i)
         /\ SetToBag(WholeSet("gradient", i, r)) = Gradient
         /\ SetToBag(WholeSet("Hq", i, r)) = Image(i)
         /\ SetToBag(WholeSet("HV", i, r)) = SetToBag(HVs)
         /\ SetToBag(WholeSet("ritz", i, r)) = Ritz
         /\ SetToBag(WholeSet("Sq", i, r)) = SetToBag(All(1))
         /\ SetToBag(WholeSet("lp_slack", i, r)) = SetToBag(All(1))
         /\ SetToBag(WholeSet("stationarity", i, r)) = SetToBag(All(1))
         /\ SetToBag(WholeSet("variables", i, r)) = SetToBag(AllVariables(r))
         /\ SetToBag(WholeSet("winner", i, r)) = SetToBag({r.winner})
<1>1. SetToBag(WholeSet("Ax", i, r)) = Product(i) /\ SetToBag(WholeSet("q", i, r)) = Product(i)
  BY Products DEF WholeSet
<1>2. SetToBag(WholeSet("gradient", i, r)) = Gradient
  BY DEF WholeSet, Gradient
<1>3. SetToBag(WholeSet("Hq", i, r)) = Image(i)
  BY DEF WholeSet, Image
<1>4. SetToBag(WholeSet("HV", i, r)) = SetToBag(HVs)
  BY DEF WholeSet
<1>5. SetToBag(WholeSet("ritz", i, r)) = Ritz
  BY DEF WholeSet, Ritz, HVs, Image
<1>6. /\ SetToBag(WholeSet("Sq", i, r)) = SetToBag(All(1))
      /\ SetToBag(WholeSet("lp_slack", i, r)) = SetToBag(All(1))
      /\ SetToBag(WholeSet("stationarity", i, r)) = SetToBag(All(1))
  BY DEF WholeSet
<1>7. SetToBag(WholeSet("variables", i, r)) = SetToBag(AllVariables(r))
  BY DEF WholeSet
<1>8. SetToBag(WholeSet("winner", i, r)) = SetToBag({r.winner})
  BY DEF WholeSet
<1> QED BY <1>1, <1>2, <1>3, <1>4, <1>5, <1>6, <1>7, <1>8

LEMMA WinnerIsIn ==
  ASSUME NEW r, NEW v, v.winner = SetToBag({r.winner})
  PROVE  WinnerIn(v) = r.winner
<1>1. DOMAIN v.winner = {r.winner}
  BY DEF SetToBag
<1> QED BY <1>1 DEF WinnerIn

\* Computed from whole numbers, a term is what it is to be.
\* From whole numbers a process computes the term it is to add, as Term has it.
LEMMA TermIs ==
  ASSUME IsSetup(setup), NEW r, NEW x \in Computed, NEW p \in Procs, NEW v, Sensible(x, r),
         \A y \in Needs(x, my_cone(p), r) : v[y] = Total(y, p, Full(y), r)
  PROVE  Term(x, coords(p), v) = SetToBag(TermSet(x, p, r))
<1> DEFINE row == coords(p)[1]
           share == coords(p)[2]
           cone == coords(p)[3]
<1>1. my_cone(p) = cone /\ coords(p) = <<row, share, cone>>
  BY CoordsIn
<1>2. \A S : One(S) = SetToBag({S})
  BY DEF One
<1>3. EmptyBag = SetToBag({})
  BY DEF EmptyBag
<1>4. ASSUME NEW y \in Needs(x, my_cone(p), r)
      PROVE  v[y] = SetToBag(WholeSet(y, row, r))
  <2>1. y \in Quantities /\ Sensible(y, r)
    BY DEF Needs, Quantities, Sensible
  <2> QED BY <1>4, <2>1, TotalIsWhole
<1> HIDE DEF row, share, cone
<1>5. CASE x \in {"Ax", "q"}
  BY <1>1, <1>2, <1>5 DEF Term, TermSet, row, share, cone
<1>6. CASE x \in {"gradient", "q0_norm"}
  <2>1. v.Ax = Product(row)
    BY <1>4, <1>6, WholeNumbers DEF Needs
  <2> QED BY <1>2, <1>6, <2>1 DEF Term, TermSet, row
<1>7. CASE x = "q_dots"
  <2>1. v.q = Product(row)
    BY <1>4, <1>7, WholeNumbers DEF Needs
  <2> QED BY <1>2, <1>7, <2>1 DEF Term, TermSet, row
<1>8. CASE x \in {"p_obj", "curvature_obj"}
  BY <1>2, <1>3, <1>8 DEF Term, TermSet
<1>9. CASE x \in {"d_obj", "Sq", "H", "lp_slack", "stationarity"}
  BY <1>2, <1>9 DEF Term, TermSet
<1>10. CASE x \in {"grad_norm", "dot", "slope"}
  <2>1. v.gradient = Gradient
    BY <1>4, <1>10, WholeNumbers DEF Needs
  <2> QED BY <1>2, <1>10, <2>1 DEF Term, TermSet
<1>11. CASE x = "Hq"
  BY <1>2, <1>11 DEF Term, TermSet
<1>12. CASE x = "HV"
  <2>1. v.Hq = Image(row)
    BY <1>4, <1>12, WholeNumbers DEF Needs
  <2> QED BY <1>2, <1>12, <2>1 DEF Term, TermSet, row
<1>13. CASE x \in {"ritz", "sign"}
  <2>1. v.HV = SetToBag(HVs)
    BY <1>4, <1>13, WholeNumbers DEF Needs
  <2> QED BY <1>2, <1>13, <2>1 DEF Term, TermSet
<1>14. ASSUME "Sq" \in Needs(x, my_cone(p), r) \/ Blocks(cone) = {}
       PROVE  (IF Blocks(cone) = {} THEN EmptyBag ELSE v.Sq) = Slack(cone)
  <2>1. "Sq" \in Needs(x, my_cone(p), r) => v.Sq = SetToBag(All(1))
    BY <1>4, WholeNumbers
  <2> QED BY <1>14, <2>1 DEF Slack
<1>15. CASE x = "min_eigval"
  <2>1. "Sq" \in Needs(x, my_cone(p), r) \/ Blocks(cone) = {}
    BY <1>1, <1>15 DEF Needs
  <2>2. Term(x, coords(p), v) = One(<<cone, IF Blocks(cone) = {} THEN EmptyBag ELSE v.Sq>>)
    BY <1>15 DEF Term, cone
  <2>3. TermSet(x, p, r) = {<<cone, Slack(cone)>>}
    BY <1>15 DEF TermSet, cone
  <2> QED BY <1>2, <1>14, <2>1, <2>2, <2>3
<1>16. CASE x = "min_slack"
  <2>1. "Sq" \in Needs(x, my_cone(p), r) \/ Blocks(cone) = {}
    BY <1>1, <1>16 DEF Needs
  <2>2. setup.lp = cone => v.lp_slack = SetToBag(All(1))
    <3>1. setup.lp = cone => "lp_slack" \in Needs(x, my_cone(p), r)
      BY <1>1, <1>16 DEF Needs
    <3> QED BY <1>4, <3>1, WholeNumbers
  <2>3. Term(x, coords(p), v)
          = One(<<cone, IF Blocks(cone) = {} THEN EmptyBag ELSE v.Sq,
                  IF setup.lp = cone THEN v.lp_slack ELSE EmptyBag>>)
    BY <1>16 DEF Term, cone
  <2>4. TermSet(x, p, r) = {<<cone, Slack(cone), IfOwner(setup.lp, cone, All(1))>>}
    BY <1>16 DEF TermSet, cone, Sensible
  <2>5. (IF setup.lp = cone THEN v.lp_slack ELSE EmptyBag) = IfOwner(setup.lp, cone, All(1))
    BY <2>2 DEF IfOwner
  <2> QED BY <1>2, <1>14, <2>1, <2>3, <2>4, <2>5
<1>17. CASE x = "free"
  <2>1. setup.free = cone => "stationarity" \in Needs(x, my_cone(p), r)
    BY <1>1, <1>17 DEF Needs
  <2>2. setup.free = cone => v.stationarity = SetToBag(All(1))
    BY <1>4, <2>1, WholeNumbers
  <2>3. Term(x, coords(p), v)
          = One(<<cone, IF setup.free = cone THEN v.stationarity ELSE EmptyBag>>)
    BY <1>17 DEF Term, cone
  <2>4. TermSet(x, p, r) = {<<cone, IfOwner(setup.free, cone, All(1))>>}
    BY <1>17 DEF TermSet, cone, Sensible
  <2>5. (IF setup.free = cone THEN v.stationarity ELSE EmptyBag)
          = IfOwner(setup.free, cone, All(1))
    BY <2>2 DEF IfOwner
  <2> QED BY <1>2, <2>3, <2>4, <2>5
<1>18. CASE x = "gram"
  <2>1. v.variables = SetToBag(AllVariables(r))
    BY <1>4, <1>18, WholeNumbers DEF Needs
  <2> QED BY <1>2, <1>18, <2>1 DEF Term, TermSet
<1>19. CASE x = "lambda"
  <2>1. Blocks(cone) # {} => v.ritz = Ritz
    BY <1>1, <1>4, <1>19, WholeNumbers DEF Needs
  <2>2. Term(x, coords(p), v) =
          IF Speaks(p) /\ Blocks(cone) # {} THEN One(<<cone, v.ritz, Linf(coords(p))>>) ELSE EmptyBag
    BY <1>19 DEF Term, cone, Speaks
  <2>3. TermSet(x, p, r) =
          IF Speaks(p) /\ Blocks(cone) # {} THEN {<<cone, Ritz, Linf(coords(p))>>} ELSE {}
    BY <1>19 DEF TermSet, cone
  <2> QED BY <1>2, <1>3, <2>1, <2>2, <2>3
<1>20. CASE x = "ready"
  <2>1. v.winner = SetToBag({r.winner})
    BY <1>4, <1>20, WholeNumbers DEF Needs
  <2>2. WinnerIn(v) = r.winner
    BY <2>1, WinnerIsIn
  <2>3. cone = r.winner[1] => v.ritz = Ritz
    BY <1>1, <1>4, <1>20, WholeNumbers DEF Needs
  <2>4. Term(x, coords(p), v) =
          IF cone = WinnerIn(v)[1] THEN One(<<coords(p), v.ritz, Linf(coords(p))>>) ELSE EmptyBag
    BY <1>20 DEF Term, cone
  <2>5. TermSet(x, p, r) =
          IF cone = r.winner[1] THEN {<<coords(p), Ritz, Linf(coords(p))>>} ELSE {}
    BY <1>20 DEF TermSet, cone
  <2> QED BY <1>2, <1>3, <2>2, <2>3, <2>4, <2>5
<1> QED BY <1>5, <1>6, <1>7, <1>8, <1>9, <1>10, <1>11, <1>12, <1>13, <1>15, <1>16, <1>17, <1>18,
           <1>19, <1>20 DEF Computed, Announced, Quantities

-----------------------------------------------------------------------------
(* What a process knows: pairs of a number and the axes it has been summed *)
(* over so far.                                                            *)

LEMMA AxesOf ==
  ASSUME NEW call \in Calls
  PROVE  /\ Axes[call.on] \in SUBSET (1..3)
         /\ \A x : Before(x, call) \in SUBSET (1..3)
<1>1. call.on \in {"row", "rank", "cone", "all"}
  BY DEF Calls, Axes
<1>2. Axes[call.on] \in SUBSET (1..3)
  BY <1>1 DEF Axes
<1>3. ASSUME NEW x PROVE Before(x, call) \in SUBSET (1..3)
  <2>1. Prior(x, call.on) \in {{}, {1}, {2}, {1, 2}, {2, 3}}
    BY DEF Prior
  <2> QED BY <2>1 DEF Before
<1> QED BY <1>2, <1>3

\* What a process gives to a call.
LEMMA Gives ==
  ASSUME IsSetup(setup), NEW r, NEW p \in Procs, NEW v, NEW facts, Matches(p, r, v, facts),
         NEW call \in Calls, NEW x, Fits(my_cone(p), r, call, facts, x)
  PROVE  Contribution(call, p, v, x) = Total(x, p, Before(x, call), r)
<1>1. CASE x \in call.fresh
  <2>1. Before(x, call) = {}
    BY <1>1 DEF Before
  <2>2. Total(x, p, {}, r) = SetToBag(TermSet(x, p, r))
    BY TotalNone DEF Fits
  <2>3. \A y \in Needs(x, my_cone(p), r) : v[y] = Total(y, p, Full(y), r)
    BY <1>1 DEF Fits, Known, Matches
  <2>4. Term(x, coords(p), v) = SetToBag(TermSet(x, p, r))
    BY <1>1, <2>3, TermIs DEF Fits
  <2>5. Total(x, p, Before(x, call), r) = SetToBag(TermSet(x, p, r))
    BY <2>1, <2>2
  <2> QED BY <1>1, <2>4, <2>5 DEF Contribution
<1>2. CASE x \notin call.fresh
  <2>1. v[x] = Total(x, p, Before(x, call), r)
    BY <1>2 DEF Fits, Matches
  <2> QED BY <1>2, <2>1 DEF Contribution
<1> QED BY <1>1, <1>2

\* The total of a line is that of each of its processes.
LEMMA SameTotal ==
  ASSUME NEW r, NEW x, NEW p \in Procs, NEW A, NEW D, A \subseteq D, NEW q \in Cube(p, A)
  PROVE  Total(x, q, D, r) = Total(x, p, D, r)
<1>1. q \in Cube(p, D)
  BY DEF Cube
<1>2. Cube(q, D) = Cube(p, D)
  BY <1>1, CubeBasics
<1> QED BY <1>2 DEF Total, Terms

\* A call sums what its processes know to the sum over one axis more.
LEMMA SumIsTotal ==
  ASSUME IsSetup(setup), NEW r, NEW p \in Procs, NEW call \in Calls, NEW x \in call.of,
         NEW know, \A q \in Members(call.on, p) :
           Matches(q, r, val[q], know[q]) /\ Fits(my_cone(q), r, call, know[q], x)
  PROVE  Summed(call, Members(call.on, p), x) = Total(x, p, After(x, call), r)
<1> DEFINE S == Members(call.on, p)
           D == Axes[call.on]
           A == Before(x, call)
<1>1. S = Cube(p, D)
  BY LineIsCube
<1>2. S \subseteq Procs /\ p \in S
  BY <1>1, CubeBasics
<1>3. \A q \in S : Contribution(call, q, val[q], x) = Total(x, q, A, r)
  BY <1>2, Gives
<1>4. [q \in S |-> Contribution(call, q, val[q], x)] = [q \in Cube(p, D) |-> Total(x, q, A, r)]
  BY <1>1, <1>3
<1>5. A \in SUBSET (1..3) /\ D \in SUBSET (1..3)
  BY AxesOf
<1>6. x \in Quantities /\ A \cap D = {} /\ A \union D \subseteq Full(x)
  BY <1>2 DEF Fits, After
<1>7. BagSum([q \in Cube(p, D) |-> Total(x, q, A, r)]) = Total(x, p, A \union D, r)
  <2> HIDE DEF A, D
  <2> QED BY <1>5, <1>6, TotalSum
<1> QED BY <1>4, <1>7 DEF Summed, After

\* A number that is a process' own is already the sum over its line.
LEMMA AloneIsTotal ==
  ASSUME IsSetup(setup), NEW r, NEW p \in Procs, NEW call \in Calls, NEW x,
         Members(call.on, p) = {p}
  PROVE  Total(x, p, After(x, call), r) = Total(x, p, Before(x, call), r)
<1> DEFINE D == Axes[call.on]
           A == Before(x, call)
<1>1. A \in SUBSET (1..3) /\ D \in SUBSET (1..3)
  BY AxesOf
<1>2. Cube(p, D) = {p}
  BY LineIsCube
<1>3. Cube(p, D \union A) = UNION {Cube(q, A) : q \in Cube(p, D)}
  BY <1>1, CubeUnion
<1>4. Cube(p, D \union A) = Cube(p, A)
  BY <1>2, <1>3
<1>5. A \union D = D \union A
  OBVIOUS
<1> QED BY <1>4, <1>5 DEF Total, Terms, After

\* After a call a process knows what it is to know.
LEMMA KnowsNext ==
  ASSUME NEW r, NEW p \in Procs, NEW v, NEW facts, Matches(p, r, v, facts),
         NEW call, NEW next, Legal(my_cone(p), r, call, facts, next),
         NEW w, \A f \in next : w[f[1]] = IF f[1] \in call.of
                                         THEN Total(f[1], p, After(f[1], call), r) ELSE v[f[1]]
  PROVE  Matches(p, r, w, next)
<1> SUFFICES ASSUME NEW f \in next PROVE w[f[1]] = Total(f[1], p, f[2], r)
  BY DEF Matches
<1>1. CASE f[1] \in call.of
  <2>1. f[2] = After(f[1], call)
    BY <1>1 DEF Legal
  <2> QED BY <1>1, <2>1
<1>2. CASE f[1] \notin call.of
  BY <1>2 DEF Legal, Matches
<1> QED BY <1>1, <1>2

-----------------------------------------------------------------------------
(* Lists of calls.                                                         *)

LEMMA LegalMore ==
  ASSUME NEW c, NEW r, NEW call, NEW facts, NEW next, Legal(c, r, call, facts, next),
         NEW more, facts \subseteq more, NEW less, less \subseteq next
  PROVE  Legal(c, r, call, more, less)
<1>1. \A x \in call.of : Fits(c, r, call, more, x)
  BY DEF Legal, Fits, Known
<1> QED BY <1>1 DEF Legal

\* Knowing more allows the same calls, which then give as much.
LEMMA RunsMore ==
  ASSUME NEW c, NEW r, NEW L, NEW facts, NEW next, Runs(c, r, L, facts, next),
         NEW more, facts \subseteq more, NEW less, less \subseteq next
  PROVE  Runs(c, r, L, more, less)
<1>1. PICK know : /\ know[0] \subseteq facts
                  /\ next \subseteq know[Len(L)]
                  /\ \A i \in 1..Len(L) : Legal(c, r, L[i], know[i - 1], know[i])
  BY DEF Runs
<1>2. know[0] \subseteq more /\ less \subseteq know[Len(L)]
  BY <1>1
<1> QED BY <1>1, <1>2 DEF Runs

LEMMA RunsNone ==
  ASSUME NEW c, NEW r, NEW facts
  PROVE  Runs(c, r, <<>>, facts, facts)
<1> DEFINE know == [i \in {0} |-> facts]
<1>1. know[0] = facts /\ Len(<<>>) = 0
  OBVIOUS
<1> HIDE DEF know
<1> QED BY <1>1 DEF Runs

LEMMA RunsOne ==
  ASSUME NEW c, NEW r, NEW call, NEW facts, NEW next, Legal(c, r, call, facts, next)
  PROVE  Runs(c, r, <<call>>, facts, next)
<1> DEFINE know == [i \in {0, 1} |-> IF i = 0 THEN facts ELSE next]
<1>1. know[0] = facts /\ know[1] = next /\ Len(<<call>>) = 1 /\ <<call>>[1] = call
  OBVIOUS
<1> HIDE DEF know
<1>2. \A i \in 1..1 : Legal(c, r, <<call>>[i], know[i - 1], know[i])
  BY <1>1
<1> QED BY <1>1, <1>2 DEF Runs

LEMMA RunsThen ==
  ASSUME NEW c, NEW r, NEW L \in Seq(Calls), NEW M \in Seq(Calls), NEW facts, NEW mid, NEW next,
         Runs(c, r, L, facts, mid), Runs(c, r, M, mid, next)
  PROVE  Runs(c, r, L \o M, facts, next)
<1> DEFINE m == Len(L)
           n == Len(M)
<1>1. PICK f : /\ f[0] \subseteq facts
               /\ mid \subseteq f[m]
               /\ \A i \in 1..m : Legal(c, r, L[i], f[i - 1], f[i])
  BY DEF Runs
<1>2. PICK g : /\ g[0] \subseteq mid
               /\ next \subseteq g[n]
               /\ \A i \in 1..n : Legal(c, r, M[i], g[i - 1], g[i])
  BY DEF Runs
<1>3. m \in Nat /\ n \in Nat /\ Len(L \o M) = m + n
  BY ConcatProperties, LenProperties
<1>4. \A i \in 1..(m + n) : (L \o M)[i] = IF i <= m THEN L[i] ELSE M[i - m]
  BY <1>3, ConcatProperties
<1> HIDE DEF m, n
<1> DEFINE know == [i \in 0..(m + n) |-> IF i <= m THEN f[i] ELSE g[i - m]]
<1>5. know[0] = f[0] /\ know[m + n] = IF n = 0 THEN f[m] ELSE g[n]
  BY <1>3
<1>6. know[0] \subseteq facts /\ next \subseteq know[m + n]
  BY <1>1, <1>2, <1>5
<1>7. ASSUME NEW i \in 1..(m + n) PROVE Legal(c, r, (L \o M)[i], know[i - 1], know[i])
  <2>1. CASE i <= m
    <3>1. i \in 1..m /\ know[i - 1] = f[i - 1] /\ know[i] = f[i] /\ (L \o M)[i] = L[i]
      BY <1>3, <1>4, <2>1
    <3> QED BY <1>1, <3>1
  <2>2. CASE i = m + 1
    <3>0. i - m = 1 /\ i - 1 = m /\ i \in 0..(m + n) /\ m \in 0..(m + n) /\ ~(i <= m) /\ 1 \in 1..n
      BY <1>3, <2>2
    <3>1. 1 \in 1..n /\ know[i - 1] = f[m] /\ know[i] = g[1] /\ (L \o M)[i] = M[1]
      BY <1>3, <1>4, <3>0
    <3>2. Legal(c, r, M[1], g[0], g[1])
      <4>1. 1 - 1 = 0
        OBVIOUS
      <4> QED BY <1>2, <3>1, <4>1
    <3>3. g[0] \subseteq f[m]
      BY <1>1, <1>2
    <3> QED BY <3>1, <3>2, <3>3, LegalMore
  <2>3. CASE i > m + 1
    <3>1. i - m \in 1..n /\ know[i - 1] = g[(i - m) - 1] /\ know[i] = g[i - m]
          /\ (L \o M)[i] = M[i - m]
      BY <1>3, <1>4, <2>3
    <3> QED BY <1>2, <3>1
  <2> QED BY <1>3, <2>1, <2>2, <2>3
<1> HIDE DEF know
<1> QED BY <1>3, <1>6, <1>7 DEF Runs

\* What a list of calls allows, its head and its tail do one after the other.
LEMMA RunsHead ==
  ASSUME NEW c, NEW r, NEW L \in Seq(Calls), L # <<>>, NEW facts, NEW next,
         Runs(c, r, L, facts, next)
  PROVE  \E mid : Legal(c, r, Head(L), facts, mid) /\ Runs(c, r, Tail(L), mid, next)
<1>1. PICK know : /\ know[0] \subseteq facts
                  /\ next \subseteq know[Len(L)]
                  /\ \A i \in 1..Len(L) : Legal(c, r, L[i], know[i - 1], know[i])
  BY DEF Runs
<1>2. Len(L) \in Nat /\ Len(L) >= 1 /\ Head(L) = L[1] /\ Len(Tail(L)) = Len(L) - 1
  BY EmptySeq, HeadTailProperties
<1>3. \A i \in 1..(Len(L) - 1) : Tail(L)[i] = L[i + 1]
  BY <1>2, HeadTailProperties
<1>4. Legal(c, r, Head(L), know[0], know[1])
  <2>1. 1 - 1 = 0 /\ 1 \in 1..Len(L)
    BY <1>2
  <2> QED BY <1>1, <1>2, <2>1
<1>5. Legal(c, r, Head(L), facts, know[1])
  BY <1>1, <1>4, LegalMore
<1> DEFINE k == [i \in 0..(Len(L) - 1) |-> know[i + 1]]
<1>6. k[0] = know[1] /\ k[Len(L) - 1] = know[Len(L)]
  BY <1>2
<1>7. \A i \in 1..(Len(L) - 1) : Legal(c, r, Tail(L)[i], k[i - 1], k[i])
  <2> TAKE i \in 1..(Len(L) - 1)
  <2>1. k[i - 1] = know[(i + 1) - 1] /\ k[i] = know[i + 1] /\ i + 1 \in 1..Len(L)
    BY <1>2
  <2> QED BY <1>1, <1>3, <2>1
<1> HIDE DEF k
<1>8. Runs(c, r, Tail(L), know[1], next)
  BY <1>1, <1>2, <1>6, <1>7 DEF Runs
<1> QED BY <1>5, <1>8

\* The calls a process makes by itself.
Alone(p, call) == Members(call.on, p) = {p}

AfterCall(p, call, v, w) ==
  w = [x \in DOMAIN v |-> IF x \in call.of THEN Contribution(call, p, v, x) ELSE v[x]]

MakesReady(p, calls, v, n, after) ==
  /\ Ready(p, calls, v) = [todo |-> SubSeq(calls, n + 1, Len(calls)), val |-> after[n]]
  /\ after[0] = v
  /\ \A i \in 1..n : Alone(p, calls[i])
  /\ \A i \in 1..n : DOMAIN after[i - 1] = DOMAIN v
                      /\ AfterCall(p, calls[i], after[i - 1], after[i])
  /\ DOMAIN after[n] = DOMAIN v

\* Ready makes the calls at the head of a list that are of one process.
LEMMA ReadySteps ==
  ASSUME NEW p, NEW calls \in Seq(Calls), NEW v
  PROVE  \E n \in 0..Len(calls) : \E after : MakesReady(p, calls, v, n, after)
<1> DEFINE D == {i \in DOMAIN calls : \A j \in 1..i : Alone(p, calls[j])}
           n == Cardinality(D)
           next(i, w) == [x \in DOMAIN v |-> IF x \in calls[i].of
                                             THEN Contribution(calls[i], p, w, x) ELSE w[x]]
           IsAfter(f) == f = [i \in 0..n |-> IF i = 0 THEN v ELSE next(i, f[i - 1])]
           after == CHOOSE f : IsAfter(f)
<1>1. Len(calls) \in Nat /\ DOMAIN calls = 1..Len(calls)
  BY LenProperties
<1>2. n \in Nat /\ D = 1..n
  <2>1. D \in SUBSET (1..Len(calls))
    BY <1>1
  <2>2. \A i \in D, j \in 1..Len(calls) : j <= i => j \in D
    BY <1>1
  <2> HIDE DEF D
  <2> QED BY <1>1, <2>1, <2>2, InitialPositions
<1>3. n \in 0..Len(calls)
  <2>1. n # 0 => n \in D
    BY <1>2
  <2> QED BY <1>1, <1>2, <2>1
<1>4. \A i \in 1..n : Alone(p, calls[i])
  <2>1. \A i \in D : Alone(p, calls[i])
    BY <1>1
  <2> QED BY <1>2, <2>1
<1>5. Ready(p, calls, v) = [todo |-> SubSeq(calls, n + 1, Len(calls)), val |-> after[n]]
  BY DEF Ready, Alone
<1> HIDE DEF n
<1>6. \E f : IsAfter(f)
  <2> DEFINE Part(m) == \E g : /\ g[0] = v
                               /\ \A i \in 1..m : g[i] = next(i, g[i - 1])
             T == {m \in Nat : Part(m)}
  <2>1. 0 \in T
    <3> DEFINE g == [i \in {0} |-> v]
    <3>1. g[0] = v
      OBVIOUS
    <3>2. \A i \in 1..0 : g[i] = next(i, g[i - 1])
      OBVIOUS
    <3> HIDE DEF g, next
    <3>3. Part(0)
      BY <3>1, <3>2
    <3> QED BY <3>3
  <2>2. ASSUME NEW m \in Nat, m \in T PROVE m + 1 \in T
    <3>1. PICK g : /\ g[0] = v
                   /\ \A i \in 1..m : g[i] = next(i, g[i - 1])
      BY <2>2
    <3> HIDE DEF next
    <3> DEFINE h == [i \in 0..(m + 1) |-> IF i <= m THEN g[i] ELSE next(m + 1, g[m])]
    <3>2. h[0] = v
      BY <3>1
    <3>3. \A i \in 1..(m + 1) : h[i] = next(i, h[i - 1])
      <4> TAKE i \in 1..(m + 1)
      <4>1. CASE i <= m
        <5>1. h[i] = g[i] /\ h[i - 1] = g[i - 1] /\ i \in 1..m
          BY <4>1
        <5> QED BY <3>1, <5>1
      <4>2. CASE i = m + 1
        <5>1. h[i] = next(m + 1, g[m]) /\ h[i - 1] = g[m]
          BY <4>2
        <5> QED BY <4>2, <5>1
      <4> QED BY <4>1, <4>2
    <3> HIDE DEF h
    <3>4. Part(m + 1)
      BY <3>2, <3>3
    <3> QED BY <3>4
  <2> HIDE DEF T
  <2>3. n \in T
    BY <1>2, <2>1, <2>2, NatSetInduction
  <2>4. PICK g : /\ g[0] = v
                 /\ \A i \in 1..n : g[i] = next(i, g[i - 1])
    BY <2>3 DEF T
  <2> HIDE DEF next
  <2> DEFINE f == [i \in 0..n |-> g[i]]
  <2>5. \A i \in 0..n : f[i] = IF i = 0 THEN v ELSE next(i, f[i - 1])
    <3> TAKE i \in 0..n
    <3>1. CASE i = 0
      BY <2>4, <3>1
    <3>2. CASE i # 0
      <4>1. i \in 1..n /\ f[i] = g[i] /\ f[i - 1] = g[i - 1]
        BY <1>2, <3>2
      <4> QED BY <2>4, <3>2, <4>1
    <3> QED BY <3>1, <3>2
  <2>6. IsAfter(f)
    BY <2>5
  <2> HIDE DEF f
  <2> QED BY <2>6
<1>7. IsAfter(after)
  <2> HIDE DEF IsAfter
  <2> QED BY <1>6
<1> HIDE DEF after
<1>8. after[0] = v
  BY <1>2, <1>7
<1>9. \A i \in 1..n : after[i] = next(i, after[i - 1])
  <2> TAKE i \in 1..n
  <2>1. i \in 0..n /\ i # 0
    BY <1>2
  <2> HIDE DEF next
  <2> QED BY <1>7, <2>1
<1>10. \A i \in 0..n : DOMAIN after[i] = DOMAIN v
  <2> TAKE i \in 0..n
  <2>1. CASE i = 0
    BY <1>8, <2>1
  <2>2. CASE i # 0
    <3>1. i \in 1..n
      BY <1>2, <2>2
    <3> QED BY <1>9, <3>1
  <2> QED BY <2>1, <2>2
<1>11. \A i \in 1..n : DOMAIN after[i - 1] = DOMAIN v
                        /\ AfterCall(p, calls[i], after[i - 1], after[i])
  <2> TAKE i \in 1..n
  <2>1. DOMAIN after[i - 1] = DOMAIN v
    BY <1>2, <1>10
  <2> QED BY <1>9, <2>1 DEF AfterCall
<1>12. DOMAIN after[n] = DOMAIN v
  BY <1>2, <1>10
<1> QED BY <1>3, <1>4, <1>5, <1>8, <1>11, <1>12 DEF MakesReady

LEMMA NamedNext ==
  ASSUME NEW c, NEW r, NEW call, NEW facts, NEW next, Legal(c, r, call, facts, next), Named(facts)
  PROVE  Named(next)
BY DEF Named, Legal, Fits

LEMMA RunsRest ==
  ASSUME NEW c, NEW r, NEW L \in Seq(Calls), NEW n \in 0..Len(L), NEW know, NEW next,
         next \subseteq know[Len(L)],
         \A i \in 1..Len(L) : Legal(c, r, L[i], know[i - 1], know[i])
  PROVE  /\ SubSeq(L, n + 1, Len(L)) \in Seq(Calls)
         /\ Runs(c, r, SubSeq(L, n + 1, Len(L)), know[n], next)
<1> DEFINE M == SubSeq(L, n + 1, Len(L))
           m == Len(L)
           f == [i \in 0..(m - n) |-> know[i + n]]
<1>1. m \in Nat /\ n \in Nat /\ n <= m
  BY LenProperties
<1>2. M \in Seq(Calls) /\ Len(M) = m - n /\ \A i \in 1..(m - n) : M[i] = L[i + n]
  <2>1. n + 1 \in 1..(m + 1) /\ m \in n..m
    BY <1>1
  <2>2. Len(M) = IF n + 1 <= m THEN m - (n + 1) + 1 ELSE 0
    BY <2>1, SubSeqProperties
  <2>3. M \in Seq(Calls)
    BY <1>1, <2>1, SubSeqProperties
  <2>4. Len(M) = m - n
    BY <1>1, <2>2
  <2>5. \A i \in 1..(m - n) : M[i] = L[i + n]
    BY <1>1, <2>1, <2>4, SubSeqProperties
  <2> QED BY <2>3, <2>4, <2>5
<1> HIDE DEF M, m
<1>3. f[0] = know[n] /\ f[m - n] = know[m]
  BY <1>1
<1>4. \A i \in 1..(m - n) : Legal(c, r, M[i], f[i - 1], f[i])
  <2> TAKE i \in 1..(m - n)
  <2>1. f[i] = know[i + n] /\ f[i - 1] = know[(i + n) - 1] /\ i + n \in 1..m
    BY <1>1
  <2> QED BY <1>2, <2>1 DEF m
<1> HIDE DEF f
<1>5. f[0] \subseteq know[n] /\ next \subseteq f[Len(M)]
  BY <1>2, <1>3 DEF m
<1>6. Runs(c, r, M, know[n], next)
  BY <1>2, <1>4, <1>5 DEF Runs
<1> QED BY <1>2, <1>6 DEF M, m

\* A process that makes the calls of its own goes on knowing what it may.
LEMMA ReadyKnows ==
  ASSUME IsSetup(setup), NEW r, NEW p \in Procs, NEW calls \in Seq(Calls),
         NEW v, DOMAIN v = Quantities,
         NEW facts, Named(facts), Matches(p, r, v, facts),
         NEW goal, Runs(my_cone(p), r, calls, facts, goal)
  PROVE  \E n \in 0..Len(calls) : \E mid :
           /\ \A i \in 1..n : Alone(p, calls[i])
           /\ Ready(p, calls, v).todo = SubSeq(calls, n + 1, Len(calls))
           /\ Ready(p, calls, v).todo \in Seq(Calls)
           /\ DOMAIN Ready(p, calls, v).val = Quantities
           /\ Named(mid)
           /\ Matches(p, r, Ready(p, calls, v).val, mid)
           /\ Runs(my_cone(p), r, Ready(p, calls, v).todo, mid, goal)
<1>0. PICK n \in 0..Len(calls) : \E after : MakesReady(p, calls, v, n, after)
  BY ReadySteps
<1>1. PICK after : MakesReady(p, calls, v, n, after)
  BY <1>0
<1>2. PICK know : /\ know[0] \subseteq facts
                  /\ goal \subseteq know[Len(calls)]
                  /\ \A i \in 1..Len(calls) : Legal(my_cone(p), r, calls[i], know[i - 1], know[i])
  BY DEF Runs
<1>3. n \in Nat /\ Len(calls) \in Nat /\ n <= Len(calls)
  BY LenProperties
<1> DEFINE Good(i) == Named(know[i]) /\ Matches(p, r, after[i], know[i])
           T == {i \in Nat : i <= n => Good(i)}
<1>4. 0 \in T
  BY <1>1, <1>2 DEF Named, Matches, MakesReady
<1>5. ASSUME NEW i \in Nat, i \in T PROVE i + 1 \in T
  <2> SUFFICES ASSUME i + 1 <= n PROVE Good(i + 1)
    OBVIOUS
  <2> DEFINE call == calls[i + 1]
  <2>1. Good(i)
    BY <1>3, <1>5
  <2>2. i + 1 \in 1..n /\ i + 1 \in 1..Len(calls) /\ (i + 1) - 1 = i
    BY <1>3
  <2>3. Legal(my_cone(p), r, call, know[i], know[i + 1])
    BY <1>2, <2>2
  <2>4. Alone(p, call) /\ AfterCall(p, call, after[i], after[i + 1]) /\ DOMAIN after[i] = Quantities
    BY <1>1, <2>2 DEF MakesReady
  <2>5. Named(know[i + 1])
    BY <2>1, <2>3, NamedNext
  <2>6. call \in Calls
    BY <2>3 DEF Legal
  <2> HIDE DEF call
  <2>7. ASSUME NEW f \in know[i + 1]
        PROVE  after[i + 1][f[1]] = IF f[1] \in call.of
                                    THEN Total(f[1], p, After(f[1], call), r) ELSE after[i][f[1]]
    <3>1. f[1] \in DOMAIN after[i]
      BY <2>4, <2>5 DEF Named
    <3>2. CASE f[1] \in call.of
      <4>1. after[i + 1][f[1]] = Contribution(call, p, after[i], f[1])
        BY <2>4, <3>1, <3>2 DEF AfterCall
      <4>2. Fits(my_cone(p), r, call, know[i], f[1])
        BY <2>3, <3>2 DEF Legal
      <4>3. Contribution(call, p, after[i], f[1]) = Total(f[1], p, Before(f[1], call), r)
        BY <2>1, <2>6, <4>2, Gives
      <4>4. Total(f[1], p, After(f[1], call), r) = Total(f[1], p, Before(f[1], call), r)
        BY <2>4, <2>6, AloneIsTotal DEF Alone
      <4> QED BY <3>2, <4>1, <4>3, <4>4
    <3>3. CASE f[1] \notin call.of
      BY <2>4, <3>1, <3>3 DEF AfterCall
    <3> QED BY <3>2, <3>3
  <2>8. Matches(p, r, after[i + 1], know[i + 1])
    BY <2>1, <2>3, <2>7, KnowsNext
  <2> QED BY <2>5, <2>8
<1> HIDE DEF T
<1>6. n \in T
  BY <1>3, <1>4, <1>5, NatSetInduction
<1>7. Good(n)
  BY <1>3, <1>6 DEF T
<1>8. /\ SubSeq(calls, n + 1, Len(calls)) \in Seq(Calls)
      /\ Runs(my_cone(p), r, SubSeq(calls, n + 1, Len(calls)), know[n], goal)
  BY <1>2, RunsRest
<1>9. /\ Ready(p, calls, v).todo = SubSeq(calls, n + 1, Len(calls))
      /\ Ready(p, calls, v).val = after[n]
  BY <1>1 DEF MakesReady
<1>10. DOMAIN after[n] = Quantities
  BY <1>1 DEF MakesReady
<1>11. \A i \in 1..n : Alone(p, calls[i])
  BY <1>1 DEF MakesReady
<1> QED BY <1>11, <1>7, <1>8, <1>9, <1>10

-----------------------------------------------------------------------------
(* What the routines compute.                                              *)

Then(facts, X) == {f \in facts : f[1] \notin X} \union Wholes(X)

\* From the facts F the calls L, made by a process of cone c, give the whole of
\* the numbers X and leave the others as they are.
Computes(c, r, L, X, F) ==
  /\ L \in Seq(Calls)
  /\ \A facts : F \subseteq facts => Runs(c, r, L, facts, Then(facts, X))

LEMMA ComputesMore ==
  ASSUME NEW c, NEW r, NEW L, NEW X, NEW F, Computes(c, r, L, X, F), NEW G, F \subseteq G
  PROVE  Computes(c, r, L, X, G)
BY DEF Computes

LEMMA ComputesNone ==
  ASSUME NEW c, NEW r, NEW F
  PROVE  Computes(c, r, <<>>, {}, F)
<1>1. <<>> \in Seq(Calls)
  OBVIOUS
<1>2. ASSUME NEW facts PROVE Runs(c, r, <<>>, facts, Then(facts, {}))
  <2>1. Then(facts, {}) = facts
    BY DEF Then, Wholes
  <2> QED BY <2>1, RunsNone
<1> QED BY <1>1, <1>2 DEF Computes

LEMMA ComputesAnd ==
  ASSUME NEW c, NEW r, NEW L, NEW M, NEW X, NEW Y, NEW F, NEW G,
         Computes(c, r, L, X, F), Computes(c, r, M, Y, G), G \subseteq Then(F, X),
         NEW Z, Z = X \union Y
  PROVE  Computes(c, r, L \o M, Z, F)
<1>1. L \in Seq(Calls) /\ M \in Seq(Calls) /\ L \o M \in Seq(Calls)
  BY ConcatProperties DEF Computes
<1>2. ASSUME NEW facts, F \subseteq facts
      PROVE  Runs(c, r, L \o M, facts, Then(facts, Z))
  <2>1. Runs(c, r, L, facts, Then(facts, X))
    BY <1>2 DEF Computes
  <2>2. G \subseteq Then(facts, X)
    BY <1>2 DEF Then
  <2>3. Runs(c, r, M, Then(facts, X), Then(Then(facts, X), Y))
    BY <2>2 DEF Computes
  <2>4. Runs(c, r, L \o M, facts, Then(Then(facts, X), Y))
    BY <1>1, <2>1, <2>3, RunsThen
  <2>5. Then(facts, Z) \subseteq Then(Then(facts, X), Y)
    BY DEF Then, Wholes
  <2> QED BY <2>4, <2>5, RunsMore
<1> QED BY <1>1, <1>2 DEF Computes

LEMMA ComputesThen ==
  ASSUME NEW c, NEW r, NEW L, NEW M, NEW X, NEW Y, NEW N, NEW K,
         Computes(c, r, L, X, Wholes(N)), Computes(c, r, M, Y, Wholes(K)), K \subseteq X \union N,
         NEW Z, Z = X \union Y
  PROVE  Computes(c, r, L \o M, Z, Wholes(N))
<1>1. Wholes(K) \subseteq Then(Wholes(N), X)
  BY DEF Wholes, Then
<1> QED BY <1>1, ComputesAnd

\* One call for one number.
LEMMA OneCall ==
  ASSUME NEW c, NEW r, NEW on \in DOMAIN Axes, NEW x \in Quantities, NEW fresh \in SUBSET {x},
         NEW facts, Fits(c, r, Call(on, {x}, fresh), facts, x),
         NEW D, D = After(x, Call(on, {x}, fresh))
  PROVE  Runs(c, r, <<Call(on, {x}, fresh)>>, facts, {f \in facts : f[1] # x} \union {<<x, D>>})
<1> DEFINE call == Call(on, {x}, fresh)
           next == {f \in facts : f[1] # x} \union {<<x, D>>}
<1>1. call \in Calls /\ call.of = {x}
  BY DEF Call, Calls
<1>2. \A y \in call.of : Fits(c, r, call, facts, y)
  BY <1>1
<1>3. ASSUME NEW f \in next
      PROVE  IF f[1] \in call.of THEN f = <<f[1], After(f[1], call)>> ELSE f \in facts
  BY <1>1, <1>3
<1> HIDE DEF call, next
<1>4. Legal(c, r, call, facts, next)
  BY <1>1, <1>2, <1>3 DEF Legal
<1>5. Runs(c, r, <<call>>, facts, next)
  BY <1>4, RunsOne
<1> QED BY <1>5 DEF call, next

LEMMA CallsIn ==
  ASSUME NEW on \in DOMAIN Axes, NEW of \in SUBSET Quantities, NEW fresh \in SUBSET Quantities
  PROVE  Call(on, of, fresh) \in Calls /\ <<Call(on, of, fresh)>> \in Seq(Calls)
BY DEF Call, Calls

LEMMA ReduceOne ==
  ASSUME NEW c, NEW r, NEW on \in DOMAIN Axes, NEW x \in Computed, Sensible(x, r),
         Full(x) = Axes[on]
  PROVE  Computes(c, r, Reduce(x, <<on>>), {x}, Wholes(Needs(x, c, r)))
<1> DEFINE call == Call(on, {x}, {x})
<1>1. Reduce(x, <<on>>) = <<call>>
  BY DEF Reduce
<1>2. x \in Quantities /\ {x} \in SUBSET Quantities
  BY DEF Computed
<1>3. <<call>> \in Seq(Calls)
  BY <1>2, CallsIn
<1>4. ASSUME NEW facts, Wholes(Needs(x, c, r)) \subseteq facts
      PROVE  Runs(c, r, <<call>>, facts, Then(facts, {x}))
  <2>1. Before(x, call) = {} /\ After(x, call) = Full(x)
    BY DEF Before, After, Call
  <2>2. Known(Needs(x, c, r), facts)
    BY <1>4 DEF Wholes, Known
  <2>3. Fits(c, r, call, facts, x)
    BY <1>2, <2>1, <2>2 DEF Fits, Call
  <2>4. Runs(c, r, <<call>>, facts, {f \in facts : f[1] # x} \union {<<x, Full(x)>>})
    <3>1. {x} \in SUBSET {x}
      OBVIOUS
    <3> HIDE DEF call
    <3> QED BY <1>2, <2>1, <2>3, <3>1, OneCall DEF call
  <2>5. Then(facts, {x}) = {f \in facts : f[1] # x} \union {<<x, Full(x)>>}
    BY DEF Then, Wholes
  <2> QED BY <2>4, <2>5
<1> HIDE DEF call
<1> QED BY <1>1, <1>3, <1>4 DEF Computes

Given(facts, x, D) == {f \in facts : f[1] # x} \union {<<x, D>>}

\* A number is computed and summed over one axis, then over another.
LEMMA AxisValues ==
  Axes["row"] = {1} /\ Axes["rank"] = {2} /\ Axes["cone"] = {3} /\ Axes["all"] = 1..3
BY DEF Axes

\* A number computed just before and summed over an axis.
LEMMA FirstSum ==
  ASSUME NEW c, NEW r, NEW on \in DOMAIN Axes, NEW x \in Computed, Sensible(x, r),
         Axes[on] \subseteq Full(x), NEW facts, Wholes(Needs(x, c, r)) \subseteq facts,
         NEW D, D = Axes[on]
  PROVE  Runs(c, r, <<Call(on, {x}, {x})>>, facts, Given(facts, x, D))
<1> DEFINE call == Call(on, {x}, {x})
<1>1. Before(x, call) = {} /\ After(x, call) = D
  BY DEF Before, After, Call
<1>2. Known(Needs(x, c, r), facts)
  BY DEF Wholes, Known
<1>3. x \in Quantities
  BY DEF Computed
<1>4. Fits(c, r, call, facts, x)
  BY <1>1, <1>2, <1>3 DEF Fits, Call
<1>5. {x} \in SUBSET {x}
  OBVIOUS
<1> HIDE DEF call
<1> QED BY <1>1, <1>3, <1>4, <1>5, OneCall DEF call, Given

\* A number summed over an axis more.
LEMMA NextSum ==
  ASSUME NEW c, NEW r, NEW on \in DOMAIN Axes, NEW x \in Quantities,
         NEW A, A = Prior(x, on), A \cap Axes[on] = {}, NEW D, D = A \union Axes[on],
         D \subseteq Full(x), NEW facts, <<x, A>> \in facts
  PROVE  Runs(c, r, <<Call(on, {x}, {})>>, facts, Given(facts, x, D))
<1> DEFINE call == Call(on, {x}, {})
<1>1. Before(x, call) = A /\ After(x, call) = D
  BY DEF Before, After, Call
<1>2. Fits(c, r, call, facts, x)
  BY <1>1 DEF Fits, Call
<1>3. {} \in SUBSET {x}
  OBVIOUS
<1> HIDE DEF call
<1> QED BY <1>1, <1>2, <1>3, OneCall DEF call, Given

LEMMA ReduceTwo ==
  ASSUME NEW c, NEW r, NEW x \in {"Ax", "q", "grad_norm", "dot"}
  PROVE  Computes(c, r, Reduce(x, <<"rank", "cone">>), {x}, Wholes(Needs(x, c, r)))
<1> DEFINE one == Call("rank", {x}, {x})
           two == Call("cone", {x}, {})
<1>1. Reduce(x, <<"rank", "cone">>) = <<one, two>>
  <2>1. <<one, two>> = [i \in 1..2 |-> IF i = 1 THEN one ELSE two]
    OBVIOUS
  <2> QED BY DEF Reduce
<1>2. x \in Quantities /\ x \in Computed /\ {x} \in SUBSET Quantities /\ {} \in SUBSET Quantities
      /\ Sensible(x, r)
  BY DEF Computed, Quantities, Announced, Sensible
<1>3. "rank" \in DOMAIN Axes /\ "cone" \in DOMAIN Axes
  BY DEF Axes
<1>4. <<one>> \in Seq(Calls) /\ <<two>> \in Seq(Calls)
  BY <1>2, <1>3, CallsIn
<1>5. <<one, two>> = <<one>> \o <<two>>
  OBVIOUS
<1>6. Full(x) = {2, 3}
  BY DEF Full
<1>7. Prior(x, "cone") = {2}
  BY DEF Prior
<1> HIDE DEF one, two
<1>8. ASSUME NEW facts, Wholes(Needs(x, c, r)) \subseteq facts
      PROVE  Runs(c, r, <<one, two>>, facts, Then(facts, {x}))
  <2> DEFINE A == {2}
             mid == Given(facts, x, A)
  <2>1. Runs(c, r, <<one>>, facts, mid)
    <3>1. A = Axes["rank"] /\ Axes["rank"] \subseteq Full(x)
      BY <1>6, AxisValues
    <3> HIDE DEF A
    <3> QED BY <1>2, <1>3, <1>8, <3>1, FirstSum DEF one
  <2>2. Runs(c, r, <<two>>, mid, Given(mid, x, Full(x)))
    <3>1. A = Prior(x, "cone") /\ A \cap Axes["cone"] = {} /\ Full(x) = A \union Axes["cone"]
      BY <1>6, <1>7, AxisValues
    <3>2. <<x, A>> \in mid
      BY DEF Given
    <3> HIDE DEF A, mid
    <3> QED BY <1>2, <1>3, <3>1, <3>2, NextSum DEF two
  <2>3. Then(facts, {x}) \subseteq Given(mid, x, Full(x))
    BY DEF Then, Wholes, Given
  <2>4. Runs(c, r, <<one>> \o <<two>>, facts, Given(mid, x, Full(x)))
    <3> HIDE DEF mid
    <3> QED BY <1>4, <2>1, <2>2, RunsThen
  <2> HIDE DEF mid
  <2>5. Runs(c, r, <<one>> \o <<two>>, facts, Then(facts, {x}))
    BY <2>3, <2>4, RunsMore
  <2> QED BY <1>5, <2>5
<1>9. <<one, two>> \in Seq(Calls)
  BY <1>4, <1>5, ConcatProperties
<1> QED BY <1>1, <1>8, <1>9 DEF Computes

\* The objective: the sums over the shares and the cones, the dual objective,
\* and the sum over the rows.
LEMMA ObjectiveGap ==
  ASSUME NEW c, NEW r
  PROVE  Computes(c, r, COMPUTE_OBJECTIVE_GAP, {"p_obj", "d_obj"}, {})
<1> DEFINE x == "p_obj"
           one == Call("rank", {x}, {x})
           two == Call("cone", {x}, {})
           three == Call("row", {"d_obj"}, {"d_obj"})
           four == Call("row", {x}, {})
<1>1. COMPUTE_OBJECTIVE_GAP = ((<<one>> \o <<two>>) \o <<three>>) \o <<four>>
  <2>1. <<one>> \o <<two>> = [i \in 1..2 |-> IF i = 1 THEN one ELSE two]
    OBVIOUS
  <2>2. <<three>> = [i \in 1..1 |-> three]
    OBVIOUS
  <2>3. Reduce(x, <<"rank", "cone">>) = <<one>> \o <<two>>
    BY <2>1 DEF Reduce
  <2>4. Reduce("d_obj", <<"row">>) = <<three>>
    BY <2>2 DEF Reduce
  <2> QED BY <2>3, <2>4 DEF COMPUTE_OBJECTIVE_GAP
<1>2. x \in Quantities /\ x \in Computed /\ {x} \in SUBSET Quantities /\ {} \in SUBSET Quantities
      /\ {"d_obj"} \in SUBSET Quantities /\ "d_obj" \in Computed /\ Sensible(x, r) /\ Sensible("d_obj", r)
  BY DEF Computed, Quantities, Announced, Sensible
<1>3. "rank" \in DOMAIN Axes /\ "cone" \in DOMAIN Axes /\ "row" \in DOMAIN Axes
  BY DEF Axes
<1>4. <<one>> \in Seq(Calls) /\ <<two>> \in Seq(Calls) /\ <<three>> \in Seq(Calls)
      /\ <<four>> \in Seq(Calls)
  BY <1>2, <1>3, CallsIn
<1>5. Full(x) = 1..3 /\ Full("d_obj") = {1}
  BY DEF Full
<1>6. Prior(x, "cone") = {2} /\ Prior(x, "row") = {2, 3}
  BY DEF Prior
<1>7. Needs(x, c, r) = {} /\ Needs("d_obj", c, r) = {} /\ Wholes({}) = {}
  BY DEF Needs, Wholes
<1> HIDE DEF one, two, three, four
<1>8. ASSUME NEW facts
      PROVE  Runs(c, r, ((<<one>> \o <<two>>) \o <<three>>) \o <<four>>, facts,
                  Then(facts, {x, "d_obj"}))
  <2> DEFINE A == {2}
             B == {2, 3}
             a == Given(facts, x, A)
             b == Given(a, x, B)
             d == Given(b, "d_obj", Full("d_obj"))
             e == Given(d, x, Full(x))
  <2>1. Runs(c, r, <<one>>, facts, a)
    <3>1. A = Axes["rank"] /\ Axes["rank"] \subseteq Full(x)
      BY <1>5, AxisValues
    <3>2. Wholes(Needs(x, c, r)) \subseteq facts
      BY <1>7
    <3> HIDE DEF A
    <3> QED BY <1>2, <1>3, <3>1, <3>2, FirstSum DEF one
  <2>2. Runs(c, r, <<two>>, a, b)
    <3>1. A = Prior(x, "cone") /\ A \cap Axes["cone"] = {} /\ B = A \union Axes["cone"]
          /\ B \subseteq Full(x)
      BY <1>5, <1>6, AxisValues
    <3>2. <<x, A>> \in a
      BY DEF Given
    <3> HIDE DEF A, B, a
    <3> QED BY <1>2, <1>3, <3>1, <3>2, NextSum DEF two
  <2>3. Runs(c, r, <<three>>, b, d)
    <3>1. Axes["row"] = Full("d_obj") /\ Axes["row"] \subseteq Full("d_obj")
      BY <1>5, AxisValues
    <3>2. Wholes(Needs("d_obj", c, r)) \subseteq b
      BY <1>7
    <3> HIDE DEF b
    <3> QED BY <1>2, <1>3, <3>1, <3>2, FirstSum DEF three
  <2>4. Runs(c, r, <<four>>, d, e)
    <3>1. B = Prior(x, "row") /\ B \cap Axes["row"] = {} /\ Full(x) = B \union Axes["row"]
      BY <1>5, <1>6, AxisValues
    <3>2. <<x, B>> \in d
      BY DEF Given
    <3> HIDE DEF B, d
    <3> QED BY <1>2, <1>3, <3>1, <3>2, NextSum DEF four
  <2>5. Then(facts, {x, "d_obj"}) \subseteq e
    BY DEF Then, Wholes, Given
  <2> HIDE DEF a, b, d, e
  <2>6. Runs(c, r, <<one>> \o <<two>>, facts, b)
    BY <1>4, <2>1, <2>2, RunsThen
  <2>7. Runs(c, r, (<<one>> \o <<two>>) \o <<three>>, facts, d)
    BY <1>4, <2>3, <2>6, RunsThen, ConcatProperties
  <2>8. Runs(c, r, ((<<one>> \o <<two>>) \o <<three>>) \o <<four>>, facts, e)
    BY <1>4, <2>4, <2>7, RunsThen, ConcatProperties
  <2> QED BY <2>5, <2>8, RunsMore
<1>9. ((<<one>> \o <<two>>) \o <<three>>) \o <<four>> \in Seq(Calls)
  BY <1>4, ConcatProperties
<1> QED BY <1>1, <1>8, <1>9 DEF Computes

\* One call for two numbers.
TwoGiven(facts, x, y, D, E) ==
  {f \in facts : f[1] # x /\ f[1] # y} \union {<<x, D>>, <<y, E>>}

LEMMA TwoCall ==
  ASSUME NEW c, NEW r, NEW on \in DOMAIN Axes, NEW x \in Quantities, NEW y \in Quantities, x # y,
         NEW fresh \in SUBSET {x, y}, NEW facts,
         NEW D, Fits(c, r, Call(on, {x, y}, fresh), facts, x), D = After(x, Call(on, {x, y}, fresh)),
         NEW E, Fits(c, r, Call(on, {x, y}, fresh), facts, y), E = After(y, Call(on, {x, y}, fresh))
  PROVE  Runs(c, r, <<Call(on, {x, y}, fresh)>>, facts, TwoGiven(facts, x, y, D, E))
<1> DEFINE call == Call(on, {x, y}, fresh)
           next == TwoGiven(facts, x, y, D, E)
<1>1. call \in Calls /\ call.of = {x, y}
  BY DEF Call, Calls
<1>2. \A z \in call.of : Fits(c, r, call, facts, z)
  BY <1>1
<1>3. ASSUME NEW f \in next
      PROVE  IF f[1] \in call.of THEN f = <<f[1], After(f[1], call)>> ELSE f \in facts
  <2>1. D = After(x, call) /\ E = After(y, call)
    OBVIOUS
  <2> HIDE DEF call
  <2> QED BY <1>1, <1>3, <2>1 DEF TwoGiven
<1> HIDE DEF call, next
<1>4. Legal(c, r, call, facts, next)
  BY <1>1, <1>2, <1>3 DEF Legal
<1>5. Runs(c, r, <<call>>, facts, next)
  BY <1>4, RunsOne
<1> QED BY <1>5 DEF call, next

LEMMA StepTail ==
  ASSUME NEW c, NEW r,
         NEW three, three = Call("row", {"q_dots", "curvature_obj"}, {"q_dots", "curvature_obj"}),
         NEW four, four = Call("rank", {"slope", "curvature_obj"}, {"slope"}),
         NEW five, five = Call("cone", {"slope", "curvature_obj"}, {})
  PROVE  Computes(c, r, <<three, four, five>>, {"q_dots", "curvature_obj", "slope"},
                  Wholes({"q", "gradient"}))
<1> DEFINE x == "q_dots"
           y == "curvature_obj"
           z == "slope"
<1>1. <<three, four, five>> = (<<three>> \o <<four>>) \o <<five>>
  OBVIOUS
<1>2. /\ x \in Quantities /\ x \in Computed /\ y \in Quantities /\ y \in Computed
      /\ z \in Quantities /\ z \in Computed
      /\ Sensible(x, r) /\ Sensible(y, r) /\ Sensible(z, r)
  BY DEF Computed, Quantities, Announced, Sensible
<1>3. "rank" \in DOMAIN Axes /\ "cone" \in DOMAIN Axes /\ "row" \in DOMAIN Axes
  BY DEF Axes
<1>4. three \in Calls /\ four \in Calls /\ five \in Calls
  <2>1. {x, y} \in SUBSET Quantities /\ {z, y} \in SUBSET Quantities
        /\ {z} \in SUBSET Quantities /\ {} \in SUBSET Quantities
    BY <1>2
  <2> QED BY <1>3, <2>1, CallsIn
<1>5. <<three>> \in Seq(Calls) /\ <<four>> \in Seq(Calls) /\ <<five>> \in Seq(Calls)
  BY <1>4
<1>6. Full(x) = {1} /\ Full(y) = 1..3 /\ Full(z) = {2, 3}
  BY DEF Full
<1>7. /\ three.on = "row" /\ three.fresh = {x, y}
      /\ four.on = "rank" /\ four.fresh = {z}
      /\ five.on = "cone" /\ five.fresh = {}
  BY DEF Call
<1>8. /\ Before(x, three) = {} /\ Before(y, three) = {}
      /\ Before(z, four) = {} /\ Before(y, four) = {1}
      /\ Before(z, five) = {2} /\ Before(y, five) = {1, 2}
  BY <1>7 DEF Before, Prior
<1>9. /\ After(x, three) = {1} /\ After(y, three) = {1}
      /\ After(z, four) = {2} /\ After(y, four) = {1, 2}
      /\ After(z, five) = {2, 3} /\ After(y, five) = 1..3
  BY <1>7, <1>8, AxisValues DEF After
<1>10. Needs(x, c, r) = {"q"} /\ Needs(y, c, r) = {} /\ Needs(z, c, r) = {"gradient"}
  BY DEF Needs
<1>11. ASSUME NEW facts, Wholes({"q", "gradient"}) \subseteq facts
       PROVE  Runs(c, r, <<three, four, five>>, facts, Then(facts, {x, y, z}))
  <2> DEFINE a == TwoGiven(facts, x, y, After(x, three), After(y, three))
             b == TwoGiven(a, z, y, After(z, four), After(y, four))
             d == TwoGiven(b, z, y, After(z, five), After(y, five))
  <2>1. Known({"q"}, facts) /\ Known({"gradient"}, facts) /\ Known({}, facts)
    BY <1>11 DEF Known, Wholes
  <2>2. Runs(c, r, <<three>>, facts, a)
    <3>1. x \in three.fresh /\ y \in three.fresh
      BY <1>7
    <3>3. Before(x, three) \cap Axes[three.on] = {} /\ After(x, three) \subseteq Full(x)
          /\ Before(y, three) \cap Axes[three.on] = {} /\ After(y, three) \subseteq Full(y)
      BY <1>6, <1>8, <1>9
    <3>4. Fits(c, r, three, facts, x)
      BY <1>2, <1>10, <2>1, <3>1, <3>3 DEF Fits
    <3>5. Fits(c, r, three, facts, y)
      BY <1>2, <1>10, <2>1, <3>1, <3>3 DEF Fits
    <3>2. {x, y} \in SUBSET {x, y} /\ x # y
      OBVIOUS
    <3> QED BY <1>2, <1>3, <3>2, <3>4, <3>5, TwoCall
  <2>3. Runs(c, r, <<four>>, a, b)
    <3>1. <<y, Before(y, four)>> \in a
      <4>1. Before(y, four) = After(y, three)
        BY <1>8, <1>9
      <4> QED BY <4>1 DEF TwoGiven
    <3>2. Known({"gradient"}, a)
      BY <2>1 DEF Known, TwoGiven
    <3>3. Fits(c, r, four, a, z)
      <4>1. z \in four.fresh
        BY <1>7
      <4>2. Before(z, four) \cap Axes[four.on] = {} /\ After(z, four) \subseteq Full(z)
        BY <1>6, <1>7, <1>8, <1>9
      <4> HIDE DEF a
      <4> QED BY <1>2, <1>10, <3>2, <4>1, <4>2 DEF Fits
    <3>4. Fits(c, r, four, a, y)
      <4>1. y \notin four.fresh
        BY <1>7
      <4>2. Before(y, four) \cap Axes[four.on] = {} /\ After(y, four) \subseteq Full(y)
        BY <1>6, <1>7, <1>8, <1>9, AxisValues
      <4> HIDE DEF a
      <4> QED BY <1>2, <3>1, <4>1, <4>2 DEF Fits
    <3>5. {z} \in SUBSET {z, y} /\ z # y
      OBVIOUS
    <3> HIDE DEF a
    <3> QED BY <1>2, <1>3, <3>3, <3>4, <3>5, TwoCall
  <2>4. Runs(c, r, <<five>>, b, d)
    <3>1. <<y, Before(y, five)>> \in b /\ <<z, Before(z, five)>> \in b
      <4>1. Before(y, five) = After(y, four) /\ Before(z, five) = After(z, four)
        BY <1>8, <1>9
      <4> QED BY <4>1 DEF TwoGiven
    <3>2. y \notin five.fresh /\ z \notin five.fresh
      BY <1>7
    <3>3. Before(y, five) \cap Axes[five.on] = {} /\ After(y, five) \subseteq Full(y)
          /\ Before(z, five) \cap Axes[five.on] = {} /\ After(z, five) \subseteq Full(z)
      BY <1>6, <1>7, <1>8, <1>9, AxisValues
    <3> HIDE DEF a, b
    <3>4. Fits(c, r, five, b, y) /\ Fits(c, r, five, b, z)
      BY <1>2, <3>1, <3>2, <3>3 DEF Fits
    <3>5. {} \in SUBSET {z, y} /\ z # y
      OBVIOUS
    <3> QED BY <1>2, <1>3, <3>4, <3>5, TwoCall
  <2>5. Then(facts, {x, y, z}) \subseteq d
    <3>1. After(x, three) = Full(x) /\ After(z, five) = Full(z) /\ After(y, five) = Full(y)
      BY <1>6, <1>9
    <3> QED BY <3>1 DEF Then, Wholes, TwoGiven
  <2> HIDE DEF a, b, d
  <2>6. Runs(c, r, <<three>> \o <<four>>, facts, b)
    BY <1>5, <2>2, <2>3, RunsThen
  <2>7. Runs(c, r, (<<three>> \o <<four>>) \o <<five>>, facts, d)
    BY <1>5, <2>4, <2>6, RunsThen, ConcatProperties
  <2>8. Runs(c, r, (<<three>> \o <<four>>) \o <<five>>, facts, Then(facts, {x, y, z}))
    BY <2>5, <2>7, RunsMore
  <2> QED BY <1>1, <2>8
<1>12. <<three, four, five>> \in Seq(Calls)
  BY <1>4
<1> QED BY <1>11, <1>12 DEF Computes

LEMMA ExactStepSize ==
  ASSUME NEW c, NEW r
  PROVE  Computes(c, r, COMPUTE_EXACT_STEP_SIZE, {"q", "q_dots", "curvature_obj", "slope"},
                  Wholes({"gradient"}))
<1> DEFINE three == Call("row", {"q_dots", "curvature_obj"}, {"q_dots", "curvature_obj"})
           four == Call("rank", {"slope", "curvature_obj"}, {"slope"})
           five == Call("cone", {"slope", "curvature_obj"}, {})
           L == Reduce("q", <<"rank", "cone">>)
           M == <<three, four, five>>
<1>1. Computes(c, r, L, {"q"}, Wholes({"gradient"}))
  <2>1. Needs("q", c, r) = {}
    BY DEF Needs
  <2>2. Wholes(Needs("q", c, r)) \subseteq Wholes({"gradient"})
    BY <2>1 DEF Wholes
  <2>3. Computes(c, r, L, {"q"}, Wholes(Needs("q", c, r)))
    BY ReduceTwo
  <2> HIDE DEF L
  <2> QED BY <2>2, <2>3, ComputesMore
<1>2. Computes(c, r, M, {"q_dots", "curvature_obj", "slope"}, Wholes({"q", "gradient"}))
  BY StepTail
<1>3. COMPUTE_EXACT_STEP_SIZE = L \o M
  BY DEF COMPUTE_EXACT_STEP_SIZE
<1> HIDE DEF L, M
<1>4. Computes(c, r, L \o M, {"q", "q_dots", "curvature_obj", "slope"}, Wholes({"gradient"}))
  <2> DEFINE X == {"q"}
             Y == {"q_dots", "curvature_obj", "slope"}
             Z == {"q", "q_dots", "curvature_obj", "slope"}
             K == {"q", "gradient"}
             N == {"gradient"}
  <2>1. Z = X \union Y /\ K \subseteq X \union N
    OBVIOUS
  <2> HIDE DEF X, Y, Z, K, N
  <2>2. Computes(c, r, L, X, Wholes(N)) /\ Computes(c, r, M, Y, Wholes(K))
    BY <1>1, <1>2 DEF X, Y, K, N
  <2>3. Computes(c, r, L \o M, Z, Wholes(N))
    BY <2>1, <2>2, ComputesThen
  <2> QED BY <2>3 DEF Z, N
<1> QED BY <1>3, <1>4

-----------------------------------------------------------------------------
(* Lists one after the other.                                              *)

LEMMA RepeatIn ==
  ASSUME NEW A, NEW n \in Nat, n >= 1, NEW calls \in Seq(A),
         NEW S, calls \in S, \A a, b \in S : a \o b \in S
  PROVE  Repeat(n, calls) \in S
<1> DEFINE seqs == [i \in 1..n |-> calls]
<1>1. seqs \in [1..n -> Seq(A)] /\ \A i \in 1..n : seqs[i] \in S
  OBVIOUS
<1> HIDE DEF seqs
<1>2. FlattenSeq(seqs) \in S
  BY <1>1, FlattenIn
<1> QED BY <1>2 DEF Repeat, seqs

\* The lists that compute the numbers of X from those of N.
Computing(c, r, X, N) == {L \in Seq(Calls) : Computes(c, r, L, X, Wholes(N))}

LEMMA ComputingClosed ==
  ASSUME NEW c, NEW r, NEW X, NEW N, NEW L \in Computing(c, r, X, N), NEW M \in Computing(c, r, X, N)
  PROVE  L \o M \in Computing(c, r, X, N)
<1>1. L \o M \in Seq(Calls)
  BY ConcatProperties DEF Computing
<1>2. X = X \union X /\ N \subseteq X \union N
  OBVIOUS
<1>3. Computes(c, r, L, X, Wholes(N)) /\ Computes(c, r, M, X, Wholes(N))
  BY DEF Computing
<1>4. Computes(c, r, L \o M, X, Wholes(N))
  BY <1>2, <1>3, ComputesThen
<1> QED BY <1>1, <1>4 DEF Computing

\* The iterations of a search give what one of them gives.
LEMMA ComputesRepeat ==
  ASSUME NEW c, NEW r, NEW X, NEW N, NEW n \in Nat, n >= 1, NEW L,
         Computes(c, r, L, X, Wholes(N))
  PROVE  Computes(c, r, Repeat(n, L), X, Wholes(N))
<1> DEFINE S == Computing(c, r, X, N)
<1>1. L \in S /\ L \in Seq(Calls)
  BY DEF Computing, Computes
<1>2. \A a, b \in S : a \o b \in S
  BY ComputingClosed
<1> HIDE DEF S
<1>3. Repeat(n, L) \in S
  BY <1>1, <1>2, RepeatIn
<1> QED BY <1>3 DEF S, Computing

\* Calls within a cone.
Local == {L \in Seq(Calls) : \A i \in 1..Len(L) : L[i].on \in {"row", "rank"}}

LEMMA LocalThen ==
  ASSUME NEW L \in Local, NEW M \in Local
  PROVE  L \o M \in Local
<1>1. L \in Seq(Calls) /\ M \in Seq(Calls)
  BY DEF Local
<1>2. /\ L \o M \in Seq(Calls) /\ Len(L \o M) = Len(L) + Len(M)
      /\ \A i \in 1..(Len(L) + Len(M)) :
           (L \o M)[i] = IF i <= Len(L) THEN L[i] ELSE M[i - Len(L)]
  BY <1>1, ConcatProperties
<1>3. ASSUME NEW i \in 1..Len(L \o M) PROVE (L \o M)[i].on \in {"row", "rank"}
  <2>1. Len(L) \in Nat /\ Len(M) \in Nat
    BY <1>1
  <2>2. CASE i <= Len(L)
    <3>1. i \in 1..Len(L) /\ (L \o M)[i] = L[i]
      BY <1>2, <2>1, <2>2
    <3> QED BY <3>1 DEF Local
  <2>3. CASE ~ (i <= Len(L))
    <3>1. i - Len(L) \in 1..Len(M) /\ (L \o M)[i] = M[i - Len(L)]
      BY <1>2, <2>1, <2>3
    <3> QED BY <3>1 DEF Local
  <2> QED BY <2>2, <2>3
<1> QED BY <1>2, <1>3 DEF Local

LEMMA LocalNone == <<>> \in Local
BY DEF Local

LEMMA LocalRepeat ==
  ASSUME NEW n \in Nat, NEW L \in Local
  PROVE  Repeat(n, L) \in Local
<1>1. CASE n >= 1
  <2>1. L \in Seq(Calls)
    BY DEF Local
  <2> QED BY <1>1, <2>1, LocalThen, RepeatIn
<1>2. CASE n = 0
  <2> DEFINE seqs == [i \in 1..n |-> L]
  <2>1. seqs = <<>> /\ Len(seqs) = 0
    BY <1>2
  <2> HIDE DEF seqs
  <2>2. FlattenSeq(seqs) = <<>>
    BY <2>1, FlattenNone
  <2> QED BY <2>2, LocalNone DEF Repeat, seqs
<1> QED BY <1>1, <1>2

LEMMA LocalFlat ==
  ASSUME NEW n \in Nat, NEW seqs, seqs = [i \in 1..n |-> seqs[i]], \A i \in 1..n : seqs[i] \in Local
  PROVE  FlattenSeq(seqs) \in Local
<1>1. CASE n >= 1
  <2>1. seqs \in [1..n -> Seq(Calls)]
    <3>1. \A i \in 1..n : seqs[i] \in Seq(Calls)
      BY DEF Local
    <3> QED BY <3>1
  <2> QED BY <1>1, <2>1, LocalThen, FlattenIn
<1>2. CASE n = 0
  <2>1. seqs = <<>>
    BY <1>2
  <2>2. Len(seqs) = 0
    BY <2>1
  <2>3. FlattenSeq(seqs) = <<>>
    BY <2>1, <2>2, FlattenNone
  <2> QED BY <2>3, LocalNone
<1> QED BY <1>1, <1>2

LEMMA LocalReduce ==
  ASSUME NEW x \in Quantities, NEW on \in {"row", "rank"}
  PROVE  Reduce(x, <<on>>) \in Local
<1> DEFINE call == Call(on, {x}, {x})
<1>1. Reduce(x, <<on>>) = <<call>>
  BY DEF Reduce
<1>2. on \in DOMAIN Axes /\ {x} \in SUBSET Quantities
  BY DEF Axes
<1>3. <<call>> \in Seq(Calls)
  BY <1>2, CallsIn
<1>4. call.on = on
  BY DEF Call
<1> HIDE DEF call
<1>5. \A i \in 1..Len(<<call>>) : <<call>>[i] = call
  OBVIOUS
<1> QED BY <1>1, <1>3, <1>4, <1>5 DEF Local

-----------------------------------------------------------------------------
(* The routines of the solver.                                             *)

\* From the numbers of N the calls L give at least those of X.
Obtains(c, r, L, X, N) == \E Y : X \subseteq Y /\ Computes(c, r, L, Y, Wholes(N))

LEMMA ObtainsThen ==
  ASSUME NEW c, NEW r, NEW L, NEW M, NEW X, NEW Y, NEW N, NEW K,
         Obtains(c, r, L, X, N), Obtains(c, r, M, Y, K), K \subseteq X \union N,
         NEW Z, Z \subseteq X \union Y
  PROVE  Obtains(c, r, L \o M, Z, N)
<1>1. PICK A : X \subseteq A /\ Computes(c, r, L, A, Wholes(N))
  BY DEF Obtains
<1>2. PICK B : Y \subseteq B /\ Computes(c, r, M, B, Wholes(K))
  BY DEF Obtains
<1> DEFINE C == A \union B
<1>3. C = A \union B /\ K \subseteq A \union N /\ Z \subseteq C
  BY <1>1, <1>2
<1> HIDE DEF C
<1>4. Computes(c, r, L \o M, C, Wholes(N))
  BY <1>1, <1>2, <1>3, ComputesThen
<1> QED BY <1>3, <1>4 DEF Obtains

LEMMA ObtainsMore ==
  ASSUME NEW c, NEW r, NEW L, NEW X, NEW N, Obtains(c, r, L, X, N),
         NEW Y, Y \subseteq X, NEW K, N \subseteq K
  PROVE  Obtains(c, r, L, Y, K)
<1>1. PICK A : X \subseteq A /\ Computes(c, r, L, A, Wholes(N))
  BY DEF Obtains
<1>2. Wholes(N) \subseteq Wholes(K)
  BY DEF Wholes
<1>3. Computes(c, r, L, A, Wholes(K))
  BY <1>1, <1>2, ComputesMore
<1> QED BY <1>1, <1>3 DEF Obtains

LEMMA ObtainsFrom ==
  ASSUME NEW c, NEW r, NEW L, NEW X, NEW N, Computes(c, r, L, X, Wholes(N))
  PROVE  Obtains(c, r, L, X, N)
BY DEF Obtains

LEMMA ObtainsNone ==
  ASSUME NEW c, NEW r
  PROVE  Obtains(c, r, <<>>, {}, {})
BY ComputesNone, ObtainsFrom

\* What a process knows at the end.
LEMMA ObtainsRuns ==
  ASSUME NEW c, NEW r, NEW L, NEW X, NEW N, Obtains(c, r, L, X, N),
         NEW S, N \subseteq S, NEW G, G \subseteq S \union X
  PROVE  Runs(c, r, L, Wholes(S), Wholes(G))
<1>1. PICK A : X \subseteq A /\ Computes(c, r, L, A, Wholes(N))
  BY DEF Obtains
<1>2. Wholes(N) \subseteq Wholes(S)
  BY DEF Wholes
<1>3. Runs(c, r, L, Wholes(S), Then(Wholes(S), A))
  BY <1>1, <1>2 DEF Computes
<1>4. Wholes(G) \subseteq Then(Wholes(S), A)
  BY <1>1 DEF Wholes, Then
<1> QED BY <1>3, <1>4, RunsMore

\* A call that sums nothing.
LEMMA VoidCall ==
  ASSUME NEW c, NEW r, NEW on \in DOMAIN Axes
  PROVE  Computes(c, r, <<Call(on, {}, {})>>, {}, Wholes({}))
<1> DEFINE call == Call(on, {}, {})
<1>1. call \in Calls /\ <<call>> \in Seq(Calls) /\ call.of = {}
  BY DEF Call, Calls
<1>2. ASSUME NEW facts PROVE Runs(c, r, <<call>>, facts, Then(facts, {}))
  <2>1. Then(facts, {}) = facts
    BY DEF Then, Wholes
  <2>2. Legal(c, r, call, facts, facts)
    BY <1>1 DEF Legal
  <2> HIDE DEF call
  <2> QED BY <2>1, <2>2, RunsOne
<1> HIDE DEF call
<1> QED BY <1>1, <1>2 DEF Computes, call

LEMMA Singles ==
  ASSUME NEW c, NEW r
  PROVE  /\ Obtains(c, r, SYNC_PRIMAL_SOLUTION, {}, {})
         /\ Obtains(c, r, COMPUTE_PRIMAL_RESIDUAL, {"Ax"}, {})
         /\ Obtains(c, r, COMPUTE_GRADIENT, {"gradient"}, {"Ax"})
         /\ Obtains(c, r, compute_global_q0_norm, {"q0_norm"}, {"Ax"})
         /\ Obtains(c, r, GLOBAL_NORM, {"grad_norm"}, {"gradient"})
         /\ Obtains(c, r, LBFGS_DIRECTION, {"dot"}, {"gradient"})
<1>1. /\ "row" \in DOMAIN Axes /\ Axes["row"] = {1}
  BY DEF Axes
<1>2. Obtains(c, r, SYNC_PRIMAL_SOLUTION, {}, {})
  BY <1>1, VoidCall, ObtainsFrom DEF SYNC_PRIMAL_SOLUTION
<1>3. Obtains(c, r, COMPUTE_PRIMAL_RESIDUAL, {"Ax"}, {})
  <2>1. Needs("Ax", c, r) = {}
    BY DEF Needs
  <2>2. Computes(c, r, Reduce("Ax", <<"rank", "cone">>), {"Ax"}, Wholes(Needs("Ax", c, r)))
    BY ReduceTwo
  <2> QED BY <2>1, <2>2, ObtainsFrom DEF COMPUTE_PRIMAL_RESIDUAL
<1>4. Obtains(c, r, COMPUTE_GRADIENT, {"gradient"}, {"Ax"})
  <2>1. Needs("gradient", c, r) = {"Ax"} /\ Full("gradient") = {1}
    BY DEF Needs, Full
  <2>2. "gradient" \in Computed /\ Sensible("gradient", r)
    BY DEF Computed, Quantities, Announced, Sensible
  <2>3. Computes(c, r, Reduce("gradient", <<"row">>), {"gradient"}, Wholes(Needs("gradient", c, r)))
    BY <1>1, <2>1, <2>2, ReduceOne
  <2> QED BY <2>1, <2>3, ObtainsFrom DEF COMPUTE_GRADIENT
<1>5. Obtains(c, r, compute_global_q0_norm, {"q0_norm"}, {"Ax"})
  <2>1. Needs("q0_norm", c, r) = {"Ax"} /\ Full("q0_norm") = {1}
    BY DEF Needs, Full
  <2>2. "q0_norm" \in Computed /\ Sensible("q0_norm", r)
    BY DEF Computed, Quantities, Announced, Sensible
  <2>3. Computes(c, r, Reduce("q0_norm", <<"row">>), {"q0_norm"}, Wholes(Needs("q0_norm", c, r)))
    BY <1>1, <2>1, <2>2, ReduceOne
  <2> QED BY <2>1, <2>3, ObtainsFrom DEF compute_global_q0_norm
<1>6. Obtains(c, r, GLOBAL_NORM, {"grad_norm"}, {"gradient"})
  <2>1. Needs("grad_norm", c, r) = {"gradient"}
    BY DEF Needs
  <2>2. Computes(c, r, Reduce("grad_norm", <<"rank", "cone">>), {"grad_norm"},
                 Wholes(Needs("grad_norm", c, r)))
    BY ReduceTwo
  <2> QED BY <2>1, <2>2, ObtainsFrom DEF GLOBAL_NORM
<1>7. Obtains(c, r, LBFGS_DIRECTION, {"dot"}, {"gradient"})
  <2>1. Needs("dot", c, r) = {"gradient"}
    BY DEF Needs
  <2>2. Computes(c, r, Reduce("dot", <<"rank", "cone">>), {"dot"}, Wholes(Needs("dot", c, r)))
    BY ReduceTwo
  <2> QED BY <2>1, <2>2, ObtainsFrom DEF LBFGS_DIRECTION
<1> QED BY <1>2, <1>3, <1>4, <1>5, <1>6, <1>7

\* A number summed over one axis.
LEMMA OneAxis ==
  ASSUME NEW c, NEW r, NEW x \in Computed, NEW on \in DOMAIN Axes, Full(x) = Axes[on],
         Sensible(x, r), NEW N, Needs(x, c, r) \subseteq N
  PROVE  Obtains(c, r, Reduce(x, <<on>>), {x}, N)
<1>1. Obtains(c, r, Reduce(x, <<on>>), {x}, Needs(x, c, r))
  BY ReduceOne, ObtainsFrom
<1>2. {x} \subseteq {x}
  OBVIOUS
<1> QED BY <1>1, <1>2, ObtainsMore

LEMMA Objective ==
  ASSUME NEW c, NEW r
  PROVE  Obtains(c, r, COMPUTE_OBJECTIVE_GAP, {"p_obj", "d_obj"}, {})
<1>1. Wholes({}) = {}
  BY DEF Wholes
<1> QED BY <1>1, ObjectiveGap, ObtainsFrom

LEMMA StepSizes ==
  ASSUME NEW c, NEW r
  PROVE  /\ Obtains(c, r, COMPUTE_EXACT_STEP_SIZE, {"q", "q_dots", "curvature_obj", "slope"},
                    {"gradient"})
         /\ Obtains(c, r, LBFGS_DIRECTION \o COMPUTE_EXACT_STEP_SIZE,
                    {"dot", "q_dots", "curvature_obj", "slope"}, {"gradient"})
<1>1. Obtains(c, r, COMPUTE_EXACT_STEP_SIZE, {"q", "q_dots", "curvature_obj", "slope"}, {"gradient"})
  BY ExactStepSize, ObtainsFrom
<1>2. Obtains(c, r, LBFGS_DIRECTION, {"dot"}, {"gradient"})
  BY Singles
<1>3. /\ {"gradient"} \subseteq {"dot"} \union {"gradient"}
      /\ {"dot", "q_dots", "curvature_obj", "slope"}
           \subseteq {"dot"} \union {"q", "q_dots", "curvature_obj", "slope"}
  OBVIOUS
<1> QED BY <1>1, <1>2, <1>3, ObtainsThen

LEMMA HeadObtains ==
  ASSUME NEW c, NEW r
  PROVE  /\ Obtains(c, r, HeadCalls, Base, {})
         /\ Obtains(c, r, DualStepCalls, {"Ax", "gradient", "q0_norm"}, {})
         /\ Obtains(c, r, GateCalls, {"p_obj", "d_obj", "q0_norm"}, {"Ax"})
         /\ Obtains(c, r, compute_global_q0_norm \o GLOBAL_NORM, {"q0_norm", "grad_norm"},
                    {"Ax", "gradient"})
         /\ Obtains(c, r, COMPUTE_GRADIENT \o GLOBAL_NORM, {"gradient", "grad_norm"}, {"Ax"})
         /\ Obtains(c, r, COMPUTE_PRIMAL_RESIDUAL \o COMPUTE_GRADIENT \o GLOBAL_NORM,
                    {"Ax", "gradient", "grad_norm"}, {})
<1> DEFINE s == SYNC_PRIMAL_SOLUTION
           a == COMPUTE_PRIMAL_RESIDUAL
           g == COMPUTE_GRADIENT
           o == COMPUTE_OBJECTIVE_GAP
           q == compute_global_q0_norm
           n == GLOBAL_NORM
<1>1. /\ Obtains(c, r, s, {}, {})
      /\ Obtains(c, r, a, {"Ax"}, {})
      /\ Obtains(c, r, g, {"gradient"}, {"Ax"})
      /\ Obtains(c, r, o, {"p_obj", "d_obj"}, {})
      /\ Obtains(c, r, q, {"q0_norm"}, {"Ax"})
      /\ Obtains(c, r, n, {"grad_norm"}, {"gradient"})
  BY Singles, Objective
<1>2. /\ HeadCalls = (((s \o a) \o g) \o o) \o q
      /\ DualStepCalls = (a \o g) \o q
      /\ GateCalls = (q \o o) \o q
  BY DEF HeadCalls, DualStepCalls, GateCalls
<1> HIDE DEF s, a, g, o, q, n
<1>3. Obtains(c, r, a \o g, {"Ax", "gradient"}, {})
  <2>1. {"Ax"} \subseteq {"Ax"} \union {} /\ {"Ax", "gradient"} \subseteq {"Ax"} \union {"gradient"}
    OBVIOUS
  <2> QED BY <1>1, <2>1, ObtainsThen
<1>4. Obtains(c, r, (a \o g) \o q, {"Ax", "gradient", "q0_norm"}, {})
  <2>1. /\ {"Ax"} \subseteq {"Ax", "gradient"} \union {}
        /\ {"Ax", "gradient", "q0_norm"} \subseteq {"Ax", "gradient"} \union {"q0_norm"}
    OBVIOUS
  <2> QED BY <1>1, <1>3, <2>1, ObtainsThen
<1>5. Obtains(c, r, (a \o g) \o n, {"Ax", "gradient", "grad_norm"}, {})
  <2>1. /\ {"gradient"} \subseteq {"Ax", "gradient"} \union {}
        /\ {"Ax", "gradient", "grad_norm"} \subseteq {"Ax", "gradient"} \union {"grad_norm"}
    OBVIOUS
  <2> QED BY <1>1, <1>3, <2>1, ObtainsThen
<1>6. Obtains(c, r, g \o n, {"gradient", "grad_norm"}, {"Ax"})
  <2>1. /\ {"gradient"} \subseteq {"gradient"} \union {"Ax"}
        /\ {"gradient", "grad_norm"} \subseteq {"gradient"} \union {"grad_norm"}
    OBVIOUS
  <2> QED BY <1>1, <2>1, ObtainsThen
<1>7. Obtains(c, r, q \o n, {"q0_norm", "grad_norm"}, {"Ax", "gradient"})
  <2>1. /\ {"gradient"} \subseteq {"q0_norm"} \union {"Ax", "gradient"}
        /\ {"q0_norm", "grad_norm"} \subseteq {"q0_norm"} \union {"grad_norm"}
        /\ {"q0_norm"} \subseteq {"q0_norm"} /\ {"Ax"} \subseteq {"Ax", "gradient"}
    OBVIOUS
  <2>2. Obtains(c, r, q, {"q0_norm"}, {"Ax", "gradient"})
    BY <1>1, <2>1, ObtainsMore
  <2> QED BY <1>1, <2>1, <2>2, ObtainsThen
<1>8. Obtains(c, r, (q \o o) \o q, {"p_obj", "d_obj", "q0_norm"}, {"Ax"})
  <2>1. /\ {} \subseteq {"q0_norm"} \union {"Ax"}
        /\ {"p_obj", "d_obj", "q0_norm"} \subseteq {"q0_norm"} \union {"p_obj", "d_obj"}
        /\ {"Ax"} \subseteq {"p_obj", "d_obj", "q0_norm"} \union {"Ax"}
        /\ {"p_obj", "d_obj", "q0_norm"} \subseteq {"p_obj", "d_obj", "q0_norm"} \union {"q0_norm"}
    OBVIOUS
  <2>2. Obtains(c, r, q \o o, {"p_obj", "d_obj", "q0_norm"}, {"Ax"})
    BY <1>1, <2>1, ObtainsThen
  <2> QED BY <1>1, <2>1, <2>2, ObtainsThen
<1>9. Obtains(c, r, (((s \o a) \o g) \o o) \o q, Base, {})
  <2>1. Obtains(c, r, s \o a, {"Ax"}, {})
    <3>1. {} \subseteq {} \union {} /\ {"Ax"} \subseteq {} \union {"Ax"}
      OBVIOUS
    <3> QED BY <1>1, <3>1, ObtainsThen
  <2>2. Obtains(c, r, (s \o a) \o g, {"Ax", "gradient"}, {})
    <3>1. {"Ax"} \subseteq {"Ax"} \union {} /\ {"Ax", "gradient"} \subseteq {"Ax"} \union {"gradient"}
      OBVIOUS
    <3> QED BY <1>1, <2>1, <3>1, ObtainsThen
  <2>3. Obtains(c, r, ((s \o a) \o g) \o o, {"Ax", "gradient", "p_obj", "d_obj"}, {})
    <3>1. /\ {} \subseteq {"Ax", "gradient"} \union {}
          /\ {"Ax", "gradient", "p_obj", "d_obj"} \subseteq {"Ax", "gradient"} \union {"p_obj", "d_obj"}
      OBVIOUS
    <3> QED BY <1>1, <2>2, <3>1, ObtainsThen
  <2>4. /\ {"Ax"} \subseteq {"Ax", "gradient", "p_obj", "d_obj"} \union {}
        /\ Base \subseteq {"Ax", "gradient", "p_obj", "d_obj"} \union {"q0_norm"}
    BY DEF Base
  <2> QED BY <1>1, <2>3, <2>4, ObtainsThen
<1>10. a \o g \o n = (a \o g) \o n
  OBVIOUS
<1> QED BY <1>2, <1>4, <1>5, <1>6, <1>7, <1>8, <1>9, <1>10 DEF s, a, g, o, q, n

LEMMA BlocksOf ==
  ASSUME IsSetup(setup), NEW c \in Cones
  PROVE  /\ Len(BlockDims(c)) \in Nat
         /\ Blocks(c) = 1..Len(BlockDims(c))
         /\ \A b \in Blocks(c) : BlockDims(c)[b] \in Nat \ {0}
<1>1. setup.dims[3] \in Nat \ {0}
  BY SetupDims
<1>2. c + 1 \in 1..setup.dims[3]
  BY <1>1 DEF Cones
<1>3. setup.block_dims[c + 1] \in Seq(Nat \ {0})
  BY <1>2 DEF IsSetup
<1> QED BY <1>3 DEF BlockDims, Blocks

\* Each product with the second derivatives is over the whole factor: one
\* process sums over its shares, then over its rows.
LEMMA SecondDerivatives ==
  ASSUME NEW c, NEW r
  PROVE  /\ Obtains(c, r, COMPUTE_BM_HVP_PERCONE \o Reduce("ritz", <<"rank">>),
                    {"Hq", "HV", "ritz"}, {})
         /\ COMPUTE_BM_HVP_PERCONE \o Reduce("ritz", <<"rank">>) \in Local
<1> DEFINE u == Reduce("Hq", <<"rank">>)
           w == Reduce("HV", <<"row">>)
           z == Reduce("ritz", <<"rank">>)
<1>1. /\ "Hq" \in Quantities /\ "HV" \in Quantities /\ "ritz" \in Quantities
      /\ "Hq" \in Computed /\ "HV" \in Computed /\ "ritz" \in Computed
  BY DEF Computed, Quantities, Announced
<1>2. Sensible("Hq", r) /\ Sensible("HV", r) /\ Sensible("ritz", r)
  BY DEF Sensible
<1>3. "rank" \in DOMAIN Axes /\ "row" \in DOMAIN Axes
  BY DEF Axes
<1>4. Full("Hq") = Axes["rank"] /\ Full("HV") = Axes["row"] /\ Full("ritz") = Axes["rank"]
  BY AxisValues DEF Full
<1>5. Needs("Hq", c, r) = {} /\ Needs("HV", c, r) = {"Hq"} /\ Needs("ritz", c, r) = {"HV"}
  BY DEF Needs
<1>6. /\ Obtains(c, r, u, {"Hq"}, {}) /\ Obtains(c, r, w, {"HV"}, {"Hq"})
      /\ Obtains(c, r, z, {"ritz"}, {"HV"})
  BY <1>1, <1>2, <1>3, <1>4, <1>5, OneAxis
<1>7. u \in Local /\ w \in Local /\ z \in Local
  BY <1>1, LocalReduce
<1>8. COMPUTE_BM_HVP_PERCONE = u \o w
  BY DEF COMPUTE_BM_HVP_PERCONE
<1> HIDE DEF u, w, z
<1>9. Obtains(c, r, u \o w, {"Hq", "HV"}, {})
  <2>1. {"Hq"} \subseteq {"Hq"} \union {} /\ {"Hq", "HV"} \subseteq {"Hq"} \union {"HV"}
    OBVIOUS
  <2> QED BY <1>6, <2>1, ObtainsThen
<1>10. Obtains(c, r, (u \o w) \o z, {"Hq", "HV", "ritz"}, {})
  <2>1. /\ {"HV"} \subseteq {"Hq", "HV"} \union {}
        /\ {"Hq", "HV", "ritz"} \subseteq {"Hq", "HV"} \union {"ritz"}
    OBVIOUS
  <2> QED BY <1>6, <1>9, <2>1, ObtainsThen
<1>11. (u \o w) \o z \in Local
  BY <1>7, LocalThen
<1> QED BY <1>8, <1>10, <1>11 DEF z

LEMMA ObtainsRepeat ==
  ASSUME NEW c, NEW r, NEW L, NEW X, Obtains(c, r, L, X, {}), NEW n \in Nat, n >= 1
  PROVE  Obtains(c, r, Repeat(n, L), X, {})
<1>1. PICK A : X \subseteq A /\ Computes(c, r, L, A, Wholes({}))
  BY DEF Obtains
<1>2. Computes(c, r, Repeat(n, L), A, Wholes({}))
  BY <1>1, ComputesRepeat
<1> QED BY <1>1, <1>2 DEF Obtains

\* The search of a block for negative curvature gives its Ritz value, and it
\* stays within the cone.
LEMMA NegativeCurvature ==
  ASSUME IsSetup(setup), NEW r, NEW c \in Cones, NEW ranks, IsRanks(c, ranks), NEW b \in Blocks(c)
  PROVE  /\ Obtains(c, r, FIND_AL_NEGATIVE_CURVATURE(c, ranks, b), {"Hq", "HV", "ritz"}, {})
         /\ FIND_AL_NEGATIVE_CURVATURE(c, ranks, b) \in Local
<1> DEFINE N == BlockDims(c)[b] * ranks[b]
           k == Min({N, NEGATIVE_CURVATURE_LANCZOS_K})
           v == <<Call("rank", {}, {})>>
           h == COMPUTE_BM_HVP_PERCONE \o Reduce("ritz", <<"rank">>)
           X == {"Hq", "HV", "ritz"}
<1>1. ranks[b] \in Nat \ {0} /\ BlockDims(c)[b] \in Nat \ {0}
  BY BlocksOf DEF IsRanks
<1>2. N \in Nat \ {0}
  BY <1>1
<1>3. NEGATIVE_CURVATURE_LANCZOS_K \in Nat \ {0}
  BY CountsAssumption
<1>4. FIND_AL_NEGATIVE_CURVATURE(c, ranks, b) = v \o Repeat(k, h)
  <2>1. ~ (ranks[b] <= 0)
    BY <1>1
  <2> QED BY <2>1 DEF FIND_AL_NEGATIVE_CURVATURE
<1> HIDE DEF N
<1>5. k \in Nat /\ k >= 1
  BY <1>2, <1>3, LeastOfTwo
<1>6. Obtains(c, r, h, X, {}) /\ h \in Local
  BY SecondDerivatives
<1>7. Obtains(c, r, v, {}, {}) /\ v \in Local
  <2>1. "rank" \in DOMAIN Axes
    BY DEF Axes
  <2>2. Obtains(c, r, v, {}, {})
    BY <2>1, VoidCall, ObtainsFrom
  <2> DEFINE call == Call("rank", {}, {})
  <2>3. call.on = "rank"
    BY DEF Call
  <2>4. <<call>> \in Seq(Calls)
    BY <2>1, CallsIn
  <2> HIDE DEF call
  <2>5. \A i \in 1..Len(<<call>>) : <<call>>[i].on = "rank"
    BY <2>3
  <2>6. <<call>> \in Local
    BY <2>4, <2>5 DEF Local
  <2> QED BY <2>2, <2>6 DEF call
<1> HIDE DEF k, h, v, X
<1>8. Obtains(c, r, Repeat(k, h), X, {}) /\ Repeat(k, h) \in Local
  BY <1>5, <1>6, ObtainsRepeat, LocalRepeat
<1>9. Obtains(c, r, v \o Repeat(k, h), X, {})
  <2>1. {} \subseteq {} \union {} /\ X \subseteq {} \union X
    OBVIOUS
  <2> QED BY <1>7, <1>8, <2>1, ObtainsThen
<1>10. v \o Repeat(k, h) \in Local
  BY <1>7, <1>8, LocalThen
<1> QED BY <1>4, <1>9, <1>10 DEF X

\* Lists of the blocks of a cone.
LEMMA ObtainsFlat ==
  ASSUME NEW c, NEW r, NEW X, NEW n \in Nat, n >= 1, NEW seqs, seqs = [i \in 1..n |-> seqs[i]],
         \A i \in 1..n : Obtains(c, r, seqs[i], X, {})
  PROVE  Obtains(c, r, FlattenSeq(seqs), X, {})
<1> DEFINE S == {L \in Seq(Calls) : Obtains(c, r, L, X, {})}
<1>1. \A i \in 1..n : seqs[i] \in S /\ seqs[i] \in Seq(Calls)
  BY DEF Obtains, Computes
<1>2. ASSUME NEW a \in S, NEW b \in S PROVE a \o b \in S
  <2>1. Obtains(c, r, a, X, {}) /\ Obtains(c, r, b, X, {}) /\ {} \subseteq X \union {} /\ X \subseteq X \union X
    OBVIOUS
  <2>2. Obtains(c, r, a \o b, X, {})
    BY <2>1, ObtainsThen
  <2>3. a \o b \in Seq(Calls)
    BY ConcatProperties
  <2> QED BY <2>2, <2>3
<1>3. seqs \in [1..n -> Seq(Calls)]
  BY <1>1
<1> HIDE DEF S
<1>4. FlattenSeq(seqs) \in S
  BY <1>1, <1>2, <1>3, FlattenIn
<1> QED BY <1>4 DEF S

LEMMA ProbeObtains ==
  ASSUME IsSetup(setup), NEW r, NEW c \in Cones, NEW ranks, IsRanks(c, ranks)
  PROVE  Obtains(c, r, Probe(c, ranks), {"lambda"}, {})
<1> DEFINE seqs == [b \in Blocks(c) |-> FIND_AL_NEGATIVE_CURVATURE(c, ranks, b)]
           n == Len(BlockDims(c))
           z == Reduce("lambda", <<"all">>)
           X == {"Hq", "HV", "ritz"}
<1>1. n \in Nat /\ Blocks(c) = 1..n
  BY BlocksOf
<1>2. \A b \in Blocks(c) : Obtains(c, r, seqs[b], X, {})
  BY NegativeCurvature
<1>3. Probe(c, ranks) = FlattenSeq(seqs) \o z
  BY DEF Probe
<1>4. /\ "lambda" \in Computed /\ Sensible("lambda", r) /\ "all" \in DOMAIN Axes
      /\ Full("lambda") = Axes["all"]
      /\ Needs("lambda", c, r) = IF Blocks(c) = {} THEN {} ELSE {"ritz"}
  BY AxisValues DEF Computed, Quantities, Announced, Sensible, Full, Needs, Axes
<1>5. seqs = [i \in 1..n |-> seqs[i]]
  BY <1>1
<1>6. CASE n >= 1
  <2>1. Obtains(c, r, z, {"lambda"}, {"ritz"})
    <3>1. Needs("lambda", c, r) \subseteq {"ritz"}
      BY <1>4
    <3> QED BY <1>4, <3>1, OneAxis
  <2> HIDE DEF seqs, n, z
  <2>2. Obtains(c, r, FlattenSeq(seqs), X, {})
    <3> HIDE DEF X
    <3>1. \A i \in 1..n : Obtains(c, r, seqs[i], X, {})
      BY <1>1, <1>2
    <3> QED BY <1>1, <1>5, <1>6, <3>1, ObtainsFlat
  <2>3. {"ritz"} \subseteq X \union {} /\ {"lambda"} \subseteq X \union {"lambda"}
    OBVIOUS
  <2> HIDE DEF X
  <2>4. Obtains(c, r, FlattenSeq(seqs) \o z, {"lambda"}, {})
    BY <2>1, <2>2, <2>3, ObtainsThen
  <2> QED BY <1>3, <2>4
<1>7. CASE n = 0
  <2>1. Obtains(c, r, z, {"lambda"}, {})
    <3>1. Needs("lambda", c, r) \subseteq {}
      BY <1>1, <1>4, <1>7
    <3> QED BY <1>4, <3>1, OneAxis
  <2>2. seqs = <<>>
    BY <1>1, <1>7
  <2> HIDE DEF seqs, n, z
  <2>3. FlattenSeq(seqs) = <<>>
    BY <2>2, FlattenNone
  <2>4. {} \subseteq {} \union {} /\ {"lambda"} \subseteq {} \union {"lambda"}
    OBVIOUS
  <2>5. Obtains(c, r, <<>> \o z, {"lambda"}, {})
    BY <2>1, <2>4, ObtainsNone, ObtainsThen
  <2> QED BY <1>3, <2>3, <2>5
<1> HIDE DEF n
<1> QED BY <1>1, <1>6, <1>7

LEMMA LanczosObtains ==
  ASSUME IsSetup(setup), NEW r, NEW c \in Cones, NEW b \in Blocks(c)
  PROVE  /\ Obtains(c, r, COMPUTE_NEGATIVE_EIGEN_LANCZOS(c, b), {"Sq"}, {})
         /\ COMPUTE_NEGATIVE_EIGEN_LANCZOS(c, b) \in Local
         /\ Obtains(c, r, COMPUTE_NEGATIVE_EIGEN_POWER_ITER, {"Sq"}, {})
         /\ COMPUTE_NEGATIVE_EIGEN_POWER_ITER \in Local
<1> DEFINE k == Min({BlockDims(c)[b], LANCZOS_K})
           s == Reduce("Sq", <<"row">>)
<1>1. BlockDims(c)[b] \in Nat \ {0} /\ LANCZOS_K \in Nat \ {0} /\ power_iterations \in Nat \ {0}
  BY BlocksOf, CountsAssumption
<1>2. k \in Nat /\ k >= 1 /\ power_iterations >= 1 /\ power_iterations \in Nat
  BY <1>1, LeastOfTwo
<1>3. /\ "Sq" \in Computed /\ "Sq" \in Quantities /\ Sensible("Sq", r) /\ "row" \in DOMAIN Axes
      /\ Full("Sq") = Axes["row"] /\ Needs("Sq", c, r) \subseteq {}
  BY AxisValues DEF Computed, Quantities, Announced, Sensible, Full, Needs, Axes
<1>4. Obtains(c, r, s, {"Sq"}, {}) /\ s \in Local
  BY <1>3, OneAxis, LocalReduce
<1> HIDE DEF k, s
<1>5. Obtains(c, r, Repeat(k, s), {"Sq"}, {}) /\ Repeat(k, s) \in Local
  BY <1>2, <1>4, ObtainsRepeat, LocalRepeat
<1>6. Obtains(c, r, Repeat(power_iterations, s), {"Sq"}, {}) /\ Repeat(power_iterations, s) \in Local
  BY <1>2, <1>4, ObtainsRepeat, LocalRepeat
<1> QED BY <1>5, <1>6 DEF k, s, COMPUTE_NEGATIVE_EIGEN_LANCZOS, COMPUTE_NEGATIVE_EIGEN_POWER_ITER

\* The searches of all blocks of a cone, if it has any.
Searched(c) == IF Blocks(c) = {} THEN {} ELSE {"Sq"}

LEMMA BlocksObtain ==
  ASSUME IsSetup(setup), NEW r, NEW c \in Cones, NEW seqs, seqs = [b \in Blocks(c) |-> seqs[b]],
         \A b \in Blocks(c) : Obtains(c, r, seqs[b], {"Sq"}, {}) /\ seqs[b] \in Local
  PROVE  Obtains(c, r, FlattenSeq(seqs), Searched(c), {}) /\ FlattenSeq(seqs) \in Local
<1> DEFINE n == Len(BlockDims(c))
<1>1. n \in Nat /\ Blocks(c) = 1..n
  BY BlocksOf
<1>2. seqs = [i \in 1..n |-> seqs[i]]
  BY <1>1
<1> HIDE DEF n
<1>3. FlattenSeq(seqs) \in Local
  BY <1>1, <1>2, LocalFlat
<1>4. CASE n >= 1
  <2>1. Searched(c) = {"Sq"}
    BY <1>1, <1>4 DEF Searched
  <2>2. Obtains(c, r, FlattenSeq(seqs), {"Sq"}, {})
    BY <1>1, <1>2, <1>4, ObtainsFlat
  <2> QED BY <1>3, <2>1, <2>2
<1>5. CASE n = 0
  <2>1. Searched(c) = {}
    BY <1>1, <1>5 DEF Searched
  <2>2. seqs = <<>>
    BY <1>2, <1>5
  <2>3. Len(seqs) = 0
    BY <2>2
  <2>4. FlattenSeq(seqs) = <<>>
    BY <2>2, <2>3, FlattenNone
  <2> QED BY <1>3, <2>1, <2>4, ObtainsNone
<1> QED BY <1>1, <1>4, <1>5

LEMMA EigenObtains ==
  ASSUME IsSetup(setup), NEW r, NEW c \in Cones
  PROVE  Obtains(c, r, RUN_PER_CONE_LANCZOS(c), {"min_eigval"} \union Searched(c), {})
<1> DEFINE seqs == [b \in Blocks(c) |-> COMPUTE_NEGATIVE_EIGEN_LANCZOS(c, b)]
           z == Reduce("min_eigval", <<"cone">>)
           X == Searched(c)
<1>1. Obtains(c, r, FlattenSeq(seqs), X, {})
  <2>1. seqs = [b \in Blocks(c) |-> seqs[b]]
    OBVIOUS
  <2>2. \A b \in Blocks(c) : Obtains(c, r, seqs[b], {"Sq"}, {}) /\ seqs[b] \in Local
    BY LanczosObtains
  <2> HIDE DEF seqs
  <2> QED BY <2>1, <2>2, BlocksObtain
<1>2. /\ "min_eigval" \in Computed /\ Sensible("min_eigval", r) /\ "cone" \in DOMAIN Axes
      /\ Full("min_eigval") = Axes["cone"] /\ Needs("min_eigval", c, r) \subseteq X
  BY AxisValues DEF Computed, Quantities, Announced, Sensible, Full, Needs, Axes, Searched
<1>3. Obtains(c, r, z, {"min_eigval"}, X)
  BY <1>2, OneAxis
<1>4. RUN_PER_CONE_LANCZOS(c) = FlattenSeq(seqs) \o z
  BY DEF RUN_PER_CONE_LANCZOS
<1> HIDE DEF seqs, z, X
<1>5. X \subseteq X \union {} /\ {"min_eigval"} \union X \subseteq X \union {"min_eigval"}
  OBVIOUS
<1>6. Obtains(c, r, FlattenSeq(seqs) \o z, {"min_eigval"} \union X, {})
  BY <1>1, <1>3, <1>5, ObtainsThen
<1> QED BY <1>4, <1>6 DEF X

LEMMA ResidualObtains ==
  ASSUME IsSetup(setup), NEW r, r.checked, NEW c \in Cones
  PROVE  Obtains(c, r, DualResidual(c), {"min_slack", "free"}, Searched(c))
<1> DEFINE P == IF setup.lp = c THEN {"lp_slack"} ELSE {}
           Q == IF setup.free = c THEN {"stationarity"} ELSE {}
           l == COMPUTE_LP_MIN_SLACK(c)
           m == Reduce("min_slack", <<"cone">>)
           s == COMPUTE_FREE_STATIONARITY(c)
           f == Reduce("free", <<"cone">>)
           X == Searched(c)
<1>1. "row" \in DOMAIN Axes /\ "cone" \in DOMAIN Axes
  BY DEF Axes
<1>2. /\ "lp_slack" \in Computed /\ "stationarity" \in Computed
      /\ "min_slack" \in Computed /\ "free" \in Computed
  BY DEF Computed, Quantities, Announced
<1>3. Sensible("lp_slack", r) /\ Sensible("stationarity", r) /\ Sensible("min_slack", r)
      /\ Sensible("free", r)
  BY DEF Sensible
<1>4. /\ Full("lp_slack") = Axes["row"] /\ Full("stationarity") = Axes["row"]
      /\ Full("min_slack") = Axes["cone"] /\ Full("free") = Axes["cone"]
  BY AxisValues DEF Full
<1>5. /\ Needs("lp_slack", c, r) \subseteq {} /\ Needs("stationarity", c, r) \subseteq {}
      /\ Needs("min_slack", c, r) \subseteq X \union P /\ Needs("free", c, r) \subseteq Q
  BY DEF Needs, Searched
<1>6. Obtains(c, r, l, P, {})
  <2>1. CASE setup.lp = c
    BY <1>1, <1>2, <1>3, <1>4, <1>5, <2>1, OneAxis DEF COMPUTE_LP_MIN_SLACK
  <2>2. CASE setup.lp # c
    BY <2>2, ObtainsNone DEF COMPUTE_LP_MIN_SLACK
  <2> QED BY <2>1, <2>2
<1>7. Obtains(c, r, s, Q, {})
  <2>1. CASE setup.free = c
    BY <1>1, <1>2, <1>3, <1>4, <1>5, <2>1, OneAxis DEF COMPUTE_FREE_STATIONARITY
  <2>2. CASE setup.free # c
    BY <2>2, ObtainsNone DEF COMPUTE_FREE_STATIONARITY
  <2> QED BY <2>1, <2>2
<1>8. DualResidual(c) = ((l \o m) \o s) \o f
  BY DEF DualResidual
<1> HIDE DEF P, Q, l, s, X
<1>9. Obtains(c, r, m, {"min_slack"}, X \union P)
  BY <1>1, <1>2, <1>3, <1>4, <1>5, OneAxis
<1>10. Obtains(c, r, f, {"free"}, Q)
  BY <1>1, <1>2, <1>3, <1>4, <1>5, OneAxis
<1> HIDE DEF m, f
<1>11. Obtains(c, r, l, P, X)
  <2>1. P \subseteq P /\ {} \subseteq X
    OBVIOUS
  <2> QED BY <1>6, <2>1, ObtainsMore
<1>12. Obtains(c, r, l \o m, {"min_slack"}, X)
  <2>1. X \union P \subseteq P \union X /\ {"min_slack"} \subseteq P \union {"min_slack"}
    OBVIOUS
  <2> QED BY <1>9, <1>11, <2>1, ObtainsThen
<1>13. Obtains(c, r, (l \o m) \o s, {"min_slack"} \union Q, X)
  <2>1. {} \subseteq {"min_slack"} \union X /\ {"min_slack"} \union Q \subseteq {"min_slack"} \union Q
    OBVIOUS
  <2> QED BY <1>7, <1>12, <2>1, ObtainsThen
<1>14. Obtains(c, r, ((l \o m) \o s) \o f, {"min_slack", "free"}, X)
  <2>1. /\ Q \subseteq ({"min_slack"} \union Q) \union X
        /\ {"min_slack", "free"} \subseteq ({"min_slack"} \union Q) \union {"free"}
    OBVIOUS
  <2> QED BY <1>10, <1>13, <2>1, ObtainsThen
<1> QED BY <1>8, <1>14 DEF X

LEMMA DualObtains ==
  ASSUME IsSetup(setup), NEW r, r.checked, NEW c \in Cones
  PROVE  /\ Obtains(c, r, DualSlack(c), {"min_eigval", "min_slack", "free"}, {})
         /\ Obtains(c, r, CHECK_DUAL_INFEASIBILITY(c), {"min_slack", "free"}, {})
<1> DEFINE d == DualResidual(c)
           X == Searched(c)
           e == RUN_PER_CONE_LANCZOS(c)
           seqs == [b \in Blocks(c) |-> COMPUTE_NEGATIVE_EIGEN_POWER_ITER]
           g == FlattenSeq(seqs)
<1>1. Obtains(c, r, d, {"min_slack", "free"}, X)
  BY ResidualObtains
<1>2. Obtains(c, r, e, {"min_eigval"} \union X, {})
  BY EigenObtains
<1>3. Obtains(c, r, g, X, {})
  <2>1. seqs = [b \in Blocks(c) |-> seqs[b]]
    OBVIOUS
  <2>2. \A b \in Blocks(c) : Obtains(c, r, seqs[b], {"Sq"}, {}) /\ seqs[b] \in Local
    BY LanczosObtains
  <2> HIDE DEF seqs
  <2> QED BY <2>1, <2>2, BlocksObtain
<1>4. DualSlack(c) = e \o d /\ CHECK_DUAL_INFEASIBILITY(c) = g \o d
  BY DEF DualSlack, CHECK_DUAL_INFEASIBILITY
<1> HIDE DEF d, X, e, g
<1>5. Obtains(c, r, e \o d, {"min_eigval", "min_slack", "free"}, {})
  <2>1. /\ X \subseteq ({"min_eigval"} \union X) \union {}
        /\ {"min_eigval", "min_slack", "free"} \subseteq ({"min_eigval"} \union X) \union {"min_slack", "free"}
    OBVIOUS
  <2> QED BY <1>1, <1>2, <2>1, ObtainsThen
<1>6. Obtains(c, r, g \o d, {"min_slack", "free"}, {})
  <2>1. X \subseteq X \union {} /\ {"min_slack", "free"} \subseteq X \union {"min_slack", "free"}
    OBVIOUS
  <2> QED BY <1>1, <1>3, <2>1, ObtainsThen
<1> QED BY <1>4, <1>5, <1>6

-----------------------------------------------------------------------------
(* The lists of the cones side by side.  A call over the cones is in all   *)
(* of them, at the same level; no call is below one before it.             *)

LEMMA AlignedSame ==
  ASSUME NEW L \in Seq(Calls), NEW f, \A c \in Cones : f[c] = L
  PROVE  Aligned(f)
<1> DEFINE lev == [x \in Cones \X Nat |-> x[2]]
           T == Len(L)
<1>1. T \in Nat
  OBVIOUS
<1>2. \A c \in Cones : \A i \in Nat : lev[<<c, i>>] = i
  OBVIOUS
<1>3. \A i \in 1..T : i \in Nat /\ i \in 0..T /\ i >= 1
  OBVIOUS
<1> HIDE DEF lev
<1>4. ASSUME NEW c \in Cones PROVE InOrder(f[c], lev, c, T)
  BY <1>2, <1>3 DEF InOrder
<1>5. ASSUME NEW c \in Cones, NEW d \in Cones PROVE InBoth(f[c], f[d], lev, c, d)
  BY <1>2, <1>3 DEF InBoth
<1> QED BY <1>1, <1>4, <1>5 DEF Levels, Aligned

\* Lists without calls over the cones may differ from cone to cone.
LEMMA AlignedLocal ==
  ASSUME NEW f, \A c \in Cones : f[c] \in Local
  PROVE  Aligned(f)
<1> DEFINE lev == [x \in Cones \X Nat |-> 0]
<1>1. ASSUME NEW c \in Cones, NEW i \in 1..Len(f[c]) PROVE ~ Common(f[c][i])
  BY DEF Local, Common
<1>2. \A c \in Cones : f[c] \in Seq(Calls)
  BY DEF Local
<1>3. ASSUME NEW c \in Cones, NEW i \in 1..Len(f[c]) PROVE lev[<<c, i>>] = 0
  <2>1. i \in Nat
    BY <1>2
  <2> QED BY <2>1
<1> HIDE DEF lev
<1>4. ASSUME NEW c \in Cones PROVE InOrder(f[c], lev, c, 0)
  <2>1. \A i \in 1..Len(f[c]) : lev[<<c, i>>] \in 0..0 /\ ~ Common(f[c][i])
    BY <1>1, <1>3
  <2>2. \A i, j \in 1..Len(f[c]) : lev[<<c, i>>] <= lev[<<c, j>>]
    BY <1>3
  <2> QED BY <1>2, <2>1, <2>2 DEF InOrder
<1>5. ASSUME NEW c \in Cones, NEW d \in Cones PROVE InBoth(f[c], f[d], lev, c, d)
  BY <1>1 DEF InBoth
<1> QED BY <1>4, <1>5 DEF Levels, Aligned

\* Aligned lists one after the other are aligned.
LEMMA AlignedThen ==
  ASSUME NEW f, NEW g, NEW h, Aligned(f), Aligned(g), \A c \in Cones : h[c] = f[c] \o g[c]
  PROVE  Aligned(h)
<1>1. PICK lf, Tf : Levels(f, lf, Tf)
  BY DEF Aligned
<1>2. PICK lg, Tg : Levels(g, lg, Tg)
  BY DEF Aligned
<1> DEFINE n(c) == Len(f[c])
           m(c) == Len(g[c])
           T == Tf + Tg
           lev == [x \in Cones \X Nat |-> IF x[2] <= n(x[1]) THEN lf[x]
                                          ELSE Tf + lg[<<x[1], x[2] - n(x[1])>>]]
<1>3. Tf \in Nat /\ Tg \in Nat /\ T \in Nat
  BY <1>1, <1>2 DEF Levels
<1>4. ASSUME NEW c \in Cones
      PROVE  /\ InOrder(f[c], lf, c, Tf) /\ InOrder(g[c], lg, c, Tg)
             /\ f[c] \in Seq(Calls) /\ g[c] \in Seq(Calls)
             /\ n(c) \in Nat /\ m(c) \in Nat
             /\ h[c] \in Seq(Calls) /\ Len(h[c]) = n(c) + m(c)
  <2>1. InOrder(f[c], lf, c, Tf) /\ InOrder(g[c], lg, c, Tg)
    BY <1>1, <1>2 DEF Levels
  <2>2. f[c] \in Seq(Calls) /\ g[c] \in Seq(Calls)
    BY <2>1 DEF InOrder
  <2>3. h[c] = f[c] \o g[c]
    OBVIOUS
  <2> QED BY <2>1, <2>2, <2>3, ConcatProperties
<1>5. ASSUME NEW c \in Cones, NEW i \in 1..n(c)
      PROVE  lev[<<c, i>>] = lf[<<c, i>>] /\ h[c][i] = f[c][i]
  <2>0. f[c] \in Seq(Calls) /\ g[c] \in Seq(Calls) /\ n(c) \in Nat /\ m(c) \in Nat
    BY <1>4
  <2>1. i \in 1..(n(c) + m(c)) /\ i \in Nat /\ i <= n(c)
    <3> DEFINE a == n(c)
               b == m(c)
    <3>1. a \in Nat /\ b \in Nat /\ i \in 1..a
      BY <2>0
    <3> HIDE DEF a, b
    <3>2. i \in 1..(a + b) /\ i \in Nat /\ i <= a
      BY <3>1
    <3> QED BY <3>2 DEF a, b
  <2>2. h[c][i] = f[c][i]
    <3> DEFINE a == f[c]
               b == g[c]
               d == h[c]
    <3>1. a \in Seq(Calls) /\ b \in Seq(Calls) /\ d = a \o b /\ i \in 1..Len(a)
      BY <2>0
    <3> HIDE DEF a, b, d
    <3>2. d[i] = a[i]
      BY <3>1, ConcatAt
    <3> QED BY <3>2 DEF a, b, d
  <2> QED BY <2>1, <2>2
<1>6. ASSUME NEW c \in Cones, NEW i \in 1..m(c)
      PROVE  lev[<<c, n(c) + i>>] = Tf + lg[<<c, i>>] /\ h[c][n(c) + i] = g[c][i]
  <2> DEFINE k == n(c) + i
  <2>0. f[c] \in Seq(Calls) /\ g[c] \in Seq(Calls) /\ n(c) \in Nat /\ m(c) \in Nat
    BY <1>4
  <2>1. k \in 1..(n(c) + m(c)) /\ k \in Nat /\ ~ (k <= n(c)) /\ k - n(c) = i
    <3> DEFINE a == n(c)
               b == m(c)
    <3>1. a \in Nat /\ b \in Nat /\ i \in 1..b
      BY <2>0
    <3> HIDE DEF a, b
    <3>2. a + i \in 1..(a + b) /\ a + i \in Nat /\ ~ (a + i <= a) /\ (a + i) - a = i
      BY <3>1
    <3> QED BY <3>2 DEF a, b
  <2>2. h[c][k] = g[c][k - n(c)]
    <3> DEFINE a == f[c]
               b == g[c]
               d == h[c]
    <3>1. a \in Seq(Calls) /\ b \in Seq(Calls) /\ d = a \o b /\ i \in 1..Len(b)
      BY <2>0
    <3>2. k = Len(a) + i
      OBVIOUS
    <3> HIDE DEF a, b, d, k
    <3>3. d[k] = b[i]
      BY <3>1, <3>2, ConcatAt
    <3> QED BY <2>1, <3>3 DEF a, b, d
  <2>3. lev[<<c, k>>] = Tf + lg[<<c, k - n(c)>>]
    <3> HIDE DEF k, n
    <3> QED BY <2>1
  <2> QED BY <2>1, <2>2, <2>3
<1>7. ASSUME NEW c \in Cones, NEW i \in 1..Len(h[c])
      PROVE  i \in 1..n(c) \/ \E k \in 1..m(c) : i = n(c) + k
  <2> DEFINE a == n(c)
             b == m(c)
  <2>1. a \in Nat /\ b \in Nat /\ i \in 1..(a + b)
    BY <1>4
  <2> HIDE DEF a, b
  <2>2. i \in 1..a \/ (i - a \in 1..b /\ i = a + (i - a))
    BY <2>1
  <2>3. i \in 1..a \/ \E k \in 1..b : i = a + k
    BY <2>2
  <2> QED BY <2>3 DEF a, b
<1> HIDE DEF lev, n, m, T
<1>8. ASSUME NEW c \in Cones PROVE InOrder(h[c], lev, c, T)
  <2>1. /\ \A i \in 1..n(c) : lf[<<c, i>>] \in 0..Tf /\ (Common(f[c][i]) => lf[<<c, i>>] >= 1)
        /\ \A i, j \in 1..n(c) : i < j => lf[<<c, i>>] <= lf[<<c, j>>]
                                   /\ (Common(f[c][j]) => lf[<<c, i>>] < lf[<<c, j>>])
    BY <1>4 DEF InOrder, n
  <2>2. /\ \A i \in 1..m(c) : lg[<<c, i>>] \in 0..Tg /\ (Common(g[c][i]) => lg[<<c, i>>] >= 1)
        /\ \A i, j \in 1..m(c) : i < j => lg[<<c, i>>] <= lg[<<c, j>>]
                                   /\ (Common(g[c][j]) => lg[<<c, i>>] < lg[<<c, j>>])
    BY <1>4 DEF InOrder, m
  <2>3. ASSUME NEW i \in 1..Len(h[c])
        PROVE  lev[<<c, i>>] \in 0..T /\ (Common(h[c][i]) => lev[<<c, i>>] >= 1)
    <3>1. CASE i \in 1..n(c)
      <4>1. lev[<<c, i>>] = lf[<<c, i>>] /\ h[c][i] = f[c][i]
        BY <1>5, <3>1
      <4>2. lf[<<c, i>>] \in 0..Tf /\ (Common(f[c][i]) => lf[<<c, i>>] >= 1)
        BY <2>1, <3>1
      <4> QED BY <1>3, <4>1, <4>2 DEF T
    <3>2. ASSUME NEW k \in 1..m(c), i = n(c) + k
          PROVE  lev[<<c, i>>] \in 0..T /\ (Common(h[c][i]) => lev[<<c, i>>] >= 1)
      <4>1. lev[<<c, i>>] = Tf + lg[<<c, k>>] /\ h[c][i] = g[c][k]
        BY <1>6, <3>2
      <4>2. lg[<<c, k>>] \in 0..Tg /\ (Common(g[c][k]) => lg[<<c, k>>] >= 1)
        BY <2>2
      <4> QED BY <1>3, <4>1, <4>2 DEF T
    <3> QED BY <1>7, <3>1, <3>2
  <2>4. ASSUME NEW i \in 1..Len(h[c]), NEW j \in 1..Len(h[c]), i < j
        PROVE  lev[<<c, i>>] <= lev[<<c, j>>] /\ (Common(h[c][j]) => lev[<<c, i>>] < lev[<<c, j>>])
    <3>1. CASE i \in 1..n(c) /\ j \in 1..n(c)
      <4>1. lev[<<c, i>>] = lf[<<c, i>>] /\ lev[<<c, j>>] = lf[<<c, j>>] /\ h[c][j] = f[c][j]
        BY <1>5, <3>1
      <4> QED BY <2>1, <2>4, <3>1, <4>1
    <3>2. ASSUME i \in 1..n(c), NEW k \in 1..m(c), j = n(c) + k
          PROVE  lev[<<c, i>>] <= lev[<<c, j>>]
                 /\ (Common(h[c][j]) => lev[<<c, i>>] < lev[<<c, j>>])
      <4>1. lev[<<c, i>>] = lf[<<c, i>>] /\ lev[<<c, j>>] = Tf + lg[<<c, k>>] /\ h[c][j] = g[c][k]
        BY <1>5, <1>6, <3>2
      <4>2. lf[<<c, i>>] \in 0..Tf /\ lg[<<c, k>>] \in 0..Tg
            /\ (Common(g[c][k]) => lg[<<c, k>>] >= 1)
        BY <2>1, <2>2, <3>2
      <4> QED BY <1>3, <4>1, <4>2
    <3>3. ASSUME NEW l \in 1..m(c), i = n(c) + l, NEW k \in 1..m(c), j = n(c) + k
          PROVE  lev[<<c, i>>] <= lev[<<c, j>>]
                 /\ (Common(h[c][j]) => lev[<<c, i>>] < lev[<<c, j>>])
      <4>1. lev[<<c, i>>] = Tf + lg[<<c, l>>] /\ lev[<<c, j>>] = Tf + lg[<<c, k>>] /\ h[c][j] = g[c][k]
        BY <1>6, <3>3
      <4>2. l < k
        <5>1. n(c) \in Nat /\ l \in Int /\ k \in Int
          BY <1>4
        <5> QED BY <2>4, <3>3, <5>1
      <4>3. lg[<<c, l>>] \in 0..Tg /\ lg[<<c, k>>] \in 0..Tg
        BY <2>2
      <4>4. lg[<<c, l>>] <= lg[<<c, k>>] /\ (Common(g[c][k]) => lg[<<c, l>>] < lg[<<c, k>>])
        BY <2>2, <4>2
      <4> QED BY <1>3, <4>1, <4>3, <4>4
    <3>4. ASSUME NEW l \in 1..m(c), i = n(c) + l PROVE ~ (j \in 1..n(c))
      <4>1. n(c) \in Nat /\ l \in Int /\ l >= 1
        BY <1>4
      <4> QED BY <2>4, <3>4, <4>1
    <3>5. i \in 1..n(c) \/ \E l \in 1..m(c) : i = n(c) + l
      BY <1>7
    <3>6. j \in 1..n(c) \/ \E k \in 1..m(c) : j = n(c) + k
      BY <1>7
    <3> QED BY <3>1, <3>2, <3>3, <3>4, <3>5, <3>6
  <2>5. h[c] \in Seq(Calls)
    BY <1>4
  <2> QED BY <2>3, <2>4, <2>5 DEF InOrder
<1>9. ASSUME NEW c \in Cones, NEW d \in Cones PROVE InBoth(h[c], h[d], lev, c, d)
  <2>1. /\ \A i \in 1..n(c) : Common(f[c][i]) =>
             \E j \in 1..n(d) : lf[<<d, j>>] = lf[<<c, i>>] /\ f[d][j] = f[c][i]
        /\ \A i \in 1..m(c) : Common(g[c][i]) =>
             \E j \in 1..m(d) : lg[<<d, j>>] = lg[<<c, i>>] /\ g[d][j] = g[c][i]
    <3>1. InBoth(f[c], f[d], lf, c, d) /\ InBoth(g[c], g[d], lg, c, d)
      BY <1>1, <1>2 DEF Levels
    <3> QED BY <3>1 DEF InBoth, n, m
  <2>2. n(d) \in Nat /\ m(d) \in Nat /\ Len(h[d]) = n(d) + m(d)
    BY <1>4 DEF n, m
  <2>3. ASSUME NEW i \in 1..Len(h[c]), Common(h[c][i])
        PROVE  \E j \in 1..Len(h[d]) : lev[<<d, j>>] = lev[<<c, i>>] /\ h[d][j] = h[c][i]
    <3>1. CASE i \in 1..n(c)
      <4>1. lev[<<c, i>>] = lf[<<c, i>>] /\ h[c][i] = f[c][i]
        BY <1>5, <3>1
      <4>2. PICK j \in 1..n(d) : lf[<<d, j>>] = lf[<<c, i>>] /\ f[d][j] = f[c][i]
        BY <2>1, <2>3, <3>1, <4>1
      <4>3. lev[<<d, j>>] = lf[<<d, j>>] /\ h[d][j] = f[d][j]
        BY <1>5
      <4>4. j \in 1..Len(h[d])
        BY <2>2
      <4> QED BY <4>1, <4>2, <4>3, <4>4
    <3>2. ASSUME NEW k \in 1..m(c), i = n(c) + k
          PROVE  \E j \in 1..Len(h[d]) : lev[<<d, j>>] = lev[<<c, i>>] /\ h[d][j] = h[c][i]
      <4>1. lev[<<c, i>>] = Tf + lg[<<c, k>>] /\ h[c][i] = g[c][k]
        BY <1>6, <3>2
      <4>2. PICK j \in 1..m(d) : lg[<<d, j>>] = lg[<<c, k>>] /\ g[d][j] = g[c][k]
        BY <2>1, <2>3, <4>1
      <4>3. lev[<<d, n(d) + j>>] = Tf + lg[<<d, j>>] /\ h[d][n(d) + j] = g[d][j]
        BY <1>6
      <4>4. n(d) + j \in 1..Len(h[d])
        BY <2>2
      <4> QED BY <4>1, <4>2, <4>3, <4>4
    <3> QED BY <1>7, <3>1, <3>2
  <2> QED BY <2>3 DEF InBoth
<1> QED BY <1>3, <1>8, <1>9 DEF Levels, Aligned

-----------------------------------------------------------------------------
(* What a process brings to a stage, and what its calls make of it.        *)

\* The numbers it brings with it from the stage before, and the one it tells.
Brought(r, n, c) ==
  CASE n.pc = "converged" -> Base \union (IF n.loop.inner > 0 THEN {"dot"} ELSE {})
    [] n.pc \in {"step", "count", "dual_step", "gate", "lift"} -> Base
    [] n.pc \in {"detect", "winner", "rebuild"} -> Base \union {"dot"}
    [] n.pc = "escape" -> Base \union {"dot", "winner"}
    [] n.pc = "escaped" ->
         Base \union {"dot", "winner"} \union (IF c = n.winner[1] THEN {"HV"} ELSE {})
    [] n.pc \in {"select", "weigh"} -> Base \union Residuals
    [] n.pc = "terminate" ->
         IF r.pc = "gate" /\ n.checked THEN Base ELSE Base \union Residuals
    [] OTHER -> {}

Tells == [detect |-> "detect", rebuild |-> "winner", count |-> "escapes", select |-> "strengths",
          weigh |-> "variables"]

Told(n) == IF n.pc \in DOMAIN Tells THEN {<<Tells[n.pc], {}>>} ELSE {}

Arrives(r, n, c) == Wholes(Brought(r, n, c)) \union Told(n)

Prepared(r, n, c) == Runs(c, n, n.calls[c], Arrives(r, n, c), Wholes(Goal(n, c)))

\* The numbers of a decision are those brought to it and those its calls give.
LEMMA PreparedBy ==
  ASSUME NEW r, NEW n, NEW c, NEW X, NEW N, Obtains(c, n, n.calls[c], X, N),
         N \subseteq Brought(r, n, c), Goal(n, c) \subseteq Brought(r, n, c) \union X
  PROVE  Prepared(r, n, c)
<1>1. Runs(c, n, n.calls[c], Wholes(Brought(r, n, c)), Wholes(Goal(n, c)))
  BY ObtainsRuns
<1>2. Wholes(Brought(r, n, c)) \subseteq Arrives(r, n, c) /\ Wholes(Goal(n, c)) \subseteq Wholes(Goal(n, c))
  BY DEF Arrives
<1> QED BY <1>1, <1>2, RunsMore DEF Prepared

\* A call that tells a number the process has of its own.
LEMMA TellRuns ==
  ASSUME NEW c, NEW r, NEW on \in DOMAIN Axes, NEW x \in Announced, Full(x) = Axes[on], NEW facts,
         NEW S, x \notin S, Wholes(S) \subseteq facts, <<x, {}>> \in facts
  PROVE  Runs(c, r, <<Call(on, {x}, {})>>, facts, Wholes(S \union {x}))
<1>1. x \in Quantities
  BY DEF Announced, Quantities
<1>2. Prior(x, on) = {}
  BY DEF Announced, Prior
<1> DEFINE A == Prior(x, on)
           D == A \union Axes[on]
<1>3. A = {} /\ A \cap Axes[on] = {} /\ D = Full(x) /\ D \subseteq Full(x) /\ <<x, A>> \in facts
  BY <1>2
<1>4. A = Prior(x, on) /\ D = A \union Axes[on]
  OBVIOUS
<1> HIDE DEF A, D
<1>5. Runs(c, r, <<Call(on, {x}, {})>>, facts, Given(facts, x, D))
  BY <1>1, <1>3, <1>4, NextSum
<1>6. Wholes(S \union {x}) \subseteq Given(facts, x, D)
  BY <1>3 DEF Wholes, Given
<1>7. facts \subseteq facts
  OBVIOUS
<1> QED BY <1>5, <1>6, <1>7, RunsMore

LEMMA PreparedTold ==
  ASSUME NEW r, NEW n, NEW c, n.pc \in DOMAIN Tells, NEW x \in Announced, x = Tells[n.pc],
         NEW on \in DOMAIN Axes, Full(x) = Axes[on], n.calls[c] = <<Call(on, {x}, {})>>,
         x \notin Brought(r, n, c), Goal(n, c) \subseteq Brought(r, n, c) \union {x}
  PROVE  Prepared(r, n, c)
<1> DEFINE facts == Arrives(r, n, c)
           S == Brought(r, n, c)
<1>1. Wholes(S) \subseteq facts /\ <<x, {}>> \in facts
  BY DEF Arrives, Told
<1>2. x \notin S
  OBVIOUS
<1> HIDE DEF facts, S
<1>3. Runs(c, n, <<Call(on, {x}, {})>>, facts, Wholes(S \union {x}))
  BY <1>1, <1>2, TellRuns
<1>4. facts \subseteq facts /\ Wholes(Goal(n, c)) \subseteq Wholes(S \union {x})
  BY DEF Wholes, S
<1>5. Runs(c, n, <<Call(on, {x}, {})>>, facts, Wholes(Goal(n, c)))
  BY <1>3, <1>4, RunsMore
<1> QED BY <1>5 DEF Prepared, facts

LEMMA AlignedAll ==
  ASSUME NEW L, L \in Seq(Calls)
  PROVE  Aligned(Same(L))
<1>1. \A c \in Cones : Same(L)[c] = L
  BY DEF Same
<1> QED BY <1>1, AlignedSame

LEMMA ObtainsList ==
  ASSUME NEW c, NEW r, NEW L, NEW X, NEW N, Obtains(c, r, L, X, N)
  PROVE  L \in Seq(Calls)
BY DEF Obtains, Computes

LEMMA RanksKept ==
  ASSUME NEW r, NEW n, RanksOK(r), n.ranks = r.ranks
  PROVE  RanksOK(n)
BY DEF RanksOK, FirstRanks

LEMMA RanksIn ==
  ASSUME IsSetup(setup), NEW r, RanksOK(r), NEW c \in Cones
  PROVE  IsRanks(c, FirstRanks(r, c))
<1>1. 0 \in All(2)
  BY SetupDims DEF All
<1> QED BY <1>1 DEF RanksOK, FirstRanks

\* A stage that follows another by one list for all the cones.
Moves(r, n, label, L) ==
  /\ n.pc = label /\ n.ranks = r.ranks /\ n.calls = Same(L) /\ n.loop \in Counters

LEMMA SameStage ==
  ASSUME NEW r, StageOK(r), NEW n, NEW label, NEW L, Moves(r, n, label, L), L \in Seq(Calls),
         label \in {"rebuild", "escape", "escaped"} => IsCurvature(n.winner),
         label = "select" => \A c \in Cones : IsFound(n.eig[c], c),
         label # "weigh", label # "terminate" => n.checked
  PROVE  StageOK(n) /\ \A c \in Cones : n.calls[c] = L
<1>1. RanksOK(n)
  BY RanksKept DEF StageOK, Moves
<1>2. Aligned(n.calls)
  BY AlignedAll DEF Moves
<1>3. \A c \in Cones : n.calls[c] = L
  BY DEF Moves, Same
<1> QED BY <1>1, <1>2, <1>3 DEF StageOK, Moves

\* On to the next step of the inner loop.
LEMMA ToConverged ==
  ASSUME IsSetup(setup), NEW r, StageOK(r), NEW n, NEW L,
         Moves(r, n, "converged", L), n.checked,
         NEW X, NEW N, {"grad_norm"} \subseteq X, N \subseteq Base,
         \A c \in Cones : Obtains(c, n, L, X, N)
  PROVE  StageOK(n) /\ \A c \in Cones : Prepared(r, n, c)
<1>1. PICK d \in Cones : TRUE
  BY SetupDims DEF Cones
<1>2. L \in Seq(Calls)
  BY <1>1, ObtainsList
<1>3. StageOK(n) /\ \A c \in Cones : n.calls[c] = L
  BY <1>2, SameStage
<1>4. ASSUME NEW c \in Cones PROVE Prepared(r, n, c)
  <2>1. Obtains(c, n, n.calls[c], X, N)
    BY <1>3
  <2>2. n.pc = "converged"
    BY DEF Moves
  <2>3. N \subseteq Brought(r, n, c) /\ Goal(n, c) \subseteq Brought(r, n, c) \union X
    BY <2>2 DEF Brought, Goal
  <2> QED BY <2>1, <2>3, PreparedBy
<1> QED BY <1>3, <1>4

LEMMA ToDualStep ==
  ASSUME IsSetup(setup), NEW r, StageOK(r), NEW n, Moves(r, n, "dual_step", DualStepCalls), n.checked
  PROVE  StageOK(n) /\ \A c \in Cones : Prepared(r, n, c)
<1>1. PICK d \in Cones : TRUE
  BY SetupDims DEF Cones
<1>2. \A c \in Cones : Obtains(c, n, DualStepCalls, {"Ax", "gradient", "q0_norm"}, {})
  BY HeadObtains
<1>3. DualStepCalls \in Seq(Calls)
  BY <1>1, <1>2, ObtainsList
<1>4. StageOK(n) /\ \A c \in Cones : n.calls[c] = DualStepCalls
  BY <1>3, SameStage
<1>5. ASSUME NEW c \in Cones PROVE Prepared(r, n, c)
  <2> DEFINE X == {"Ax", "gradient", "q0_norm"}
             N == {}
  <2>1. n.pc = "dual_step"
    BY DEF Moves
  <2>2. N \subseteq Brought(r, n, c) /\ Goal(n, c) \subseteq Brought(r, n, c) \union X
    BY <2>1 DEF Brought, Goal
  <2>3. Obtains(c, n, n.calls[c], X, N)
    BY <1>2, <1>4
  <2> HIDE DEF X, N
  <2> QED BY <2>2, <2>3, PreparedBy
<1> QED BY <1>4, <1>5

\* All tell each other a number.
LEMMA ToTold ==
  ASSUME NEW r, StageOK(r), NEW n, NEW label \in DOMAIN Tells, label # "weigh",
         NEW x, x = Tells[label], NEW on \in DOMAIN Axes, Full(x) = Axes[on],
         Moves(r, n, label, <<Call(on, {x}, {})>>), n.checked,
         label = "rebuild" => IsCurvature(n.winner),
         label = "select" => \A c \in Cones : IsFound(n.eig[c], c)
  PROVE  StageOK(n) /\ \A c \in Cones : Prepared(r, n, c)
<1>1. x \in Announced /\ x \in Quantities
  BY DEF Tells, Announced, Quantities
<1>2. label \notin {"escape", "escaped"} /\ label # "terminate"
  BY DEF Tells
<1> DEFINE L == <<Call(on, {x}, {})>>
<1>3. L \in Seq(Calls)
  <2>1. {x} \in SUBSET Quantities /\ {} \in SUBSET Quantities
    BY <1>1
  <2> QED BY <2>1, CallsIn
<1>4. Moves(r, n, label, L)
  OBVIOUS
<1> HIDE DEF L
<1>5. StageOK(n) /\ \A c \in Cones : n.calls[c] = L
  BY <1>2, <1>3, <1>4, SameStage
<1>6. ASSUME NEW c \in Cones PROVE Prepared(r, n, c)
  <2>1. n.pc = label
    BY DEF Moves
  <2>2. label \in {"detect", "rebuild", "count", "select"}
    BY DEF Tells
  <2>3. x \notin Brought(r, n, c) /\ Goal(n, c) \subseteq Brought(r, n, c) \union {x}
    BY <2>1, <2>2 DEF Brought, Goal, Tells, Base, Residuals
  <2>4. n.pc \in DOMAIN Tells /\ x = Tells[n.pc] /\ n.calls[c] = <<Call(on, {x}, {})>>
    BY <1>5, <2>1 DEF L
  <2> QED BY <1>1, <2>3, <2>4, PreparedTold
<1> QED BY <1>5, <1>6

\* Calls of each cone, then calls of all of them.
LEMMA AlignedTail ==
  ASSUME NEW f, \A c \in Cones : f[c] \in Local, NEW L \in Seq(Calls),
         NEW h, \A c \in Cones : h[c] = f[c] \o L
  PROVE  Aligned(h)
<1>1. Aligned(f)
  BY AlignedLocal
<1>2. Aligned(Same(L))
  BY AlignedAll
<1>3. \A c \in Cones : h[c] = f[c] \o Same(L)[c]
  BY DEF Same
<1> QED BY <1>1, <1>2, <1>3, AlignedThen

LEMMA AlignedBoth ==
  ASSUME NEW f, Aligned(f), NEW g, \A c \in Cones : g[c] \in Local, NEW L \in Seq(Calls),
         NEW h, \A c \in Cones : h[c] = f[c] \o (g[c] \o L)
  PROVE  Aligned(h)
<1> DEFINE k == [c \in Cones |-> g[c] \o L]
<1>1. \A c \in Cones : k[c] = g[c] \o L
  OBVIOUS
<1> HIDE DEF k
<1>2. Aligned(k)
  BY <1>1, AlignedTail
<1>3. \A c \in Cones : h[c] = f[c] \o k[c]
  BY <1>1
<1> QED BY <1>2, <1>3, AlignedThen

LEMMA ReduceIn ==
  ASSUME NEW x \in Quantities, NEW on \in DOMAIN Axes
  PROVE  Reduce(x, <<on>>) \in Seq(Calls)
<1>1. Reduce(x, <<on>>) = <<Call(on, {x}, {x})>>
  BY DEF Reduce
<1>2. {x} \in SUBSET Quantities
  OBVIOUS
<1> QED BY <1>1, <1>2, CallsIn

\* The searches of the cones have calls of their own, and end in one over all.
LEMMA ProbeAligned ==
  ASSUME IsSetup(setup), NEW r, RanksOK(r)
  PROVE  Aligned(ProbeCalls(r))
<1> DEFINE f == [c \in Cones |->
                   FlattenSeq([b \in Blocks(c) |-> FIND_AL_NEGATIVE_CURVATURE(c, FirstRanks(r, c), b)])]
           L == Reduce("lambda", <<"all">>)
<1>1. ASSUME NEW c \in Cones PROVE f[c] \in Local
  <2> DEFINE seqs == [b \in Blocks(c) |-> FIND_AL_NEGATIVE_CURVATURE(c, FirstRanks(r, c), b)]
             n == Len(BlockDims(c))
  <2>1. IsRanks(c, FirstRanks(r, c))
    BY RanksIn
  <2>2. n \in Nat /\ Blocks(c) = 1..n
    BY BlocksOf
  <2>3. \A b \in Blocks(c) : seqs[b] \in Local
    BY <2>1, NegativeCurvature
  <2>4. seqs = [i \in 1..n |-> seqs[i]]
    BY <2>2
  <2>5. f[c] = FlattenSeq(seqs)
    OBVIOUS
  <2> HIDE DEF seqs, n, f
  <2> QED BY <2>2, <2>3, <2>4, <2>5, LocalFlat
<1>2. L \in Seq(Calls)
  <2>1. "lambda" \in Quantities /\ "all" \in DOMAIN Axes
    BY DEF Quantities, Axes
  <2> QED BY <2>1, ReduceIn
<1>3. ASSUME NEW c \in Cones PROVE ProbeCalls(r)[c] = f[c] \o L
  BY DEF ProbeCalls, Probe
<1> HIDE DEF f, L
<1> QED BY <1>1, <1>2, <1>3, AlignedTail

\* The searches, then what all the cones compare of them.
ResidualLists == [c \in Cones |-> DualResidual(c)]

LEMMA ResidualLocal ==
  ASSUME NEW c \in Cones
  PROVE  COMPUTE_LP_MIN_SLACK(c) \in Local /\ COMPUTE_FREE_STATIONARITY(c) \in Local
<1>1. "lp_slack" \in Quantities /\ "stationarity" \in Quantities
  BY DEF Quantities
<1>2. Reduce("lp_slack", <<"row">>) \in Local /\ Reduce("stationarity", <<"row">>) \in Local
  BY <1>1, LocalReduce
<1> QED BY <1>2, LocalNone DEF COMPUTE_LP_MIN_SLACK, COMPUTE_FREE_STATIONARITY

LEMMA ResidualAligned ==
  Aligned(ResidualLists)
<1> DEFINE l == [c \in Cones |-> COMPUTE_LP_MIN_SLACK(c)]
           s == [c \in Cones |-> COMPUTE_FREE_STATIONARITY(c)]
           M == Reduce("min_slack", <<"cone">>)
           F == Reduce("free", <<"cone">>)
           h == [c \in Cones |-> l[c] \o M]
<1>1. \A c \in Cones : l[c] \in Local /\ s[c] \in Local
  BY ResidualLocal
<1>2. "min_slack" \in Quantities /\ "free" \in Quantities /\ "cone" \in DOMAIN Axes
  BY DEF Quantities, Axes
<1>3. M \in Seq(Calls) /\ F \in Seq(Calls)
  BY <1>2, ReduceIn
<1>4. \A c \in Cones : h[c] = l[c] \o M
  OBVIOUS
<1>5. ASSUME NEW c \in Cones PROVE ResidualLists[c] = (h[c] \o s[c]) \o F
  BY DEF ResidualLists, DualResidual
<1> HIDE DEF l, s, M, F, h
<1>6. Aligned(h)
  BY <1>1, <1>3, <1>4, AlignedTail
<1>7. ASSUME NEW c \in Cones PROVE ResidualLists[c] = h[c] \o (s[c] \o F)
  <2> DEFINE x == h[c]
             y == s[c]
  <2>1. x \in Seq(Calls) /\ y \in Seq(Calls)
    <3>1. l[c] \in Seq(Calls) /\ s[c] \in Seq(Calls)
      BY <1>1 DEF Local
    <3>2. h[c] = l[c] \o M
      BY <1>4
    <3> QED BY <1>3, <3>1, <3>2, ConcatProperties
  <2>2. ResidualLists[c] = (x \o y) \o F
    BY <1>5
  <2> HIDE DEF x, y
  <2>3. ResidualLists[c] = x \o (y \o F)
    BY <1>3, <2>1, <2>2
  <2> QED BY <2>3 DEF x, y
<1> QED BY <1>1, <1>3, <1>6, <1>7, AlignedBoth

LEMMA DualAligned ==
  ASSUME IsSetup(setup)
  PROVE  /\ Aligned([c \in Cones |-> DualSlack(c)])
         /\ Aligned([c \in Cones |-> CHECK_DUAL_INFEASIBILITY(c)])
<1> DEFINE f == [c \in Cones |-> FlattenSeq([b \in Blocks(c) |-> COMPUTE_NEGATIVE_EIGEN_LANCZOS(c, b)])]
           g == [c \in Cones |-> FlattenSeq([b \in Blocks(c) |-> COMPUTE_NEGATIVE_EIGEN_POWER_ITER])]
           L == Reduce("min_eigval", <<"cone">>)
           h == [c \in Cones |-> f[c] \o L]
           slack == [c \in Cones |-> DualSlack(c)]
           check == [c \in Cones |-> CHECK_DUAL_INFEASIBILITY(c)]
<1>1. ASSUME NEW c \in Cones PROVE f[c] \in Local /\ g[c] \in Local
  <2> DEFINE a == [b \in Blocks(c) |-> COMPUTE_NEGATIVE_EIGEN_LANCZOS(c, b)]
             d == [b \in Blocks(c) |-> COMPUTE_NEGATIVE_EIGEN_POWER_ITER]
             n == Len(BlockDims(c))
  <2>1. n \in Nat /\ Blocks(c) = 1..n
    BY BlocksOf
  <2>2. \A b \in Blocks(c) : a[b] \in Local /\ d[b] \in Local
    BY LanczosObtains
  <2>3. a = [i \in 1..n |-> a[i]] /\ d = [i \in 1..n |-> d[i]]
    BY <2>1
  <2>4. f[c] = FlattenSeq(a) /\ g[c] = FlattenSeq(d)
    OBVIOUS
  <2> HIDE DEF a, d, n, f, g
  <2>5. FlattenSeq(a) \in Local
    BY <2>1, <2>2, <2>3, LocalFlat
  <2>6. FlattenSeq(d) \in Local
    BY <2>1, <2>2, <2>3, LocalFlat
  <2> QED BY <2>4, <2>5, <2>6
<1>2. L \in Seq(Calls)
  <2>1. "min_eigval" \in Quantities /\ "cone" \in DOMAIN Axes
    BY DEF Quantities, Axes
  <2> QED BY <2>1, ReduceIn
<1>3. \A c \in Cones : h[c] = f[c] \o L
  OBVIOUS
<1>4. \A c \in Cones : slack[c] = h[c] \o ResidualLists[c] /\ check[c] = g[c] \o ResidualLists[c]
  BY DEF DualSlack, CHECK_DUAL_INFEASIBILITY, RUN_PER_CONE_LANCZOS, ResidualLists
<1> HIDE DEF f, g, L, h, slack, check
<1>5. Aligned(h) /\ Aligned(g)
  BY <1>1, <1>2, <1>3, AlignedTail, AlignedLocal
<1>6. Aligned(slack)
  BY <1>4, <1>5, ResidualAligned, AlignedThen
<1>7. Aligned(check)
  BY <1>4, <1>5, ResidualAligned, AlignedThen
<1> QED BY <1>6, <1>7 DEF slack, check

-----------------------------------------------------------------------------
(* From a stage to the next.                                               *)

LEMMA ToWinner ==
  ASSUME IsSetup(setup), NEW r, StageOK(r), NEW n, n.pc = "winner", n.ranks = r.ranks,
         n.loop \in Counters, n.checked, Aligned(n.calls),
         \A c \in Cones : Obtains(c, n, n.calls[c], {"lambda"}, {"Ax"})
  PROVE  StageOK(n) /\ \A c \in Cones : Prepared(r, n, c)
<1>1. StageOK(n)
  BY RanksKept DEF StageOK
<1>2. ASSUME NEW c \in Cones PROVE Prepared(r, n, c)
  <2> DEFINE X == {"lambda"}
             N == {"Ax"}
  <2>1. Obtains(c, n, n.calls[c], X, N)
    OBVIOUS
  <2>2. N \subseteq Brought(r, n, c) /\ Goal(n, c) \subseteq Brought(r, n, c) \union X
    BY DEF Brought, Goal, Base
  <2> HIDE DEF X, N
  <2> QED BY <2>1, <2>2, PreparedBy
<1> QED BY <1>1, <1>2

LEMMA ToLift ==
  ASSUME IsSetup(setup), NEW r, StageOK(r), NEW n, n.pc = "lift", n.ranks = r.ranks,
         n.loop \in Counters, n.checked, n.calls = [c \in Cones |-> DualSlack(c)]
  PROVE  StageOK(n) /\ \A c \in Cones : Prepared(r, n, c)
<1>1. StageOK(n)
  BY RanksKept, DualAligned DEF StageOK
<1>2. ASSUME NEW c \in Cones PROVE Prepared(r, n, c)
  <2> DEFINE X == {"min_eigval", "min_slack", "free"}
             N == {}
  <2>1. Obtains(c, n, n.calls[c], X, N)
    <3>1. Obtains(c, n, DualSlack(c), X, N)
      BY DualObtains
    <3>2. n.calls[c] = DualSlack(c)
      OBVIOUS
    <3> HIDE DEF X, N
    <3> QED BY <3>1, <3>2
  <2>2. N \subseteq Brought(r, n, c) /\ Goal(n, c) \subseteq Brought(r, n, c) \union X
    BY DEF Brought, Goal, Residuals
  <2> HIDE DEF X, N
  <2> QED BY <2>1, <2>2, PreparedBy
<1> QED BY <1>1, <1>2

\* Without another call.
LEMMA ToNothing ==
  ASSUME NEW r, NEW n, NEW c \in Cones, n.calls = Same(<<>>),
         \/ n.pc = "terminate" /\ ~ (r.pc = "gate" /\ n.checked)
         \/ n.pc = "done"
  PROVE  n.calls[c] = <<>> /\ Prepared(r, n, c)
<1>1. n.calls[c] = <<>>
  BY DEF Same
<1>2. Obtains(c, n, n.calls[c], {}, {})
  BY <1>1, ObtainsNone
<1> DEFINE X == {}
<1>3. X \subseteq Brought(r, n, c) /\ Goal(n, c) \subseteq Brought(r, n, c) \union X
  BY DEF Brought, Goal
<1>4. Obtains(c, n, n.calls[c], X, X)
  BY <1>2
<1> HIDE DEF X
<1> QED BY <1>1, <1>3, <1>4, PreparedBy

StepOK(r, n) == StageOK(n) /\ \A c \in Cones : Prepared(r, n, c)

\* Where the inner loop ends, the next stage is as it should be.
LEMMA Leaving ==
  ASSUME IsSetup(setup), NEW r, StageOK(r), NEW counters \in Counters, NEW stationary
  PROVE  StepOK(r, LeaveStage(r, counters, stationary))
<1> DEFINE n == LeaveStage(r, counters, stationary)
<1>0. counters.esc \in Nat /\ setup.max_curvature_escape_steps \in Nat
  BY DEF Counters, IsSetup
<1>1. CASE counters.esc = 0
  <2> DEFINE L == <<Call("all", {"detect"}, {})>>
  <2>1. n = [To(r, "detect", counters, Same(L)) EXCEPT !.detect = (stationary /\ counters.stalled)]
    BY <1>0, <1>1 DEF LeaveStage
  <2>2. Moves(r, n, "detect", L) /\ n.checked
    <3> HIDE DEF L, n
    <3> QED BY <2>1 DEF Moves, To
  <2>3. "detect" \in DOMAIN Tells /\ "detect" = Tells["detect"] /\ "all" \in DOMAIN Axes
        /\ Full("detect") = Axes["all"]
    BY AxisValues DEF Tells, Full, Axes
  <2>4. Moves(r, n, "detect", <<Call("all", {"detect"}, {})>>)
    BY <2>2
  <2> HIDE DEF n, L
  <2> QED BY <2>2, <2>3, <2>4, ToTold DEF StepOK, n
<1>2. CASE counters.esc \in 1..(setup.max_curvature_escape_steps - 1)
  <2>1. n = To(r, "winner", counters, ProbeCalls(r))
    BY <1>0, <1>2 DEF LeaveStage
  <2> HIDE DEF n
  <2>2. n.pc = "winner" /\ n.ranks = r.ranks /\ n.loop \in Counters /\ n.checked
        /\ n.calls = ProbeCalls(r)
    BY <2>1 DEF To
  <2>3. RanksOK(r)
    BY DEF StageOK
  <2>4. Aligned(n.calls)
    BY <2>2, <2>3, ProbeAligned
  <2>5. ASSUME NEW c \in Cones PROVE Obtains(c, n, n.calls[c], {"lambda"}, {"Ax"})
    <3>1. n.calls[c] = Probe(c, FirstRanks(r, c))
      BY <2>2 DEF ProbeCalls
    <3>2. IsRanks(c, FirstRanks(r, c))
      BY <2>3, RanksIn
    <3> DEFINE X == {"lambda"}
               N == {}
               K == {"Ax"}
    <3>3. Obtains(c, n, Probe(c, FirstRanks(r, c)), X, N)
      BY <3>2, ProbeObtains
    <3>4. X \subseteq X /\ N \subseteq K
      OBVIOUS
    <3> HIDE DEF X, N, K
    <3>5. Obtains(c, n, n.calls[c], X, K)
      BY <3>1, <3>3, <3>4, ObtainsMore
    <3> QED BY <3>5 DEF X, K
  <2> QED BY <2>2, <2>4, <2>5, ToWinner DEF StepOK, n
<1>3. CASE counters.esc # 0 /\ counters.esc \notin 1..(setup.max_curvature_escape_steps - 1)
  <2>1. n = To(r, "dual_step", counters, Same(DualStepCalls))
    BY <1>3 DEF LeaveStage
  <2> HIDE DEF n
  <2>2. Moves(r, n, "dual_step", DualStepCalls) /\ n.checked
    BY <2>1 DEF Moves, To
  <2> QED BY <2>2, ToDualStep DEF StepOK, n
<1> QED BY <1>1, <1>2, <1>3

\* From a stage as it should be each decision leads to one: HeadOfLoop first.
LEMMA FromHead ==
  ASSUME IsSetup(setup), NEW r, StageOK(r), NEW o \in {"moving", "stalled", "early"}
  PROVE  StepOK(r, AfterHead(r, o))
<1> DEFINE n == AfterHead(r, o)
           counters == [r.loop EXCEPT !.stalled = (o = "stalled")]
<1>1. counters \in Counters
  BY DEF StageOK, Counters
<1>2. CASE o = "early"
  <2>1. n = To(r, "lift", counters, [c \in Cones |-> DualSlack(c)])
    BY <1>2 DEF AfterHead
  <2> HIDE DEF n, counters
  <2>2. /\ n.pc = "lift" /\ n.ranks = r.ranks /\ n.loop \in Counters /\ n.checked
        /\ n.calls = [c \in Cones |-> DualSlack(c)]
    BY <1>1, <2>1 DEF To
  <2> QED BY <2>2, ToLift DEF StepOK, n
<1>3. CASE o # "early"
  <2> DEFINE L == compute_global_q0_norm \o GLOBAL_NORM
             X == {"q0_norm", "grad_norm"}
             N == {"Ax", "gradient"}
  <2>1. n = To(r, "converged", counters, Same(L))
    BY <1>3 DEF AfterHead
  <2>2. \A c \in Cones : Obtains(c, n, L, X, N)
    BY HeadObtains
  <2>3. {"grad_norm"} \subseteq X /\ N \subseteq Base
    BY DEF Base
  <2> HIDE DEF n, counters, L, X, N
  <2>4. Moves(r, n, "converged", L) /\ n.checked
    BY <1>1, <2>1 DEF Moves, To
  <2> QED BY <2>2, <2>3, <2>4, ToConverged DEF StepOK, n
<1> QED BY <1>2, <1>3

LEMMA FromConverged ==
  ASSUME IsSetup(setup), NEW r, StageOK(r), NEW o \in BOOLEAN
  PROVE  StepOK(r, AfterConverged(r, o))
<1> DEFINE n == AfterConverged(r, o)
<1>1. r.loop \in Counters
  BY DEF StageOK
<1>2. CASE o
  <2>1. n = LeaveStage(r, r.loop, TRUE)
    BY <1>2 DEF AfterConverged
  <2> HIDE DEF n
  <2> QED BY <1>1, <2>1, Leaving DEF n
<1>3. CASE ~ o
  <2> DEFINE L == LBFGS_DIRECTION \o COMPUTE_EXACT_STEP_SIZE
             X == {"dot", "q_dots", "curvature_obj", "slope"}
             N == {"gradient"}
  <2>1. n = To(r, "step", r.loop, Same(L))
    BY <1>3 DEF AfterConverged
  <2>2. \A c \in Cones : Obtains(c, n, L, X, N)
    BY StepSizes
  <2>3. N \subseteq Base /\ X = {"dot"} \union StepNumbers
    BY DEF Base, StepNumbers
  <2> HIDE DEF n, L, X, N
  <2>4. Moves(r, n, "step", L) /\ n.checked /\ n.pc = "step"
    BY <1>1, <2>1 DEF Moves, To
  <2>5. L \in Seq(Calls)
    <3>1. PICK d \in Cones : TRUE
      BY SetupDims DEF Cones
    <3> QED BY <2>2, <3>1, ObtainsList
  <2>6. StageOK(n) /\ \A c \in Cones : n.calls[c] = L
    BY <2>4, <2>5, SameStage
  <2>7. ASSUME NEW c \in Cones PROVE Prepared(r, n, c)
    <3>1. N \subseteq Brought(r, n, c) /\ Goal(n, c) \subseteq Brought(r, n, c) \union X
      BY <2>3, <2>4 DEF Brought, Goal
    <3> QED BY <2>2, <2>6, <3>1, PreparedBy
  <2> QED BY <2>6, <2>7 DEF StepOK, n
<1> QED BY <1>2, <1>3

LEMMA FromStep ==
  ASSUME IsSetup(setup), NEW r, StageOK(r), NEW o \in BOOLEAN
  PROVE  StepOK(r, AfterStep(r, o))
<1> DEFINE n == AfterStep(r, o)
           counters == IF o THEN [r.loop EXCEPT !.inner = @ + 1] ELSE r.loop
<1>1. counters \in Counters
  BY DEF StageOK, Counters
<1>2. CASE o /\ r.loop.inner + 1 < inner_iterations_limit
  <2> DEFINE L == COMPUTE_GRADIENT \o GLOBAL_NORM
             X == {"gradient", "grad_norm"}
             N == {"Ax"}
  <2>1. n = To(r, "converged", counters, Same(L))
    BY <1>2 DEF AfterStep
  <2>2. \A c \in Cones : Obtains(c, n, L, X, N)
    BY HeadObtains
  <2>3. {"grad_norm"} \subseteq X /\ N \subseteq Base
    BY DEF Base
  <2> HIDE DEF n, counters, L, X, N
  <2>4. Moves(r, n, "converged", L) /\ n.checked
    BY <1>1, <2>1 DEF Moves, To
  <2> QED BY <2>2, <2>3, <2>4, ToConverged DEF StepOK, n
<1>3. CASE ~ (o /\ r.loop.inner + 1 < inner_iterations_limit)
  <2>1. n = LeaveStage(r, counters, ~o)
    BY <1>3 DEF AfterStep
  <2> HIDE DEF n, counters
  <2> QED BY <1>1, <2>1, Leaving DEF n
<1> QED BY <1>2, <1>3

LEMMA FromDetect ==
  ASSUME IsSetup(setup), NEW r, StageOK(r), NEW o \in BOOLEAN
  PROVE  StepOK(r, AfterDetect(r, o))
<1> DEFINE n == AfterDetect(r, o)
           counters == [r.loop EXCEPT !.stalled = @ /\ ~o]
<1>1. counters \in Counters
  BY DEF StageOK, Counters
<1>2. CASE o
  <2>1. n = To(r, "winner", counters,
               [c \in Cones |-> COMPUTE_GRADIENT \o Probe(c, FirstRanks(r, c))])
    BY <1>2 DEF AfterDetect
  <2> HIDE DEF n, counters
  <2>2. n.pc = "winner" /\ n.ranks = r.ranks /\ n.loop \in Counters /\ n.checked
        /\ \A c \in Cones : n.calls[c] = COMPUTE_GRADIENT \o Probe(c, FirstRanks(r, c))
    BY <1>1, <2>1 DEF To
  <2>3. RanksOK(r)
    BY DEF StageOK
  <2>4. \A c \in Cones : Obtains(c, n, COMPUTE_GRADIENT, {"gradient"}, {"Ax"})
    BY Singles
  <2>5. Aligned(n.calls)
    <3>1. COMPUTE_GRADIENT \in Seq(Calls)
      <4>1. "gradient" \in Quantities /\ "row" \in DOMAIN Axes
        BY DEF Quantities, Axes
      <4> QED BY <4>1, ReduceIn DEF COMPUTE_GRADIENT
    <3>2. Aligned(Same(COMPUTE_GRADIENT))
      BY <3>1, AlignedAll
    <3>3. Aligned(ProbeCalls(r))
      BY <2>3, ProbeAligned
    <3>4. \A c \in Cones : n.calls[c] = Same(COMPUTE_GRADIENT)[c] \o ProbeCalls(r)[c]
      BY <2>2 DEF Same, ProbeCalls
    <3> QED BY <3>2, <3>3, <3>4, AlignedThen
  <2>6. ASSUME NEW c \in Cones PROVE Obtains(c, n, n.calls[c], {"lambda"}, {"Ax"})
    <3>1. IsRanks(c, FirstRanks(r, c))
      BY <2>3, RanksIn
    <3> DEFINE X == {"lambda"}
               N == {}
               K == {"Ax"}
               Y == {"gradient"}
               A == Probe(c, FirstRanks(r, c))
    <3>2. Obtains(c, n, A, X, N)
      BY <3>1, ProbeObtains
    <3>3. N \subseteq Y \union K /\ X \subseteq Y \union X
      OBVIOUS
    <3>4. Obtains(c, n, COMPUTE_GRADIENT, Y, K)
      BY <2>4
    <3>5. n.calls[c] = COMPUTE_GRADIENT \o A
      BY <2>2
    <3> HIDE DEF X, N, K, Y, A
    <3>6. Obtains(c, n, COMPUTE_GRADIENT \o A, X, K)
      BY <3>2, <3>3, <3>4, ObtainsThen
    <3> QED BY <3>5, <3>6 DEF X, K
  <2> QED BY <2>2, <2>5, <2>6, ToWinner DEF StepOK, n
<1>3. CASE ~ o
  <2>1. n = To(r, "dual_step", counters, Same(DualStepCalls))
    BY <1>3 DEF AfterDetect
  <2> HIDE DEF n, counters
  <2>2. Moves(r, n, "dual_step", DualStepCalls) /\ n.checked
    BY <1>1, <2>1 DEF Moves, To
  <2> QED BY <2>2, ToDualStep DEF StepOK, n
<1> QED BY <1>2, <1>3

LEMMA Counting ==
  ASSUME IsSetup(setup), NEW r, StageOK(r), NEW n, Moves(r, n, "count", EscapeCount), n.checked
  PROVE  StepOK(r, n)
<1>1. "count" \in DOMAIN Tells /\ "escapes" = Tells["count"] /\ "all" \in DOMAIN Axes
      /\ Full("escapes") = Axes["all"] /\ "count" # "weigh"
  BY AxisValues DEF Tells, Full, Axes
<1>2. Moves(r, n, "count", <<Call("all", {"escapes"}, {})>>)
  BY DEF EscapeCount
<1> QED BY <1>1, <1>2, ToTold DEF StepOK

LEMMA FromWinner ==
  ASSUME IsSetup(setup), NEW r, StageOK(r), NEW o, o # null => IsCurvature(o)
  PROVE  StepOK(r, AfterWinner(r, o))
<1> DEFINE n == AfterWinner(r, o)
<1>1. r.loop \in Counters
  BY DEF StageOK
<1>2. CASE o = null
  <2>1. n = [To(r, "count", r.loop, Same(EscapeCount)) EXCEPT !.escaped = FALSE]
    BY <1>2 DEF AfterWinner
  <2> HIDE DEF n
  <2>2. Moves(r, n, "count", EscapeCount) /\ n.checked
    BY <1>1, <2>1 DEF Moves, To
  <2> QED BY <2>2, Counting DEF n
<1>3. CASE o # null
  <2> DEFINE L == <<Call("all", {"winner"}, {})>>
  <2>1. n = [To(r, "rebuild", r.loop, Same(L)) EXCEPT !.winner = o]
    BY <1>3 DEF AfterWinner
  <2>2. Moves(r, n, "rebuild", L) /\ n.checked /\ IsCurvature(n.winner)
    <3> HIDE DEF n, L
    <3>1. n.winner = o
      BY <2>1 DEF To
    <3> QED BY <1>1, <1>3, <2>1, <3>1 DEF Moves, To
  <2>3. "rebuild" \in DOMAIN Tells /\ "winner" = Tells["rebuild"] /\ "all" \in DOMAIN Axes
        /\ Full("winner") = Axes["all"]
    BY AxisValues DEF Tells, Full, Axes
  <2>4. Moves(r, n, "rebuild", <<Call("all", {"winner"}, {})>>)
    BY <2>2
  <2> HIDE DEF n, L
  <2> QED BY <2>2, <2>3, <2>4, ToTold DEF StepOK, n
<1> QED BY <1>2, <1>3

LEMMA FromRebuild ==
  ASSUME IsSetup(setup), NEW r, StageOK(r), IsCurvature(r.winner), NEW o
  PROVE  StepOK(r, AfterRebuild(r, o))
<1> DEFINE n == AfterRebuild(r, o)
           f == [c \in Cones |->
                   IF c = r.winner[1]
                   THEN FIND_AL_NEGATIVE_CURVATURE(c, FirstRanks(r, c), r.winner[2]) ELSE <<>>]
<1>1. n = To(r, "escape", r.loop, [c \in Cones |-> f[c] \o RebuiltEverywhere])
  BY DEF AfterRebuild
<1>2. RanksOK(r) /\ r.loop \in Counters
  BY DEF StageOK
<1>3. ASSUME NEW c \in Cones
      PROVE  f[c] \in Local /\ (c = r.winner[1] => Obtains(c, n, f[c], {"Hq", "HV", "ritz"}, {}))
             /\ (c # r.winner[1] => f[c] = <<>>)
  <2>1. CASE c = r.winner[1]
    <3>1. r.winner[2] \in Blocks(c) /\ IsRanks(c, FirstRanks(r, c))
      BY <1>2, <2>1, RanksIn DEF IsCurvature
    <3>2. f[c] = FIND_AL_NEGATIVE_CURVATURE(c, FirstRanks(r, c), r.winner[2])
      BY <2>1
    <3> HIDE DEF f, n
    <3> QED BY <2>1, <3>1, <3>2, NegativeCurvature
  <2>2. CASE c # r.winner[1]
    BY <2>2, LocalNone
  <2> QED BY <2>1, <2>2
<1> HIDE DEF n, f
<1>4. /\ n.pc = "escape" /\ n.ranks = r.ranks /\ n.loop = r.loop /\ n.checked /\ n.winner = r.winner
      /\ \A c \in Cones : n.calls[c] = f[c] \o RebuiltEverywhere
  BY <1>1 DEF To
<1>5. "ready" \in Quantities /\ "ready" \in Computed /\ "all" \in DOMAIN Axes
      /\ Full("ready") = Axes["all"] /\ Sensible("ready", n)
  BY <1>4, AxisValues DEF Quantities, Computed, Announced, Axes, Full, Sensible, IsCurvature
<1>6. RebuiltEverywhere \in Seq(Calls)
  BY <1>5, ReduceIn DEF RebuiltEverywhere
<1>7. Aligned(n.calls)
  BY <1>3, <1>4, <1>6, AlignedTail
<1>8. StageOK(n)
  BY <1>2, <1>4, <1>7, RanksKept DEF StageOK
<1>9. ASSUME NEW c \in Cones PROVE Prepared(r, n, c)
  <2>1. CASE c = r.winner[1]
    <3> DEFINE X == {"Hq", "HV", "ritz"}
               N == {}
               Y == {"ready"}
               K == {"winner", "ritz"}
               J == {"winner"}
               Z == {"ready", "HV"}
    <3>1. Needs("ready", c, n) \subseteq K
      BY DEF Needs
    <3>2. /\ K \subseteq X \union J /\ Z \subseteq X \union Y /\ X \subseteq X /\ N \subseteq J
      OBVIOUS
    <3>3. J \subseteq Brought(r, n, c) /\ Goal(n, c) \subseteq Brought(r, n, c) \union Z
      BY <1>4 DEF Brought, Goal
    <3>4. Obtains(c, n, f[c], X, N)
      BY <1>3, <2>1
    <3>5. Obtains(c, n, RebuiltEverywhere, Y, K)
      <4> HIDE DEF K
      <4> QED BY <1>5, <3>1, OneAxis DEF RebuiltEverywhere
    <3> HIDE DEF X, N, Y, K, J, Z
    <3>6. Obtains(c, n, f[c], X, J)
      BY <3>2, <3>4, ObtainsMore
    <3>7. Obtains(c, n, f[c] \o RebuiltEverywhere, Z, J)
      BY <3>2, <3>5, <3>6, ObtainsThen
    <3>8. Obtains(c, n, n.calls[c], Z, J)
      BY <1>4, <3>7
    <3> QED BY <3>3, <3>8, PreparedBy
  <2>2. CASE c # r.winner[1]
    <3> DEFINE N == {}
               Y == {"ready"}
               J == {"winner"}
    <3>1. Needs("ready", c, n) \subseteq J
      BY <1>4, <2>2 DEF Needs
    <3>2. J \subseteq N \union J /\ Y \subseteq N \union Y /\ N \subseteq J /\ N \subseteq N
      OBVIOUS
    <3>3. J \subseteq Brought(r, n, c) /\ Goal(n, c) \subseteq Brought(r, n, c) \union Y
      BY <1>4, <2>2 DEF Brought, Goal
    <3>4. Obtains(c, n, <<>>, N, N)
      BY ObtainsNone
    <3>5. Obtains(c, n, RebuiltEverywhere, Y, J)
      <4> HIDE DEF J
      <4> QED BY <1>5, <3>1, OneAxis DEF RebuiltEverywhere
    <3> HIDE DEF N, Y, J
    <3>6. Obtains(c, n, <<>>, N, J)
      BY <3>2, <3>4, ObtainsMore
    <3>7. Obtains(c, n, <<>> \o RebuiltEverywhere, Y, J)
      BY <3>2, <3>5, <3>6, ObtainsThen
    <3>8. n.calls[c] = <<>> \o RebuiltEverywhere
      BY <1>3, <1>4, <2>2
    <3> QED BY <3>3, <3>7, <3>8, PreparedBy
  <2> QED BY <2>1, <2>2
<1> QED BY <1>8, <1>9 DEF StepOK, n

LEMMA FromEscape ==
  ASSUME IsSetup(setup), NEW r, StageOK(r), IsCurvature(r.winner), NEW o \in BOOLEAN
  PROVE  StepOK(r, AfterEscape(r, o))
<1> DEFINE n == AfterEscape(r, o)
<1>1. RanksOK(r) /\ r.loop \in Counters
  BY DEF StageOK
<1>2. CASE ~ o
  <2>1. n = [To(r, "count", r.loop, Same(EscapeCount)) EXCEPT !.escaped = FALSE]
    BY <1>2 DEF AfterEscape
  <2> HIDE DEF n
  <2>2. Moves(r, n, "count", EscapeCount) /\ n.checked
    BY <1>1, <2>1 DEF Moves, To
  <2> QED BY <2>2, Counting DEF n
<1>3. CASE o
  <2> DEFINE f == [c \in Cones |-> IF c = r.winner[1] THEN Reduce("sign", <<"rank">>) ELSE <<>>]
  <2>1. n = To(r, "escaped", r.loop, [c \in Cones |-> f[c] \o COMPUTE_EXACT_STEP_SIZE])
    BY <1>3 DEF AfterEscape
  <2>2. /\ "sign" \in Quantities /\ "sign" \in Computed /\ "rank" \in DOMAIN Axes
        /\ Full("sign") = Axes["rank"] /\ Sensible("sign", n)
    BY AxisValues DEF Quantities, Computed, Announced, Axes, Full, Sensible
  <2>3. ASSUME NEW c \in Cones
        PROVE  f[c] \in Local /\ Obtains(c, n, f[c], {}, IF c = r.winner[1] THEN {"HV"} ELSE {})
    <3>1. CASE c = r.winner[1]
      <4> DEFINE X == {"sign"}
                 K == {"HV"}
                 N == {}
      <4>1. Needs("sign", c, n) \subseteq K
        BY DEF Needs
      <4>2. N \subseteq X /\ K \subseteq K
        OBVIOUS
      <4>3. f[c] = Reduce("sign", <<"rank">>)
        BY <3>1
      <4> HIDE DEF K, N, n, f
      <4>4. Obtains(c, n, Reduce("sign", <<"rank">>), X, K)
        BY <2>2, <4>1, OneAxis
      <4> HIDE DEF X
      <4>5. Obtains(c, n, f[c], N, K)
        BY <4>2, <4>3, <4>4, ObtainsMore
      <4>6. f[c] \in Local
        BY <2>2, <4>3, LocalReduce
      <4> QED BY <3>1, <4>5, <4>6 DEF N, K
    <3>2. CASE c # r.winner[1]
      BY <3>2, LocalNone, ObtainsNone
    <3> QED BY <3>1, <3>2
  <2> HIDE DEF n, f
  <2>4. /\ n.pc = "escaped" /\ n.ranks = r.ranks /\ n.loop = r.loop /\ n.checked
        /\ n.winner = r.winner
        /\ \A c \in Cones : n.calls[c] = f[c] \o COMPUTE_EXACT_STEP_SIZE
    BY <2>1 DEF To
  <2>5. \A c \in Cones : Obtains(c, n, COMPUTE_EXACT_STEP_SIZE,
                                 {"q", "q_dots", "curvature_obj", "slope"}, {"gradient"})
    BY StepSizes
  <2>6. COMPUTE_EXACT_STEP_SIZE \in Seq(Calls)
    <3>1. PICK d \in Cones : TRUE
      BY SetupDims DEF Cones
    <3> QED BY <2>5, <3>1, ObtainsList
  <2>7. Aligned(n.calls)
    BY <2>3, <2>4, <2>6, AlignedTail
  <2>8. StageOK(n)
    BY <1>1, <2>4, <2>7, RanksKept DEF StageOK
  <2>9. ASSUME NEW c \in Cones PROVE Prepared(r, n, c)
    <3> DEFINE X == {"q", "q_dots", "curvature_obj", "slope"}
               N == {}
               K == {"gradient"}
               J == IF c = r.winner[1] THEN {"HV"} ELSE {}
               I == J \union {"gradient"}
    <3>1. J \subseteq I /\ K \subseteq N \union I /\ X \subseteq N \union X /\ N \subseteq N
      OBVIOUS
    <3>2. I \subseteq Brought(r, n, c)
      BY <2>4 DEF Brought, Base
    <3>3. Goal(n, c) \subseteq Brought(r, n, c) \union X
      BY <2>4 DEF Brought, Goal, StepNumbers
    <3>4. Obtains(c, n, f[c], N, J) /\ Obtains(c, n, COMPUTE_EXACT_STEP_SIZE, X, K)
      BY <2>3, <2>5
    <3> HIDE DEF X, N, K, J, I
    <3>5. Obtains(c, n, f[c], N, I)
      BY <3>1, <3>4, ObtainsMore
    <3>6. Obtains(c, n, f[c] \o COMPUTE_EXACT_STEP_SIZE, X, I)
      BY <3>1, <3>4, <3>5, ObtainsThen
    <3>7. Obtains(c, n, n.calls[c], X, I)
      BY <2>4, <3>6
    <3> QED BY <3>2, <3>3, <3>7, PreparedBy
  <2> QED BY <2>8, <2>9 DEF StepOK, n
<1> QED BY <1>2, <1>3

LEMMA FromEscaped ==
  ASSUME IsSetup(setup), NEW r, StageOK(r), NEW o \in BOOLEAN
  PROVE  StepOK(r, AfterEscaped(r, o))
<1> DEFINE n == AfterEscaped(r, o)
<1>1. n = [To(r, "count", r.loop, Same(EscapeCount)) EXCEPT !.escaped = o] /\ r.loop \in Counters
  BY DEF AfterEscaped, StageOK
<1> HIDE DEF n
<1>2. Moves(r, n, "count", EscapeCount) /\ n.checked
  BY <1>1 DEF Moves, To
<1> QED BY <1>2, Counting DEF n

LEMMA FromCount ==
  ASSUME IsSetup(setup), NEW r, StageOK(r), NEW o \in BOOLEAN
  PROVE  StepOK(r, AfterCount(r, o))
<1> DEFINE n == AfterCount(r, o)
           counters == [r.loop EXCEPT !.esc = IF o THEN @ + 1 ELSE @, !.inner = 0]
<1>1. counters \in Counters
  <2>1. r.loop \in Counters
    BY DEF StageOK
  <2>2. (IF o THEN r.loop.esc + 1 ELSE r.loop.esc) \in Nat
    BY <2>1 DEF Counters
  <2> DEFINE more == IF o THEN r.loop.esc + 1 ELSE r.loop.esc
             two == [r.loop EXCEPT !.esc = more]
  <2>3. counters = [two EXCEPT !.inner = 0]
    BY <2>1 DEF Counters
  <2> HIDE DEF counters, more
  <2>4. two \in Counters
    BY <2>1, <2>2 DEF Counters, more
  <2> HIDE DEF two
  <2> QED BY <2>3, <2>4 DEF Counters
<1>2. CASE o
  <2> DEFINE L == COMPUTE_PRIMAL_RESIDUAL \o COMPUTE_GRADIENT \o GLOBAL_NORM
             X == {"Ax", "gradient", "grad_norm"}
             N == {}
  <2>1. n = To(r, "converged", counters, Same(L))
    BY <1>2 DEF AfterCount
  <2>2. \A c \in Cones : Obtains(c, n, L, X, N)
    BY HeadObtains
  <2>3. {"grad_norm"} \subseteq X /\ N \subseteq Base
    OBVIOUS
  <2> HIDE DEF n, counters, L, X, N
  <2>4. Moves(r, n, "converged", L) /\ n.checked
    BY <1>1, <2>1 DEF Moves, To
  <2> QED BY <2>2, <2>3, <2>4, ToConverged DEF StepOK, n
<1>3. CASE ~ o
  <2>1. n = To(r, "dual_step", counters, Same(DualStepCalls))
    BY <1>3 DEF AfterCount
  <2> HIDE DEF n, counters
  <2>2. Moves(r, n, "dual_step", DualStepCalls) /\ n.checked
    BY <1>1, <2>1 DEF Moves, To
  <2> QED BY <2>2, ToDualStep DEF StepOK, n
<1> QED BY <1>2, <1>3

LEMMA FromDualStep ==
  ASSUME IsSetup(setup), NEW r, StageOK(r), NEW o \in BOOLEAN
  PROVE  StepOK(r, AfterDualStep(r, o))
<1> DEFINE n == AfterDualStep(r, o)
           counters == [r.loop EXCEPT !.middle = @ + 1, !.inner = 0, !.esc = 0]
           again == ~ (o \/ r.loop.middle + 1 = setup.max_middle_iters)
<1>1. counters \in Counters
  <2>1. r.loop \in Counters
    BY DEF StageOK
  <2> DEFINE more == r.loop.middle + 1
             two == [r.loop EXCEPT !.middle = more]
             three == [two EXCEPT !.inner = 0]
  <2>2. more \in Nat
    BY <2>1 DEF Counters
  <2>3. counters = [three EXCEPT !.esc = 0]
    BY <2>1 DEF Counters
  <2> HIDE DEF counters, more
  <2>4. two \in Counters
    BY <2>1, <2>2 DEF Counters
  <2> HIDE DEF two
  <2>5. three \in Counters
    BY <2>4 DEF Counters
  <2> HIDE DEF three
  <2> QED BY <2>3, <2>5 DEF Counters
<1>2. CASE again
  <2> DEFINE X == {"grad_norm"}
             N == {"gradient"}
  <2>1. n = To(r, "converged", counters, Same(GLOBAL_NORM))
    BY <1>2 DEF AfterDualStep
  <2>2. \A c \in Cones : Obtains(c, n, GLOBAL_NORM, X, N)
    BY Singles
  <2>3. {"grad_norm"} \subseteq X /\ N \subseteq Base
    BY DEF Base
  <2> HIDE DEF n, counters, X, N
  <2>4. Moves(r, n, "converged", GLOBAL_NORM) /\ n.checked
    BY <1>1, <2>1 DEF Moves, To
  <2> QED BY <2>2, <2>3, <2>4, ToConverged DEF StepOK, n
<1>3. CASE ~ again
  <2> DEFINE X == {"p_obj", "d_obj", "q0_norm"}
             N == {"Ax"}
  <2>1. n = To(r, "gate", counters, Same(GateCalls))
    BY <1>3 DEF AfterDualStep
  <2>2. \A c \in Cones : Obtains(c, n, GateCalls, X, N)
    BY HeadObtains
  <2>3. N \subseteq Base
    BY DEF Base
  <2> HIDE DEF n, counters, X, N
  <2>4. Moves(r, n, "gate", GateCalls) /\ n.checked /\ n.pc = "gate"
    BY <1>1, <2>1 DEF Moves, To
  <2>5. GateCalls \in Seq(Calls)
    <3>1. PICK d \in Cones : TRUE
      BY SetupDims DEF Cones
    <3> QED BY <2>2, <3>1, ObtainsList
  <2>6. StageOK(n) /\ \A c \in Cones : n.calls[c] = GateCalls
    BY <2>4, <2>5, SameStage
  <2>7. ASSUME NEW c \in Cones PROVE Prepared(r, n, c)
    <3>1. N \subseteq Brought(r, n, c) /\ Goal(n, c) \subseteq Brought(r, n, c) \union X
      BY <2>3, <2>4 DEF Brought, Goal
    <3> QED BY <2>2, <2>6, <3>1, PreparedBy
  <2> QED BY <2>6, <2>7 DEF StepOK, n
<1> HIDE DEF n, counters, again
<1> QED BY <1>2, <1>3 DEF n

LEMMA FromGate ==
  ASSUME IsSetup(setup), NEW r, StageOK(r), r.pc = "gate", NEW o \in {"augment", "check", "go_on"}
  PROVE  StepOK(r, AfterGate(r, o))
<1> DEFINE n == AfterGate(r, o)
<1>0. r.loop \in Counters
  BY DEF StageOK
<1>1. CASE o = "augment"
  <2>1. n = To(r, "lift", r.loop, [c \in Cones |-> DualSlack(c)])
    BY <1>1 DEF AfterGate
  <2> HIDE DEF n
  <2>2. /\ n.pc = "lift" /\ n.ranks = r.ranks /\ n.loop \in Counters /\ n.checked
        /\ n.calls = [c \in Cones |-> DualSlack(c)]
    BY <1>0, <2>1 DEF To
  <2> QED BY <2>2, ToLift DEF StepOK, n
<1>2. CASE o = "check"
  <2>1. n = Unlifted(r, [c \in Cones |-> CHECK_DUAL_INFEASIBILITY(c)])
    BY <1>2 DEF AfterGate
  <2> HIDE DEF n
  <2>2. /\ n.pc = "terminate" /\ n.ranks = r.ranks /\ n.loop \in Counters /\ n.checked
        /\ n.calls = [c \in Cones |-> CHECK_DUAL_INFEASIBILITY(c)]
    BY <1>0, <2>1 DEF Unlifted, To
  <2>3. StageOK(n)
    BY <2>2, RanksKept, DualAligned DEF StageOK
  <2>4. ASSUME NEW c \in Cones PROVE Prepared(r, n, c)
    <3> DEFINE X == {"min_slack", "free"}
               N == {}
    <3>1. N \subseteq Brought(r, n, c) /\ Goal(n, c) \subseteq Brought(r, n, c) \union X
      BY <2>2 DEF Brought, Goal, Residuals
    <3>2. Obtains(c, n, CHECK_DUAL_INFEASIBILITY(c), X, N)
      BY <2>2, DualObtains
    <3>3. n.calls[c] = CHECK_DUAL_INFEASIBILITY(c)
      BY <2>2
    <3> HIDE DEF X, N
    <3> QED BY <3>1, <3>2, <3>3, PreparedBy
  <2> QED BY <2>3, <2>4 DEF StepOK, n
<1>3. CASE o = "go_on"
  <2>1. n = [Unlifted(r, Same(<<>>)) EXCEPT !.checked = FALSE]
    BY <1>3 DEF AfterGate
  <2> HIDE DEF n
  <2>2. n.pc = "terminate" /\ n.ranks = r.ranks /\ n.loop \in Counters /\ ~ n.checked
        /\ n.calls = Same(<<>>)
    BY <1>0, <2>1 DEF Unlifted, To
  <2>3. <<>> \in Seq(Calls)
    OBVIOUS
  <2>4. Aligned(n.calls)
    BY <2>2, <2>3, AlignedAll
  <2>5. StageOK(n)
    BY <2>2, <2>4, RanksKept DEF StageOK
  <2> QED BY <2>2, <2>5, ToNothing DEF StepOK, n
<1> QED BY <1>1, <1>2, <1>3

\* The ranks of a block grow by the same on all its shares.
LEMMA GrownAlike ==
  ASSUME IsSetup(setup), NEW c \in Cones, NEW ranks, NEW first, IsRanks(c, ranks), IsRanks(c, first),
         SearchedAlike(c, ranks, first), NEW incs, \A b \in Blocks(c) : incs[b] \in Nat
  PROVE  /\ IsRanks(c, Grown(c, ranks, incs))
         /\ SearchedAlike(c, Grown(c, ranks, incs), Grown(c, first, incs))
<1> DEFINE new == Grown(c, ranks, incs)
           fnew == Grown(c, first, incs)
<1>1. setup.max_rank \in Nat \ {0} /\ NEGATIVE_CURVATURE_LANCZOS_K \in Nat
  BY CountsAssumption DEF IsSetup
<1>2. \A b \in Blocks(c) : BlockDims(c)[b] \in Nat \ {0}
  BY BlocksOf
<1>3. ASSUME NEW g, IsRanks(c, g)
      PROVE  /\ IsRanks(c, Grown(c, g, incs))
             /\ \A b \in Blocks(c) : Grown(c, g, incs)[b] >= g[b]
  <2>1. ASSUME NEW b \in Blocks(c)
        PROVE  LET x == Grown(c, g, incs)[b]
               IN  x \in Nat \ {0} /\ x <= BlockDims(c)[b] /\ x <= setup.max_rank /\ x >= g[b]
    <3> DEFINE d == BlockDims(c)[b]
               k == g[b]
               i == incs[b]
    <3>1. Grown(c, g, incs)[b] = Min({k + i, d, setup.max_rank})
      BY DEF Grown
    <3>2. k \in Nat \ {0} /\ k <= d /\ k <= setup.max_rank /\ i \in Nat /\ d \in Nat
      BY <1>2, <1>3 DEF IsRanks
    <3> HIDE DEF d, k, i
    <3>3. k + i \in Nat /\ k + i >= k
      BY <3>2
    <3> DEFINE m == Min({k + i, d, setup.max_rank})
    <3>4. m \in {k + i, d, setup.max_rank} /\ m <= d /\ m <= setup.max_rank
      BY <1>1, <3>2, <3>3, LeastOfThree
    <3> HIDE DEF m
    <3>5. m \in Nat \ {0} /\ m <= d /\ m <= setup.max_rank /\ m >= k
      BY <1>1, <3>2, <3>3, <3>4
    <3> QED BY <3>1, <3>5 DEF m, d, k
  <2>2. Grown(c, g, incs) = [b \in Blocks(c) |-> Grown(c, g, incs)[b]]
    BY DEF Grown
  <2> QED BY <2>1, <2>2 DEF IsRanks
<1>4. ASSUME NEW b \in Blocks(c)
      PROVE  \/ new[b] = fnew[b]
             \/ /\ BlockDims(c)[b] * new[b] >= NEGATIVE_CURVATURE_LANCZOS_K
                /\ BlockDims(c)[b] * fnew[b] >= NEGATIVE_CURVATURE_LANCZOS_K
  <2>1. CASE ranks[b] = first[b]
    BY <2>1 DEF Grown
  <2>2. CASE /\ BlockDims(c)[b] * ranks[b] >= NEGATIVE_CURVATURE_LANCZOS_K
             /\ BlockDims(c)[b] * first[b] >= NEGATIVE_CURVATURE_LANCZOS_K
    <3> DEFINE d == BlockDims(c)[b]
               K == NEGATIVE_CURVATURE_LANCZOS_K
    <3>1. /\ new[b] \in Nat /\ ranks[b] \in Nat /\ new[b] >= ranks[b]
          /\ fnew[b] \in Nat /\ first[b] \in Nat /\ fnew[b] >= first[b] /\ d \in Nat
      BY <1>2, <1>3 DEF IsRanks
    <3>2. \A x, y \in Nat : x >= y => d * x >= d * y
      <4> HIDE DEF d
      <4> TAKE x \in Nat, y \in Nat
      <4> HAVE x >= y
      <4>1. d \in Nat /\ x - y \in Nat
        BY <3>1
      <4>2. d * (x - y) \in Nat
        BY <4>1
      <4>3. d * x = d * y + d * (x - y)
        BY <4>1
      <4> QED BY <4>1, <4>2, <4>3
    <3>3. d * new[b] >= d * ranks[b] /\ d * fnew[b] >= d * first[b]
      <4> HIDE DEF d, new, fnew
      <4> QED BY <3>1, <3>2
    <3>4. d * ranks[b] >= K /\ d * first[b] >= K
      BY <2>2
    <3>5. d * ranks[b] \in Int /\ d * first[b] \in Int /\ d * new[b] \in Int /\ d * fnew[b] \in Int
          /\ K \in Int
      <4> HIDE DEF d, new, fnew
      <4> QED BY <1>1, <3>1
    <3>6. d * new[b] >= K /\ d * fnew[b] >= K
      <4> DEFINE A == d * new[b]
                 B == d * fnew[b]
                 C == d * ranks[b]
                 D == d * first[b]
      <4>1. A \in Int /\ B \in Int /\ C \in Int /\ D \in Int /\ K \in Int
            /\ A >= C /\ B >= D /\ C >= K /\ D >= K
        BY <3>3, <3>4, <3>5
      <4> HIDE DEF A, B, C, D, K
      <4>2. A >= K /\ B >= K
        BY <4>1
      <4> QED BY <4>2 DEF A, B, K
    <3> QED BY <3>6
  <2> QED BY <2>1, <2>2 DEF SearchedAlike
<1> QED BY <1>3, <1>4 DEF SearchedAlike

\* The shares of a cone all gain the same columns, or none.
Gained(r, n, incs, none) ==
  /\ \A c \in Cones : \A b \in Blocks(c) : incs[c][b] \in Nat
  /\ \A s \in All(2), c \in Cones :
       n.ranks[<<s, c>>] = IF c \in none THEN r.ranks[<<s, c>>]
                           ELSE Grown(c, r.ranks[<<s, c>>], incs[c])

LEMMA RanksGrown ==
  ASSUME IsSetup(setup), NEW r, RanksOK(r), NEW incs, NEW none, NEW n, Gained(r, n, incs, none)
  PROVE  RanksOK(n)
<1> SUFFICES ASSUME NEW s \in All(2), NEW c \in Cones
             PROVE  /\ IsRanks(c, n.ranks[<<s, c>>])
                    /\ SearchedAlike(c, n.ranks[<<s, c>>], n.ranks[<<0, c>>])
  BY DEF RanksOK, FirstRanks
<1>1. 0 \in All(2)
  BY SetupDims DEF All
<1>2. /\ IsRanks(c, r.ranks[<<s, c>>]) /\ IsRanks(c, r.ranks[<<0, c>>])
      /\ SearchedAlike(c, r.ranks[<<s, c>>], r.ranks[<<0, c>>])
  BY <1>1 DEF RanksOK, FirstRanks
<1>3. CASE c \in none
  BY <1>1, <1>2, <1>3 DEF Gained
<1>4. CASE c \notin none
  <2> DEFINE i == incs[c]
  <2>1. \A b \in Blocks(c) : i[b] \in Nat
    BY DEF Gained
  <2>2. n.ranks[<<s, c>>] = Grown(c, r.ranks[<<s, c>>], i)
        /\ n.ranks[<<0, c>>] = Grown(c, r.ranks[<<0, c>>], i)
    BY <1>1, <1>4 DEF Gained
  <2> HIDE DEF i
  <2> QED BY <1>2, <2>1, <2>2, GrownAlike
<1> QED BY <1>3, <1>4

LEMMA FromLift ==
  ASSUME IsSetup(setup), NEW r, StageOK(r), r.pc = "lift", NEW o \in setup.directions
  PROVE  StepOK(r, AfterLift(r, o))
<1> DEFINE n == AfterLift(r, o)
<1>1. RanksOK(r) /\ r.loop \in Counters
  BY DEF StageOK
<1>2. ASSUME NEW c \in Cones
      PROVE  IsFound(o[c + 1], c)
  <2>1. c + 1 \in 1..setup.dims[3] /\ setup.dims[3] \in Nat
    BY SetupDims DEF Cones
  <2>2. o \in [1..setup.dims[3] -> Seq(Seq(Int))]
        /\ \A d \in 1..setup.dims[3] : Len(o[d]) = Len(setup.block_dims[d])
    BY DEF IsSetup
  <2>3. o[c + 1] \in Seq(Seq(Int)) /\ Len(o[c + 1]) = Len(setup.block_dims[c + 1])
    BY <2>1, <2>2
  <2>4. DOMAIN o[c + 1] = 1..Len(BlockDims(c)) /\ Blocks(c) = 1..Len(BlockDims(c))
    BY <2>3 DEF BlockDims, Blocks
  <2>5. \A b \in DOMAIN o[c + 1] : o[c + 1][b] \in Seq(Int)
    <3> DEFINE s == o[c + 1]
    <3>1. s \in Seq(Seq(Int))
      BY <2>3
    <3> HIDE DEF s
    <3>2. \A b \in DOMAIN s : s[b] \in Seq(Int)
      BY <3>1
    <3> QED BY <3>2 DEF s
  <2> QED BY <2>4, <2>5 DEF IsFound
<1>3. <<>> \in Seq(Calls)
  OBVIOUS
<1>4. CASE setup.mode = "random"
  <2> DEFINE base == Unlifted(r, Same(<<>>))
             incs == [c \in Cones |-> [b \in DOMAIN o[c + 1] |-> Len(o[c + 1][b])]]
             none == {c \in Cones : NoneFound(o, c)}
  <2>1. n = [base EXCEPT !.ranks = RanksAfterLift(r, o)]
    BY <1>4 DEF AfterLift
  <2> HIDE DEF n
  <2>2. n.pc = "terminate" /\ n.loop \in Counters /\ n.checked /\ n.calls = Same(<<>>)
        /\ n.ranks = RanksAfterLift(r, o)
    BY <1>1, <2>1 DEF Unlifted, To
  <2>3. \A c \in Cones : \A b \in Blocks(c) : incs[c][b] \in Nat
    <3> TAKE c \in Cones
    <3> TAKE b \in Blocks(c)
    <3>1. b \in DOMAIN o[c + 1] /\ o[c + 1][b] \in Seq(Int)
      BY <1>2 DEF IsFound
    <3>2. incs[c][b] = Len(o[c + 1][b])
      BY <3>1
    <3> QED BY <3>1, <3>2, LenProperties
  <2>4. ASSUME NEW s \in All(2), NEW c \in Cones
        PROVE  n.ranks[<<s, c>>] = IF c \in none THEN r.ranks[<<s, c>>]
                                   ELSE Grown(c, r.ranks[<<s, c>>], incs[c])
    <3>1. n.ranks[<<s, c>>] = IF NoneFound(o, c) THEN r.ranks[<<s, c>>]
            ELSE Grown(c, r.ranks[<<s, c>>], [b \in DOMAIN o[c + 1] |-> Len(o[c + 1][b])])
      BY <2>2 DEF RanksAfterLift
    <3>2. incs[c] = [b \in DOMAIN o[c + 1] |-> Len(o[c + 1][b])]
      OBVIOUS
    <3>3. c \in none <=> NoneFound(o, c)
      OBVIOUS
    <3> HIDE DEF incs, none
    <3> QED BY <3>1, <3>2, <3>3
  <2> HIDE DEF incs, none
  <2>5. RanksOK(n)
    <3>1. Gained(r, n, incs, none)
      BY <2>3, <2>4 DEF Gained
    <3> QED BY <1>1, <3>1, RanksGrown
  <2>6. Aligned(n.calls)
    BY <1>3, <2>2, AlignedAll
  <2>7. StageOK(n)
    BY <2>2, <2>5, <2>6 DEF StageOK
  <2> QED BY <2>2, <2>7, ToNothing DEF StepOK, n
<1>5. CASE setup.mode # "random" /\ NoneFound(o, 0)
  <2>1. n = Unlifted(r, Same(<<>>))
    BY <1>5 DEF AfterLift
  <2> HIDE DEF n
  <2>2. n.pc = "terminate" /\ n.loop \in Counters /\ n.checked /\ n.calls = Same(<<>>)
        /\ n.ranks = r.ranks
    BY <1>1, <2>1 DEF Unlifted, To
  <2>3. StageOK(n)
    BY <1>1, <1>3, <2>2, AlignedAll, RanksKept DEF StageOK
  <2> QED BY <2>2, <2>3, ToNothing DEF StepOK, n
<1>6. CASE setup.mode # "random" /\ ~ NoneFound(o, 0)
  <2> DEFINE L == <<Call("cone", {"strengths"}, {})>>
             eig == [c \in Cones |-> o[c + 1]]
  <2>1. n = [To(r, "select", r.loop, Same(L)) EXCEPT !.eig = eig]
    BY <1>6 DEF AfterLift
  <2>2. \A c \in Cones : IsFound(eig[c], c)
    BY <1>2
  <2>3. Moves(r, n, "select", L) /\ n.checked /\ n.eig = eig
    <3> HIDE DEF n, L, eig
    <3> QED BY <1>1, <2>1 DEF Moves, To
  <2>4. "select" \in DOMAIN Tells /\ "strengths" = Tells["select"] /\ "cone" \in DOMAIN Axes
        /\ Full("strengths") = Axes["cone"] /\ "select" # "weigh" /\ "select" # "rebuild"
    BY AxisValues DEF Tells, Full, Axes
  <2>5. Moves(r, n, "select", <<Call("cone", {"strengths"}, {})>>)
    BY <2>3
  <2> HIDE DEF n, L, eig
  <2> QED BY <2>2, <2>3, <2>4, <2>5, ToTold DEF StepOK, n
<1> QED BY <1>4, <1>5, <1>6

LEMMA FromTerminate ==
  ASSUME IsSetup(setup), NEW r, StageOK(r), NEW o
  PROVE  StepOK(r, AfterTerminate(r, o))
<1> DEFINE n == AfterTerminate(r, o)
           counters == [r.loop EXCEPT !.outer = @ + 1, !.middle = 0]
           last == o \/ r.loop.outer + 1 = setup.iteration_limit
<1>1. counters \in Counters
  <2>1. r.loop \in Counters
    BY DEF StageOK
  <2> DEFINE more == r.loop.outer + 1
             two == [r.loop EXCEPT !.outer = more]
  <2>2. more \in Nat
    BY <2>1 DEF Counters
  <2>3. counters = [two EXCEPT !.middle = 0]
    BY <2>1 DEF Counters
  <2> HIDE DEF counters, more
  <2>4. two \in Counters
    BY <2>1, <2>2 DEF Counters
  <2> HIDE DEF two
  <2> QED BY <2>3, <2>4 DEF Counters
<1>2. CASE last
  <2>1. n = To(r, "done", counters, Same(<<>>))
    BY <1>2 DEF AfterTerminate
  <2> HIDE DEF n, counters
  <2>2. Moves(r, n, "done", <<>>) /\ n.checked /\ n.pc = "done" /\ n.calls = Same(<<>>)
    BY <1>1, <2>1 DEF Moves, To
  <2>3. <<>> \in Seq(Calls)
    OBVIOUS
  <2>4. StageOK(n)
    BY <2>2, <2>3, SameStage
  <2> QED BY <2>2, <2>4, ToNothing DEF StepOK, n
<1>3. CASE ~ last
  <2> DEFINE N == {}
  <2>1. n = To(r, "head", counters, Same(HeadCalls))
    BY <1>3 DEF AfterTerminate
  <2> HIDE DEF n, counters
  <2>2. Moves(r, n, "head", HeadCalls) /\ n.checked /\ n.pc = "head"
    BY <1>1, <2>1 DEF Moves, To
  <2>3. \A c \in Cones : Obtains(c, n, HeadCalls, Base, N)
    BY HeadObtains
  <2>4. HeadCalls \in Seq(Calls)
    <3>1. PICK d \in Cones : TRUE
      BY SetupDims DEF Cones
    <3> QED BY <2>3, <3>1, ObtainsList
  <2>5. StageOK(n) /\ \A c \in Cones : n.calls[c] = HeadCalls
    BY <2>2, <2>4, SameStage
  <2>6. ASSUME NEW c \in Cones PROVE Prepared(r, n, c)
    <3>1. N \subseteq Brought(r, n, c) /\ Goal(n, c) \subseteq Brought(r, n, c) \union Base
      BY <2>2 DEF Brought, Goal
    <3> HIDE DEF N
    <3> QED BY <2>3, <2>5, <3>1, PreparedBy
  <2> QED BY <2>5, <2>6 DEF StepOK, n
<1> HIDE DEF n, counters, last
<1> QED BY <1>2, <1>3 DEF n

\* The rank increments of what was kept are numbers.
LEMMA IncsAre ==
  ASSUME NEW c, NEW kept, IsKept(kept, c), NEW own, NEW d, NEW solution, NEW b \in Blocks(c)
  PROVE  rank_incs(kept, own, d, solution)[b] \in Nat
<1>1. b \in DOMAIN kept /\ \E A : \E n \in Nat : kept[b] \in [1..n -> A]
  BY DEF IsKept, IsList
<1>2. PICK A : \E n \in Nat : kept[b] \in [1..n -> A]
  BY <1>1
<1>3. PICK n \in Nat : kept[b] \in [1..n -> A]
  BY <1>2
<1>4. kept[b] \in Seq(A) /\ DOMAIN kept[b] = 1..n
  BY <1>3
<1> DEFINE slice == SubSeq(solution.weights, d + 1, d + Len(own))
           hits(e, i, j) == {k \in DOMAIN own : Tail(own[k]) \in {<<e, i, j>>, <<e, j, i>>}}
           weight(e, i, j) == IF hits(e, i, j) = {} THEN 0 ELSE slice[CHOOSE k \in hits(e, i, j) : TRUE]
           row(e, i) == {j \in DOMAIN kept[e] : weight(e, i, j) = 1}
           rows(e) == {row(e, i) : i \in DOMAIN kept[e]}
<1>5. rank_incs(kept, own, d, solution)[b] =
        CASE solution.by = "none" -> 0
          [] solution.by = "scalar" -> Len(kept[b])
          [] OTHER -> Cardinality(rows(b) \ {{}})
  BY <1>1 DEF rank_incs
<1>6. Cardinality(rows(b) \ {{}}) \in Nat
  <2> DEFINE f == [i \in 1..n |-> row(b, i)]
             T == rows(b)
  <2>1. T = {f[i] : i \in 1..n}
    BY <1>4
  <2> HIDE DEF f, T
  <2>2. f \in Surjection(1..n, T)
    <3>1. f = [i \in 1..n |-> f[i]]
      BY DEF f
    <3> QED BY <2>1, <3>1 DEF Surjection
  <2>3. IsFiniteSet(1..n)
    BY <1>3, FS_Interval
  <2>4. IsFiniteSet(T)
    BY <2>2, <2>3, FS_Surjection
  <2>5. IsFiniteSet(T \ {{}})
    BY <2>4, FS_Difference
  <2> QED BY <2>5, FS_CardinalityType DEF T
<1> HIDE DEF rows, row, weight, hits, slice
<1>7. Len(kept[b]) \in Nat
  BY <1>4, LenProperties
<1> QED BY <1>5, <1>6, <1>7

LEMMA FromWeigh ==
  ASSUME IsSetup(setup), NEW r, StageOK(r), r.pc = "weigh", NEW o
  PROVE  StepOK(r, AfterWeigh(r, o))
<1> DEFINE n == AfterWeigh(r, o)
           incs == [c \in Cones |-> IncsAfter(r, o, c)]
           grown == [x \in All(2) \X Cones |-> Grown(x[2], r.ranks[x], IncsAfter(r, o, x[2]))]
           none == {}
<1>1. RanksOK(r) /\ r.loop \in Counters /\ \A c \in Cones : IsKept(r.kept[c], c)
  BY DEF StageOK
<1>2. n = [To(r, "terminate", r.loop, Same(<<>>)) EXCEPT !.ranks = grown]
  BY DEF AfterWeigh
<1> HIDE DEF n, grown
<1>3. n.pc = "terminate" /\ n.loop \in Counters /\ n.checked /\ n.calls = Same(<<>>)
      /\ n.ranks = grown
  BY <1>1, <1>2 DEF To
<1>4. \A c \in Cones : \A b \in Blocks(c) : incs[c][b] \in Nat
  BY <1>1, IncsAre DEF IncsAfter
<1>5. ASSUME NEW s \in All(2), NEW c \in Cones
      PROVE  n.ranks[<<s, c>>] = IF c \in none THEN r.ranks[<<s, c>>]
                                 ELSE Grown(c, r.ranks[<<s, c>>], incs[c])
  BY <1>3 DEF grown
<1> HIDE DEF incs, none
<1>6. RanksOK(n)
  <2>1. Gained(r, n, incs, none)
    BY <1>4, <1>5 DEF Gained
  <2> QED BY <1>1, <2>1, RanksGrown
<1>7. <<>> \in Seq(Calls)
  OBVIOUS
<1>8. StageOK(n)
  BY <1>3, <1>6, <1>7, AlignedAll DEF StageOK
<1> QED BY <1>3, <1>8, ToNothing DEF StepOK, n

LEMMA SortedIs ==
  ASSUME NEW S, IsFiniteSet(S), NEW before
  PROVE  IsList(Sorted(S, before))
<1> DEFINE n == Cardinality(S)
           e(i) == CHOOSE x \in S : Cardinality({y \in S : <<y, x>> \in before}) = i - 1
           f == [i \in 1..n |-> e(i)]
           A == {f[i] : i \in 1..n}
<1>1. n \in Nat
  BY FS_CardinalityType
<1>2. Sorted(S, before) = f
  BY DEF Sorted
<1> HIDE DEF e
<1>3. f = [i \in 1..n |-> f[i]]
  OBVIOUS
<1> HIDE DEF n, f
<1>4. f \in [1..n -> A]
  BY <1>3
<1> HIDE DEF A
<1> QED BY <1>1, <1>2, <1>4 DEF IsList

LEMMA KeptIs ==
  ASSUME NEW c, NEW eig, IsFound(eig, c), NEW parts, NEW k
  PROVE  IsKept(select_strongest_directions(eig, parts, k), c)
<1> DEFINE strongest == ToSet(AtMost(global_cap, Ascending(FlattenSeq(parts))))
           kept(b) == {d \in DOMAIN eig[b] : \E i \in DOMAIN Candidates(eig) :
                         Candidates(eig)[i] = <<b, d>> /\ Displacement(parts, k) + i \in strongest}
           all == select_strongest_directions(eig, parts, k)
<1>1. all = [b \in DOMAIN eig |-> Sorted(kept(b), ByValue(eig[b]))]
  BY DEF select_strongest_directions, KeptBy
<1>2. ASSUME NEW b \in Blocks(c)
      PROVE  IsList(all[b])
  <2>1. b \in DOMAIN eig /\ eig[b] \in Seq(Int)
    BY DEF IsFound
  <2>2. all[b] = Sorted(kept(b), ByValue(eig[b]))
    BY <1>1, <2>1
  <2>3. IsFiniteSet(kept(b))
    <3> DEFINE D == DOMAIN eig[b]
    <3>1. kept(b) \subseteq D
      OBVIOUS
    <3>2. D = 1..Len(eig[b]) /\ Len(eig[b]) \in Nat
      BY <2>1, LenProperties
    <3> HIDE DEF kept, D
    <3>3. IsFiniteSet(D)
      BY <3>2, FS_Interval
    <3> QED BY <3>1, <3>3, FS_Subset
  <2> HIDE DEF all
  <2> DEFINE T == kept(b)
             B == ByValue(eig[b])
  <2>4. all[b] = Sorted(T, B) /\ IsFiniteSet(T)
    BY <2>2, <2>3
  <2> HIDE DEF T, B
  <2> QED BY <2>4, SortedIs
<1>3. DOMAIN all = Blocks(c)
  BY <1>1 DEF IsFound
<1> HIDE DEF all
<1>4. IsKept(all, c)
  BY <1>2, <1>3 DEF IsKept
<1> QED BY <1>4 DEF all

LEMMA KeptNumber ==
  ASSUME IsSetup(setup), NEW c \in Cones, NEW kept, IsKept(kept, c), kept = [b \in Blocks(c) |-> kept[b]]
  PROVE  Len(FlattenSeq(kept)) \in Nat
<1> DEFINE n == Len(BlockDims(c))
<1>1. n \in Nat /\ Blocks(c) = 1..n
  BY BlocksOf
<1>2. ASSUME NEW b \in 1..n PROVE \E A : kept[b] \in Seq(A)
  <2>1. PICK A : \E m \in Nat : kept[b] \in [1..m -> A]
    BY <1>1 DEF IsKept, IsList
  <2>2. PICK m \in Nat : kept[b] \in [1..m -> A]
    BY <2>1
  <2> DEFINE s == kept[b]
  <2>3. s \in Seq(A)
    BY <2>2
  <2> QED BY <2>3
<1> HIDE DEF n
<1>3. PICK A : kept \in [1..n -> Seq(A)]
  BY <1>1, <1>2, OneKind DEF EachList
<1>4. FlattenSeq(kept) \in Seq(A)
  BY <1>1, <1>3, FlattenedAt DEF OneAfterOther
<1> QED BY <1>4, LenProperties

LEMMA FromSelect ==
  ASSUME IsSetup(setup), NEW r, StageOK(r), r.pc = "select", NEW o
  PROVE  StepOK(r, AfterSelect(r, o))
<1> DEFINE n == AfterSelect(r, o)
           kept == KeptAfter(r)
           f == [c \in Cones |-> IF setup.mode = "sdp"
                                 THEN Repeat(Len(FlattenSeq(kept[c])), Reduce("H", <<"row">>)) ELSE <<>>]
           V == <<Call("cone", {"variables"}, {})>>
           W == Reduce("gram", <<"row">>)
<1>1. RanksOK(r) /\ r.loop \in Counters /\ \A c \in Cones : IsFound(r.eig[c], c)
  BY DEF StageOK
<1>2. ASSUME NEW c \in Cones
      PROVE  IsKept(kept[c], c) /\ Len(FlattenSeq(kept[c])) \in Nat
  <2> DEFINE k == select_strongest_directions(r.eig[c], StrengthParts(r), c)
  <2>1. kept[c] = k
    BY DEF KeptAfter
  <2>2. IsKept(k, c)
    BY <1>1, KeptIs
  <2>3. k = [b \in Blocks(c) |-> k[b]]
    BY <1>1 DEF select_strongest_directions, KeptBy, IsFound
  <2> HIDE DEF k
  <2> QED BY <2>1, <2>2, <2>3, KeptNumber
<1>3. n = [To(r, "weigh", r.loop, [c \in Cones |-> SelectCalls(kept[c])]) EXCEPT !.kept = kept]
  BY DEF AfterSelect
<1> HIDE DEF n, kept
<1>4. /\ n.pc = "weigh" /\ n.ranks = r.ranks /\ n.loop = r.loop /\ n.checked /\ n.kept = kept
      /\ \A c \in Cones : n.calls[c] = SelectCalls(kept[c])
  BY <1>3 DEF To
<1>5. {"H", "gram", "variables"} \subseteq Quantities /\ {"row", "cone"} \subseteq DOMAIN Axes
      /\ "H" \in Computed /\ "gram" \in Computed /\ "variables" \in Announced
      /\ Full("H") = Axes["row"] /\ Full("gram") = Axes["row"] /\ Full("variables") = Axes["cone"]
  BY AxisValues DEF Quantities, Computed, Announced, Axes, Full
<1>6. ASSUME NEW c \in Cones
      PROVE  f[c] \in Local /\ \E Y : Y \subseteq {"H"} /\ Computes(c, n, f[c], Y, Wholes({}))
  <2> DEFINE m == Len(FlattenSeq(kept[c]))
             R == Reduce("H", <<"row">>)
             Y == {"H"}
             N == {}
  <2>0. m \in Nat
    BY <1>2
  <2>1. CASE setup.mode = "sdp" /\ m # 0
    <3>1. f[c] = Repeat(m, R)
      BY <2>1
    <3>2. Sensible("H", n) /\ Needs("H", c, n) = N
      BY DEF Sensible, Needs
    <3>3. Computes(c, n, R, Y, Wholes(N))
      <4> HIDE DEF N
      <4> QED BY <1>5, <3>2, ReduceOne
    <3>4. R \in Local
      BY <1>5, LocalReduce
    <3> HIDE DEF f, m, R, Y, N
    <3>5. Computes(c, n, Repeat(m, R), Y, Wholes(N))
      BY <2>0, <2>1, <3>3, ComputesRepeat
    <3>6. f[c] \in Local
      BY <2>0, <3>1, <3>4, LocalRepeat
    <3> QED BY <3>1, <3>5, <3>6 DEF Y, N
  <2>2. CASE setup.mode = "sdp" /\ m = 0
    <3>1. f[c] = Repeat(0, R)
      BY <2>2
    <3>2. Repeat(0, R) = <<>>
      <4> DEFINE e == [i \in 1..0 |-> R]
      <4>1. e = <<>> /\ Len(e) = 0
        OBVIOUS
      <4> HIDE DEF e
      <4>2. FlattenSeq(e) = e
        BY <4>1, FlattenNone
      <4> QED BY <4>1, <4>2 DEF Repeat, e
    <3> HIDE DEF f, m, R
    <3>3. f[c] = <<>>
      BY <3>1, <3>2
    <3> QED BY <3>3, ComputesNone, LocalNone
  <2>3. CASE setup.mode # "sdp"
    <3>1. f[c] = <<>>
      BY <2>3
    <3> HIDE DEF f, m
    <3> QED BY <3>1, ComputesNone, LocalNone
  <2> HIDE DEF m
  <2> QED BY <2>0, <2>1, <2>2, <2>3
<1>7. V \in Seq(Calls) /\ W \in Seq(Calls)
  <2>1. {"variables"} \in SUBSET Quantities /\ {} \in SUBSET Quantities
    BY <1>5
  <2> QED BY <1>5, <2>1, CallsIn, ReduceIn
<1>8. \A c \in Cones : n.calls[c] = (f[c] \o V) \o W
  BY <1>4 DEF SelectCalls
<1> HIDE DEF f, V, W
<1>9. V \o W \in Seq(Calls)
  BY <1>7, ConcatProperties
<1>10. ASSUME NEW c \in Cones PROVE n.calls[c] = f[c] \o (V \o W)
  <2> DEFINE x == f[c]
  <2>1. x \in Seq(Calls)
    BY <1>6 DEF Local
  <2>2. n.calls[c] = (x \o V) \o W
    BY <1>8
  <2> HIDE DEF x
  <2>3. n.calls[c] = x \o (V \o W)
    BY <1>7, <2>1, <2>2
  <2> QED BY <2>3 DEF x
<1>11. Aligned(n.calls)
  BY <1>6, <1>9, <1>10, AlignedTail
<1>12. StageOK(n)
  BY <1>1, <1>2, <1>4, <1>11, RanksKept DEF StageOK
<1>13. ASSUME NEW c \in Cones PROVE Prepared(r, n, c)
  <2> DEFINE S == Base \union Residuals
             A == Arrives(r, n, c)
             N == {}
             B == S \union {"variables"}
             K == {"variables"}
             X == {"gram"}
             G == Goal(n, c)
  <2>1. PICK Y : Y \subseteq {"H"} /\ Computes(c, n, f[c], Y, Wholes(N))
    BY <1>6
  <2>2. A = Wholes(S) \union {<<"variables", {}>>}
    BY <1>4 DEF Arrives, Brought, Told, Tells
  <2>3. "variables" \notin S /\ "H" \notin S
    BY DEF Base, Residuals
  <2>4. Wholes(N) \subseteq A
    BY DEF Wholes
  <2>5. f[c] \in Seq(Calls)
    BY <1>6 DEF Local
  <2>6. Needs("gram", c, n) \subseteq K /\ Sensible("gram", n)
    BY DEF Needs, Sensible
  <2>7. K \subseteq B /\ G \subseteq B \union X
    BY <1>4 DEF Goal
  <2> HIDE DEF A, N, K, G
  <2>8. Runs(c, n, f[c], A, Then(A, Y))
    BY <2>1, <2>4 DEF Computes
  <2> HIDE DEF S
  <2> DEFINE F == Then(A, Y)
  <2>9. Wholes(S) \subseteq F /\ <<"variables", {}>> \in F
    <3>1. "variables" \notin Y /\ \A x \in S : x \notin Y
      BY <2>1, <2>3
    <3>2. \A g \in A : g[1] \notin Y => g \in F
      BY DEF Then
    <3>3. <<"variables", {}>> \in F
      BY <2>2, <3>1, <3>2
    <3>4. \A g \in Wholes(S) : g \in A /\ g[1] \in S
      BY <2>2 DEF Wholes
    <3> QED BY <3>1, <3>2, <3>3, <3>4
  <2> HIDE DEF F
  <2>10. Runs(c, n, V, F, Wholes(B))
    BY <1>5, <2>3, <2>9, TellRuns DEF V
  <2>11. Obtains(c, n, W, X, K)
    BY <1>5, <2>6, OneAxis DEF W
  <2> HIDE DEF B, X
  <2>12. Runs(c, n, W, Wholes(B), Wholes(G))
    BY <2>7, <2>11, ObtainsRuns
  <2>13. Runs(c, n, V \o W, F, Wholes(G))
    BY <1>7, <2>10, <2>12, RunsThen
  <2>14. Runs(c, n, f[c], A, F)
    BY <2>8 DEF F
  <2>15. Runs(c, n, f[c] \o (V \o W), A, Wholes(G))
    BY <1>9, <2>5, <2>13, <2>14, RunsThen
  <2> QED BY <1>10, <2>15 DEF Prepared, A, G
<1> QED BY <1>12, <1>13 DEF StepOK, n

\* Whatever is decided at a stage, the calls of the next serve its decision.
LEMMA FromAny ==
  ASSUME IsSetup(setup), NEW r, StageOK(r), NEW o, IsOption(r, o),
         r.pc \in {"head", "converged", "step", "detect", "winner", "rebuild", "escape", "escaped",
                   "count", "dual_step", "gate", "lift", "select", "weigh", "terminate"}
  PROVE  StepOK(r, NextStage(r, o))
<1>1. CASE r.pc = "head"
  BY <1>1, FromHead DEF NextStage, IsOption
<1>2. CASE r.pc = "converged"
  BY <1>2, FromConverged DEF NextStage, IsOption
<1>3. CASE r.pc = "step"
  BY <1>3, FromStep DEF NextStage, IsOption
<1>4. CASE r.pc = "detect"
  BY <1>4, FromDetect DEF NextStage, IsOption
<1>5. CASE r.pc = "winner"
  BY <1>5, FromWinner DEF NextStage, IsOption
<1>6. CASE r.pc = "rebuild"
  <2>1. IsCurvature(r.winner)
    BY <1>6 DEF StageOK
  <2>2. NextStage(r, o) = AfterRebuild(r, o)
    BY <1>6 DEF NextStage
  <2> QED BY <2>1, <2>2, FromRebuild
<1>7. CASE r.pc = "escape"
  <2>1. IsCurvature(r.winner) /\ o \in BOOLEAN
    BY <1>7 DEF StageOK, IsOption
  <2>2. NextStage(r, o) = AfterEscape(r, o)
    BY <1>7 DEF NextStage
  <2> QED BY <2>1, <2>2, FromEscape
<1>8. CASE r.pc = "escaped"
  BY <1>8, FromEscaped DEF NextStage, IsOption
<1>9. CASE r.pc = "count"
  BY <1>9, FromCount DEF NextStage, IsOption
<1>10. CASE r.pc = "dual_step"
  BY <1>10, FromDualStep DEF NextStage, IsOption
<1>11. CASE r.pc = "gate"
  BY <1>11, FromGate DEF NextStage, IsOption
<1>12. CASE r.pc = "lift"
  BY <1>12, FromLift DEF NextStage, IsOption
<1>13. CASE r.pc = "select"
  BY <1>13, FromSelect DEF NextStage
<1>14. CASE r.pc = "weigh"
  BY <1>14, FromWeigh DEF NextStage
<1>15. CASE r.pc = "terminate"
  BY <1>15, FromTerminate DEF NextStage
<1> QED BY <1>1, <1>2, <1>3, <1>4, <1>5, <1>6, <1>7, <1>8, <1>9, <1>10, <1>11, <1>12, <1>13,
           <1>14, <1>15

-----------------------------------------------------------------------------
(* Calls of two processes that are one call.                               *)

LEMMA CallsList ==
  ASSUME IsSetup(setup), NEW r, NEW lev, Leveled(r, lev), NEW p \in Procs
  PROVE  /\ my_cone(p) \in Cones
         /\ CallsOf(r, p) \in Seq(Calls)
         /\ \E T : InOrder(CallsOf(r, p), lev, my_cone(p), T)
<1>1. my_cone(p) \in Cones
  BY CoordsIn
<1>2. PICK T : Levels(r.calls, lev, T)
  BY DEF Leveled
<1>3. InOrder(CallsOf(r, p), lev, my_cone(p), T)
  BY <1>1, <1>2 DEF Levels, CallsOf
<1>4. CallsOf(r, p) \in Seq(Calls)
  BY <1>3 DEF InOrder
<1> QED BY <1>1, <1>3, <1>4

\* A call between cones is over the cone axis or all axes.
LEMMA BetweenCones ==
  ASSUME IsSetup(setup), NEW call \in Calls, NEW p \in Procs, NEW q \in Members(call.on, p),
         my_cone(p) # my_cone(q)
  PROVE  Common(call)
<1>1. call.on \in DOMAIN Axes
  BY DEF Calls
<1>2. call.on \in {"row", "rank", "cone", "all"}
  BY <1>1 DEF Axes
<1>3. 3 \in Axes[call.on]
  <2>1. q \in Procs /\ \A a \in (1..3) \ Axes[call.on] : coords(q)[a] = coords(p)[a]
    BY DEF Members
  <2>2. coords(q)[3] # coords(p)[3]
    BY DEF my_cone
  <2> QED BY <2>1, <2>2
<1>4. call.on \in {"cone", "all"}
  BY <1>2, <1>3 DEF Axes
<1> QED BY <1>4 DEF Common

\* A call of p is one of each process of its line.
LEMMA PartnerExists ==
  ASSUME IsSetup(setup), NEW r, NEW lev, Leveled(r, lev), NEW p \in Procs,
         NEW i \in 1..Len(CallsOf(r, p)), NEW q \in Members(CallsOf(r, p)[i].on, p)
  PROVE  \E j : Partners(r, lev, p, i, q, j)
<1>1. q \in Procs
  BY DEF Members
<1>2. CallsOf(r, p) \in Seq(Calls) /\ my_cone(p) \in Cones /\ my_cone(q) \in Cones
  BY <1>1, CallsList
<1>3. CASE my_cone(p) = my_cone(q)
  <2>1. CallsOf(r, q) = CallsOf(r, p)
    BY <1>3 DEF CallsOf
  <2>2. Partners(r, lev, p, i, q, i)
    BY <1>3, <2>1 DEF Partners, Meets
  <2> QED BY <2>2
<1>4. CASE my_cone(p) # my_cone(q)
  <2>1. CallsOf(r, p)[i] \in Calls
    BY <1>2
  <2>2. Common(CallsOf(r, p)[i])
    BY <1>4, <2>1, BetweenCones
  <2>3. PICK T : Levels(r.calls, lev, T)
    BY DEF Leveled
  <2>4. InBoth(CallsOf(r, p), CallsOf(r, q), lev, my_cone(p), my_cone(q))
    BY <1>2, <2>3 DEF Levels, CallsOf
  <2>5. PICK j \in 1..Len(CallsOf(r, q)) : lev[<<my_cone(q), j>>] = lev[<<my_cone(p), i>>]
                                          /\ CallsOf(r, q)[j] = CallsOf(r, p)[i]
    BY <2>2, <2>4 DEF InBoth
  <2>6. Meets(r, lev, my_cone(p), i, my_cone(q), j)
    BY <1>4, <2>2, <2>5 DEF Meets, CallsOf
  <2>7. Partners(r, lev, p, i, q, j)
    BY <2>5, <2>6 DEF Partners
  <2> QED BY <2>7
<1> QED BY <1>3, <1>4

LEMMA PartnersCall ==
  ASSUME NEW r, NEW lev, NEW p \in Procs, NEW q, NEW i, NEW j, Partners(r, lev, p, i, q, j)
  PROVE  CallsOf(r, q)[j] = CallsOf(r, p)[i]
<1>1. CASE my_cone(p) = my_cone(q)
  BY <1>1 DEF Partners, Meets, CallsOf
<1>2. CASE my_cone(p) # my_cone(q)
  BY <1>2 DEF Partners, Meets, CallsOf
<1> QED BY <1>1, <1>2

LEMMA SameLine ==
  ASSUME NEW on, NEW p \in Procs, NEW q \in Members(on, p)
  PROVE  q \in Procs /\ p \in Members(on, q) /\ Members(on, q) = Members(on, p)
<1>1. q \in Procs /\ \A a \in (1..3) \ Axes[on] : coords(q)[a] = coords(p)[a]
  BY DEF Members
<1> QED BY <1>1 DEF Members

\* The call of p that is one of q is, for q, that call of p.
LEMMA PartnersBack ==
  ASSUME NEW r, NEW lev, NEW p \in Procs, NEW q, NEW i, NEW j, Partners(r, lev, p, i, q, j)
  PROVE  q \in Procs /\ Partners(r, lev, q, j, p, i)
<1>1. CallsOf(r, q)[j] = CallsOf(r, p)[i]
  BY PartnersCall
<1>2. q \in Members(CallsOf(r, p)[i].on, p)
  BY DEF Partners
<1>3. q \in Procs /\ p \in Members(CallsOf(r, q)[j].on, q)
  BY <1>1, <1>2, SameLine
<1>4. Meets(r, lev, my_cone(q), j, my_cone(p), i)
  BY <1>1 DEF Partners, Meets, CallsOf
<1> QED BY <1>3, <1>4 DEF Partners

\* Two pairs of calls are in the same order for both processes.
\* Two processes come to the calls they share in the same order.
LEMMA NoCrossing ==
  ASSUME IsSetup(setup), NEW r, NEW lev, Leveled(r, lev), NEW p \in Procs, NEW q,
         NEW i, NEW j, NEW m, NEW n,
         Partners(r, lev, p, i, q, n), Partners(r, lev, p, m, q, j), i <= m, j <= n
  PROVE  n = j
<1>1. q \in Procs
  BY PartnersBack
<1>2. i \in Int /\ j \in Int /\ m \in Int /\ n \in Int
  BY DEF Partners
<1>3. CASE my_cone(p) = my_cone(q)
  BY <1>2, <1>3 DEF Partners, Meets
<1>4. CASE my_cone(p) # my_cone(q)
  <2> DEFINE L == CallsOf(r, p)
             M == CallsOf(r, q)
             c == my_cone(p)
             d == my_cone(q)
  <2>1. PICK T : Levels(r.calls, lev, T)
    BY DEF Leveled
  <2>2. InOrder(L, lev, c, T) /\ InOrder(M, lev, d, T) /\ T \in Nat
    <3>1. c \in Cones /\ d \in Cones
      BY <1>1, CallsList
    <3> QED BY <2>1, <3>1 DEF Levels, CallsOf
  <2>3. /\ i \in 1..Len(L) /\ m \in 1..Len(L) /\ j \in 1..Len(M) /\ n \in 1..Len(M)
        /\ lev[<<d, n>>] = lev[<<c, i>>] /\ lev[<<d, j>>] = lev[<<c, m>>]
        /\ Common(L[i]) /\ M[n] = L[i]
    BY <1>4 DEF Partners, Meets, CallsOf
  <2> HIDE DEF L, M, c, d
  <2>4. /\ lev[<<c, i>>] \in Int /\ lev[<<c, m>>] \in Int
        /\ i < m => lev[<<c, i>>] <= lev[<<c, m>>]
        /\ j < n => lev[<<d, j>>] < lev[<<d, n>>]
    <3>1. Common(M[n])
      BY <2>3
    <3> QED BY <2>2, <2>3, <3>1 DEF InOrder
  <2>5. lev[<<c, i>>] <= lev[<<c, m>>]
    BY <1>2, <2>4
  <2>6. ~ (j < n)
    BY <2>3, <2>4, <2>5
  <2> QED BY <1>2, <2>6
<1> QED BY <1>3, <1>4

\* It is one call of q only.
LEMMA PartnerOnce ==
  ASSUME IsSetup(setup), NEW r, NEW lev, Leveled(r, lev), NEW p \in Procs, NEW q,
         NEW i, NEW j, NEW n, Partners(r, lev, p, i, q, j), Partners(r, lev, p, i, q, n)
  PROVE  n = j
<1>1. i \in Int /\ j \in Int /\ n \in Int
  BY DEF Partners
<1>2. i <= i
  BY <1>1
<1>3. CASE j <= n
  BY <1>2, <1>3, NoCrossing
<1>4. CASE n <= j
  BY <1>2, <1>4, NoCrossing
<1> QED BY <1>1, <1>3, <1>4

\* A call a process makes by itself has no other partner.
LEMMA PartnerAlone ==
  ASSUME NEW r, NEW lev, NEW p \in Procs, NEW q, NEW i, NEW j, Partners(r, lev, p, i, q, j),
         Alone(p, CallsOf(r, p)[i]) \/ Alone(q, CallsOf(r, q)[j])
  PROVE  q = p /\ j = i
<1>1. q \in Procs /\ q \in Members(CallsOf(r, p)[i].on, p) /\ p \in Members(CallsOf(r, q)[j].on, q)
  BY PartnersBack DEF Partners
<1>2. q = p
  BY <1>1 DEF Alone
<1> QED BY <1>2 DEF Partners, Meets

-----------------------------------------------------------------------------
(* Together, as a story goes on.                                           *)

\* A story without its beginning.
Shorter(st, lv, past, n, st2, lv2) ==
  \A k \in 0..(n - past) : st2[k] = st[k + past] /\ lv2[k] = lv[k + past]

\* One process goes on to a stage and makes there the calls that are its own.
Advances(st, h, pos, p, k, m, h2, pos2) ==
  /\ \A q \in Procs : h[q] \in Nat
  /\ h[p] = k /\ pos[p] = Len(CallsOf(st[k], p)) /\ pos[p] \in Nat
  /\ \A i \in 1..m : Alone(p, CallsOf(st[k + 1], p)[i])
  /\ \A q \in Procs : h2[q] = IF q = p THEN k + 1 ELSE h[q]
  /\ \A q \in Procs : pos2[q] = IF q = p THEN m ELSE pos[q]

\* A call of one process does not come between others.
LEMMA TogetherMoved ==
  ASSUME NEW st, NEW lv, NEW n \in Nat, NEW h, NEW pos, Together(st, lv, n, h, pos),
         NEW p \in Procs, NEW k \in Nat, k + 1 <= n, NEW m \in Nat,
         NEW h2, NEW pos2, Advances(st, h, pos, p, k, m, h2, pos2)
  PROVE  Together(st, lv, n, h2, pos2)
<1> USE DEF Advances
<1> SUFFICES ASSUME NEW a \in Procs, NEW b \in Procs, NEW l \in 0..n, NEW i, NEW j,
                    Partners(st[l], lv[l], a, i, b, j)
             PROVE  Did(h2, pos2, a, l, i) <=> Did(h2, pos2, b, l, j)
  BY DEF Together
<1> DEFINE New(q, e) == q = p /\ l = k + 1 /\ e <= m
<1>1. Did(h, pos, a, l, i) <=> Did(h, pos, b, l, j)
  BY DEF Together
<1>2. i \in 1..Len(CallsOf(st[l], a)) /\ j \in 1..Len(CallsOf(st[l], b))
  BY DEF Partners
<1>3. ASSUME NEW q \in Procs, NEW e, e \in 1..Len(CallsOf(st[l], q))
      PROVE  Did(h2, pos2, q, l, e) <=> (Did(h, pos, q, l, e) \/ New(q, e))
  <2>1. CASE q # p
    BY <2>1 DEF Did
  <2>2. CASE q = p
    <3>0. h2[p] = k + 1 /\ pos2[p] = m /\ h[p] = k /\ l \in Int /\ e \in Int
      BY <1>3
    <3>1. CASE l < k
      BY <2>2, <3>0, <3>1 DEF Did
    <3>2. CASE l = k
      <4>1. e <= pos[p]
        BY <1>3, <2>2, <3>2
      <4> QED BY <2>2, <3>0, <3>2, <4>1 DEF Did
    <3>3. CASE l = k + 1
      BY <2>2, <3>0, <3>3 DEF Did
    <3>4. CASE l > k + 1
      BY <2>2, <3>0, <3>4 DEF Did
    <3> QED BY <3>0, <3>1, <3>2, <3>3, <3>4
  <2> QED BY <2>1, <2>2
<1>4. New(a, i) => b = a /\ j = i
  <2> SUFFICES ASSUME New(a, i) PROVE b = a /\ j = i
    OBVIOUS
  <2>1. Alone(a, CallsOf(st[l], a)[i])
    BY <1>2
  <2> QED BY <2>1, PartnerAlone
<1>5. New(b, j) => b = a /\ j = i
  <2> SUFFICES ASSUME New(b, j) PROVE b = a /\ j = i
    OBVIOUS
  <2>1. Alone(b, CallsOf(st[l], b)[j])
    BY <1>2
  <2> QED BY <2>1, PartnerAlone
<1>6. Did(h2, pos2, a, l, i) <=> (Did(h, pos, a, l, i) \/ New(a, i))
  BY <1>2, <1>3
<1>7. Did(h2, pos2, b, l, j) <=> (Did(h, pos, b, l, j) \/ New(b, j))
  BY <1>2, <1>3
<1> HIDE DEF New
<1> QED BY <1>1, <1>4, <1>5, <1>6, <1>7

\* The processes of a line make a call, and then those that are their own.
Meeting(st, lv, h, pos, k, on, S, pos2) ==
  /\ \A q \in S : h[q] = k /\ pos[q] \in Nat /\ CallsOf(st[k], q)[pos[q] + 1].on = on
  /\ \A q, u \in S : Partners(st[k], lv[k], q, pos[q] + 1, u, pos[u] + 1)
  /\ \A q \in Procs : q \notin S => pos2[q] = pos[q]
  /\ \A q \in S : /\ pos2[q] \in Nat /\ pos2[q] > pos[q]
                   /\ \A i \in (pos[q] + 2)..pos2[q] : Alone(q, CallsOf(st[k], q)[i])

\* Nor does one that all of its line make at once.
LEMMA TogetherMet ==
  ASSUME IsSetup(setup), NEW st, NEW lv, NEW n \in Nat, NEW h, NEW pos, Together(st, lv, n, h, pos),
         NEW k \in 0..n, Leveled(st[k], lv[k]), NEW p \in Procs, NEW on, NEW S, S = Members(on, p),
         NEW pos2, Meeting(st, lv, h, pos, k, on, S, pos2)
  PROVE  Together(st, lv, n, h, pos2)
<1> USE DEF Meeting
<1> SUFFICES ASSUME NEW a \in Procs, NEW b \in Procs, NEW l \in 0..n, NEW i, NEW j,
                    Partners(st[l], lv[l], a, i, b, j)
             PROVE  Did(h, pos2, a, l, i) <=> Did(h, pos2, b, l, j)
  BY DEF Together
<1> DEFINE New(q, e) == q \in S /\ l = k /\ e > pos[q] /\ e <= pos2[q]
<1>1. Did(h, pos, a, l, i) <=> Did(h, pos, b, l, j)
  BY DEF Together
<1>2. i \in 1..Len(CallsOf(st[l], a)) /\ j \in 1..Len(CallsOf(st[l], b))
  BY DEF Partners
<1>3. ASSUME NEW q \in Procs, NEW e \in Nat
      PROVE  Did(h, pos2, q, l, e) <=> (Did(h, pos, q, l, e) \/ New(q, e))
  BY DEF Did
<1>4. ASSUME NEW x \in Procs, NEW y \in Procs, NEW e \in Nat, NEW g \in Nat,
             Partners(st[l], lv[l], x, e, y, g), New(x, e)
      PROVE  New(y, g)
  <2>1. CASE e = pos[x] + 1
    <3>1. y \in Members(on, x)
      BY <1>4, <2>1 DEF Partners
    <3>2. y \in S
      BY <1>4, <3>1, SameLine
    <3>3. Partners(st[k], lv[k], x, e, y, pos[y] + 1)
      BY <1>4, <2>1, <3>2
    <3>4. Partners(st[k], lv[k], x, e, y, g)
      BY <1>4
    <3>5. g = pos[y] + 1
      BY <3>3, <3>4, PartnerOnce
    <3> QED BY <1>4, <3>2, <3>5
  <2>2. CASE e # pos[x] + 1
    <3>1. e \in (pos[x] + 2)..pos2[x]
      BY <1>4, <2>2
    <3>2. Alone(x, CallsOf(st[l], x)[e])
      BY <1>4, <3>1
    <3>3. y = x /\ g = e
      BY <1>4, <3>2, PartnerAlone
    <3> QED BY <1>4, <3>3
  <2> QED BY <2>1, <2>2
<1>5. i \in Nat /\ j \in Nat
  BY <1>2
<1>6. Partners(st[l], lv[l], b, j, a, i)
  BY PartnersBack
<1>7. New(a, i) <=> New(b, j)
  <2> HIDE DEF New
  <2> QED BY <1>4, <1>5, <1>6
<1>8. Did(h, pos2, a, l, i) <=> (Did(h, pos, a, l, i) \/ New(a, i))
  BY <1>3, <1>5
<1>9. Did(h, pos2, b, l, j) <=> (Did(h, pos, b, l, j) \/ New(b, j))
  BY <1>3, <1>5
<1> HIDE DEF New
<1> QED BY <1>1, <1>7, <1>8, <1>9

\* Nobody has been at a new stage.
HaveCome(h, n) == \A q \in Procs : h[q] \in 0..n

\* A story that goes on has the same calls behind it.
LEMMA TogetherMore ==
  ASSUME NEW st, NEW lv, NEW n \in Nat, NEW h, NEW pos, Together(st, lv, n, h, pos),
         HaveCome(h, n), NEW st2, NEW lv2, Shorter(st, lv, 0, n, st2, lv2)
  PROVE  Together(st2, lv2, n + 1, h, pos)
<1> USE DEF HaveCome, Shorter
<1> SUFFICES ASSUME NEW a \in Procs, NEW b \in Procs, NEW l \in 0..(n + 1), NEW i, NEW j,
                    Partners(st2[l], lv2[l], a, i, b, j)
             PROVE  Did(h, pos, a, l, i) <=> Did(h, pos, b, l, j)
  BY DEF Together
<1>1. CASE l = n + 1
  BY <1>1 DEF Did
<1>2. CASE l # n + 1
  <2>1. l \in 0..n /\ l + 0 = l /\ n - 0 = n
    BY <1>2
  <2>2. st2[l] = st[l] /\ lv2[l] = lv[l]
    BY <2>1
  <2> QED BY <2>1, <2>2 DEF Together
<1> QED BY <1>1, <1>2

\* The stages all have left can be forgotten.
Less(h, past, h2) == \A q \in Procs : h2[q] = h[q] - past

\* What all have come to may be forgotten.
LEMMA TogetherLess ==
  ASSUME NEW st, NEW lv, NEW n \in Nat, NEW h, NEW pos, Together(st, lv, n, h, pos),
         NEW past \in 0..n, HaveCome(h, n),
         NEW st2, NEW lv2, Shorter(st, lv, past, n, st2, lv2), NEW h2, Less(h, past, h2)
  PROVE  Together(st2, lv2, n - past, h2, pos)
<1> USE DEF HaveCome, Shorter, Less
<1> SUFFICES ASSUME NEW a \in Procs, NEW b \in Procs, NEW l \in 0..(n - past), NEW i, NEW j,
                    Partners(st2[l], lv2[l], a, i, b, j)
             PROVE  Did(h2, pos, a, l, i) <=> Did(h2, pos, b, l, j)
  BY DEF Together
<1> DEFINE k == l + past
<1>1. k \in 0..n /\ st2[l] = st[k] /\ lv2[l] = lv[k]
  OBVIOUS
<1>2. ASSUME NEW q \in Procs, NEW e PROVE Did(h2, pos, q, l, e) <=> Did(h, pos, q, k, e)
  BY DEF Did
<1>3. Did(h, pos, a, k, i) <=> Did(h, pos, b, k, j)
  <2> HIDE DEF k
  <2>1. Partners(st[k], lv[k], a, i, b, j)
    BY <1>1
  <2> QED BY <1>1, <2>1 DEF Together
<1> HIDE DEF k
<1> QED BY <1>2, <1>3

\* No process is in a call of a stage its partner has left or not yet reached.
LEMMA NotAhead ==
  ASSUME IsSetup(setup), NEW st, NEW lv, NEW n \in Nat, NEW h, NEW pos, Together(st, lv, n, h, pos),
         NEW p \in Procs, NEW q, h[p] \in 0..n, h[q] \in 0..n, pos[p] \in Nat,
         Leveled(st[h[p]], lv[h[p]]),
         pos[p] + 1 \in 1..Len(CallsOf(st[h[p]], p)),
         q \in Members(CallsOf(st[h[p]], p)[pos[p] + 1].on, p)
  PROVE  h[q] <= h[p]
<1> DEFINE k == h[p]
           i == pos[p] + 1
<1>1. PICK j : Partners(st[k], lv[k], p, i, q, j)
  BY PartnerExists
<1>2. q \in Procs
  BY <1>1, PartnersBack
<1>3. Did(h, pos, p, k, i) <=> Did(h, pos, q, k, j)
  BY <1>1, <1>2 DEF Together
<1>4. ~ Did(h, pos, p, k, i)
  BY DEF Did
<1> QED BY <1>3, <1>4 DEF Did

\* Two processes of a line that wait in the same call are in the same stage
\* of the story, at the same place of its calls.
LEMMA SamePlace ==
  ASSUME IsSetup(setup), NEW st, NEW lv, NEW n \in Nat, NEW h, NEW pos, Together(st, lv, n, h, pos),
         \A k \in 0..n : Leveled(st[k], lv[k]),
         NEW p \in Procs, NEW q, h[p] \in 0..n, h[q] \in 0..n, pos[p] \in Nat, pos[q] \in Nat,
         pos[p] + 1 \in 1..Len(CallsOf(st[h[p]], p)),
         pos[q] + 1 \in 1..Len(CallsOf(st[h[q]], q)),
         CallsOf(st[h[q]], q)[pos[q] + 1] = CallsOf(st[h[p]], p)[pos[p] + 1],
         q \in Members(CallsOf(st[h[p]], p)[pos[p] + 1].on, p)
  PROVE  /\ h[q] = h[p]
         /\ Partners(st[h[p]], lv[h[p]], p, pos[p] + 1, q, pos[q] + 1)
<1> DEFINE k == h[p]
           i == pos[p] + 1
           j == pos[q] + 1
<1>1. q \in Procs /\ p \in Members(CallsOf(st[h[q]], q)[pos[q] + 1].on, q)
  BY SameLine
<1>2. h[q] = h[p]
  <2>1. h[q] <= h[p]
    BY NotAhead
  <2>2. h[p] <= h[q]
    BY <1>1, NotAhead
  <2> QED BY <2>1, <2>2
<1>3. Leveled(st[k], lv[k])
  OBVIOUS
<1>4. PICK e : Partners(st[k], lv[k], p, i, q, e)
  BY <1>3, PartnerExists
<1>5. PICK d : Partners(st[k], lv[k], q, j, p, d)
  BY <1>1, <1>2, <1>3, PartnerExists
<1>6. Partners(st[k], lv[k], p, d, q, j)
  BY <1>1, <1>5, PartnersBack
<1>7. e \in Nat /\ d \in Nat
  BY <1>4, <1>5 DEF Partners
<1>8. j <= e
  <2>1. Did(h, pos, p, k, i) <=> Did(h, pos, q, k, e)
    BY <1>1, <1>4 DEF Together
  <2>2. ~ Did(h, pos, p, k, i)
    BY DEF Did
  <2> QED BY <1>2, <1>7, <2>1, <2>2 DEF Did
<1>9. i <= d
  <2>1. Did(h, pos, p, k, d) <=> Did(h, pos, q, k, j)
    BY <1>1, <1>6 DEF Together
  <2>2. ~ Did(h, pos, q, k, j)
    BY <1>2 DEF Did
  <2> QED BY <1>2, <1>7, <2>1, <2>2 DEF Did
<1>10. e = j
  <2> HIDE DEF k, i, j
  <2> QED BY <1>3, <1>4, <1>6, <1>8, <1>9, NoCrossing
<1> QED BY <1>2, <1>4, <1>10

-----------------------------------------------------------------------------
(* What a process reads when it decides.                                   *)

LEMMA GoalIn ==
  ASSUME NEW r, NEW c, StageOK(r)
  PROVE  /\ Goal(r, c) \subseteq Quantities
         /\ "winner" \in Goal(r, c) => r.winner[1] \in Cones
<1> USE DEF Goal, Base, StepNumbers, Residuals, Quantities
<1>1. Goal(r, c) \subseteq Quantities
  <2>1. CASE r.pc \in {"head", "dual_step", "gate", "converged", "step", "detect"}
    BY <2>1
  <2>2. CASE r.pc \in {"winner", "rebuild", "escape", "escaped", "count"}
    BY <2>2
  <2>3. CASE r.pc \in {"lift", "select", "weigh", "terminate"}
    BY <2>3
  <2>4. CASE r.pc \notin {"head", "dual_step", "gate", "converged", "step", "detect", "winner",
                          "rebuild", "escape", "escaped", "count", "lift", "select", "weigh", "terminate"}
    BY <2>4
  <2> QED BY <2>1, <2>2, <2>3, <2>4
<1>2. ASSUME "winner" \in Goal(r, c) PROVE r.pc \in {"rebuild", "escape", "escaped"}
  <2>1. CASE r.pc \in {"head", "dual_step", "gate", "converged", "step", "detect"}
    BY <1>2, <2>1
  <2>2. CASE r.pc \in {"winner", "rebuild", "escape", "escaped", "count"}
    BY <1>2, <2>2
  <2>3. CASE r.pc \in {"lift", "select", "weigh", "terminate"}
    BY <1>2, <2>3
  <2>4. CASE r.pc \notin {"head", "dual_step", "gate", "converged", "step", "detect", "winner",
                          "rebuild", "escape", "escaped", "count", "lift", "select", "weigh", "terminate"}
    BY <1>2, <2>4
  <2> QED BY <2>1, <2>2, <2>3, <2>4
<1> QED BY <1>1, <1>2 DEF StageOK, IsCurvature

\* At the end of its calls a process has the whole of what it came for.
LEMMA HasWholes ==
  ASSUME IsSetup(setup), NEW r, StageOK(r), NEW p \in Procs, NEW v, Knows(p, r, <<>>, v)
  PROVE  \A x \in Goal(r, my_cone(p)) : /\ x \in Quantities
                                        /\ v[x] = Total(x, p, Full(x), r)
                                        /\ v[x] = SetToBag(WholeSet(x, coords(p)[1], r))
<1> DEFINE G == Goal(r, my_cone(p))
<1>1. PICK facts : /\ Matches(p, r, v, facts)
                   /\ Runs(my_cone(p), r, <<>>, facts, Wholes(G))
  BY DEF Knows
<1>2. G \subseteq Quantities /\ ("winner" \in G => r.winner[1] \in Cones)
  BY GoalIn
<1> HIDE DEF G
<1>3. Wholes(G) \subseteq facts
  <2>1. PICK know : know[0] \subseteq facts /\ Wholes(G) \subseteq know[Len(<<>>)]
    BY <1>1 DEF Runs
  <2> QED BY <2>1
<1> SUFFICES ASSUME NEW x \in G
             PROVE  /\ x \in Quantities
                    /\ v[x] = Total(x, p, Full(x), r)
                    /\ v[x] = SetToBag(WholeSet(x, coords(p)[1], r))
  BY DEF G
<1>4. <<x, Full(x)>> \in facts
  BY <1>3 DEF Wholes
<1>5. v[x] = Total(x, p, Full(x), r)
  BY <1>1, <1>4 DEF Matches
<1>6. Terms(x, p, Full(x), r) = WholeSet(x, coords(p)[1], r)
  BY <1>2, WholeTerms
<1> QED BY <1>2, <1>5, <1>6 DEF Total

\* What a process decides from does not depend on its row.
LEMMA AnyRow ==
  ASSUME NEW r, NEW i, NEW x \in Quantities \ {"Ax", "q", "Hq"}
  PROVE  SetToBag(WholeSet(x, i, r)) = WholeOf(x, r)
BY DEF WholeSet, WholeOf, Quantities

\* The norms are the same everywhere.
LEMMA SameNorms ==
  ASSUME DecideAlike(setup), NEW p \in Procs
  PROVE  /\ RhsNorm(p) = Norm
         /\ ObjectiveNorm(p) = Norm
         /\ Linf(coords(p)) = Linf(<<0, 0, 0>>)
<1>1. IsSetup(setup)
  BY DEF DecideAlike
<1>2. coords(p)[1] \in All(1) /\ coords(p)[3] \in All(3)
  BY <1>1, CoordsIn
<1>3. ~ setup.scaled => coords(p)[1] = 0 /\ coords(p)[3] = 0
  BY <1>2 DEF DecideAlike, All
<1>4. setup.low_rank_objective => coords(p)[1] = 0
  BY <1>2 DEF DecideAlike, All
<1> QED BY <1>3, <1>4 DEF RhsNorm, ObjectiveNorm, Norm, Linf

\* Of what it came for it reads the numbers its decision is taken from.
LEMMA Reading ==
  ASSUME IsSetup(setup), NEW r, StageOK(r), NEW p \in Procs, NEW v, Knows(p, r, <<>>, v),
         NEW x, x \in Goal(r, my_cone(p)), x \notin {"Ax", "q", "Hq"}
  PROVE  v[x] = WholeOf(x, r)
BY HasWholes, AnyRow

LEMMA ReadsGaps ==
  ASSUME DecideAlike(setup), NEW r, StageOK(r), NEW p \in Procs, NEW v, Knows(p, r, <<>>, v),
         r.pc \in {"head", "gate", "terminate"}
  PROVE  <<v.p_obj, v.d_obj, v.q0_norm, RhsNorm(p)>> = Gaps(r)
<1>1. IsSetup(setup)
  BY DEF DecideAlike
<1>2. {"p_obj", "d_obj", "q0_norm"} \subseteq Goal(r, my_cone(p))
  BY DEF Goal, Base
<1>3. v["p_obj"] = WholeOf("p_obj", r) /\ v["d_obj"] = WholeOf("d_obj", r)
      /\ v["q0_norm"] = WholeOf("q0_norm", r)
  BY <1>1, <1>2, Reading
<1> QED BY <1>3, SameNorms DEF Gaps

LEMMA ReadsStep ==
  ASSUME IsSetup(setup), NEW r, StageOK(r), NEW p \in Procs, NEW v, Knows(p, r, <<>>, v),
         r.pc \in {"step", "escaped"}
  PROVE  <<v.dot, v.q_dots, v.curvature_obj, v.slope>> = Readings(r)
<1>2. {"dot", "q_dots", "curvature_obj", "slope"} \subseteq Goal(r, my_cone(p))
  BY DEF Goal, StepNumbers
<1>3. v["dot"] = WholeOf("dot", r) /\ v["q_dots"] = WholeOf("q_dots", r)
      /\ v["curvature_obj"] = WholeOf("curvature_obj", r) /\ v["slope"] = WholeOf("slope", r)
  BY <1>2, Reading
<1> QED BY <1>3 DEF Readings

LEMMA ReadsConverged ==
  ASSUME DecideAlike(setup), NEW r, StageOK(r), NEW p \in Procs, NEW v, Knows(p, r, <<>>, v),
         r.pc = "converged"
  PROVE  <<v.grad_norm, Linf(coords(p)), RhsNorm(p)>> = Readings(r)
<1>1. IsSetup(setup)
  BY DEF DecideAlike
<1>2. "grad_norm" \in Goal(r, my_cone(p))
  BY DEF Goal
<1>3. v["grad_norm"] = WholeOf("grad_norm", r)
  BY <1>1, <1>2, Reading
<1> QED BY <1>3, SameNorms DEF Readings

LEMMA ReadsTerminate ==
  ASSUME DecideAlike(setup), NEW r, StageOK(r), NEW p \in Procs, NEW v, Knows(p, r, <<>>, v),
         r.pc = "terminate"
  PROVE  <<<<v.p_obj, v.d_obj, v.q0_norm, RhsNorm(p)>>, v.min_slack, v.free, ObjectiveNorm(p)>>
           = Readings(r)
<1>1. IsSetup(setup)
  BY DEF DecideAlike
<1>2. {"min_slack", "free"} \subseteq Goal(r, my_cone(p))
  BY DEF Goal, Residuals
<1>3. v["min_slack"] = WholeOf("min_slack", r) /\ v["free"] = WholeOf("free", r)
  BY <1>1, <1>2, Reading
<1> QED BY <1>3, ReadsGaps, SameNorms DEF Readings

\* At the other stages it reads one number.
ReadAt == [detect |-> "detect", winner |-> "lambda", rebuild |-> "winner", escape |-> "ready",
           count |-> "escapes", dual_step |-> "q0_norm", lift |-> "min_eigval",
           select |-> "strengths", weigh |-> "gram"]

\* A process that has made its calls reads what the stage is decided on.
LEMMA ReadsOne ==
  ASSUME IsSetup(setup), NEW r, StageOK(r), NEW p \in Procs, NEW v, Knows(p, r, <<>>, v),
         r.pc \in DOMAIN ReadAt, NEW x, x = ReadAt[r.pc]
  PROVE  v[x] = Readings(r)
<1>1. x \in Goal(r, my_cone(p)) /\ x \notin {"Ax", "q", "Hq"}
  BY DEF Goal, Base, ReadAt
<1>2. v[x] = WholeOf(x, r)
  BY <1>1, Reading
<1> QED BY <1>2 DEF Readings, ReadAt

-----------------------------------------------------------------------------
(* What a process brings from a stage to the next.                         *)

LEMMA LeavesTo ==
  ASSUME NEW r, NEW counters, NEW stationary, NEW n, n = LeaveStage(r, counters, stationary)
  PROVE  n.pc \in {"detect", "winner", "dual_step"} /\ n.checked /\ n.loop = counters
BY DEF LeaveStage, To

\* Where a stage goes on to, and what it keeps.
Onward(r, n) ==
  /\ r.pc = "head" => n.pc \in {"lift", "converged"} /\ n.loop.inner = r.loop.inner
  /\ r.pc \in {"converged", "step"} =>
       n.pc \in {"detect", "winner", "dual_step", "step", "converged"}
  /\ r.pc = "converged" => n.pc # "converged" /\ (n.pc = "step" \/ r.loop.inner > 0)
  /\ r.pc = "step" => n.pc # "step"
  /\ r.pc = "detect" => n.pc \in {"winner", "dual_step"}
  /\ r.pc = "winner" => n.pc \in {"count", "rebuild"}
  /\ r.pc = "rebuild" => n.pc = "escape" /\ n.winner = r.winner
  /\ r.pc = "escape" => n.pc \in {"escaped", "count"} /\ n.winner = r.winner
  /\ r.pc = "escaped" => n.pc = "count"
  /\ r.pc = "count" => n.pc \in {"converged", "dual_step"} /\ n.loop.inner = 0
  /\ r.pc = "dual_step" => n.pc \in {"gate", "converged"} /\ n.loop.inner = 0
  /\ r.pc = "gate" => n.pc \in {"lift", "terminate"} /\ n.loop = r.loop
  /\ r.pc = "lift" => n.pc \in {"terminate", "select"} /\ n.loop = r.loop
  /\ r.pc = "select" => n.pc = "weigh" /\ n.loop = r.loop
  /\ r.pc = "weigh" => n.pc = "terminate" /\ n.loop = r.loop
  /\ r.pc = "terminate" => n.pc \in {"head", "done"} /\ n.loop.inner = r.loop.inner
  /\ r.pc # "gate" => n.checked

LEMMA GoesOnward ==
  ASSUME NEW r, StageOK(r), r.pc \in Labels, NEW o, IsOption(r, o), NEW n, n = NextStage(r, o)
  PROVE  Onward(r, n)
<1>0. r.loop \in Counters
  BY DEF StageOK
<1>1. CASE r.pc = "head"
  <2>1. n = AfterHead(r, o)
    BY <1>1 DEF NextStage
  <2> DEFINE counters == [r.loop EXCEPT !.stalled = (o = "stalled")]
  <2>2. counters.inner = r.loop.inner
    BY <1>0 DEF Counters
  <2>3. n = IF o = "early" THEN To(r, "lift", counters, [c \in Cones |-> DualSlack(c)])
            ELSE To(r, "converged", counters, Same(compute_global_q0_norm \o GLOBAL_NORM))
    BY <2>1 DEF AfterHead
  <2> HIDE DEF counters
  <2> QED BY <1>1, <2>2, <2>3 DEF Onward, To
<1>2. CASE r.pc = "converged"
  <2>1. n = AfterConverged(r, o)
    BY <1>2 DEF NextStage
  <2>2. CASE o
    <3>1. n = LeaveStage(r, r.loop, TRUE)
      BY <2>1, <2>2 DEF AfterConverged
    <3>2. r.loop.inner > 0
      BY <1>2, <2>2 DEF IsOption
    <3>3. n.pc \in {"detect", "winner", "dual_step"} /\ n.checked
      BY <3>1 DEF LeaveStage, To
    <3> QED BY <1>2, <3>2, <3>3 DEF Onward
  <2>3. CASE ~ o
    BY <1>2, <2>1, <2>3 DEF AfterConverged, To, Onward
  <2> QED BY <2>2, <2>3
<1>3. CASE r.pc = "step"
  <2>1. n = AfterStep(r, o)
    BY <1>3 DEF NextStage
  <2> DEFINE counters == IF o THEN [r.loop EXCEPT !.inner = @ + 1] ELSE r.loop
  <2>2. n = IF o /\ r.loop.inner + 1 < inner_iterations_limit
            THEN To(r, "converged", counters, Same(COMPUTE_GRADIENT \o GLOBAL_NORM))
            ELSE LeaveStage(r, counters, ~o)
    BY <2>1 DEF AfterStep
  <2> HIDE DEF counters
  <2>3. CASE o /\ r.loop.inner + 1 < inner_iterations_limit
    BY <1>3, <2>2, <2>3 DEF Onward, To
  <2>4. CASE ~ (o /\ r.loop.inner + 1 < inner_iterations_limit)
    <3>1. n = LeaveStage(r, counters, ~o)
      BY <2>2, <2>4
    <3>2. n.pc \in {"detect", "winner", "dual_step"} /\ n.checked
      BY <3>1, LeavesTo
    <3> QED BY <1>3, <3>2 DEF Onward
  <2> QED BY <2>3, <2>4
<1>4. CASE r.pc = "detect"
  BY <1>4 DEF NextStage, AfterDetect, To, Onward
<1>5. CASE r.pc = "winner"
  BY <1>5 DEF NextStage, AfterWinner, To, Onward
<1>6. CASE r.pc = "rebuild"
  BY <1>6 DEF NextStage, AfterRebuild, To, Onward
<1>7. CASE r.pc = "escape"
  BY <1>7 DEF NextStage, AfterEscape, To, Onward
<1>8. CASE r.pc = "escaped"
  BY <1>8 DEF NextStage, AfterEscaped, To, Onward
<1>9. CASE r.pc = "count"
  <2> DEFINE counters == [r.loop EXCEPT !.esc = IF o THEN @ + 1 ELSE @, !.inner = 0]
  <2>1. n = AfterCount(r, o)
    BY <1>9 DEF NextStage
  <2>2. counters.inner = 0
    BY <1>0 DEF Counters
  <2>3. n = IF o THEN To(r, "converged", counters,
                         Same(COMPUTE_PRIMAL_RESIDUAL \o COMPUTE_GRADIENT \o GLOBAL_NORM))
            ELSE To(r, "dual_step", counters, Same(DualStepCalls))
    BY <2>1 DEF AfterCount
  <2> HIDE DEF counters
  <2>4. n.pc \in {"converged", "dual_step"} /\ n.loop = counters /\ n.checked
    BY <2>3 DEF To
  <2> QED BY <1>9, <2>2, <2>4 DEF Onward
<1>10. CASE r.pc = "dual_step"
  <2> DEFINE counters == [r.loop EXCEPT !.middle = @ + 1, !.inner = 0, !.esc = 0]
  <2>1. n = AfterDualStep(r, o)
    BY <1>10 DEF NextStage
  <2>2. counters.inner = 0
    BY <1>0 DEF Counters
  <2>3. n.pc \in {"gate", "converged"} /\ n.loop = counters /\ n.checked
    BY <2>1 DEF AfterDualStep, To
  <2> HIDE DEF counters
  <2> QED BY <1>10, <2>2, <2>3 DEF Onward
<1>11. CASE r.pc = "gate"
  <2>1. n = AfterGate(r, o) /\ o \in {"augment", "check", "go_on"}
    BY <1>11 DEF NextStage, IsOption
  <2>2. n.pc \in {"lift", "terminate"} /\ n.loop = r.loop
    BY <2>1 DEF AfterGate, Unlifted, To
  <2> QED BY <1>11, <2>2 DEF Onward
<1>12. CASE r.pc = "lift"
  <2>1. n = AfterLift(r, o)
    BY <1>12 DEF NextStage
  <2>2. n.pc \in {"select", "terminate"} /\ n.loop = r.loop /\ n.checked
    BY <2>1 DEF AfterLift, Unlifted, To
  <2> QED BY <1>12, <2>2 DEF Onward
<1>13. CASE r.pc = "select"
  <2>1. n = AfterSelect(r, o)
    BY <1>13 DEF NextStage
  <2>2. n.pc = "weigh" /\ n.loop = r.loop /\ n.checked
    BY <2>1 DEF AfterSelect, To
  <2> QED BY <1>13, <2>2 DEF Onward
<1>14. CASE r.pc = "weigh"
  <2>1. n = AfterWeigh(r, o)
    BY <1>14 DEF NextStage
  <2>2. n.pc = "terminate" /\ n.loop = r.loop /\ n.checked
    BY <2>1 DEF AfterWeigh, To
  <2> QED BY <1>14, <2>2 DEF Onward
<1>15. CASE r.pc = "terminate"
  <2> DEFINE counters == [r.loop EXCEPT !.outer = @ + 1, !.middle = 0]
  <2>1. n = AfterTerminate(r, o)
    BY <1>15 DEF NextStage
  <2>2. counters.inner = r.loop.inner
    BY <1>0 DEF Counters
  <2>3. n.pc \in {"head", "done"} /\ n.loop = counters /\ n.checked
    BY <2>1 DEF AfterTerminate, To
  <2> HIDE DEF counters
  <2> QED BY <1>15, <2>2, <2>3 DEF Onward
<1> QED BY <1>1, <1>2, <1>3, <1>4, <1>5, <1>6, <1>7, <1>8, <1>9, <1>10, <1>11, <1>12, <1>13,
           <1>14, <1>15 DEF Labels

LEMMA QuietNext ==
  ASSUME IsSetup(setup), NEW r, r.pc \in Labels, StageOK(r), Quiet(r), NEW o, IsOption(r, o),
         NEW n, n = NextStage(r, o)
  PROVE  Quiet(n)
<1>1. Onward(r, n)
  BY GoesOnward
<1>2. n.pc \in {"head", "gate", "lift", "select", "weigh", "terminate"} => n.loop.inner = 0
  BY <1>1 DEF Labels, Quiet, Onward
<1>3. ASSUME Lifted(n) PROVE (\A c \in Cones : IsFound(n.eig[c], c)) /\ n.kept = KeptAfter(n)
  <2>1. n.pc = "weigh" \/ (n.pc = "terminate" /\ n.kept # null)
    BY <1>3 DEF Lifted
  <2>2. r.pc \in {"gate", "lift", "select", "weigh"}
    BY <1>1, <2>1 DEF Labels, Onward
  <2>3. r.pc \notin {"gate", "lift"}
    <3>1. ASSUME r.pc = "gate" PROVE FALSE
      <4>1. n = AfterGate(r, o) /\ o \in {"augment", "check", "go_on"}
        BY <3>1 DEF NextStage, IsOption
      <4> QED BY <2>1, <4>1 DEF AfterGate, Unlifted, To
    <3>2. ASSUME r.pc = "lift" PROVE FALSE
      <4>1. n = AfterLift(r, o)
        BY <3>2 DEF NextStage
      <4> QED BY <2>1, <4>1 DEF AfterLift, Unlifted, To
    <3> QED BY <3>1, <3>2
  <2>4. CASE r.pc = "select"
    <3>1. n = AfterSelect(r, o) /\ \A c \in Cones : IsFound(r.eig[c], c)
      BY <2>4 DEF NextStage, StageOK
    <3>2. n.eig = r.eig /\ n.kept = KeptAfter(r)
      BY <3>1 DEF AfterSelect, To
    <3> QED BY <3>1, <3>2 DEF KeptAfter, StrengthParts
  <2>5. CASE r.pc = "weigh"
    <3>1. n = AfterWeigh(r, o) /\ (\A c \in Cones : IsFound(r.eig[c], c)) /\ r.kept = KeptAfter(r)
      BY <2>5 DEF NextStage, Quiet, Lifted
    <3>2. n.eig = r.eig /\ n.kept = r.kept
      BY <3>1 DEF AfterWeigh, To
    <3> QED BY <3>1, <3>2 DEF KeptAfter, StrengthParts
  <2> QED BY <2>2, <2>3, <2>4, <2>5
<1> QED BY <1>2, <1>3 DEF Quiet

\* Whatever it brings it has.
LEMMA BroughtIsHad ==
  ASSUME NEW r, r.pc \in Labels, Quiet(r), NEW n, Onward(r, n), NEW c, NEW x \in Brought(r, n, c),
         ~ (x \in Residuals /\ ~ n.checked)
  PROVE  /\ x \in Goal(r, c)
         /\ x \in Quantities
         /\ x \in Base \union {"dot", "HV"} \union {"winner"} \union Residuals
         /\ x = "winner" => n.winner = r.winner
         /\ x \in Residuals => n.checked /\ r.pc \in {"lift", "select", "weigh"}
<1> DEFINE R == /\ x \in Goal(r, c)
                /\ x \in Base \union {"dot", "HV"} \union {"winner"} \union Residuals
                /\ x = "winner" => n.winner = r.winner
                /\ x \in Residuals => n.checked /\ r.pc \in {"lift", "select", "weigh"}
           H == IF c = r.winner[1] THEN {"HV"} ELSE {}
<1>0. ASSUME x \in Base \union {"dot"}, x \in Goal(r, c) PROVE R
  BY <1>0 DEF Base, Residuals
<1> HIDE DEF H
<1> SUFFICES R
  BY DEF Quantities, Base, Residuals
<1>1. CASE r.pc = "head"
  <2>1. Brought(r, n, c) \subseteq Base
    BY <1>1 DEF Onward, Quiet, Brought
  <2>2. Base \subseteq Goal(r, c)
    BY <1>1 DEF Goal
  <2> QED BY <1>0, <2>1, <2>2
<1>2. CASE r.pc = "converged"
  <2>1. CASE n.pc = "step"
    <3>1. Brought(r, n, c) \subseteq Base
      BY <2>1 DEF Brought
    <3>2. Base \subseteq Goal(r, c)
      BY <1>2 DEF Goal
    <3> QED BY <1>0, <3>1, <3>2
  <2>2. CASE n.pc # "step"
    <3>1. n.pc \in {"detect", "winner", "dual_step"} /\ r.loop.inner > 0
      BY <1>2, <2>2 DEF Onward
    <3>2. Brought(r, n, c) \subseteq Base \union {"dot"}
      BY <3>1 DEF Brought
    <3>3. Base \union {"dot"} \subseteq Goal(r, c)
      BY <1>2, <3>1 DEF Goal
    <3> QED BY <1>0, <3>2, <3>3
  <2> QED BY <2>1, <2>2
<1>3. CASE r.pc = "step"
  <2>1. Brought(r, n, c) \subseteq Base \union {"dot"}
    BY <1>3 DEF Onward, Brought
  <2>2. Base \union {"dot"} \subseteq Goal(r, c)
    BY <1>3 DEF Goal
  <2> QED BY <1>0, <2>1, <2>2
<1>4. CASE r.pc = "detect"
  <2>1. Brought(r, n, c) \subseteq Base \union {"dot"}
    BY <1>4 DEF Onward, Brought
  <2>2. Base \union {"dot"} \subseteq Goal(r, c)
    BY <1>4 DEF Goal
  <2> QED BY <1>0, <2>1, <2>2
<1>5. CASE r.pc = "winner"
  <2>1. Brought(r, n, c) \subseteq Base \union {"dot"}
    BY <1>5 DEF Onward, Brought
  <2>2. Base \union {"dot"} \subseteq Goal(r, c)
    BY <1>5 DEF Goal
  <2> QED BY <1>0, <2>1, <2>2
<1>6. CASE r.pc = "rebuild"
  <2>1. Brought(r, n, c) = Base \union {"dot", "winner"} /\ n.winner = r.winner
    BY <1>6 DEF Onward, Brought
  <2>2. Goal(r, c) = Base \union {"dot", "winner"}
    BY <1>6 DEF Goal
  <2>3. Residuals \cap (Base \union {"dot", "winner"}) = {}
    BY DEF Base, Residuals
  <2> QED BY <2>1, <2>2, <2>3
<1>7. CASE r.pc = "escape"
  <2>1. Brought(r, n, c) \subseteq Base \union {"dot", "winner"} \union H /\ n.winner = r.winner
    BY <1>7 DEF Onward, Brought, H
  <2>2. Goal(r, c) = Base \union {"dot", "winner", "ready"} \union H /\ H \subseteq {"HV"}
    BY <1>7 DEF Goal, H
  <2>3. Residuals \cap (Base \union {"dot", "winner", "HV"}) = {}
    BY DEF Base, Residuals
  <2> QED BY <2>1, <2>2, <2>3
<1>8. CASE r.pc = "escaped"
  <2>1. Brought(r, n, c) \subseteq Base
    BY <1>8 DEF Onward, Brought
  <2>2. Base \subseteq Goal(r, c)
    BY <1>8 DEF Goal
  <2> QED BY <1>0, <2>1, <2>2
<1>9. CASE r.pc = "count"
  <2>1. Brought(r, n, c) \subseteq Base
    BY <1>9 DEF Onward, Brought
  <2>2. Base \subseteq Goal(r, c)
    BY <1>9 DEF Goal
  <2> QED BY <1>0, <2>1, <2>2
<1>10. CASE r.pc = "dual_step"
  <2>1. Brought(r, n, c) \subseteq Base
    BY <1>10 DEF Onward, Brought
  <2>2. Base \subseteq Goal(r, c)
    BY <1>10 DEF Goal
  <2> QED BY <1>0, <2>1, <2>2
<1>11. CASE r.pc = "gate"
  <2>1. Brought(r, n, c) \subseteq Base \union (IF n.checked THEN {} ELSE Residuals)
    BY <1>11 DEF Onward, Brought
  <2>2. Goal(r, c) = Base
    BY <1>11 DEF Goal
  <2>3. x \in Base
    BY <2>1
  <2> QED BY <1>0, <2>2, <2>3
<1>12. CASE r.pc = "lift"
  <2>1. Brought(r, n, c) = Base \union Residuals
    BY <1>12 DEF Onward, Brought
  <2>2. Base \union Residuals \subseteq Goal(r, c)
    BY <1>12 DEF Goal
  <2>3. "winner" \notin Base \union Residuals /\ n.checked
    BY <1>12 DEF Base, Residuals, Onward
  <2> QED BY <1>12, <2>1, <2>2, <2>3
<1>13. CASE r.pc = "select"
  <2>1. Brought(r, n, c) = Base \union Residuals
    BY <1>13 DEF Onward, Brought
  <2>2. Base \union Residuals \subseteq Goal(r, c)
    BY <1>13 DEF Goal
  <2>3. "winner" \notin Base \union Residuals /\ n.checked
    BY <1>13 DEF Base, Residuals, Onward
  <2> QED BY <1>13, <2>1, <2>2, <2>3
<1>14. CASE r.pc = "weigh"
  <2>1. Brought(r, n, c) = Base \union Residuals
    BY <1>14 DEF Onward, Brought
  <2>2. Base \union Residuals \subseteq Goal(r, c)
    BY <1>14 DEF Goal
  <2>3. "winner" \notin Base \union Residuals /\ n.checked
    BY <1>14 DEF Base, Residuals, Onward
  <2> QED BY <1>14, <2>1, <2>2, <2>3
<1>15. CASE r.pc = "terminate"
  <2>1. Brought(r, n, c) = {}
    BY <1>15 DEF Onward, Brought
  <2> QED BY <2>1
<1> QED
  BY <1>1, <1>2, <1>3, <1>4, <1>5, <1>6, <1>7, <1>8, <1>9, <1>10, <1>11, <1>12, <1>13,
     <1>14, <1>15 DEF Labels

\* A process arrives at the next stage with what it has of the last and what
\* it tells there.
LEMMA Carried ==
  ASSUME IsSetup(setup), NEW r, StageOK(r), Quiet(r), r.pc \in Labels, NEW n, Onward(r, n),
         NEW p \in Procs, NEW v, Knows(p, r, <<>>, v),
         NEW w, \A x \in Brought(r, n, my_cone(p)) :
                  w[x] = IF x \in Residuals /\ ~ n.checked THEN EmptyBag ELSE v[x],
         n.pc \in DOMAIN Tells => w[Tells[n.pc]] = SetToBag(TermSet(Tells[n.pc], p, n))
  PROVE  /\ Named(Arrives(r, n, my_cone(p)))
         /\ Matches(p, n, w, Arrives(r, n, my_cone(p)))
<1> DEFINE B == Brought(r, n, my_cone(p))
<1>1. ASSUME NEW x \in B PROVE x \in Quantities /\ w[x] = Total(x, p, Full(x), n)
  <2>1. CASE x \in Residuals /\ ~ n.checked
    <3>1. \A u : TermSet(x, u, n) = {}
      BY <2>1 DEF TermSet, Residuals
    <3>2. Terms(x, p, Full(x), n) = {}
      BY <3>1 DEF Terms
    <3>3. Total(x, p, Full(x), n) = EmptyBag
      BY <3>2 DEF Total, EmptyBag
    <3> QED BY <2>1, <3>3 DEF Residuals, Quantities
  <2>2. CASE ~ (x \in Residuals /\ ~ n.checked)
    <3>1. /\ x \in Goal(r, my_cone(p))
          /\ x \in Quantities
          /\ x \in Base \union {"dot", "HV"} \union {"winner"} \union Residuals
          /\ x = "winner" => n.winner = r.winner
          /\ x \in Residuals => n.checked /\ r.pc \in {"lift", "select", "weigh"}
      BY <2>2, BroughtIsHad
    <3>2. x \in Residuals => n.checked /\ r.checked
      BY <3>1 DEF StageOK
    <3>3. \A u : TermSet(x, u, n) = TermSet(x, u, r)
      <4>1. CASE x \in Base \union {"dot", "HV"}
        BY <4>1 DEF TermSet, Base
      <4>2. CASE x = "winner"
        BY <3>1, <4>2 DEF TermSet
      <4>3. CASE x \in Residuals
        BY <3>2, <4>3 DEF TermSet, Residuals
      <4> QED BY <3>1, <4>1, <4>2, <4>3
    <3>4. Total(x, p, Full(x), n) = Total(x, p, Full(x), r)
      <4>1. \A d : d \in Terms(x, p, Full(x), n) <=> d \in Terms(x, p, Full(x), r)
        BY <3>3 DEF Terms
      <4>2. Terms(x, p, Full(x), n) = Terms(x, p, Full(x), r)
        BY <4>1
      <4> QED BY <4>2 DEF Total
    <3>5. v[x] = Total(x, p, Full(x), r)
      BY <3>1, HasWholes
    <3> QED BY <2>2, <3>1, <3>4, <3>5
  <2> QED BY <2>1, <2>2
<1>2. ASSUME n.pc \in DOMAIN Tells
      PROVE  Tells[n.pc] \in Quantities
             /\ w[Tells[n.pc]] = Total(Tells[n.pc], p, {}, n)
  <2>1. Tells[n.pc] \in Quantities
    BY <1>2 DEF Tells, Quantities
  <2> QED BY <1>2, <2>1, TotalNone
<1>3. ASSUME NEW f \in Arrives(r, n, my_cone(p))
      PROVE  f[1] \in Quantities /\ w[f[1]] = Total(f[1], p, f[2], n)
  <2>1. CASE f \in Wholes(B)
    <3>1. PICK x \in B : f = <<x, Full(x)>>
      BY <2>1 DEF Wholes
    <3> QED BY <1>1, <3>1
  <2>2. CASE n.pc \in DOMAIN Tells /\ f = <<Tells[n.pc], {}>>
    BY <1>2, <2>2
  <2> QED BY <2>1, <2>2 DEF Arrives, Told
<1> QED BY <1>3 DEF Named, Matches

-----------------------------------------------------------------------------
(* A process decides: the story goes on, or what was decided is found in   *)
(* it, and what all have come to is forgotten.                             *)

Appended(t, x, s) ==
  /\ Len(t) \in Nat
  /\ IsList(s)
  /\ Len(s) = Len(t) + 1
  /\ s[Len(t) + 1] = x
  /\ \A k \in 1..Len(t) : s[k] = t[k]

LEMMA ListMore ==
  ASSUME NEW t, IsList(t), NEW x, NEW s, s = Append(t, x)
  PROVE  Appended(t, x, s)
<1>1. PICK A : \E n \in Nat : t \in [1..n -> A]
  BY DEF IsList
<1>2. PICK n \in Nat : t \in [1..n -> A]
  BY <1>1
<1> DEFINE B == A \union {x}
<1>3. t \in Seq(B) /\ Len(t) = n /\ x \in B
  BY <1>2
<1> HIDE DEF B
<1>4. /\ s \in Seq(B) /\ Len(s) = n + 1 /\ s[n + 1] = x
      /\ \A k \in 1..n : s[k] = t[k]
  BY <1>3, AppendProperties
<1>5. s \in [1..(n + 1) -> B]
  BY <1>4, LenProperties
<1>6. IsList(s)
  <2>1. n + 1 \in Nat
    OBVIOUS
  <2> QED BY <1>5, <2>1 DEF IsList
<1> QED BY <1>3, <1>4, <1>6 DEF Appended

LEMMA ListLess ==
  ASSUME NEW t, IsList(t), NEW past \in 0..Len(t), NEW s, s = SubSeq(t, past + 1, Len(t))
  PROVE  /\ Len(t) \in Nat
         /\ IsList(s)
         /\ Len(s) = Len(t) - past
         /\ \A k \in 1..(Len(t) - past) : s[k] = t[k + past]
<1>1. PICK A : \E n \in Nat : t \in [1..n -> A]
  BY DEF IsList
<1>2. PICK n \in Nat : t \in [1..n -> A]
  BY <1>1
<1>3. t \in Seq(A) /\ Len(t) = n
  BY <1>2
<1>4. past \in Nat /\ past <= n
  BY <1>3
<1>5. past + 1 \in 1..(n + 1) /\ n \in (past + 1 - 1)..n
  BY <1>4
<1>6. /\ s \in Seq(A) /\ Len(s) = IF past + 1 <= n THEN n - (past + 1) + 1 ELSE 0
      /\ \A k \in 1..Len(s) : s[k] = t[(past + 1) + k - 1]
  BY <1>3, <1>5, SubSeqProperties
<1>7. Len(s) = n - past
  BY <1>4, <1>6
<1>8. \A k \in 1..(n - past) : s[k] = t[k + past]
  <2> TAKE k \in 1..(n - past)
  <2>1. (past + 1) + k - 1 = k + past
    BY <1>4
  <2> QED BY <1>6, <1>7, <2>1
<1>9. s \in [1..(n - past) -> A] /\ n - past \in Nat
  BY <1>4, <1>6, <1>7, LenProperties
<1> QED BY <1>3, <1>7, <1>8, <1>9 DEF IsList

\* The story goes on.
Continued(st, lv, t, next, st2, lv2, s) ==
  /\ Story(st2, lv2, s)
  /\ st2[Len(t) + 1] = next
  /\ \A k \in 0..Len(t) : st2[k] = st[k] /\ lv2[k] = lv[k]

\* A decision taken first makes the story longer by a stage.
LEMMA StoryMore ==
  ASSUME IsSetup(setup), NEW st, NEW lv, NEW t, Story(st, lv, t), NEW r, r = st[Len(t)],
         r.pc \in Labels, NEW o, IsOption(r, o), NEW u, u = [k \in {KeyOf(r)} |-> o]
  PROVE  \E st2, lv2 : Continued(st, lv, t, NextStage(r, o), st2, lv2, Append(t, u))
<1> DEFINE m == Len(t)
           s == Append(t, u)
           next == NextStage(r, o)
<1>1. m \in Nat /\ IsList(s) /\ Len(s) = m + 1 /\ s[m + 1] = u /\ \A k \in 1..m : s[k] = t[k]
  <2>1. IsList(t)
    BY DEF Story
  <2>2. s = Append(t, u)
    OBVIOUS
  <2> HIDE DEF s
  <2>3. Appended(t, u, s)
    BY <2>1, <2>2, ListMore
  <2> QED BY <2>3 DEF Appended
<1>2. StageOK(r) /\ Quiet(r)
  BY <1>1 DEF Story
<1>3. StepOK(r, next)
  BY <1>2, FromAny DEF Labels
<1>4. Quiet(next)
  BY <1>2, QuietNext
<1>5. PICK lev : Leveled(next, lev)
  BY <1>3 DEF StepOK, StageOK, Aligned, Leveled
<1> HIDE DEF next
<1> DEFINE st2 == [k \in 0..(m + 1) |-> IF k = m + 1 THEN next ELSE st[k]]
           lv2 == [k \in 0..(m + 1) |-> IF k = m + 1 THEN lev ELSE lv[k]]
<1>6. /\ st2[m + 1] = next /\ lv2[m + 1] = lev
      /\ \A k \in 0..m : st2[k] = st[k] /\ lv2[k] = lv[k]
  BY <1>1
<1> HIDE DEF st2, lv2, s
<1>7. \A k \in 0..(m + 1) : StageOK(st2[k]) /\ Quiet(st2[k]) /\ Leveled(st2[k], lv2[k])
  <2> TAKE k \in 0..(m + 1)
  <2>1. CASE k = m + 1
    BY <1>3, <1>4, <1>5, <1>6, <2>1 DEF StepOK
  <2>2. CASE k \in 0..m
    BY <1>6, <2>2 DEF Story
  <2> QED BY <1>1, <2>1, <2>2
<1>8. \A k \in 1..(m + 1) : Follows(st2[k - 1], st2[k], s[k])
  <2> TAKE k \in 1..(m + 1)
  <2>1. CASE k = m + 1
    <3>1. st2[k - 1] = r /\ st2[k] = next /\ s[k] = u
      BY <1>1, <1>6, <2>1
    <3>2. Follows(r, next, u)
      BY DEF Follows, next
    <3> QED BY <3>1, <3>2
  <2>2. CASE k \in 1..m
    <3>1. k \in 0..m /\ k - 1 \in 0..m
      BY <1>1, <2>2
    <3>2. st2[k - 1] = st[k - 1] /\ st2[k] = st[k] /\ s[k] = t[k]
      BY <1>1, <1>6, <2>2, <3>1
    <3>3. Follows(st[k - 1], st[k], t[k])
      BY <2>2 DEF Story
    <3> QED BY <3>2, <3>3
  <2> QED BY <1>1, <2>1, <2>2
<1>9. Story(st2, lv2, s)
  BY <1>1, <1>7, <1>8 DEF Story
<1>10. Continued(st, lv, t, next, st2, lv2, s)
  BY <1>6, <1>9 DEF Continued
<1> QED BY <1>10 DEF s, next

\* Its beginning is forgotten.
LEMMA StoryLess ==
  ASSUME NEW st, NEW lv, NEW t, Story(st, lv, t), NEW past \in 0..Len(t),
         NEW st2, NEW lv2, Shorter(st, lv, past, Len(t), st2, lv2)
  PROVE  Story(st2, lv2, SubSeq(t, past + 1, Len(t)))
<1> USE DEF Shorter
<1> DEFINE m == Len(t)
           s == SubSeq(t, past + 1, Len(t))
<1>1. m \in Nat /\ IsList(s) /\ Len(s) = m - past /\ \A k \in 1..(m - past) : s[k] = t[k + past]
  BY ListLess DEF Story
<1> HIDE DEF s
<1>2. \A k \in 0..(m - past) : StageOK(st2[k]) /\ Quiet(st2[k]) /\ Leveled(st2[k], lv2[k])
  <2> TAKE k \in 0..(m - past)
  <2>1. k + past \in 0..m
    BY <1>1
  <2> QED BY <2>1 DEF Story
<1>3. \A k \in 1..(m - past) : Follows(st2[k - 1], st2[k], s[k])
  <2> TAKE k \in 1..(m - past)
  <2>1. k + past \in 1..m /\ k \in 0..(m - past) /\ k - 1 \in 0..(m - past)
        /\ (k + past) - 1 = (k - 1) + past
    BY <1>1
  <2>2. st2[k - 1] = st[(k + past) - 1] /\ st2[k] = st[k + past] /\ s[k] = t[k + past]
    BY <1>1, <2>1
  <2>3. Follows(st[(k + past) - 1], st[k + past], t[k + past])
    BY <2>1 DEF Story
  <2> QED BY <2>2, <2>3
<1> QED BY <1>1, <1>2, <1>3 DEF Story, s

\* What p decided at the stage r, where the story goes on to st1 and all is
\* all that was decided.
Later(p) == [heard EXCEPT ![p] = heard[p] + 1]

Past(p) == Min({Later(p)[q] : q \in Procs})

Chose(p, r, o, st, lv, st1, lv1, all) ==
  /\ IsOption(r, o)
  /\ Story(st1, lv1, all)
  /\ Len(all) \in Nat
  /\ \/ Len(all) = Len(told)
     \/ Len(all) = Len(told) + 1
  /\ heard[p] + 1 <= Len(all)
  /\ \A k \in 0..Len(told) : st1[k] = st[k] /\ lv1[k] = lv[k]
  /\ st1[heard[p] + 1] = NextStage(r, o)
  /\ told' = SubSeq(all, Past(p) + 1, Len(all))
  /\ heard' = [q \in Procs |-> Later(p)[q] - Past(p)]

\* Who decides first writes the decision into the story; who comes later finds
\* the same reading there and decides the same.
LEMMA Chosen ==
  ASSUME IsSetup(setup), NEW st, NEW lv, Story(st, lv, told),
         \A q \in Procs : heard[q] \in 0..Len(told),
         NEW p \in Procs, NEW r, r = st[heard[p]], r.pc \in Labels,
         NEW reads, <<pc[p], reads>> = KeyOf(r),
         NEW options, \A e \in options : IsOption(r, e), NEW o, Decides(p, reads, options, o)
  PROVE  \E st1, lv1, all : Chose(p, r, o, st, lv, st1, lv1, all)
<1> DEFINE n == heard[p] + 1
           key == <<pc[p], reads>>
           known == n <= Len(told) /\ key \in DOMAIN told[n]
           all == IF n > Len(told) THEN Append(told, [k \in {key} |-> o])
                  ELSE [told EXCEPT ![n] = [k \in DOMAIN told[n] \union {key} |->
                                              IF k \in DOMAIN told[n] THEN told[n][k] ELSE o]]
<1>1. /\ o \in (IF known THEN {told[n][key]} ELSE options)
      /\ told' = SubSeq(all, Past(p) + 1, Len(all))
      /\ heard' = [q \in Procs |-> Later(p)[q] - Past(p)]
  BY DEF Decides, Past, Later
<1>2. Len(told) \in Nat /\ heard[p] \in Nat /\ n \in Nat /\ key = KeyOf(r)
  <2>1. \E A : \E i \in Nat : told \in [1..i -> A]
    BY DEF Story, IsList
  <2> QED BY <2>1
<1>3. CASE n > Len(told)
  <2>1. heard[p] = Len(told) /\ n = Len(told) + 1
    BY <1>2, <1>3
  <2>2. o \in options
    BY <1>1, <1>2, <1>3
  <2> DEFINE u == [k \in {KeyOf(r)} |-> o]
  <2>3. all = Append(told, u)
    BY <1>2, <1>3
  <2> HIDE DEF u, all
  <2>4. \E st1, lv1 : Continued(st, lv, told, NextStage(r, o), st1, lv1, Append(told, u))
    <3>1. r = st[Len(told)] /\ IsOption(r, o)
      BY <2>1, <2>2
    <3>2. u = [k \in {KeyOf(r)} |-> o]
      BY DEF u
    <3> HIDE DEF n, key, known
    <3> QED BY <3>1, <3>2, StoryMore
  <2>5. PICK st1, lv1 : Continued(st, lv, told, NextStage(r, o), st1, lv1, Append(told, u))
    BY <2>4
  <2>6. Len(all) = Len(told) + 1
    <3>1. IsList(told)
      BY DEF Story
    <3>2. Appended(told, u, all)
      BY <2>3, <3>1, ListMore
    <3> QED BY <3>2 DEF Appended
  <2>7. Chose(p, r, o, st, lv, st1, lv1, all)
    <3> HIDE DEF known
    <3>1. Story(st1, lv1, all)
      BY <2>3, <2>5 DEF Continued
    <3>2. st1[heard[p] + 1] = NextStage(r, o) /\ \A k \in 0..Len(told) : st1[k] = st[k] /\ lv1[k] = lv[k]
      BY <2>1, <2>5 DEF Continued
    <3>3. IsOption(r, o) /\ heard[p] + 1 <= Len(all) /\ Len(all) \in Nat
      BY <1>2, <2>1, <2>2, <2>6
    <3> QED BY <1>1, <2>6, <3>1, <3>2, <3>3 DEF Chose
  <2> QED BY <2>7
<1>4. CASE n <= Len(told)
  <2>1. n \in 1..Len(told) /\ n - 1 = heard[p] /\ n \in 0..Len(told)
    BY <1>2, <1>4
  <2>2. Follows(r, st[n], told[n])
    BY <2>1 DEF Story
  <2>3. PICK e : IsOption(r, e) /\ told[n] = [k \in {KeyOf(r)} |-> e] /\ st[n] = NextStage(r, e)
    BY <2>2 DEF Follows
  <2>4. DOMAIN told[n] = {key} /\ told[n][key] = e
    BY <1>2, <2>3
  <2>5. o = e
    BY <1>1, <1>4, <2>4
  <2>6. [k \in DOMAIN told[n] \union {key} |-> IF k \in DOMAIN told[n] THEN told[n][k] ELSE o] = told[n]
    BY <1>2, <2>3, <2>4
  <2>7. all = [told EXCEPT ![n] = told[n]]
    <3> DEFINE same == [k \in DOMAIN told[n] \union {key} |->
                          IF k \in DOMAIN told[n] THEN told[n][k] ELSE o]
    <3>1. all = IF n > Len(told) THEN Append(told, [k \in {key} |-> o])
                ELSE [told EXCEPT ![n] = same]
      OBVIOUS
    <3>2. same = told[n]
      BY <2>6
    <3> HIDE DEF same, all
    <3> QED BY <1>2, <1>4, <3>1, <3>2
  <2>8. all = told
    <3>1. PICK A : \E i \in Nat : told \in [1..i -> A]
      BY DEF Story, IsList
    <3> HIDE DEF all
    <3> QED BY <2>7, <3>1
  <2> HIDE DEF all
  <2>9. Chose(p, r, o, st, lv, st, lv, all)
    BY <1>1, <1>2, <1>4, <2>3, <2>5, <2>8 DEF Chose
  <2> QED BY <2>9
<1> QED BY <1>2, <1>3, <1>4

-----------------------------------------------------------------------------
(* A process goes on to the next stage.                                    *)

Holds(st, lv, pos) == Hold(st, lv, pos, told, heard, pc, loop, rank_list, lift, todo, val)

LEMMA PastIs ==
  ASSUME NEW p \in Procs, NEW T \in Nat, HaveCome(heard, T), OfAll(heard)
  PROVE  /\ Past(p) \in Nat
         /\ \A q \in Procs : Past(p) <= Later(p)[q]
         /\ \A q \in Procs : Later(p)[q] = IF q = p THEN heard[p] + 1 ELSE heard[q]
<1>1. \A q \in Procs : Later(p)[q] = IF q = p THEN heard[p] + 1 ELSE heard[q]
  BY DEF Later, OfAll
<1>0. \A q \in Procs : heard[q] \in 0..T
  BY DEF HaveCome
<1> DEFINE S == {Later(p)[q] : q \in Procs}
<1>2. S \subseteq 0..(T + 1) /\ S # {}
  BY <1>0, <1>1
<1>3. IsFiniteSet(S) /\ S \in SUBSET Int /\ S \subseteq Nat
  <2>1. IsFiniteSet(0..(T + 1))
    BY FS_Interval
  <2>2. IsFiniteSet(S)
    BY <1>2, <2>1, FS_Subset
  <2>3. 0..(T + 1) \subseteq Nat /\ 0..(T + 1) \subseteq Int
    OBVIOUS
  <2> QED BY <1>2, <2>2, <2>3
<1>4. \E x \in S : \A y \in S : x <= y
  BY <1>2, <1>3, MinimumExists
<1>5. Past(p) \in S /\ \A y \in S : Past(p) <= y
  BY <1>4 DEF Past, Min
<1> QED BY <1>1, <1>3, <1>5

LEMMA AtEnd ==
  ASSUME IsSetup(setup), NEW r, NEW lev, Leveled(r, lev), NEW p \in Procs, NEW i \in 0..Len(CallsOf(r, p)),
         <<>> = SubSeq(CallsOf(r, p), i + 1, Len(CallsOf(r, p)))
  PROVE  i = Len(CallsOf(r, p)) /\ i \in Nat
<1> DEFINE L == CallsOf(r, p)
<1>1. L \in Seq(Calls)
  BY CallsList
<1> HIDE DEF L
<1>2. Len(L) \in Nat /\ i = Len(L)
  BY <1>1, RestOf DEF L
<1> QED BY <1>2 DEF L

\* What was decided is added to the story, and what all have come to is
\* left out of it.
Afterwards(p, all, st2, lv2, pos2) ==
  /\ Past(p) \in 0..Len(all)
  /\ \A q \in Procs : Past(p) <= Later(p)[q]
  /\ \A q \in Procs : heard'[q] = Later(p)[q] - Past(p)
  /\ \A q \in Procs : Later(p)[q] = IF q = p THEN heard[p] + 1 ELSE heard[q]
  /\ \A q \in Procs : Later(p)[q] \in 0..Len(all)
  /\ Together(st2, lv2, Len(all) - Past(p), heard', pos2)

Leads(p, r, n, pos, m, pos2) ==
  /\ pos[p] = Len(CallsOf(r, p)) /\ pos[p] \in Nat
  /\ \A i \in 1..m : Alone(p, CallsOf(n, p)[i])
  /\ \A q \in Procs : pos2[q] = IF q = p THEN m ELSE pos[q]

LEMMA TogetherAfter ==
  ASSUME IsSetup(setup), NEW st, NEW lv, NEW pos, Holds(st, lv, pos), NEW p \in Procs, NEW r,
         r = st[heard[p]], NEW o, NEW st1, NEW lv1, NEW all, Chose(p, r, o, st, lv, st1, lv1, all),
         NEW n, n = NextStage(r, o), NEW m \in Nat, NEW pos2, Leads(p, r, n, pos, m, pos2),
         NEW st2, NEW lv2, Shorter(st1, lv1, Past(p), Len(all), st2, lv2)
  PROVE  Afterwards(p, all, st2, lv2, pos2)
<1> DEFINE N == Len(all)
           T == Len(told)
           past == Past(p)
<1>1. T \in Nat /\ N \in Nat /\ (N = T \/ N = T + 1) /\ heard[p] + 1 <= N
  <2>1. \E A : \E i \in Nat : told \in [1..i -> A]
    BY DEF Holds, Hold, Story, IsList
  <2> QED BY <2>1 DEF Chose
<1>2. (\A q \in Procs : heard[q] \in 0..T /\ heard[q] \in Nat) /\ HaveCome(heard, T)
  BY DEF Holds, Hold, HaveCome
<1>3. past \in Nat /\ (\A q \in Procs : past <= Later(p)[q])
      /\ \A q \in Procs : Later(p)[q] = IF q = p THEN heard[p] + 1 ELSE heard[q]
  <2>1. OfAll(heard)
    BY DEF Holds, Hold
  <2> HIDE DEF T
  <2> QED BY <1>1, <1>2, <2>1, PastIs
<1>4. past <= heard[p] + 1 /\ past \in 0..N
  <2>1. past <= heard[p] + 1
    <3>1. past <= Later(p)[p] /\ Later(p)[p] = heard[p] + 1
      BY <1>3
    <3> QED BY <3>1
  <2> HIDE DEF past, N
  <2> QED BY <1>1, <1>2, <1>3, <2>1
<1>5. \A k \in 0..T : st1[k] = st[k] /\ lv1[k] = lv[k]
  BY DEF Chose
<1>6. Together(st, lv, T, heard, pos)
  BY DEF Holds, Hold
<1> HIDE DEF N, T, past
<1>7. Together(st1, lv1, N, heard, pos)
  <2>1. CASE N = T + 1
    <3>1. Shorter(st, lv, 0, T, st1, lv1)
      BY <1>1, <1>5 DEF Shorter
    <3> QED BY <1>1, <1>2, <1>6, <2>1, <3>1, TogetherMore
  <2>2. CASE N = T
    BY <1>5, <1>6, <2>2 DEF Together
  <2> QED BY <1>1, <2>1, <2>2
<1>8. st1[heard[p] + 1] = n /\ st1[heard[p]] = r
  BY <1>2, <1>5 DEF Chose
<1>9. Together(st1, lv1, N, Later(p), pos2)
  <2> DEFINE k == heard[p]
             h2 == Later(p)
  <2>1. k \in Nat /\ k + 1 <= N
    BY <1>1, <1>2
  <2>2. Advances(st1, heard, pos, p, k, m, h2, pos2)
    BY <1>2, <1>3, <1>8 DEF Advances, Leads
  <2> HIDE DEF h2, k
  <2>4. Together(st1, lv1, N, h2, pos2)
    BY <1>1, <1>7, <2>1, <2>2, TogetherMoved
  <2> QED BY <2>4 DEF h2
<1>10. \A q \in Procs : Later(p)[q] \in 0..N
  <2> TAKE q \in Procs
  <2>1. CASE q = p
    BY <1>1, <1>2, <1>3, <2>1
  <2>2. CASE q # p
    BY <1>1, <1>2, <1>3, <2>2
  <2> QED BY <2>1, <2>2
<1>11. \A q \in Procs : heard'[q] = Later(p)[q] - past
  BY DEF Chose, past
<1>12. Together(st2, lv2, N - past, heard', pos2)
  <2> DEFINE h == heard'
             l == Later(p)
  <2>1. Less(l, past, h) /\ HaveCome(l, N) /\ Shorter(st1, lv1, past, N, st2, lv2)
        /\ Together(st1, lv1, N, l, pos2)
    BY <1>9, <1>10, <1>11 DEF N, past, Less, HaveCome
  <2> HIDE DEF h, l
  <2>2. Together(st2, lv2, N - past, h, pos2)
    BY <1>1, <1>4, <2>1, TogetherLess
  <2> QED BY <2>2 DEF h
<1> QED BY <1>3, <1>4, <1>10, <1>11, <1>12 DEF N, past, Afterwards

\* p goes on to the stage n with the numbers v.
Goes(p, r, n, v) ==
  /\ DOMAIN v = Quantities
  /\ Named(Arrives(r, n, my_cone(p)))
  /\ Matches(p, n, v, Arrives(r, n, my_cone(p)))
  /\ GoOn(p, v, n.pc, n.calls[my_cone(p)])
  /\ loop' = [loop EXCEPT ![p] = n.loop]
  /\ rank_list' = [rank_list EXCEPT ![p] = OwnRanks(p, n)]
  /\ \E own : lift' = [lift EXCEPT ![p] = own] /\ SameLift(p, n, own)

LEMMA Moved ==
  ASSUME IsSetup(setup), NEW st, NEW lv, NEW pos, Holds(st, lv, pos), NEW p \in Procs, NEW r,
         r = st[heard[p]], r.pc \in Labels, todo[p] = <<>>,
         NEW o, NEW st1, NEW lv1, NEW all, Chose(p, r, o, st, lv, st1, lv1, all),
         NEW n, n = NextStage(r, o), NEW v, Goes(p, r, n, v)
  PROVE  \E st2, lv2, pos2 :
           Hold(st2, lv2, pos2, told', heard', pc', loop', rank_list', lift', todo', val')
<1> DEFINE c == my_cone(p)
           N == Len(all)
           past == Past(p)
<1>1. Story(st, lv, told) /\ heard[p] \in 0..Len(told)
  BY DEF Holds, Hold
<1>2. StageOK(r) /\ Leveled(r, lv[heard[p]])
  BY <1>1 DEF Story
<1>3. StageOK(n) /\ Prepared(r, n, c) /\ c \in Cones
  <2>1. StepOK(r, n)
    BY <1>2, FromAny DEF Chose, Labels
  <2> QED BY <2>1, CoordsIn DEF StepOK
<1>4. CallsOf(n, p) = n.calls[c] /\ n.calls[c] \in Seq(Calls)
  BY <1>3 DEF CallsOf, StageOK, Aligned, Levels, InOrder
<1>5. pos[p] = Len(CallsOf(r, p)) /\ pos[p] \in Nat
  <2>1. /\ pos[p] \in 0..Len(CallsOf(r, p))
        /\ <<>> = SubSeq(CallsOf(r, p), pos[p] + 1, Len(CallsOf(r, p)))
    BY DEF Holds, Hold, Place
  <2> QED BY <1>2, <2>1, AtEnd
<1> DEFINE calls == n.calls[c]
           now == Ready(p, calls, v)
<1>6. \E m \in 0..Len(calls) : \E mid :
        /\ \A i \in 1..m : Alone(p, calls[i])
        /\ now.todo = SubSeq(calls, m + 1, Len(calls))
        /\ DOMAIN now.val = Quantities
        /\ Named(mid)
        /\ Matches(p, n, now.val, mid)
        /\ Runs(c, n, now.todo, mid, Wholes(Goal(n, c)))
  <2>1. Runs(c, n, calls, Arrives(r, n, c), Wholes(Goal(n, c)))
    BY <1>3 DEF Prepared
  <2>2. /\ DOMAIN v = Quantities
        /\ Named(Arrives(r, n, c))
        /\ Matches(p, n, v, Arrives(r, n, c))
    BY DEF Goes
  <2> DEFINE A == Arrives(r, n, c)
             G == Wholes(Goal(n, c))
  <2> HIDE DEF A, G, calls
  <2>3. calls \in Seq(Calls) /\ Runs(my_cone(p), n, calls, A, G) /\ Named(A) /\ Matches(p, n, v, A)
    BY <1>4, <2>1, <2>2 DEF A, G, calls
  <2>4. \E m \in 0..Len(calls) : \E mid :
           /\ \A i \in 1..m : Alone(p, calls[i])
           /\ Ready(p, calls, v).todo = SubSeq(calls, m + 1, Len(calls))
           /\ Ready(p, calls, v).todo \in Seq(Calls)
           /\ DOMAIN Ready(p, calls, v).val = Quantities
           /\ Named(mid)
           /\ Matches(p, n, Ready(p, calls, v).val, mid)
           /\ Runs(my_cone(p), n, Ready(p, calls, v).todo, mid, G)
    BY <2>2, <2>3, ReadyKnows
  <2> QED BY <2>4 DEF G
<1>7. PICK m \in 0..Len(calls) : \E mid :
        /\ \A i \in 1..m : Alone(p, calls[i])
        /\ now.todo = SubSeq(calls, m + 1, Len(calls))
        /\ DOMAIN now.val = Quantities
        /\ Named(mid)
        /\ Matches(p, n, now.val, mid)
        /\ Runs(c, n, now.todo, mid, Wholes(Goal(n, c)))
  BY <1>6
<1> HIDE DEF now, calls, c
<1>8. Knows(p, n, now.todo, now.val)
  BY <1>7 DEF Knows, c
<1> DEFINE pos2 == [pos EXCEPT ![p] = m]
           st2 == [k \in 0..(N - past) |-> st1[k + past]]
           lv2 == [k \in 0..(N - past) |-> lv1[k + past]]
<1>9. OfAll(pos) /\ \A q \in Procs : pos2[q] = IF q = p THEN m ELSE pos[q]
  BY DEF Holds, Hold, OfAll
<1>10. Shorter(st1, lv1, past, N, st2, lv2)
  BY DEF Shorter
<1>11. OfAll(pos2)
  BY <1>9 DEF OfAll
<1> HIDE DEF pos2, st2, lv2, N, past
<1>12. m \in Nat /\ \A i \in 1..m : Alone(p, CallsOf(n, p)[i])
  BY <1>4, <1>7 DEF calls
<1>13. /\ past \in 0..N
       /\ \A q \in Procs : past <= Later(p)[q]
       /\ \A q \in Procs : heard'[q] = Later(p)[q] - past
       /\ \A q \in Procs : Later(p)[q] = IF q = p THEN heard[p] + 1 ELSE heard[q]
       /\ \A q \in Procs : Later(p)[q] \in 0..N
       /\ Together(st2, lv2, N - past, heard', pos2)
  <2>1. Leads(p, r, n, pos, m, pos2)
    BY <1>5, <1>9, <1>12 DEF Leads
  <2>2. Shorter(st1, lv1, Past(p), Len(all), st2, lv2)
    BY <1>10 DEF N, past
  <2>3. Afterwards(p, all, st2, lv2, pos2)
    BY <1>12, <2>1, <2>2, TogetherAfter
  <2> QED BY <2>3 DEF Afterwards, N, past
<1>14. Story(st2, lv2, told') /\ Len(told') = N - past /\ N \in Nat
  <2>1. Story(st1, lv1, all) /\ told' = SubSeq(all, past + 1, N) /\ N \in Nat
    BY DEF Chose, N, past
  <2>2. Story(st2, lv2, told')
    <3>1. past \in 0..Len(all) /\ Shorter(st1, lv1, past, Len(all), st2, lv2)
          /\ told' = SubSeq(all, past + 1, Len(all))
      BY <1>10, <1>13, <2>1 DEF N
    <3> QED BY <2>1, <3>1, StoryLess
  <2>3. Len(told') = N - past
    <3>1. IsList(all)
      BY <2>1 DEF Story
    <3> QED BY <1>13, <2>1, <3>1, ListLess DEF N
  <2> QED BY <2>1, <2>2, <2>3
<1>15. OfAll(heard') /\ OfAll(pc') /\ OfAll(loop') /\ OfAll(rank_list') /\ OfAll(lift')
       /\ OfAll(todo') /\ OfAll(val')
  BY DEF Chose, Goes, GoOn, Holds, Hold, OfAll
<1>16. \A q \in Procs : heard'[q] \in 0..Len(told')
  BY <1>13, <1>14
<1>17. \A q \in Procs : st2[heard'[q]] = st1[Later(p)[q]]
  <2> TAKE q \in Procs
  <2>1. heard'[q] \in 0..(N - past) /\ heard'[q] + past = Later(p)[q]
    BY <1>13, <1>14
  <2> QED BY <1>10, <2>1 DEF Shorter
<1>18. ASSUME NEW q \in Procs
       PROVE  Place(q, st2[heard'[q]], pos2[q], pc'[q], loop'[q], rank_list'[q], lift'[q], todo'[q], val'[q])
  <2>1. CASE q # p
    <3>1. st2[heard'[q]] = st[heard[q]]
      <4>1. st2[heard'[q]] = st1[heard[q]] /\ heard[q] \in 0..Len(told)
        BY <1>13, <1>17, <2>1 DEF Holds, Hold
      <4> QED BY <4>1 DEF Chose
    <3>2. pc'[q] = pc[q] /\ loop'[q] = loop[q] /\ rank_list'[q] = rank_list[q] /\ lift'[q] = lift[q]
          /\ todo'[q] = todo[q] /\ val'[q] = val[q] /\ pos2[q] = pos[q]
      BY <1>9, <2>1 DEF Goes, GoOn, Holds, Hold, OfAll
    <3>3. Place(q, st[heard[q]], pos[q], pc[q], loop[q], rank_list[q], lift[q], todo[q], val[q])
      BY DEF Holds, Hold
    <3> QED BY <3>1, <3>2, <3>3
  <2>2. CASE q = p
    <3>1. st2[heard'[q]] = n
      <4>1. st2[heard'[q]] = st1[heard[p] + 1]
        BY <1>13, <1>17, <2>2
      <4> QED BY <4>1 DEF Chose
    <3>2. PICK own : lift' = [lift EXCEPT ![p] = own] /\ SameLift(p, n, own)
      BY DEF Goes
    <3>3. pc'[q] = n.pc /\ loop'[q] = n.loop /\ rank_list'[q] = OwnRanks(p, n) /\ lift'[q] = own
          /\ todo'[q] = now.todo /\ val'[q] = now.val /\ pos2[q] = m
      BY <1>9, <2>2, <3>2 DEF Goes, GoOn, Holds, Hold, OfAll, now, calls, c
    <3>4. Place(p, n, m, n.pc, n.loop, OwnRanks(p, n), own, now.todo, now.val)
      BY <1>4, <1>7, <1>8, <3>2 DEF Place, calls
    <3> QED BY <2>2, <3>1, <3>3, <3>4
  <2> QED BY <2>1, <2>2
<1>19. Together(st2, lv2, Len(told'), heard', pos2)
  BY <1>13, <1>14
<1> QED BY <1>11, <1>14, <1>15, <1>16, <1>18, <1>19 DEF Hold

-----------------------------------------------------------------------------
(* One process decides and goes on.                                        *)

Again == \E st, lv, pos : Hold(st, lv, pos, told', heard', pc', loop', rank_list', lift', todo', val')

\* p has made the calls of the stage r.
Stands(p, r, st, lv, pos) ==
  /\ Holds(st, lv, pos)
  /\ r = st[heard[p]]
  /\ StageOK(r)
  /\ Quiet(r)
  /\ todo[p] = <<>>
  /\ pc[p] = r.pc
  /\ loop[p] = r.loop
  /\ rank_list[p] = OwnRanks(p, r)
  /\ SameLift(p, r, lift[p])
  /\ DOMAIN val[p] = Quantities
  /\ Knows(p, r, <<>>, val[p])
  /\ loop = [loop EXCEPT ![p] = loop[p]]
  /\ rank_list = [rank_list EXCEPT ![p] = rank_list[p]]
  /\ lift = [lift EXCEPT ![p] = lift[p]]

LEMMA StandsAt ==
  ASSUME NEW st, NEW lv, NEW pos, Holds(st, lv, pos), NEW p \in Procs, ~ Waiting(p)
  PROVE  Stands(p, st[heard[p]], st, lv, pos)
<1> DEFINE r == st[heard[p]]
<1>1. todo[p] = <<>>
  BY DEF Waiting
<1>2. Story(st, lv, told) /\ heard[p] \in 0..Len(told)
  BY DEF Holds, Hold
<1>3. StageOK(r) /\ Quiet(r)
  BY <1>2 DEF Story
<1>4. Place(p, r, pos[p], pc[p], loop[p], rank_list[p], lift[p], todo[p], val[p])
  BY DEF Holds, Hold
<1>5. OfAll(loop) /\ OfAll(rank_list) /\ OfAll(lift)
  BY DEF Holds, Hold
<1>6. loop = [loop EXCEPT ![p] = loop[p]] /\ rank_list = [rank_list EXCEPT ![p] = rank_list[p]]
      /\ lift = [lift EXCEPT ![p] = lift[p]]
  BY <1>5 DEF OfAll
<1> HIDE DEF r
<1> QED BY <1>1, <1>3, <1>4, <1>6 DEF Stands, Place, r

\* It brings the numbers v to the stage n.
Brings(p, r, n, v) ==
  /\ DOMAIN v = Quantities
  /\ \A x \in Brought(r, n, my_cone(p)) :
       v[x] = IF x \in Residuals /\ ~ n.checked THEN EmptyBag ELSE val[p][x]
  /\ n.pc \in DOMAIN Tells => v[Tells[n.pc]] = SetToBag(TermSet(Tells[n.pc], p, n))
  /\ GoOn(p, v, n.pc, n.calls[my_cone(p)])
  /\ loop' = [loop EXCEPT ![p] = n.loop]
  /\ rank_list' = [rank_list EXCEPT ![p] = OwnRanks(p, n)]
  /\ \E own : lift' = [lift EXCEPT ![p] = own] /\ SameLift(p, n, own)

\* A process that decides on the readings of its stage, and brings to the next
\* what that needs, keeps the invariant.
LEMMA Advance ==
  ASSUME IsSetup(setup), NEW st, NEW lv, NEW pos, NEW p \in Procs, NEW r, Stands(p, r, st, lv, pos),
         r.pc \in Labels, NEW reads, reads = Readings(r),
         NEW options, \A e \in options : IsOption(r, e), NEW o, Decides(p, reads, options, o),
         NEW v, IsOption(r, o) => Brings(p, r, NextStage(r, o), v)
  PROVE  Again
<1>1. /\ Holds(st, lv, pos) /\ r = st[heard[p]] /\ StageOK(r) /\ Quiet(r) /\ todo[p] = <<>>
      /\ Knows(p, r, <<>>, val[p])
  BY DEF Stands
<1>2. <<pc[p], reads>> = KeyOf(r)
  BY DEF Stands, KeyOf
<1>3. Story(st, lv, told) /\ \A q \in Procs : heard[q] \in 0..Len(told)
  BY <1>1 DEF Holds, Hold
<1>4. \E st1, lv1, all : Chose(p, r, o, st, lv, st1, lv1, all)
  BY <1>1, <1>2, <1>3, Chosen
<1>5. PICK st1, lv1, all : Chose(p, r, o, st, lv, st1, lv1, all)
  BY <1>4
<1> DEFINE n == NextStage(r, o)
<1>6. IsOption(r, o)
  BY <1>5 DEF Chose
<1>7. Onward(r, n)
  BY <1>1, <1>6, GoesOnward
<1>8. Brings(p, r, n, v)
  BY <1>6
<1> HIDE DEF n
<1>9. Named(Arrives(r, n, my_cone(p))) /\ Matches(p, n, v, Arrives(r, n, my_cone(p)))
  <2>1. /\ \A x \in Brought(r, n, my_cone(p)) :
             v[x] = IF x \in Residuals /\ ~ n.checked THEN EmptyBag ELSE val[p][x]
        /\ n.pc \in DOMAIN Tells => v[Tells[n.pc]] = SetToBag(TermSet(Tells[n.pc], p, n))
    BY <1>8 DEF Brings
  <2> DEFINE u == val[p]
  <2>2. Knows(p, r, <<>>, u) /\ \A x \in Brought(r, n, my_cone(p)) :
             v[x] = IF x \in Residuals /\ ~ n.checked THEN EmptyBag ELSE u[x]
    BY <1>1, <2>1
  <2> HIDE DEF u
  <2> QED BY <1>1, <1>7, <2>1, <2>2, Carried
<1>10. Goes(p, r, n, v)
  BY <1>8, <1>9 DEF Brings, Goes
<1>11. n = NextStage(r, o)
  BY DEF n
<1>12. \E st2, lv2, pos2 :
           Hold(st2, lv2, pos2, told', heard', pc', loop', rank_list', lift', todo', val')
  BY <1>1, <1>5, <1>10, <1>11, Moved
<1> QED BY <1>12 DEF Again

\* What it has already.
LEMMA BringsOwn ==
  ASSUME NEW p \in Procs, NEW r, NEW n, DOMAIN val[p] = Quantities, n.checked,
         n.pc \notin DOMAIN Tells, GoOn(p, val[p], n.pc, n.calls[my_cone(p)]),
         loop' = [loop EXCEPT ![p] = n.loop],
         rank_list' = [rank_list EXCEPT ![p] = OwnRanks(p, n)],
         \E own : lift' = [lift EXCEPT ![p] = own] /\ SameLift(p, n, own)
  PROVE  Brings(p, r, n, val[p])
BY DEF Brings

\* What it has already and a number it tells.
LEMMA BringsTold ==
  ASSUME NEW p \in Procs, NEW r, NEW n, DOMAIN val[p] = Quantities, n.checked,
         n.pc \in DOMAIN Tells, NEW x \in Quantities, x = Tells[n.pc], x \notin Brought(r, n, my_cone(p)),
         NEW v, v = [val[p] EXCEPT ![x] = SetToBag(TermSet(x, p, n))],
         GoOn(p, v, n.pc, n.calls[my_cone(p)]),
         loop' = [loop EXCEPT ![p] = n.loop],
         rank_list' = [rank_list EXCEPT ![p] = OwnRanks(p, n)],
         \E own : lift' = [lift EXCEPT ![p] = own] /\ SameLift(p, n, own)
  PROVE  Brings(p, r, n, v)
<1>1. DOMAIN v = Quantities /\ v[x] = SetToBag(TermSet(x, p, n))
  OBVIOUS
<1>2. \A y \in Brought(r, n, my_cone(p)) : v[y] = val[p][y]
  OBVIOUS
<1> QED BY <1>1, <1>2 DEF Brings

LEMMA TellsNew ==
  ASSUME NEW r, NEW n, NEW c, n.pc \in DOMAIN Tells
  PROVE  Tells[n.pc] \in Quantities /\ Tells[n.pc] \notin Brought(r, n, c)
BY DEF Tells, Brought, Base, Residuals, Quantities

LEMMA SameLiftIs ==
  ASSUME NEW p, NEW r, NEW own
  PROVE  /\ r.pc = "select" => (SameLift(p, r, own) <=> own = [eig |-> r.eig[my_cone(p)], kept |-> null])
         /\ Lifted(r) => (SameLift(p, r, own)
                            <=> own = [eig |-> r.eig[my_cone(p)], kept |-> r.kept[my_cone(p)]])
         /\ r.pc # "select" /\ ~ Lifted(r) => (SameLift(p, r, own) <=> own = NoLift)
<1>1. CASE r.pc = "select"
  <2>1. ~ Lifted(r)
    BY <1>1 DEF Lifted
  <2> QED BY <1>1, <2>1 DEF SameLift
<1>2. CASE r.pc # "select"
  BY <1>2 DEF SameLift
<1> QED BY <1>1, <1>2

\* Its lift stays as it is.
LEMMA SameLiftAs ==
  ASSUME NEW p, NEW n, n.pc \notin {"select", "weigh"}, n.pc = "terminate" => n.kept = null, NEW own
  PROVE  SameLift(p, n, own) <=> own = NoLift
BY SameLiftIs DEF Lifted

LEMMA OwnCone ==
  ASSUME IsSetup(setup), NEW p \in Procs
  PROVE  my_cone(p) \in Cones /\ my_cone(p) = coords(p)[3]
BY CoordsIn

\* The shares of a cone make the calls of the first.
LEMMA SameSearches ==
  ASSUME IsSetup(setup), NEW r, RanksOK(r), NEW p \in Procs, NEW c, c = my_cone(p)
  PROVE  /\ \A b \in Blocks(c) : FIND_AL_NEGATIVE_CURVATURE(c, OwnRanks(p, r), b)
                                   = FIND_AL_NEGATIVE_CURVATURE(c, FirstRanks(r, c), b)
         /\ Probe(c, OwnRanks(p, r)) = Probe(c, FirstRanks(r, c))
<1> DEFINE own == OwnRanks(p, r)
           first == FirstRanks(r, c)
           K == NEGATIVE_CURVATURE_LANCZOS_K
<1>1. c \in Cones /\ coords(p)[2] \in All(2) /\ 0 \in All(2) /\ own = r.ranks[<<coords(p)[2], c>>]
  BY CoordsIn, SetupDims DEF All, OwnRanks
<1>2. IsRanks(c, own) /\ IsRanks(c, first) /\ SearchedAlike(c, own, first)
  BY <1>1 DEF RanksOK, FirstRanks
<1> HIDE DEF own, first
<1>3. ASSUME NEW b \in Blocks(c)
      PROVE  FIND_AL_NEGATIVE_CURVATURE(c, own, b) = FIND_AL_NEGATIVE_CURVATURE(c, first, b)
  <2>1. own[b] \in Nat \ {0} /\ first[b] \in Nat \ {0}
    BY <1>2, <1>3 DEF IsRanks
  <2>2. Min({BlockDims(c)[b] * own[b], K}) = Min({BlockDims(c)[b] * first[b], K})
    <3>1. CASE own[b] = first[b]
      BY <3>1
    <3>2. CASE own[b] # first[b]
      <4> DEFINE A == BlockDims(c)[b] * own[b]
                 B == BlockDims(c)[b] * first[b]
      <4>1. A >= K /\ B >= K
        BY <1>2, <1>3, <3>2 DEF SearchedAlike
      <4>2. A \in Nat \ {0} /\ B \in Nat \ {0} /\ K \in Nat \ {0}
        <5>1. BlockDims(c)[b] \in Nat
          BY <1>1, <1>3, BlocksOf
        <5>2. A \in Nat /\ B \in Nat /\ K \in Nat \ {0}
          BY <2>1, <5>1, CountsAssumption
        <5> HIDE DEF A, B, K
        <5> QED BY <4>1, <5>2
      <4> HIDE DEF A, B, K
      <4>3. Min({A, K}) = K /\ Min({B, K}) = K
        BY <4>1, <4>2, LeastOfTwo
      <4> QED BY <4>3 DEF A, B
    <3> QED BY <3>1, <3>2
  <2>3. ~ (own[b] <= 0) /\ ~ (first[b] <= 0)
    BY <2>1
  <2> QED BY <2>2, <2>3 DEF FIND_AL_NEGATIVE_CURVATURE, K
<1>4. [b \in Blocks(c) |-> FIND_AL_NEGATIVE_CURVATURE(c, own, b)]
        = [b \in Blocks(c) |-> FIND_AL_NEGATIVE_CURVATURE(c, first, b)]
  BY <1>3
<1>5. Probe(c, own) = Probe(c, first)
  BY <1>4 DEF Probe
<1> QED BY <1>3, <1>5 DEF own, first

-----------------------------------------------------------------------------
(* The decisions, one by one.                                              *)

LEMMA LoopAs ==
  ASSUME NEW st, NEW lv, NEW pos, NEW p, NEW r, Stands(p, r, st, lv, pos), NEW n,
         n.loop = r.loop, UNCHANGED loop
  PROVE  loop' = [loop EXCEPT ![p] = n.loop]
<1>1. loop = [loop EXCEPT ![p] = loop[p]] /\ loop[p] = r.loop
  BY DEF Stands
<1> QED BY <1>1

LEMMA RanksAs ==
  ASSUME NEW st, NEW lv, NEW pos, NEW p, NEW r, Stands(p, r, st, lv, pos), NEW n,
         n.ranks = r.ranks, UNCHANGED rank_list
  PROVE  rank_list' = [rank_list EXCEPT ![p] = OwnRanks(p, n)]
<1>1. rank_list = [rank_list EXCEPT ![p] = rank_list[p]] /\ rank_list[p] = OwnRanks(p, r)
  BY DEF Stands
<1>2. OwnRanks(p, n) = OwnRanks(p, r)
  BY DEF OwnRanks
<1> QED BY <1>1, <1>2

LEMMA LiftAs ==
  ASSUME NEW st, NEW lv, NEW pos, NEW p, NEW r, Stands(p, r, st, lv, pos), NEW n,
         r.pc \notin {"select", "weigh", "terminate"}, n.pc \notin {"select", "weigh"},
         n.pc = "terminate" => n.kept = null, UNCHANGED lift
  PROVE  \E own : lift' = [lift EXCEPT ![p] = own] /\ SameLift(p, n, own)
<1>1. lift = [lift EXCEPT ![p] = lift[p]] /\ SameLift(p, r, lift[p])
  BY DEF Stands
<1>2. SameLift(p, n, lift[p])
  BY <1>1, SameLiftAs
<1> QED BY <1>1, <1>2

\* p goes on to n with what it has.
Plain(p, r, n) ==
  /\ r.pc \notin {"select", "weigh", "terminate"}
  /\ n.checked
  /\ n.pc \notin DOMAIN Tells
  /\ n.pc = "terminate" => n.kept = null
  /\ n.ranks = r.ranks
  /\ GoOn(p, val[p], n.pc, n.calls[my_cone(p)])
  /\ loop' = [loop EXCEPT ![p] = n.loop]
  /\ UNCHANGED <<rank_list, lift>>

LEMMA PlainBrings ==
  ASSUME NEW st, NEW lv, NEW pos, NEW p \in Procs, NEW r, Stands(p, r, st, lv, pos),
         NEW n, Plain(p, r, n)
  PROVE  Brings(p, r, n, val[p])
<1>1. DOMAIN val[p] = Quantities
  BY DEF Stands
<1>2. n.pc \notin {"select", "weigh"} /\ n.ranks = r.ranks /\ UNCHANGED rank_list /\ UNCHANGED lift
      /\ n.checked /\ n.pc \notin DOMAIN Tells
      /\ r.pc \notin {"select", "weigh", "terminate"} /\ (n.pc = "terminate" => n.kept = null)
      /\ loop' = [loop EXCEPT ![p] = n.loop]
      /\ GoOn(p, val[p], n.pc, n.calls[my_cone(p)])
  BY DEF Plain, Tells
<1>3. rank_list' = [rank_list EXCEPT ![p] = OwnRanks(p, n)]
  BY <1>2, RanksAs
<1>4. \E own : lift' = [lift EXCEPT ![p] = own] /\ SameLift(p, n, own)
  BY <1>2, LiftAs
<1> QED BY <1>1, <1>2, <1>3, <1>4, BringsOwn

\* p goes on to n and tells x there.
Telling(p, r, n, x, v) ==
  /\ n.checked
  /\ n.pc \in DOMAIN Tells
  /\ x = Tells[n.pc]
  /\ v = [val[p] EXCEPT ![x] = SetToBag(TermSet(x, p, n))]
  /\ n.ranks = r.ranks
  /\ GoOn(p, v, n.pc, n.calls[my_cone(p)])
  /\ loop' = [loop EXCEPT ![p] = n.loop]
  /\ UNCHANGED rank_list
  /\ \E own : lift' = [lift EXCEPT ![p] = own] /\ SameLift(p, n, own)

LEMMA TellingBrings ==
  ASSUME NEW st, NEW lv, NEW pos, NEW p \in Procs, NEW r, Stands(p, r, st, lv, pos),
         NEW n, NEW x, NEW v, Telling(p, r, n, x, v)
  PROVE  Brings(p, r, n, v)
<1>1. DOMAIN val[p] = Quantities
  BY DEF Stands
<1>2. /\ n.checked /\ n.pc \in DOMAIN Tells /\ x = Tells[n.pc]
      /\ v = [val[p] EXCEPT ![x] = SetToBag(TermSet(x, p, n))]
      /\ n.ranks = r.ranks
      /\ GoOn(p, v, n.pc, n.calls[my_cone(p)])
      /\ loop' = [loop EXCEPT ![p] = n.loop]
      /\ UNCHANGED rank_list
      /\ \E own : lift' = [lift EXCEPT ![p] = own] /\ SameLift(p, n, own)
  BY DEF Telling
<1>3. rank_list' = [rank_list EXCEPT ![p] = OwnRanks(p, n)]
  BY <1>2, RanksAs
<1>4. x \in Quantities /\ x \notin Brought(r, n, my_cone(p))
  BY <1>2, TellsNew
<1> QED BY <1>1, <1>2, <1>3, <1>4, BringsTold

\* The calls all the cones make.
LEMMA SameCalls ==
  ASSUME IsSetup(setup), NEW p \in Procs, NEW L
  PROVE  Same(L)[my_cone(p)] = L
BY OwnCone DEF Same

\* What a process has at its stage.
LEMMA AtStage ==
  ASSUME NEW st, NEW lv, NEW pos, NEW p, NEW r, Stands(p, r, st, lv, pos)
  PROVE  /\ StageOK(r)
         /\ Quiet(r)
         /\ Knows(p, r, <<>>, val[p])
         /\ pc[p] = r.pc
         /\ loop[p] = r.loop
         /\ rank_list[p] = OwnRanks(p, r)
         /\ DOMAIN val[p] = Quantities
         /\ SameLift(p, r, lift[p])
         /\ r.loop \in Counters
         /\ RanksOK(r)
BY DEF Stands, StageOK

\* Each decision of the code is such a step: HeadOfLoop first.
LEMMA HeadAgain ==
  ASSUME DecideAlike(setup), NEW st, NEW lv, NEW pos, NEW p \in Procs, NEW r,
         Stands(p, r, st, lv, pos), HeadOfLoop(p)
  PROVE  Again
<1>1. IsSetup(setup) /\ r.pc = "head" /\ UNCHANGED rank_list /\ UNCHANGED lift
  BY AtStage DEF HeadOfLoop, At, DecideAlike
<1>2. Measures(p) = Readings(r)
  BY <1>1, AtStage, ReadsGaps DEF Measures, Readings
<1>3. PICK o \in {"moving", "stalled", "early"} :
        /\ Decides(p, Measures(p), {"moving", "stalled", "early"}, o)
        /\ Set(loop, p, [loop[p] EXCEPT !.stalled = (o = "stalled")])
        /\ IF o = "early" THEN GoOn(p, val[p], "lift", DualSlack(my_cone(p)))
           ELSE GoOn(p, val[p], "converged", compute_global_q0_norm \o GLOBAL_NORM)
  BY DEF HeadOfLoop
<1> DEFINE n == NextStage(r, o)
           L == compute_global_q0_norm \o GLOBAL_NORM
<1>4. n = AfterHead(r, o)
  BY <1>1 DEF NextStage
<1>5. loop[p] = r.loop
  BY AtStage
<1>6. Plain(p, r, n)
  <2>1. CASE o = "early"
    <3>1. /\ n.checked /\ n.pc = "lift" /\ n.ranks = r.ranks
          /\ n.calls = [c \in Cones |-> DualSlack(c)]
          /\ n.loop = [r.loop EXCEPT !.stalled = (o = "stalled")]
      BY <1>4, <2>1 DEF AfterHead, To
    <3>2. n.calls[my_cone(p)] = DualSlack(my_cone(p))
      BY <1>1, <3>1, OwnCone
    <3> HIDE DEF n
    <3> QED BY <1>1, <1>3, <1>5, <2>1, <3>1, <3>2 DEF Plain, Tells, Set
  <2>2. CASE o # "early"
    <3>1. /\ n.checked /\ n.pc = "converged" /\ n.ranks = r.ranks /\ n.calls = Same(L)
          /\ n.loop = [r.loop EXCEPT !.stalled = (o = "stalled")]
      BY <1>4, <2>2 DEF AfterHead, To
    <3>2. n.calls[my_cone(p)] = L
      BY <1>1, <3>1, SameCalls
    <3> HIDE DEF n
    <3> QED BY <1>1, <1>3, <1>5, <2>2, <3>1, <3>2 DEF Plain, Tells, Set
  <2> QED BY <2>1, <2>2
<1>7. Brings(p, r, n, val[p])
  BY <1>6, PlainBrings
<1> DEFINE options == {"moving", "stalled", "early"}
<1>8. \A e \in options : IsOption(r, e)
  BY <1>1 DEF IsOption
<1>9. Decides(p, Measures(p), options, o)
  BY <1>3
<1>10. r.pc \in Labels
  BY <1>1 DEF Labels
<1> HIDE DEF options
<1> QED BY <1>1, <1>2, <1>7, <1>8, <1>9, <1>10, Advance

\* The end of the inner loop.
Leaves(p, r, counters, stationary) ==
  /\ counters.esc = r.loop.esc
  /\ counters.stalled = r.loop.stalled
  /\ loop' = [loop EXCEPT ![p] = counters]
  /\ UNCHANGED <<rank_list, lift>>
  /\ LeaveInner(p, stationary)

LEMMA LeavingBrings ==
  ASSUME IsSetup(setup), NEW st, NEW lv, NEW pos, NEW p \in Procs, NEW r, Stands(p, r, st, lv, pos),
         NEW counters, NEW stationary, Leaves(p, r, counters, stationary),
         r.pc \in {"converged", "step"}, NEW n, n = LeaveStage(r, counters, stationary)
  PROVE  \E v : Brings(p, r, n, v)
<1>1. /\ loop[p] = r.loop /\ r.loop \in Counters /\ rank_list[p] = OwnRanks(p, r) /\ RanksOK(r)
      /\ DOMAIN val[p] = Quantities
  BY AtStage
<1>2. /\ counters.esc = r.loop.esc /\ counters.stalled = r.loop.stalled
      /\ loop' = [loop EXCEPT ![p] = counters] /\ UNCHANGED rank_list /\ UNCHANGED lift
      /\ LeaveInner(p, stationary)
  BY DEF Leaves
<1> DEFINE some == 1..(setup.max_curvature_escape_steps - 1)
<1>3. CASE counters.esc = 0
  <2> DEFINE v == OwnDetection(p, stationary)
             L == <<Call("all", {"detect"}, {})>>
  <2>1. GoOn(p, v, "detect", L)
    BY <1>1, <1>2, <1>3 DEF LeaveInner
  <2>2. /\ n.checked /\ n.pc = "detect" /\ n.ranks = r.ranks /\ n.calls = Same(L)
        /\ n.loop = counters /\ n.detect = (stationary /\ counters.stalled)
    BY <1>3 DEF LeaveStage, To
  <2>3. n.calls[my_cone(p)] = L
    BY <2>2, SameCalls
  <2>4. TermSet("detect", p, n) = {<<p, n.detect>>}
    BY DEF TermSet
  <2>5. v = [val[p] EXCEPT !["detect"] = SetToBag(TermSet("detect", p, n))]
    BY <1>1, <1>2, <2>2, <2>4 DEF OwnDetection, One
  <2>6. \E own : lift' = [lift EXCEPT ![p] = own] /\ SameLift(p, n, own)
    BY <1>2, <2>2, LiftAs
  <2>7. n.pc \in DOMAIN Tells /\ Tells[n.pc] = "detect"
    BY <2>2 DEF Tells
  <2> HIDE DEF v, L
  <2>8. Telling(p, r, n, "detect", v)
    BY <1>2, <2>1, <2>2, <2>3, <2>5, <2>6, <2>7 DEF Telling
  <2> QED BY <2>8, TellingBrings
<1>4. CASE counters.esc # 0 /\ counters.esc \in some
  <2>1. GoOn(p, val[p], "winner", Probe(my_cone(p), rank_list[p]))
    BY <1>1, <1>2, <1>4 DEF LeaveInner
  <2>2. /\ n.checked /\ n.pc = "winner" /\ n.ranks = r.ranks /\ n.calls = ProbeCalls(r)
        /\ n.loop = counters
    BY <1>4 DEF LeaveStage, To
  <2>3. n.calls[my_cone(p)] = Probe(my_cone(p), FirstRanks(r, my_cone(p)))
    BY <2>2, OwnCone DEF ProbeCalls
  <2>4. Probe(my_cone(p), rank_list[p]) = Probe(my_cone(p), FirstRanks(r, my_cone(p)))
    BY <1>1, SameSearches
  <2>5. Plain(p, r, n)
    BY <1>2, <2>1, <2>2, <2>3, <2>4 DEF Plain, Tells
  <2> QED BY <2>5, PlainBrings
<1>5. CASE counters.esc # 0 /\ counters.esc \notin some
  <2>1. GoOn(p, val[p], "dual_step", DualStepCalls)
    BY <1>1, <1>2, <1>5 DEF LeaveInner
  <2>2. /\ n.checked /\ n.pc = "dual_step" /\ n.ranks = r.ranks /\ n.calls = Same(DualStepCalls)
        /\ n.loop = counters
    BY <1>5 DEF LeaveStage, To
  <2>3. n.calls[my_cone(p)] = DualStepCalls
    BY <2>2, SameCalls
  <2>4. Plain(p, r, n)
    BY <1>2, <2>1, <2>2, <2>3 DEF Plain, Tells
  <2> QED BY <2>4, PlainBrings
<1> QED BY <1>3, <1>4, <1>5

LEMMA ConvergedAgain ==
  ASSUME DecideAlike(setup), NEW st, NEW lv, NEW pos, NEW p \in Procs, NEW r,
         Stands(p, r, st, lv, pos), Converged(p)
  PROVE  Again
<1>1. IsSetup(setup) /\ r.pc = "converged" /\ UNCHANGED loop /\ UNCHANGED rank_list /\ UNCHANGED lift
  BY AtStage DEF Converged, At, DecideAlike
<1> DEFINE reads == <<val[p].grad_norm, Linf(coords(p)), RhsNorm(p)>>
           options == IF loop[p].inner > 0 THEN BOOLEAN ELSE {FALSE}
           L == LBFGS_DIRECTION \o COMPUTE_EXACT_STEP_SIZE
<1>2. reads = Readings(r)
  BY <1>1, AtStage, ReadsConverged
<1>3. PICK o \in BOOLEAN :
        /\ Decides(p, reads, options, o)
        /\ IF o THEN LeaveInner(p, TRUE) ELSE GoOn(p, val[p], "step", L)
  BY DEF Converged
<1>4. loop[p] = r.loop /\ loop' = [loop EXCEPT ![p] = r.loop]
  <2>1. loop[p] = r.loop /\ loop = [loop EXCEPT ![p] = loop[p]]
    BY DEF Stands
  <2> QED BY <1>1, <2>1
<1>5. \A e \in options : IsOption(r, e)
  BY <1>1, <1>4 DEF IsOption
<1> DEFINE n == NextStage(r, o)
<1>6. n = AfterConverged(r, o)
  BY <1>1 DEF NextStage
<1>7. \E v : Brings(p, r, n, v)
  <2>1. CASE o
    <3>1. n = LeaveStage(r, r.loop, TRUE)
      BY <1>6, <2>1 DEF AfterConverged
    <3>2. Leaves(p, r, r.loop, TRUE)
      BY <1>1, <1>3, <1>4, <2>1 DEF Leaves
    <3> HIDE DEF n
    <3> QED BY <1>1, <3>1, <3>2, LeavingBrings
  <2>2. CASE ~ o
    <3>1. /\ n.checked /\ n.pc = "step" /\ n.ranks = r.ranks /\ n.calls = Same(L) /\ n.loop = r.loop
      BY <1>6, <2>2 DEF AfterConverged, To
    <3>2. n.calls[my_cone(p)] = L
      BY <1>1, <3>1, SameCalls
    <3> HIDE DEF n
    <3>3. Plain(p, r, n)
      BY <1>1, <1>3, <1>4, <2>2, <3>1, <3>2 DEF Plain, Tells
    <3> QED BY <3>3, PlainBrings
  <2> QED BY <2>1, <2>2
<1>8. PICK v : Brings(p, r, n, v)
  BY <1>7
<1>9. r.pc \in Labels
  BY <1>1 DEF Labels
<1>10. Decides(p, reads, options, o)
  BY <1>3
<1> HIDE DEF options, reads
<1> QED BY <1>1, <1>2, <1>5, <1>8, <1>9, <1>10, Advance

LEMMA StepAgain ==
  ASSUME DecideAlike(setup), NEW st, NEW lv, NEW pos, NEW p \in Procs, NEW r,
         Stands(p, r, st, lv, pos), TakeStep(p)
  PROVE  Again
<1>1. IsSetup(setup) /\ r.pc = "step" /\ UNCHANGED rank_list /\ UNCHANGED lift
  BY AtStage DEF TakeStep, At, DecideAlike
<1> DEFINE reads == StepSize(p)
           options == BOOLEAN
           L == COMPUTE_GRADIENT \o GLOBAL_NORM
<1>2. reads = Readings(r)
  BY <1>1, AtStage, ReadsStep DEF StepSize
<1>3. PICK o \in BOOLEAN :
        /\ Decides(p, reads, options, o)
        /\ Set(loop, p, IF o THEN [loop[p] EXCEPT !.inner = @ + 1] ELSE loop[p])
        /\ IF o /\ loop[p].inner + 1 < inner_iterations_limit
           THEN GoOn(p, val[p], "converged", L)
           ELSE LeaveInner(p, ~ o)
  BY DEF TakeStep
<1> DEFINE counters == IF o THEN [r.loop EXCEPT !.inner = @ + 1] ELSE r.loop
<1>4. /\ loop[p] = r.loop /\ loop' = [loop EXCEPT ![p] = counters]
      /\ counters.esc = r.loop.esc /\ counters.stalled = r.loop.stalled
  <2>1. loop[p] = r.loop /\ r.loop \in Counters
    BY AtStage
  <2> QED BY <1>3, <2>1 DEF Set, Counters
<1>5. \A e \in options : IsOption(r, e)
  BY <1>1 DEF IsOption
<1> DEFINE n == NextStage(r, o)
           more == o /\ r.loop.inner + 1 < inner_iterations_limit
<1>6. n = AfterStep(r, o)
  BY <1>1 DEF NextStage
<1>7. \E v : Brings(p, r, n, v)
  <2>1. CASE ~ more
    <3>1. n = LeaveStage(r, counters, ~ o)
      BY <1>6, <2>1 DEF AfterStep
    <3>2. LeaveInner(p, ~ o)
      BY <1>3, <1>4, <2>1
    <3> HIDE DEF n, counters
    <3>3. Leaves(p, r, counters, ~ o)
      BY <1>1, <1>4, <3>2 DEF Leaves
    <3> QED BY <1>1, <3>1, <3>3, LeavingBrings
  <2>2. CASE more
    <3>1. /\ n.checked /\ n.pc = "converged" /\ n.ranks = r.ranks /\ n.calls = Same(L)
          /\ n.loop = counters
      BY <1>6, <2>2 DEF AfterStep, To
    <3>2. n.calls[my_cone(p)] = L
      BY <1>1, <3>1, SameCalls
    <3>3. GoOn(p, val[p], "converged", L)
      BY <1>3, <1>4, <2>2
    <3> HIDE DEF n, counters
    <3>4. Plain(p, r, n)
      BY <1>1, <1>4, <3>1, <3>2, <3>3 DEF Plain, Tells
    <3> QED BY <3>4, PlainBrings
  <2> QED BY <2>1, <2>2
<1>8. PICK v : Brings(p, r, n, v)
  BY <1>7
<1>9. r.pc \in Labels
  BY <1>1 DEF Labels
<1>10. Decides(p, reads, options, o)
  BY <1>3
<1> HIDE DEF options, reads
<1> QED BY <1>1, <1>2, <1>5, <1>8, <1>9, <1>10, Advance

LEMMA DetectAgain ==
  ASSUME DecideAlike(setup), NEW st, NEW lv, NEW pos, NEW p \in Procs, NEW r,
         Stands(p, r, st, lv, pos), Detect(p)
  PROVE  Again
<1>1. IsSetup(setup) /\ r.pc = "detect" /\ UNCHANGED rank_list /\ UNCHANGED lift
  BY AtStage DEF Detect, At, DecideAlike
<1> DEFINE reads == val[p].detect
           any == \E t \in DOMAIN val[p].detect : t[2]
           options == {any}
           L == COMPUTE_GRADIENT \o Probe(my_cone(p), rank_list[p])
           counters == [r.loop EXCEPT !.stalled = @ /\ ~ any]
<1>2. reads = Readings(r)
  <2>1. ReadAt[r.pc] = "detect" /\ r.pc \in DOMAIN ReadAt
    BY <1>1 DEF ReadAt
  <2> QED BY <1>1, <2>1, AtStage, ReadsOne
<1>3. /\ Decides(p, reads, options, any)
      /\ Set(loop, p, [loop[p] EXCEPT !.stalled = @ /\ ~ any])
      /\ IF any THEN GoOn(p, val[p], "winner", L) ELSE GoOn(p, val[p], "dual_step", DualStepCalls)
  BY DEF Detect
<1>4. loop[p] = r.loop /\ loop' = [loop EXCEPT ![p] = counters]
  <2>1. loop[p] = r.loop
    BY AtStage
  <2> HIDE DEF any
  <2> QED BY <1>3, <2>1 DEF Set
<1>5. any \in BOOLEAN
  OBVIOUS
<1> HIDE DEF any
<1>6. \A e \in options : IsOption(r, e)
  BY <1>1, <1>5 DEF IsOption
<1> DEFINE n == NextStage(r, any)
<1>7. n = AfterDetect(r, any)
  BY <1>1 DEF NextStage
<1>8. Plain(p, r, n)
  <2>1. CASE any
    <3>1. /\ n.checked /\ n.pc = "winner" /\ n.ranks = r.ranks /\ n.loop = counters
          /\ n.calls = [c \in Cones |-> COMPUTE_GRADIENT \o Probe(c, FirstRanks(r, c))]
      BY <1>7, <2>1 DEF AfterDetect, To
    <3>2. Probe(my_cone(p), rank_list[p]) = Probe(my_cone(p), FirstRanks(r, my_cone(p)))
      BY <1>1, AtStage, SameSearches
    <3>3. n.calls[my_cone(p)] = L
      BY <1>1, <3>1, <3>2, OwnCone
    <3> HIDE DEF n, counters, L
    <3> QED BY <1>1, <1>3, <1>4, <2>1, <3>1, <3>3 DEF Plain, Tells
  <2>2. CASE ~ any
    <3>1. /\ n.checked /\ n.pc = "dual_step" /\ n.ranks = r.ranks /\ n.calls = Same(DualStepCalls)
          /\ n.loop = counters
      BY <1>7, <2>2 DEF AfterDetect, To
    <3>2. n.calls[my_cone(p)] = DualStepCalls
      BY <1>1, <3>1, SameCalls
    <3> HIDE DEF n, counters, L
    <3> QED BY <1>1, <1>3, <1>4, <2>2, <3>1, <3>2 DEF Plain, Tells
  <2> QED BY <2>1, <2>2
<1>9. Brings(p, r, n, val[p])
  BY <1>8, PlainBrings
<1>10. r.pc \in Labels
  BY <1>1 DEF Labels
<1>11. Decides(p, reads, options, any)
  BY <1>3
<1> HIDE DEF options, reads
<1> QED BY <1>1, <1>2, <1>6, <1>9, <1>10, <1>11, Advance

\* It does not escape, and says so.
LEMMA NoEscapeBrings ==
  ASSUME IsSetup(setup), NEW st, NEW lv, NEW pos, NEW p \in Procs, NEW r, Stands(p, r, st, lv, pos),
         NoEscape(p), UNCHANGED loop, UNCHANGED rank_list, UNCHANGED lift,
         r.pc \in {"winner", "escape"}, NEW n, n = [To(r, "count", r.loop, Same(EscapeCount)) EXCEPT !.escaped = FALSE]
  PROVE  \E v : Brings(p, r, n, v)
<1> DEFINE v == [val[p] EXCEPT !.escapes = One(<<p, 0>>)]
<1>1. GoOn(p, v, "count", EscapeCount)
  BY DEF NoEscape
<1>2. /\ n.checked /\ n.pc = "count" /\ n.ranks = r.ranks /\ n.calls = Same(EscapeCount)
      /\ n.loop = r.loop /\ n.escaped = FALSE
  BY DEF To
<1>3. n.calls[my_cone(p)] = EscapeCount
  BY <1>2, SameCalls
<1>4. TermSet("escapes", p, n) = {<<p, 0>>}
  BY <1>2 DEF TermSet
<1>5. v = [val[p] EXCEPT !["escapes"] = SetToBag(TermSet("escapes", p, n))]
  BY <1>4 DEF One
<1>6. \E own : lift' = [lift EXCEPT ![p] = own] /\ SameLift(p, n, own)
  BY <1>2, LiftAs
<1>7. n.pc \in DOMAIN Tells /\ Tells[n.pc] = "escapes"
  BY <1>2 DEF Tells
<1>8. loop' = [loop EXCEPT ![p] = n.loop]
  BY <1>2, LoopAs
<1> HIDE DEF v
<1>9. Telling(p, r, n, "escapes", v)
  BY <1>1, <1>2, <1>3, <1>5, <1>6, <1>7, <1>8 DEF Telling
<1> QED BY <1>9, TellingBrings

LEMMA CurvaturesIn ==
  ASSUME IsSetup(setup), NEW p, NEW r, val[p].lambda = WholeOf("lambda", r),
         NEW w \in Curvatures(p)
  PROVE  IsCurvature(w)
<1>1. DOMAIN val[p].lambda = WholeSet("lambda", 0, r)
  BY DEF WholeOf, SetToBag
<1>2. PICK t \in DOMAIN val[p].lambda : \E b \in Blocks(t[1]) : w = <<t[1], b>>
  BY DEF Curvatures
<1>3. t[1] \in Cones
  <2>1. WholeSet("lambda", 0, r)
          = {<<c, Ritz, Linf(<<0, 0, c>>)>> : c \in {c \in Cones : Blocks(c) # {}}}
    BY DEF WholeSet
  <2>2. PICK c \in {c \in Cones : Blocks(c) # {}} : t = <<c, Ritz, Linf(<<0, 0, c>>)>>
    BY <1>1, <2>1
  <2> QED BY <2>2
<1>4. w[1] = t[1] /\ w[2] \in Blocks(t[1])
  BY <1>2
<1> QED BY <1>3, <1>4 DEF IsCurvature

LEMMA WinnerAgain ==
  ASSUME DecideAlike(setup), NEW st, NEW lv, NEW pos, NEW p \in Procs, NEW r,
         Stands(p, r, st, lv, pos), Winner(p)
  PROVE  Again
<1>1. IsSetup(setup) /\ r.pc = "winner" /\ UNCHANGED loop /\ UNCHANGED rank_list /\ UNCHANGED lift
  BY AtStage DEF Winner, At, DecideAlike
<1> DEFINE reads == val[p].lambda
           options == {null} \union Curvatures(p)
           L == <<Call("all", {"winner"}, {})>>
           own(w) == [val[p] EXCEPT !.winner = IF SpeaksForCone(p) /\ my_cone(p) = w[1]
                                               THEN One(w) ELSE EmptyBag]
<1>2. reads = Readings(r) /\ reads = WholeOf("lambda", r)
  <2>1. ReadAt[r.pc] = "lambda" /\ r.pc \in DOMAIN ReadAt
    BY <1>1 DEF ReadAt
  <2>2. reads = Readings(r)
    BY <1>1, <2>1, AtStage, ReadsOne
  <2> QED BY <1>1, <2>2 DEF Readings
<1>3. PICK o \in options :
        /\ Decides(p, reads, options, o)
        /\ IF o = null THEN NoEscape(p) ELSE GoOn(p, own(o), "rebuild", L)
  BY DEF Winner
<1>4. \A e \in options : IsOption(r, e)
  <2>1. \A e \in Curvatures(p) : IsCurvature(e)
    BY <1>1, <1>2, CurvaturesIn
  <2> QED BY <1>1, <2>1 DEF IsOption
<1> DEFINE n == NextStage(r, o)
<1>5. n = AfterWinner(r, o)
  BY <1>1 DEF NextStage
<1>6. \E v : Brings(p, r, n, v)
  <2>1. CASE o = null
    <3>1. n = [To(r, "count", r.loop, Same(EscapeCount)) EXCEPT !.escaped = FALSE]
      BY <1>5, <2>1 DEF AfterWinner
    <3>2. NoEscape(p)
      BY <1>3, <2>1
    <3> HIDE DEF n
    <3> QED BY <1>1, <3>1, <3>2, NoEscapeBrings
  <2>2. CASE o # null
    <3> DEFINE v == own(o)
    <3>1. /\ n.checked /\ n.pc = "rebuild" /\ n.ranks = r.ranks /\ n.calls = Same(L)
          /\ n.loop = r.loop /\ n.winner = o
      BY <1>5, <2>2 DEF AfterWinner, To
    <3>2. n.calls[my_cone(p)] = L
      BY <1>1, <3>1, SameCalls
    <3>3. TermSet("winner", p, n) = IF Speaks(p) /\ my_cone(p) = o[1] THEN {o} ELSE {}
      BY <1>1, <3>1, OwnCone DEF TermSet
    <3>4. SetToBag(TermSet("winner", p, n))
            = IF SpeaksForCone(p) /\ my_cone(p) = o[1] THEN One(o) ELSE EmptyBag
      BY <3>3 DEF One, EmptyBag, Speaks, SpeaksForCone
    <3>5. v = [val[p] EXCEPT !["winner"] = SetToBag(TermSet("winner", p, n))]
      BY <3>4
    <3>6. GoOn(p, v, "rebuild", L)
      BY <1>3, <2>2
    <3> HIDE DEF n, v, own
    <3>7. \E mine : lift' = [lift EXCEPT ![p] = mine] /\ SameLift(p, n, mine)
      BY <1>1, <3>1, LiftAs
    <3>8. n.pc \in DOMAIN Tells /\ Tells[n.pc] = "winner"
      BY <3>1 DEF Tells
    <3>9. loop' = [loop EXCEPT ![p] = n.loop]
      BY <1>1, <3>1, LoopAs
    <3>10. Telling(p, r, n, "winner", v)
      BY <1>1, <3>1, <3>2, <3>5, <3>6, <3>7, <3>8, <3>9 DEF Telling
    <3> QED BY <3>10, TellingBrings
  <2> QED BY <2>1, <2>2
<1>7. PICK v : Brings(p, r, n, v)
  BY <1>6
<1>8. r.pc \in Labels
  BY <1>1 DEF Labels
<1>9. Decides(p, reads, options, o)
  BY <1>3
<1> HIDE DEF options, reads
<1> QED BY <1>1, <1>2, <1>4, <1>7, <1>8, <1>9, Advance

\* The winner a process has heard of.
LEMMA HeardWinner ==
  ASSUME IsSetup(setup), NEW st, NEW lv, NEW pos, NEW p \in Procs, NEW r, Stands(p, r, st, lv, pos),
         r.pc \in {"rebuild", "escape", "escaped"}
  PROVE  WinnerIn(val[p]) = r.winner /\ IsCurvature(r.winner)
<1>1. "winner" \in Goal(r, my_cone(p))
  BY DEF Goal
<1> DEFINE v == val[p]
<1>2. StageOK(r) /\ Knows(p, r, <<>>, v)
  BY AtStage
<1> HIDE DEF v
<1>3. v["winner"] = WholeOf("winner", r)
  BY <1>1, <1>2, Reading
<1>4. v.winner = SetToBag({r.winner})
  BY <1>3 DEF WholeOf, WholeSet
<1>5. WinnerIn(v) = r.winner
  BY <1>4, WinnerIsIn
<1>6. IsCurvature(r.winner)
  BY <1>2 DEF StageOK
<1> QED BY <1>5, <1>6 DEF v

\* The owners of the winning block search it again, and all wait for them.
LEMMA RebuildAgain ==
  ASSUME DecideAlike(setup), NEW st, NEW lv, NEW pos, NEW p \in Procs, NEW r,
         Stands(p, r, st, lv, pos), Rebuild(p)
  PROVE  Again
<1>1. IsSetup(setup) /\ r.pc = "rebuild" /\ UNCHANGED loop /\ UNCHANGED rank_list /\ UNCHANGED lift
  BY AtStage DEF Rebuild, At, DecideAlike
<1> DEFINE reads == val[p].winner
           options == {null}
           c == my_cone(p)
           b == r.winner[2]
           first == FirstRanks(r, c)
           L == (IF c = r.winner[1] THEN FIND_AL_NEGATIVE_CURVATURE(c, first, b) ELSE <<>>)
                  \o RebuiltEverywhere
<1>2. reads = Readings(r)
  <2>1. ReadAt[r.pc] = "winner" /\ r.pc \in DOMAIN ReadAt
    BY <1>1 DEF ReadAt
  <2> QED BY <1>1, <2>1, AtStage, ReadsOne
<1>3. WinnerIn(val[p]) = r.winner /\ IsCurvature(r.winner)
  BY <1>1, HeardWinner
<1>4. Decides(p, reads, options, null)
  BY DEF Rebuild
<1>5. GoOn(p, val[p], "escape", L)
  <2>1. c = r.winner[1] => FIND_AL_NEGATIVE_CURVATURE(c, rank_list[p], b)
                             = FIND_AL_NEGATIVE_CURVATURE(c, first, b)
    <3>1. SUFFICES ASSUME c = r.winner[1]
                   PROVE  FIND_AL_NEGATIVE_CURVATURE(c, rank_list[p], b)
                            = FIND_AL_NEGATIVE_CURVATURE(c, first, b)
      OBVIOUS
    <3>2. b \in Blocks(c)
      BY <1>3, <3>1 DEF IsCurvature
    <3> QED BY <1>1, <3>2, AtStage, SameSearches
  <2>2. GoOn(p, val[p], "escape",
             (IF c = r.winner[1] THEN FIND_AL_NEGATIVE_CURVATURE(c, rank_list[p], b) ELSE <<>>)
               \o RebuiltEverywhere)
    BY <1>3 DEF Rebuild, OwnsWinner
  <2> HIDE DEF c, b, first
  <2> QED BY <2>1, <2>2
<1>6. \A e \in options : IsOption(r, e)
  BY <1>1 DEF IsOption
<1> DEFINE n == NextStage(r, null)
<1>7. n = AfterRebuild(r, null)
  BY <1>1 DEF NextStage
<1>8. Plain(p, r, n)
  <2>1. /\ n.checked /\ n.pc = "escape" /\ n.ranks = r.ranks /\ n.loop = r.loop
        /\ n.calls = [d \in Cones |->
              (IF d = r.winner[1] THEN FIND_AL_NEGATIVE_CURVATURE(d, FirstRanks(r, d), r.winner[2])
               ELSE <<>>) \o RebuiltEverywhere]
    BY <1>7 DEF AfterRebuild, To
  <2>2. n.calls[c] = L
    BY <1>1, <2>1, OwnCone
  <2> HIDE DEF n, L
  <2>3. loop' = [loop EXCEPT ![p] = n.loop]
    BY <1>1, <2>1, LoopAs
  <2> QED BY <1>1, <1>5, <2>1, <2>2, <2>3 DEF Plain, Tells
<1>9. Brings(p, r, n, val[p])
  BY <1>8, PlainBrings
<1>10. r.pc \in Labels
  BY <1>1 DEF Labels
<1> HIDE DEF options, reads
<1> QED BY <1>1, <1>2, <1>4, <1>6, <1>9, <1>10, Advance

LEMMA EscapeAgain ==
  ASSUME DecideAlike(setup), NEW st, NEW lv, NEW pos, NEW p \in Procs, NEW r,
         Stands(p, r, st, lv, pos), Escape(p)
  PROVE  Again
<1>1. IsSetup(setup) /\ r.pc = "escape" /\ UNCHANGED loop /\ UNCHANGED rank_list /\ UNCHANGED lift
  BY AtStage DEF Escape, At, DecideAlike
<1> DEFINE reads == val[p].ready
           options == BOOLEAN
           c == my_cone(p)
           L == (IF c = r.winner[1] THEN Reduce("sign", <<"rank">>) ELSE <<>>)
                  \o COMPUTE_EXACT_STEP_SIZE
<1>2. reads = Readings(r)
  <2>1. ReadAt[r.pc] = "ready" /\ r.pc \in DOMAIN ReadAt
    BY <1>1 DEF ReadAt
  <2> QED BY <1>1, <2>1, AtStage, ReadsOne
<1>3. WinnerIn(val[p]) = r.winner
  BY <1>1, HeardWinner
<1>4. PICK o \in BOOLEAN :
        /\ Decides(p, reads, options, o)
        /\ IF o THEN GoOn(p, val[p], "escaped", L) ELSE NoEscape(p)
  BY <1>3 DEF Escape, OwnsWinner
<1>5. \A e \in options : IsOption(r, e)
  BY <1>1 DEF IsOption
<1> DEFINE n == NextStage(r, o)
<1>6. n = AfterEscape(r, o)
  BY <1>1 DEF NextStage
<1>7. \E v : Brings(p, r, n, v)
  <2>1. CASE ~ o
    <3>1. n = [To(r, "count", r.loop, Same(EscapeCount)) EXCEPT !.escaped = FALSE]
      BY <1>6, <2>1 DEF AfterEscape
    <3>2. NoEscape(p)
      BY <1>4, <2>1
    <3> HIDE DEF n
    <3> QED BY <1>1, <3>1, <3>2, NoEscapeBrings
  <2>2. CASE o
    <3>1. /\ n.checked /\ n.pc = "escaped" /\ n.ranks = r.ranks /\ n.loop = r.loop
          /\ n.calls = [d \in Cones |->
               (IF d = r.winner[1] THEN Reduce("sign", <<"rank">>) ELSE <<>>)
                 \o COMPUTE_EXACT_STEP_SIZE]
      BY <1>6, <2>2 DEF AfterEscape, To
    <3>2. n.calls[c] = L
      BY <1>1, <3>1, OwnCone
    <3>3. GoOn(p, val[p], "escaped", L)
      BY <1>4, <2>2
    <3> HIDE DEF n, L
    <3>4. loop' = [loop EXCEPT ![p] = n.loop]
      BY <1>1, <3>1, LoopAs
    <3>5. Plain(p, r, n)
      BY <1>1, <3>1, <3>2, <3>3, <3>4 DEF Plain, Tells
    <3> QED BY <3>5, PlainBrings
  <2> QED BY <2>1, <2>2
<1>8. PICK v : Brings(p, r, n, v)
  BY <1>7
<1>9. r.pc \in Labels
  BY <1>1 DEF Labels
<1>10. Decides(p, reads, options, o)
  BY <1>4
<1> HIDE DEF options, reads
<1> QED BY <1>1, <1>2, <1>5, <1>8, <1>9, <1>10, Advance

LEMMA EscapedAgain ==
  ASSUME DecideAlike(setup), NEW st, NEW lv, NEW pos, NEW p \in Procs, NEW r,
         Stands(p, r, st, lv, pos), Escaped(p)
  PROVE  Again
<1>1. IsSetup(setup) /\ r.pc = "escaped" /\ UNCHANGED loop /\ UNCHANGED rank_list /\ UNCHANGED lift
  BY AtStage DEF Escaped, At, DecideAlike
<1> DEFINE reads == StepSize(p)
           options == BOOLEAN
           count(o) == IF o /\ SpeaksForCone(p) /\ my_cone(p) = r.winner[1] THEN 1 ELSE 0
           own(o) == [val[p] EXCEPT !.escapes = One(<<p, count(o)>>)]
<1>2. reads = Readings(r)
  BY <1>1, AtStage, ReadsStep DEF StepSize
<1>3. WinnerIn(val[p]) = r.winner
  BY <1>1, HeardWinner
<1>4. PICK o \in BOOLEAN :
        /\ Decides(p, reads, options, o)
        /\ GoOn(p, own(o), "count", EscapeCount)
  BY <1>3 DEF Escaped, OwnsWinner
<1>5. \A e \in options : IsOption(r, e)
  BY <1>1 DEF IsOption
<1> DEFINE n == NextStage(r, o)
           v == own(o)
<1>6. n = AfterEscaped(r, o)
  BY <1>1 DEF NextStage
<1>7. /\ n.checked /\ n.pc = "count" /\ n.ranks = r.ranks /\ n.calls = Same(EscapeCount)
      /\ n.loop = r.loop /\ n.escaped = o /\ n.winner = r.winner
  BY <1>6 DEF AfterEscaped, To
<1>8. n.calls[my_cone(p)] = EscapeCount
  BY <1>1, <1>7, SameCalls
<1>9. TermSet("escapes", p, n) = {<<p, count(o)>>}
  BY <1>1, <1>7, OwnCone DEF TermSet, Speaks, SpeaksForCone
<1>10. v = [val[p] EXCEPT !["escapes"] = SetToBag(TermSet("escapes", p, n))]
  BY <1>9 DEF One
<1>11. GoOn(p, v, "count", EscapeCount)
  BY <1>4
<1>12. Decides(p, reads, options, o)
  BY <1>4
<1>13. n = NextStage(r, o)
  OBVIOUS
<1> HIDE DEF n, v, own, count, options, reads
<1>14. \E mine : lift' = [lift EXCEPT ![p] = mine] /\ SameLift(p, n, mine)
  BY <1>1, <1>7, LiftAs
<1>15. n.pc \in DOMAIN Tells /\ Tells[n.pc] = "escapes"
  BY <1>7 DEF Tells
<1>16. loop' = [loop EXCEPT ![p] = n.loop]
  BY <1>1, <1>7, LoopAs
<1>17. Telling(p, r, n, "escapes", v)
  BY <1>1, <1>7, <1>8, <1>10, <1>11, <1>14, <1>15, <1>16 DEF Telling
<1>18. Brings(p, r, NextStage(r, o), v)
  BY <1>13, <1>17, TellingBrings
<1>19. r.pc \in Labels
  BY <1>1 DEF Labels
<1> QED BY <1>1, <1>2, <1>5, <1>12, <1>18, <1>19, Advance

LEMMA CountAgain ==
  ASSUME DecideAlike(setup), NEW st, NEW lv, NEW pos, NEW p \in Procs, NEW r,
         Stands(p, r, st, lv, pos), Count(p)
  PROVE  Again
<1>1. IsSetup(setup) /\ r.pc = "count" /\ UNCHANGED rank_list /\ UNCHANGED lift
  BY AtStage DEF Count, At, DecideAlike
<1> DEFINE reads == val[p].escapes
           o == \E t \in DOMAIN val[p].escapes : t[2] = 1
           options == {o}
           L == COMPUTE_PRIMAL_RESIDUAL \o COMPUTE_GRADIENT \o GLOBAL_NORM
           counters == [r.loop EXCEPT !.esc = IF o THEN @ + 1 ELSE @, !.inner = 0]
<1>2. reads = Readings(r)
  <2>1. ReadAt[r.pc] = "escapes" /\ r.pc \in DOMAIN ReadAt
    BY <1>1 DEF ReadAt
  <2> QED BY <1>1, <2>1, AtStage, ReadsOne
<1>3. /\ Decides(p, reads, options, o)
      /\ Set(loop, p, [loop[p] EXCEPT !.esc = IF o THEN @ + 1 ELSE @, !.inner = 0])
      /\ IF o THEN GoOn(p, val[p], "converged", L) ELSE GoOn(p, val[p], "dual_step", DualStepCalls)
  BY DEF Count
<1>4. loop[p] = r.loop /\ loop' = [loop EXCEPT ![p] = counters]
  <2>1. loop[p] = r.loop
    BY AtStage
  <2> HIDE DEF o
  <2> QED BY <1>3, <2>1 DEF Set
<1>5. o \in BOOLEAN
  OBVIOUS
<1> HIDE DEF o
<1>6. \A e \in options : IsOption(r, e)
  BY <1>1, <1>5 DEF IsOption
<1> DEFINE n == NextStage(r, o)
<1>7. n = AfterCount(r, o)
  BY <1>1 DEF NextStage
<1>8. Plain(p, r, n)
  <2>1. CASE o
    <3>1. /\ n.checked /\ n.pc = "converged" /\ n.ranks = r.ranks /\ n.loop = counters
          /\ n.calls = Same(L)
      BY <1>7, <2>1 DEF AfterCount, To
    <3>2. n.calls[my_cone(p)] = L
      BY <1>1, <3>1, SameCalls
    <3> HIDE DEF n, counters, L
    <3> QED BY <1>1, <1>3, <1>4, <2>1, <3>1, <3>2 DEF Plain, Tells
  <2>2. CASE ~ o
    <3>1. /\ n.checked /\ n.pc = "dual_step" /\ n.ranks = r.ranks /\ n.calls = Same(DualStepCalls)
          /\ n.loop = counters
      BY <1>7, <2>2 DEF AfterCount, To
    <3>2. n.calls[my_cone(p)] = DualStepCalls
      BY <1>1, <3>1, SameCalls
    <3> HIDE DEF n, counters, L
    <3> QED BY <1>1, <1>3, <1>4, <2>2, <3>1, <3>2 DEF Plain, Tells
  <2> QED BY <2>1, <2>2
<1>9. Brings(p, r, n, val[p])
  BY <1>8, PlainBrings
<1>10. r.pc \in Labels
  BY <1>1 DEF Labels
<1>11. Decides(p, reads, options, o)
  BY <1>3
<1> HIDE DEF options, reads
<1> QED BY <1>1, <1>2, <1>6, <1>9, <1>10, <1>11, Advance

LEMMA DualStepAgain ==
  ASSUME DecideAlike(setup), NEW st, NEW lv, NEW pos, NEW p \in Procs, NEW r,
         Stands(p, r, st, lv, pos), DualStep(p)
  PROVE  Again
<1>1. IsSetup(setup) /\ r.pc = "dual_step" /\ UNCHANGED rank_list /\ UNCHANGED lift
  BY AtStage DEF DualStep, At, DecideAlike
<1> DEFINE reads == val[p].q0_norm
           options == BOOLEAN
           counters == [r.loop EXCEPT !.middle = @ + 1, !.inner = 0, !.esc = 0]
<1>2. reads = Readings(r)
  <2>1. ReadAt[r.pc] = "q0_norm" /\ r.pc \in DOMAIN ReadAt
    BY <1>1 DEF ReadAt
  <2> QED BY <1>1, <2>1, AtStage, ReadsOne
<1>3. loop[p] = r.loop
  BY AtStage
<1>4. PICK o \in BOOLEAN :
        /\ Decides(p, reads, options, o)
        /\ Set(loop, p, counters)
        /\ IF o \/ r.loop.middle + 1 = setup.max_middle_iters
           THEN GoOn(p, val[p], "gate", GateCalls)
           ELSE GoOn(p, val[p], "converged", GLOBAL_NORM)
  BY <1>3 DEF DualStep
<1>5. \A e \in options : IsOption(r, e)
  BY <1>1 DEF IsOption
<1> DEFINE n == NextStage(r, o)
           out == o \/ r.loop.middle + 1 = setup.max_middle_iters
<1>6. n = AfterDualStep(r, o)
  BY <1>1 DEF NextStage
<1>7. Plain(p, r, n)
  <2>1. CASE out
    <3>1. /\ n.checked /\ n.pc = "gate" /\ n.ranks = r.ranks /\ n.loop = counters
          /\ n.calls = Same(GateCalls)
      BY <1>6, <2>1 DEF AfterDualStep, To
    <3>2. n.calls[my_cone(p)] = GateCalls
      BY <1>1, <3>1, SameCalls
    <3> HIDE DEF n, counters
    <3> QED BY <1>1, <1>4, <2>1, <3>1, <3>2 DEF Plain, Tells, Set
  <2>2. CASE ~ out
    <3>1. /\ n.checked /\ n.pc = "converged" /\ n.ranks = r.ranks /\ n.calls = Same(GLOBAL_NORM)
          /\ n.loop = counters
      BY <1>6, <2>2 DEF AfterDualStep, To
    <3>2. n.calls[my_cone(p)] = GLOBAL_NORM
      BY <1>1, <3>1, SameCalls
    <3> HIDE DEF n, counters
    <3> QED BY <1>1, <1>4, <2>2, <3>1, <3>2 DEF Plain, Tells, Set
  <2> QED BY <2>1, <2>2
<1>8. Brings(p, r, n, val[p])
  BY <1>7, PlainBrings
<1>9. r.pc \in Labels
  BY <1>1 DEF Labels
<1>10. Decides(p, reads, options, o)
  BY <1>4
<1> HIDE DEF options, reads
<1> QED BY <1>1, <1>2, <1>5, <1>8, <1>9, <1>10, Advance

LEMMA GateAgain ==
  ASSUME DecideAlike(setup), NEW st, NEW lv, NEW pos, NEW p \in Procs, NEW r,
         Stands(p, r, st, lv, pos), Gate(p)
  PROVE  Again
<1>1. IsSetup(setup) /\ r.pc = "gate" /\ UNCHANGED loop /\ UNCHANGED rank_list /\ UNCHANGED lift
  BY AtStage DEF Gate, At, DecideAlike
<1> DEFINE reads == Measures(p)
           options == {"augment", "check", "go_on"}
<1>2. reads = Readings(r)
  BY <1>1, AtStage, ReadsGaps DEF Measures, Readings
<1>3. PICK o \in options :
        /\ Decides(p, reads, options, o)
        /\ CASE o = "augment" -> GoOn(p, val[p], "lift", DualSlack(my_cone(p)))
             [] o = "check" -> GoOn(p, val[p], "terminate", CHECK_DUAL_INFEASIBILITY(my_cone(p)))
             [] o = "go_on" -> GoOn(p, NoDualResidual(p), "terminate", <<>>)
  BY DEF Gate
<1>4. \A e \in options : IsOption(r, e)
  BY <1>1 DEF IsOption
<1> DEFINE n == NextStage(r, o)
<1>5. n = AfterGate(r, o)
  BY <1>1 DEF NextStage
<1>6. \E v : Brings(p, r, n, v)
  <2>1. CASE o = "augment"
    <3>1. /\ n.checked /\ n.pc = "lift" /\ n.ranks = r.ranks /\ n.loop = r.loop
          /\ n.calls = [c \in Cones |-> DualSlack(c)]
      BY <1>5, <2>1 DEF AfterGate, To
    <3>2. n.calls[my_cone(p)] = DualSlack(my_cone(p))
      BY <1>1, <3>1, OwnCone
    <3>3. GoOn(p, val[p], "lift", DualSlack(my_cone(p)))
      BY <1>3, <2>1
    <3> HIDE DEF n
    <3>4. loop' = [loop EXCEPT ![p] = n.loop]
      BY <1>1, <3>1, LoopAs
    <3>5. Plain(p, r, n)
      BY <1>1, <3>1, <3>2, <3>3, <3>4 DEF Plain, Tells
    <3> QED BY <3>5, PlainBrings
  <2>2. CASE o = "check"
    <3>1. /\ n.checked /\ n.pc = "terminate" /\ n.ranks = r.ranks /\ n.loop = r.loop
          /\ n.calls = [c \in Cones |-> CHECK_DUAL_INFEASIBILITY(c)] /\ n.kept = null
      BY <1>5, <2>2 DEF AfterGate, Unlifted, To
    <3>2. n.calls[my_cone(p)] = CHECK_DUAL_INFEASIBILITY(my_cone(p))
      BY <1>1, <3>1, OwnCone
    <3>3. GoOn(p, val[p], "terminate", CHECK_DUAL_INFEASIBILITY(my_cone(p)))
      BY <1>3, <2>2
    <3> HIDE DEF n
    <3>4. loop' = [loop EXCEPT ![p] = n.loop]
      BY <1>1, <3>1, LoopAs
    <3>5. Plain(p, r, n)
      BY <1>1, <3>1, <3>2, <3>3, <3>4 DEF Plain, Tells
    <3> QED BY <3>5, PlainBrings
  <2>3. CASE o = "go_on"
    <3> DEFINE v == NoDualResidual(p)
    <3>1. /\ n.checked = FALSE /\ n.pc = "terminate" /\ n.ranks = r.ranks /\ n.loop = r.loop
          /\ n.calls = Same(<<>>) /\ n.kept = null
      BY <1>5, <2>3 DEF AfterGate, Unlifted, To
    <3>2. n.calls[my_cone(p)] = <<>>
      BY <1>1, <3>1, SameCalls
    <3>3. GoOn(p, v, "terminate", <<>>)
      BY <1>3, <2>3
    <3>4. DOMAIN v = Quantities /\ \A x \in Quantities :
            v[x] = IF x \in Residuals /\ ~ n.checked THEN EmptyBag ELSE val[p][x]
      BY <3>1, AtStage DEF NoDualResidual, Residuals, Quantities
    <3>5. Brought(r, n, my_cone(p)) \subseteq Quantities
      BY <3>1 DEF Brought, Base, Residuals, Quantities
    <3> HIDE DEF n, v
    <3>6. loop' = [loop EXCEPT ![p] = n.loop]
      BY <1>1, <3>1, LoopAs
    <3>7. rank_list' = [rank_list EXCEPT ![p] = OwnRanks(p, n)]
      BY <1>1, <3>1, RanksAs
    <3>8. \E own : lift' = [lift EXCEPT ![p] = own] /\ SameLift(p, n, own)
      BY <1>1, <3>1, LiftAs
    <3>9. n.pc \notin DOMAIN Tells
      BY <3>1 DEF Tells
    <3>10. Brings(p, r, n, v)
      BY <3>1, <3>2, <3>3, <3>4, <3>5, <3>6, <3>7, <3>8, <3>9 DEF Brings
    <3> QED BY <3>10
  <2> QED BY <2>1, <2>2, <2>3
<1>7. PICK v : Brings(p, r, n, v)
  BY <1>6
<1>8. r.pc \in Labels
  BY <1>1 DEF Labels
<1>9. Decides(p, reads, options, o)
  BY <1>3
<1> HIDE DEF options, reads
<1> QED BY <1>1, <1>2, <1>4, <1>7, <1>8, <1>9, Advance

LEMMA TerminateAgain ==
  ASSUME DecideAlike(setup), NEW st, NEW lv, NEW pos, NEW p \in Procs, NEW r,
         Stands(p, r, st, lv, pos), Terminate(p)
  PROVE  Again
<1>1. IsSetup(setup) /\ r.pc = "terminate" /\ UNCHANGED rank_list /\ lift' = [lift EXCEPT ![p] = NoLift]
  BY AtStage DEF Terminate, At, DecideAlike, Set
<1> DEFINE reads == <<Measures(p), val[p].min_slack, val[p].free, ObjectiveNorm(p)>>
           options == IF val[p].free = EmptyBag THEN {FALSE} ELSE BOOLEAN
           counters == [r.loop EXCEPT !.outer = @ + 1, !.middle = 0]
<1>2. reads = Readings(r)
  BY <1>1, AtStage, ReadsTerminate DEF Measures
<1>3. loop[p] = r.loop
  BY AtStage
<1>4. PICK o \in BOOLEAN :
        /\ Decides(p, reads, options, o)
        /\ IF o \/ r.loop.outer + 1 = setup.iteration_limit
           THEN GoOn(p, NoNumbers, "done", <<>>)
           ELSE GoOn(p, NoNumbers, "head", HeadCalls)
  BY <1>3 DEF Terminate
<1>5. loop' = [loop EXCEPT ![p] = counters]
  BY <1>3 DEF Terminate, Set
<1>6. \A e \in options : IsOption(r, e)
  BY <1>1 DEF IsOption
<1> DEFINE n == NextStage(r, o)
           out == o \/ r.loop.outer + 1 = setup.iteration_limit
           L == IF out THEN <<>> ELSE HeadCalls
<1>7. n = AfterTerminate(r, o)
  BY <1>1 DEF NextStage
<1>8. /\ n.checked /\ n.pc = (IF out THEN "done" ELSE "head") /\ n.ranks = r.ranks
      /\ n.calls = Same(L) /\ n.loop = counters
  BY <1>7 DEF AfterTerminate, To
<1>9. n.calls[my_cone(p)] = L
  BY <1>1, <1>8, SameCalls
<1>10. GoOn(p, NoNumbers, n.pc, L)
  BY <1>4, <1>8
<1> HIDE DEF n, L, counters
<1>11. rank_list' = [rank_list EXCEPT ![p] = OwnRanks(p, n)]
  BY <1>1, <1>8, RanksAs
<1>12. n.pc \notin {"select", "weigh", "terminate"} /\ n.pc \notin DOMAIN Tells
  BY <1>8 DEF Tells
<1>13. \E own : lift' = [lift EXCEPT ![p] = own] /\ SameLift(p, n, own)
  BY <1>1, <1>12, SameLiftAs
<1>14. Brought(r, n, my_cone(p)) = {}
  BY <1>8 DEF Brought
<1>15. DOMAIN NoNumbers = Quantities
  BY DEF NoNumbers
<1>16. Brings(p, r, n, NoNumbers)
  BY <1>5, <1>8, <1>9, <1>10, <1>11, <1>12, <1>13, <1>14, <1>15 DEF Brings
<1>17. r.pc \in Labels
  BY <1>1 DEF Labels
<1>18. Decides(p, reads, options, o)
  BY <1>4
<1>19. Brings(p, r, NextStage(r, o), NoNumbers)
  BY <1>16 DEF n
<1> HIDE DEF options, reads
<1> QED BY <1>1, <1>2, <1>6, <1>17, <1>18, <1>19, Advance

\* What each cone gave, in order.
LEMMA PartsAre ==
  ASSUME IsSetup(setup), NEW p, NEW x, NEW f, val[p][x] = SetToBag({<<c, f[c]>> : c \in Cones})
  PROVE  Parts(p, x) = [c \in 1..setup.dims[3] |-> f[c - 1]]
<1> DEFINE T == {<<c, f[c]>> : c \in Cones}
<1>1. DOMAIN val[p][x] = T
  BY DEF SetToBag
<1> DEFINE given(c) == (CHOOSE t \in DOMAIN val[p][x] : t[1] = c - 1)[2]
<1>2. ASSUME NEW c \in 1..setup.dims[3]
      PROVE  given(c) = f[c - 1]
  <2>1. c - 1 \in Cones
    BY <1>2, SetupDims DEF All, Cones
  <2>2. \E t \in T : t[1] = c - 1
    <3> DEFINE d == c - 1
    <3> HIDE DEF d
    <3>1. <<d, f[d]>> \in T /\ <<d, f[d]>>[1] = d
      BY <2>1 DEF d
    <3> HIDE DEF T
    <3> QED BY <3>1 DEF d
  <2> DEFINE t == CHOOSE t \in DOMAIN val[p][x] : t[1] = c - 1
  <2>3. t \in T /\ t[1] = c - 1
    <3> HIDE DEF T
    <3> QED BY <1>1, <2>2
  <2> HIDE DEF t
  <2>4. PICK d \in Cones : t = <<d, f[d]>>
    BY <2>3
  <2>5. t[2] = f[c - 1]
    BY <2>3, <2>4
  <2> QED BY <2>5 DEF t
<1>3. Parts(p, x) = [c \in 1..setup.dims[3] |-> given(c)]
  BY DEF Parts
<1>4. \A c \in 1..setup.dims[3] : given(c) = f[c - 1]
  BY <1>2
<1> HIDE DEF T, given
<1> QED BY <1>3, <1>4

\* On all the cones directions are found or on none, when the lift is joint.
LEMMA FoundAlike ==
  ASSUME DecideAlike(setup), setup.mode # "random", NEW o \in setup.directions, NEW c \in Cones
  PROVE  NoneFound(o, c) <=> NoneFound(o, 0)
<1>1. c + 1 \in 1..setup.dims[3] /\ 1 \in 1..setup.dims[3]
  BY SetupDims DEF DecideAlike, Cones
<1>2. \/ \A d \in 1..setup.dims[3] : \A b \in DOMAIN o[d] : o[d][b] = <<>>
      \/ \A d \in 1..setup.dims[3] : \E b \in DOMAIN o[d] : o[d][b] # <<>>
  BY DEF DecideAlike
<1>3. CASE \A d \in 1..setup.dims[3] : \A b \in DOMAIN o[d] : o[d][b] = <<>>
  BY <1>1, <1>3 DEF NoneFound
<1>4. CASE \A d \in 1..setup.dims[3] : \E b \in DOMAIN o[d] : o[d][b] # <<>>
  <2>1. ~ NoneFound(o, c)
    BY <1>1, <1>4 DEF NoneFound
  <2>2. ~ NoneFound(o, 0)
    BY <1>1, <1>4 DEF NoneFound
  <2> QED BY <2>1, <2>2
<1> QED BY <1>2, <1>3, <1>4

\* A process lifts by itself, or all of them do together.
Lifts(p, o) ==
  LET eig == o[my_cone(p) + 1]
  IN  CASE \A b \in DOMAIN eig : eig[b] = <<>> ->
             GoOn(p, val[p], "terminate", <<>>) /\ UNCHANGED <<rank_list, lift>>
        [] setup.mode = "random" /\ \E b \in DOMAIN eig : eig[b] # <<>> ->
             /\ Set(rank_list, p, Grown(my_cone(p), rank_list[p],
                                        [b \in DOMAIN eig |-> Len(eig[b])]))
             /\ GoOn(p, val[p], "terminate", <<>>)
             /\ UNCHANGED lift
        [] setup.mode # "random" /\ \E b \in DOMAIN eig : eig[b] # <<>> ->
             /\ Set(lift, p, [NoLift EXCEPT !.eig = eig])
             /\ GoOn(p, [val[p] EXCEPT
                         !.strengths = One(<<my_cone(p), Strengths(eig)>>)],
                     "select", <<Call("cone", {"strengths"}, {})>>)
             /\ UNCHANGED rank_list

LEMMA LiftsCases ==
  ASSUME NEW p, NEW o, Lifts(p, o), NEW eig, eig = o[my_cone(p) + 1]
  PROVE  /\ NoneFound(o, my_cone(p)) =>
              GoOn(p, val[p], "terminate", <<>>) /\ UNCHANGED <<rank_list, lift>>
         /\ ~ NoneFound(o, my_cone(p)) /\ setup.mode = "random" =>
              /\ rank_list' = [rank_list EXCEPT ![p] =
                   Grown(my_cone(p), rank_list[p], [b \in DOMAIN eig |-> Len(eig[b])])]
              /\ GoOn(p, val[p], "terminate", <<>>)
              /\ UNCHANGED lift
         /\ ~ NoneFound(o, my_cone(p)) /\ setup.mode # "random" =>
              /\ lift' = [lift EXCEPT ![p] = [NoLift EXCEPT !.eig = eig]]
              /\ GoOn(p, [val[p] EXCEPT !.strengths = One(<<my_cone(p), Strengths(eig)>>)],
                      "select", <<Call("cone", {"strengths"}, {})>>)
              /\ UNCHANGED rank_list
<1> DEFINE none == \A b \in DOMAIN eig : eig[b] = <<>>
           some == \E b \in DOMAIN eig : eig[b] # <<>>
           A == GoOn(p, val[p], "terminate", <<>>) /\ UNCHANGED <<rank_list, lift>>
           B == /\ Set(rank_list, p, Grown(my_cone(p), rank_list[p],
                                           [b \in DOMAIN eig |-> Len(eig[b])]))
                /\ GoOn(p, val[p], "terminate", <<>>)
                /\ UNCHANGED lift
           C == /\ Set(lift, p, [NoLift EXCEPT !.eig = eig])
                /\ GoOn(p, [val[p] EXCEPT !.strengths = One(<<my_cone(p), Strengths(eig)>>)],
                        "select", <<Call("cone", {"strengths"}, {})>>)
                /\ UNCHANGED rank_list
<1>1. (CASE none -> A
         [] setup.mode = "random" /\ some -> B
         [] setup.mode # "random" /\ some -> C)
  BY DEF Lifts
<1>2. some <=> ~ none
  OBVIOUS
<1>3. NoneFound(o, my_cone(p)) <=> none
  BY DEF NoneFound
<1> HIDE DEF none, some
<1>4. /\ NoneFound(o, my_cone(p)) => A
      /\ ~ NoneFound(o, my_cone(p)) /\ setup.mode = "random" => B
      /\ ~ NoneFound(o, my_cone(p)) /\ setup.mode # "random" => C
  <2> HIDE DEF A, B, C
  <2> QED BY <1>1, <1>2, <1>3
<1> QED BY <1>4 DEF Set

\* The ranks of a share after the lift.
LEMMA OwnAfterLift ==
  ASSUME IsSetup(setup), NEW r, NEW o, NEW p \in Procs, NEW n, n.ranks = RanksAfterLift(r, o),
         NEW eig, eig = o[my_cone(p) + 1]
  PROVE  /\ NoneFound(o, my_cone(p)) => OwnRanks(p, n) = OwnRanks(p, r)
         /\ ~ NoneFound(o, my_cone(p)) =>
              OwnRanks(p, n) = Grown(my_cone(p), OwnRanks(p, r), [b \in DOMAIN eig |-> Len(eig[b])])
<1> DEFINE x == <<coords(p)[2], my_cone(p)>>
<1>1. x \in All(2) \X Cones /\ x[2] = my_cone(p)
  BY CoordsIn
<1>2. n.ranks[x] = IF NoneFound(o, x[2]) THEN r.ranks[x]
                   ELSE Grown(x[2], r.ranks[x], [b \in DOMAIN o[x[2] + 1] |-> Len(o[x[2] + 1][b])])
  BY <1>1 DEF RanksAfterLift
<1>3. OwnRanks(p, n) = n.ranks[x] /\ OwnRanks(p, r) = r.ranks[x]
  BY DEF OwnRanks
<1> HIDE DEF x
<1> QED BY <1>1, <1>2, <1>3

LEMMA LiftBrings ==
  ASSUME DecideAlike(setup), NEW st, NEW lv, NEW pos, NEW p \in Procs, NEW r,
         Stands(p, r, st, lv, pos), r.pc = "lift", UNCHANGED loop, NEW o \in setup.directions,
         Lifts(p, o),
         NEW n, n = AfterLift(r, o)
  PROVE  \E v : Brings(p, r, n, v)
<1> DEFINE c == my_cone(p)
           eig == o[c + 1]
           none == NoneFound(o, c)
           random == setup.mode = "random"
<1>1. IsSetup(setup) /\ c \in Cones
  BY OwnCone DEF DecideAlike
<1>2. /\ none => GoOn(p, val[p], "terminate", <<>>) /\ UNCHANGED rank_list /\ UNCHANGED lift
      /\ ~ none /\ random =>
           /\ rank_list' = [rank_list EXCEPT ![p] =
                Grown(c, rank_list[p], [b \in DOMAIN eig |-> Len(eig[b])])]
           /\ GoOn(p, val[p], "terminate", <<>>)
           /\ UNCHANGED lift
      /\ ~ none /\ ~ random =>
           /\ lift' = [lift EXCEPT ![p] = [NoLift EXCEPT !.eig = eig]]
           /\ GoOn(p, [val[p] EXCEPT !.strengths = One(<<c, Strengths(eig)>>)],
                   "select", <<Call("cone", {"strengths"}, {})>>)
           /\ UNCHANGED rank_list
  BY LiftsCases
<1>3. /\ rank_list[p] = OwnRanks(p, r) /\ DOMAIN val[p] = Quantities
      /\ rank_list = [rank_list EXCEPT ![p] = rank_list[p]]
  BY DEF Stands
<1>4. CASE random
  <2>1. /\ n.checked /\ n.pc = "terminate" /\ n.calls = Same(<<>>) /\ n.loop = r.loop
        /\ n.ranks = RanksAfterLift(r, o) /\ n.kept = null
    BY <1>4 DEF AfterLift, Unlifted, To
  <2>2. n.calls[c] = <<>>
    BY <1>1, <2>1, SameCalls
  <2>3. /\ none => OwnRanks(p, n) = OwnRanks(p, r)
        /\ ~ none => OwnRanks(p, n) = Grown(c, OwnRanks(p, r), [b \in DOMAIN eig |-> Len(eig[b])])
    BY <1>1, <2>1, OwnAfterLift
  <2>4. GoOn(p, val[p], "terminate", <<>>) /\ UNCHANGED lift
    BY <1>2, <1>4
  <2>5. rank_list' = [rank_list EXCEPT ![p] = OwnRanks(p, n)]
    <3> HIDE DEF none, eig, c
    <3>1. CASE none
      BY <1>2, <1>3, <2>3, <3>1
    <3>2. CASE ~ none
      BY <1>2, <1>3, <1>4, <2>3, <3>2
    <3> QED BY <3>1, <3>2
  <2>6. loop' = [loop EXCEPT ![p] = n.loop]
    BY <2>1, LoopAs
  <2>7. \E own : lift' = [lift EXCEPT ![p] = own] /\ SameLift(p, n, own)
    BY <2>1, <2>4, LiftAs
  <2>8. n.pc \notin DOMAIN Tells
    BY <2>1 DEF Tells
  <2>9. Brings(p, r, n, val[p])
    BY <1>3, <2>1, <2>2, <2>4, <2>5, <2>6, <2>7, <2>8, BringsOwn
  <2> QED BY <2>9
<1>5. CASE ~ random /\ none
  <2>1. NoneFound(o, 0)
    BY <1>1, <1>5, FoundAlike
  <2>2. /\ n.checked /\ n.pc = "terminate" /\ n.calls = Same(<<>>) /\ n.loop = r.loop
        /\ n.ranks = r.ranks /\ n.kept = null
    BY <1>5, <2>1 DEF AfterLift, Unlifted, To
  <2>3. n.calls[c] = <<>>
    BY <1>1, <2>2, SameCalls
  <2>4. loop' = [loop EXCEPT ![p] = n.loop]
    BY <2>2, LoopAs
  <2>5. Plain(p, r, n)
    BY <1>2, <1>5, <2>2, <2>3, <2>4 DEF Plain, Tells
  <2> QED BY <2>5, PlainBrings
<1>6. CASE ~ random /\ ~ none
  <2> DEFINE L == <<Call("cone", {"strengths"}, {})>>
             v == [val[p] EXCEPT !.strengths = One(<<c, Strengths(eig)>>)]
             mine == [NoLift EXCEPT !.eig = eig]
  <2>1. ~ NoneFound(o, 0)
    BY <1>1, <1>6, FoundAlike
  <2>2. /\ n.checked /\ n.pc = "select" /\ n.calls = Same(L) /\ n.loop = r.loop
        /\ n.ranks = r.ranks /\ n.eig = [d \in Cones |-> o[d + 1]]
    BY <1>6, <2>1 DEF AfterLift, To
  <2>3. n.calls[c] = L /\ n.eig[c] = eig
    BY <1>1, <2>2, SameCalls
  <2>4. lift' = [lift EXCEPT ![p] = mine] /\ GoOn(p, v, "select", L) /\ UNCHANGED rank_list
    BY <1>2, <1>6
  <2>5. TermSet("strengths", p, n) = {<<c, Strengths(eig)>>}
    BY <1>1, <2>3, OwnCone DEF TermSet
  <2>6. v = [val[p] EXCEPT !["strengths"] = SetToBag(TermSet("strengths", p, n))]
    BY <2>5 DEF One
  <2>7. SameLift(p, n, mine)
    <3>1. mine = [eig |-> n.eig[c], kept |-> null]
      BY <2>3 DEF NoLift
    <3> QED BY <2>2, <3>1, SameLiftIs
  <2>8. loop' = [loop EXCEPT ![p] = n.loop]
    BY <2>2, LoopAs
  <2>9. n.pc \in DOMAIN Tells /\ Tells[n.pc] = "strengths"
    BY <2>2 DEF Tells
  <2> HIDE DEF v, mine, L, eig
  <2>10. Telling(p, r, n, "strengths", v)
    BY <2>2, <2>3, <2>4, <2>6, <2>7, <2>8, <2>9 DEF Telling
  <2> QED BY <2>10, TellingBrings
<1> QED BY <1>4, <1>5, <1>6

LEMMA LiftAgain ==
  ASSUME DecideAlike(setup), NEW st, NEW lv, NEW pos, NEW p \in Procs, NEW r,
         Stands(p, r, st, lv, pos), Lift(p)
  PROVE  Again
<1>1. IsSetup(setup) /\ r.pc = "lift" /\ UNCHANGED loop
  BY AtStage DEF Lift, At, DecideAlike
<1> DEFINE reads == val[p].min_eigval
           options == setup.directions
<1>2. reads = Readings(r)
  <2>1. ReadAt[r.pc] = "min_eigval" /\ r.pc \in DOMAIN ReadAt
    BY <1>1 DEF ReadAt
  <2> QED BY <1>1, <2>1, AtStage, ReadsOne
<1>3. PICK o \in options : Decides(p, reads, options, o) /\ Lifts(p, o)
  BY DEF Lift, Lifts
<1>4. \A e \in options : IsOption(r, e)
  BY <1>1 DEF IsOption
<1>5. NextStage(r, o) = AfterLift(r, o)
  BY <1>1 DEF NextStage
<1>6. \E v : Brings(p, r, NextStage(r, o), v)
  BY <1>1, <1>3, <1>5, LiftBrings
<1>7. PICK v : Brings(p, r, NextStage(r, o), v)
  BY <1>6
<1>8. r.pc \in Labels
  BY <1>1 DEF Labels
<1>9. Decides(p, reads, options, o)
  BY <1>3
<1> HIDE DEF options, reads
<1> QED BY <1>1, <1>2, <1>4, <1>7, <1>8, <1>9, Advance

LEMMA SelectAgain ==
  ASSUME DecideAlike(setup), NEW st, NEW lv, NEW pos, NEW p \in Procs, NEW r,
         Stands(p, r, st, lv, pos), Select(p)
  PROVE  Again
<1>1. IsSetup(setup) /\ r.pc = "select" /\ UNCHANGED loop /\ UNCHANGED rank_list
  BY AtStage DEF Select, At, DecideAlike
<1> DEFINE reads == val[p].strengths
           options == {null}
           c == my_cone(p)
           kept == KeptAfter(r)[c]
           weight == Variables(c, kept, setup.mode)
           v == [val[p] EXCEPT !.variables = One(<<c, weight>>)]
           mine == [lift[p] EXCEPT !.kept = kept]
           n == NextStage(r, null)
<1>2. reads = Readings(r)
  <2>1. ReadAt[r.pc] = "strengths" /\ r.pc \in DOMAIN ReadAt
    BY <1>1 DEF ReadAt
  <2> QED BY <1>1, <2>1, AtStage, ReadsOne
<1>3. Parts(p, "strengths") = StrengthParts(r)
  <2> DEFINE f == [d \in Cones |-> Strengths(r.eig[d])]
  <2>1. val[p].strengths = SetToBag({<<d, Strengths(r.eig[d])>> : d \in Cones})
    BY <1>1, <1>2 DEF Readings, WholeOf, WholeSet
  <2>2. {<<d, Strengths(r.eig[d])>> : d \in Cones} = {<<d, f[d]>> : d \in Cones}
    OBVIOUS
  <2>3. \A d \in 1..setup.dims[3] : f[d - 1] = Strengths(r.eig[d - 1])
    <3>1. \A d \in 1..setup.dims[3] : d - 1 \in Cones
      BY <1>1, SetupDims DEF All, Cones
    <3> QED BY <3>1
  <2>4. val[p]["strengths"] = SetToBag({<<d, f[d]>> : d \in Cones})
    BY <2>1, <2>2
  <2> HIDE DEF f
  <2>5. Parts(p, "strengths") = [d \in 1..setup.dims[3] |-> f[d - 1]]
    BY <1>1, <2>4, PartsAre
  <2> QED BY <2>3, <2>5 DEF StrengthParts
<1>4. c \in Cones /\ lift[p] = [eig |-> r.eig[c], kept |-> null]
  BY <1>1, OwnCone, AtStage, SameLiftIs
<1>5. lift[p].eig = r.eig[c]
  BY <1>4
<1>6. kept = select_strongest_directions(lift[p].eig, Parts(p, "strengths"), c)
  BY <1>3, <1>4, <1>5 DEF KeptAfter
<1>7. /\ Decides(p, reads, options, null)
      /\ lift' = [lift EXCEPT ![p] = mine]
      /\ GoOn(p, v, "weigh", SelectCalls(kept))
  <2> DEFINE chosen == select_strongest_directions(lift[p].eig, Parts(p, "strengths"), c)
  <2>1. /\ Decides(p, reads, options, null)
        /\ lift' = [lift EXCEPT ![p] = [lift[p] EXCEPT !.kept = chosen]]
        /\ GoOn(p, [val[p] EXCEPT !.variables = One(<<c, Variables(c, chosen, setup.mode)>>)],
                "weigh", SelectCalls(chosen))
    BY DEF Select, Set
  <2>2. chosen = kept
    BY <1>6
  <2> HIDE DEF chosen, kept, reads, options
  <2> QED BY <2>1, <2>2
<1>8. n = AfterSelect(r, null)
  BY <1>1 DEF NextStage
<1>9. /\ n.checked /\ n.pc = "weigh" /\ n.loop = r.loop /\ n.ranks = r.ranks /\ n.eig = r.eig
      /\ n.kept = KeptAfter(r)
      /\ n.calls = [d \in Cones |-> SelectCalls(KeptAfter(r)[d])]
  BY <1>8 DEF AfterSelect, To
<1>10. n.calls[c] = SelectCalls(kept) /\ n.kept[c] = kept /\ n.eig[c] = r.eig[c]
  BY <1>4, <1>9
<1>11. TermSet("variables", p, n) = {<<c, weight>>}
  BY <1>1, <1>10, OwnCone DEF TermSet
<1>12. v = [val[p] EXCEPT !["variables"] = SetToBag(TermSet("variables", p, n))]
  BY <1>11 DEF One
<1>13. mine = [eig |-> r.eig[c], kept |-> kept]
  <2> HIDE DEF kept
  <2> QED BY <1>4
<1>14. n = NextStage(r, null)
  OBVIOUS
<1>15. \A e \in options : IsOption(r, e)
  BY <1>1 DEF IsOption
<1> HIDE DEF options, reads, kept, weight, v, mine, n, c
<1>16. SameLift(p, n, mine)
  BY <1>9, <1>10, <1>13, SameLiftIs DEF Lifted, c
<1>17. loop' = [loop EXCEPT ![p] = n.loop]
  BY <1>1, <1>9, LoopAs
<1>18. n.pc \in DOMAIN Tells /\ Tells[n.pc] = "variables"
  BY <1>9 DEF Tells
<1>19. Telling(p, r, n, "variables", v)
  BY <1>1, <1>7, <1>9, <1>10, <1>12, <1>16, <1>17, <1>18 DEF Telling, c
<1>20. Brings(p, r, NextStage(r, null), v)
  BY <1>14, <1>19, TellingBrings
<1>21. r.pc \in Labels
  BY <1>1 DEF Labels
<1> QED BY <1>1, <1>2, <1>7, <1>15, <1>20, <1>21, Advance

LEMMA KeptIsThere ==
  ASSUME IsSetup(setup), NEW r, Quiet(r), Lifted(r)
  PROVE  r.kept # null
<1>1. r.kept = KeptAfter(r) /\ 0 \in Cones
  BY SetupDims DEF Quiet, Cones
<1>2. 0 \in DOMAIN KeptAfter(r) /\ 0 \notin DOMAIN null
  BY <1>1 DEF KeptAfter, null
<1> QED BY <1>1, <1>2

\* What a process in the subproblem of the lift takes its columns from.
LEMMA WeighParts ==
  ASSUME IsSetup(setup), NEW st, NEW lv, NEW pos, NEW p \in Procs, NEW r,
         Stands(p, r, st, lv, pos), r.pc = "weigh"
  PROVE  /\ Parts(p, "variables") = VariableParts(r)
         /\ lift[p].kept = r.kept[my_cone(p)]
         /\ OwnVariables(p) = VariablesOf(r, my_cone(p))
<1> DEFINE parts == Parts(p, "variables")
           c == my_cone(p)
<1>1. parts = VariableParts(r)
  <2> DEFINE f == [d \in Cones |-> VariablesOf(r, d)]
             u == val[p]
  <2>1. "variables" \in Goal(r, c) /\ Knows(p, r, <<>>, u) /\ StageOK(r)
    BY AtStage DEF Goal
  <2>2. u["variables"] = WholeOf("variables", r)
    <3> HIDE DEF u
    <3> QED BY <2>1, Reading
  <2>3. u["variables"] = SetToBag({<<d, VariablesOf(r, d)>> : d \in Cones})
    BY <2>2 DEF WholeOf, WholeSet, AllVariables, VariablesOf
  <2>4. {<<d, VariablesOf(r, d)>> : d \in Cones} = {<<d, f[d]>> : d \in Cones}
    OBVIOUS
  <2>5. \A d \in 1..setup.dims[3] : f[d - 1] = VariablesOf(r, d - 1)
    <3>1. \A d \in 1..setup.dims[3] : d - 1 \in Cones
      BY SetupDims DEF All, Cones
    <3> QED BY <3>1
  <2>6. val[p]["variables"] = SetToBag({<<d, f[d]>> : d \in Cones})
    BY <2>3, <2>4
  <2> HIDE DEF f
  <2>7. parts = [d \in 1..setup.dims[3] |-> f[d - 1]]
    BY <2>6, PartsAre
  <2> QED BY <2>5, <2>7 DEF VariableParts
<1>2. lift[p].kept = r.kept[c]
  <2>1. SameLift(p, r, lift[p])
    BY AtStage
  <2> QED BY <2>1 DEF SameLift, Lifted
<1> QED BY <1>1, <1>2 DEF OwnVariables, VariablesOf

LEMMA WeighAgain ==
  ASSUME DecideAlike(setup), NEW st, NEW lv, NEW pos, NEW p \in Procs, NEW r,
         Stands(p, r, st, lv, pos), Weigh(p)
  PROVE  Again
<1>1. IsSetup(setup) /\ r.pc = "weigh" /\ UNCHANGED loop /\ UNCHANGED lift
  BY AtStage DEF Weigh, At, DecideAlike
<1> DEFINE reads == val[p].gram
           c == my_cone(p)
           parts == Parts(p, "variables")
           options == Solutions(FlattenSeq(parts), setup.mode)
           x == <<coords(p)[2], c>>
<1>2. reads = Readings(r)
  <2>1. ReadAt[r.pc] = "gram" /\ r.pc \in DOMAIN ReadAt
    BY <1>1 DEF ReadAt
  <2> QED BY <1>1, <2>1, AtStage, ReadsOne
<1>3. parts = VariableParts(r) /\ lift[p].kept = r.kept[c] /\ OwnVariables(p) = VariablesOf(r, c)
  BY <1>1, WeighParts
<1>4. c \in Cones /\ rank_list[p] = r.ranks[x] /\ x \in All(2) \X Cones /\ x[2] = c
  <2>1. c \in Cones /\ x \in All(2) \X Cones
    BY <1>1, OwnCone, CoordsIn
  <2>2. rank_list[p] = r.ranks[x]
    BY AtStage DEF OwnRanks
  <2>3. x[2] = c
    OBVIOUS
  <2> HIDE DEF x, c
  <2> QED BY <2>1, <2>2, <2>3
<1>6. PICK o \in options :
        /\ Decides(p, reads, options, o)
        /\ rank_list' = [rank_list EXCEPT ![p] =
             Grown(c, rank_list[p],
                   rank_incs(lift[p].kept, OwnVariables(p), Displacement(parts, c), o))]
  BY DEF Weigh, Set
<1>7. GoOn(p, val[p], "terminate", <<>>)
  BY DEF Weigh
<1> DEFINE n == NextStage(r, o)
<1>8. n = AfterWeigh(r, o)
  BY <1>1 DEF NextStage
<1>9. /\ n.checked /\ n.pc = "terminate" /\ n.calls = Same(<<>>) /\ n.loop = r.loop
      /\ n.ranks = [y \in All(2) \X Cones |-> Grown(y[2], r.ranks[y], IncsAfter(r, o, y[2]))]
      /\ n.eig = r.eig /\ n.kept = r.kept
  BY <1>8 DEF AfterWeigh, To
<1>10. n.calls[c] = <<>>
  BY <1>1, <1>9, SameCalls
<1>11. OwnRanks(p, n) = Grown(c, rank_list[p], IncsAfter(r, o, c))
  <2>1. n.ranks[x] = Grown(x[2], r.ranks[x], IncsAfter(r, o, x[2]))
    BY <1>4, <1>9
  <2> QED BY <1>4, <2>1 DEF OwnRanks
<1>12. IncsAfter(r, o, c)
         = rank_incs(lift[p].kept, OwnVariables(p), Displacement(parts, c), o)
  BY <1>3 DEF IncsAfter
<1>13. rank_list' = [rank_list EXCEPT ![p] = OwnRanks(p, n)]
  <2> HIDE DEF n, parts
  <2> QED BY <1>6, <1>11, <1>12
<1>14. Decides(p, reads, options, o)
  BY <1>6
<1>15. \A e \in options : IsOption(r, e)
  BY <1>1 DEF IsOption
<1> HIDE DEF n, parts, options, reads
<1>16. loop' = [loop EXCEPT ![p] = n.loop]
  BY <1>1, <1>9, LoopAs
<1>17. \E own : lift' = [lift EXCEPT ![p] = own] /\ SameLift(p, n, own)
  <2>1. lift = [lift EXCEPT ![p] = lift[p]] /\ SameLift(p, r, lift[p])
    BY DEF Stands
  <2>2. n.kept # null
    BY <1>1, <1>9, AtStage, KeptIsThere DEF Lifted
  <2>3. SameLift(p, n, lift[p])
    BY <1>1, <1>9, <2>1, <2>2 DEF SameLift, Lifted
  <2> QED BY <1>1, <2>1, <2>3
<1>18. n.pc \notin DOMAIN Tells /\ DOMAIN val[p] = Quantities
  BY <1>9, AtStage DEF Tells
<1>19. Brings(p, r, n, val[p])
  BY <1>7, <1>9, <1>10, <1>13, <1>16, <1>17, <1>18, BringsOwn
<1>20. Brings(p, r, NextStage(r, o), val[p])
  BY <1>19 DEF n
<1>21. r.pc \in Labels
  BY <1>1 DEF Labels
<1> QED BY <1>1, <1>2, <1>14, <1>15, <1>20, <1>21, Advance

-----------------------------------------------------------------------------
(* The processes of a line make a call.                                    *)

\* What a process of the line knows before the call and after it.
Comes(q, r, L, v, facts, mid) ==
  /\ Named(facts)
  /\ Matches(q, r, v, facts)
  /\ Legal(my_cone(q), r, Head(L), facts, mid)
  /\ Runs(my_cone(q), r, Tail(L), mid, Wholes(Goal(r, my_cone(q))))

LEMMA ComesKnowing ==
  ASSUME NEW q, NEW r, NEW L \in Seq(Calls), L # <<>>, NEW v, Knows(q, r, L, v)
  PROVE  \E facts, mid : Comes(q, r, L, v, facts, mid)
<1> DEFINE goal == Wholes(Goal(r, my_cone(q)))
<1>1. PICK facts : Named(facts) /\ Matches(q, r, v, facts) /\ Runs(my_cone(q), r, L, facts, goal)
  BY DEF Knows
<1> HIDE DEF goal
<1>2. PICK mid : Legal(my_cone(q), r, Head(L), facts, mid) /\ Runs(my_cone(q), r, Tail(L), mid, goal)
  BY <1>1, RunsHead
<1> QED BY <1>1, <1>2 DEF Comes, goal

\* The sum of the line is what the number is to be then.
Gathers(call, r, q) == \E facts, mid : /\ Matches(q, r, val[q], facts)
                                       /\ Legal(my_cone(q), r, call, facts, mid)

\* At a call all its processes get the sum of the terms of their line.
LEMMA SumsAre ==
  ASSUME IsSetup(setup), NEW r, NEW p \in Procs, NEW call \in Calls, NEW S, S = Members(call.on, p),
         \A q \in S : Gathers(call, r, q), NEW x \in call.of, NEW q \in S
  PROVE  Summed(call, S, x) = Total(x, q, After(x, call), r)
<1> DEFINE first(u) == CHOOSE facts : \E mid : /\ Matches(u, r, val[u], facts)
                                               /\ Legal(my_cone(u), r, call, facts, mid)
           know == [u \in S |-> first(u)]
<1>1. ASSUME NEW u \in S
      PROVE  Matches(u, r, val[u], know[u]) /\ Fits(my_cone(u), r, call, know[u], x)
  <2>1. \E mid : Matches(u, r, val[u], first(u)) /\ Legal(my_cone(u), r, call, first(u), mid)
    BY <1>1 DEF Gathers
  <2>2. know[u] = first(u)
    BY <1>1
  <2> HIDE DEF know, first
  <2> QED BY <2>1, <2>2 DEF Legal
<1> HIDE DEF know
<1>2. Summed(call, S, x) = Total(x, p, After(x, call), r)
  BY <1>1, SumIsTotal
<1>3. q \in Cube(p, Axes[call.on])
  BY LineIsCube
<1>4. Axes[call.on] \subseteq After(x, call)
  BY DEF After
<1>5. Total(x, q, After(x, call), r) = Total(x, p, After(x, call), r)
  BY <1>3, <1>4, SameTotal
<1> QED BY <1>2, <1>5

\* It is at the j-th call then, and has made those that are its own.
Makes(q, r, i, j, R) ==
  /\ j \in 0..Len(CallsOf(r, q))
  /\ j > i
  /\ \A e \in (i + 2)..j : Alone(q, CallsOf(r, q)[e])
  /\ R.todo = SubSeq(CallsOf(r, q), j + 1, Len(CallsOf(r, q)))
  /\ DOMAIN R.val = Quantities
  /\ Knows(q, r, R.todo, R.val)

LEMMA MeetsOne ==
  ASSUME IsSetup(setup), NEW r, NEW q \in Procs, CallsOf(r, q) \in Seq(Calls),
         NEW i \in 0..Len(CallsOf(r, q)), NEW L, L = SubSeq(CallsOf(r, q), i + 1, Len(CallsOf(r, q))),
         L # <<>>, NEW v, DOMAIN v = Quantities, NEW facts, NEW mid, Comes(q, r, L, v, facts, mid),
         NEW call, call = Head(L), NEW w, DOMAIN w = Quantities,
         \A x \in Quantities : w[x] = IF x \in call.of THEN Total(x, q, After(x, call), r) ELSE v[x]
  PROVE  \E j : Makes(q, r, i, j, Ready(q, Tail(L), w))
<1> DEFINE C == CallsOf(r, q)
           T == Tail(L)
           goal == Wholes(Goal(r, my_cone(q)))
<1>1. /\ L \in Seq(Calls) /\ Len(C) \in Nat /\ i + 1 \in 1..Len(C) /\ T = SubSeq(C, i + 2, Len(C))
  <2> HIDE DEF C
  <2> QED BY RestOf DEF C
<1>2. T \in Seq(Calls)
  BY <1>1
<1>3. /\ Named(facts) /\ Matches(q, r, v, facts) /\ Legal(my_cone(q), r, call, facts, mid)
      /\ Runs(my_cone(q), r, T, mid, goal)
  BY DEF Comes
<1>4. Named(mid)
  BY <1>3, NamedNext
<1>5. Matches(q, r, w, mid)
  <2>1. \A f \in mid : f[1] \in Quantities
    BY <1>4 DEF Named
  <2>2. \A f \in mid : w[f[1]] = IF f[1] \in call.of THEN Total(f[1], q, After(f[1], call), r)
                                 ELSE v[f[1]]
    BY <2>1
  <2> HIDE DEF T, goal, C
  <2> QED BY <1>3, <2>2, KnowsNext
<1> HIDE DEF T, goal, C
<1>6. PICK m \in 0..Len(T) : \E more :
           /\ \A e \in 1..m : Alone(q, T[e])
           /\ Ready(q, T, w).todo = SubSeq(T, m + 1, Len(T))
           /\ Ready(q, T, w).todo \in Seq(Calls)
           /\ DOMAIN Ready(q, T, w).val = Quantities
           /\ Named(more)
           /\ Matches(q, r, Ready(q, T, w).val, more)
           /\ Runs(my_cone(q), r, Ready(q, T, w).todo, more, goal)
  BY <1>2, <1>3, <1>4, <1>5, ReadyKnows
<1> DEFINE R == Ready(q, T, w)
           j == i + 1 + m
<1>7. Knows(q, r, R.todo, R.val) /\ DOMAIN R.val = Quantities
  BY <1>6 DEF Knows, goal
<1>8. /\ Len(T) = Len(C) - i - 1
      /\ \A e \in 1..m : T[e] = C[i + 1 + e]
      /\ SubSeq(T, m + 1, Len(T)) = SubSeq(C, i + 1 + m + 1, Len(C))
  BY <1>1, RestOfRest DEF C
<1>9. m \in Nat /\ i \in Nat /\ Len(T) \in Nat
  BY <1>2 DEF C
<1>10. j \in 0..Len(C) /\ j > i
  BY <1>1, <1>8, <1>9
<1>11. ASSUME NEW e \in (i + 2)..j
       PROVE  Alone(q, C[e])
  <2> DEFINE d == e - i - 1
  <2>1. d \in 1..m /\ i + 1 + d = e
    BY <1>9, <1>11
  <2>2. T[d] = C[i + 1 + d] /\ Alone(q, T[d])
    BY <1>6, <1>8, <2>1
  <2> QED BY <2>1, <2>2
<1>12. R.todo = SubSeq(C, j + 1, Len(C))
  BY <1>6, <1>8
<1> HIDE DEF R, j
<1>13. Makes(q, r, i, j, R)
  BY <1>7, <1>10, <1>11, <1>12 DEF Makes, C
<1> QED BY <1>13 DEF R, T

\* Where the processes of the line are.
Gathered(st, lv, pos, p, call, r, S) ==
  /\ call \in Calls
  /\ S = Members(call.on, p)
  /\ S \subseteq Procs
  /\ \A q \in S :
       /\ heard[q] = heard[p]
       /\ pos[q] \in 0..Len(CallsOf(r, q))
       /\ CallsOf(r, q) \in Seq(Calls)
       /\ CallsOf(r, q)[pos[q] + 1] = call
       /\ todo[q] = SubSeq(CallsOf(r, q), pos[q] + 1, Len(CallsOf(r, q)))
       /\ todo[q] \in Seq(Calls)
       /\ todo[q] # <<>>
       /\ Head(todo[q]) = call
       /\ DOMAIN val[q] = Quantities
       /\ Knows(q, r, todo[q], val[q])
  /\ \A q, u \in S : Partners(r, lv[heard[p]], q, pos[q] + 1, u, pos[u] + 1)

\* A process that waits is before a call of its stage.
LEMMA WaitsAt ==
  ASSUME IsSetup(setup), NEW st, NEW lv, NEW pos, Holds(st, lv, pos), NEW q \in Procs, Waiting(q),
         NEW C, C = CallsOf(st[heard[q]], q)
  PROVE  /\ heard[q] \in 0..Len(told) /\ pos[q] \in Nat
         /\ Leveled(st[heard[q]], lv[heard[q]])
         /\ pos[q] \in 0..Len(C) /\ C \in Seq(Calls)
         /\ todo[q] = SubSeq(C, pos[q] + 1, Len(C))
         /\ todo[q] \in Seq(Calls)
         /\ pos[q] + 1 \in 1..Len(C)
         /\ Head(todo[q]) = C[pos[q] + 1]
         /\ DOMAIN val[q] = Quantities
         /\ Knows(q, st[heard[q]], todo[q], val[q])
<1> DEFINE r == st[heard[q]]
           i == pos[q]
           L == todo[q]
<1>1. heard[q] \in 0..Len(told) /\ Story(st, lv, told)
  BY DEF Holds, Hold
<1>2. Leveled(r, lv[heard[q]])
  BY <1>1 DEF Story
<1>3. Place(q, r, i, pc[q], loop[q], rank_list[q], lift[q], L, val[q])
  BY DEF Holds, Hold
<1>4. C \in Seq(Calls)
  BY <1>2, CallsList
<1>5. /\ i \in 0..Len(C) /\ L = SubSeq(C, i + 1, Len(C))
      /\ DOMAIN val[q] = Quantities /\ Knows(q, r, L, val[q])
  BY <1>3 DEF Place
<1>6. L # <<>>
  BY DEF Waiting
<1> HIDE DEF r, i, L
<1>7. /\ L \in Seq(Calls) /\ i + 1 \in 1..Len(C) /\ Head(L) = C[i + 1] /\ Len(C) \in Nat
  BY <1>4, <1>5, <1>6, RestOf
<1>8. i \in Nat
  BY <1>5, <1>7
<1> QED BY <1>1, <1>2, <1>4, <1>5, <1>7, <1>8 DEF r, i, L

\* Processes that meet are at one call of one stage.
LEMMA MeetGathers ==
  ASSUME IsSetup(setup), NEW st, NEW lv, NEW pos, Holds(st, lv, pos), NEW p \in Procs, Meet(p),
         NEW r, r = st[heard[p]], NEW call, call = Head(todo[p]), NEW S, S = Members(call.on, p)
  PROVE  Gathered(st, lv, pos, p, call, r, S)
<1> DEFINE k == heard[p]
           n == Len(told)
<1>1. Waiting(p) /\ \A q \in S : Waiting(q) /\ Head(todo[q]) = call
  BY DEF Meet
<1>2. Story(st, lv, told) /\ Together(st, lv, n, heard, pos) /\ IsList(told)
  BY DEF Holds, Hold, Story
<1>3. n \in Nat
  BY <1>2 DEF IsList
<1>4. \A j \in 0..n : Leveled(st[j], lv[j])
  BY <1>2 DEF Story
<1>5. S \subseteq Procs
  BY DEF Members
<1>6. /\ k \in 0..n /\ pos[p] \in Nat /\ pos[p] + 1 \in 1..Len(CallsOf(r, p))
      /\ CallsOf(r, p) \in Seq(Calls) /\ call = CallsOf(r, p)[pos[p] + 1]
  BY <1>1, WaitsAt
<1>7. call \in Calls
  BY <1>6
<1> HIDE DEF n
<1>8. ASSUME NEW q \in S
      PROVE  /\ heard[q] = k
             /\ Partners(r, lv[k], p, pos[p] + 1, q, pos[q] + 1)
             /\ pos[q] \in Nat
             /\ pos[q] + 1 \in 1..Len(CallsOf(r, q))
             /\ pos[q] \in 0..Len(CallsOf(r, q))
             /\ CallsOf(r, q) \in Seq(Calls)
             /\ CallsOf(r, q)[pos[q] + 1] = call
             /\ todo[q] = SubSeq(CallsOf(r, q), pos[q] + 1, Len(CallsOf(r, q)))
             /\ todo[q] \in Seq(Calls)
             /\ todo[q] # <<>>
             /\ Head(todo[q]) = call
             /\ DOMAIN val[q] = Quantities
             /\ Knows(q, r, todo[q], val[q])
  <2> DEFINE h == heard[q]
             D == CallsOf(st[h], q)
  <2>1. q \in Procs /\ Waiting(q) /\ Head(todo[q]) = call
    BY <1>1, <1>5, <1>8
  <2>2. /\ h \in 0..n /\ pos[q] \in Nat /\ pos[q] \in 0..Len(D) /\ D \in Seq(Calls)
        /\ todo[q] = SubSeq(D, pos[q] + 1, Len(D)) /\ todo[q] \in Seq(Calls)
        /\ pos[q] + 1 \in 1..Len(D)
        /\ Head(todo[q]) = D[pos[q] + 1] /\ DOMAIN val[q] = Quantities
        /\ Knows(q, st[h], todo[q], val[q])
    BY <2>1, WaitsAt DEF n
  <2>3. h = k /\ Partners(st[k], lv[k], p, pos[p] + 1, q, pos[q] + 1)
    <3>1. /\ heard[p] \in 0..n /\ heard[q] \in 0..n
          /\ pos[p] + 1 \in 1..Len(CallsOf(st[heard[p]], p))
          /\ pos[q] + 1 \in 1..Len(CallsOf(st[heard[q]], q))
          /\ CallsOf(st[heard[q]], q)[pos[q] + 1] = CallsOf(st[heard[p]], p)[pos[p] + 1]
          /\ q \in Members(CallsOf(st[heard[p]], p)[pos[p] + 1].on, p)
      BY <1>6, <2>1, <2>2
    <3> HIDE DEF k, h, D
    <3>2. /\ heard[q] = heard[p]
          /\ Partners(st[heard[p]], lv[heard[p]], p, pos[p] + 1, q, pos[q] + 1)
      BY <1>2, <1>3, <1>4, <1>6, <2>2, <3>1, SamePlace
    <3> QED BY <3>2 DEF k, h
  <2>4. D = CallsOf(r, q) /\ st[h] = r
    BY <2>3
  <2>5. todo[q] # <<>>
    BY <2>1 DEF Waiting
  <2> HIDE DEF D, h
  <2> QED BY <2>1, <2>2, <2>3, <2>4, <2>5 DEF h
<1>9. ASSUME NEW q \in S, NEW u \in S
      PROVE  Partners(r, lv[k], q, pos[q] + 1, u, pos[u] + 1)
  <2>1. q \in Procs /\ Members(call.on, q) = S
    BY <1>5, SameLine
  <2>2. /\ heard[q] = k /\ heard[u] = k /\ pos[q] \in Nat /\ pos[u] \in Nat
        /\ pos[q] + 1 \in 1..Len(CallsOf(r, q)) /\ pos[u] + 1 \in 1..Len(CallsOf(r, u))
        /\ CallsOf(r, q)[pos[q] + 1] = call /\ CallsOf(r, u)[pos[u] + 1] = call
    BY <1>8
  <2>3. /\ heard[q] \in 0..n /\ heard[u] \in 0..n
        /\ pos[q] + 1 \in 1..Len(CallsOf(st[heard[q]], q))
        /\ pos[u] + 1 \in 1..Len(CallsOf(st[heard[u]], u))
        /\ CallsOf(st[heard[u]], u)[pos[u] + 1] = CallsOf(st[heard[q]], q)[pos[q] + 1]
        /\ u \in Members(CallsOf(st[heard[q]], q)[pos[q] + 1].on, q)
    BY <1>6, <2>1, <2>2
  <2> HIDE DEF k
  <2>4. Partners(st[heard[q]], lv[heard[q]], q, pos[q] + 1, u, pos[u] + 1)
    BY <1>2, <1>3, <1>4, <2>1, <2>2, <2>3, SamePlace
  <2>5. heard[q] = k /\ st[k] = r
    BY <2>2 DEF k
  <2> QED BY <2>4, <2>5
<1> QED BY <1>5, <1>7, <1>8, <1>9 DEF Gathered

\* What a process of the line has when the call is made.
Summation(call, S, q) ==
  [x \in DOMAIN val[q] |-> IF x \in call.of THEN [y \in call.of |-> Summed(call, S, y)][x]
                           ELSE val[q][x]]

AfterSum(call, S, q) == Ready(q, Tail(todo[q]), Summation(call, S, q))

LEMMA CollectiveIs ==
  ASSUME NEW p, Collective(p), NEW call, call = Head(todo[p]), NEW S, S = Members(call.on, p)
  PROVE  /\ Meet(p)
         /\ todo' = [q \in Procs |-> IF q \in S THEN AfterSum(call, S, q).todo ELSE todo[q]]
         /\ val' = [q \in Procs |-> IF q \in S THEN AfterSum(call, S, q).val ELSE val[q]]
         /\ UNCHANGED <<setup, pc, told, heard, loop, rank_list, lift>>
<1> DEFINE after == [q \in S |-> AfterSum(call, S, q)]
<1>1. /\ Meet(p)
      /\ todo' = [q \in Procs |-> IF q \in S THEN after[q].todo ELSE todo[q]]
      /\ val' = [q \in Procs |-> IF q \in S THEN after[q].val ELSE val[q]]
      /\ UNCHANGED <<setup, pc, told, heard, loop, rank_list, lift>>
  BY DEF Collective, AfterSum, Summation
<1>2. \A q \in S : after[q] = AfterSum(call, S, q)
  OBVIOUS
<1> HIDE DEF after
<1>3. /\ [q \in Procs |-> IF q \in S THEN after[q].todo ELSE todo[q]]
           = [q \in Procs |-> IF q \in S THEN AfterSum(call, S, q).todo ELSE todo[q]]
      /\ [q \in Procs |-> IF q \in S THEN after[q].val ELSE val[q]]
           = [q \in Procs |-> IF q \in S THEN AfterSum(call, S, q).val ELSE val[q]]
  BY <1>2
<1> QED BY <1>1, <1>3

LEMMA GatheredMakes ==
  ASSUME IsSetup(setup), NEW st, NEW lv, NEW pos, NEW p \in Procs, NEW call, NEW r, NEW S,
         Gathered(st, lv, pos, p, call, r, S), NEW q \in S
  PROVE  \E j : Makes(q, r, pos[q], j, AfterSum(call, S, q))
<1>1. /\ call \in Calls /\ S = Members(call.on, p) /\ S \subseteq Procs
      /\ \A u \in S : /\ todo[u] \in Seq(Calls) /\ todo[u] # <<>> /\ Head(todo[u]) = call
                      /\ Knows(u, r, todo[u], val[u])
  BY DEF Gathered
<1>2. ASSUME NEW u \in S
      PROVE  Gathers(call, r, u)
  <2> DEFINE L == todo[u]
             v == val[u]
  <2>1. L \in Seq(Calls) /\ L # <<>> /\ Head(L) = call /\ Knows(u, r, L, v)
    BY <1>1, <1>2
  <2> HIDE DEF L, v
  <2>2. PICK facts, mid : Comes(u, r, L, v, facts, mid)
    BY <2>1, ComesKnowing
  <2>3. Matches(u, r, v, facts) /\ Legal(my_cone(u), r, call, facts, mid)
    BY <2>1, <2>2 DEF Comes
  <2> QED BY <2>3 DEF Gathers, v
<1>3. \A x \in call.of : Summed(call, S, x) = Total(x, q, After(x, call), r)
  BY <1>1, <1>2, SumsAre
<1> DEFINE L == todo[q]
           v == val[q]
           w == Summation(call, S, q)
           i == pos[q]
<1>4. /\ i \in 0..Len(CallsOf(r, q)) /\ CallsOf(r, q) \in Seq(Calls)
      /\ L = SubSeq(CallsOf(r, q), i + 1, Len(CallsOf(r, q)))
      /\ L \in Seq(Calls) /\ L # <<>> /\ Head(L) = call
      /\ DOMAIN v = Quantities /\ Knows(q, r, L, v)
  BY DEF Gathered
<1>5. DOMAIN w = Quantities
  BY <1>4 DEF Summation
<1>6. \A x \in Quantities : w[x] = IF x \in call.of THEN Total(x, q, After(x, call), r) ELSE v[x]
  <2>1. \A x \in Quantities : w[x] = IF x \in call.of THEN Summed(call, S, x) ELSE v[x]
    BY <1>4 DEF Summation
  <2> HIDE DEF w, v
  <2> QED BY <1>3, <2>1
<1>7. q \in Procs
  BY <1>1
<1>8. AfterSum(call, S, q) = Ready(q, Tail(L), w)
  BY DEF AfterSum
<1> HIDE DEF L, v, w, i
<1>9. PICK facts, mid : Comes(q, r, L, v, facts, mid)
  BY <1>4, ComesKnowing
<1>10. \E j : Makes(q, r, i, j, Ready(q, Tail(L), w))
  BY <1>4, <1>5, <1>6, <1>7, <1>9, MeetsOne
<1> QED BY <1>8, <1>10 DEF i

\* A call keeps the invariant.
LEMMA CollectiveAgain ==
  ASSUME IsSetup(setup), NEW st, NEW lv, NEW pos, Holds(st, lv, pos), NEW p \in Procs, Collective(p)
  PROVE  Again
<1> DEFINE r == st[heard[p]]
           call == Head(todo[p])
           S == Members(call.on, p)
           k == heard[p]
           n == Len(told)
<1>1. /\ Meet(p)
      /\ todo' = [q \in Procs |-> IF q \in S THEN AfterSum(call, S, q).todo ELSE todo[q]]
      /\ val' = [q \in Procs |-> IF q \in S THEN AfterSum(call, S, q).val ELSE val[q]]
      /\ UNCHANGED <<setup, pc, told, heard, loop, rank_list, lift>>
  BY CollectiveIs
<1>2. Gathered(st, lv, pos, p, call, r, S)
  BY <1>1, MeetGathers
<1>3. /\ Story(st, lv, told) /\ Together(st, lv, n, heard, pos) /\ IsList(told)
      /\ heard[p] \in 0..n
  BY DEF Holds, Hold, Story
<1>4. n \in Nat
  BY <1>3 DEF IsList
<1>5. st[k] = r /\ Leveled(r, lv[k]) /\ k \in 0..n
  BY <1>3 DEF Story
<1>6. \A q \in S : \E j : Makes(q, r, pos[q], j, AfterSum(call, S, q))
  BY <1>2, GatheredMakes
<1> DEFINE at(q) == CHOOSE j : Makes(q, r, pos[q], j, AfterSum(call, S, q))
           pos2 == [q \in Procs |-> IF q \in S THEN at(q) ELSE pos[q]]
<1>7. \A q \in S : Makes(q, r, pos[q], at(q), AfterSum(call, S, q))
  BY <1>6
<1>8. /\ S \subseteq Procs /\ S = Members(call.on, p)
      /\ \A q \in S : heard[q] = k
  BY <1>2 DEF Gathered
<1> HIDE DEF at, S
<1>9. /\ \A q \in S : pos2[q] = at(q)
      /\ \A q \in Procs : q \notin S => pos2[q] = pos[q]
  BY <1>8
<1>10. OfAll(pos2)
  BY DEF OfAll
<1> HIDE DEF pos2, r, call, k, n
<1>11. \A q \in S : Makes(q, r, pos[q], pos2[q], AfterSum(call, S, q))
  BY <1>7, <1>9
<1>12. Meeting(st, lv, heard, pos, k, call.on, S, pos2)
  <2>1. \A q \in S : CallsOf(r, q) \in Seq(Calls) /\ CallsOf(r, q)[pos[q] + 1] = call
                     /\ pos[q] \in 0..Len(CallsOf(r, q))
    BY <1>2 DEF Gathered
  <2>2. \A q, u \in S : Partners(r, lv[k], q, pos[q] + 1, u, pos[u] + 1)
    BY <1>2 DEF Gathered, k
  <2>3. ASSUME NEW q \in S
        PROVE  /\ heard[q] = k /\ pos[q] \in Nat /\ CallsOf(st[k], q)[pos[q] + 1].on = call.on
               /\ pos2[q] \in Nat /\ pos2[q] > pos[q]
               /\ \A i \in (pos[q] + 2)..pos2[q] : Alone(q, CallsOf(st[k], q)[i])
    <3>1. /\ pos2[q] \in 0..Len(CallsOf(r, q)) /\ pos2[q] > pos[q]
          /\ \A i \in (pos[q] + 2)..pos2[q] : Alone(q, CallsOf(r, q)[i])
      BY <1>11, <2>3 DEF Makes
    <3> QED BY <1>5, <1>8, <2>1, <2>3, <3>1
  <2> QED BY <1>5, <1>9, <2>2, <2>3 DEF Meeting
<1>13. Together(st, lv, n, heard, pos2)
  BY <1>3, <1>4, <1>5, <1>8, <1>12, TogetherMet
<1>14. /\ OfAll(heard) /\ OfAll(pc) /\ OfAll(loop) /\ OfAll(rank_list) /\ OfAll(lift)
       /\ OfAll(todo') /\ OfAll(val')
  <2>1. OfAll(heard) /\ OfAll(pc) /\ OfAll(loop) /\ OfAll(rank_list) /\ OfAll(lift)
    BY DEF Holds, Hold
  <2>2. OfAll(todo') /\ OfAll(val')
    BY <1>1 DEF OfAll
  <2> QED BY <2>1, <2>2
<1>15. ASSUME NEW q \in Procs
       PROVE  /\ heard[q] \in 0..n
              /\ Place(q, st[heard[q]], pos2[q], pc[q], loop[q], rank_list[q], lift[q], todo'[q], val'[q])
  <2>1. heard[q] \in 0..n
        /\ Place(q, st[heard[q]], pos[q], pc[q], loop[q], rank_list[q], lift[q], todo[q], val[q])
    BY DEF Holds, Hold, n
  <2>2. CASE q \notin S
    <3>1. todo'[q] = todo[q] /\ val'[q] = val[q] /\ pos2[q] = pos[q]
      BY <1>1, <1>9, <2>2
    <3> QED BY <2>1, <3>1
  <2>3. CASE q \in S
    <3>1. todo'[q] = AfterSum(call, S, q).todo /\ val'[q] = AfterSum(call, S, q).val
      BY <1>1, <2>3
    <3>2. Makes(q, r, pos[q], pos2[q], AfterSum(call, S, q)) /\ st[heard[q]] = r
      BY <1>5, <1>8, <1>11, <2>3
    <3> QED BY <2>1, <3>1, <3>2 DEF Place, Makes
  <2> QED BY <2>1, <2>2, <2>3
<1>16. Hold(st, lv, pos2, told, heard, pc, loop, rank_list, lift, todo', val')
  BY <1>3, <1>10, <1>13, <1>14, <1>15 DEF Hold, n
<1>17. told' = told /\ heard' = heard /\ pc' = pc /\ loop' = loop /\ rank_list' = rank_list /\ lift' = lift
  BY <1>1
<1>18. Hold(st, lv, pos2, told', heard', pc', loop', rank_list', lift', todo', val')
  BY <1>16, <1>17
<1> QED BY <1>18 DEF Again

-----------------------------------------------------------------------------
(* No step changes the setup, and what is said of it stays.                *)

LEMMA GridFixed ==
  ASSUME setup' = setup
  PROVE  /\ \A p : coords(p)' = coords(p)
         /\ \A p : my_cone(p)' = my_cone(p)
         /\ \A on, p : Members(on, p)' = Members(on, p)
         /\ \A p, D : Cube(p, D)' = Cube(p, D)
         /\ Cones' = Cones
         /\ \A a : All(a)' = All(a)
         /\ \A c : BlockDims(c)' = BlockDims(c)
         /\ \A c : Blocks(c)' = Blocks(c)
<1>1. \A p : coords(p)' = coords(p)
  BY DEF coords
<1>2. \A p : my_cone(p)' = my_cone(p)
  BY <1>1 DEF my_cone
<1>3. \A on, p : Members(on, p)' = Members(on, p)
  BY <1>1 DEF Members
<1>4. \A p, D : Cube(p, D)' = Cube(p, D)
  BY <1>1 DEF Cube
<1>5. Cones' = Cones
  BY DEF Cones
<1>6. \A a : All(a)' = All(a)
  BY DEF All
<1>7. \A c : BlockDims(c)' = BlockDims(c)
  BY DEF BlockDims
<1>8. \A c : Blocks(c)' = Blocks(c)
  BY <1>7 DEF Blocks
<1> QED BY <1>1, <1>2, <1>3, <1>4, <1>5, <1>6, <1>7, <1>8

LEMMA TogetherFixed ==
  ASSUME setup' = setup
  PROVE  /\ \A r, p : CallsOf(r, p)' = CallsOf(r, p)
         /\ \A st, lv, n, h, pos : Together(st, lv, n, h, pos)' <=> Together(st, lv, n, h, pos)
<1>1. \A r, p : CallsOf(r, p)' = CallsOf(r, p)
  BY GridFixed DEF CallsOf
<1>2. \A r, lev, p, i, q, j : Partners(r, lev, p, i, q, j)' <=> Partners(r, lev, p, i, q, j)
  BY <1>1, GridFixed DEF Partners, Meets, Common
<1>3. \A st, lv, n, h, pos : Together(st, lv, n, h, pos)' <=> Together(st, lv, n, h, pos)
  <2> SUFFICES ASSUME NEW st, NEW lv, NEW n, NEW h, NEW pos
               PROVE  Together(st, lv, n, h, pos)' <=> Together(st, lv, n, h, pos)
    OBVIOUS
  <2>1. \A k, p, i, q, j : Partners(st[k], lv[k], p, i, q, j)' <=> Partners(st[k], lv[k], p, i, q, j)
    BY <1>2
  <2> QED BY <2>1, Zenon DEF Together
<1> QED BY <1>1, <1>3

LEMMA NumbersFixed ==
  ASSUME setup' = setup
  PROVE  /\ \A at : Linf(at)' = Linf(at)
         /\ Norm' = Norm
         /\ \A i : Product(i)' = Product(i)
         /\ Gradient' = Gradient
         /\ \A i : Image(i)' = Image(i)
         /\ HVs' = HVs
         /\ Ritz' = Ritz
         /\ \A c : Slack(c)' = Slack(c)
         /\ \A u : Speaks(u)' <=> Speaks(u)
         /\ \A r : AllVariables(r)' = AllVariables(r)
<1>1. \A at : Linf(at)' = Linf(at)
  BY DEF Linf
<1>2. Norm' = Norm
  BY DEF Norm
<1>3. ASSUME NEW i PROVE Product(i)' = Product(i)
  <2> DEFINE A == {<<i, s, c>> : s \in All(2), c \in All(3)}
  <2>1. \A d : d \in A' <=> \E s \in All(2), c \in All(3) : d = <<i, s, c>>
    BY GridFixed
  <2>2. \A d : d \in A <=> \E s \in All(2), c \in All(3) : d = <<i, s, c>>
    OBVIOUS
  <2>3. A' = A
    BY <2>1, <2>2
  <2>4. Product(i) = SetToBag(A) /\ Product(i)' = SetToBag(A')
    BY DEF Product
  <2> QED BY <2>3, <2>4
<1>4. Gradient' = Gradient
  BY <1>3, GridFixed DEF Gradient
<1>5. \A i : Image(i)' = Image(i)
  BY GridFixed DEF Image
<1>6. HVs' = HVs
  BY <1>5, GridFixed DEF HVs
<1>7. Ritz' = Ritz
  <2>1. Ritz = SetToBag({<<s, SetToBag(HVs)>> : s \in All(2)})
    BY DEF Ritz, HVs, Image
  <2>2. Ritz' = SetToBag({<<s, SetToBag(HVs')>> : s \in All(2)'})
    BY DEF Ritz, HVs, Image
  <2> QED BY <1>6, <2>1, <2>2, GridFixed
<1>8. \A c : Slack(c)' = Slack(c)
  BY GridFixed DEF Slack
<1>9. \A u : Speaks(u)' <=> Speaks(u)
  BY GridFixed DEF Speaks
<1>10. \A r : AllVariables(r)' = AllVariables(r)
  BY GridFixed DEF AllVariables
<1> QED BY <1>1, <1>2, <1>3, <1>4, <1>5, <1>6, <1>7, <1>8, <1>9, <1>10

LEMMA TermsFixed ==
  ASSUME setup' = setup
  PROVE  /\ \A x, u, r : TermSet(x, u, r)' = TermSet(x, u, r)
         /\ \A x, p, D, r : Total(x, p, D, r)' = Total(x, p, D, r)
         /\ \A p, r, v, facts : Matches(p, r, v, facts)' <=> Matches(p, r, v, facts)
<1>1. ASSUME NEW x, NEW u, NEW r PROVE TermSet(x, u, r)' = TermSet(x, u, r)
  <2> DEFINE row == coords(u)[1]
             share == coords(u)[2]
             cone == coords(u)[3]
  <2>1. /\ coords(u)' = coords(u) /\ Product(row)' = Product(row) /\ Gradient' = Gradient
        /\ Image(row)' = Image(row) /\ HVs' = HVs /\ Slack(cone)' = Slack(cone)
        /\ All(1)' = All(1) /\ Ritz' = Ritz /\ Linf(coords(u))' = Linf(coords(u))
        /\ (Speaks(u)' <=> Speaks(u)) /\ AllVariables(r)' = AllVariables(r)
        /\ Blocks(cone)' = Blocks(cone)
        /\ IfOwner(setup.lp, cone, All(1))' = IfOwner(setup.lp, cone, All(1))
        /\ IfOwner(setup.free, cone, All(1))' = IfOwner(setup.free, cone, All(1))
    BY GridFixed, NumbersFixed
  <2> QED BY <2>1, SMTT(60) DEF TermSet
<1>2. \A x, p, D, r : Terms(x, p, D, r)' = Terms(x, p, D, r)
  BY <1>1, GridFixed DEF Terms
<1>3. \A x, p, D, r : Total(x, p, D, r)' = Total(x, p, D, r)
  BY <1>2 DEF Total
<1>4. \A p, r, v, facts : Matches(p, r, v, facts)' <=> Matches(p, r, v, facts)
  BY <1>3 DEF Matches
<1> QED BY <1>1, <1>3, <1>4

LEMMA ReadingsFixed ==
  ASSUME setup' = setup
  PROVE  \A r : KeyOf(r)' = KeyOf(r)
<1>1. ASSUME NEW x \in Quantities, NEW i, NEW r PROVE WholeSet(x, i, r)' = WholeSet(x, i, r)
  <2>1. CASE x \in {"Ax", "q"}
    <3> DEFINE W == {<<i, sc[1], sc[2]>> : sc \in All(2) \X All(3)}
    <3>1. WholeSet(x, i, r) = W
      BY <2>1 DEF WholeSet
    <3>2. WholeSet(x, i, r)' = W'
      BY <2>1 DEF WholeSet
    <3>3. W' = W
      BY GridFixed, NumbersFixed
    <3> QED BY <3>1, <3>2, <3>3
  <2>12. CASE x \in {"grad_norm", "dot", "slope"}
    <3> DEFINE W == {<<sc[1], sc[2], Gradient>> : sc \in All(2) \X All(3)}
    <3>1. WholeSet(x, i, r) = W
      BY <2>12 DEF WholeSet
    <3>2. WholeSet(x, i, r)' = W'
      BY <2>12 DEF WholeSet
    <3>3. W' = W
      BY GridFixed, NumbersFixed
    <3> QED BY <3>1, <3>2, <3>3
  <2>13. CASE x \in {"p_obj", "curvature_obj"}
    <3> DEFINE W == All(2) \X All(3)
    <3>1. WholeSet(x, i, r) = W
      BY <2>13 DEF WholeSet
    <3>2. WholeSet(x, i, r)' = W'
      BY <2>13 DEF WholeSet
    <3>3. W' = W
      BY GridFixed, NumbersFixed
    <3> QED BY <3>1, <3>2, <3>3
  <2>2. CASE x \in {"d_obj", "Sq", "H", "lp_slack", "stationarity"}
    BY <2>2, GridFixed DEF WholeSet
  <2>15. CASE x \in {"gradient", "q0_norm", "q_dots"}
    <3> DEFINE W == {<<e, Product(e)>> : e \in All(1)}
    <3>1. WholeSet(x, i, r) = W
      BY <2>15 DEF WholeSet
    <3>2. WholeSet(x, i, r)' = W'
      BY <2>15 DEF WholeSet
    <3>3. W' = W
      BY GridFixed, NumbersFixed
    <3> QED BY <3>1, <3>2, <3>3
  <2>3. CASE x \in {"ritz", "sign"}
    <3> DEFINE W == {<<s, SetToBag(HVs)>> : s \in All(2)}
    <3>1. WholeSet(x, i, r) = W
      BY <2>3 DEF WholeSet
    <3>2. WholeSet(x, i, r)' = W'
      BY <2>3 DEF WholeSet
    <3>3. W' = W
      BY GridFixed, NumbersFixed
    <3> QED BY <3>1, <3>2, <3>3
  <2>14. CASE x = "Hq"
    BY <2>14, GridFixed DEF WholeSet
  <2>16. CASE x = "HV"
    BY <2>16, NumbersFixed DEF WholeSet
  <2>4. CASE x = "min_eigval"
    BY <2>4, GridFixed, NumbersFixed DEF WholeSet
  <2>5. CASE x = "min_slack"
    BY <2>5, GridFixed, NumbersFixed DEF WholeSet
  <2>6. CASE x = "free"
    BY <2>6, GridFixed, NumbersFixed DEF WholeSet
  <2>7. CASE x = "gram"
    BY <2>7, GridFixed, NumbersFixed DEF WholeSet
  <2>8. CASE x = "lambda"
    BY <2>8, GridFixed, NumbersFixed DEF WholeSet
  <2>9. CASE x = "ready"
    BY <2>9, GridFixed, NumbersFixed DEF WholeSet
  <2>10. CASE x \in {"detect", "winner", "escapes"}
    BY <2>10, GridFixed, NumbersFixed DEF WholeSet
  <2>11. CASE x \in {"strengths", "variables"}
    BY <2>11, GridFixed, NumbersFixed DEF WholeSet
  <2> QED BY <2>1, <2>2, <2>3, <2>4, <2>5, <2>6, <2>7, <2>8, <2>9, <2>10, <2>11,
            <2>12, <2>13, <2>14, <2>15, <2>16 DEF Quantities
<1>2. \A x \in Quantities : \A r : WholeOf(x, r)' = WholeOf(x, r)
  BY <1>1 DEF WholeOf
<1>3. \A r : Gaps(r)' = Gaps(r)
  BY <1>2, NumbersFixed DEF Gaps, Quantities
<1>4. \A r : Readings(r)' = Readings(r)
  BY <1>2, <1>3, NumbersFixed DEF Readings, Quantities
<1> QED BY <1>4 DEF KeyOf

LEMMA KnowsFixed ==
  ASSUME setup' = setup
  PROVE  \A p, r, L, v : Knows(p, r, L, v)' <=> Knows(p, r, L, v)
<1>1. \A x, c, r : Needs(x, c, r)' = Needs(x, c, r)
  BY GridFixed DEF Needs
<1>2. \A x, r : Sensible(x, r)' <=> Sensible(x, r)
  BY GridFixed DEF Sensible
<1>3. \A c, r, call, facts, x : Fits(c, r, call, facts, x)' <=> Fits(c, r, call, facts, x)
  BY <1>1, <1>2 DEF Fits
<1>4. \A c, r, call, facts, next : Legal(c, r, call, facts, next)' <=> Legal(c, r, call, facts, next)
  BY <1>3 DEF Legal
<1>5. \A c, r, L, facts, next : Runs(c, r, L, facts, next)' <=> Runs(c, r, L, facts, next)
  BY <1>4 DEF Runs
<1> QED BY <1>5, GridFixed, TermsFixed DEF Knows

LEMMA SearchesFixed ==
  ASSUME setup' = setup
  PROVE  /\ \A c, ranks, b : FIND_AL_NEGATIVE_CURVATURE(c, ranks, b)'
                               = FIND_AL_NEGATIVE_CURVATURE(c, ranks, b)
         /\ \A c, ranks : Probe(c, ranks)' = Probe(c, ranks)
         /\ \A c : DualSlack(c)' = DualSlack(c)
         /\ \A c : CHECK_DUAL_INFEASIBILITY(c)' = CHECK_DUAL_INFEASIBILITY(c)
         /\ \A kept : SelectCalls(kept)' = SelectCalls(kept)
         /\ \A c, ranks, incs : Grown(c, ranks, incs)' = Grown(c, ranks, incs)
<1>1. \A c, ranks, b : FIND_AL_NEGATIVE_CURVATURE(c, ranks, b)'
                         = FIND_AL_NEGATIVE_CURVATURE(c, ranks, b)
  BY GridFixed DEF FIND_AL_NEGATIVE_CURVATURE
<1>2. ASSUME NEW c, NEW ranks PROVE Probe(c, ranks)' = Probe(c, ranks)
  <2> DEFINE F == [b \in Blocks(c) |-> FIND_AL_NEGATIVE_CURVATURE(c, ranks, b)]
  <2>1. F' = F
    BY <1>1, GridFixed
  <2>2. Probe(c, ranks) = FlattenSeq(F) \o Reduce("lambda", <<"all">>)
    BY DEF Probe
  <2>3. Probe(c, ranks)' = FlattenSeq(F') \o Reduce("lambda", <<"all">>)
    BY DEF Probe
  <2> QED BY <2>1, <2>2, <2>3
<1>3. \A c, b : COMPUTE_NEGATIVE_EIGEN_LANCZOS(c, b)' = COMPUTE_NEGATIVE_EIGEN_LANCZOS(c, b)
  BY GridFixed DEF COMPUTE_NEGATIVE_EIGEN_LANCZOS
<1>4. \A c : COMPUTE_LP_MIN_SLACK(c)' = COMPUTE_LP_MIN_SLACK(c)
  BY DEF COMPUTE_LP_MIN_SLACK
<1>5. \A c : COMPUTE_FREE_STATIONARITY(c)' = COMPUTE_FREE_STATIONARITY(c)
  BY DEF COMPUTE_FREE_STATIONARITY
<1>6. \A c : DualResidual(c)' = DualResidual(c)
  BY <1>4, <1>5 DEF DualResidual
<1>7. ASSUME NEW c PROVE DualSlack(c)' = DualSlack(c)
  <2> DEFINE F == [b \in Blocks(c) |-> COMPUTE_NEGATIVE_EIGEN_LANCZOS(c, b)]
  <2>1. F' = F
    BY <1>3, GridFixed
  <2>2. DualSlack(c) = (FlattenSeq(F) \o Reduce("min_eigval", <<"cone">>)) \o DualResidual(c)
    BY DEF DualSlack, RUN_PER_CONE_LANCZOS
  <2>3. DualSlack(c)' = (FlattenSeq(F') \o Reduce("min_eigval", <<"cone">>)) \o DualResidual(c)'
    BY DEF DualSlack, RUN_PER_CONE_LANCZOS
  <2> QED BY <1>6, <2>1, <2>2, <2>3
<1>8. ASSUME NEW c PROVE CHECK_DUAL_INFEASIBILITY(c)' = CHECK_DUAL_INFEASIBILITY(c)
  <2> DEFINE F == [b \in Blocks(c) |-> COMPUTE_NEGATIVE_EIGEN_POWER_ITER]
  <2>1. F' = F
    BY GridFixed
  <2>2. CHECK_DUAL_INFEASIBILITY(c) = FlattenSeq(F) \o DualResidual(c)
    BY DEF CHECK_DUAL_INFEASIBILITY
  <2>3. CHECK_DUAL_INFEASIBILITY(c)' = FlattenSeq(F') \o DualResidual(c)'
    BY DEF CHECK_DUAL_INFEASIBILITY
  <2> QED BY <1>6, <2>1, <2>2, <2>3
<1>9. \A kept : SelectCalls(kept)' = SelectCalls(kept)
  BY DEF SelectCalls
<1>10. ASSUME NEW c, NEW ranks, NEW incs PROVE Grown(c, ranks, incs)' = Grown(c, ranks, incs)
  <2>1. BlockDims(c)' = BlockDims(c) /\ Blocks(c)' = Blocks(c)
    BY GridFixed
  <2> QED BY <2>1 DEF Grown
<1> QED BY <1>1, <1>2, <1>7, <1>8, <1>9, <1>10

LEMMA AfterFixed ==
  ASSUME setup' = setup
  PROVE  /\ \A r, o : AfterHead(r, o)' = AfterHead(r, o)
         /\ \A r, o : AfterConverged(r, o)' = AfterConverged(r, o)
         /\ \A r, o : AfterStep(r, o)' = AfterStep(r, o)
         /\ \A r, o : AfterDetect(r, o)' = AfterDetect(r, o)
         /\ \A r, o : AfterWinner(r, o)' = AfterWinner(r, o)
         /\ \A r, o : AfterRebuild(r, o)' = AfterRebuild(r, o)
         /\ \A r, o : AfterEscape(r, o)' = AfterEscape(r, o)
         /\ \A r, o : AfterEscaped(r, o)' = AfterEscaped(r, o)
         /\ \A r, o : AfterCount(r, o)' = AfterCount(r, o)
         /\ \A r, o : AfterDualStep(r, o)' = AfterDualStep(r, o)
         /\ \A r, o : AfterGate(r, o)' = AfterGate(r, o)
         /\ \A r, o : AfterTerminate(r, o)' = AfterTerminate(r, o)
<1>1. \A L : Same(L)' = Same(L)
  BY GridFixed DEF Same
<1>2. \A r : ProbeCalls(r)' = ProbeCalls(r)
  BY GridFixed, SearchesFixed DEF ProbeCalls
<1>3. \A r, counters, stationary : LeaveStage(r, counters, stationary)'
                                     = LeaveStage(r, counters, stationary)
  BY <1>1, <1>2 DEF LeaveStage
<1>4. ASSUME NEW r, NEW o PROVE AfterHead(r, o)' = AfterHead(r, o)
  <2> DEFINE F == [c \in Cones |-> DualSlack(c)]
  <2>1. F' = F
    BY GridFixed, SearchesFixed
  <2> QED BY <1>1, <2>1 DEF AfterHead
<1>5. \A r, o : AfterConverged(r, o)' = AfterConverged(r, o)
  BY <1>1, <1>3 DEF AfterConverged
<1>6. \A r, o : AfterStep(r, o)' = AfterStep(r, o)
  BY <1>1, <1>3 DEF AfterStep
<1>7. ASSUME NEW r, NEW o PROVE AfterDetect(r, o)' = AfterDetect(r, o)
  <2> DEFINE F == [c \in Cones |-> COMPUTE_GRADIENT \o Probe(c, FirstRanks(r, c))]
  <2>1. F' = F
    BY GridFixed, SearchesFixed
  <2> QED BY <1>1, <2>1 DEF AfterDetect
<1>8. \A r, o : AfterWinner(r, o)' = AfterWinner(r, o)
  BY <1>1 DEF AfterWinner
<1>9. ASSUME NEW r, NEW o PROVE AfterRebuild(r, o)' = AfterRebuild(r, o)
  <2> DEFINE F == [c \in Cones |->
        (IF c = r.winner[1] THEN FIND_AL_NEGATIVE_CURVATURE(c, FirstRanks(r, c), r.winner[2])
         ELSE <<>>) \o RebuiltEverywhere]
  <2>1. F' = F
    BY GridFixed, SearchesFixed
  <2> QED BY <2>1 DEF AfterRebuild
<1>10. ASSUME NEW r, NEW o PROVE AfterEscape(r, o)' = AfterEscape(r, o)
  <2> DEFINE F == [c \in Cones |-> (IF c = r.winner[1] THEN Reduce("sign", <<"rank">>) ELSE <<>>)
                                  \o COMPUTE_EXACT_STEP_SIZE]
  <2>1. F' = F
    BY GridFixed
  <2> QED BY <1>1, <2>1 DEF AfterEscape
<1>11. \A r, o : AfterEscaped(r, o)' = AfterEscaped(r, o)
  BY <1>1 DEF AfterEscaped
<1>12. \A r, o : AfterCount(r, o)' = AfterCount(r, o)
  BY <1>1 DEF AfterCount
<1>13. \A r, o : AfterDualStep(r, o)' = AfterDualStep(r, o)
  BY <1>1 DEF AfterDualStep
<1>14. ASSUME NEW r, NEW o PROVE AfterGate(r, o)' = AfterGate(r, o)
  <2> DEFINE F == [c \in Cones |-> DualSlack(c)]
             G == [c \in Cones |-> CHECK_DUAL_INFEASIBILITY(c)]
  <2>1. F' = F /\ G' = G
    BY GridFixed, SearchesFixed
  <2> QED BY <1>1, <2>1 DEF AfterGate
<1>15. \A r, o : AfterTerminate(r, o)' = AfterTerminate(r, o)
  BY <1>1 DEF AfterTerminate
<1> QED BY <1>4, <1>5, <1>6, <1>7, <1>8, <1>9, <1>10, <1>11, <1>12, <1>13, <1>14, <1>15

LEMMA LiftFixed ==
  ASSUME setup' = setup
  PROVE  /\ \A r, o : AfterLift(r, o)' = AfterLift(r, o)
         /\ \A r, o : AfterSelect(r, o)' = AfterSelect(r, o)
         /\ \A r, o : AfterWeigh(r, o)' = AfterWeigh(r, o)
         /\ \A r : KeptAfter(r)' = KeptAfter(r)
<1>1. \A L : Same(L)' = Same(L)
  BY GridFixed DEF Same
<1>2. \A r, o : RanksAfterLift(r, o)' = RanksAfterLift(r, o)
  BY GridFixed, SearchesFixed DEF RanksAfterLift
<1>3. ASSUME NEW r, NEW o PROVE AfterLift(r, o)' = AfterLift(r, o)
  <2> DEFINE F == [c \in Cones |-> o[c + 1]]
  <2>1. F' = F
    BY GridFixed
  <2> QED BY <1>1, <1>2, <2>1 DEF AfterLift
<1>4. ASSUME NEW r PROVE StrengthParts(r)' = StrengthParts(r)
  BY DEF StrengthParts
<1>5. \A r : KeptAfter(r)' = KeptAfter(r)
  BY <1>4, GridFixed DEF KeptAfter
<1>6. ASSUME NEW r, NEW o PROVE AfterSelect(r, o)' = AfterSelect(r, o)
  <2> DEFINE F == [c \in Cones |-> SelectCalls(KeptAfter(r)[c])]
  <2>1. F' = F
    BY <1>5, GridFixed, SearchesFixed
  <2> QED BY <1>5, <2>1 DEF AfterSelect
<1>7. \A r, c : VariablesOf(r, c)' = VariablesOf(r, c)
  BY DEF VariablesOf
<1>8. ASSUME NEW r PROVE VariableParts(r)' = VariableParts(r)
  BY <1>7 DEF VariableParts
<1>9. \A r, o, c : IncsAfter(r, o, c)' = IncsAfter(r, o, c)
  BY <1>7, <1>8 DEF IncsAfter
<1>10. ASSUME NEW r, NEW o PROVE AfterWeigh(r, o)' = AfterWeigh(r, o)
  <2> DEFINE F == [x \in All(2) \X Cones |-> Grown(x[2], r.ranks[x], IncsAfter(r, o, x[2]))]
  <2>1. F' = F
    BY <1>9, GridFixed, SearchesFixed
  <2> QED BY <1>1, <2>1 DEF AfterWeigh
<1> QED BY <1>3, <1>5, <1>6, <1>10

LEMMA StagesFixed ==
  ASSUME setup' = setup
  PROVE  /\ \A r, o : NextStage(r, o)' = NextStage(r, o)
         /\ \A r, o : IsOption(r, o)' <=> IsOption(r, o)
         /\ \A r : StageOK(r)' <=> StageOK(r)
         /\ \A r : Quiet(r)' <=> Quiet(r)
         /\ \A r, lev : Leveled(r, lev)' <=> Leveled(r, lev)
<1>1. \A r, o : NextStage(r, o)' = NextStage(r, o)
  BY AfterFixed, LiftFixed DEF NextStage
<1>2. \A w : IsCurvature(w)' <=> IsCurvature(w)
  BY GridFixed DEF IsCurvature
<1>3. \A r, o : IsOption(r, o)' <=> IsOption(r, o)
  BY <1>2 DEF IsOption
<1>4. \A c, ranks : IsRanks(c, ranks)' <=> IsRanks(c, ranks)
  BY GridFixed DEF IsRanks
<1>5. \A c, ranks, others : SearchedAlike(c, ranks, others)' <=> SearchedAlike(c, ranks, others)
  BY GridFixed DEF SearchedAlike
<1>6. ASSUME NEW r PROVE RanksOK(r)' <=> RanksOK(r)
  BY <1>4, <1>5, GridFixed DEF RanksOK
<1>7. \A f, lev, T : Levels(f, lev, T)' <=> Levels(f, lev, T)
  <2> SUFFICES ASSUME NEW f, NEW lev, NEW T
               PROVE  Levels(f, lev, T)' <=> Levels(f, lev, T)
    OBVIOUS
  <2>1. Cones' = Cones
    BY GridFixed
  <2> QED BY <2>1, Zenon DEF Levels
<1>8. \A f : Aligned(f)' <=> Aligned(f)
  BY <1>7, Zenon DEF Aligned
<1>9. \A r, lev : Leveled(r, lev)' <=> Leveled(r, lev)
  BY <1>7, Zenon DEF Leveled
<1>10. \A c, eig : IsFound(eig, c)' <=> IsFound(eig, c)
  BY GridFixed DEF IsFound
<1>11. \A c, kept : IsKept(kept, c)' <=> IsKept(kept, c)
  BY GridFixed DEF IsKept
<1>12. ASSUME NEW r PROVE StageOK(r)' <=> StageOK(r)
  <2>1. Aligned(r.calls)' <=> Aligned(r.calls)
    BY <1>8
  <2>2. IsCurvature(r.winner)' <=> IsCurvature(r.winner)
    BY <1>2
  <2>3. Cones' = Cones
    BY GridFixed
  <2> QED BY <1>6, <1>10, <1>11, <2>1, <2>2, <2>3, Zenon DEF StageOK
<1>13. ASSUME NEW r PROVE Quiet(r)' <=> Quiet(r)
  <2>1. Cones' = Cones /\ KeptAfter(r)' = KeptAfter(r)
    BY GridFixed, LiftFixed
  <2>2. Lifted(r)' <=> Lifted(r)
    BY DEF Lifted
  <2> QED BY <1>10, <2>1, <2>2, Zenon DEF Quiet
<1> QED BY <1>1, <1>3, <1>9, <1>12, <1>13

LEMMA StoryFixed ==
  ASSUME setup' = setup
  PROVE  \A st, lv, t : Story(st, lv, t)' <=> Story(st, lv, t)
<1>1. \A r, n, t : Follows(r, n, t)' <=> Follows(r, n, t)
  BY ReadingsFixed, StagesFixed DEF Follows
<1>2. SUFFICES ASSUME NEW st, NEW lv, NEW t
               PROVE  Story(st, lv, t)' <=> Story(st, lv, t)
  OBVIOUS
<1>3. /\ \A k : (StageOK(st[k])' <=> StageOK(st[k])) /\ (Quiet(st[k])' <=> Quiet(st[k]))
      /\ \A k : Leveled(st[k], lv[k])' <=> Leveled(st[k], lv[k])
      /\ \A k : Follows(st[k - 1], st[k], t[k])' <=> Follows(st[k - 1], st[k], t[k])
  BY <1>1, StagesFixed
<1> QED BY <1>3, Zenon DEF Story

LEMMA PlaceFixed ==
  ASSUME setup' = setup
  PROVE  \A p, r, i, label, counters, ranks, own, L, v :
           Place(p, r, i, label, counters, ranks, own, L, v)'
             <=> Place(p, r, i, label, counters, ranks, own, L, v)
<1>1. \A p, r : OwnRanks(p, r)' = OwnRanks(p, r)
  BY GridFixed DEF OwnRanks
<1>2. \A p, r, own : SameLift(p, r, own)' <=> SameLift(p, r, own)
  BY GridFixed DEF SameLift, Lifted
<1> QED BY <1>1, <1>2, TogetherFixed, KnowsFixed DEF Place

\* The setup is all that the definitions of the invariant read of the state.
LEMMA HoldFixed ==
  ASSUME setup' = setup
  PROVE  \A st, lv, pos, t, h, label, counters, ranks, own, L, v :
           Hold(st, lv, pos, t, h, label, counters, ranks, own, L, v)'
             <=> Hold(st, lv, pos, t, h, label, counters, ranks, own, L, v)
<1> SUFFICES ASSUME NEW st, NEW lv, NEW pos, NEW t, NEW h, NEW label, NEW counters, NEW ranks,
                    NEW own, NEW L, NEW v
             PROVE  Hold(st, lv, pos, t, h, label, counters, ranks, own, L, v)'
                      <=> Hold(st, lv, pos, t, h, label, counters, ranks, own, L, v)
  OBVIOUS
<1>1. Story(st, lv, t)' <=> Story(st, lv, t)
  BY StoryFixed
<1>2. \A p : Place(p, st[h[p]], pos[p], label[p], counters[p], ranks[p], own[p], L[p], v[p])'
               <=> Place(p, st[h[p]], pos[p], label[p], counters[p], ranks[p], own[p], L[p], v[p])
  BY PlaceFixed
<1>3. Together(st, lv, Len(t), h, pos)' <=> Together(st, lv, Len(t), h, pos)
  BY TogetherFixed
<1> QED BY <1>1, <1>2, <1>3, Zenon DEF Hold

-----------------------------------------------------------------------------
(* The steps of the program keep the invariant.                            *)

LEMMA InvHolds ==
  ASSUME LockStepInv
  PROVE  DecideAlike(setup) /\ IsSetup(setup) /\ \E st, lv, pos : Holds(st, lv, pos)
BY DEF LockStepInv, Holds, DecideAlike

LEMMA AgainInv ==
  ASSUME DecideAlike(setup), setup' = setup, Again
  PROVE  LockStepInv'
<1>1. PICK st, lv, pos, t, h, label, counters, ranks, own, L, v :
        /\ t = told' /\ h = heard' /\ label = pc' /\ counters = loop' /\ ranks = rank_list'
        /\ own = lift' /\ L = todo' /\ v = val'
        /\ Hold(st, lv, pos, t, h, label, counters, ranks, own, L, v)
  BY Zenon DEF Again
<1>2. Hold(st, lv, pos, t, h, label, counters, ranks, own, L, v)'
  BY <1>1, HoldFixed
<1>3. DecideAlike(setup')
  OBVIOUS
<1> QED BY <1>1, <1>2, <1>3, Zenon DEF LockStepInv

\* A step that changes nothing keeps the invariant.
LEMMA Stays ==
  ASSUME LockStepInv, UNCHANGED vars
  PROVE  LockStepInv'
<1>1. PICK st, lv, pos : Holds(st, lv, pos)
  BY InvHolds
<1>2. /\ told' = told /\ heard' = heard /\ pc' = pc /\ loop' = loop /\ rank_list' = rank_list
      /\ lift' = lift /\ todo' = todo /\ val' = val /\ setup' = setup
  BY DEF vars
<1>3. Again
  BY <1>1, <1>2 DEF Again, Holds
<1> QED BY <1>2, <1>3, InvHolds, AgainInv

\* A process that decides has made its calls.
LEMMA DecidesAt ==
  ASSUME NEW p \in Procs,
         \/ HeadOfLoop(p) \/ Converged(p) \/ TakeStep(p) \/ Detect(p) \/ Winner(p) \/ Rebuild(p)
         \/ Escape(p) \/ Escaped(p) \/ Count(p) \/ DualStep(p) \/ Gate(p) \/ Lift(p)
         \/ Select(p) \/ Weigh(p) \/ Terminate(p)
  PROVE  ~ Waiting(p) /\ setup' = setup
BY DEF At, HeadOfLoop, Converged, TakeStep, Detect, Winner, Rebuild, Escape, Escaped, Count,
       DualStep, Gate, Lift, Select, Weigh, Terminate

\* Every step keeps the invariant.
LEMMA InvStep ==
  ASSUME LockStepInv, [Next]_vars
  PROVE  LockStepInv'
<1>1. CASE UNCHANGED vars
  BY <1>1, Stays
<1>2. CASE Finished
  BY <1>2, Stays DEF Finished
<1>3. ASSUME NEW p \in Procs, Collective(p) PROVE LockStepInv'
  <2>1. setup' = setup
    BY <1>3 DEF Collective
  <2>2. Again
    BY <1>3, InvHolds, CollectiveAgain
  <2> QED BY <2>1, <2>2, InvHolds, AgainInv
<1>4. ASSUME NEW p \in Procs,
             \/ HeadOfLoop(p) \/ Converged(p) \/ TakeStep(p) \/ Detect(p) \/ Winner(p) \/ Rebuild(p)
             \/ Escape(p) \/ Escaped(p) \/ Count(p) \/ DualStep(p) \/ Gate(p) \/ Lift(p)
             \/ Select(p) \/ Weigh(p) \/ Terminate(p)
      PROVE  LockStepInv'
  <2>1. ~ Waiting(p) /\ setup' = setup
    BY <1>4, DecidesAt
  <2>2. PICK st, lv, pos : Holds(st, lv, pos)
    BY InvHolds
  <2>3. Stands(p, st[heard[p]], st, lv, pos)
    BY <2>1, <2>2, StandsAt
  <2>4. DecideAlike(setup)
    BY InvHolds
  <2>5. CASE HeadOfLoop(p)
    BY <2>1, <2>3, <2>4, <2>5, HeadAgain, AgainInv
  <2>6. CASE Converged(p)
    BY <2>1, <2>3, <2>4, <2>6, ConvergedAgain, AgainInv
  <2>7. CASE TakeStep(p)
    BY <2>1, <2>3, <2>4, <2>7, StepAgain, AgainInv
  <2>8. CASE Detect(p)
    BY <2>1, <2>3, <2>4, <2>8, DetectAgain, AgainInv
  <2>9. CASE Winner(p)
    BY <2>1, <2>3, <2>4, <2>9, WinnerAgain, AgainInv
  <2>10. CASE Rebuild(p)
    BY <2>1, <2>3, <2>4, <2>10, RebuildAgain, AgainInv
  <2>11. CASE Escape(p)
    BY <2>1, <2>3, <2>4, <2>11, EscapeAgain, AgainInv
  <2>12. CASE Escaped(p)
    BY <2>1, <2>3, <2>4, <2>12, EscapedAgain, AgainInv
  <2>13. CASE Count(p)
    BY <2>1, <2>3, <2>4, <2>13, CountAgain, AgainInv
  <2>14. CASE DualStep(p)
    BY <2>1, <2>3, <2>4, <2>14, DualStepAgain, AgainInv
  <2>15. CASE Gate(p)
    BY <2>1, <2>3, <2>4, <2>15, GateAgain, AgainInv
  <2>16. CASE Lift(p)
    BY <2>1, <2>3, <2>4, <2>16, LiftAgain, AgainInv
  <2>17. CASE Select(p)
    BY <2>1, <2>3, <2>4, <2>17, SelectAgain, AgainInv
  <2>18. CASE Weigh(p)
    BY <2>1, <2>3, <2>4, <2>18, WeighAgain, AgainInv
  <2>19. CASE Terminate(p)
    BY <2>1, <2>3, <2>4, <2>19, TerminateAgain, AgainInv
  <2> QED BY <1>4, <2>5, <2>6, <2>7, <2>8, <2>9, <2>10, <2>11, <2>12, <2>13, <2>14, <2>15,
             <2>16, <2>17, <2>18, <2>19
<1> QED BY <1>1, <1>2, <1>3, <1>4 DEF Next

-----------------------------------------------------------------------------
(* The first stage.                                                        *)

LEMMA FirstRanksOK ==
  ASSUME DecideAlike(setup)
  PROVE  RanksOK(FirstStage)
<1> SUFFICES ASSUME NEW s \in All(2), NEW c \in Cones
             PROVE  /\ IsRanks(c, FirstStage.ranks[<<s, c>>])
                    /\ SearchedAlike(c, FirstStage.ranks[<<s, c>>], FirstRanks(FirstStage, c))
  BY DEF RanksOK
<1> DEFINE own == setup.ranks[s + 1][c + 1]
           first == setup.ranks[1][c + 1]
<1>1. IsSetup(setup)
  BY DEF DecideAlike
<1>2. setup.dims[2] \in Nat \ {0} /\ setup.dims[3] \in Nat \ {0}
  BY <1>1, SetupDims
<1>3. /\ s \in Nat /\ c \in Nat /\ 0 \in All(2)
      /\ s + 1 \in 1..setup.dims[2] /\ 1 \in 1..setup.dims[2] /\ c + 1 \in 1..setup.dims[3]
  BY <1>2 DEF All, Cones
<1>4. FirstStage.ranks[<<s, c>>] = own
  <2>1. <<s, c>> \in All(2) \X Cones
    OBVIOUS
  <2> QED BY <2>1 DEF FirstStage
<1>5. FirstRanks(FirstStage, c) = first
  <2>1. <<0, c>> \in All(2) \X Cones
    BY <1>3
  <2>2. FirstStage.ranks[<<0, c>>] = setup.ranks[0 + 1][c + 1]
    BY <2>1 DEF FirstStage
  <2> QED BY <2>2 DEF FirstRanks
<1>6. BlockDims(c) = setup.block_dims[c + 1] /\ Blocks(c) = 1..Len(BlockDims(c))
  BY DEF BlockDims, Blocks
<1>7. /\ own \in Seq(Nat \ {0}) /\ Len(own) = Len(setup.block_dims[c + 1])
      /\ \A b \in 1..Len(setup.block_dims[c + 1]) :
           own[b] <= setup.block_dims[c + 1][b] /\ own[b] <= setup.max_rank
  BY <1>1, <1>3 DEF IsSetup
<1> HIDE DEF own
<1>8. IsRanks(c, own)
  <2>1. own \in [1..Len(own) -> Nat \ {0}]
    BY <1>7
  <2>2. own \in [Blocks(c) -> Nat \ {0}]
    BY <1>6, <1>7, <2>1
  <2>3. \A b \in Blocks(c) : own[b] <= BlockDims(c)[b] /\ own[b] <= setup.max_rank
    BY <1>6, <1>7
  <2> QED BY <2>2, <2>3, Zenon DEF IsRanks
<1> USE DEF own
<1>9. \A b \in 1..Len(setup.block_dims[c + 1]) :
        \/ own[b] = first[b]
        \/ \A k \in {s + 1, 1} :
             setup.block_dims[c + 1][b] * setup.ranks[k][c + 1][b] >= NEGATIVE_CURVATURE_LANCZOS_K
  BY <1>3 DEF DecideAlike
<1>10. SearchedAlike(c, own, first)
  BY <1>6, <1>9 DEF SearchedAlike
<1> QED BY <1>4, <1>5, <1>8, <1>10

LEMMA FirstObtains ==
  ASSUME IsSetup(setup), NEW c \in Cones
  PROVE  Obtains(c, FirstStage, WarmUp(c) \o HeadCalls, Base, {})
<1> DEFINE check == CHECK_DUAL_INFEASIBILITY(c)
           void == <<Call("all", {}, {})>>
           found == {"min_slack", "free"}
           none == {}
<1>1. FirstStage.checked
  BY DEF FirstStage
<1>2. Obtains(c, FirstStage, check, found, none)
  BY <1>1, DualObtains
<1>3. Obtains(c, FirstStage, void, none, none)
  <2>1. "all" \in DOMAIN Axes
    BY DEF Axes
  <2>2. Computes(c, FirstStage, void, {}, Wholes({}))
    BY <2>1, VoidCall
  <2> QED BY <2>2, ObtainsFrom
<1> HIDE DEF check, void, found
<1>4. Obtains(c, FirstStage, check \o void, none, none)
  <2>1. none \subseteq found \union none /\ none \subseteq found \union none
    OBVIOUS
  <2> QED BY <1>2, <1>3, <2>1, ObtainsThen
<1>5. Obtains(c, FirstStage, HeadCalls, Base, none)
  BY HeadObtains
<1>6. Obtains(c, FirstStage, (check \o void) \o HeadCalls, Base, none)
  <2>1. none \subseteq none \union none /\ Base \subseteq none \union Base
    OBVIOUS
  <2> QED BY <1>4, <1>5, <2>1, ObtainsThen
<1> QED BY <1>6 DEF WarmUp, check, void

LEMMA FirstAligned ==
  ASSUME IsSetup(setup)
  PROVE  Aligned(FirstStage.calls)
<1> DEFINE check == [c \in Cones |-> CHECK_DUAL_INFEASIBILITY(c)]
           void == <<Call("all", {}, {})>>
           warm == [c \in Cones |-> WarmUp(c)]
<1>1. Aligned(check)
  BY DualAligned
<1>2. Aligned(Same(void))
  <2>1. "all" \in DOMAIN Axes
    BY DEF Axes
  <2>2. void \in Seq(Calls)
    BY <2>1, CallsIn
  <2> QED BY <2>2, AlignedAll
<1>3. Aligned(warm)
  <2>1. \A c \in Cones : warm[c] = check[c] \o Same(void)[c]
    BY DEF WarmUp, Same
  <2> QED BY <1>1, <1>2, <2>1, AlignedThen
<1>4. Aligned(Same(HeadCalls))
  <2>1. Obtains(0, FirstStage, HeadCalls, Base, {})
    BY HeadObtains
  <2>2. HeadCalls \in Seq(Calls)
    BY <2>1, ObtainsList
  <2> QED BY <2>2, AlignedAll
<1>5. \A c \in Cones : FirstStage.calls[c] = warm[c] \o Same(HeadCalls)[c]
  BY DEF FirstStage, Same
<1> QED BY <1>3, <1>4, <1>5, AlignedThen

LEMMA FirstOK ==
  ASSUME DecideAlike(setup)
  PROVE  /\ StageOK(FirstStage)
         /\ Quiet(FirstStage)
         /\ \E lev : Leveled(FirstStage, lev)
<1>1. IsSetup(setup)
  BY DEF DecideAlike
<1>2. FirstStage.loop \in Counters /\ FirstStage.pc = "head" /\ FirstStage.checked
      /\ FirstStage.loop.inner = 0
  BY DEF FirstStage, Counters, Start
<1>3. StageOK(FirstStage)
  BY <1>1, <1>2, FirstRanksOK, FirstAligned DEF StageOK
<1>4. Quiet(FirstStage)
  BY <1>2 DEF Quiet, Lifted
<1>5. \E lev : Leveled(FirstStage, lev)
  BY <1>1, FirstAligned DEF Aligned, Leveled
<1> QED BY <1>3, <1>4, <1>5

\* Where a process is when the loop begins.
Enters(p, n, L, v) ==
  /\ n \in 0..Len(CallsOf(FirstStage, p))
  /\ \A i \in 1..n : Alone(p, CallsOf(FirstStage, p)[i])
  /\ L = SubSeq(CallsOf(FirstStage, p), n + 1, Len(CallsOf(FirstStage, p)))
  /\ DOMAIN v = Quantities
  /\ Knows(p, FirstStage, L, v)

\* A process that enters the loop has made its calls of one process only.
LEMMA Entry ==
  ASSUME DecideAlike(setup), NEW p \in Procs,
         NEW R, R = Ready(p, WarmUp(my_cone(p)) \o HeadCalls, NoNumbers)
  PROVE  \E n : Enters(p, n, R.todo, R.val)
<1> DEFINE c == my_cone(p)
           calls == WarmUp(c) \o HeadCalls
           goal == Wholes(Base)
           none == {}
<1>1. IsSetup(setup)
  BY DEF DecideAlike
<1>2. c \in Cones
  BY <1>1, CoordsIn
<1>3. CallsOf(FirstStage, p) = calls
  BY <1>2 DEF CallsOf, FirstStage
<1>4. Obtains(c, FirstStage, calls, Base, {})
  BY <1>1, <1>2, FirstObtains
<1>5. calls \in Seq(Calls)
  BY <1>4, ObtainsList
<1>6. Runs(c, FirstStage, calls, none, goal)
  <2>1. Runs(c, FirstStage, calls, Wholes({}), Wholes(Base))
    <3>1. {} \subseteq {} /\ Base \subseteq {} \union Base
      OBVIOUS
    <3> QED BY <1>4, <3>1, ObtainsRuns
  <2>2. Wholes({}) = none
    BY DEF Wholes
  <2> QED BY <2>1, <2>2
<1>7. Named(none) /\ Matches(p, FirstStage, NoNumbers, none) /\ DOMAIN NoNumbers = Quantities
  BY DEF Named, Matches, NoNumbers
<1>8. Goal(FirstStage, c) = Base
  BY DEF Goal, FirstStage
<1> HIDE DEF calls, goal, none
<1>9. PICK n \in 0..Len(calls) : \E mid :
        /\ \A i \in 1..n : Alone(p, calls[i])
        /\ Ready(p, calls, NoNumbers).todo = SubSeq(calls, n + 1, Len(calls))
        /\ Ready(p, calls, NoNumbers).todo \in Seq(Calls)
        /\ DOMAIN Ready(p, calls, NoNumbers).val = Quantities
        /\ Named(mid)
        /\ Matches(p, FirstStage, Ready(p, calls, NoNumbers).val, mid)
        /\ Runs(my_cone(p), FirstStage, Ready(p, calls, NoNumbers).todo, mid, goal)
  BY <1>1, <1>5, <1>6, <1>7, ReadyKnows
<1>10. R = Ready(p, calls, NoNumbers)
  BY DEF calls
<1>11. Knows(p, FirstStage, R.todo, R.val)
  BY <1>8, <1>9, <1>10 DEF Knows, goal
<1>12. Enters(p, n, R.todo, R.val)
  BY <1>3, <1>9, <1>10, <1>11 DEF Enters
<1> QED BY <1>12

\* The calls made before the first decision are those of a process alone.
LEMMA TogetherFirst ==
  ASSUME NEW lev, NEW h, \A p \in Procs : h[p] = 0, NEW pos,
         \A p \in Procs : \A i \in 1..pos[p] : Alone(p, CallsOf(FirstStage, p)[i]),
         \A p \in Procs : pos[p] \in Nat,
         NEW st, st[0] = FirstStage, NEW lv, lv[0] = lev
  PROVE  Together(st, lv, 0, h, pos)
<1> SUFFICES ASSUME NEW p \in Procs, NEW q \in Procs, NEW k \in 0..0, NEW i, NEW j,
                    Partners(st[k], lv[k], p, i, q, j)
             PROVE  Did(h, pos, p, k, i) <=> Did(h, pos, q, k, j)
  BY DEF Together
<1>1. k = 0 /\ st[k] = FirstStage /\ Partners(FirstStage, lev, p, i, q, j)
  OBVIOUS
<1>2. i \in 1..Len(CallsOf(FirstStage, p)) /\ j \in 1..Len(CallsOf(FirstStage, q))
  BY <1>1 DEF Partners
<1>3. ~ (h[p] > k) /\ ~ (h[q] > k) /\ h[p] = k /\ h[q] = k
  BY <1>1
<1>4. (Did(h, pos, p, k, i) <=> i <= pos[p]) /\ (Did(h, pos, q, k, j) <=> j <= pos[q])
  BY <1>3 DEF Did
<1>5. CASE i <= pos[p]
  <2>1. i \in 1..pos[p]
    BY <1>2, <1>5
  <2>2. q = p /\ j = i
    BY <1>1, <2>1, PartnerAlone
  <2> QED BY <1>4, <2>2
<1>6. CASE j <= pos[q]
  <2>1. j \in 1..pos[q]
    BY <1>2, <1>6
  <2>2. q = p /\ j = i
    BY <1>1, <2>1, PartnerAlone
  <2> QED BY <1>4, <2>2
<1> QED BY <1>4, <1>5, <1>6

\* The invariant holds at first: all are in the calls before the first decision.
LEMMA InvInit ==
  ASSUME \A s \in Setups : DecideAlike(s), Init
  PROVE  LockStepInv
<1>1. DecideAlike(setup) /\ IsSetup(setup)
  BY DEF Init, DecideAlike
<1> DEFINE entry == [p \in Procs |-> Ready(p, WarmUp(my_cone(p)) \o HeadCalls, NoNumbers)]
           at(p) == CHOOSE n : Enters(p, n, todo[p], val[p])
           pos == [p \in Procs |-> at(p)]
<1>2. /\ todo = [p \in Procs |-> entry[p].todo]
      /\ val = [p \in Procs |-> entry[p].val]
      /\ pc = [p \in Procs |-> "head"]
      /\ rank_list = [p \in Procs |-> setup.ranks[coords(p)[2] + 1][my_cone(p) + 1]]
      /\ told = <<>>
      /\ heard = [p \in Procs |-> 0]
      /\ loop = [p \in Procs |-> Start]
      /\ lift = [p \in Procs |-> NoLift]
  BY DEF Init
<1>3. ASSUME NEW p \in Procs PROVE Enters(p, pos[p], todo[p], val[p])
  <2>1. entry[p] = Ready(p, WarmUp(my_cone(p)) \o HeadCalls, NoNumbers)
    OBVIOUS
  <2>2. todo[p] = entry[p].todo /\ val[p] = entry[p].val
    BY <1>2
  <2> HIDE DEF entry
  <2>3. \E n : Enters(p, n, todo[p], val[p])
    BY <1>1, <2>1, <2>2, Entry
  <2> QED BY <2>3
<1> HIDE DEF entry, at
<1>4. OfAll(pos) /\ OfAll(heard) /\ OfAll(pc) /\ OfAll(loop) /\ OfAll(rank_list) /\ OfAll(lift)
      /\ OfAll(todo) /\ OfAll(val)
  <2>1. OfAll(pos)
    BY DEF OfAll
  <2>2. OfAll(heard) /\ OfAll(pc) /\ OfAll(loop) /\ OfAll(lift)
    BY <1>2 DEF OfAll
  <2>3. OfAll(todo) /\ OfAll(val)
    BY <1>2 DEF OfAll
  <2>4. OfAll(rank_list)
    BY <1>2 DEF OfAll
  <2> QED BY <2>1, <2>2, <2>3, <2>4
<1> HIDE DEF pos
<1>5. PICK lev : Leveled(FirstStage, lev)
  BY <1>1, FirstOK
<1> DEFINE st == [k \in {0} |-> FirstStage]
           lv == [k \in {0} |-> lev]
<1>6. st[0] = FirstStage /\ lv[0] = lev
  OBVIOUS
<1>7. Len(told) = 0 /\ IsList(told)
  <2>1. told \in [1..0 -> {}]
    BY <1>2
  <2> QED BY <1>2, <2>1 DEF IsList
<1> HIDE DEF st, lv
<1>8. Story(st, lv, told)
  BY <1>1, <1>5, <1>6, <1>7, FirstOK DEF Story
<1>9. ASSUME NEW p \in Procs
      PROVE  /\ heard[p] \in 0..Len(told)
             /\ Place(p, st[heard[p]], pos[p], pc[p], loop[p], rank_list[p], lift[p], todo[p], val[p])
  <2>1. heard[p] = 0 /\ st[heard[p]] = FirstStage
    BY <1>2, <1>6
  <2>2. pc[p] = FirstStage.pc /\ loop[p] = FirstStage.loop
    BY <1>2 DEF FirstStage
  <2>3. rank_list[p] = OwnRanks(p, FirstStage)
    <3>1. coords(p)[2] \in All(2) /\ my_cone(p) \in Cones
      BY <1>1, CoordsIn
    <3>2. <<coords(p)[2], my_cone(p)>> \in All(2) \X Cones
      BY <3>1
    <3>3. FirstStage.ranks[<<coords(p)[2], my_cone(p)>>]
            = setup.ranks[coords(p)[2] + 1][my_cone(p) + 1]
      BY <3>2 DEF FirstStage
    <3> QED BY <1>2, <3>3 DEF OwnRanks
  <2>4. SameLift(p, FirstStage, lift[p])
    <3>1. FirstStage.pc = "head" /\ lift[p] = NoLift
      BY DEF FirstStage, Init
    <3> QED BY <3>1, SameLiftAs
  <2>5. Enters(p, pos[p], todo[p], val[p])
    BY <1>3
  <2>6. Place(p, FirstStage, pos[p], pc[p], loop[p], rank_list[p], lift[p], todo[p], val[p])
    BY <2>2, <2>3, <2>4, <2>5 DEF Place, Enters
  <2> QED BY <1>7, <2>1, <2>6
<1>10. Together(st, lv, Len(told), heard, pos)
  <2>1. \A p \in Procs : heard[p] = 0
    BY <1>2
  <2>2. \A p \in Procs : pos[p] \in 0..Len(CallsOf(FirstStage, p))
                         /\ \A i \in 1..pos[p] : Alone(p, CallsOf(FirstStage, p)[i])
    BY <1>3 DEF Enters
  <2>3. \A p \in Procs : pos[p] \in Nat
    BY <2>2
  <2> QED BY <1>6, <1>7, <2>1, <2>2, <2>3, TogetherFirst
<1>11. Hold(st, lv, pos, told, heard, pc, loop, rank_list, lift, todo, val)
  BY <1>4, <1>8, <1>9, <1>10 DEF Hold
<1> QED BY <1>1, <1>11, Zenon DEF LockStepInv

-----------------------------------------------------------------------------
(* Someone moves.                                                          *)

\* The stage a process has done nothing more after is the last.
LEMMA DoneIsLast ==
  ASSUME NEW st, NEW lv, NEW pos, Holds(st, lv, pos), NEW p \in Procs, pc[p] = "done"
  PROVE  heard[p] = Len(told)
<1>1. /\ heard[p] \in 0..Len(told)
      /\ pc[p] = st[heard[p]].pc
      /\ \A k \in 1..Len(told) : Follows(st[k - 1], st[k], told[k])
      /\ IsList(told)
  BY DEF Holds, Hold, Story, Place
<1>2. Len(told) \in Nat
  BY <1>1 DEF IsList
<1>3. SUFFICES ASSUME heard[p] < Len(told) PROVE FALSE
  BY <1>1, <1>2
<1>4. heard[p] + 1 \in 1..Len(told) /\ (heard[p] + 1) - 1 = heard[p]
  BY <1>1, <1>2, <1>3
<1>5. Follows(st[heard[p]], st[heard[p] + 1], told[heard[p] + 1])
  BY <1>1, <1>4
<1>6. st[heard[p]].pc \in Labels
  BY <1>5 DEF Follows
<1> QED BY <1>1, <1>6 DEF Labels

\* The next call of a process and its level.
NextCall(st, pos, p) == CallsOf(st[heard[p]], p)[pos[p] + 1]

NextLevel(lv, pos, p) == lv[heard[p]][<<my_cone(p), pos[p] + 1>>]

\* Of the slowest processes p waits in a call of the lowest level, and of
\* those that do in the first.
First(lv, pos, p) ==
  /\ Waiting(p)
  /\ \A q \in Procs : heard[p] <= heard[q]
  /\ \A q \in Procs : Waiting(q) /\ heard[q] = heard[p] =>
       /\ NextLevel(lv, pos, p) <= NextLevel(lv, pos, q)
       /\ NextLevel(lv, pos, p) = NextLevel(lv, pos, q) => pos[p] <= pos[q]

LEMMA LevelsAre ==
  ASSUME IsSetup(setup), NEW st, NEW lv, NEW pos, Holds(st, lv, pos), NEW p \in Procs, Waiting(p)
  PROVE  NextLevel(lv, pos, p) \in Nat /\ pos[p] \in Nat
<1> DEFINE r == st[heard[p]]
           lev == lv[heard[p]]
           C == CallsOf(r, p)
<1>1. pos[p] \in Nat /\ Leveled(r, lev) /\ pos[p] + 1 \in 1..Len(C)
  BY WaitsAt
<1>2. PICK T : Levels(r.calls, lev, T)
  BY <1>1 DEF Leveled
<1>3. my_cone(p) \in Cones
  BY CoordsIn
<1>4. InOrder(C, lev, my_cone(p), T) /\ T \in Nat
  BY <1>2, <1>3 DEF Levels, CallsOf
<1>5. lev[<<my_cone(p), pos[p] + 1>>] \in 0..T
  BY <1>1, <1>4 DEF InOrder
<1> QED BY <1>1, <1>4, <1>5 DEF NextLevel

\* Of the processes of the earliest stage one waits at the lowest level.
LEMMA SomeFirst ==
  ASSUME IsSetup(setup), NEW st, NEW lv, NEW pos, Holds(st, lv, pos),
         NEW k, \A q \in Procs : k <= heard[q], NEW p0 \in Procs, heard[p0] = k, Waiting(p0)
  PROVE  \E p \in Procs : First(lv, pos, p)
<1> DEFINE W == {p \in Procs : Waiting(p) /\ heard[p] = k}
           f == [p \in W |-> NextLevel(lv, pos, p)]
<1>1. \A p \in W : f[p] = NextLevel(lv, pos, p) /\ f[p] \in Nat
  BY LevelsAre
<1>2. W # {}
  OBVIOUS
<1> HIDE DEF f
<1>3. PICK p1 \in W : \A q \in W : f[p1] <= f[q]
  BY <1>1, <1>2, Least
<1> DEFINE V == {p \in W : f[p] = f[p1]}
           g == [p \in V |-> pos[p]]
<1>4. \A p \in V : g[p] = pos[p] /\ g[p] \in Nat
  BY LevelsAre
<1>5. V # {}
  BY <1>3
<1> HIDE DEF g
<1>6. PICK p \in V : \A q \in V : g[p] <= g[q]
  BY <1>4, <1>5, Least
<1>7. p \in Procs /\ Waiting(p) /\ heard[p] = k /\ p \in W /\ f[p] = f[p1]
  BY <1>6
<1>8. ASSUME NEW q \in Procs, Waiting(q), heard[q] = heard[p]
      PROVE  /\ NextLevel(lv, pos, p) <= NextLevel(lv, pos, q)
             /\ NextLevel(lv, pos, p) = NextLevel(lv, pos, q) => pos[p] <= pos[q]
  <2>1. q \in W
    BY <1>7, <1>8
  <2>2. f[p] <= f[q]
    BY <1>3, <1>7, <2>1
  <2>3. ASSUME NextLevel(lv, pos, p) = NextLevel(lv, pos, q) PROVE pos[p] <= pos[q]
    <3>1. q \in V
      BY <1>1, <1>7, <2>1, <2>3
    <3> QED BY <1>4, <1>6, <3>1
  <2> QED BY <1>1, <1>7, <2>1, <2>2, <2>3
<1> QED BY <1>7, <1>8 DEF First

\* Its partner waits in the same call.
LEMMA PartnerWaits ==
  ASSUME IsSetup(setup), NEW st, NEW lv, NEW pos, Holds(st, lv, pos), NEW p \in Procs,
         First(lv, pos, p), NEW q \in Members(NextCall(st, pos, p).on, p)
  PROVE  Waiting(q) /\ Head(todo[q]) = NextCall(st, pos, p)
<1> DEFINE k == heard[p]
           r == st[k]
           lev == lv[k]
           C == CallsOf(r, p)
           D == CallsOf(r, q)
           i == pos[p] + 1
           m == pos[q] + 1
<1>1. Waiting(p) /\ \A u \in Procs : heard[p] <= heard[u]
  BY DEF First
<1>2. /\ heard[p] \in 0..Len(told) /\ pos[p] \in Nat /\ Leveled(r, lev)
      /\ C \in Seq(Calls) /\ i \in 1..Len(C)
  BY <1>1, WaitsAt
<1>3. NextCall(st, pos, p) = C[i]
  BY DEF NextCall
<1>4. q \in Procs /\ q \in Members(C[i].on, p)
  BY <1>3 DEF Members
<1>5. heard[q] \in 0..Len(told) /\ Together(st, lv, Len(told), heard, pos)
      /\ Place(q, st[heard[q]], pos[q], pc[q], loop[q], rank_list[q], lift[q], todo[q], val[q])
      /\ IsList(told)
  BY <1>4 DEF Holds, Hold, Story
<1>6. Len(told) \in Nat
  BY <1>5 DEF IsList
<1>7. heard[q] <= heard[p]
  <2> HIDE DEF k, r, lev, C, D, i, m
  <2>1. Leveled(st[heard[p]], lv[heard[p]])
    BY <1>2 DEF r, lev, k
  <2>2. pos[p] + 1 \in 1..Len(CallsOf(st[heard[p]], p))
    BY <1>2 DEF C, i, r, k
  <2>3. q \in Members(CallsOf(st[heard[p]], p)[pos[p] + 1].on, p)
    BY <1>4 DEF C, i, r, k
  <2> QED BY <1>2, <1>5, <1>6, <2>1, <2>2, <2>3, NotAhead
<1>8. heard[q] = k
  BY <1>1, <1>2, <1>4, <1>5, <1>7
<1>9. pos[q] \in 0..Len(D) /\ todo[q] = SubSeq(D, pos[q] + 1, Len(D))
  BY <1>5, <1>8 DEF Place
<1>10. PICK j : Partners(r, lev, p, i, q, j)
  <2> HIDE DEF r, lev, i
  <2> QED BY <1>2, <1>4, PartnerExists DEF C
<1>11. j \in 1..Len(D) /\ D[j] = C[i] /\ Meets(r, lev, my_cone(p), i, my_cone(q), j)
  BY <1>10, PartnersCall DEF Partners
<1>12. ~ (j <= pos[q])
  <2>1. k \in 0..Len(told)
    BY <1>2
  <2>2. Did(heard, pos, p, k, i) <=> Did(heard, pos, q, k, j)
    BY <1>4, <1>5, <1>10, <2>1 DEF Together
  <2>3. ~ Did(heard, pos, p, k, i)
    BY <1>2 DEF Did
  <2> QED BY <1>8, <2>2, <2>3 DEF Did
<1>13. D \in Seq(Calls) /\ C \in Seq(Calls)
  BY <1>2, <1>4, CallsList
<1>14. Len(D) \in Nat /\ pos[q] \in Nat /\ pos[q] < Len(D) /\ m <= j /\ m \in 1..Len(D)
  BY <1>9, <1>11, <1>12, <1>13
<1>15. Waiting(q) /\ Head(todo[q]) = D[m]
  <2> HIDE DEF D
  <2>1. todo[q] # <<>>
    <3>1. (todo[q] = <<>>) <=> (pos[q] = Len(D))
      BY <1>9, <1>13, RestOf, Zenon
    <3> QED BY <1>14, <3>1
  <2> QED BY <1>9, <1>13, <1>14, <2>1, RestOf DEF Waiting
<1>16. /\ NextLevel(lv, pos, p) <= NextLevel(lv, pos, q)
       /\ NextLevel(lv, pos, p) = NextLevel(lv, pos, q) => pos[p] <= pos[q]
  BY <1>4, <1>8, <1>15 DEF First
<1>17. /\ NextLevel(lv, pos, p) = lev[<<my_cone(p), i>>]
       /\ NextLevel(lv, pos, q) = lev[<<my_cone(q), m>>]
       /\ NextLevel(lv, pos, p) \in Nat /\ NextLevel(lv, pos, q) \in Nat
  BY <1>1, <1>4, <1>8, <1>15, LevelsAre DEF NextLevel
<1>18. PICK T : InOrder(D, lev, my_cone(q), T)
  BY <1>2, <1>4, CallsList
<1>19. j = m
  <2> SUFFICES ASSUME m < j PROVE FALSE
    BY <1>11, <1>14
  <2>1. /\ lev[<<my_cone(q), m>>] <= lev[<<my_cone(q), j>>]
        /\ Common(D[j]) => lev[<<my_cone(q), m>>] < lev[<<my_cone(q), j>>]
    BY <1>11, <1>14, <1>18 DEF InOrder
  <2>2. lev[<<my_cone(q), j>>] \in 0..T
    BY <1>11, <1>18 DEF InOrder
  <2>3. CASE my_cone(p) = my_cone(q)
    <3>1. i = j
      BY <1>11, <2>3 DEF Meets
    <3>2. NextLevel(lv, pos, q) <= NextLevel(lv, pos, p)
      BY <1>17, <2>1, <2>3, <3>1
    <3>3. pos[p] <= pos[q]
      BY <1>16, <1>17, <3>2
    <3> QED BY <1>2, <1>14, <3>1, <3>3
  <2>4. CASE my_cone(p) # my_cone(q)
    <3>1. Common(C[i]) /\ lev[<<my_cone(q), j>>] = lev[<<my_cone(p), i>>]
      BY <1>11, <2>4 DEF Meets, CallsOf
    <3>2. Common(D[j])
      BY <1>11, <3>1
    <3>3. lev[<<my_cone(q), m>>] < lev[<<my_cone(p), i>>]
      BY <2>1, <3>1, <3>2
    <3>4. NextLevel(lv, pos, q) < NextLevel(lv, pos, p)
      BY <1>17, <3>3
    <3> QED BY <1>16, <1>17, <3>4
  <2> QED BY <2>3, <2>4
<1>20. Head(todo[q]) = C[i]
  BY <1>11, <1>15, <1>19
<1> QED BY <1>3, <1>15, <1>20

\* That one meets the others of its line: none can be before it, as it is first,
\* and none past it, as of one call all have made theirs or none.
LEMMA FirstMeets ==
  ASSUME IsSetup(setup), NEW st, NEW lv, NEW pos, Holds(st, lv, pos), NEW p \in Procs,
         First(lv, pos, p)
  PROVE  Meet(p)
<1>1. Waiting(p)
  BY DEF First
<1>2. Head(todo[p]) = NextCall(st, pos, p)
  BY <1>1, WaitsAt DEF NextCall
<1>3. \A q \in Members(NextCall(st, pos, p).on, p) : Waiting(q) /\ Head(todo[q]) = NextCall(st, pos, p)
  BY PartnerWaits
<1> QED BY <1>1, <1>2, <1>3 DEF Meet

\* So one of them can always go on.
LEMMA InvMoves ==
  ASSUME LockStepInv
  PROVE  SomeoneMoves
<1>1. DecideAlike(setup) /\ IsSetup(setup)
  BY InvHolds
<1>2. PICK st, lv, pos : Holds(st, lv, pos)
  BY InvHolds
<1>3. \A p \in Procs : heard[p] \in Nat /\ heard[p] \in 0..Len(told) /\ pc[p] = st[heard[p]].pc
  BY <1>2 DEF Holds, Hold, Place
<1>4. Procs # {}
  BY WorldAssumption DEF Procs
<1>5. PICK p0 \in Procs : \A q \in Procs : heard[p0] <= heard[q]
  BY <1>3, <1>4, Least
<1>6. CASE Waiting(p0)
  <2>1. PICK p \in Procs : First(lv, pos, p)
    BY <1>1, <1>2, <1>5, <1>6, SomeFirst
  <2>2. Meet(p)
    BY <1>1, <1>2, <2>1, FirstMeets
  <2> QED BY <2>2 DEF SomeoneMoves
<1>7. CASE ~ Waiting(p0) /\ pc[p0] # "done"
  BY <1>7 DEF SomeoneMoves
<1>8. CASE pc[p0] = "done"
  <2>1. heard[p0] = Len(told)
    BY <1>2, <1>8, DoneIsLast
  <2>2. ASSUME NEW q \in Procs PROVE pc[q] = "done"
    <3>1. heard[q] = heard[p0]
      BY <1>3, <1>5, <2>1
    <3> QED BY <1>3, <1>8, <3>1
  <2> QED BY <2>2 DEF SomeoneMoves, Done
<1> QED BY <1>6, <1>7, <1>8

-----------------------------------------------------------------------------
(* Processes that meet are at the same place, and decide on whole numbers. *)

\* Processes that meet have the label, the counters and the ranks of one stage.
LEMMA InvSameCall ==
  ASSUME LockStepInv
  PROVE  SameCall
<1>1. IsSetup(setup)
  BY InvHolds
<1>2. PICK st, lv, pos : Holds(st, lv, pos)
  BY InvHolds
<1> SUFFICES ASSUME NEW p \in Procs, NEW q \in Procs, Waiting(p), Waiting(q),
                    Head(todo[p]) = Head(todo[q]), q \in Members(Head(todo[p]).on, p)
             PROVE  /\ pc[p] = pc[q] /\ loop[p] = loop[q]
                    /\ Head(todo[p]).on = "row" => rank_list[p] = rank_list[q]
  BY DEF SameCall
<1> DEFINE C == CallsOf(st[heard[p]], p)
           D == CallsOf(st[heard[q]], q)
<1>3. /\ heard[p] \in 0..Len(told) /\ pos[p] \in Nat
      /\ pos[p] + 1 \in 1..Len(C) /\ Head(todo[p]) = C[pos[p] + 1]
  BY <1>1, <1>2, WaitsAt
<1>4. /\ heard[q] \in 0..Len(told) /\ pos[q] \in Nat
      /\ pos[q] + 1 \in 1..Len(D) /\ Head(todo[q]) = D[pos[q] + 1]
  BY <1>1, <1>2, WaitsAt
<1>5. /\ Together(st, lv, Len(told), heard, pos)
      /\ \A k \in 0..Len(told) : Leveled(st[k], lv[k])
      /\ Len(told) \in Nat
  BY <1>2 DEF Holds, Hold, Story, IsList
<1>6. heard[q] = heard[p]
  BY <1>1, <1>3, <1>4, <1>5, SamePlace
<1>7. /\ pc[p] = st[heard[p]].pc /\ loop[p] = st[heard[p]].loop
      /\ rank_list[p] = OwnRanks(p, st[heard[p]])
      /\ pc[q] = st[heard[q]].pc /\ loop[q] = st[heard[q]].loop
      /\ rank_list[q] = OwnRanks(q, st[heard[q]])
  BY <1>2 DEF Holds, Hold, Place
<1>8. ASSUME Head(todo[p]).on = "row" PROVE rank_list[p] = rank_list[q]
  <2>1. q \in Members("row", p)
    BY <1>8
  <2>2. coords(q)[2] = coords(p)[2] /\ coords(q)[3] = coords(p)[3]
    BY <2>1, AxisValues DEF Members
  <2>3. OwnRanks(p, st[heard[p]]) = OwnRanks(q, st[heard[p]])
    BY <2>2 DEF OwnRanks, my_cone
  <2> QED BY <1>6, <1>7, <2>3
<1> QED BY <1>6, <1>7, <1>8

\* What a process reads it has come for.
LEMMA ReadsGoal ==
  ASSUME NEW r, NEW c, NEW p, pc[p] = r.pc, NEW x \in Reads(p)
  PROVE  x \in Goal(r, c)
<1>1. CASE pc[p] \in {"head", "gate", "dual_step"}
  BY <1>1 DEF Reads, Goal, Base
<1>2. CASE pc[p] = "converged"
  BY <1>2 DEF Reads, Goal
<1>3. CASE pc[p] \in {"step", "escaped"}
  BY <1>3 DEF Reads, Goal, StepNumbers
<1>4. CASE pc[p] \in {"winner", "escape", "lift", "weigh"}
  BY <1>4 DEF Reads, Goal
<1>5. pc[p] \in {"head", "gate", "converged", "step", "escaped", "winner", "escape", "dual_step",
                 "lift", "weigh"}
  BY DEF Reads
<1> QED BY <1>1, <1>2, <1>3, <1>4, <1>5

LEMMA GradientTerms ==
  {<<s, c, Gradient>> : s \in All(2), c \in All(3)}
    = {<<sc[1], sc[2], Gradient>> : sc \in All(2) \X All(3)}
<1> DEFINE A == {<<s, c, Gradient>> : s \in All(2), c \in All(3)}
           B == {<<sc[1], sc[2], Gradient>> : sc \in All(2) \X All(3)}
<1>1. ASSUME NEW d \in A PROVE d \in B
  <2>1. PICK s \in All(2), c \in All(3) : d = <<s, c, Gradient>>
    OBVIOUS
  <2>2. <<s, c>> \in All(2) \X All(3) /\ <<s, c>>[1] = s /\ <<s, c>>[2] = c
    OBVIOUS
  <2> QED BY <2>1, <2>2
<1>2. ASSUME NEW d \in B PROVE d \in A
  <2>1. PICK sc \in All(2) \X All(3) : d = <<sc[1], sc[2], Gradient>>
    OBVIOUS
  <2>2. sc[1] \in All(2) /\ sc[2] \in All(3)
    OBVIOUS
  <2> QED BY <2>1, <2>2
<1> QED BY <1>1, <1>2

\* What a process reads is the whole number.
LEMMA InvWhole ==
  ASSUME LockStepInv
  PROVE  EveryTermOnce
<1>1. IsSetup(setup)
  BY InvHolds
<1>2. PICK st, lv, pos : Holds(st, lv, pos)
  BY InvHolds
<1> SUFFICES ASSUME NEW p \in Procs, ~ Waiting(p), NEW x \in Reads(p)
             PROVE  val[p][x] = SetToBag(Whole(x, p))
  BY DEF EveryTermOnce
<1>3. PICK r : Stands(p, r, st, lv, pos)
  BY <1>2, StandsAt
<1>4. StageOK(r) /\ Knows(p, r, <<>>, val[p]) /\ pc[p] = r.pc
  BY <1>3, AtStage
<1> DEFINE row == coords(p)[1]
<1>5. \A y \in Goal(r, my_cone(p)) : val[p][y] = SetToBag(WholeSet(y, row, r))
  BY <1>1, <1>4, HasWholes
<1>6. val[p][x] = SetToBag(WholeSet(x, row, r))
  BY <1>4, <1>5, ReadsGoal
<1>7. CASE x \in {"p_obj", "curvature_obj", "d_obj", "q0_norm", "q_dots"}
  BY <1>6, <1>7 DEF Whole, WholeSet
<1>8. CASE x \in {"grad_norm", "dot", "slope"}
  <2>1. Whole(x, p) = {<<s, c, Gradient>> : s \in All(2), c \in All(3)}
    BY <1>8 DEF Whole
  <2>2. WholeSet(x, row, r) = {<<sc[1], sc[2], Gradient>> : sc \in All(2) \X All(3)}
    BY <1>8 DEF WholeSet
  <2> QED BY <1>6, <2>1, <2>2, GradientTerms
<1>9. CASE x \in {"lambda", "min_eigval"}
  BY <1>6, <1>9 DEF Whole, WholeSet
<1>10. CASE x = "ready"
  <2>1. r.pc = "escape"
    BY <1>4, <1>10 DEF Reads
  <2>2. WinnerIn(val[p]) = r.winner
    BY <1>1, <1>3, <2>1, HeardWinner
  <2> QED BY <1>6, <1>10, <2>2 DEF Whole, WholeSet
<1>11. CASE x = "gram"
  <2>1. r.pc = "weigh"
    BY <1>4, <1>11 DEF Reads
  <2>2. "variables" \in Goal(r, my_cone(p))
    BY <2>1 DEF Goal
  <2>3. val[p]["variables"] = SetToBag(AllVariables(r))
    BY <1>5, <2>2, WholeNumbers
  <2>4. Whole(x, p) = {<<i, SetToBag(AllVariables(r))>> : i \in All(1)}
    BY <1>11, <2>3 DEF Whole
  <2>5. WholeSet(x, row, r) = {<<i, SetToBag(AllVariables(r))>> : i \in All(1)}
    BY <1>11 DEF WholeSet
  <2> QED BY <1>6, <2>4, <2>5
<1>12. x \in {"p_obj", "curvature_obj", "d_obj", "q0_norm", "q_dots", "grad_norm", "dot", "slope",
              "lambda", "min_eigval", "ready", "gram"}
  BY DEF Reads
<1> QED BY <1>7, <1>8, <1>9, <1>10, <1>11, <1>12

-----------------------------------------------------------------------------
(* The joint lift.  The directions that the processes of a cone axis hold  *)
(* are those of one stage, of which KeptAfter is the selection.            *)

LEMMA SelectsAre ==
  /\ \A eig : Strengths(eig) = ValuesOf(per_cone_cap, eig)
  /\ \A eig, parts, c : select_strongest_directions(eig, parts, c)
                          = Selection(per_cone_cap, global_cap, eig, parts, c)
  /\ \A parts, c : Displacement(parts, c) = StartOf(parts, c)
<1>1. \A eig : Candidates(eig) = Listing(per_cone_cap, eig)
  BY DEF Candidates, Listing
<1>2. \A parts, c : Displacement(parts, c) = StartOf(parts, c)
  BY DEF Displacement, StartOf
<1>3. ASSUME NEW eig, NEW parts, NEW c
      PROVE  select_strongest_directions(eig, parts, c)
               = Selection(per_cone_cap, global_cap, eig, parts, c)
  <2> DEFINE m == per_cone_cap
             C == Candidates(eig)
             x == Displacement(parts, c)
             S == Strongest(global_cap, parts)
             kept(b) == {d \in DOMAIN eig[b] : \E i \in DOMAIN C : C[i] = <<b, d>> /\ x + i \in S}
  <2>1. select_strongest_directions(eig, parts, c) = [b \in DOMAIN eig |-> Sorted(kept(b), ByValue(eig[b]))]
    BY DEF select_strongest_directions, KeptBy, Strongest
  <2>2. C = Listing(m, eig) /\ x = StartOf(parts, c)
    BY <1>1, <1>2
  <2> HIDE DEF C, x
  <2>3. Selection(m, global_cap, eig, parts, c) = [b \in DOMAIN eig |-> Sorted(kept(b), ByValue(eig[b]))]
    BY <2>2 DEF Selection
  <2> QED BY <2>1, <2>3
<1>4. \A eig : Strengths(eig) = ValuesOf(per_cone_cap, eig)
  BY <1>1 DEF Strengths, ValuesOf
<1> QED BY <1>2, <1>3, <1>4

LEMMA VariablesAre ==
  ASSUME IsSetup(setup), NEW c \in Cones, NEW kept, IsKept(kept, c), NEW mode
  PROVE  \E A : Variables(c, kept, mode) \in Seq(A)
<1> DEFINE n == Len(BlockDims(c))
           one(b, r) == [i \in 1..r |-> <<c, b, i, i>>]
           two(b, r) == IF mode = "sdp" THEN [k \in DOMAIN Pairs(r) |-> <<c, b>> \o Pairs(r)[k]] ELSE <<>>
           seqs == [b \in DOMAIN kept |-> one(b, Len(kept[b])) \o two(b, Len(kept[b]))]
<1>1. n \in Nat /\ DOMAIN kept = 1..n
  BY BlocksOf DEF IsKept
<1>2. ASSUME NEW b \in 1..n PROVE Len(kept[b]) \in Nat
  <2>1. PICK B : \E m \in Nat : kept[b] \in [1..m -> B]
    BY <1>1 DEF IsKept, IsList
  <2>2. PICK m \in Nat : kept[b] \in [1..m -> B]
    BY <2>1
  <2> DEFINE s == kept[b]
  <2>3. s \in Seq(B)
    BY <2>2
  <2> QED BY <2>3, LenProperties
<1>3. ASSUME NEW b, NEW r \in Nat PROVE \E A : one(b, r) \in Seq(A)
  BY ListOfMany
<1>4. ASSUME NEW b, NEW r \in Nat PROVE \E A : two(b, r) \in Seq(A)
  <2> DEFINE P == {p \in (1..r) \X (1..r) : p[1] < p[2]}
             before == {q \in ((1..r) \X (1..r)) \X ((1..r) \X (1..r)) :
                          q[1][1] < q[2][1] \/ (q[1][1] = q[2][1] /\ q[1][2] < q[2][2])}
  <2>1. IsFiniteSet(P)
    <3>1. P \subseteq (1..r) \X (1..r) /\ IsFiniteSet(1..r)
      BY FS_Interval
    <3> HIDE DEF P
    <3>2. IsFiniteSet((1..r) \X (1..r))
      BY <3>1, FS_Product
    <3> QED BY <3>1, <3>2, FS_Subset
  <2>2. Pairs(r) = Sorted(P, before)
    BY DEF Pairs
  <2> HIDE DEF P, before
  <2>3. IsList(Pairs(r))
    BY <2>1, <2>2, SortedIs
  <2>4. PICK B : \E m \in Nat : Pairs(r) \in [1..m -> B]
    BY <2>3 DEF IsList
  <2>5. PICK m \in Nat : DOMAIN Pairs(r) = 1..m
    BY <2>4
  <2>6. CASE mode = "sdp"
    <3> DEFINE f == [k \in 1..m |-> <<c, b>> \o Pairs(r)[k]]
    <3>1. two(b, r) = f /\ f = [k \in 1..m |-> f[k]]
      BY <2>5, <2>6
    <3> HIDE DEF f, two
    <3> QED BY <3>1, ListOfMany
  <2>7. CASE mode # "sdp"
    BY <2>7
  <2> QED BY <2>6, <2>7
<1>5. Variables(c, kept, mode) = FlattenSeq(seqs)
  BY DEF Variables
<1> HIDE DEF one, two, n
<1>6. EachList(n, seqs)
  <2>1. ASSUME NEW b \in 1..n PROVE \E A : seqs[b] \in Seq(A)
    <3> DEFINE s == one(b, Len(kept[b]))
               t == two(b, Len(kept[b]))
    <3>1. seqs[b] = s \o t
      BY <1>1
    <3>2. (\E A : s \in Seq(A)) /\ (\E A : t \in Seq(A))
      BY <1>2, <1>3, <1>4
    <3> HIDE DEF s, t
    <3> QED BY <3>1, <3>2, JoinedLists
  <2>2. seqs = [b \in 1..n |-> seqs[b]]
    BY <1>1
  <2> HIDE DEF seqs
  <2> QED BY <2>1, <2>2 DEF EachList
<1> HIDE DEF seqs
<1>7. PICK A : seqs \in [1..n -> Seq(A)]
  BY <1>1, <1>6, OneKind
<1>8. FlattenSeq(seqs) \in Seq(A)
  BY <1>1, <1>7, FlattenedAt DEF OneAfterOther
<1> QED BY <1>5, <1>8

\* The third call of an iteration is one over the cones.
LEMMA HeadSums ==
  /\ HeadCalls \in Seq(Calls)
  /\ 3 \in 1..Len(HeadCalls)
  /\ HeadCalls[3].on = "cone"
<1> DEFINE s == SYNC_PRIMAL_SOLUTION
           a == COMPUTE_PRIMAL_RESIDUAL
           rest == COMPUTE_GRADIENT \o COMPUTE_OBJECTIVE_GAP \o compute_global_q0_norm
           b == Call("rank", {"Ax"}, {"Ax"})
           d == Call("cone", {"Ax"}, {})
<1>1. Call("row", {}, {}) \in Calls /\ b \in Calls /\ d \in Calls
  BY DEF Calls, Call, Axes, Quantities
<1>2. s = <<Call("row", {}, {})>> /\ a = <<b, d>>
  BY DEF SYNC_PRIMAL_SOLUTION, COMPUTE_PRIMAL_RESIDUAL, Reduce
<1>3. HeadCalls = (s \o a) \o rest /\ rest \in Seq(Calls)
  <2>1. /\ COMPUTE_GRADIENT \in Seq(Calls) /\ COMPUTE_OBJECTIVE_GAP \in Seq(Calls)
        /\ compute_global_q0_norm \in Seq(Calls)
    BY Singles, Objective DEF Obtains, Computes
  <2>2. s \in Seq(Calls) /\ a \in Seq(Calls)
    BY <1>1, <1>2
  <2>3. HeadCalls = s \o a \o COMPUTE_GRADIENT \o COMPUTE_OBJECTIVE_GAP \o compute_global_q0_norm
    BY DEF HeadCalls
  <2> HIDE DEF s, a
  <2> QED BY <2>1, <2>2, <2>3
<1> HIDE DEF s, a, rest, b, d
<1>4. s \o a \in Seq(Calls) /\ Len(s \o a) = 3 /\ (s \o a)[3] = d
  BY <1>1, <1>2
<1>5. HeadCalls \in Seq(Calls) /\ Len(HeadCalls) = 3 + Len(rest) /\ Len(rest) \in Nat
  BY <1>3, <1>4
<1>6. HeadCalls[3] = d
  BY <1>3, <1>4, ConcatAt
<1>7. d.on = "cone"
  BY DEF d, Call
<1> QED BY <1>5, <1>6, <1>7

\* A process that has decided on a joint lift is not an iteration ahead of one
\* of its cone axis that has not left the lift before: the calls between are
\* over the cones.
LEMMA NotPast ==
  ASSUME IsSetup(setup), NEW st, NEW lv, NEW pos, Holds(st, lv, pos), NEW p \in Procs,
         NEW q \in Members("cone", p), NEW k \in Nat, heard[p] <= k, k < heard[q],
         st[k].pc = "terminate", Lifted(st[heard[q]])
  PROVE  FALSE
<1> DEFINE n == st[k + 1]
<1>1. q \in Procs
  BY DEF Members
<1>2. /\ heard[p] \in 0..Len(told) /\ heard[q] \in 0..Len(told)
      /\ Story(st, lv, told) /\ Together(st, lv, Len(told), heard, pos)
  BY <1>1 DEF Holds, Hold
<1>3. Len(told) \in Nat
  BY <1>2 DEF Story, IsList
<1>4. k + 1 \in 1..Len(told) /\ k + 1 <= heard[q] /\ heard[p] < k + 1 /\ (k + 1) - 1 = k
  BY <1>2, <1>3
<1>5. PICK o : n = NextStage(st[k], o)
  <2>1. Follows(st[(k + 1) - 1], st[k + 1], told[k + 1])
    BY <1>2, <1>4 DEF Story
  <2> QED BY <1>4, <2>1 DEF Follows
<1>6. n.pc = "done" \/ (n.pc = "head" /\ n.calls = Same(HeadCalls))
  <2>1. n = AfterTerminate(st[k], o)
    BY <1>5 DEF NextStage
  <2> QED BY <2>1 DEF AfterTerminate, To
<1>7. heard[q] # k + 1
  BY <1>6 DEF Lifted
<1>8. k + 2 \in 1..Len(told) /\ k + 1 < heard[q] /\ (k + 2) - 1 = k + 1
  BY <1>2, <1>3, <1>4, <1>7
<1>9. n.pc \in Labels
  <2>1. Follows(st[(k + 2) - 1], st[k + 2], told[k + 2])
    BY <1>2, <1>8 DEF Story
  <2> QED BY <1>8, <2>1 DEF Follows
<1>10. CallsOf(n, p) = HeadCalls
  BY <1>6, <1>9, SameCalls DEF Labels, CallsOf
<1>11. PICK j : Partners(n, lv[k + 1], p, 3, q, j)
  <2>1. Leveled(n, lv[k + 1])
    BY <1>2, <1>3, <1>4 DEF Story
  <2>2. 3 \in 1..Len(CallsOf(n, p)) /\ q \in Members(CallsOf(n, p)[3].on, p)
    BY <1>10, HeadSums
  <2> HIDE DEF n
  <2> QED BY <2>1, <2>2, PartnerExists
<1>12. Did(heard, pos, p, k + 1, 3) <=> Did(heard, pos, q, k + 1, j)
  <2>1. k + 1 \in 0..Len(told)
    BY <1>3, <1>4
  <2> QED BY <1>1, <1>2, <1>11, <2>1 DEF Together
<1>13. ~ Did(heard, pos, p, k + 1, 3)
  BY <1>2, <1>4 DEF Did
<1>14. Did(heard, pos, q, k + 1, j)
  BY <1>8 DEF Did
<1> QED BY <1>12, <1>13, <1>14

\* A process of the story has decided as its stage says.
LEMMA LiftedAt ==
  ASSUME NEW st, NEW lv, NEW pos, Holds(st, lv, pos), NEW q \in Procs, lift[q].kept # null,
         NEW r, r = st[heard[q]]
  PROVE  /\ heard[q] \in Nat
         /\ Lifted(r)
         /\ Quiet(r)
         /\ lift[q].eig = r.eig[my_cone(q)] /\ lift[q].kept = r.kept[my_cone(q)]
<1>1. heard[q] \in 0..Len(told) /\ Story(st, lv, told) /\ SameLift(q, r, lift[q])
  BY DEF Holds, Hold, Place
<1>2. Len(told) \in Nat
  BY <1>1 DEF Story, IsList
<1>3. Lifted(r)
  BY <1>1, SameLiftIs DEF NoLift
<1>4. lift[q] = [eig |-> r.eig[my_cone(q)], kept |-> r.kept[my_cone(q)]]
  BY <1>1, <1>3, SameLiftIs
<1>5. Quiet(r)
  BY <1>1 DEF Story
<1> QED BY <1>1, <1>2, <1>3, <1>4, <1>5

\* The processes of a cone axis that all hold directions they kept hold those
\* of one lift.
OneLift(S, r) ==
  /\ Lifted(r)
  /\ Quiet(r)
  /\ \A q \in S : lift[q].eig = r.eig[my_cone(q)] /\ lift[q].kept = r.kept[my_cone(q)]

LEMMA LineAgrees ==
  ASSUME IsSetup(setup), NEW st, NEW lv, NEW pos, Holds(st, lv, pos), NEW p \in Procs,
         \A q \in Members("cone", p) : lift[q].kept # null
  PROVE  \E r : OneLift(Members("cone", p), r)
<1> DEFINE S == Members("cone", p)
<1>1. \A q \in S : q \in Procs /\ Members("cone", q) = S
  BY SameLine DEF Members
<1>2. \A q \in S : heard[q] \in Nat
  BY <1>1, LiftedAt
<1>3. p \in S
  BY DEF Members
<1> HIDE DEF S
<1>4. PICK q \in S : \A s \in S : heard[q] <= heard[s]
  BY <1>2, <1>3, Least
<1> DEFINE k == heard[q]
           r == st[k]
<1>5. Lifted(r) /\ Quiet(r)
  BY <1>1, LiftedAt DEF S
<1>6. ASSUME NEW s \in S
      PROVE  st[heard[s]].eig = r.eig /\ st[heard[s]].kept = r.kept
  <2>1. s \in Members("cone", q) /\ q \in Procs /\ Lifted(st[heard[s]])
    BY <1>1, LiftedAt DEF S
  <2>2. k \in Nat /\ heard[s] \in Nat /\ k <= heard[s]
    BY <1>2, <1>4
  <2>3. r.pc # "terminate" \/ heard[s] = k
    BY <2>1, <2>2, NotPast
  <2>4. CASE heard[s] > k
    <3>1. r.pc = "weigh"
      BY <1>5, <2>2, <2>3, <2>4 DEF Lifted
    <3>2. Story(st, lv, told) /\ heard[s] \in 0..Len(told)
      BY <1>1 DEF S, Holds, Hold
    <3>3. Len(told) \in Nat
      BY <3>2 DEF Story, IsList
    <3>4. k + 1 \in 1..Len(told) /\ (k + 1) - 1 = k
      BY <2>2, <2>4, <3>2, <3>3
    <3>5. Follows(st[(k + 1) - 1], st[k + 1], told[k + 1])
      BY <3>2, <3>4 DEF Story
    <3>6. PICK o : st[k + 1] = NextStage(r, o)
      BY <3>4, <3>5 DEF Follows
    <3>7. st[k + 1] = AfterWeigh(r, o)
      BY <3>1, <3>6 DEF NextStage
    <3>8. st[k + 1].pc = "terminate" /\ st[k + 1].eig = r.eig /\ st[k + 1].kept = r.kept
      BY <3>7 DEF AfterWeigh, To
    <3>9. heard[s] = k + 1
      <4>1. k + 1 \in Nat /\ heard[q] <= k + 1 /\ (heard[s] = k + 1 \/ k + 1 < heard[s])
        BY <2>2, <2>4
      <4> QED BY <2>1, <3>8, <4>1, NotPast
    <3> QED BY <3>8, <3>9
  <2> QED BY <2>2, <2>4
<1>7. \A s \in S : lift[s].eig = r.eig[my_cone(s)] /\ lift[s].kept = r.kept[my_cone(s)]
  <2> TAKE s \in S
  <2>1. lift[s].eig = st[heard[s]].eig[my_cone(s)] /\ lift[s].kept = st[heard[s]].kept[my_cone(s)]
    BY <1>1, LiftedAt DEF S
  <2> QED BY <1>6, <2>1
<1> QED BY <1>5, <1>7 DEF S, OneLift

\* The processes of a cone axis, what they found and what they kept of it.
FoundOn(S) == [q \in S |-> lift[q].eig]
KeptOn(S) == [q \in S |-> lift[q].kept]
ConeOf(S) == [q \in S |-> my_cone(q) + 1]

\* The lift is what the selection makes of the directions of all the cones.
LEMMA LineSelects ==
  ASSUME IsSetup(setup), NEW p \in Procs, NEW S, S = Members("cone", p), NEW r, OneLift(S, r),
         NEW n, n = setup.dims[3]
  PROVE  /\ n \in Nat
         /\ StrengthParts(r) \in [1..n -> Seq(Int)]
         /\ Side(per_cone_cap, n, S, ConeOf(S), FoundOn(S), StrengthParts(r))
         /\ SelectedOn(per_cone_cap, global_cap, S, ConeOf(S), FoundOn(S), StrengthParts(r), KeptOn(S))
<1> DEFINE parts == StrengthParts(r)
<1>1. /\ n \in Nat
      /\ \A c \in 1..n : c - 1 \in Cones
      /\ \A c \in Cones : c \in All(3) /\ c + 1 \in 1..n /\ (c + 1) - 1 = c
  BY SetupDims DEF Cones, All
<1>2. \A q \in S : q \in Procs /\ my_cone(q) \in Cones /\ my_cone(q) = coords(q)[3]
  BY OwnCone DEF Members
<1>3. \A c \in Cones : Found(r.eig[c])
  <2> TAKE c \in Cones
  <2>1. IsFound(r.eig[c], c)
    BY DEF OneLift, Quiet
  <2>2. Len(BlockDims(c)) \in Nat /\ Blocks(c) = 1..Len(BlockDims(c))
    BY BlocksOf
  <2> QED BY <2>1, <2>2 DEF IsFound, Found
<1>4. \A c \in Cones : parts[c + 1] = ValuesOf(per_cone_cap, r.eig[c])
  <2> TAKE c \in Cones
  <2>1. parts[c + 1] = Strengths(r.eig[(c + 1) - 1])
    BY <1>1 DEF StrengthParts
  <2> QED BY <1>1, <2>1, SelectsAre
<1>5. per_cone_cap \in Nat
  BY CapsAssumption
<1>6. parts \in [1..n -> Seq(Int)]
  <2>1. \A c \in Cones : ValuesOf(per_cone_cap, r.eig[c]) \in Seq(Int)
    <3> TAKE c \in Cones
    <3>1. Lists(per_cone_cap, r.eig[c])
      BY <1>3, <1>5, ListingIs
    <3> QED BY <3>1 DEF Lists
  <2>2. \A c \in 1..n : Strengths(r.eig[c - 1]) \in Seq(Int)
    BY <1>1, <2>1, SelectsAre
  <2> QED BY <2>2 DEF StrengthParts
<1>7. \A q \in S : /\ FoundOn(S)[q] = r.eig[my_cone(q)]
                   /\ KeptOn(S)[q] = r.kept[my_cone(q)]
                   /\ ConeOf(S)[q] = my_cone(q) + 1
  BY DEF OneLift, FoundOn, KeptOn, ConeOf
<1>8. ASSUME NEW q \in S, NEW s \in S, my_cone(q) = my_cone(s) PROVE q = s
  <2>1. q \in Procs /\ s \in Procs
    BY <1>2
  <2>2. \A a \in (1..3) \ {3} : coords(q)[a] = coords(s)[a]
    BY AxisValues DEF Members
  <2>3. coords(q)[3] = coords(s)[3]
    BY <1>2, <1>8
  <2>4. \A a \in 1..3 : coords(q)[a] = coords(s)[a]
    BY <2>2, <2>3
  <2> QED BY <2>1, <2>4, CoordsOnce
<1>9. \A c \in Cones : \E q \in S : my_cone(q) = c
  <2> DEFINE D == {3}
  <2>1. \A c \in All(3) : \E q \in Cube(p, D) : coords(q)[3] = c
    <3>1. D = {3} /\ 3 \in 1..3
      OBVIOUS
    <3> HIDE DEF D
    <3> QED BY <3>1, OverAxis
  <2>2. S = Cube(p, D)
    BY LineIsCube, AxisValues
  <2> HIDE DEF D
  <2> QED BY <1>1, <1>2, <2>1, <2>2
<1>10. Side(per_cone_cap, n, S, ConeOf(S), FoundOn(S), parts)
  <2>1. ConeOf(S) \in [S -> 1..n]
    BY <1>1, <1>2 DEF ConeOf
  <2>2. \A q, s \in S : ConeOf(S)[q] = ConeOf(S)[s] => q = s
    <3> TAKE q, s \in S
    <3>1. my_cone(q) \in Int /\ my_cone(s) \in Int
      BY <1>2 DEF Cones
    <3> QED BY <1>7, <1>8, <3>1
  <2>3. \A c \in 1..n : \E q \in S : ConeOf(S)[q] = c
    <3> TAKE c \in 1..n
    <3>1. PICK q \in S : my_cone(q) = c - 1
      BY <1>1, <1>9
    <3> QED BY <1>7, <3>1
  <2>4. \A q \in S : Found(FoundOn(S)[q]) /\ parts[ConeOf(S)[q]] = ValuesOf(per_cone_cap, FoundOn(S)[q])
    BY <1>2, <1>3, <1>4, <1>7
  <2> HIDE DEF parts
  <2> QED BY <2>1, <2>2, <2>3, <2>4 DEF Side
<1>11. SelectedOn(per_cone_cap, global_cap, S, ConeOf(S), FoundOn(S), parts, KeptOn(S))
  <2>1. ASSUME NEW q \in S
        PROVE  KeptOn(S)[q] = Selection(per_cone_cap, global_cap, FoundOn(S)[q], parts, ConeOf(S)[q] - 1)
    <3> DEFINE c == my_cone(q)
    <3>1. c \in Cones /\ ConeOf(S)[q] - 1 = c
      BY <1>1, <1>2, <1>7
    <3>2. r.kept = KeptAfter(r)
      BY DEF OneLift, Quiet
    <3>3. r.kept[c] = select_strongest_directions(r.eig[c], parts, c)
      BY <3>1, <3>2 DEF KeptAfter
    <3>4. r.kept[c] = Selection(per_cone_cap, global_cap, r.eig[c], parts, c)
      BY <3>3, SelectsAre
    <3> HIDE DEF parts
    <3> QED BY <1>7, <3>1, <3>4
  <2> HIDE DEF parts
  <2> QED BY <2>1 DEF SelectedOn
<1> QED BY <1>1, <1>6, <1>10, <1>11

LEMMA InvLift ==
  ASSUME LockStepInv
  PROVE  LiftIsJoint
<1>1. IsSetup(setup)
  BY InvHolds
<1>2. PICK st, lv, pos : Holds(st, lv, pos)
  BY InvHolds
<1>3. SUFFICES ASSUME NEW p \in Procs, \A q \in Members("cone", p) : lift[q].kept # null
      PROVE
        LET line == Members("cone", p)
            directions == UNION {UNION {{<<q, b, d>> : d \in DOMAIN lift[q].eig[b]} :
                                          b \in DOMAIN lift[q].eig} : q \in line}
            eigenvalue(t) == lift[t[1]].eig[t[2]][t[3]]
            before(s, t) == \/ eigenvalue(s) < eigenvalue(t)
                            \/ eigenvalue(s) = eigenvalue(t) /\ s[3] < t[3]
            candidates == {t \in directions :
              Cardinality({s \in directions : SubSeq(s, 1, 2) = SubSeq(t, 1, 2) /\ before(s, t)})
                < per_cone_cap}
            kept == {t \in directions : t[3] \in ToSet(lift[t[1]].kept[t[2]])}
        IN  /\ kept \subseteq candidates
            /\ Cardinality(kept) = Min({global_cap, Cardinality(candidates)})
            /\ \A t \in kept, s \in candidates \ kept : eigenvalue(t) <= eigenvalue(s)
            /\ At(p, "weigh") =>
                 LET parts == Parts(p, "variables")
                     start == Displacement(parts, my_cone(p))
                 IN  SubSeq(FlattenSeq(parts), start + 1, start + Len(OwnVariables(p)))
                       = OwnVariables(p)
  BY DEF LiftIsJoint
<1> DEFINE line == Members("cone", p)
           directions == UNION {UNION {{<<q, b, d>> : d \in DOMAIN lift[q].eig[b]} :
                                         b \in DOMAIN lift[q].eig} : q \in line}
           eigenvalue(t) == lift[t[1]].eig[t[2]][t[3]]
           before(s, t) == \/ eigenvalue(s) < eigenvalue(t)
                           \/ eigenvalue(s) = eigenvalue(t) /\ s[3] < t[3]
           ahead(t) == {s \in directions : SubSeq(s, 1, 2) = SubSeq(t, 1, 2) /\ before(s, t)}
           candidates == {t \in directions : Cardinality(ahead(t)) < per_cone_cap}
           kept == {t \in directions : t[3] \in ToSet(lift[t[1]].kept[t[2]])}
           found == FoundOn(line)
           chosen == KeptOn(line)
<1>4. \A q \in line : found[q] = lift[q].eig /\ chosen[q] = lift[q].kept
  BY DEF FoundOn, KeptOn
<1>5. directions = Directions(line, found)
  <2> HIDE DEF line, found
  <2> QED BY <1>4 DEF Directions
<1>6. \A t \in directions : t[1] \in line
  <2> HIDE DEF found, line
  <2> QED BY <1>5, DirectionsAre
<1>7. \A t \in directions : eigenvalue(t) = Eigenvalue(found, t)
  <2> HIDE DEF directions, found, line
  <2> QED BY <1>4, <1>6 DEF Eigenvalue
<1>8. \A t \in directions : ahead(t) = Ahead(line, found, t)
  <2> HIDE DEF directions, found, line, eigenvalue
  <2> QED BY <1>5, <1>7 DEF Ahead, OneBlock, Weaker
<1>9. candidates = FirstInBlock(per_cone_cap, line, found)
  <2> HIDE DEF directions, found, line, ahead
  <2> QED BY <1>5, <1>8 DEF FirstInBlock
<1>10. kept = KeptOf(line, found, chosen)
  <2> HIDE DEF directions, found, line, chosen
  <2> QED BY <1>4, <1>5, <1>6 DEF KeptOf
<1>11. PICK r : OneLift(line, r)
  BY <1>1, <1>2, <1>3, LineAgrees
<1> DEFINE n == setup.dims[3]
           strengths == StrengthParts(r)
           cone == ConeOf(line)
<1>12. /\ n \in Nat
       /\ strengths \in [1..n -> Seq(Int)]
       /\ Side(per_cone_cap, n, line, cone, found, strengths)
       /\ SelectedOn(per_cone_cap, global_cap, line, cone, found, strengths, chosen)
  BY <1>1, <1>11, LineSelects
<1>13. per_cone_cap \in Nat /\ global_cap \in Nat
  BY CapsAssumption
<1>14. /\ KeptOf(line, found, chosen) \subseteq FirstInBlock(per_cone_cap, line, found)
       /\ Cardinality(KeptOf(line, found, chosen))
            = Min({global_cap, Cardinality(FirstInBlock(per_cone_cap, line, found))})
       /\ \A t \in KeptOf(line, found, chosen),
             s \in FirstInBlock(per_cone_cap, line, found) \ KeptOf(line, found, chosen) :
            Eigenvalue(found, t) <= Eigenvalue(found, s)
  <2> HIDE DEF line, found, chosen, n, strengths, cone
  <2> QED BY <1>12, <1>13, JointlyKept
<1>15. \A t \in kept, s \in candidates \ kept : eigenvalue(t) <= eigenvalue(s)
  <2>1. kept \subseteq directions /\ candidates \subseteq directions
    OBVIOUS
  <2> HIDE DEF kept, candidates, directions, eigenvalue, line, found, chosen
  <2> QED BY <1>7, <1>9, <1>10, <1>14, <2>1
<1>16. ASSUME At(p, "weigh")
       PROVE  LET parts == Parts(p, "variables")
                  start == Displacement(parts, my_cone(p))
              IN  SubSeq(FlattenSeq(parts), start + 1, start + Len(OwnVariables(p)))
                    = OwnVariables(p)
  <2> DEFINE parts == Parts(p, "variables")
             c == my_cone(p)
             own == OwnVariables(p)
  <2>1. PICK e : Stands(p, e, st, lv, pos)
    BY <1>2, <1>16, StandsAt DEF At
  <2>2. e.pc = "weigh" /\ StageOK(e)
    BY <1>16, <2>1, AtStage DEF At
  <2>3. parts = VariableParts(e) /\ own = VariablesOf(e, c)
    BY <1>1, <2>1, <2>2, WeighParts
  <2>4. c + 1 \in 1..n /\ (c + 1) - 1 = c /\ n \in Nat /\ \A d \in 1..n : d - 1 \in Cones
    BY <1>1, OwnCone, SetupDims DEF Cones, All
  <2>5. EachList(n, parts)
    <3>1. ASSUME NEW d \in 1..n PROVE \E A : parts[d] \in Seq(A)
      <4>1. parts[d] = Variables(d - 1, e.kept[d - 1], setup.mode)
        BY <2>3 DEF VariableParts, VariablesOf
      <4>2. d - 1 \in Cones /\ IsKept(e.kept[d - 1], d - 1)
        BY <2>2, <2>4 DEF StageOK
      <4>3. \E A : Variables(d - 1, e.kept[d - 1], setup.mode) \in Seq(A)
        BY <1>1, <4>2, VariablesAre
      <4> QED BY <4>1, <4>3
    <3>2. parts = [d \in 1..n |-> parts[d]]
      BY <2>3 DEF VariableParts
    <3> HIDE DEF parts
    <3> QED BY <3>1, <3>2 DEF EachList
  <2>6. own = parts[c + 1]
    BY <2>3, <2>4 DEF VariableParts
  <2> DEFINE start == StartOf(parts, (c + 1) - 1)
  <2>7. SubSeq(FlattenSeq(parts), start + 1, start + Len(own)) = own
    <3> HIDE DEF parts, own, c, n
    <3> QED BY <2>4, <2>5, <2>6, PartStarts
  <2>8. Displacement(parts, c) = start
    <3>1. Displacement(parts, c) = StartOf(parts, c)
      BY SelectsAre
    <3> HIDE DEF parts, c
    <3> QED BY <2>4, <3>1
  <2> HIDE DEF parts, c, own, start
  <2> QED BY <2>7, <2>8 DEF parts, c, own
<1> HIDE DEF eigenvalue, found, chosen
<1> QED BY <1>9, <1>10, <1>14, <1>15, <1>16 DEF eigenvalue

-----------------------------------------------------------------------------
(* The theorems.                                                           *)

\* The invariant holds in every run whose processes decide alike: the
\* processes of a solve go through the stages of one story, apart by no more
\* than the calls allow, and each has in its numbers the sums of the calls it
\* has made (run_alm_outer_loop and what it calls).
THEOREM LockStepInvariant ==
  ASSUME \A s \in Setups : DecideAlike(s)
  PROVE  Spec => []LockStepInv
<1>1. Init => LockStepInv
  BY InvInit
<1>2. LockStepInv /\ [Next]_vars => LockStepInv'
  BY InvStep
<1> QED BY <1>1, <1>2, PTL DEF Spec

\* Until all the processes have left run_alm_outer_loop one of them can go on:
\* no NCCL or MPI call of the loop is waited for by processes that are in
\* different ones.
THEOREM NoDeadlock ==
  ASSUME \A s \in Setups : DecideAlike(s)
  PROVE  Spec => []SomeoneMoves
<1>1. LockStepInv => SomeoneMoves
  BY InvMoves
<1> QED BY <1>1, LockStepInvariant, PTL

\* Processes that meet in a call of run_alm_outer_loop are in the same
\* iterations of it, and those that sum over the rows hold factors of the same
\* ranks.
THEOREM CallsMatch ==
  ASSUME \A s \in Setups : DecideAlike(s)
  PROVE  Spec => []SameCall
<1>1. LockStepInv => SameCall
  BY InvSameCall
<1> QED BY <1>1, LockStepInvariant, PTL

\* Each branch of run_alm_outer_loop is decided on numbers summed over the whole
\* grid: every share of every cone and every row is in them once.
THEOREM NumbersWhole ==
  ASSUME \A s \in Setups : DecideAlike(s)
  PROVE  Spec => []EveryTermOnce
<1>1. LockStepInv => EveryTermOnce
  BY InvWhole
<1> QED BY <1>1, LockStepInvariant, PTL

\* The joint lift of the rank is one over all the cones: no process keeps a
\* direction weaker than one that another leaves out, and each takes its own
\* variables from the solution of the subproblem (solve_joint_rank_lift).
THEOREM JointLift ==
  ASSUME \A s \in Setups : DecideAlike(s)
  PROVE  Spec => []LiftIsJoint
<1>1. LockStepInv => LiftIsJoint
  BY InvLift
<1> QED BY <1>1, LockStepInvariant, PTL
=============================================================================
