------------------------------ MODULE Compress ------------------------------
(***************************************************************************)
(* convert_to_compressed (src/utils.cu): the entries a reader produced,    *)
(* one triangle of each matrix, become the matrix over the active          *)
(* variables; col_mapping lists these in the order of their positions.     *)
(***************************************************************************)
EXTENDS Scaling, FiniteSetsExt, SequencesExt, Layout

\* Cone k holds the positions blk_ptr[k] .. blk_ptr[k + 1] - 1 by columns;
\* the LP and then the free variables follow the last cone.
blk_ptr == [k \in 1..(Len(blk_dims) + 1) |->
              RunningSum([j \in Cones |-> blk_dims[j] * blk_dims[j]], Len(blk_dims))[k - 1]]
total_n_orig == blk_ptr[Len(blk_dims) + 1]
Position ==
  [v \in Vars |->
     IF v \in PsdVars
     THEN blk_ptr[v[1][1]] + (v[2][2] - 1) * blk_dims[v[1][1]] + v[1][2] - 1
     ELSE total_n_orig + v[1][2] - 1 + IF v[1] \in FreeUnits THEN lp_dim ELSE 0]

ByPosition(vs) == Sorted(vs, {q \in vs \X vs : Position[q[1]] < Position[q[2]]})

\* What a reader produces: the entries lie in one cone or name one linear
\* variable, and so do those of a low-rank column, which has some (a column
\* of zeros adds nothing: it is absent, like any datum that is zero).
InputEntry(rows) == [row : rows, i : Units, j : Units, val : Int]
IsInputColumn(col) ==
  /\ col \in [row : Rows \union {objective}, cone : Cones, w : Int,
             u : [DOMAIN col.u -> Int]]
  /\ DOMAIN col.u # {} /\ DOMAIN col.u \subseteq ConeSlots(col.cone)
IsInput(input) ==
  /\ input.constraints \in Seq(InputEntry(Rows))
  /\ input.objective \in Seq(InputEntry({objective}))
  /\ \A e \in ToSet(input.constraints) \union ToSet(input.objective) :
       IF e.i \in Slots THEN e.j \in ConeSlots(e.i[1]) ELSE e.j = e.i
  /\ input.b \in [Rows -> Int]
  /\ input.L \in Seq(ToSet(input.L))
  /\ \A col \in ToSet(input.L) : IsInputColumn(col)

\* An input entry stands for itself and its mirror image; an entry of a
\* linear variable names its unit in both places.
Images(e) == IF e.i \in Slots THEN {<<e.i, e.j>>, <<e.j, e.i>>} ELSE {<<e.i>>}

\* Entries of the same place are added.
Merged(entries, place(_, _)) ==
  LET places == UNION {{place(e, v) : v \in Images(e)} : e \in ToSet(entries)}
      values(q) == {e.val : e \in {e \in ToSet(entries) :
                                     \E v \in Images(e) : place(e, v) = q}}
  IN  [q \in places |-> Largest(values(q))]

convert_to_compressed(input) ==
  [A |-> Merged(input.constraints, LAMBDA e, v : <<e.row, v>>),
   b |-> input.b,
   c |-> Merged(input.objective, LAMBDA e, v : v),
   L |-> input.L]

\* col_mapping.  Linear variables are active whether they occur or not, and
\* a problem with nothing but low-rank columns gets one column, for the
\* sparse library.  A column that only the objective has is not active.
ActiveVars(p) ==
  LET psd == {e[2] : e \in DOMAIN p.A} \intersect PsdVars
  IN  IF psd \union LinearVars = {} /\ p.L # <<>>
      THEN {<<<<1, 1>>, <<1, 1>>>>}
      ELSE psd \union LinearVars
col_mapping(p) == ByPosition(ActiveVars(p))
=============================================================================
