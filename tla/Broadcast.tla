------------------------------ MODULE Broadcast ------------------------------
(***************************************************************************)
(* The buffer by which the root process hands its problem to the others    *)
(* (serialize_ and deserialize_compressed_sdp of                           *)
(* src/distribution_utils.cu): counts and arrays one after the other, read *)
(* back by a cursor that trusts the counts it has read.                    *)
(*                                                                         *)
(* The buffer is a sequence of words.  A number of a dense vector that may *)
(* be zero is <<>> or <<its magnitude>>.                                   *)
(***************************************************************************)
EXTENDS Compress

Dense(f, dom) == [i \in DOMAIN dom |-> IF dom[i] \in DOMAIN f THEN <<f[dom[i]]>> ELSE <<>>]
Flag(b) == IF b THEN 1 ELSE 0

\* Compressed rows: the entries in the order of rows and columns.
CsrOrder(p) ==
  Sorted(DOMAIN p.A,
         {q \in (DOMAIN p.A) \X (DOMAIN p.A) :
            \/ q[1][1] < q[2][1]
            \/ q[1][1] = q[2][1] /\ Position[q[1][2]] < Position[q[2][2]]})
row_ptr(p) == [r \in 1..(num_constraints + 1) |->
                 Cardinality({e \in DOMAIN p.A : e[1] < r})]
col_ind(p, e) == CHOOSE i \in DOMAIN col_mapping(p) : col_mapping(p)[i] = e[2]
LinearSeq(units) == ByPosition({<<u>> : u \in units})
SlotSeq(k) == [i \in 1..blk_dims[k] |-> <<k, i>>]
factor_ptr(p) == [j \in 1..(Len(p.L) + 1) |->
                    RunningSum([i \in DOMAIN p.L |-> blk_dims[p.L[i].cone]],
                               Len(p.L))[j - 1]]

LinearWords(f, units) ==
  <<Flag(units # {})>>
    \o (IF units # {} THEN Dense(f, LinearSeq(units)) ELSE <<>>)
CsrWords(p) ==
  LET order == CsrOrder(p)
  IN  <<1, num_constraints, Len(col_mapping(p)), Len(order)>> \o row_ptr(p)
        \o [i \in DOMAIN order |-> col_ind(p, order[i])]
        \o [i \in DOMAIN order |-> p.A[order[i]]]
ObjectiveWords(p) ==
  LET psd == ByPosition(DOMAIN p.c \intersect PsdVars)
  IN  <<1, Len(psd)>> \o [i \in DOMAIN psd |-> Position[psd[i]]]
        \o [i \in DOMAIN psd |-> p.c[psd[i]]]
LowRankWords(p) ==
  IF p.L = <<>> THEN <<0>>
  ELSE <<1, Len(p.L)>> \o [j \in DOMAIN p.L |-> p.L[j].row]
         \o [j \in DOMAIN p.L |-> p.L[j].cone] \o factor_ptr(p)
         \o [j \in DOMAIN p.L |-> p.L[j].w]
         \o FlattenSeq([j \in DOMAIN p.L |-> Dense(p.L[j].u, SlotSeq(p.L[j].cone))])

serialize_compressed_sdp(p) ==
  LET cols == col_mapping(p)
  IN  <<num_constraints, Len(blk_dims), Len(cols), total_n_orig>>
        \o [i \in DOMAIN cols |-> Position[cols[i]]] \o blk_dims \o blk_ptr
        \o [r \in Rows |-> p.b[r]]
        \o <<lp_dim, Len(cols) - lp_dim - free_dim>> \o LinearWords(p.c, LpUnits)
        \o <<free_dim, Len(cols) - free_dim>> \o LinearWords(p.c, FreeUnits)
        \o CsrWords(p) \o ObjectiveWords(p) \o LowRankWords(p)

-----------------------------------------------------------------------------
VarAt(pos) == CHOOSE v \in Vars : Position[v] = pos
Sparse(words, names) ==   \* the numbers of a dense vector that are not zero
  [v \in {names[i] : i \in {i \in DOMAIN words : words[i] # <<>>}} |->
     words[CHOOSE i \in DOMAIN words : names[i] = v][1]]

\* Each part is read where the one before it ended; `at` words are read, and
\* a linear objective is there if its flag says so.
ReadLinear(w, at, units) ==
  IF w[at + 1] = 1
  THEN [f |-> Sparse(SubSeq(w, at + 2, at + 1 + w[at - 1]), LinearSeq(units)),
        end |-> at + 1 + w[at - 1]]
  ELSE [f |-> <<>>, end |-> at + 1]
ReadCsr(w, at, names) ==
  LET rows == w[at + 2]
      nnz == w[at + 4]
      ptr(r) == w[at + 4 + r]
      col(i) == w[at + 5 + rows + i]
      rowOf(i) == CHOOSE r \in 1..rows : ptr(r) < i /\ i <= ptr(r + 1)
  IN  [A |-> [q \in {<<rowOf(i), names[col(i)]>> : i \in 1..nnz} |->
                w[at + 5 + rows + nnz
                    + CHOOSE i \in 1..nnz : q = <<rowOf(i), names[col(i)]>>]],
       end |-> at + 5 + rows + 2 * nnz]
ReadObjective(w, at) ==
  LET len == w[at + 2]
      pos(i) == VarAt(w[at + 2 + i])
  IN  [c |-> [v \in {pos(i) : i \in 1..len} |->
                w[at + 2 + len + CHOOSE i \in 1..len : pos(i) = v]],
       end |-> at + 2 + 2 * len]
ReadLowRank(w, at) ==
  LET k == w[at + 2]
      ptr(j) == w[at + 2 + 2 * k + j]
      values == at + 3 + 4 * k
  IN  IF w[at + 1] = 0 THEN <<>>
      ELSE [j \in 1..k |->
              [row |-> w[at + 2 + j],
               cone |-> w[at + 2 + k + j],
               w |-> w[at + 3 + 3 * k + j],
               u |-> Sparse(SubSeq(w, values + ptr(j) + 1, values + ptr(j + 1)),
                            SlotSeq(w[at + 2 + k + j]))]]

deserialize_compressed_sdp(w) ==
  LET m == w[1]
      rhs == 4 + w[3] + w[2] + w[2] + 1
      lp == ReadLinear(w, rhs + m + 2, LpUnits)
      free == ReadLinear(w, lp.end + 2, FreeUnits)
      csr == ReadCsr(w, free.end, [i \in 1..w[3] |-> VarAt(w[4 + i])])
      obj == ReadObjective(w, csr.end)
      c(v) == CASE v \in DOMAIN lp.f -> lp.f[v]
                [] v \in DOMAIN free.f -> free.f[v]
                [] OTHER -> obj.c[v]
  IN  [A |-> csr.A,
       b |-> SubSeq(w, rhs + 1, rhs + m),
       c |-> [v \in DOMAIN lp.f \union DOMAIN free.f \union DOMAIN obj.c |-> c(v)],
       L |-> ReadLowRank(w, obj.end)]
=============================================================================
