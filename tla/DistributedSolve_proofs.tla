------------------------ MODULE DistributedSolve_proofs ------------------------
(***************************************************************************)
(* Safety of the distributed solve, for every grid, problem, order of the  *)
(* constraints and interleaving of the processes.                          *)
(***************************************************************************)
EXTENDS DistributedSolve, Problem_proofs

LEMMA GridShape ==
  ASSUME NEW grid, grid = null \/ grid \in Nat \X Nat \X Nat, ~WrongGrid(grid)
  PROVE  IsDims(Dims(grid))
<1>1. world_size \in Nat \ {0}
  BY WorldAssumption
<1>2. CASE grid = null
  <2>1. world_size * 1 * 1 = world_size
    BY <1>1
  <2> QED BY <1>1, <1>2, <2>1 DEF Dims, IsDims
<1>3. CASE grid # null
  <2> DEFINE a == grid[1]
             b == grid[2]
             c == IF grid[3] > 0 THEN grid[3] ELSE 1
  <2>1. a \in Nat /\ b \in Nat /\ c \in Nat /\ a * b * c = world_size
    BY <1>3 DEF WrongGrid
  <2>2. Dims(grid) = <<a, b, c>>
    BY <1>3 DEF Dims
  <2> HIDE DEF a, b, c
  <2>3. a # 0 /\ b # 0 /\ c # 0
    <3>1. a = 0 => a * b * c = 0
      BY <2>1
    <3>2. b = 0 => a * b * c = 0
      BY <2>1
    <3>3. c = 0 => a * b * c = 0
      BY <2>1
    <3> QED BY <1>1, <2>1, <3>1, <3>2, <3>3
  <2> QED BY <2>1, <2>2, <2>3 DEF IsDims
<1> QED BY <1>2, <1>3

-----------------------------------------------------------------------------
(* The inductive invariant.  What a process has is a function of the call  *)
(* and of where the process is, except for the words on their way.         *)

Unplaced == {"start", "aborted"}
Copying == Unplaced \union {"grid", "serialize", "barrier", "bcast", "permute"}
Preparing == {"row_norms", "cone_norms", "objective"}
Returned == {"nonzeros", "ranks", "collect", "gather", "done"}
Solved == {"solved"} \union Returned
Taken == Preparing \union {"solve"} \union Solved

CallersWords == serialize_compressed_sdp(Caller)
Permuted == IF call.order = null THEN Caller
            ELSE permute_global_problem_constraints(Caller, call.order)
Coordinates(p) == Coords(Dims(call.grid), p)
ScaledCopy == Rescaled(call.settings, Permuted)
OwnedBy(p) == Part(ScaledCopy.problem, Dims(call.grid), Coordinates(p))
PartOf(p) == partition_problem(ScaledCopy.problem, OwnedBy(p), Coordinates(p))
Whole(p) == [part |-> PartOf(p), start |-> OwnedBy(p).start,
             info |-> partition_rescale_info(ScaledCopy.info, OwnedBy(p))]
InitialState(p) ==
  InitialRanks(Permuted, PartOf(p), RankShare(Dims(call.grid)[2], Coordinates(p)[2]))
DualOf(p) == [r \in 1..PartOf(p).m |->
                Multiplier(CallersRow(call.order, r + OwnedBy(p).start))]

CallInv ==
  \E c \in Calls :
    /\ call = [input |-> c.input, grid |-> c.grid, settings |-> c.settings,
               order |-> call.order]
    /\ call.order \in Orders(c.shuffle, Caller)
GridInv ==
  /\ pc \in [Procs -> Labels]
  /\ dims = [p \in Procs |-> IF pc[p] \in Unplaced THEN null ELSE Dims(call.grid)]
  /\ \A p \in Procs : pc[p] \notin Unplaced => ~WrongGrid(call.grid)
\* The root's buffer is whole; what was sent of it, and what the others have
\* of that, are its first words.
WordsInv ==
  /\ DOMAIN buffer = Procs
  /\ pc[root] \in {"barrier", "bcast", "permute"} => buffer[root] = CallersWords
  /\ Len(sent.words) \in 0..Len(CallersWords)
  /\ sent.words = SubSeq(CallersWords, 1, Len(sent.words))
  /\ Len(sent.words) # 0 => sent.total = Len(CallersWords)
  /\ \A p \in Procs \ {root} : pc[p] \in Copying =>
       /\ Len(buffer[p]) \in 0..Len(sent.words)
       /\ buffer[p] = SubSeq(CallersWords, 1, Len(buffer[p]))
       /\ pc[p] = "permute" => Len(buffer[p]) = Len(CallersWords)
CopyInv ==
  /\ problem = [p \in Procs |-> IF pc[p] \notin Copying THEN Permuted
                                ELSE IF p = root THEN Caller ELSE null]
  /\ perm = [p \in Procs |-> IF pc[p] \in Copying THEN null ELSE call.order]
LocalInv ==
  /\ local = [p \in Procs |->
       IF pc[p] \notin Taken THEN null
       ELSE IF pc[p] \in Preparing \/ Coordinates(p)[1] = 0 THEN Whole(p)
       ELSE [Whole(p) EXCEPT !.part.c = <<>>]]
  /\ DOMAIN norms = Procs
  /\ DOMAIN state = Procs
  /\ \A p \in Procs : pc[p] \in Taken =>
       /\ DOMAIN norms[p] = {"b", "c"}
       /\ pc[p] \notin Solved => state[p] = [rank_list |-> InitialState(p)]
       /\ pc[p] \in Solved => /\ DOMAIN state[p] = {"rank_list", "R", "x", "dual"}
                              /\ state[p].dual = DualOf(p)
ResultInv ==
  /\ DOMAIN result = Procs
  /\ \A p \in Procs :
       IF pc[p] \notin Returned THEN result[p] = null
       ELSE /\ {"dual", "nnz", "rank", "R2", "x", "rank_list"} \subseteq DOMAIN result[p]
            /\ result[p].dual # null => p = root
IInv == CallInv /\ GridInv /\ WordsInv /\ CopyInv /\ LocalInv /\ ResultInv


LEMMA Going ==
  ASSUME NEW S, NEW l \in Labels, pc \in [Procs -> Labels], Go(S, l)
  PROVE  /\ pc' \in [Procs -> Labels]
         /\ \A p \in Procs : pc'[p] = IF p \in S THEN l ELSE pc[p]
BY DEF Go

LEMMA InitIInv == Init => IInv
<1> SUFFICES ASSUME Init PROVE IInv
  OBVIOUS
<1>1. PICK c \in Calls : \E order \in Orders(c.shuffle, convert_to_compressed(c.input)) :
        /\ call = [input |-> c.input, grid |-> c.grid,
                   settings |-> c.settings, order |-> order]
        /\ problem = [q \in Procs |-> IF q = root THEN convert_to_compressed(c.input) ELSE null]
  BY DEF Init
<1>2. PICK order \in Orders(c.shuffle, convert_to_compressed(c.input)) :
        /\ call = [input |-> c.input, grid |-> c.grid,
                   settings |-> c.settings, order |-> order]
        /\ problem = [q \in Procs |-> IF q = root THEN convert_to_compressed(c.input) ELSE null]
  BY <1>1
<1>3. Caller = convert_to_compressed(c.input) /\ order = call.order
  BY <1>2 DEF Caller
<1>4. CallInv
  BY <1>2, <1>3 DEF CallInv
<1>5. pc = [p \in Procs |-> "start"]
  BY DEF Init
<1>6. root \in Procs
  BY WorldAssumption DEF root, Procs
<1>7. GridInv
  BY <1>5 DEF Init, GridInv, Labels, Unplaced
<1>8. WordsInv
  <2>1. Caller = convert_to_compressed(c.input) /\ IsInput(c.input)
    BY <1>3, CallsAssumption
  <2>2. CallersWords \in Seq(Word)
    BY <2>1, Compressed, RoundTrip DEF CallersWords
  <2>3. Len(CallersWords) \in Nat /\ SubSeq(CallersWords, 1, 0) = <<>>
    BY <2>2
  <2> QED BY <1>5, <1>6, <2>3 DEF Init, WordsInv, null
<1>9. CopyInv
  BY <1>2, <1>3, <1>5 DEF Init, CopyInv, Copying, Unplaced
<1>10. LocalInv
  BY <1>5 DEF Init, LocalInv, Taken, Preparing, Solved, Returned
<1>11. ResultInv
  BY <1>5 DEF Init, ResultInv, Returned
<1> QED BY <1>4, <1>7, <1>8, <1>9, <1>10, <1>11 DEF IInv


\* The collective steps of all the processes.
Collective == InitializeContext \/ Barrier \/ Solve \/ CollectDual

LEMMA StepCases ==
  ASSUME [Next]_vars
  PROVE  \/ \E p \in Procs : Step(p)
         \/ Collective
         \/ UNCHANGED vars
BY DEF Next, Finished, Collective

LEMMA CallStep ==
  ASSUME [Next]_vars
  PROVE  call' = call
<1>1. ASSUME NEW p \in Procs, Step(p) PROVE call' = call
  BY <1>1 DEF Step, SelectGrid, Abort, Serialize, SendChunk, ReceiveChunk, Permute, Take,
     RowNorms, ConeNorms, ZeroObjective, CreateResult, CountNonzeros, CountRanks,
     NotGathered, DropReplica, GatherFactor
<1>2. CASE Collective
  BY <1>2 DEF Collective, InitializeContext, Barrier, Solve, CollectDual
<1>3. CASE UNCHANGED vars
  BY <1>3 DEF vars
<1> QED BY <1>1, <1>2, <1>3, StepCases

LEMMA CallInvStep ==
  ASSUME CallInv, [Next]_vars
  PROVE  CallInv'
BY CallStep DEF CallInv, Caller

\* The processes of a communicator are all processes' or some.
LEMMA CommMembers ==
  ASSUME NEW p \in Procs
  PROVE  /\ Comm(row_color, p) \subseteq Procs /\ p \in Comm(row_color, p)
         /\ Comm(rank_color, p) \subseteq Procs /\ p \in Comm(rank_color, p)
         /\ Comm(cone_color, p) \subseteq Procs /\ p \in Comm(cone_color, p)
BY DEF Comm

\* Where the steps lead that leave the grid chosen.
Moved(from, to) ==
  /\ pc' \in [Procs -> Labels]
  /\ \A p \in Procs : pc'[p] = pc[p] \/ (pc[p] \in from /\ pc'[p] = to)

LEMMA Moves ==
  ASSUME GridInv, [Next]_vars
  PROVE  \/ \E p \in Procs : SelectGrid(p) \/ Abort(p)
         \/ /\ UNCHANGED dims
            /\ \/ Moved({"grid"}, "serialize") /\ InitializeContext
               \/ Moved({"serialize"}, "barrier") /\ \E p \in Procs : Serialize(p)
               \/ Moved({"barrier"}, "bcast")
               \/ Moved({"bcast"}, "permute") /\ \E p \in Procs : SendChunk(p) \/ ReceiveChunk(p)
               \/ Moved({"permute"}, "partition") /\ \E p \in Procs : Permute(p)
               \/ Moved({"partition"}, "row_norms") /\ \E p \in Procs : Take(p)
               \/ Moved({"row_norms"}, "cone_norms") /\ \E p \in Procs : RowNorms(p)
               \/ Moved({"cone_norms"}, "objective") /\ \E p \in Procs : ConeNorms(p)
               \/ Moved({"objective"}, "solve") /\ \E p \in Procs : ZeroObjective(p)
               \/ Moved({"solve"}, "solved") /\ Solve
               \/ Moved({"solved"}, "nonzeros") /\ \E p \in Procs : CreateResult(p)
               \/ Moved({"nonzeros"}, "ranks") \/ Moved({"ranks"}, "collect")
               \/ Moved({"collect"}, "gather") /\ CollectDual
               \/ Moved({"gather"}, "done")
<1>1. pc \in [Procs -> Labels]
  BY DEF GridInv
<1>2. ASSUME NEW S, NEW from, NEW to \in Labels, Go(S, to), \A p \in S : pc[p] \in from
      PROVE  Moved(from, to)
  BY <1>1, <1>2, Going DEF Moved
<1>3. ASSUME NEW p \in Procs, NEW l, pc[p] = l PROVE \A q \in {p} : pc[q] \in {l}
  BY <1>3
<1>4. ASSUME NEW S, NEW l, At(S, l) PROVE \A q \in S : pc[q] \in {l}
  BY <1>4 DEF At
<1>5. ASSUME NEW from, UNCHANGED pc PROVE Moved(from, "done")
  BY <1>1, <1>5 DEF Moved
<1>6. ASSUME NEW from, UNCHANGED pc PROVE Moved(from, "permute")
  BY <1>1, <1>6 DEF Moved
<1>7. \A l \in {"grid", "serialize", "barrier", "bcast", "permute", "partition", "row_norms",
          "cone_norms", "objective", "solve", "solved", "nonzeros", "ranks", "collect",
          "gather", "done"} : l \in Labels
  BY DEF Labels
<1>8. ASSUME NEW p \in Procs, Step(p), ~SelectGrid(p), ~Abort(p)
      PROVE  /\ UNCHANGED dims
             /\ \/ Moved({"serialize"}, "barrier") /\ Serialize(p)
                \/ Moved({"bcast"}, "permute") /\ (SendChunk(p) \/ ReceiveChunk(p))
                \/ Moved({"permute"}, "partition") /\ Permute(p)
                \/ Moved({"partition"}, "row_norms") /\ Take(p)
                \/ Moved({"row_norms"}, "cone_norms") /\ RowNorms(p)
                \/ Moved({"cone_norms"}, "objective") /\ ConeNorms(p)
                \/ Moved({"objective"}, "solve") /\ ZeroObjective(p)
                \/ Moved({"solved"}, "nonzeros") /\ CreateResult(p)
                \/ Moved({"nonzeros"}, "ranks") \/ Moved({"ranks"}, "collect")
                \/ Moved({"gather"}, "done")
  <2>1. CASE Serialize(p)
    BY <1>2, <1>3, <1>7, <2>1 DEF Serialize
  <2>2. CASE SendChunk(p)
    BY <1>2, <1>3, <1>6, <1>7, <2>2 DEF SendChunk
  <2>3. CASE ReceiveChunk(p)
    BY <1>2, <1>3, <1>6, <1>7, <2>3 DEF ReceiveChunk
  <2>4. CASE Permute(p)
    BY <1>2, <1>3, <1>7, <2>4 DEF Permute
  <2>5. CASE Take(p)
    BY <1>2, <1>3, <1>7, <2>5 DEF Take
  <2>6. CASE RowNorms(p)
    BY <1>2, <1>4, <1>7, <2>6 DEF RowNorms
  <2>7. CASE ConeNorms(p)
    BY <1>2, <1>4, <1>7, <2>7 DEF ConeNorms
  <2>8. CASE ZeroObjective(p)
    BY <1>2, <1>3, <1>7, <2>8 DEF ZeroObjective
  <2>9. CASE CreateResult(p)
    BY <1>2, <1>3, <1>7, <2>9 DEF CreateResult
  <2>10. CASE CountNonzeros(p)
    BY <1>2, <1>4, <1>7, <2>10 DEF CountNonzeros
  <2>11. CASE CountRanks(p)
    BY <1>2, <1>4, <1>7, <2>11 DEF CountRanks
  <2>12. CASE NotGathered(p)
    BY <1>2, <1>3, <1>7, <2>12 DEF NotGathered
  <2>13. CASE DropReplica(p)
    BY <1>2, <1>3, <1>7, <2>13 DEF DropReplica
  <2>14. CASE GatherFactor(p)
    BY <1>2, <1>4, <1>7, <2>14 DEF GatherFactor
  <2> QED
    BY <1>8, <2>1, <2>2, <2>3, <2>4, <2>5, <2>6, <2>7, <2>8, <2>9, <2>10, <2>11, <2>12,
       <2>13, <2>14 DEF Step
<1>9. CASE Collective
  <2>1. CASE InitializeContext
    BY <1>2, <1>4, <1>7, <2>1 DEF InitializeContext
  <2>2. CASE Barrier
    BY <1>2, <1>4, <1>7, <2>2 DEF Barrier
  <2>3. CASE Solve
    BY <1>2, <1>4, <1>7, <2>3 DEF Solve
  <2>4. CASE CollectDual
    BY <1>2, <1>4, <1>7, <2>4 DEF CollectDual
  <2> QED BY <1>9, <2>1, <2>2, <2>3, <2>4 DEF Collective
<1>10. CASE UNCHANGED vars
  BY <1>5, <1>10 DEF vars
<1> QED BY <1>8, <1>9, <1>10, StepCases


LEMMA GridInvStep ==
  ASSUME GridInv, [Next]_vars
  PROVE  GridInv'
<1>1. call' = call
  BY CallStep
<1>2. CASE UNCHANGED dims /\ \E from, to : /\ Moved(from, to)
                                           /\ from \intersect Unplaced = {}
                                           /\ to \notin Unplaced
  <2>1. PICK from, to : Moved(from, to) /\ from \intersect Unplaced = {} /\ to \notin Unplaced
    BY <1>2
  <2>2. \A p \in Procs : (pc'[p] \in Unplaced) = (pc[p] \in Unplaced)
    BY <2>1 DEF Moved
  <2> QED BY <1>1, <1>2, <2>1, <2>2 DEF GridInv, Moved
<1>3. ASSUME NEW p \in Procs, SelectGrid(p) PROVE GridInv'
  <2>1. pc' \in [Procs -> Labels] /\ \A q \in Procs : pc'[q] = IF q \in {p} THEN "grid" ELSE pc[q]
    BY <1>3, Going DEF GridInv, SelectGrid, Labels
  <2>2. dims' = [dims EXCEPT ![p] = Dims(call.grid)] /\ ~WrongGrid(call.grid)
    BY <1>3 DEF SelectGrid
  <2> QED BY <1>1, <2>1, <2>2 DEF GridInv, Unplaced
<1>4. ASSUME NEW p \in Procs, Abort(p) PROVE GridInv'
  <2>1. pc' \in [Procs -> Labels] /\ \A q \in Procs : pc'[q] = "aborted"
    BY <1>4, Going DEF GridInv, Abort, Labels
  <2>2. \A q \in Procs : pc[q] \in Unplaced
    BY <1>4 DEF GridInv, Abort
  <2>3. dims' = dims
    BY <1>4 DEF Abort
  <2> QED BY <1>1, <2>1, <2>2, <2>3 DEF GridInv, Unplaced
<1> QED BY <1>2, <1>3, <1>4, Moves DEF Unplaced

\* No process enters or leaves a set of labels whose first and last labels
\* only the steps named here lead to and from.
LEMMA Placing ==
  ASSUME GridInv, NEW p \in Procs, SelectGrid(p) \/ Abort(p)
  PROVE  \A q \in Procs : pc'[q] = pc[q] \/ (pc[q] \in Unplaced /\ pc'[q] \in {"grid", "aborted"})
<1>1. CASE SelectGrid(p)
  <2>1. \A q \in Procs : pc'[q] = IF q \in {p} THEN "grid" ELSE pc[q]
    BY <1>1, Going DEF GridInv, SelectGrid, Labels
  <2> QED BY <1>1, <2>1 DEF SelectGrid, Unplaced
<1>2. CASE Abort(p)
  <2>1. \A q \in Procs : pc'[q] = "aborted"
    BY <1>2, Going DEF GridInv, Abort, Labels
  <2>2. \A q \in Procs : pc[q] \in Unplaced
    BY <1>2 DEF GridInv, Abort
  <2> QED BY <2>1, <2>2
<1> QED BY <1>1, <1>2

LEMMA Sides ==
  ASSUME GridInv, [Next]_vars, NEW q \in Procs
  PROVE  /\ ~(\E p \in Procs : Serialize(p)) => (pc'[q] = "barrier" => pc[q] = "barrier")
         /\ pc'[q] = "bcast" => pc[q] \in {"barrier", "bcast"}
         /\ ~(\E p \in Procs : SendChunk(p) \/ ReceiveChunk(p)) =>
              (pc'[q] = "permute" => pc[q] = "permute")
         /\ ~(\E p \in Procs : Permute(p)) => (pc'[q] \in Copying <=> pc[q] \in Copying)
         /\ ~(\E p \in Procs : Take(p)) => (pc'[q] \in Taken <=> pc[q] \in Taken)
         /\ ~(\E p \in Procs : Take(p) \/ ZeroObjective(p)) =>
              (pc'[q] \in Preparing <=> pc[q] \in Preparing)
         /\ ~Solve => (pc'[q] \in Solved <=> pc[q] \in Solved)
         /\ ~(\E p \in Procs : CreateResult(p)) => (pc'[q] \in Returned <=> pc[q] \in Returned)
<1>1. ASSUME NEW p \in Procs, SelectGrid(p) \/ Abort(p)
      PROVE  pc'[q] = pc[q] \/ (pc[q] \in Unplaced /\ pc'[q] \in {"grid", "aborted"})
  BY <1>1, Placing
<1>2. \/ pc'[q] = pc[q]
      \/ pc[q] \in Unplaced /\ pc'[q] \in {"grid", "aborted"}
      \/ <<pc[q], pc'[q]>> \in
           {<<"grid", "serialize">>, <<"barrier", "bcast">>, <<"row_norms", "cone_norms">>,
            <<"cone_norms", "objective">>, <<"nonzeros", "ranks">>, <<"ranks", "collect">>,
            <<"collect", "gather">>, <<"gather", "done">>}
      \/ <<pc[q], pc'[q]>> = <<"serialize", "barrier">> /\ \E p \in Procs : Serialize(p)
      \/ <<pc[q], pc'[q]>> = <<"bcast", "permute">>
           /\ \E p \in Procs : SendChunk(p) \/ ReceiveChunk(p)
      \/ <<pc[q], pc'[q]>> = <<"permute", "partition">> /\ \E p \in Procs : Permute(p)
      \/ <<pc[q], pc'[q]>> = <<"partition", "row_norms">> /\ \E p \in Procs : Take(p)
      \/ <<pc[q], pc'[q]>> = <<"objective", "solve">> /\ \E p \in Procs : ZeroObjective(p)
      \/ <<pc[q], pc'[q]>> = <<"solve", "solved">> /\ Solve
      \/ <<pc[q], pc'[q]>> = <<"solved", "nonzeros">> /\ \E p \in Procs : CreateResult(p)
  BY <1>1, Moves DEF Moved
<1> QED BY <1>2 DEF Copying, Taken, Preparing, Solved, Returned, Unplaced

LEMMA CopyInvStep ==
  ASSUME CallInv, GridInv, WordsInv, CopyInv, [Next]_vars
  PROVE  CopyInv'
<1>1. call' = call /\ Caller' = Caller /\ Permuted' = Permuted
  BY CallStep DEF Caller, Permuted
<1>2. CASE UNCHANGED <<problem, perm>> /\ \A p \in Procs : pc'[p] \in Copying <=> pc[p] \in Copying
  BY <1>1, <1>2 DEF CopyInv
<1>3. ASSUME NEW p \in Procs, Permute(p) PROVE CopyInv'
  <2>1. \A q \in Procs : pc'[q] = IF q \in {p} THEN "partition" ELSE pc[q]
    BY <1>3, Going DEF GridInv, Permute, Labels
  <2>2. Copy(p) = Caller
    <3>1. CASE p = root
      BY <1>3, <3>1 DEF Copy, CopyInv, Permute, Copying
    <3>2. CASE p # root
      <4>1. buffer[p] = SubSeq(CallersWords, 1, Len(CallersWords))
        BY <1>3, <3>2 DEF WordsInv, Permute, Copying
      <4>2. Transmissible(Caller)
        BY CallsAssumption, Compressed DEF CallInv, Caller
      <4>3. CallersWords \in Seq(Word) /\ deserialize_compressed_sdp(CallersWords) = Caller
        BY <4>2, RoundTrip DEF CallersWords
      <4>4. buffer[p] = CallersWords
        BY <4>1, <4>3, SubSeqFull
      <4> QED BY <3>2, <4>3, <4>4 DEF Copy
    <3> QED BY <3>1, <3>2
  <2>3. problem' = [problem EXCEPT ![p] = Permuted] /\ perm' = [perm EXCEPT ![p] = call.order]
    BY <1>3, <2>2 DEF Permute, Permuted
  <2> QED BY <1>1, <2>1, <2>3 DEF CopyInv, Copying, Unplaced
<1>4. ASSUME NEW p \in Procs, Step(p), ~Permute(p) PROVE UNCHANGED <<problem, perm>>
  BY <1>4 DEF Step, SelectGrid, Abort, Serialize, SendChunk, ReceiveChunk, Take,
     RowNorms, ConeNorms, ZeroObjective, CreateResult, CountNonzeros, CountRanks,
     NotGathered, DropReplica, GatherFactor
<1>5. ASSUME Collective PROVE UNCHANGED <<problem, perm>>
  <2>1. CASE InitializeContext
    BY <2>1 DEF InitializeContext
  <2>2. CASE Barrier
    BY <2>2 DEF Barrier
  <2>3. CASE Solve
    BY <2>3 DEF Solve
  <2>4. CASE CollectDual
    BY <2>4 DEF CollectDual
  <2> QED BY <1>5, <2>1, <2>2, <2>3, <2>4 DEF Collective
<1>6. UNCHANGED vars => UNCHANGED <<problem, perm>>
  BY DEF vars
<1>7. UNCHANGED <<problem, perm>> \/ \E p \in Procs : Permute(p)
  BY <1>4, <1>5, <1>6, StepCases
<1>8. (\E p \in Procs : Permute(p)) \/ \A p \in Procs : pc'[p] \in Copying <=> pc[p] \in Copying
  BY Sides
<1> QED BY <1>2, <1>3, <1>7, <1>8


LEMMA MinOfTwo ==
  ASSUME NEW a \in Int, NEW b \in Int
  PROVE  Min({a, b}) = IF a <= b THEN a ELSE b
BY DEF Min

\* The beginning of a sequence.
LEMMA Beginnings ==
  ASSUME NEW s \in Seq(Word), NEW k \in 0..Len(s)
  PROVE  Len(SubSeq(s, 1, k)) = k /\ SubSeq(s, 1, k) \in Seq(Word)
<1>1. Len(s) \in Nat
  OBVIOUS
<1> QED BY <1>1, SubSeqProperties

LEMMA WordsInvStep ==
  ASSUME CallInv, GridInv, WordsInv, CopyInv, [Next]_vars
  PROVE  WordsInv'
<1> DEFINE W == CallersWords
           N == Len(W)
           n == Len(sent.words)
<1>1. CallersWords' = CallersWords
  BY CallStep DEF Caller, CallersWords
<1>2. W \in Seq(Word) /\ N \in Nat
  <2>1. Transmissible(Caller)
    BY CallsAssumption, Compressed DEF CallInv, Caller
  <2> QED BY <2>1, RoundTrip DEF CallersWords
<1>3. root \in Procs
  BY WorldAssumption DEF root, Procs
<1>4. CHUNK_SIZE \in Nat /\ CHUNK_SIZE > 0
  BY ChunkAssumption
<1>5. ASSUME UNCHANGED <<buffer, sent>>,
             \A q \in Procs : /\ pc'[q] \in Copying => pc[q] \in Copying
                              /\ pc'[q] = "permute" => pc[q] = "permute"
                              /\ pc'[q] = "bcast" => pc[q] \in {"barrier", "bcast"}
                              /\ pc'[q] = "barrier" => pc[q] = "barrier"
      PROVE  WordsInv'
  BY <1>1, <1>3, <1>5 DEF WordsInv
<1>6. ASSUME NEW p \in Procs, Serialize(p) PROVE WordsInv'
  <2>1. \A q \in Procs : pc'[q] = IF q \in {p} THEN "barrier" ELSE pc[q]
    BY <1>6, Going DEF GridInv, Serialize, Labels
  <2>2. pc[p] = "serialize" /\ sent' = sent
        /\ buffer' = [buffer EXCEPT ![p] = IF p = root THEN serialize_compressed_sdp(problem[p])
                                          ELSE @]
    BY <1>6 DEF Serialize
  <2>3. p = root => buffer'[root] = CallersWords
    <3>1. p = root => problem[p] = Caller
      BY <2>2, <1>3 DEF CopyInv, Copying
    <3> QED BY <2>2, <3>1 DEF CallersWords, WordsInv
  <2>4. \A q \in Procs \ {root} : buffer'[q] = buffer[q]
    BY <2>2 DEF WordsInv
  <2>5. p # root => buffer'[root] = buffer[root]
    BY <2>2, <1>3 DEF WordsInv
  <2>6. DOMAIN buffer' = Procs
    BY <2>2 DEF WordsInv
  <2> QED BY <1>1, <1>3, <2>1, <2>2, <2>3, <2>4, <2>5, <2>6 DEF WordsInv, Copying
<1>7. ASSUME NEW p \in Procs, SendChunk(p) PROVE WordsInv'
  <2> DEFINE to == Min({N, n + CHUNK_SIZE})
  <2>1. p = root /\ pc[root] = "bcast" /\ buffer[root] = W /\ UNCHANGED buffer
    BY <1>7 DEF SendChunk, WordsInv
  <2>2. /\ sent' = [total |-> N, words |-> SubSeq(W, 1, to)]
        /\ IF to = N THEN Go({root}, "permute") ELSE UNCHANGED pc
    BY <1>7, <2>1 DEF SendChunk
  <2>3. n \in 0..N
    BY DEF WordsInv
  <2>4. to \in 0..N /\ n <= to
    BY <1>2, <1>4, <2>3, MinOfTwo
  <2> HIDE DEF to
  <2>5. Len(sent'.words) = to /\ sent'.words = SubSeq(W, 1, to) /\ sent'.total = N
    BY <1>2, <2>2, <2>4, Beginnings
  <2>6. \A q \in Procs \ {root} : pc'[q] = pc[q]
    BY <2>2, Going DEF GridInv, Labels
  <2>7. \A q \in Procs \ {root} : pc'[q] \in Copying =>
          /\ Len(buffer'[q]) \in 0..Len(sent'.words)
          /\ buffer'[q] = SubSeq(W, 1, Len(buffer'[q]))
          /\ pc'[q] = "permute" => Len(buffer'[q]) = N
    BY <2>1, <2>3, <2>4, <2>5, <2>6 DEF WordsInv
  <2> QED BY <1>1, <1>3, <2>1, <2>4, <2>5, <2>7 DEF WordsInv
<1>8. ASSUME NEW p \in Procs, ReceiveChunk(p) PROVE WordsInv'
  <2> DEFINE k == Len(buffer[p])
             to == Min({n, k + CHUNK_SIZE})
  <2>1. p # root /\ pc[p] = "bcast" /\ k < n /\ UNCHANGED sent
    BY <1>8 DEF ReceiveChunk
  <2>2. /\ buffer' = [buffer EXCEPT ![p] = @ \o SubSeq(sent.words, k + 1, to)]
        /\ IF to = sent.total THEN Go({p}, "permute") ELSE UNCHANGED pc
    BY <1>8 DEF ReceiveChunk
  <2>3. n \in 0..N /\ k \in 0..n /\ sent.words = SubSeq(W, 1, n) /\ buffer[p] = SubSeq(W, 1, k)
        /\ sent.total = N
    BY <2>1 DEF WordsInv, Copying
  <2>4. to \in (k + 1)..n
    <3>1. n \in Int /\ k \in Int /\ k + CHUNK_SIZE \in Int /\ k < n /\ k < k + CHUNK_SIZE
      BY <1>4, <2>1, <2>3
    <3> HIDE DEF k
    <3>2. to = IF n <= k + CHUNK_SIZE THEN n ELSE k + CHUNK_SIZE
      BY <3>1, MinOfTwo
    <3> HIDE DEF to
    <3> QED BY <3>1, <3>2
  <2> HIDE DEF to, k
  <2>5. buffer'[p] = SubSeq(W, 1, to)
    <3>1. SubSeq(sent.words, k + 1, to) = SubSeq(W, k + 1, to)
      BY <1>2, <2>3, <2>4, SubSeqOfSubSeq
    <3>2. SubSeq(W, 1, k) \o SubSeq(W, k + 1, to) = SubSeq(W, 1, to)
      BY <1>2, <2>3, <2>4, ConcatAdjacentSubSeq
    <3>3. buffer'[p] = buffer[p] \o SubSeq(sent.words, k + 1, to)
      BY <2>2 DEF WordsInv
    <3> QED BY <2>3, <3>1, <3>2, <3>3
  <2>6. Len(buffer'[p]) = to
    BY <1>2, <2>3, <2>4, <2>5, Beginnings
  <2>7. \A q \in Procs : pc'[q] = IF q = p /\ to = N THEN "permute" ELSE pc[q]
    BY <2>2, <2>3, Going DEF GridInv, Labels
  <2>8. DOMAIN buffer' = Procs /\ \A q \in Procs \ {p} : buffer'[q] = buffer[q]
    BY <2>2 DEF WordsInv
  <2>9. \A q \in Procs \ {root} : pc'[q] \in Copying =>
          /\ Len(buffer'[q]) \in 0..n
          /\ buffer'[q] = SubSeq(W, 1, Len(buffer'[q]))
          /\ pc'[q] = "permute" => Len(buffer'[q]) = N
    <3> SUFFICES ASSUME NEW q \in Procs \ {root}, pc'[q] \in Copying
                 PROVE  /\ Len(buffer'[q]) \in 0..n
                        /\ buffer'[q] = SubSeq(W, 1, Len(buffer'[q]))
                        /\ pc'[q] = "permute" => Len(buffer'[q]) = N
      OBVIOUS
    <3>1. CASE q = p
      BY <2>1, <2>3, <2>4, <2>5, <2>6, <2>7, <3>1
    <3>2. CASE q # p
      BY <2>7, <2>8, <3>2 DEF WordsInv
    <3> QED BY <3>1, <3>2
  <2>10. buffer'[root] = buffer[root] /\ pc'[root] = pc[root]
    BY <1>3, <2>1, <2>7, <2>8
  <2> QED BY <1>1, <2>1, <2>8, <2>9, <2>10 DEF WordsInv
<1>9. ASSUME NEW p \in Procs, Permute(p) PROVE WordsInv'
  <2>1. \A q \in Procs : pc'[q] = IF q = p THEN "partition" ELSE pc[q]
    BY <1>9, Going DEF GridInv, Permute, Labels
  <2>2. buffer' = [buffer EXCEPT ![p] = null] /\ sent' = sent
    BY <1>9 DEF Permute
  <2> QED BY <1>1, <1>3, <2>1, <2>2 DEF WordsInv, Copying, Unplaced
<1>10. ASSUME NEW p \in Procs, Step(p), ~Serialize(p), ~SendChunk(p), ~ReceiveChunk(p), ~Permute(p)
       PROVE  UNCHANGED <<buffer, sent>>
  BY <1>10 DEF Step, SelectGrid, Abort, Take, RowNorms, ConeNorms, ZeroObjective,
     CreateResult, CountNonzeros, CountRanks, NotGathered, DropReplica, GatherFactor
<1>11. ASSUME Collective PROVE UNCHANGED <<buffer, sent>>
  <2>1. CASE InitializeContext
    BY <2>1 DEF InitializeContext
  <2>2. CASE Barrier
    BY <2>2 DEF Barrier
  <2>3. CASE Solve
    BY <2>3 DEF Solve
  <2>4. CASE CollectDual
    BY <2>4 DEF CollectDual
  <2> QED BY <1>11, <2>1, <2>2, <2>3, <2>4 DEF Collective
<1>12. UNCHANGED vars => UNCHANGED <<buffer, sent>>
  BY DEF vars
<1>13. CASE \E p \in Procs : Serialize(p) \/ SendChunk(p) \/ ReceiveChunk(p) \/ Permute(p)
  BY <1>6, <1>7, <1>8, <1>9, <1>13
<1>14. CASE ~ \E p \in Procs : Serialize(p) \/ SendChunk(p) \/ ReceiveChunk(p) \/ Permute(p)
  <2>1. UNCHANGED <<buffer, sent>>
    BY <1>10, <1>11, <1>12, <1>14, StepCases
  <2> QED BY <1>5, <1>14, <2>1, Sides
<1> QED BY <1>13, <1>14


LEMMA Fixed ==
  ASSUME call' = call
  PROVE  /\ Caller' = Caller /\ Permuted' = Permuted
         /\ \A p \in Procs : /\ Coordinates(p)' = Coordinates(p)
                             /\ OwnedBy(p)' = OwnedBy(p) /\ PartOf(p)' = PartOf(p)
                             /\ Whole(p)' = Whole(p)
                             /\ InitialState(p)' = InitialState(p)
                             /\ DualOf(p)' = DualOf(p)
<1>1. Caller' = Caller
  BY DEF Caller
<1>2. Permuted' = Permuted
  BY <1>1 DEF Permuted
<1>3. ScaledCopy' = ScaledCopy
  BY <1>2 DEF ScaledCopy
<1>4. \A p \in Procs : Coordinates(p)' = Coordinates(p)
  BY DEF Coordinates
<1>5. \A p \in Procs : OwnedBy(p)' = OwnedBy(p)
  BY <1>3, <1>4 DEF OwnedBy
<1>6. \A p \in Procs : PartOf(p)' = PartOf(p)
  BY <1>3, <1>4, <1>5 DEF PartOf
<1>7. \A p \in Procs : Whole(p)' = Whole(p)
  BY <1>3, <1>5, <1>6 DEF Whole
<1>8. \A p \in Procs : InitialState(p)' = InitialState(p)
  BY <1>2, <1>4, <1>6 DEF InitialState
<1>9. \A p \in Procs : DualOf(p)' = DualOf(p)
  BY <1>5, <1>6 DEF DualOf
<1> QED BY <1>1, <1>2, <1>4, <1>5, <1>6, <1>7, <1>8, <1>9

\* What a process holds once it has taken its part.
LEMMA LocalFields ==
  ASSUME LocalInv, NEW p \in Procs, pc[p] \in Taken
  PROVE  /\ DOMAIN local[p] = {"part", "start", "info"}
         /\ local[p].start = OwnedBy(p).start
         /\ local[p].info = Whole(p).info
         /\ DOMAIN local[p].part = {"m", "cones", "units", "cols", "free_start", "lp_start",
                                    "A", "b", "c", "L"}
         /\ \A f \in {"m", "cones", "units", "cols", "free_start", "lp_start", "A", "b", "L"} :
              local[p].part[f] = PartOf(p)[f]
         /\ local[p].part.c = IF pc[p] \in Preparing \/ Coordinates(p)[1] = 0 THEN PartOf(p).c
                              ELSE <<>>
<1>1. DOMAIN PartOf(p) = {"m", "cones", "units", "cols", "free_start", "lp_start",
                          "A", "b", "c", "L"}
  BY DEF PartOf, partition_problem
<1>2. /\ DOMAIN Whole(p) = {"part", "start", "info"}
      /\ Whole(p).part = PartOf(p) /\ Whole(p).start = OwnedBy(p).start
  BY DEF Whole
<1>3. CASE pc[p] \in Preparing \/ Coordinates(p)[1] = 0
  <2>1. local[p] = Whole(p)
    BY <1>3 DEF LocalInv
  <2> QED BY <1>1, <1>2, <1>3, <2>1
<1>4. CASE ~(pc[p] \in Preparing \/ Coordinates(p)[1] = 0)
  <2>1. local[p] = [Whole(p) EXCEPT !.part.c = <<>>]
    BY <1>4 DEF LocalInv
  <2>2. local[p].part = [PartOf(p) EXCEPT !.c = <<>>]
    BY <1>2, <2>1
  <2>3. DOMAIN local[p] = {"part", "start", "info"} /\ local[p].start = OwnedBy(p).start
        /\ local[p].info = Whole(p).info
    BY <1>2, <2>1
  <2> QED BY <1>1, <1>4, <2>2, <2>3
<1> QED BY <1>3, <1>4

LEMMA PlacedAt ==
  ASSUME GridInv, NEW p \in Procs, pc[p] \notin Unplaced
  PROVE  /\ dims[p] = Dims(call.grid) /\ ~WrongGrid(call.grid)
         /\ my_row(p) = Coordinates(p)[1] /\ my_rank(p) = Coordinates(p)[2]
         /\ my_cone(p) = Coordinates(p)[3]
<1>1. dims[p] = Dims(call.grid) /\ ~WrongGrid(call.grid)
  BY DEF GridInv
<1> QED BY <1>1 DEF my_row, my_rank, my_cone, Coordinates

LEMMA LocalInvStep ==
  ASSUME GridInv, CopyInv, LocalInv, [Next]_vars
  PROVE  LocalInv'
<1>1. call' = call
  BY CallStep
<1>2. \A q \in Procs : /\ Whole(q)' = Whole(q) /\ Coordinates(q)' = Coordinates(q)
                       /\ InitialState(q)' = InitialState(q) /\ DualOf(q)' = DualOf(q)
  BY <1>1, Fixed
<1>3. ASSUME UNCHANGED <<local, norms, state>>,
             \A q \in Procs : /\ pc'[q] \in Taken <=> pc[q] \in Taken
                              /\ pc'[q] \in Preparing <=> pc[q] \in Preparing
                              /\ pc'[q] \in Solved <=> pc[q] \in Solved
      PROVE  LocalInv'
  BY <1>2, <1>3 DEF LocalInv
<1>4. ASSUME NEW p \in Procs, Take(p) PROVE LocalInv'
  <2>1. \A q \in Procs : pc'[q] = IF q = p THEN "row_norms" ELSE pc[q]
    BY <1>4, Going DEF GridInv, Take, Labels
  <2>2. pc[p] = "partition"
    BY <1>4 DEF Take
  <2>3. problem[p] = Permuted /\ dims[p] = Dims(call.grid) /\ my_rank(p) = Coordinates(p)[2]
    BY <2>2, PlacedAt DEF CopyInv, Copying, Unplaced
  <2>4. local' = [local EXCEPT ![p] = Whole(p)]
    BY <1>4, <2>3 DEF Take, Whole, PartOf, OwnedBy, ScaledCopy, Coordinates
  <2>5. state' = [state EXCEPT ![p] = [rank_list |-> InitialState(p)]]
    BY <1>4, <2>3 DEF Take, InitialState, PartOf, OwnedBy, ScaledCopy, Coordinates
  <2>6. PICK b, c : norms' = [norms EXCEPT ![p] = [b |-> b, c |-> c]]
    BY <1>4 DEF Take
  <2>7. DOMAIN norms' = Procs /\ DOMAIN state' = Procs
        /\ \A q \in Procs : q # p => norms'[q] = norms[q] /\ state'[q] = state[q]
    BY <2>5, <2>6 DEF LocalInv
  <2>8. DOMAIN norms'[p] = {"b", "c"} /\ state'[p] = [rank_list |-> InitialState(p)]
    BY <2>5, <2>6 DEF LocalInv
  <2>9. local' = [q \in Procs |->
           IF pc'[q] \notin Taken THEN null
           ELSE IF pc'[q] \in Preparing \/ Coordinates(q)[1] = 0 THEN Whole(q)
           ELSE [Whole(q) EXCEPT !.part.c = <<>>]]
    BY <2>1, <2>4 DEF LocalInv, Taken, Preparing
  <2>10. ASSUME NEW q \in Procs, pc'[q] \in Taken
         PROVE  /\ DOMAIN norms'[q] = {"b", "c"}
                /\ pc'[q] \notin Solved => state'[q] = [rank_list |-> InitialState(q)]
                /\ pc'[q] \in Solved => /\ DOMAIN state'[q] = {"rank_list", "R", "x", "dual"}
                                        /\ state'[q].dual = DualOf(q)
    <3>1. CASE q = p
      BY <2>1, <2>8, <3>1 DEF Solved, Returned
    <3>2. CASE q # p
      BY <2>1, <2>7, <2>10, <3>2 DEF LocalInv
    <3> QED BY <3>1, <3>2
  <2> QED BY <1>2, <2>7, <2>9, <2>10 DEF LocalInv
<1>5. ASSUME UNCHANGED <<local, state>>, DOMAIN norms' = Procs,
             \A q \in Procs : DOMAIN norms'[q] = DOMAIN norms[q],
             \A q \in Procs : /\ pc'[q] \in Taken <=> pc[q] \in Taken
                              /\ pc'[q] \in Preparing <=> pc[q] \in Preparing
                              /\ pc'[q] \in Solved <=> pc[q] \in Solved
      PROVE  LocalInv'
  BY <1>2, <1>5 DEF LocalInv
<1>6. ASSUME NEW p \in Procs, ZeroObjective(p) PROVE LocalInv'
  <2>1. \A q \in Procs : pc'[q] = IF q = p THEN "solve" ELSE pc[q]
    BY <1>6, Going DEF GridInv, ZeroObjective, Labels
  <2>2. pc[p] = "objective" /\ UNCHANGED <<norms, state>>
        /\ local' = IF my_row(p) = 0 THEN local ELSE [local EXCEPT ![p].part.c = <<>>]
    BY <1>6 DEF ZeroObjective
  <2>3. my_row(p) = Coordinates(p)[1]
    BY <2>2, PlacedAt DEF Unplaced
  <2>4. local[p] = Whole(p)
    BY <2>2 DEF LocalInv, Taken, Preparing
  <2>5. local' = [q \in Procs |->
           IF pc'[q] \notin Taken THEN null
           ELSE IF pc'[q] \in Preparing \/ Coordinates(q)[1] = 0 THEN Whole(q)
           ELSE [Whole(q) EXCEPT !.part.c = <<>>]]
    BY <2>1, <2>2, <2>3, <2>4, SMTT(30) DEF LocalInv, Taken, Preparing
  <2>6. \A q \in Procs : /\ pc'[q] \in Taken <=> pc[q] \in Taken
                         /\ pc'[q] \in Solved <=> pc[q] \in Solved
    BY <2>1, <2>2 DEF Taken, Preparing, Solved, Returned
  <2>7. pc'[p] \notin Solved /\ pc[p] \notin Solved
    BY <2>1, <2>2 DEF Solved, Returned
  <2>8. ASSUME NEW q \in Procs, pc'[q] \in Taken
        PROVE  /\ DOMAIN norms'[q] = {"b", "c"}
               /\ pc'[q] \notin Solved => state'[q] = [rank_list |-> InitialState(q)]
               /\ pc'[q] \in Solved => /\ DOMAIN state'[q] = {"rank_list", "R", "x", "dual"}
                                       /\ state'[q].dual = DualOf(q)
    BY <2>2, <2>6, <2>8 DEF LocalInv
  <2>9. DOMAIN norms' = Procs /\ DOMAIN state' = Procs
    BY <2>2 DEF LocalInv
  <2> QED BY <1>2, <2>5, <2>8, <2>9 DEF LocalInv
<1>7. ASSUME Solve PROVE LocalInv'
  <2>1. \A q \in Procs : pc[q] = "solve" /\ pc'[q] = "solved"
    BY <1>7, Going DEF GridInv, Solve, Labels, At
  <2>2. UNCHANGED <<local, norms>>
    BY <1>7 DEF Solve
  <2>3. PICK grown : state' = [q \in Procs |-> Solution(q, grown)]
    BY <1>7 DEF Solve
  <2>4. ASSUME NEW q \in Procs
        PROVE  DOMAIN state'[q] = {"rank_list", "R", "x", "dual"} /\ state'[q].dual = DualOf(q)
    <3>1. local[q].start = OwnedBy(q).start /\ local[q].part.m = PartOf(q).m
      BY <2>1, LocalFields DEF Taken
    <3>2. perm[q] = call.order
      BY <2>1 DEF CopyInv, Copying, Unplaced
    <3> QED BY <2>3, <3>1, <3>2 DEF Solution, DualOf
  <2>5. DOMAIN state' = Procs
    BY <2>3
  <2>6. \A q \in Procs : /\ pc[q] \in Taken /\ pc'[q] \in Taken /\ pc'[q] \in Solved
                         /\ pc[q] \notin Preparing /\ pc'[q] \notin Preparing
    BY <2>1 DEF Taken, Preparing, Solved, Returned
  <2> QED BY <1>2, <2>2, <2>4, <2>5, <2>6 DEF LocalInv
<1>8. ASSUME NEW p \in Procs, RowNorms(p) \/ ConeNorms(p)
      PROVE  /\ UNCHANGED <<local, state>> /\ DOMAIN norms' = Procs
             /\ \A q \in Procs : DOMAIN norms'[q] = DOMAIN norms[q]
  <2>1. CASE RowNorms(p)
    BY <2>1 DEF RowNorms
  <2>2. CASE ConeNorms(p)
    BY <2>2 DEF ConeNorms
  <2> QED BY <1>8, <2>1, <2>2
<1>9. ASSUME NEW p \in Procs, Step(p), ~Take(p), ~RowNorms(p), ~ConeNorms(p), ~ZeroObjective(p)
      PROVE  UNCHANGED <<local, norms, state>>
  BY <1>9 DEF Step, SelectGrid, Abort, Serialize, SendChunk, ReceiveChunk, Permute,
     CreateResult, CountNonzeros, CountRanks, NotGathered, DropReplica, GatherFactor
<1>10. InitializeContext \/ Barrier \/ CollectDual => UNCHANGED <<local, norms, state>>
  <2>1. InitializeContext => UNCHANGED <<local, norms, state>>
    BY DEF InitializeContext
  <2>2. Barrier => UNCHANGED <<local, norms, state>>
    BY DEF Barrier
  <2>3. CollectDual => UNCHANGED <<local, norms, state>>
    BY DEF CollectDual
  <2> QED BY <2>1, <2>2, <2>3
<1>11. UNCHANGED vars => UNCHANGED <<local, norms, state>>
  BY DEF vars
<1>12. CASE Solve \/ \E p \in Procs : Take(p) \/ ZeroObjective(p)
  BY <1>4, <1>6, <1>7, <1>12
<1>13. CASE ~(Solve \/ \E p \in Procs : Take(p) \/ ZeroObjective(p))
  <2>1. \A q \in Procs : /\ pc'[q] \in Taken <=> pc[q] \in Taken
                         /\ pc'[q] \in Preparing <=> pc[q] \in Preparing
                         /\ pc'[q] \in Solved <=> pc[q] \in Solved
    BY <1>13, Sides
  <2>2. CASE \E p \in Procs : RowNorms(p) \/ ConeNorms(p)
    BY <1>5, <1>8, <2>1, <2>2
  <2>3. CASE ~ \E p \in Procs : RowNorms(p) \/ ConeNorms(p)
    <3>1. UNCHANGED <<local, norms, state>>
      BY <1>9, <1>10, <1>11, <1>13, <2>3, StepCases DEF Collective
    <3> QED BY <1>3, <2>1, <3>1
  <2> QED BY <2>2, <2>3
<1> QED BY <1>12, <1>13


\* Only the first process is at the origin of the grid.
LEMMA KeeperIsRoot ==
  ASSUME CallInv, GridInv, NEW p \in Procs, pc[p] \notin Unplaced, KeepsDual(p)
  PROVE  p = root
<1> DEFINE d == Dims(call.grid)
<1>1. IsDims(d)
  <2>1. call.grid = null \/ call.grid \in Nat \X Nat \X Nat
    BY CallsAssumption DEF CallInv
  <2>2. ~WrongGrid(call.grid)
    BY DEF GridInv
  <2> QED BY <2>1, <2>2, GridShape
<1>2. Coords(d, p)[1] = 0 /\ Coords(d, p)[2] = 0 /\ Coords(d, p)[3] = 0
  BY PlacedAt DEF KeepsDual, Collectors, Coordinates
<1>3. d[2] \in Nat /\ d[3] \in Nat
  BY <1>1 DEF IsDims
<1>4. p = (0 * d[2] + 0) * d[3] + 0
  BY <1>1, <1>2, CoordinatesOf
<1> HIDE DEF d
<1>5. (0 * d[2] + 0) * d[3] + 0 = 0
  BY <1>3
<1> QED BY <1>4, <1>5 DEF root

LEMMA ResultInvStep ==
  ASSUME CallInv, GridInv, ResultInv, [Next]_vars
  PROVE  ResultInv'
<1> DEFINE Fields == {"dual", "nnz", "rank", "R2", "x", "rank_list"}
<1>1. ASSUME DOMAIN result' = Procs,
             \A q \in Procs :
               /\ pc'[q] \in Returned <=> pc[q] \in Returned
               /\ pc[q] \notin Returned => result'[q] = result[q]
               /\ pc[q] \in Returned =>
                    /\ DOMAIN result'[q] = DOMAIN result[q]
                    /\ result'[q].dual # result[q].dual => q = root
      PROVE  ResultInv'
  BY <1>1 DEF ResultInv
<1>2. ASSUME NEW p \in Procs, CreateResult(p) PROVE ResultInv'
  <2>1. \A q \in Procs : pc'[q] = IF q = p THEN "nonzeros" ELSE pc[q]
    BY <1>2, Going DEF GridInv, CreateResult, Labels
  <2>2. result' = [result EXCEPT ![p] = LocalResult(p)]
    BY <1>2 DEF CreateResult
  <2>3. DOMAIN LocalResult(p) = Fields /\ LocalResult(p).dual = null
    BY DEF LocalResult
  <2>4. DOMAIN result' = Procs /\ \A q \in Procs : result'[q] = IF q = p THEN LocalResult(p) ELSE result[q]
    BY <2>2 DEF ResultInv
  <2> QED BY <2>1, <2>3, <2>4 DEF ResultInv, Returned
<1>3. ASSUME NEW p \in Procs, CountNonzeros(p)
      PROVE  /\ DOMAIN result' = Procs
             /\ \A q \in Procs : /\ pc[q] \notin Returned => result'[q] = result[q]
                                 /\ pc[q] \in Returned => /\ DOMAIN result'[q] = DOMAIN result[q]
                                                          /\ result'[q].dual = result[q].dual
  <2>1. PICK n : result' = [q \in Procs |-> IF q \in Comm(row_color, p)
                                            THEN [result[q] EXCEPT !.nnz = n] ELSE result[q]]
    BY <1>3 DEF CountNonzeros
  <2>2. \A q \in Comm(row_color, p) : pc[q] = "nonzeros"
    BY <1>3 DEF CountNonzeros, At
  <2> QED BY <2>1, <2>2 DEF ResultInv, Returned
<1>4. ASSUME NEW p \in Procs, CountRanks(p)
      PROVE  /\ DOMAIN result' = Procs
             /\ \A q \in Procs : /\ pc[q] \notin Returned => result'[q] = result[q]
                                 /\ pc[q] \in Returned => /\ DOMAIN result'[q] = DOMAIN result[q]
                                                          /\ result'[q].dual = result[q].dual
  <2>1. PICK n : result' = [q \in Procs |-> IF q \in Comm(rank_color, p)
                                            THEN [result[q] EXCEPT !.rank = n] ELSE result[q]]
    BY <1>4 DEF CountRanks
  <2>2. \A q \in Comm(rank_color, p) : pc[q] = "ranks"
    BY <1>4 DEF CountRanks, At
  <2> QED BY <2>1, <2>2 DEF ResultInv, Returned
<1>5. ASSUME NEW p \in Procs, DropReplica(p)
      PROVE  /\ DOMAIN result' = Procs
             /\ \A q \in Procs : /\ pc[q] \notin Returned => result'[q] = result[q]
                                 /\ pc[q] \in Returned => /\ DOMAIN result'[q] = DOMAIN result[q]
                                                          /\ result'[q].dual = result[q].dual
  <2>1. result' = [result EXCEPT ![p] = Dropped(@)] /\ pc[p] = "gather"
    BY <1>5 DEF DropReplica
  <2> QED BY <2>1 DEF ResultInv, Returned, Dropped
<1>6. ASSUME NEW p \in Procs, GatherFactor(p)
      PROVE  /\ DOMAIN result' = Procs
             /\ \A q \in Procs : /\ pc[q] \notin Returned => result'[q] = result[q]
                                 /\ pc[q] \in Returned => /\ DOMAIN result'[q] = DOMAIN result[q]
                                                          /\ result'[q].dual = result[q].dual
  <2>1. PICK R2, ranks :
          result' = [q \in Procs |->
            IF q \notin Comm(rank_color, p) THEN result[q]
            ELSE IF my_rank(q) = 0 THEN [result[q] EXCEPT !.R2 = R2, !.rank_list = ranks]
            ELSE Dropped(result[q])]
    BY <1>6 DEF GatherFactor
  <2>2. \A q \in Comm(rank_color, p) : pc[q] = "gather"
    BY <1>6 DEF GatherFactor, At
  <2> QED BY <2>1, <2>2 DEF ResultInv, Returned, Dropped
<1>7. ASSUME CollectDual
      PROVE  /\ DOMAIN result' = Procs
             /\ \A q \in Procs : /\ pc[q] \notin Returned => result'[q] = result[q]
                                 /\ pc[q] \in Returned => /\ DOMAIN result'[q] = DOMAIN result[q]
                                                          /\ result'[q].dual # result[q].dual => q = root
  <2>1. \A q \in Procs : pc[q] = "collect"
    BY <1>7 DEF CollectDual, At
  <2>2. result' = [q \in Procs |-> IF KeepsDual(q)
           THEN [result[q] EXCEPT !.dual = unpermute_dual_solution(perm[q], GatheredDual)]
           ELSE result[q]]
    BY <1>7 DEF CollectDual
  <2>3. ASSUME NEW q \in Procs, KeepsDual(q) PROVE q = root
    BY <2>1, <2>3, KeeperIsRoot DEF Unplaced
  <2> QED BY <2>1, <2>2, <2>3 DEF ResultInv, Returned
<1>8. ASSUME NEW p \in Procs, Step(p), ~CreateResult(p), ~CountNonzeros(p), ~CountRanks(p),
             ~DropReplica(p), ~GatherFactor(p)
      PROVE  UNCHANGED result
  BY <1>8 DEF Step, SelectGrid, Abort, Serialize, SendChunk, ReceiveChunk, Permute, Take,
     RowNorms, ConeNorms, ZeroObjective, NotGathered
<1>9. InitializeContext \/ Barrier \/ Solve => UNCHANGED result
  <2>1. InitializeContext => UNCHANGED result
    BY DEF InitializeContext
  <2>2. Barrier => UNCHANGED result
    BY DEF Barrier
  <2>3. Solve => UNCHANGED result
    BY DEF Solve
  <2> QED BY <2>1, <2>2, <2>3
<1>10. UNCHANGED vars => UNCHANGED result
  BY DEF vars
<1>11. CASE ~ \E p \in Procs : CreateResult(p)
  <2>1. \A q \in Procs : pc'[q] \in Returned <=> pc[q] \in Returned
    BY <1>11, Sides
  <2>2. CASE UNCHANGED result
    <3>1. DOMAIN result' = Procs
      BY <2>2 DEF ResultInv
    <3> QED BY <1>1, <2>1, <2>2, <3>1
  <2>3. CASE \E p \in Procs : CountNonzeros(p) \/ CountRanks(p) \/ DropReplica(p) \/ GatherFactor(p)
    BY <1>1, <1>3, <1>4, <1>5, <1>6, <2>1, <2>3
  <2>4. CASE CollectDual
    BY <1>1, <1>7, <2>1, <2>4
  <2> QED BY <1>8, <1>9, <1>10, <1>11, <2>2, <2>3, <2>4, StepCases DEF Collective
<1> QED BY <1>2, <1>11


LEMMA InductiveIInv == IInv /\ [Next]_vars => IInv'
BY CallInvStep, GridInvStep, WordsInvStep, CopyInvStep, LocalInvStep, ResultInvStep DEF IInv

\* The invariant holds of the specification.
THEOREM IInvHolds == Spec => []IInv
<1>1. Init => IInv
  BY InitIInv
<1>2. IInv /\ [Next]_vars => IInv'
  BY InductiveIInv
<1> QED BY <1>1, <1>2, PTL DEF Spec

LEMMA IInvTypeOK == IInv => TypeOK
<1> SUFFICES ASSUME IInv PROVE TypeOK
  OBVIOUS
<1>1. pc \in [Procs -> Labels]
  BY DEF IInv, GridInv
<1> SUFFICES ASSUME NEW p \in Procs
             PROVE  /\ (dims[p] = null) = (pc[p] \in {"start", "aborted"})
                    /\ local[p] # null => problem[p] # null /\ norms[p] # null /\ state[p] # null
                    /\ result[p] # null => (result[p].dual # null => p = root)
  BY <1>1 DEF TypeOK
<1>2. (dims[p] = null) = (pc[p] \in {"start", "aborted"})
  <2>1. Dims(call.grid) # null
    BY DEF Dims, null
  <2> QED BY <2>1 DEF IInv, GridInv, Unplaced
<1>3. ASSUME local[p] # null PROVE problem[p] # null /\ norms[p] # null /\ state[p] # null
  <2>1. pc[p] \in Taken /\ pc[p] \notin Copying
    BY <1>3 DEF IInv, LocalInv, Taken, Preparing, Solved, Returned, Copying, Unplaced
  <2>2. DOMAIN null = {}
    BY DEF null
  <2>3. problem[p] # null
    <3>1. problem[p] = Permuted
      BY <2>1 DEF IInv, CopyInv
    <3>2. DOMAIN Permuted = {"A", "b", "c", "L"}
      BY DEF Permuted, Caller, permute_global_problem_constraints, convert_to_compressed
    <3> QED BY <2>2, <3>1, <3>2
  <2>4. DOMAIN norms[p] = {"b", "c"}
    BY <2>1 DEF IInv, LocalInv
  <2>5. "rank_list" \in DOMAIN state[p]
    BY <2>1 DEF IInv, LocalInv
  <2> QED BY <2>2, <2>3, <2>4, <2>5
<1>4. result[p] # null => (result[p].dual # null => p = root)
  BY DEF IInv, ResultInv
<1> QED BY <1>2, <1>3, <1>4

\* Each process is somewhere on the way, has what it made or was sent there,
\* and only the root ends with a dual solution (distributed_optimize).
THEOREM TypeCorrect == Spec => []TypeOK
BY IInvHolds, IInvTypeOK, PTL


-----------------------------------------------------------------------------
(* The orders a shuffle may come to.                                       *)

IsOrder(f) ==
  /\ f \in [Rows -> Rows]
  /\ \A i, j \in Rows : f[i] = f[j] => i = j
  /\ \A r \in Rows : \E i \in Rows : f[i] = r

LEMMA RowsFinite ==
  IsFiniteSet(Rows) /\ Cardinality(Rows) = num_constraints /\ num_constraints \in Nat
<1>1. num_constraints \in Nat
  BY SizesAssumption
<1> QED BY <1>1, FS_Interval DEF Rows

\* A listing without repetition of as many elements as there are has them all.
LEMMA ListsAll ==
  ASSUME NEW S, IsFiniteSet(S), NEW f \in Bijections(S)
  PROVE  /\ f \in [1..Cardinality(S) -> S]
         /\ \A i, j \in 1..Cardinality(S) : f[i] = f[j] => i = j
         /\ \A x \in S : \E i \in 1..Cardinality(S) : f[i] = x
<1> DEFINE n == Cardinality(S)
<1>1. n \in Nat /\ IsFiniteSet(1..n) /\ Cardinality(1..n) = n
  BY FS_CardinalityType, FS_Interval
<1>2. f \in [1..n -> S] /\ \A i, j \in 1..n : f[i] = f[j] => i = j
  BY DEF Bijections
<1>3. f \in Injection(1..n, S)
  BY <1>2 DEF Injection, IsInjective
<1>4. f \in Surjection(1..n, S)
  BY <1>1, <1>3, FS_Injection
<1> QED BY <1>2, <1>4 DEF Surjection

LEMMA BijectionIsOrder ==
  ASSUME NEW f \in Bijections(Rows)
  PROVE  IsOrder(f)
<1>1. 1..Cardinality(Rows) = Rows
  BY RowsFinite DEF Rows
<1> QED BY <1>1, RowsFinite, ListsAll DEF IsOrder

\* Sequences that have each element of a set once between them have each once
\* when they are laid out one after the other.
Once(seqs, n, A) ==
  /\ \A i, j \in 1..n : \A k \in 1..Len(seqs[i]), l \in 1..Len(seqs[j]) :
       seqs[i][k] = seqs[j][l] => i = j /\ k = l
  /\ \A x \in A : \E i \in 1..n : \E k \in 1..Len(seqs[i]) : seqs[i][k] = x

LEMMA FlattenedOnce ==
  ASSUME NEW A, NEW n \in Nat, NEW seqs \in [1..n -> Seq(A)], Once(seqs, n, A)
  PROVE  /\ FlattenSeq(seqs) \in [1..Cardinality(A) -> A]
         /\ \A i, j \in 1..Cardinality(A) :
              FlattenSeq(seqs)[i] = FlattenSeq(seqs)[j] => i = j
         /\ \A x \in A : \E i \in 1..Cardinality(A) : FlattenSeq(seqs)[i] = x
<1> DEFINE sum == Ends(seqs, n)
           g == FlattenSeq(seqs)
           N == Len(g)
<1> HIDE DEF sum, g
<1>1. /\ g \in Seq(A)
      /\ \A i \in 1..n : \A k \in 1..Len(seqs[i]) :
           sum[i - 1] + k \in 1..N /\ g[sum[i - 1] + k] = seqs[i][k]
      /\ \A t \in 1..N : \E i \in 1..n : \E k \in 1..Len(seqs[i]) : t = sum[i - 1] + k
  <2>1. /\ FlattenSeq(seqs) \in Seq(A)
        /\ Len(FlattenSeq(seqs)) = Ends(seqs, n)[n]
        /\ \A i \in 1..n : \A k \in 1..Len(seqs[i]) :
             /\ Ends(seqs, n)[i - 1] + k \in 1..Len(FlattenSeq(seqs))
             /\ FlattenSeq(seqs)[Ends(seqs, n)[i - 1] + k] = seqs[i][k]
        /\ \A t \in 1..Len(FlattenSeq(seqs)) :
             \E i \in 1..n : \E k \in 1..Len(seqs[i]) : t = Ends(seqs, n)[i - 1] + k
    <3>1. OneAfterOther(A, n, seqs)
      BY FlattenedAt
    <3> QED BY <3>1, Zenon DEF OneAfterOther
  <2> QED BY <2>1, Zenon DEF sum, g
<1>2. N \in Nat /\ g \in [1..N -> A]
  BY <1>1
<1> HIDE DEF N
<1>3. \A i, j \in 1..N : g[i] = g[j] => i = j
  <2> SUFFICES ASSUME NEW t \in 1..N, NEW u \in 1..N, g[t] = g[u] PROVE t = u
    OBVIOUS
  <2>1. PICK i \in 1..n : \E k \in 1..Len(seqs[i]) : t = sum[i - 1] + k
    BY <1>1
  <2>2. PICK k \in 1..Len(seqs[i]) : t = sum[i - 1] + k
    BY <2>1
  <2>3. PICK j \in 1..n : \E l \in 1..Len(seqs[j]) : u = sum[j - 1] + l
    BY <1>1
  <2>4. PICK l \in 1..Len(seqs[j]) : u = sum[j - 1] + l
    BY <2>3
  <2>5. seqs[i][k] = seqs[j][l]
    BY <1>1, <2>2, <2>4
  <2>6. i = j /\ k = l
    BY <2>5 DEF Once
  <2> QED BY <2>2, <2>4, <2>6
<1>4. ASSUME NEW x \in A PROVE \E i \in 1..N : g[i] = x
  <2>1. PICK i \in 1..n : \E k \in 1..Len(seqs[i]) : seqs[i][k] = x
    BY DEF Once
  <2>2. PICK k \in 1..Len(seqs[i]) : seqs[i][k] = x
    BY <2>1
  <2>3. sum[i - 1] + k \in 1..N /\ g[sum[i - 1] + k] = seqs[i][k]
    BY <1>1
  <2> QED BY <2>2, <2>3
<1>5. Cardinality(A) = N
  <2>1. g \in Bijection(1..N, A)
    BY <1>2, <1>3, <1>4 DEF Bijection, Injection, Surjection, IsInjective
  <2>2. ExistsBijection(1..N, A)
    BY <2>1 DEF ExistsBijection
  <2> QED BY <1>2, <2>2, FS_CountingElements
<1> QED BY <1>2, <1>3, <1>4, <1>5 DEF g

LEMMA QuotMonotone ==
  ASSUME NEW a \in Nat, NEW b \in Nat, a <= b, NEW d \in Nat \ {0}
  PROVE  Quot(a, d) <= Quot(b, d)
<1> DEFINE x == Quot(a, d)
           y == Quot(b, d)
<1>1. x \in Nat /\ Rem(a, d) \in 0..(d - 1) /\ a = x * d + Rem(a, d)
  BY DivMod
<1>2. y \in Nat /\ Rem(b, d) \in 0..(d - 1) /\ b = y * d + Rem(b, d)
  BY DivMod
<1> HIDE DEF x, y
<1> SUFFICES ASSUME y < x PROVE FALSE
  BY <1>1, <1>2 DEF x, y
<1>3. y * d + d <= x * d
  BY <1>1, <1>2, Steps
<1>4. x * d \in Nat /\ y * d \in Nat
  BY <1>1, <1>2
<1> DEFINE xd == x * d
           yd == y * d
<1>5. xd \in Nat /\ yd \in Nat /\ yd + d <= xd /\ a = xd + Rem(a, d) /\ b = yd + Rem(b, d)
  BY <1>1, <1>2, <1>3, <1>4
<1> HIDE DEF xd, yd
<1> QED BY <1>1, <1>2, <1>5

LEMMA BlockOrderIsOrder ==
  ASSUME NEW f \in Bijections(Blocks), num_constraints >= 1
  PROVE  IsOrder(BlockOrder(f))
<1> DEFINE n == Cardinality(Blocks)
           last == Quot(num_constraints - 1, block_size)
           Block(b) == {r \in Rows : (r - 1) \div block_size = b}
           seqs == [i \in 1..n |-> Sorted(Block(f[i]), Increasing(Block(f[i])))]
<1>1. block_size \in Nat \ {0} /\ num_constraints - 1 \in Nat
  BY BlockAssumption, RowsFinite
<1>2. last \in Nat
  BY <1>1, DivMod
<1>3. Blocks = 0..last
  BY DEF Blocks, Quot
<1>4. IsFiniteSet(Blocks) /\ n \in Nat
  BY <1>2, <1>3, FS_Interval, FS_CardinalityType
<1>5. /\ f \in [1..n -> Blocks]
      /\ \A i, j \in 1..n : f[i] = f[j] => i = j
      /\ \A b \in Blocks : \E i \in 1..n : f[i] = b
  BY <1>4, ListsAll
<1>6. BlockOrder(f) = FlattenSeq(seqs)
  BY <1>5 DEF BlockOrder
<1>7. ASSUME NEW b
      PROVE  LET c == Cardinality(Block(b))
                 s == Sorted(Block(b), Increasing(Block(b)))
             IN  /\ c \in Nat /\ s \in [1..c -> Block(b)]
                 /\ \A r \in Block(b) : \E i \in 1..c : s[i] = r
                 /\ \A i, j \in 1..c : i < j => s[i] < s[j]
  <2>1. Block(b) \in SUBSET Int /\ IsFiniteSet(Block(b))
    BY RowsFinite, FS_Subset DEF Rows
  <2> HIDE DEF Block
  <2> QED BY <2>1, SortedNumbers
<1> HIDE DEF Block
<1>8. ASSUME NEW i \in 1..n
      PROVE  LET c == Cardinality(Block(f[i]))
             IN  /\ c \in Nat /\ Len(seqs[i]) = c /\ seqs[i] \in [1..c -> Block(f[i])]
                 /\ \A r \in Block(f[i]) : \E k \in 1..c : seqs[i][k] = r
                 /\ \A k, l \in 1..c : k < l => seqs[i][k] < seqs[i][l]
  <2>1. seqs[i] = Sorted(Block(f[i]), Increasing(Block(f[i])))
    OBVIOUS
  <2> QED BY <1>7, <2>1
<1>9. \A i \in 1..n : Block(f[i]) \subseteq Rows /\ \A r \in Block(f[i]) : Quot(r - 1, block_size) = f[i]
  BY DEF Block, Quot
<1> HIDE DEF seqs
<1>10. seqs \in [1..n -> Seq(Rows)]
  <2>1. DOMAIN seqs = 1..n /\ seqs = [i \in 1..n |-> seqs[i]]
    BY DEF seqs
  <2>2. \A i \in 1..n : seqs[i] \in Seq(Rows)
    BY <1>8, <1>9
  <2> QED BY <2>1, <2>2
<1>11. ASSUME NEW i \in 1..n, NEW j \in 1..n, NEW k \in 1..Len(seqs[i]), NEW l \in 1..Len(seqs[j]),
              seqs[i][k] = seqs[j][l]
       PROVE  i = j /\ k = l
  <2>1. seqs[i][k] \in Block(f[i]) /\ seqs[j][l] \in Block(f[j])
    BY <1>8
  <2>2. f[i] = f[j]
    BY <1>9, <1>11, <2>1
  <2>3. i = j
    BY <1>5, <2>2
  <2>4. /\ Len(seqs[i]) \in Nat /\ seqs[i] \in [1..Len(seqs[i]) -> Block(f[i])]
        /\ \A u, v \in 1..Len(seqs[i]) : u < v => seqs[i][u] < seqs[i][v]
    BY <1>8
  <2>5. Block(f[i]) \subseteq Int
    BY <1>9 DEF Rows
  <2>6. ~(k < l) /\ ~(l < k)
    BY <1>11, <2>3, <2>4, <2>5
  <2> QED BY <2>3, <2>4, <2>6
<1>12. ASSUME NEW r \in Rows PROVE \E i \in 1..n : \E k \in 1..Len(seqs[i]) : seqs[i][k] = r
  <2>1. r - 1 \in Nat /\ r - 1 <= num_constraints - 1
    BY <1>1, RowsFinite DEF Rows
  <2>2. Quot(r - 1, block_size) \in Nat /\ Quot(r - 1, block_size) <= last
    BY <1>1, <2>1, DivMod, QuotMonotone
  <2>3. PICK i \in 1..n : f[i] = Quot(r - 1, block_size)
    BY <1>2, <1>3, <1>5, <2>2
  <2>4. r \in Block(f[i])
    BY <2>3 DEF Block, Quot
  <2> QED BY <1>8, <2>4
<1>13. Once(seqs, n, Rows)
  BY <1>11, <1>12 DEF Once
<1> DEFINE g == FlattenSeq(seqs)
<1>14. /\ g \in [1..Cardinality(Rows) -> Rows]
       /\ \A i, j \in 1..Cardinality(Rows) : g[i] = g[j] => i = j
       /\ \A x \in Rows : \E i \in 1..Cardinality(Rows) : g[i] = x
  <2> HIDE DEF n
  <2> QED BY <1>4, <1>10, <1>13, FlattenedOnce
<1>15. 1..Cardinality(Rows) = Rows
  BY RowsFinite DEF Rows
<1> HIDE DEF g
<1>16. IsOrder(g)
  BY <1>14, <1>15 DEF IsOrder
<1> QED BY <1>6, <1>16 DEF g

\* Every shuffle comes to no change or to an order of all the rows.
LEMMA ShuffleIsOrder ==
  ASSUME NEW shuffle \in {"none", "uniform", "block", "col"}, NEW p,
         NEW order \in Orders(shuffle, p)
  PROVE  order = null \/ IsOrder(order)
<1>1. CASE num_constraints <= 1 \/ shuffle = "none"
  <2>1. Orders(shuffle, p) = {null}
    BY <1>1 DEF Orders
  <2> QED BY <2>1
<1>2. CASE ~(num_constraints <= 1 \/ shuffle = "none") /\ shuffle = "uniform"
  BY <1>2, BijectionIsOrder DEF Orders
<1>3. CASE ~(num_constraints <= 1 \/ shuffle = "none") /\ shuffle = "block"
  <2>1. Orders(shuffle, p) = {BlockOrder(f) : f \in Bijections(Blocks)}
    BY <1>3 DEF Orders
  <2>2. num_constraints >= 1
    BY <1>3, RowsFinite
  <2> QED BY <2>1, <2>2, BlockOrderIsOrder
<1>4. CASE ~(num_constraints <= 1 \/ shuffle = "none") /\ shuffle = "col"
  <2>1. Orders(shuffle, p) \subseteq Bijections(Rows)
    BY <1>4 DEF Orders
  <2> QED BY <2>1, BijectionIsOrder
<1> QED BY <1>1, <1>2, <1>3, <1>4


LEMMA CallersOrder ==
  ASSUME CallInv
  PROVE  call.order = null \/ IsOrder(call.order)
BY CallsAssumption, ShuffleIsOrder DEF CallInv

\* The new number of a caller's row, and the caller's number of a row.
LEMMA NewRowInverts ==
  ASSUME NEW order, order = null \/ IsOrder(order), NEW r \in Rows
  PROVE  /\ NewRow(order, r) \in Rows /\ CallersRow(order, NewRow(order, r)) = r
         /\ CallersRow(order, r) \in Rows /\ NewRow(order, CallersRow(order, r)) = r
<1>1. CASE order = null
  BY <1>1 DEF NewRow, CallersRow
<1>2. CASE order # null
  <2>1. \E i \in Rows : order[i] = r
    BY <1>2 DEF IsOrder
  <2>2. NewRow(order, r) \in Rows /\ order[NewRow(order, r)] = r
    BY <1>2, <2>1 DEF NewRow
  <2>3. order[r] \in Rows /\ \A i \in Rows : order[i] = order[r] => i = r
    BY <1>2 DEF IsOrder
  <2>4. NewRow(order, order[r]) = r
    BY <1>2, <2>3 DEF NewRow
  <2> QED BY <1>2, <2>2, <2>3, <2>4 DEF CallersRow
<1> QED BY <1>1, <1>2

\* What a permutation of the rows makes of a problem.
LEMMA PermutedProblem ==
  ASSUME CallInv
  PROVE  /\ Transmissible(Caller)
         /\ DOMAIN Permuted = {"A", "b", "c", "L"}
         /\ DOMAIN Permuted.A = {<<NewRow(call.order, e[1]), e[2]>> : e \in DOMAIN Caller.A}
         /\ \A e \in DOMAIN Permuted.A :
              Permuted.A[e] = Caller.A[<<CallersRow(call.order, e[1]), e[2]>>]
         /\ DOMAIN Permuted.b = Rows
         /\ \A r \in Rows : Permuted.b[r] = Caller.b[CallersRow(call.order, r)]
         /\ Permuted.c = Caller.c
         /\ DOMAIN Permuted.L = DOMAIN Caller.L
         /\ \A j \in DOMAIN Caller.L :
              Permuted.L[j] = [Caller.L[j] EXCEPT !.row =
                                 IF @ = objective THEN @ ELSE NewRow(call.order, @)]
<1>1. Transmissible(Caller)
  BY CallsAssumption, Compressed DEF CallInv, Caller
<1>2. /\ DOMAIN Caller = {"A", "b", "c", "L"}
      /\ DOMAIN Caller.b = Rows
      /\ DOMAIN Caller.A \subseteq Rows \X Vars
      /\ \A j \in DOMAIN Caller.L : IsInputColumn(Caller.L[j])
  BY <1>1 DEF Transmissible
<1>3. CASE call.order = null
  <2>1. Permuted = Caller
    BY <1>3 DEF Permuted
  <2>2. \A e \in DOMAIN Caller.A : e = <<e[1], e[2]>>
    BY <1>2
  <2>3. \A r : NewRow(call.order, r) = r /\ CallersRow(call.order, r) = r
    BY <1>3 DEF NewRow, CallersRow
  <2>4. DOMAIN Caller.A = {<<e[1], e[2]>> : e \in DOMAIN Caller.A}
    BY <2>2
  <2>5. DOMAIN Caller.A = {<<NewRow(call.order, e[1]), e[2]>> : e \in DOMAIN Caller.A}
    BY <2>3, <2>4
  <2>6. \A e \in DOMAIN Caller.A : Caller.A[e] = Caller.A[<<CallersRow(call.order, e[1]), e[2]>>]
    BY <2>2, <2>3
  <2>7. ASSUME NEW j \in DOMAIN Caller.L
        PROVE  Caller.L[j] = [Caller.L[j] EXCEPT !.row =
                                IF @ = objective THEN @ ELSE NewRow(call.order, @)]
    <3>1. Caller.L[j] = [row |-> Caller.L[j].row, cone |-> Caller.L[j].cone,
                         w |-> Caller.L[j].w, u |-> Caller.L[j].u]
      BY <1>2 DEF IsInputColumn
    <3>2. (IF Caller.L[j].row = objective THEN Caller.L[j].row
           ELSE NewRow(call.order, Caller.L[j].row)) = Caller.L[j].row
      BY <2>3
    <3> DEFINE col == Caller.L[j]
    <3> HIDE DEF col
    <3>3. col = [col EXCEPT !.row = col.row]
      BY <3>1 DEF col
    <3> QED BY <3>2, <3>3 DEF col
  <2> QED BY <1>1, <1>2, <2>1, <2>3, <2>5, <2>6, <2>7
<1>4. CASE call.order # null
  <2>1. Permuted = permute_global_problem_constraints(Caller, call.order)
    BY <1>4 DEF Permuted
  <2>2. /\ DOMAIN Permuted = {"A", "b", "c", "L"}
        /\ Permuted.A = [e \in {<<NewRow(call.order, e[1]), e[2]>> : e \in DOMAIN Caller.A} |->
                           Caller.A[<<CallersRow(call.order, e[1]), e[2]>>]]
        /\ Permuted.b = [r \in Rows |-> Caller.b[CallersRow(call.order, r)]]
        /\ Permuted.c = Caller.c
        /\ Permuted.L = [j \in DOMAIN Caller.L |->
             [Caller.L[j] EXCEPT !.row = IF @ = objective THEN @ ELSE NewRow(call.order, @)]]
    BY <1>2, <2>1 DEF permute_global_problem_constraints
  <2> QED BY <1>1, <2>2
<1> QED BY <1>3, <1>4

LEMMA IInvCopiesAgree == IInv => CopiesAgree
<1> SUFFICES ASSUME IInv, NEW p \in Procs,
                    pc[p] \notin {"start", "grid", "serialize", "barrier", "bcast", "permute",
                                  "aborted"}
             PROVE  /\ perm[p] = call.order
                    /\ DOMAIN problem[p].A
                         = {<<NewRow(perm[p], e[1]), e[2]>> : e \in DOMAIN Caller.A}
                    /\ \A e \in DOMAIN problem[p].A :
                         problem[p].A[e] = Caller.A[<<CallersRow(perm[p], e[1]), e[2]>>]
                    /\ \A r \in Rows : problem[p].b[r] = Caller.b[CallersRow(perm[p], r)]
                    /\ problem[p].c = Caller.c
                    /\ DOMAIN problem[p].L = DOMAIN Caller.L
                    /\ \A j \in DOMAIN Caller.L :
                         LET new == problem[p].L[j]
                             old == Caller.L[j]
                         IN  /\ new.row # objective => CallersRow(perm[p], new.row) = old.row
                             /\ (new.row = objective) = (old.row = objective)
                             /\ new.cone = old.cone /\ new.w = old.w /\ new.u = old.u
  BY DEF CopiesAgree
<1>1. pc[p] \notin Copying
  BY DEF Copying, Unplaced
<1>2. perm[p] = call.order /\ problem[p] = Permuted
  BY <1>1 DEF IInv, CopyInv
<1>3. CallInv
  BY DEF IInv
<1>4. ASSUME NEW j \in DOMAIN Caller.L
      PROVE  LET new == Permuted.L[j]
                 old == Caller.L[j]
             IN  /\ new.row # objective => CallersRow(call.order, new.row) = old.row
                 /\ (new.row = objective) = (old.row = objective)
                 /\ new.cone = old.cone /\ new.w = old.w /\ new.u = old.u
  <2> DEFINE old == Caller.L[j]
             new == Permuted.L[j]
             row == IF old.row = objective THEN old.row ELSE NewRow(call.order, old.row)
  <2>1. IsInputColumn(old)
    BY <1>3, PermutedProblem DEF Transmissible
  <2>2. new = [old EXCEPT !.row = row]
    BY <1>3, PermutedProblem
  <2> HIDE DEF old, new, row
  <2>3. DOMAIN old = {"row", "cone", "w", "u"} /\ old.row \in Rows \union {objective}
    BY <2>1 DEF IsInputColumn
  <2>4. new.row = row /\ new.cone = old.cone /\ new.w = old.w /\ new.u = old.u
    BY <2>2, <2>3
  <2>5. objective \notin Rows
    BY RowsFinite DEF objective, Rows
  <2>6. old.row # objective => row \in Rows /\ CallersRow(call.order, row) = old.row
    BY <1>3, <2>3, CallersOrder, NewRowInverts DEF row
  <2>7. (row = objective) = (old.row = objective)
    BY <2>5, <2>6 DEF row
  <2> QED BY <2>4, <2>6, <2>7 DEF new, old
<1> QED BY <1>2, <1>3, <1>4, PermutedProblem

\* Every process works on the caller's problem, in one order of its rows,
\* whatever the size of the chunks of the broadcast and the order in which
\* the processes send and receive them (big_bcast_bytes, permute_global_
\* problem_constraints).
THEOREM CopiesAlwaysAgree == Spec => []CopiesAgree
BY IInvHolds, IInvCopiesAgree, PTL


-----------------------------------------------------------------------------
(* The part of a process.                                                  *)

\* Scaling changes the numbers of a problem only.
LEMMA ScaledShape ==
  ASSUME CallInv
  PROVE  LET P == ScaledCopy.problem
         IN  /\ DOMAIN P.A = DOMAIN Permuted.A
             /\ DOMAIN P.b = Rows
             /\ DOMAIN P.c = DOMAIN Caller.c
             /\ DOMAIN P.L = DOMAIN Caller.L
             /\ P.L # <<>> => DOMAIN Caller.L # {}
             /\ \A j \in DOMAIN Caller.L : P.L[j].row = Permuted.L[j].row
                                           /\ P.L[j].cone = Caller.L[j].cone
<1> DEFINE s == call.settings
           q == Permuted
           f == RuizFactors(q, s.per_cone)
           d == Divided(q, f)
           e == Bounded(d, BoundScale(d), ObjectiveScale(d))
           P == ScaledCopy.problem
<1>1. /\ DOMAIN q.b = Rows /\ q.c = Caller.c /\ DOMAIN q.L = DOMAIN Caller.L
      /\ \A j \in DOMAIN Caller.L :
           q.L[j] = [Caller.L[j] EXCEPT !.row =
                       IF @ = objective THEN @ ELSE NewRow(call.order, @)]
  BY PermutedProblem
<1>2. \A j \in DOMAIN Caller.L : DOMAIN Caller.L[j] = {"row", "cone", "w", "u"}
  BY PermutedProblem DEF Transmissible, IsInputColumn
<1>3. DOMAIN Caller.L = 1..Len(Caller.L) /\ Len(Caller.L) \in Nat
  BY PermutedProblem DEF Transmissible
<1>4. \A j \in DOMAIN Caller.L : DOMAIN q.L[j] = {"row", "cone", "w", "u"}
                                 /\ q.L[j].cone = Caller.L[j].cone
  BY <1>1, <1>2
<1>5. CASE ~scaling_enabled(s)
  <2>1. P = q
    BY <1>5 DEF ScaledCopy, Rescaled
  <2>2. q.L # <<>> => DOMAIN Caller.L # {}
    <3>1. CASE call.order = null
      <4>1. q.L = Caller.L
        BY <3>1 DEF Permuted
      <4>2. Caller.L \in [1..Len(Caller.L) -> {Caller.L[j] : j \in 1..Len(Caller.L)}]
        BY PermutedProblem DEF Transmissible
      <4> QED BY <1>3, <4>1, <4>2
    <3>2. CASE call.order # null
      <4>1. q.L = [j \in DOMAIN Caller.L |->
               [Caller.L[j] EXCEPT !.row = IF @ = objective THEN @ ELSE NewRow(call.order, @)]]
        <5>1. DOMAIN Caller = {"A", "b", "c", "L"}
          BY PermutedProblem DEF Transmissible
        <5> QED BY <3>2, <5>1 DEF Permuted, permute_global_problem_constraints
      <4> QED BY <4>1
    <3> QED BY <3>1, <3>2
  <2> QED BY <1>1, <1>4, <2>1, <2>2
<1>6. CASE scaling_enabled(s)
  <2>1. P = e
    BY <1>6 DEF ScaledCopy, Rescaled
  <2> HIDE DEF f
  <2>2. /\ DOMAIN d.A = DOMAIN q.A /\ DOMAIN d.b = Rows /\ DOMAIN d.c = DOMAIN q.c
        /\ d.L = [j \in DOMAIN q.L |-> DividedColumn(q.L[j], f)]
    BY DEF Divided
  <2> DEFINE tb == BoundScale(d)
             tc == ObjectiveScale(d)
  <2> HIDE DEF d, tb, tc
  <2>3. /\ DOMAIN e.A = DOMAIN d.A /\ DOMAIN e.b = Rows /\ DOMAIN e.c = DOMAIN d.c
        /\ e.L = [j \in DOMAIN d.L |-> BoundedColumn(d.L[j], tc)]
    BY DEF Bounded, tb, tc
  <2> HIDE DEF e
  <2>4. \A j \in DOMAIN Caller.L : e.L[j].row = q.L[j].row /\ e.L[j].cone = q.L[j].cone
    <3> SUFFICES ASSUME NEW j \in DOMAIN Caller.L
                 PROVE  e.L[j].row = q.L[j].row /\ e.L[j].cone = q.L[j].cone
      OBVIOUS
    <3>1. d.L[j] = DividedColumn(q.L[j], f) /\ j \in DOMAIN d.L
      BY <1>1, <2>2
    <3>2. DOMAIN d.L[j] = {"row", "cone", "w", "u"}
          /\ d.L[j].row = q.L[j].row /\ d.L[j].cone = q.L[j].cone
      BY <3>1 DEF DividedColumn
    <3>3. e.L[j] = BoundedColumn(d.L[j], tc)
      BY <2>3, <3>1
    <3>4. e.L[j].row = d.L[j].row /\ e.L[j].cone = d.L[j].cone
      BY <3>2, <3>3 DEF BoundedColumn
    <3> QED BY <3>2, <3>4
  <2>5. DOMAIN e.L = DOMAIN Caller.L /\ (e.L # <<>> => DOMAIN Caller.L # {})
    BY <1>1, <2>2, <2>3
  <2> QED BY <1>1, <1>4, <2>1, <2>2, <2>3, <2>4, <2>5
<1> QED BY <1>5, <1>6

LEMMA ScaledColumns ==
  ASSUME CallInv
  PROVE  ActiveVars(ScaledCopy.problem) \subseteq Vars
         /\ LinearVars \subseteq ActiveVars(ScaledCopy.problem)
<1> DEFINE P == ScaledCopy.problem
           psd == {e[2] : e \in DOMAIN P.A} \intersect PsdVars
<1>1. P.L # <<>> => <<<<1, 1>>, <<1, 1>>>> \in Vars
  <2> SUFFICES ASSUME P.L # <<>> PROVE <<<<1, 1>>, <<1, 1>>>> \in Vars
    OBVIOUS
  <2>1. PICK j \in DOMAIN Caller.L : TRUE
    BY ScaledShape
  <2>2. Caller.L[j].cone \in Cones
    BY PermutedProblem DEF Transmissible, IsInputColumn
  <2>3. Cones = 1..Len(blk_dims) /\ Len(blk_dims) \in Nat /\ \A k \in Cones : blk_dims[k] \in Nat /\ blk_dims[k] > 0
    BY Dimensions
  <2>4. 1 \in Cones /\ 1 \in 1..blk_dims[1]
    BY <2>2, <2>3
  <2> QED BY <2>4 DEF Vars, PsdVars, ConeSlots
<1>2. psd \subseteq Vars /\ LinearVars \subseteq Vars
  BY DEF Vars
<1>3. ActiveVars(P) = IF psd \union LinearVars = {} /\ P.L # <<>>
                      THEN {<<<<1, 1>>, <<1, 1>>>>} ELSE psd \union LinearVars
  BY DEF ActiveVars
<1> HIDE DEF P, psd
<1> QED BY <1>1, <1>2, <1>3 DEF P


\* A sequence without repetitions that ends with the members of T: they are
\* the last Cardinality(T) ones.
LEMMA SplitAt ==
  ASSUME NEW n \in Nat, NEW S, NEW T \in SUBSET S, NEW cols, cols \in [1..n -> S],
         \A i, j \in 1..n : cols[i] = cols[j] => i = j,
         \A v \in T : \E i \in 1..n : cols[i] = v,
         \A i, j \in 1..n : i < j /\ cols[i] \in T => cols[j] \in T
  PROVE  \A i \in 1..n : i > n - Cardinality(T) <=> cols[i] \in T
<1> DEFINE D == {i \in 1..n : cols[i] \notin T}
           E == {i \in 1..n : cols[i] \in T}
           f == [i \in E |-> cols[i]]
           d == Cardinality(D)
<1>1. d \in Nat /\ D = 1..d
  <2>1. D \in SUBSET (1..n)
    OBVIOUS
  <2>2. \A i \in D, j \in 1..n : j <= i => j \in D
    <3> SUFFICES ASSUME NEW i \in D, NEW j \in 1..n, j <= i, cols[j] \in T PROVE FALSE
      OBVIOUS
    <3>1. j < i \/ j = i
      OBVIOUS
    <3> QED BY <3>1
  <2> HIDE DEF D
  <2> QED BY <2>1, <2>2, InitialPositions
<1>2. d <= n
  <2>1. D \subseteq 1..n
    OBVIOUS
  <2> HIDE DEF d, D
  <2>2. d # 0 => d \in 1..d
    BY <1>1
  <2> QED BY <1>1, <2>1, <2>2
<1>3. E = (d + 1)..n
  <2>1. \A i \in 1..n : i \in D <=> i \in 1..d
    BY <1>1
  <2>2. \A i \in 1..n : i \in E <=> i \notin D
    OBVIOUS
  <2>3. \A i \in 1..n : i \in E <=> i > d
    <3> HIDE DEF D, E
    <3> QED BY <1>1, <2>1, <2>2
  <2>4. E \subseteq 1..n
    OBVIOUS
  <2> HIDE DEF d, E
  <2>5. \A i \in (d + 1)..n : i \in 1..n /\ i > d
    BY <1>1
  <2>6. \A i \in 1..n : i > d => i \in (d + 1)..n
    BY <1>1
  <2> QED BY <2>3, <2>4, <2>5, <2>6
<1>4. IsFiniteSet(E) /\ Cardinality(E) = n - d
  <2>1. IsFiniteSet((d + 1)..n) /\ Cardinality((d + 1)..n) = IF d + 1 > n THEN 0 ELSE n - (d + 1) + 1
    <3> HIDE DEF d
    <3> QED BY <1>1, FS_Interval
  <2> HIDE DEF d, E
  <2> QED BY <1>1, <1>2, <1>3, <2>1
<1>5. Cardinality(T) = Cardinality(E)
  <2>1. f \in [E -> T]
    OBVIOUS
  <2>2. \A x, y \in E : f[x] = f[y] => x = y
    OBVIOUS
  <2>3. \A z \in T : \E x \in E : f[x] = z
    OBVIOUS
  <2> HIDE DEF f, E
  <2> QED BY <1>4, <2>1, <2>2, <2>3, SameCount
<1>6. \A i \in 1..n : (i \in E) = (cols[i] \in T)
  OBVIOUS
<1> HIDE DEF d, E
<1> QED BY <1>1, <1>2, <1>3, <1>4, <1>5, <1>6


\* The cones of a part are listed once each, and its units are linear ones.
LEMMA OwnedShape ==
  ASSUME NEW p \in Procs
  PROVE  /\ Len(OwnedBy(p).cones) \in Nat
         /\ DOMAIN OwnedBy(p).cones = 1..Len(OwnedBy(p).cones)
         /\ \A l \in DOMAIN OwnedBy(p).cones : OwnedBy(p).cones[l] \in Cones
         /\ \A l, h \in DOMAIN OwnedBy(p).cones :
              l < h => OwnedBy(p).cones[l] < OwnedBy(p).cones[h]
         /\ OwnedBy(p).units \subseteq LpUnits \union FreeUnits
         /\ OwnedBy(p).cones =
              LET mine == {k \in Cones :
                    compute_cone_assignment(ScaledCopy.problem, Dims(call.grid)[3]).blk[k]
                      = Coordinates(p)[3]}
              IN  Sorted(mine, Increasing(mine))
<1> DEFINE a == compute_cone_assignment(ScaledCopy.problem, Dims(call.grid)[3])
           mine == {k \in Cones : a.blk[k] = Coordinates(p)[3]}
<1>1. OwnedBy(p).cones = Sorted(mine, Increasing(mine))
  BY DEF OwnedBy, Part
<1>2. OwnedBy(p).units \subseteq LpUnits \union FreeUnits
  BY DEF OwnedBy, Part
<1>3. mine \in SUBSET Int /\ IsFiniteSet(mine)
  <2>1. mine \subseteq 1..Len(blk_dims) /\ Len(blk_dims) \in Nat
    BY Dimensions
  <2> DEFINE n == Len(blk_dims)
  <2> HIDE DEF mine
  <2>2. mine \subseteq 1..n /\ n \in Int /\ 1 \in Int
    BY <2>1
  <2> HIDE DEF n
  <2>3. IsFiniteSet(1..n)
    BY <2>2, FS_Interval
  <2>4. IsFiniteSet(mine)
    BY <2>2, <2>3, FS_Subset
  <2>5. mine \in SUBSET Int
    BY <2>2
  <2> QED BY <2>4, <2>5
<1>4. mine \subseteq Cones
  OBVIOUS
<1>5. \A k \in Cones : k \in Int
  BY Dimensions
<1> DEFINE s == Sorted(mine, Increasing(mine))
           n == Cardinality(mine)
<1> HIDE DEF mine
<1>6. /\ n \in Nat
      /\ s \in [1..n -> mine]
      /\ \A i, j \in 1..n : i < j => s[i] < s[j]
  BY <1>3, SortedNumbers
<1> HIDE DEF s, n
<1>7. Len(s) = n /\ DOMAIN s = 1..n
  BY <1>6
<1>8. OwnedBy(p).cones = s
  BY <1>1 DEF s
<1>9. \A l \in 1..n : s[l] \in Cones
  BY <1>4, <1>6
<1> QED BY <1>1, <1>2, <1>6, <1>7, <1>8, <1>9 DEF mine, a

\* The local columns are variables in the order of their positions, the
\* linear ones those of the units of the process.
LEMMA ColumnsListed ==
  ASSUME CallInv, NEW p \in Procs
  PROVE  /\ Len(PartOf(p).cols) \in Nat
         /\ PartOf(p).cols \in [1..Len(PartOf(p).cols) -> Vars]
         /\ \A i, j \in 1..Len(PartOf(p).cols) :
              i < j => Position[PartOf(p).cols[i]] < Position[PartOf(p).cols[j]]
         /\ \A u \in OwnedBy(p).units :
              \E i \in 1..Len(PartOf(p).cols) : PartOf(p).cols[i] = <<u>>
         /\ \A i \in 1..Len(PartOf(p).cols) :
              PartOf(p).cols[i] \in LinearVars => PartOf(p).cols[i][1] \in OwnedBy(p).units
<1> DEFINE P == ScaledCopy.problem
           own == OwnedBy(p)
           vs == {v \in ActiveVars(P) : Kept(P, own, v)}
           cols == PartOf(p).cols
           k == own.cones[1]
<1>1. cols = IF ByPosition(vs) = <<>> /\ own.cones # <<>>
             THEN <<<<<<k, 1>>, <<k, 1>>>>>> ELSE ByPosition(vs)
  BY DEF PartOf, partition_problem, LocalColumns
<1>2. vs \subseteq Vars
  BY ScaledColumns
<1>3. \A u \in own.units : <<u>> \in vs
  <2> SUFFICES ASSUME NEW u \in own.units PROVE <<u>> \in vs
    OBVIOUS
  <2>1. <<u>> \in LinearVars
    BY OwnedShape DEF LinearVars
  <2>2. <<u>> \in ActiveVars(P)
    BY <2>1, ScaledColumns
  <2>3. <<u>>[1] = u
    OBVIOUS
  <2> QED BY <2>1, <2>2, <2>3 DEF Kept, Owned
<1>4. \A v \in vs : v \in LinearVars => v[1] \in own.units
  BY DEF Kept, Owned
<1>5. /\ Cardinality(vs) \in Nat
      /\ ByPosition(vs) \in [1..Cardinality(vs) -> vs]
      /\ ByPosition(vs) \in Seq(vs)
      /\ Len(ByPosition(vs)) = Cardinality(vs)
      /\ \A v \in vs : \E i \in 1..Cardinality(vs) : ByPosition(vs)[i] = v
      /\ \A i, j \in 1..Cardinality(vs) :
           i < j => Position[ByPosition(vs)[i]] < Position[ByPosition(vs)[j]]
  <2> HIDE DEF vs
  <2> QED BY <1>2, Positions
<1> HIDE DEF vs, own
<1>6. CASE ByPosition(vs) = <<>> /\ own.cones # <<>>
  <2>1. cols = <<<<<<k, 1>>, <<k, 1>>>>>>
    BY <1>1, <1>6
  <2>2. vs = {}
    BY <1>5, <1>6
  <2>3. 1 \in DOMAIN own.cones
    <3>1. /\ Len(own.cones) \in Nat /\ DOMAIN own.cones = 1..Len(own.cones)
          /\ own.cones = LET mine == {c \in Cones :
                  compute_cone_assignment(P, Dims(call.grid)[3]).blk[c] = Coordinates(p)[3]}
                IN  Sorted(mine, Increasing(mine))
      BY OwnedShape DEF own
    <3>2. own.cones = [i \in DOMAIN own.cones |-> own.cones[i]]
      BY <3>1, Zenon DEF Sorted
    <3>3. CASE Len(own.cones) = 0
      <4> DEFINE n == Len(own.cones)
      <4>0. n = 0 /\ DOMAIN own.cones = 1..n
        BY <3>1, <3>3
      <4> HIDE DEF n
      <4>1. DOMAIN own.cones = {}
        BY <4>0
      <4>2. own.cones = <<>>
        BY <3>2, <4>1
      <4> QED BY <1>6, <4>2
    <3> QED BY <3>1, <3>3
  <2>4. k \in Cones
    BY <2>3, OwnedShape DEF own
  <2>5. 1 \in 1..blk_dims[k]
    BY <2>4, Dimensions
  <2>6. <<<<k, 1>>, <<k, 1>>>> \in PsdVars
    BY <2>4, <2>5 DEF PsdVars, ConeSlots
  <2>7. <<<<k, 1>>, <<k, 1>>>> \in Vars /\ <<<<k, 1>>, <<k, 1>>>> \notin LinearVars
    BY <2>6 DEF Vars, LinearVars
  <2>8. own.units = {}
    BY <1>3, <2>2
  <2> DEFINE w == <<<<k, 1>>, <<k, 1>>>>
  <2>9. Len(cols) = 1 /\ cols \in [1..1 -> Vars] /\ cols[1] = w
    BY <2>1, <2>7
  <2> HIDE DEF w, cols
  <2>10. \A i \in 1..1 : i = 1
    OBVIOUS
  <2>11. w \notin LinearVars
    BY <2>7 DEF w
  <2> QED BY <2>8, <2>9, <2>10, <2>11 DEF cols, own
<1>7. CASE ~(ByPosition(vs) = <<>> /\ own.cones # <<>>)
  <2>1. cols = ByPosition(vs)
    BY <1>1, <1>7
  <2> HIDE DEF cols
  <2>2. Len(cols) = Cardinality(vs) /\ cols \in [1..Len(cols) -> Vars] /\ Len(cols) \in Nat
    BY <1>2, <1>5, <2>1
  <2>3. \A i, j \in 1..Len(cols) : i < j => Position[cols[i]] < Position[cols[j]]
    BY <1>5, <2>1
  <2>4. \A u \in own.units : \E i \in 1..Len(cols) : cols[i] = <<u>>
    BY <1>3, <1>5, <2>1
  <2>5. \A i \in 1..Len(cols) : cols[i] \in LinearVars => cols[i][1] \in own.units
    BY <1>4, <1>5, <2>1
  <2> QED BY <2>2, <2>3, <2>4, <2>5 DEF cols, own
<1> QED BY <1>6, <1>7

LEMMA IInvLinearColumnsLast == IInv => LinearColumnsLast
<1> SUFFICES ASSUME IInv, NEW p \in Procs, local[p] # null
             PROVE  LET part == local[p].part
                    IN  /\ \A i, j \in DOMAIN part.cols :
                             i < j => Position[part.cols[i]] < Position[part.cols[j]]
                        /\ {<<u>> : u \in part.units} \subseteq ToSet(part.cols)
                        /\ \A i \in DOMAIN part.cols :
                             /\ (i > part.free_start) = (part.cols[i][1] \in FreeUnits)
                             /\ (i > part.lp_start) = (part.cols[i] \in LinearVars)
  BY DEF LinearColumnsLast
<1>1. CallInv /\ GridInv /\ LocalInv
  BY DEF IInv
<1>2. pc[p] \in Taken
  BY <1>1 DEF LocalInv
<1> DEFINE part == local[p].part
           cols == PartOf(p).cols
           n == Len(cols)
           units == OwnedBy(p).units
           free == units \intersect FreeUnits
<1>3. part.cols = cols /\ part.units = PartOf(p).units
      /\ part.free_start = PartOf(p).free_start /\ part.lp_start = PartOf(p).lp_start
  BY <1>1, <1>2, LocalFields
<1>4. /\ PartOf(p).units = units
      /\ PartOf(p).free_start = n - Cardinality(free)
      /\ PartOf(p).lp_start = n - Cardinality(units)
  BY DEF PartOf, partition_problem
<1>5. /\ n \in Nat /\ cols \in [1..n -> Vars]
      /\ \A i, j \in 1..n : i < j => Position[cols[i]] < Position[cols[j]]
      /\ \A u \in units : \E i \in 1..n : cols[i] = <<u>>
      /\ \A i \in 1..n : cols[i] \in LinearVars => cols[i][1] \in units
  BY <1>1, ColumnsListed
<1>6. units \subseteq LpUnits \union FreeUnits
  BY OwnedShape
<1> HIDE DEF part, cols, n, units
<1>7. \A i, j \in 1..n : cols[i] = cols[j] => i = j
  <2> SUFFICES ASSUME NEW i \in 1..n, NEW j \in 1..n, cols[i] = cols[j], i # j PROVE FALSE
    OBVIOUS
  <2>1. i < j \/ j < i
    BY <1>5
  <2>2. Position[cols[i]] \in Nat
    BY <1>5, PositionBounds
  <2> QED BY <1>5, <2>1, <2>2
<1>8. \A v \in Vars : v \in LinearVars => v = <<v[1]>> /\ v[1] \in LpUnits \union FreeUnits
  BY DEF LinearVars
<1>9. \A v \in Vars : v[1] \in FreeUnits => v \in LinearVars
  <2> TAKE v \in Vars
  <2> HAVE v[1] \in FreeUnits
  <2>1. CASE v \in PsdVars
    <3>1. PICK k \in Cones : \E i, j \in 1..blk_dims[k] : v = <<<<k, i>>, <<k, j>>>>
      BY <2>1, VarShapes
    <3>2. v[1][1] = k /\ k >= 1
      BY <3>1, Dimensions
    <3> QED BY <3>2 DEF FreeUnits
  <2>2. CASE v \in LinearVars
    BY <2>2
  <2> QED BY <2>1, <2>2 DEF Vars
<1>10. \A v, w \in Vars : v \in LinearVars /\ Position[v] < Position[w] => w \in LinearVars
  <2> TAKE v, w \in Vars
  <2>1. /\ Position[v] \in Nat /\ Position[w] \in Nat
        /\ v \in LinearVars => Position[v] >= total_n_orig
        /\ w \in PsdVars => Position[w] < total_n_orig
    BY PositionBounds
  <2>2. w \in PsdVars \/ w \in LinearVars
    BY DEF Vars
  <2>3. total_n_orig \in Nat
    BY ConePointers
  <2> QED BY <2>1, <2>2, <2>3
<1>11. \A v, w \in Vars : v[1] \in FreeUnits /\ Position[v] < Position[w] => w[1] \in FreeUnits
  <2> TAKE v, w \in Vars
  <2> HAVE v[1] \in FreeUnits /\ Position[v] < Position[w]
  <2>1. v \in LinearVars /\ w \in LinearVars
    BY <1>9, <1>10
  <2>2. /\ Position[v] \in Nat /\ Position[w] \in Nat
        /\ Position[v] >= total_n_orig + lp_dim
        /\ w[1] \notin FreeUnits => Position[w] < total_n_orig + lp_dim
    BY <2>1, PositionBounds
  <2>3. total_n_orig \in Nat /\ lp_dim \in Nat
    BY ConePointers, SizesAssumption
  <2> QED BY <2>2, <2>3
<1>12. ASSUME NEW us \in SUBSET units,
              \A i, j \in 1..n : i < j /\ cols[i] \in LinearPart(us) => cols[j] \in LinearPart(us)
       PROVE  \A i \in 1..n : (i > n - Cardinality(us)) = (cols[i] \in LinearPart(us))
  <2> DEFINE T == LinearPart(us)
             f == [v \in T |-> v[1]]
  <2>1. T \subseteq Vars
    BY <1>6 DEF LinearPart, Vars, LinearVars
  <2>2. \A v \in T : \E i \in 1..n : cols[i] = v
    BY <1>5 DEF LinearPart
  <2>3. f \in [T -> us] /\ (\A x, y \in T : f[x] = f[y] => x = y)
        /\ \A z \in us : \E x \in T : f[x] = z
    <3>1. \A v \in T : v = <<v[1]>> /\ v[1] \in us
      BY DEF LinearPart
    <3>2. \A z \in us : <<z>> \in T /\ <<z>>[1] = z
      BY DEF LinearPart
    <3>3. f = [v \in T |-> v[1]]
      OBVIOUS
    <3> HIDE DEF T, f
    <3>4. f \in [T -> us]
      BY <3>1, <3>3
    <3>5. \A x, y \in T : f[x] = f[y] => x = y
      BY <3>1, <3>3
    <3>6. \A z \in us : \E x \in T : f[x] = z
      BY <3>2, <3>3
    <3> QED BY <3>4, <3>5, <3>6
  <2> HIDE DEF f
  <2>4. IsFiniteSet(T)
    BY <2>1, VarsFinite
  <2>5. Cardinality(us) = Cardinality(T)
    <3> HIDE DEF T
    <3> QED BY <2>3, <2>4, SameCount
  <2>6. \A i, j \in 1..n : i < j /\ cols[i] \in T => cols[j] \in T
    BY <1>12
  <2> HIDE DEF T
  <2>7. \A i \in 1..n : i > n - Cardinality(T) <=> cols[i] \in T
    <3>1. n \in Nat /\ T \in SUBSET Vars /\ cols \in [1..n -> Vars]
      BY <1>5, <2>1
    <3> QED BY <1>7, <2>2, <2>6, <3>1, SplitAt
  <2> QED BY <2>5, <2>7 DEF T
<1>13. \A i \in 1..n : cols[i] \in LinearPart(units) <=> cols[i] \in LinearVars
  BY <1>5, <1>6, <1>8 DEF LinearPart, LinearVars
<1>14. \A i \in 1..n : cols[i] \in LinearPart(free) <=> cols[i][1] \in FreeUnits
  <2> TAKE i \in 1..n
  <2>1. cols[i] \in Vars
    BY <1>5
  <2>2. ASSUME cols[i] \in LinearPart(free) PROVE cols[i][1] \in FreeUnits
    BY <2>2 DEF LinearPart
  <2>3. ASSUME cols[i][1] \in FreeUnits PROVE cols[i] \in LinearPart(free)
    <3>1. cols[i] \in LinearVars
      BY <1>9, <2>1, <2>3
    <3>2. cols[i][1] \in free /\ cols[i] = <<cols[i][1]>>
      BY <1>5, <1>8, <2>1, <2>3, <3>1
    <3> QED BY <3>2 DEF LinearPart
  <2> QED BY <2>2, <2>3
<1>15. \A i \in 1..n : (i > n - Cardinality(units)) = (cols[i] \in LinearVars)
  <2>1. \A i, j \in 1..n : i < j /\ cols[i] \in LinearPart(units) => cols[j] \in LinearPart(units)
    BY <1>5, <1>10, <1>13
  <2>2. \A i \in 1..n : (i > n - Cardinality(units)) = (cols[i] \in LinearPart(units))
    BY <1>12, <2>1
  <2> QED BY <1>13, <2>2
<1>16. \A i \in 1..n : (i > n - Cardinality(free)) = (cols[i][1] \in FreeUnits)
  <2>1. \A i, j \in 1..n : i < j /\ cols[i] \in LinearPart(free) => cols[j] \in LinearPart(free)
    BY <1>5, <1>11, <1>14
  <2>2. free \in SUBSET units
    OBVIOUS
  <2>3. \A i \in 1..n : (i > n - Cardinality(free)) = (cols[i] \in LinearPart(free))
    <3> HIDE DEF free
    <3> QED BY <1>12, <2>1, <2>2
  <2> HIDE DEF free
  <2> QED BY <1>14, <2>3
<1>17. DOMAIN part.cols = 1..n /\ {<<u>> : u \in part.units} \subseteq ToSet(part.cols)
  <2>1. DOMAIN cols = 1..n
    BY <1>5
  <2>2. \A u \in units : <<u>> \in ToSet(cols)
    BY <1>5, <2>1 DEF ToSet
  <2> QED BY <1>3, <1>4, <2>1, <2>2 DEF part
<1> HIDE DEF free
<1> QED BY <1>3, <1>4, <1>5, <1>15, <1>16, <1>17 DEF part

\* On every process the local columns keep the order of positions, with the
\* LP's and then the free ones at the end, all of them, from the offsets the
\* process computes by counting (partition_problem).
THEOREM LinearColumnsAlwaysLast == Spec => []LinearColumnsLast
BY IInvHolds, IInvLinearColumnsLast, PTL


-----------------------------------------------------------------------------
(* The ranges of rows.                                                     *)

LEMMA Reaching ==
  ASSUME NEW prefix, \A r \in 0..num_constraints : prefix[r] \in Int,
         NEW lo \in 0..num_constraints, NEW target \in Int
  PROVE  LET i == FirstReaching(prefix, lo, target)
         IN  /\ i \in lo..num_constraints
             /\ i = num_constraints \/ prefix[i] >= target
             /\ \A j \in lo..(i - 1) : prefix[j] < target
<1> DEFINE m == num_constraints
           Z == {i \in lo..m : i = m \/ prefix[i] >= target}
           FirstRow(i) == /\ i = m \/ prefix[i] >= target
                       /\ \A j \in lo..(i - 1) : prefix[j] < target
<1>1. m \in Nat /\ lo \in Int
  BY SizesAssumption
<1>2. IsFiniteSet(Z) /\ Z \in SUBSET Int /\ Z # {}
  <2>1. IsFiniteSet(lo..m)
    BY <1>1, FS_Interval
  <2>2. Z \in SUBSET (lo..m)
    OBVIOUS
  <2>3. IsFiniteSet(Z)
    BY <2>1, <2>2, FS_Subset
  <2>4. m \in Z
    BY <1>1
  <2> QED BY <1>1, <2>3, <2>4
<1>3. PICK x \in Z : \A y \in Z : x <= y
  <2> HIDE DEF Z
  <2> QED BY <1>2, MinimumExists
<1>4. \A j \in lo..(x - 1) : prefix[j] < target
  <2> SUFFICES ASSUME NEW j \in lo..(x - 1), ~(prefix[j] < target) PROVE FALSE
    OBVIOUS
  <2>1. x \in lo..m
    OBVIOUS
  <2>2. j \in lo..m /\ j < x /\ j \in 0..m
    BY <1>1, <2>1
  <2>3. prefix[j] \in Int
    BY <2>2
  <2>4. prefix[j] >= target
    BY <2>3
  <2>5. j \in Z
    BY <2>2, <2>4
  <2> QED BY <1>1, <1>3, <2>2, <2>5
<1>5. x \in lo..m /\ FirstRow(x)
  BY <1>4
<1>6. FirstReaching(prefix, lo, target) = CHOOSE i \in lo..m : FirstRow(i)
  BY DEF FirstReaching
<1> HIDE DEF FirstRow
<1>7. FirstReaching(prefix, lo, target) \in lo..m /\ FirstRow(FirstReaching(prefix, lo, target))
  BY <1>5, <1>6
<1> QED BY <1>7 DEF FirstRow

\* The first index from a later start on, when all before it fall short.
LEMMA ReachingFrom ==
  ASSUME NEW prefix, \A r \in 0..num_constraints : prefix[r] \in Int,
         NEW t \in Int, NEW u \in Int, t <= u
  PROVE  FirstReaching(prefix, FirstReaching(prefix, 0, t), u) = FirstReaching(prefix, 0, u)
<1> DEFINE m == num_constraints
           s == FirstReaching(prefix, 0, t)
           a == FirstReaching(prefix, s, u)
           b == FirstReaching(prefix, 0, u)
<1>1. m \in Nat /\ 0 \in 0..m
  BY SizesAssumption
<1>2. s \in 0..m /\ \A j \in 0..(s - 1) : prefix[j] < t
  BY <1>1, Reaching
<1>3. b \in 0..m /\ (b = m \/ prefix[b] >= u) /\ \A j \in 0..(b - 1) : prefix[j] < u
  BY <1>1, Reaching
<1> HIDE DEF s
<1>4. a \in s..m /\ (a = m \/ prefix[a] >= u) /\ \A j \in s..(a - 1) : prefix[j] < u
  BY <1>2, Reaching
<1> HIDE DEF a, b
<1>5. \A j \in 0..(a - 1) : prefix[j] < u
  <2> TAKE j \in 0..(a - 1)
  <2>1. j \in 0..m /\ prefix[j] \in Int
    BY <1>1, <1>4, <1>2
  <2>2. CASE j < s
    <3>1. j \in 0..(s - 1)
      BY <1>2, <2>2
    <3> QED BY <1>2, <2>1, <3>1
  <2>3. CASE s <= j
    <3>1. j \in s..(a - 1)
      BY <1>2, <1>4, <2>3
    <3> QED BY <1>4, <3>1
  <2> QED BY <1>2, <2>2, <2>3
<1>6. ~(a < b)
  <2> SUFFICES ASSUME a < b PROVE FALSE
    OBVIOUS
  <2>1. a \in 0..(b - 1) /\ a # m /\ a \in 0..m
    BY <1>1, <1>2, <1>3, <1>4
  <2> QED BY <1>3, <1>4, <2>1
<1>7. ~(b < a)
  <2> SUFFICES ASSUME b < a PROVE FALSE
    OBVIOUS
  <2>1. b \in 0..(a - 1) /\ b # m
    BY <1>1, <1>2, <1>3, <1>4
  <2>2. prefix[b] \in Int
    BY <1>3
  <2> QED BY <1>3, <1>5, <2>1, <2>2
<1>8. a = b
  BY <1>2, <1>3, <1>4, <1>6, <1>7
<1> QED BY <1>8 DEF a, b, s


\* Shares of n things over P, one after the other.
LEMMA SharesTile ==
  ASSUME NEW n \in Nat, NEW P \in Nat \ {0}
  PROVE  /\ ShareStart(n, P, 0) = 0
         /\ \A i \in 0..(P - 1) :
              /\ ShareStart(n, P, i) \in 0..n
              /\ Share(n, P, i) \in Nat
              /\ ShareStart(n, P, i) + Share(n, P, i) \in 0..n
              /\ ShareStart(n, P, i) + Share(n, P, i)
                   = IF i = P - 1 THEN n ELSE ShareStart(n, P, i + 1)
<1> DEFINE q == Quot(n, P)
           r == Rem(n, P)
<1>1. q \in Nat /\ r \in 0..(P - 1) /\ n = q * P + r
  BY DivMod
<1>2. \A i : /\ Share(n, P, i) = q + IF i < r THEN 1 ELSE 0
             /\ ShareStart(n, P, i) = i * q + IF i < r THEN i ELSE r
  BY DEF Share, ShareStart, Quot, Rem
<1> HIDE DEF q, r
<1>3. ShareStart(n, P, 0) = 0
  BY <1>1, <1>2
<1>4. ASSUME NEW i \in 0..(P - 1)
      PROVE  /\ ShareStart(n, P, i) \in 0..n
             /\ Share(n, P, i) \in Nat
             /\ ShareStart(n, P, i) + Share(n, P, i) \in 0..n
             /\ ShareStart(n, P, i) + Share(n, P, i)
                  = IF i = P - 1 THEN n ELSE ShareStart(n, P, i + 1)
  <2> DEFINE x == i * q
             y == P * q
             z == (i + 1) * q
  <2>1. x \in Nat /\ z = x + q /\ y \in Nat /\ n = y + r
    BY <1>1
  <2>2. z <= y /\ (i = P - 1 => z = y)
    <3>1. i = P - 1 => z = y
      <4>1. i = P - 1 => i + 1 = P
        OBVIOUS
      <4> QED BY <4>1
    <3>2. i < P - 1 => (i + 1) * q + q <= P * q
      <4> SUFFICES ASSUME i < P - 1 PROVE (i + 1) * q + q <= P * q
        OBVIOUS
      <4>1. i + 1 \in Nat /\ i + 1 < P
        OBVIOUS
      <4> QED BY <1>1, <4>1, Steps
    <3>3. i = P - 1 \/ i < P - 1
      OBVIOUS
    <3>4. z \in Nat
      BY <1>1
    <3>5. i < P - 1 => z + q <= y
      BY <3>2
    <3> HIDE DEF x, y, z
    <3> QED BY <1>1, <2>1, <3>1, <3>3, <3>4, <3>5
  <2>3. /\ Share(n, P, i) = q + IF i < r THEN 1 ELSE 0
        /\ ShareStart(n, P, i) = x + IF i < r THEN i ELSE r
        /\ ShareStart(n, P, i + 1) = z + IF i + 1 < r THEN i + 1 ELSE r
    BY <1>2
  <2> HIDE DEF x, y, z
  <2> QED BY <1>1, <2>1, <2>2, <2>3
<1> QED BY <1>3, <1>4

\* Consecutive ranges meet, the first starts at the first row and the last
\* ends at the last one.
LEMMA RangesTile ==
  ASSUME NEW prefix, \A r \in 0..num_constraints : prefix[r] \in Nat,
         prefix[0] = 0, NEW P \in Nat \ {0}
  PROVE  /\ RowRange(prefix, P, 0).start = 0
         /\ \A i \in 0..(P - 1) :
              /\ RowRange(prefix, P, i).start \in 0..num_constraints
              /\ RowRange(prefix, P, i).end \in 0..num_constraints
              /\ RowRange(prefix, P, i).start <= RowRange(prefix, P, i).end
              /\ RowRange(prefix, P, i).end
                   = IF i = P - 1 THEN num_constraints ELSE RowRange(prefix, P, i + 1).start
<1> DEFINE m == num_constraints
           total == prefix[m]
           target(i) == (total * i) \div P
           a(i) == FirstReaching(prefix, 0, target(i))
<1>1. m \in Nat /\ m \in 0..m
  BY SizesAssumption
<1>2. CASE P <= 1
  <2>1. \A i : RowRange(prefix, P, i).start = 0 /\ RowRange(prefix, P, i).end = m
    BY <1>2 DEF RowRange
  <2>2. P = 1
    BY <1>2
  <2> QED BY <1>1, <2>1, <2>2
<1>3. CASE ~(P <= 1) /\ total = 0
  <2>1. \A i : /\ RowRange(prefix, P, i).start = ShareStart(m, P, i)
               /\ RowRange(prefix, P, i).end = ShareStart(m, P, i) + Share(m, P, i)
    BY <1>3 DEF RowRange
  <2>2. /\ ShareStart(m, P, 0) = 0
        /\ \A i \in 0..(P - 1) :
             /\ ShareStart(m, P, i) \in 0..m
             /\ Share(m, P, i) \in Nat
             /\ ShareStart(m, P, i) + Share(m, P, i) \in 0..m
             /\ ShareStart(m, P, i) + Share(m, P, i)
                  = IF i = P - 1 THEN m ELSE ShareStart(m, P, i + 1)
    BY <1>1, SharesTile
  <2> QED BY <1>1, <2>1, <2>2
<1>4. CASE ~(P <= 1) /\ total # 0
  <2>1. \A i : /\ RowRange(prefix, P, i).start = a(i)
               /\ RowRange(prefix, P, i).end
                    = IF i = P - 1 THEN m ELSE FirstReaching(prefix, a(i), target(i + 1))
    BY <1>4 DEF RowRange
  <2>2. total \in Nat
    BY <1>1
  <2> HIDE DEF total
  <2>3. ASSUME NEW i \in Nat PROVE target(i) \in Nat /\ target(i) <= target(i + 1)
    <3>1. total * i \in Nat /\ total * (i + 1) \in Nat /\ total * i <= total * (i + 1)
      BY <2>2
    <3>2. target(i) = Quot(total * i, P) /\ target(i + 1) = Quot(total * (i + 1), P)
      BY DEF Quot
    <3> DEFINE x == total * i
               y == total * (i + 1)
    <3> HIDE DEF x, y, target
    <3>3. Quot(x, P) <= Quot(y, P) /\ Quot(x, P) \in Nat
      <4>1. x \in Nat /\ y \in Nat /\ x <= y
        BY <3>1 DEF x, y
      <4>2. Quot(x, P) <= Quot(y, P)
        BY <4>1, QuotMonotone
      <4>3. Quot(x, P) \in Nat
        BY <4>1, DivMod
      <4> QED BY <4>2, <4>3
    <3> QED BY <3>2, <3>3 DEF x, y
  <2>4. target(0) = 0
    <3>1. total * 0 = 0 * P + 0 /\ 0 \in Nat /\ 0 \in 0..(P - 1)
      BY <2>2
    <3>2. Quot(0 * P + 0, P) = 0
      BY <3>1, DivModOf
    <3> QED BY <3>1, <3>2 DEF Quot
  <2> HIDE DEF target
  <2>5. ASSUME NEW i \in Nat PROVE a(i) \in 0..m
    <3>1. target(i) \in Int /\ 0 \in 0..m
      BY <1>1, <2>3
    <3> QED BY <3>1, Reaching
  <2>6. a(0) = 0
    <3>1. a(0) \in 0..m /\ \A j \in 0..(a(0) - 1) : prefix[j] < 0
      BY <1>1, <2>4, Reaching
    <3> HIDE DEF a
    <3>2. a(0) # 0 => 0 \in 0..(a(0) - 1)
      BY <3>1
    <3> QED BY <3>1, <3>2
  <2>7. ASSUME NEW i \in Nat
        PROVE  /\ FirstReaching(prefix, a(i), target(i + 1)) = a(i + 1)
               /\ a(i) <= a(i + 1)
    <3>1. target(i) \in Int /\ target(i + 1) \in Int /\ target(i) <= target(i + 1)
      BY <2>3
    <3>2. FirstReaching(prefix, a(i), target(i + 1)) = a(i + 1)
      BY <3>1, ReachingFrom
    <3>3. a(i) \in 0..m
      BY <2>5
    <3> DEFINE s == a(i)
    <3> HIDE DEF s
    <3>4. FirstReaching(prefix, s, target(i + 1)) \in s..m
      BY <3>1, <3>3, Reaching DEF s
    <3>5. s \in 0..m
      BY <3>3 DEF s
    <3> HIDE DEF a
    <3> QED BY <3>2, <3>4, <3>5 DEF s
  <2> HIDE DEF a
  <2> QED BY <1>1, <2>1, <2>5, <2>6, <2>7, SMTT(30)
<1> QED BY <1>2, <1>3, <1>4


LEMMA ScaledEntries ==
  ASSUME CallInv
  PROVE  /\ DOMAIN ScaledCopy.problem.A \subseteq Rows \X Vars
         /\ IsFiniteSet(DOMAIN ScaledCopy.problem.A)
<1>1. DOMAIN ScaledCopy.problem.A
        = {<<NewRow(call.order, e[1]), e[2]>> : e \in DOMAIN Caller.A}
  BY ScaledShape, PermutedProblem
<1>2. DOMAIN Caller.A \subseteq Rows \X Vars
  BY PermutedProblem DEF Transmissible
<1>3. \A e \in DOMAIN Caller.A : NewRow(call.order, e[1]) \in Rows
  BY <1>2, CallersOrder, NewRowInverts
<1>4. DOMAIN ScaledCopy.problem.A \subseteq Rows \X Vars
  BY <1>1, <1>2, <1>3
<1>5. IsFiniteSet(Rows \X Vars)
  BY RowsFinite, VarsFinite, FS_Product
<1> QED BY <1>4, <1>5, FS_Subset

LEMMA PrefixIsSum ==
  ASSUME CallInv
  PROVE  /\ \A r \in 0..num_constraints : Prefix(ScaledCopy.problem)[r] \in Nat
         /\ Prefix(ScaledCopy.problem)[0] = 0
<1> DEFINE P == ScaledCopy.problem
           cost == [r \in Rows |-> RowCost(P, r)]
<1>1. \A r \in Rows : RowCost(P, r) \in Nat
  <2> SUFFICES ASSUME NEW r \in Rows PROVE RowCost(P, r) \in Nat
    OBVIOUS
  <2> DEFINE E == {e \in DOMAIN P.A : e[1] = r}
             C == ColumnsOf(P, r)
             w == [j \in C |-> blk_dims[P.L[j].cone]]
  <2>1. Cardinality(E) \in Nat
    <3>1. IsFiniteSet(DOMAIN P.A) /\ E \in SUBSET DOMAIN P.A
      BY ScaledEntries
    <3> HIDE DEF E
    <3> QED BY <3>1, FS_Subset, FS_CardinalityType
  <2>2. DOMAIN P.L = 1..Len(Caller.L) /\ Len(Caller.L) \in Nat
        /\ \A j \in DOMAIN P.L : P.L[j].cone \in Cones
    BY ScaledShape, PermutedProblem DEF Transmissible, IsInputColumn
  <2>3. C \in SUBSET (1..Len(Caller.L))
    BY <2>2 DEF ColumnsOf
  <2>4. IsFiniteSet(C)
    <3>1. IsFiniteSet(1..Len(Caller.L))
      BY <2>2, FS_Interval
    <3> QED BY <2>3, <3>1, FS_Subset
  <2>5. \A j \in C : w[j] \in Nat
    BY <2>2, Dimensions DEF ColumnsOf
  <2>6. RowCost(P, r) = Cardinality(E) + SumOver(w, C)
    BY DEF RowCost
  <2> HIDE DEF E, C, w
  <2>7. SumOver(w, C) \in Nat
    BY <2>4, <2>5, SumOfNaturals
  <2> QED BY <2>1, <2>6, <2>7
<1>2. num_constraints \in Nat /\ \A r \in 1..num_constraints : cost[r] \in Nat
  BY <1>1, SizesAssumption DEF Rows
<1>3. Prefix(P) = RunningSum(cost, num_constraints)
  BY DEF Prefix
<1> HIDE DEF cost
<1>4. RunningSum(cost, num_constraints) \in [0..num_constraints -> Nat]
  BY <1>2, RunningSumMonotone
<1>5. \A r \in 1..num_constraints : cost[r] \in Int
  BY <1>2
<1>6. RunningSum(cost, num_constraints)[0] = 0
  BY <1>2, <1>5, RunningSumSteps
<1> QED BY <1>3, <1>4, <1>6

\* The rows of the processes along the row axis: consecutive ranges.
FirstRow(i) == RowRange(Prefix(ScaledCopy.problem), Dims(call.grid)[1], i).start
LastRow(i) == RowRange(Prefix(ScaledCopy.problem), Dims(call.grid)[1], i).end

LEMMA GridOfCall ==
  ASSUME CallInv, ~WrongGrid(call.grid)
  PROVE  IsDims(Dims(call.grid))
BY CallsAssumption, GridShape DEF CallInv

LEMMA RowsShared ==
  ASSUME CallInv, ~WrongGrid(call.grid)
  PROVE  /\ FirstRow(0) = 0
         /\ \A i \in 0..(Dims(call.grid)[1] - 1) :
              /\ FirstRow(i) \in 0..num_constraints
              /\ LastRow(i) \in 0..num_constraints
              /\ FirstRow(i) <= LastRow(i)
              /\ LastRow(i) = IF i = Dims(call.grid)[1] - 1 THEN num_constraints ELSE FirstRow(i + 1)
         /\ \A p \in Procs : /\ OwnedBy(p).start = FirstRow(Coordinates(p)[1])
                             /\ OwnedBy(p).m = LastRow(Coordinates(p)[1]) - FirstRow(Coordinates(p)[1])
<1>1. Dims(call.grid)[1] \in Nat \ {0}
  BY GridOfCall DEF IsDims
<1>2. \A r \in 0..num_constraints : Prefix(ScaledCopy.problem)[r] \in Nat
  BY PrefixIsSum
<1>3. Prefix(ScaledCopy.problem)[0] = 0
  BY PrefixIsSum
<1> DEFINE prefix == Prefix(ScaledCopy.problem)
           P == Dims(call.grid)[1]
<1> HIDE DEF prefix, P
<1>4. /\ RowRange(prefix, P, 0).start = 0
      /\ \A i \in 0..(P - 1) :
           /\ RowRange(prefix, P, i).start \in 0..num_constraints
           /\ RowRange(prefix, P, i).end \in 0..num_constraints
           /\ RowRange(prefix, P, i).start <= RowRange(prefix, P, i).end
           /\ RowRange(prefix, P, i).end
                = IF i = P - 1 THEN num_constraints ELSE RowRange(prefix, P, i + 1).start
  BY <1>1, <1>2, <1>3, RangesTile DEF prefix, P
<1>5. \A i : FirstRow(i) = RowRange(prefix, P, i).start /\ LastRow(i) = RowRange(prefix, P, i).end
  BY DEF FirstRow, LastRow, prefix, P
<1>6. \A p \in Procs : /\ OwnedBy(p).start = FirstRow(Coordinates(p)[1])
                       /\ OwnedBy(p).m = LastRow(Coordinates(p)[1]) - FirstRow(Coordinates(p)[1])
  BY DEF OwnedBy, Part, FirstRow, LastRow
<1> QED BY <1>4, <1>5, <1>6 DEF P


-----------------------------------------------------------------------------
(* The factors of a problem do not depend on the order of its rows.        *)

\* Entries and columns of the copies next to the caller's.
LEMMA EntriesMoved ==
  ASSUME CallInv
  PROVE  /\ \A e \in DOMAIN Caller.A :
              /\ e[1] \in Rows
              /\ <<NewRow(call.order, e[1]), e[2]>> \in DOMAIN Permuted.A
              /\ Permuted.A[<<NewRow(call.order, e[1]), e[2]>>] = Caller.A[e]
         /\ \A d \in DOMAIN Permuted.A :
              /\ d[1] \in Rows
              /\ <<CallersRow(call.order, d[1]), d[2]>> \in DOMAIN Caller.A
              /\ Permuted.A[d] = Caller.A[<<CallersRow(call.order, d[1]), d[2]>>]
         /\ \A j \in DOMAIN Caller.L :
              /\ Permuted.L[j].w = Caller.L[j].w /\ Permuted.L[j].u = Caller.L[j].u
              /\ Permuted.L[j].cone = Caller.L[j].cone
              /\ Caller.L[j].row \in Rows \union {objective}
              /\ Permuted.L[j].row = IF Caller.L[j].row = objective THEN objective
                                     ELSE NewRow(call.order, Caller.L[j].row)
              /\ Caller.L[j].row = objective => Permuted.L[j] = Caller.L[j]
<1> DEFINE o == call.order
<1>1. DOMAIN Caller.A \subseteq Rows \X Vars
  BY PermutedProblem DEF Transmissible
<1>2. \A e \in DOMAIN Caller.A : e = <<e[1], e[2]>> /\ e[1] \in Rows
  BY <1>1
<1>3. /\ DOMAIN Permuted.A = {<<NewRow(o, e[1]), e[2]>> : e \in DOMAIN Caller.A}
      /\ \A d \in DOMAIN Permuted.A : Permuted.A[d] = Caller.A[<<CallersRow(o, d[1]), d[2]>>]
      /\ \A j \in DOMAIN Caller.L :
           Permuted.L[j] = [Caller.L[j] EXCEPT !.row =
                              IF @ = objective THEN @ ELSE NewRow(o, @)]
  BY PermutedProblem
<1>4. \A r \in Rows : NewRow(o, r) \in Rows /\ CallersRow(o, NewRow(o, r)) = r
  BY CallersOrder, NewRowInverts
<1> HIDE DEF o
<1>5. ASSUME NEW e \in DOMAIN Caller.A
      PROVE  /\ <<NewRow(o, e[1]), e[2]>> \in DOMAIN Permuted.A
             /\ Permuted.A[<<NewRow(o, e[1]), e[2]>>] = Caller.A[e]
  <2> DEFINE d == <<NewRow(o, e[1]), e[2]>>
  <2>1. d \in DOMAIN Permuted.A /\ d[1] = NewRow(o, e[1]) /\ d[2] = e[2]
    BY <1>3
  <2>2. Permuted.A[d] = Caller.A[<<CallersRow(o, d[1]), d[2]>>]
    BY <1>3, <2>1
  <2>3. <<CallersRow(o, d[1]), d[2]>> = e
    BY <1>2, <1>4, <2>1
  <2> QED BY <2>1, <2>2, <2>3
<1>6. ASSUME NEW d \in DOMAIN Permuted.A
      PROVE  /\ d[1] \in Rows
             /\ <<CallersRow(o, d[1]), d[2]>> \in DOMAIN Caller.A
  <2>1. PICK e \in DOMAIN Caller.A : d = <<NewRow(o, e[1]), e[2]>>
    BY <1>3
  <2>2. d[1] = NewRow(o, e[1]) /\ d[2] = e[2]
    BY <2>1
  <2>3. <<CallersRow(o, d[1]), d[2]>> = e
    BY <1>2, <1>4, <2>2
  <2> QED BY <1>2, <1>4, <2>2, <2>3
<1>7. ASSUME NEW j \in DOMAIN Caller.L
      PROVE  /\ Permuted.L[j].w = Caller.L[j].w /\ Permuted.L[j].u = Caller.L[j].u
             /\ Permuted.L[j].cone = Caller.L[j].cone
             /\ Caller.L[j].row \in Rows \union {objective}
             /\ Permuted.L[j].row = IF Caller.L[j].row = objective THEN objective
                                    ELSE NewRow(o, Caller.L[j].row)
             /\ Caller.L[j].row = objective => Permuted.L[j] = Caller.L[j]
  <2> DEFINE c == Caller.L[j]
             d == Permuted.L[j]
  <2>1. c = [row |-> c.row, cone |-> c.cone, w |-> c.w, u |-> c.u]
        /\ c.row \in Rows \union {objective}
    BY PermutedProblem DEF Transmissible, IsInputColumn
  <2>2. d = [c EXCEPT !.row = IF @ = objective THEN @ ELSE NewRow(o, @)]
    BY <1>3
  <2> HIDE DEF c, d
  <2>3. d = [row |-> IF c.row = objective THEN c.row ELSE NewRow(o, c.row),
             cone |-> c.cone, w |-> c.w, u |-> c.u]
    BY <2>1, <2>2
  <2>4. c.row = objective => d = c
    BY <2>1, <2>3
  <2> QED BY <2>1, <2>3, <2>4 DEF c, d
<1> QED BY <1>2, <1>3, <1>5, <1>6, <1>7 DEF o

LEMMA SameMagnitudes ==
  ASSUME CallInv
  PROVE  /\ \A r \in Rows : InRow(Permuted, NewRow(call.order, r)) = InRow(Caller, r)
         /\ \A u : AtUnit(Permuted, u) = AtUnit(Caller, u)
<1> DEFINE o == call.order
           p == Permuted
           c == Caller
<1>1. \A r \in Rows : NewRow(o, r) \in Rows /\ CallersRow(o, NewRow(o, r)) = r
  BY CallersOrder, NewRowInverts
<1>2. \A r \in Rows : r # objective
  BY DEF Rows, objective
<1>3. /\ \A e \in DOMAIN c.A :
           /\ e[1] \in Rows
           /\ <<NewRow(o, e[1]), e[2]>> \in DOMAIN p.A
           /\ p.A[<<NewRow(o, e[1]), e[2]>>] = c.A[e]
      /\ \A d \in DOMAIN p.A :
           /\ d[1] \in Rows
           /\ <<CallersRow(o, d[1]), d[2]>> \in DOMAIN c.A
           /\ p.A[d] = c.A[<<CallersRow(o, d[1]), d[2]>>]
      /\ \A j \in DOMAIN c.L :
           /\ p.L[j].w = c.L[j].w /\ p.L[j].u = c.L[j].u
           /\ p.L[j].cone = c.L[j].cone
           /\ c.L[j].row \in Rows \union {objective}
           /\ p.L[j].row = IF c.L[j].row = objective THEN objective
                           ELSE NewRow(o, c.L[j].row)
           /\ c.L[j].row = objective => p.L[j] = c.L[j]
  BY EntriesMoved
<1>4. DOMAIN p.L = DOMAIN c.L
  BY PermutedProblem
<1>5. \A d, e : d.w = e.w /\ d.u = e.u
               => ColumnPeak(d) = ColumnPeak(e) /\ \A u : RowPeak(d, u) = RowPeak(e, u)
  <2> TAKE d, e
  <2> HAVE d.w = e.w /\ d.u = e.u
  <2>1. Entries(d) = Entries(e)
    BY DEF Entries
  <2> QED BY <2>1 DEF ColumnPeak, RowPeak
<1>6. \A j \in DOMAIN c.L : /\ ColumnPeak(p.L[j]) = ColumnPeak(c.L[j])
                           /\ \A u : RowPeak(p.L[j], u) = RowPeak(c.L[j], u)
  <2> HIDE DEF o, p, c
  <2> QED BY <1>3, <1>5
<1>7. \A r, s \in Rows : NewRow(o, r) = NewRow(o, s) => r = s
  BY <1>1
<1> HIDE DEF o, p, c
<1>8. ASSUME NEW r \in Rows PROVE InRow(p, NewRow(o, r)) = InRow(c, r)
  <2>1. {p.A[d] : d \in {d \in DOMAIN p.A : d[1] = NewRow(o, r)}}
          = {c.A[e] : e \in {e \in DOMAIN c.A : e[1] = r}}
    <3>1. ASSUME NEW d \in DOMAIN p.A, d[1] = NewRow(o, r)
          PROVE  \E e \in DOMAIN c.A : e[1] = r /\ c.A[e] = p.A[d]
      <4> DEFINE e == <<CallersRow(o, d[1]), d[2]>>
      <4>1. e \in DOMAIN c.A /\ p.A[d] = c.A[e]
        BY <1>3
      <4>2. e[1] = r
        BY <1>1, <3>1
      <4> QED BY <4>1, <4>2
    <3>2. ASSUME NEW e \in DOMAIN c.A, e[1] = r
          PROVE  \E d \in DOMAIN p.A : d[1] = NewRow(o, r) /\ p.A[d] = c.A[e]
      <4> DEFINE d == <<NewRow(o, e[1]), e[2]>>
      <4>1. d \in DOMAIN p.A /\ p.A[d] = c.A[e]
        BY <1>3
      <4>2. d[1] = NewRow(o, r)
        BY <3>2
      <4> QED BY <4>1, <4>2
    <3> QED BY <3>1, <3>2
  <2>2. ColumnsOf(p, NewRow(o, r)) = ColumnsOf(c, r)
    <3>1. ASSUME NEW j \in DOMAIN c.L PROVE p.L[j].row = NewRow(o, r) <=> c.L[j].row = r
      <4>1. CASE c.L[j].row = objective
        BY <1>1, <1>2, <1>3, <4>1
      <4>2. CASE c.L[j].row \in Rows
        BY <1>2, <1>3, <1>7, <4>2
      <4> QED BY <1>3, <4>1, <4>2
    <3> QED BY <1>4, <3>1 DEF ColumnsOf
  <2>3. \A j \in ColumnsOf(c, r) : ColumnPeak(p.L[j]) = ColumnPeak(c.L[j])
    BY <1>6 DEF ColumnsOf
  <2>4. {ColumnPeak(p.L[j]) : j \in ColumnsOf(p, NewRow(o, r))}
          = {ColumnPeak(c.L[j]) : j \in ColumnsOf(c, r)}
    BY <2>2, <2>3
  <2> QED BY <2>1, <2>4 DEF InRow
<1>9. ASSUME NEW u PROVE AtUnit(p, u) = AtUnit(c, u)
  <2>1. {p.A[d] : d \in {d \in DOMAIN p.A : d[2][1] = u}}
          = {c.A[e] : e \in {e \in DOMAIN c.A : e[2][1] = u}}
    <3>1. ASSUME NEW d \in DOMAIN p.A, d[2][1] = u
          PROVE  \E e \in DOMAIN c.A : e[2][1] = u /\ c.A[e] = p.A[d]
      <4> DEFINE e == <<CallersRow(o, d[1]), d[2]>>
      <4>1. e \in DOMAIN c.A /\ p.A[d] = c.A[e]
        BY <1>3
      <4>2. e[2][1] = u
        BY <3>1
      <4> QED BY <4>1, <4>2
    <3>2. ASSUME NEW e \in DOMAIN c.A, e[2][1] = u
          PROVE  \E d \in DOMAIN p.A : d[2][1] = u /\ p.A[d] = c.A[e]
      <4> DEFINE d == <<NewRow(o, e[1]), e[2]>>
      <4>1. d \in DOMAIN p.A /\ p.A[d] = c.A[e]
        BY <1>3
      <4>2. d[2][1] = u
        BY <3>2
      <4> QED BY <4>1, <4>2
    <3> QED BY <3>1, <3>2
  <2>2. ColumnsThrough(p, u) = ColumnsThrough(c, u)
    <3>1. \A j \in DOMAIN c.L : p.L[j].row # objective <=> c.L[j].row # objective
      BY <1>1, <1>2, <1>3
    <3>2. \A j \in DOMAIN c.L : p.L[j].u = c.L[j].u
      BY <1>3
    <3> QED BY <1>4, <3>1, <3>2 DEF ColumnsThrough
  <2>3. \A j \in ColumnsThrough(c, u) : RowPeak(p.L[j], u) = RowPeak(c.L[j], u)
    BY <1>6 DEF ColumnsThrough
  <2>4. {RowPeak(p.L[j], u) : j \in ColumnsThrough(p, u)}
          = {RowPeak(c.L[j], u) : j \in ColumnsThrough(c, u)}
    BY <2>2, <2>3
  <2> QED BY <2>1, <2>4 DEF AtUnit
<1> QED BY <1>8, <1>9 DEF o, p, c


\* Scaling its copy, a process finds the factors of the caller's problem.
LEMMA SameScales ==
  ASSUME CallInv
  PROVE  /\ \A r \in Rows : ScaledCopy.info.row[NewRow(call.order, r)] = Reference.row[r]
         /\ ScaledCopy.info.unit = Reference.unit
         /\ ScaledCopy.info.tau_b = Reference.tau_b
         /\ ScaledCopy.info.tau_c = Reference.tau_c
<1> DEFINE s == call.settings
           o == call.order
           p == Permuted
           c == Caller
           f == RuizFactors(p, s.per_cone)
           g == RuizFactors(c, s.per_cone)
           dp == Divided(p, f)
           dc == Divided(c, g)
<1>1. \A r \in Rows : NewRow(o, r) \in Rows /\ CallersRow(o, NewRow(o, r)) = r
                      /\ CallersRow(o, r) \in Rows /\ NewRow(o, CallersRow(o, r)) = r
  BY CallersOrder, NewRowInverts
<1>2. CASE ~scaling_enabled(s)
  <2>1. ScaledCopy.info = NoRescaling /\ Reference = NoRescaling
    BY <1>2 DEF ScaledCopy, Reference, Rescaled
  <2> HIDE DEF o
  <2>2. \A r \in Rows : NoRescaling.row[r] = 0
    BY DEF NoRescaling
  <2> QED BY <1>1, <2>1, <2>2 DEF o
<1>3. CASE scaling_enabled(s)
  <2>1. /\ ScaledCopy.info = [row |-> f.row, unit |-> f.unit, tau_b |-> BoundScale(dp),
                              tau_c |-> ObjectiveScale(dp)]
        /\ Reference = [row |-> g.row, unit |-> g.unit, tau_b |-> BoundScale(dc),
                        tau_c |-> ObjectiveScale(dc)]
    BY <1>3 DEF ScaledCopy, Reference, Rescaled
  <2>2. \A r \in Rows : f.row[NewRow(o, r)] = g.row[r]
    <3>1. /\ \A r \in Rows : f.row[r] = Root(InRow(p, r), 2)
          /\ \A r \in Rows : g.row[r] = Root(InRow(c, r), 2)
      BY DEF RuizFactors
    <3>2. \A r \in Rows : InRow(p, NewRow(o, r)) = InRow(c, r)
      BY SameMagnitudes
    <3> HIDE DEF f, g, o, p, c
    <3> QED BY <1>1, <3>1, <3>2
  <2>3. f.unit = g.unit
    <3>1. /\ f.unit = [u \in Units |-> Root(AtUnits(p, Sharing(u, s.per_cone)), 2)]
          /\ g.unit = [u \in Units |-> Root(AtUnits(c, Sharing(u, s.per_cone)), 2)]
      BY DEF RuizFactors
    <3>2. \A u : AtUnit(p, u) = AtUnit(c, u)
      BY SameMagnitudes
    <3> HIDE DEF f, g, p, c
    <3>3. \A us : AtUnits(p, us) = AtUnits(c, us)
      BY <3>2 DEF AtUnits
    <3> QED BY <3>1, <3>3
  <2>4. /\ dp.b = [r \in Rows |-> p.b[r] - f.row[r]]
        /\ dc.b = [r \in Rows |-> c.b[r] - g.row[r]]
        /\ dp.c = [v \in DOMAIN p.c |-> p.c[v] - VarFactor(f.unit, v)]
        /\ dc.c = [v \in DOMAIN c.c |-> c.c[v] - VarFactor(g.unit, v)]
        /\ dp.L = [j \in DOMAIN p.L |-> DividedColumn(p.L[j], f)]
        /\ dc.L = [j \in DOMAIN c.L |-> DividedColumn(c.L[j], g)]
    BY DEF Divided
  <2>5. /\ \A r \in Rows : p.b[r] = c.b[CallersRow(o, r)]
        /\ p.c = c.c /\ DOMAIN p.L = DOMAIN c.L
    BY PermutedProblem
  <2>6. \A j \in DOMAIN c.L : /\ c.L[j].row = objective => p.L[j] = c.L[j]
                              /\ p.L[j].row = objective <=> c.L[j].row = objective
    <3>1. \A j \in DOMAIN c.L :
            /\ c.L[j].row \in Rows \union {objective}
            /\ p.L[j].row = IF c.L[j].row = objective THEN objective
                            ELSE NewRow(o, c.L[j].row)
            /\ c.L[j].row = objective => p.L[j] = c.L[j]
      BY EntriesMoved
    <3>2. \A r \in Rows : r # objective
      BY DEF Rows, objective
    <3> HIDE DEF o, p, c
    <3> QED BY <1>1, <3>1, <3>2
  <2> HIDE DEF o, p, c, f, g, dp, dc
  <2>7. BoundScale(dp) = BoundScale(dc)
    <3>1. \A r \in Rows : dp.b[NewRow(o, r)] = dc.b[r]
      BY <1>1, <2>2, <2>4, <2>5
    <3>2. {dp.b[r] : r \in Rows} = {dc.b[r] : r \in Rows}
      <4>1. \A r \in Rows : dp.b[r] = dc.b[CallersRow(o, r)]
        BY <1>1, <3>1
      <4> QED BY <1>1, <3>1, <4>1
    <3> QED BY <3>2 DEF BoundScale
  <2>8. ObjectiveScale(dp) = ObjectiveScale(dc)
    <3>1. dp.c = dc.c
      BY <2>3, <2>4, <2>5
    <3>2. \A j \in DOMAIN c.L : dp.L[j].row = p.L[j].row /\ dc.L[j].row = c.L[j].row
      BY <2>4, <2>5, SMTT(30) DEF DividedColumn
    <3>3. ColumnsOf(dp, objective) = ColumnsOf(dc, objective)
      BY <2>4, <2>5, <2>6, <3>2, ZenonT(40) DEF ColumnsOf
    <3>4. \A j \in ColumnsOf(dc, objective) : dp.L[j] = dc.L[j]
      <4> TAKE j \in ColumnsOf(dc, objective)
      <4>1. j \in DOMAIN c.L /\ c.L[j].row = objective
        BY <2>4, <3>2 DEF ColumnsOf
      <4>2. p.L[j] = c.L[j] /\ dp.L[j] = DividedColumn(p.L[j], f)
            /\ dc.L[j] = DividedColumn(c.L[j], g)
        BY <2>4, <2>5, <2>6, <4>1
      <4> DEFINE col == c.L[j]
      <4>3. col.row = objective
        BY <4>1
      <4> HIDE DEF col
      <4>4. DividedColumn(col, f) = DividedColumn(col, g)
        BY <2>3, <4>3 DEF DividedColumn
      <4> QED BY <4>2, <4>4 DEF col
    <3>5. {ColumnPeak(dp.L[j]) : j \in ColumnsOf(dp, objective)}
            = {ColumnPeak(dc.L[j]) : j \in ColumnsOf(dc, objective)}
      BY <3>3, <3>4
    <3>6. ObjectiveSizes(dp) = ObjectiveSizes(dc)
      BY <3>1, <3>5 DEF ObjectiveSizes
    <3> QED BY <3>6 DEF ObjectiveScale
  <2> QED BY <2>1, <2>2, <2>3, <2>7, <2>8 DEF o
<1> QED BY <1>2, <1>3


-----------------------------------------------------------------------------
(* The processes of a line of the grid, in the order of a coordinate.      *)

\* n rising numbers below n are all of them.
LEMMA RisingIsAll ==
  ASSUME NEW n \in Nat, NEW f \in [1..n -> 0..(n - 1)],
         \A i, j \in 1..n : i < j => f[i] < f[j]
  PROVE  \A i \in 1..n : f[i] = i - 1
<1> DEFINE Up == {i \in Nat : i \in 1..n => f[i] >= i - 1}
           Down == {k \in Nat : \A i \in 1..n : i = n - k => f[i] <= i - 1}
<1>1. 0 \in Up
  OBVIOUS
<1>2. ASSUME NEW i \in Nat, i \in Up PROVE i + 1 \in Up
  <2> SUFFICES ASSUME i + 1 \in 1..n PROVE f[i + 1] >= i
    OBVIOUS
  <2>1. f[i + 1] \in 0..(n - 1)
    OBVIOUS
  <2>2. CASE i = 0
    BY <2>1, <2>2
  <2>3. CASE i # 0
    <3>1. i \in 1..n /\ i < i + 1
      BY <2>3
    <3>2. f[i] < f[i + 1] /\ f[i] >= i - 1 /\ f[i] \in 0..(n - 1)
      BY <1>2, <3>1
    <3> QED BY <2>1, <3>2
  <2> QED BY <2>2, <2>3
<1>3. Nat \subseteq Up
  <2> HIDE DEF Up
  <2> QED BY <1>1, <1>2, NatSetInduction
<1>4. 0 \in Down
  <2> SUFFICES ASSUME NEW i \in 1..n, i = n PROVE f[i] <= i - 1
    OBVIOUS
  <2>1. f[i] \in 0..(n - 1)
    OBVIOUS
  <2> QED BY <2>1
<1>5. ASSUME NEW k \in Nat, k \in Down PROVE k + 1 \in Down
  <2> SUFFICES ASSUME NEW i \in 1..n, i = n - (k + 1) PROVE f[i] <= i - 1
    OBVIOUS
  <2>1. i + 1 \in 1..n /\ i + 1 = n - k /\ i < i + 1
    OBVIOUS
  <2>2. f[i + 1] <= i
    BY <1>5, <2>1
  <2>3. f[i] < f[i + 1] /\ f[i] \in 0..(n - 1) /\ f[i + 1] \in 0..(n - 1)
    BY <2>1
  <2> QED BY <2>2, <2>3
<1>6. Nat \subseteq Down
  <2> HIDE DEF Down
  <2> QED BY <1>4, <1>5, NatSetInduction
<1>7. ASSUME NEW i \in 1..n PROVE f[i] = i - 1
  <2> DEFINE k == n - i
  <2>0. i \in Nat /\ k \in Nat /\ i = n - k
    OBVIOUS
  <2> HIDE DEF k
  <2>1. i \in Up /\ k \in Down
    <3> HIDE DEF Up, Down
    <3> QED BY <1>3, <1>6, <2>0
  <2>2. f[i] >= i - 1 /\ f[i] <= i - 1 /\ f[i] \in 0..(n - 1)
    BY <2>0, <2>1
  <2> QED BY <2>2
<1> QED BY <1>7

\* A line of the grid sorted by its coordinate: the i-th is at i - 1.
Along(S, n, coord) ==
  /\ coord \in [S -> 0..(n - 1)]
  /\ \A p, q \in S : coord[p] = coord[q] => p = q
  /\ \A i \in 0..(n - 1) : \E p \in S : coord[p] = i
OrderedBy(S, before, coord) == \A p, q \in S : <<p, q>> \in before <=> coord[p] < coord[q]

LEMMA InLine ==
  ASSUME NEW n \in Nat, NEW S, NEW coord, Along(S, n, coord),
         NEW before, OrderedBy(S, before, coord)
  PROVE  /\ IsFiniteSet(S) /\ Cardinality(S) = n
         /\ Sorted(S, before) \in [1..n -> S]
         /\ \A p \in S : \E i \in 1..n : Sorted(S, before)[i] = p
         /\ \A i \in 1..n : coord[Sorted(S, before)[i]] = i - 1
<1>1. /\ coord \in [S -> 0..(n - 1)]
      /\ \A p, q \in S : coord[p] = coord[q] => p = q
      /\ \A i \in 0..(n - 1) : \E p \in S : coord[p] = i
  BY DEF Along
<1>2. \A p, q \in S : <<p, q>> \in before <=> coord[p] < coord[q]
  BY DEF OrderedBy
<1>3. IsFiniteSet(S) /\ Cardinality(S) = n
  <2>1. IsFiniteSet(0..(n - 1)) /\ Cardinality(0..(n - 1)) = n
    <3>1. IsFiniteSet(0..(n - 1)) /\ Cardinality(0..(n - 1)) = IF 0 > n - 1 THEN 0 ELSE n - 1 - 0 + 1
      BY FS_Interval
    <3> QED BY <3>1
  <2>2. coord \in Injection(S, 0..(n - 1))
    BY <1>1 DEF Injection, IsInjective
  <2>3. coord \in Surjection(S, 0..(n - 1))
    BY <1>1 DEF Surjection
  <2> QED BY <2>1, <2>2, <2>3, FS_Injection
<1> DEFINE s == Sorted(S, before)
<1>4. /\ s \in [1..n -> S]
      /\ \A p \in S : \E i \in 1..n : s[i] = p
      /\ \A i, j \in 1..n : i < j => <<s[i], s[j]>> \in before
  <2>1. \A p \in S : <<p, p>> \notin before
    BY <1>1, <1>2
  <2>2. \A x, y, z \in S : <<x, y>> \in before /\ <<y, z>> \in before => <<x, z>> \in before
    <3> TAKE x, y, z \in S
    <3>1. coord[x] \in Int /\ coord[y] \in Int /\ coord[z] \in Int
      BY <1>1
    <3> QED BY <1>2, <3>1
  <2>3. \A x, y \in S : x # y => <<x, y>> \in before \/ <<y, x>> \in before
    <3> TAKE x, y \in S
    <3>1. coord[x] \in Int /\ coord[y] \in Int
      BY <1>1
    <3> QED BY <1>1, <1>2, <3>1
  <2> QED BY <1>3, <2>1, <2>2, <2>3, SortedSequence, SMTT(30)
<1> HIDE DEF s
<1> DEFINE f == [i \in 1..n |-> coord[s[i]]]
<1>5. f \in [1..n -> 0..(n - 1)]
  BY <1>1, <1>4
<1>6. \A i, j \in 1..n : i < j => f[i] < f[j]
  BY <1>2, <1>4
<1>7. \A i \in 1..n : f[i] = coord[s[i]]
  OBVIOUS
<1> HIDE DEF f
<1>8. \A i \in 1..n : f[i] = i - 1
  BY <1>5, <1>6, RisingIsAll
<1> QED BY <1>3, <1>4, <1>7, <1>8 DEF s


-----------------------------------------------------------------------------
(* The multipliers.                                                        *)

\* Row i of the scaled copies: its multiplier, in the caller's units.
DualAt(i) ==
  Multiplier(CallersRow(call.order, i)) - ScaledCopy.info.tau_c - ScaledCopy.info.row[i]
Expected == [r \in Rows |-> Multiplier(r) - Reference.tau_c - Reference.row[r]]

LEMMA DualOfRow ==
  ASSUME CallInv
  PROVE  [r \in Rows |-> DualAt(NewRow(call.order, r))] = Expected
<1>1. ASSUME NEW r \in Rows
      PROVE  DualAt(NewRow(call.order, r)) = Multiplier(r) - Reference.tau_c - Reference.row[r]
  <2>1. CallersRow(call.order, NewRow(call.order, r)) = r
    BY CallersOrder, NewRowInverts
  <2>2. ScaledCopy.info.row[NewRow(call.order, r)] = Reference.row[r]
        /\ ScaledCopy.info.tau_c = Reference.tau_c
    BY SameScales
  <2> QED BY <2>1, <2>2 DEF DualAt
<1> QED BY <1>1 DEF Expected

\* A process unscales the multipliers of its rows.
LEMMA DualOfPart ==
  ASSUME CallInv, GridInv, LocalInv, NEW p \in Procs, pc[p] \in Solved
  PROVE  LET i == Coordinates(p)[1]
         IN  /\ LastRow(i) - FirstRow(i) \in Nat
             /\ LocalDual(p) = [r \in 1..(LastRow(i) - FirstRow(i)) |-> DualAt(FirstRow(i) + r)]
             /\ \A r \in 1..(LastRow(i) - FirstRow(i)) : FirstRow(i) + r \in Rows
<1> DEFINE i == Coordinates(p)[1]
           m == LastRow(i) - FirstRow(i)
           d == Dims(call.grid)
<1>1. pc[p] \in Taken /\ pc[p] \notin Unplaced
  BY DEF Taken, Solved, Returned, Unplaced
<1>2. ~WrongGrid(call.grid)
  BY <1>1, PlacedAt
<1>3. IsDims(d)
  BY <1>2, GridOfCall
<1>4. i \in 0..(d[1] - 1)
  BY <1>3, CoordinatesOf DEF Coordinates
<1>5. /\ FirstRow(i) \in 0..num_constraints /\ LastRow(i) \in 0..num_constraints
      /\ FirstRow(i) <= LastRow(i)
      /\ OwnedBy(p).start = FirstRow(i) /\ OwnedBy(p).m = m
  BY <1>2, <1>4, RowsShared
<1>6. num_constraints \in Nat
  BY SizesAssumption
<1>7. /\ state[p].dual = DualOf(p)
      /\ local[p].info = Whole(p).info
  BY <1>1, LocalFields DEF LocalInv
<1>8. PartOf(p).m = OwnedBy(p).m
  BY DEF PartOf, partition_problem
<1>9. Whole(p).info = partition_rescale_info(ScaledCopy.info, OwnedBy(p))
  BY DEF Whole
<1>10. /\ local[p].info.tau_c = ScaledCopy.info.tau_c
       /\ local[p].info.row = [r \in 1..m |-> ScaledCopy.info.row[r + FirstRow(i)]]
  BY <1>5, <1>7, <1>9 DEF partition_rescale_info
<1>11. state[p].dual = [r \in 1..m |-> Multiplier(CallersRow(call.order, r + FirstRow(i)))]
  BY <1>5, <1>7, <1>8 DEF DualOf
<1>12. m \in Nat /\ \A r \in 1..m : FirstRow(i) + r \in Rows /\ r + FirstRow(i) = FirstRow(i) + r
  BY <1>5, <1>6 DEF Rows
<1> DEFINE a == FirstRow(i)
<1> HIDE DEF m, a
<1>13. LocalDual(p) = [r \in 1..m |-> DualAt(a + r)]
  <2>1. LocalDual(p) = [r \in DOMAIN state[p].dual |->
                          state[p].dual[r] - local[p].info.tau_c - local[p].info.row[r]]
    BY DEF LocalDual
  <2>2. DOMAIN state[p].dual = 1..m
    BY <1>11
  <2>3. \A r \in 1..m : /\ state[p].dual[r] = Multiplier(CallersRow(call.order, a + r))
                        /\ local[p].info.row[r] = ScaledCopy.info.row[a + r]
    BY <1>10, <1>11, <1>12 DEF a
  <2> QED BY <1>10, <2>1, <2>2, <2>3 DEF DualAt
<1> QED BY <1>12, <1>13 DEF m, a


LEMMA CollectorsInLine ==
  ASSUME CallInv, GridInv, \A p \in Procs : pc[p] \notin Unplaced
  PROVE  /\ Dims(call.grid)[1] \in Nat \ {0}
         /\ Along(Collectors, Dims(call.grid)[1], [p \in Collectors |-> my_row(p)])
         /\ OrderedBy(Collectors, {q \in Collectors \X Collectors : my_row(q[1]) < my_row(q[2])},
                      [p \in Collectors |-> my_row(p)])
<1> DEFINE d == Dims(call.grid)
           C == Collectors
           coord == [p \in C |-> my_row(p)]
<1>1. 0 \in Procs
  BY WorldAssumption DEF Procs
<1>2. IsDims(d)
  BY <1>1, PlacedAt, GridOfCall
<1>3. d[1] \in Nat \ {0} /\ d[2] \in Nat \ {0} /\ d[3] \in Nat \ {0}
  BY <1>2 DEF IsDims
<1>4. \A p \in Procs : my_row(p) = Coordinates(p)[1] /\ my_rank(p) = Coordinates(p)[2]
                       /\ my_cone(p) = Coordinates(p)[3] /\ Coordinates(p) = Coords(d, p)
  BY PlacedAt DEF Coordinates
<1>5. C \subseteq Procs /\ \A p \in C : Coords(d, p)[2] = 0 /\ Coords(d, p)[3] = 0
  BY <1>4 DEF Collectors
<1>6. \A p \in C : coord[p] = Coords(d, p)[1]
  BY <1>4, <1>5
<1> HIDE DEF d
<1>7. coord \in [C -> 0..(d[1] - 1)]
  <2>1. \A p \in C : Coords(d, p)[1] \in 0..(d[1] - 1)
    BY <1>2, <1>5, CoordinatesOf
  <2>2. \A p \in C : my_row(p) \in 0..(d[1] - 1)
    BY <1>6, <2>1
  <2> QED BY <2>2
<1>8. ASSUME NEW p \in C, NEW q \in C, coord[p] = coord[q] PROVE p = q
  <2>1. /\ p = (Coords(d, p)[1] * d[2] + Coords(d, p)[2]) * d[3] + Coords(d, p)[3]
        /\ q = (Coords(d, q)[1] * d[2] + Coords(d, q)[2]) * d[3] + Coords(d, q)[3]
    BY <1>2, <1>5, CoordinatesOf
  <2>2. Coords(d, p)[1] = Coords(d, q)[1] /\ Coords(d, p)[2] = Coords(d, q)[2]
        /\ Coords(d, p)[3] = Coords(d, q)[3]
    BY <1>5, <1>6, <1>8
  <2> QED BY <2>1, <2>2
<1>9. ASSUME NEW i \in 0..(d[1] - 1) PROVE \E p \in C : coord[p] = i
  <2> DEFINE p == (i * d[2] + 0) * d[3] + 0
  <2>1. 0 \in 0..(d[2] - 1) /\ 0 \in 0..(d[3] - 1)
    BY <1>3
  <2>2. p \in Procs /\ Coords(d, p) = <<i, 0, 0>>
    BY <1>2, <2>1, ProcessAt
  <2> HIDE DEF p
  <2>3. p \in C
    BY <1>4, <2>2 DEF Collectors, d
  <2> QED BY <1>6, <2>2, <2>3
<1>10. Along(C, d[1], coord)
  <2> HIDE DEF C, coord
  <2> QED BY <1>7, <1>8, <1>9 DEF Along
<1>11. OrderedBy(C, {q \in C \X C : my_row(q[1]) < my_row(q[2])}, coord)
  BY DEF OrderedBy
<1> QED BY <1>3, <1>10, <1>11 DEF d

\* Put together, the multipliers of the collectors are those of all rows.
LEMMA DualGathered ==
  ASSUME CallInv, GridInv, LocalInv, At(Procs, "collect")
  PROVE  GatheredDual = [i \in Rows |-> DualAt(i)]
<1> DEFINE C == Collectors
           n == Dims(call.grid)[1]
           before == {q \in C \X C : my_row(q[1]) < my_row(q[2])}
           coord == [p \in C |-> my_row(p)]
           order == Sorted(C, before)
           m == num_constraints
           A == {DualAt(r) : r \in Rows}
           seqs == [i \in 1..n |-> LocalDual(order[i])]
<1>1. \A p \in Procs : pc[p] \notin Unplaced /\ pc[p] \in Solved
  BY DEF At, Unplaced, Solved, Returned
<1>2. n \in Nat \ {0} /\ Along(C, n, coord) /\ OrderedBy(C, before, coord)
  BY <1>1, CollectorsInLine
<1>3. C \subseteq Procs /\ \A p \in C : coord[p] = Coordinates(p)[1]
  <2>1. \A p \in Procs : my_row(p) = Coordinates(p)[1]
    BY <1>1, PlacedAt
  <2> QED BY <2>1 DEF Collectors
<1>4. ~WrongGrid(call.grid)
  <2>1. 0 \in Procs
    BY WorldAssumption DEF Procs
  <2> QED BY <1>1, <2>1, PlacedAt
<1> HIDE DEF C, coord, before, n
<1>5. /\ order \in [1..n -> C]
      /\ \A i \in 1..n : coord[order[i]] = i - 1
  BY <1>2, InLine
<1>6. GatheredDual = FlattenSeq(seqs)
  <2>1. DOMAIN order = 1..n
    BY <1>5
  <2>2. GatheredDual = FlattenSeq([i \in DOMAIN order |-> LocalDual(order[i])])
    BY DEF GatheredDual, C, before
  <2> QED BY <2>1, <2>2
<1> HIDE DEF order
<1>7. m \in Nat /\ Rows = 1..m
  BY SizesAssumption DEF Rows
<1>8. /\ FirstRow(0) = 0
      /\ \A i \in 0..(n - 1) :
           /\ FirstRow(i) \in 0..m /\ LastRow(i) \in 0..m /\ FirstRow(i) <= LastRow(i)
           /\ LastRow(i) = IF i = n - 1 THEN m ELSE FirstRow(i + 1)
  BY <1>4, RowsShared DEF n
<1>9. ASSUME NEW i \in 1..n
      PROVE  /\ seqs[i] = [r \in 1..(LastRow(i - 1) - FirstRow(i - 1)) |-> DualAt(FirstRow(i - 1) + r)]
             /\ LastRow(i - 1) - FirstRow(i - 1) \in Nat
             /\ \A r \in 1..(LastRow(i - 1) - FirstRow(i - 1)) : FirstRow(i - 1) + r \in Rows
  <2> DEFINE p == order[i]
  <2>1. p \in Procs /\ Coordinates(p)[1] = i - 1 /\ pc[p] \in Solved
    BY <1>1, <1>3, <1>5
  <2> HIDE DEF p
  <2>2. LET k == Coordinates(p)[1]
        IN  /\ LastRow(k) - FirstRow(k) \in Nat
            /\ LocalDual(p) = [r \in 1..(LastRow(k) - FirstRow(k)) |-> DualAt(FirstRow(k) + r)]
            /\ \A r \in 1..(LastRow(k) - FirstRow(k)) : FirstRow(k) + r \in Rows
    BY <2>1, DualOfPart
  <2>3. seqs[i] = LocalDual(p)
    BY DEF p
  <2> QED BY <2>1, <2>2, <2>3
<1>10. seqs \in [1..n -> Seq(A)] /\ \A i \in 1..n : Len(seqs[i]) = LastRow(i - 1) - FirstRow(i - 1)
  <2>1. ASSUME NEW i \in 1..n
        PROVE  seqs[i] \in Seq(A) /\ Len(seqs[i]) = LastRow(i - 1) - FirstRow(i - 1)
    <3> DEFINE k == LastRow(i - 1) - FirstRow(i - 1)
               a == FirstRow(i - 1)
    <3>1. seqs[i] = [r \in 1..k |-> DualAt(a + r)] /\ k \in Nat /\ \A r \in 1..k : a + r \in Rows
      BY <1>9
    <3> HIDE DEF k, a, seqs
    <3>2. seqs[i] \in [1..k -> A]
      BY <3>1
    <3> QED BY <3>1, <3>2 DEF k
  <2> QED BY <2>1
<1> HIDE DEF seqs
<1> DEFINE ends == Ends(seqs, n)
<1>11. /\ FlattenSeq(seqs) \in Seq(A)
       /\ Len(FlattenSeq(seqs)) = ends[n]
       /\ \A i \in 1..n : \A k \in 1..Len(seqs[i]) :
            /\ ends[i - 1] + k \in 1..Len(FlattenSeq(seqs))
            /\ FlattenSeq(seqs)[ends[i - 1] + k] = seqs[i][k]
       /\ \A t \in 1..Len(FlattenSeq(seqs)) :
            \E i \in 1..n : \E k \in 1..Len(seqs[i]) : t = ends[i - 1] + k
  <2> HIDE DEF A
  <2>1. n \in Nat /\ seqs \in [1..n -> Seq(A)]
    BY <1>2, <1>10
  <2>2. /\ FlattenSeq(seqs) \in Seq(A)
        /\ Len(FlattenSeq(seqs)) = Ends(seqs, n)[n]
        /\ \A i \in 1..n : \A k \in 1..Len(seqs[i]) :
             /\ Ends(seqs, n)[i - 1] + k \in 1..Len(FlattenSeq(seqs))
             /\ FlattenSeq(seqs)[Ends(seqs, n)[i - 1] + k] = seqs[i][k]
        /\ \A t \in 1..Len(FlattenSeq(seqs)) :
             \E i \in 1..n : \E k \in 1..Len(seqs[i]) : t = Ends(seqs, n)[i - 1] + k
    <3>1. OneAfterOther(A, n, seqs)
      BY <2>1, FlattenedAt
    <3> QED BY <3>1, Zenon DEF OneAfterOther
  <2> QED BY <2>2, Zenon DEF ends
<1>12. /\ ends[0] = 0
       /\ \A i \in 1..n : ends[i] = ends[i - 1] + Len(seqs[i])
  <2>1. n \in Nat
    BY <1>2
  <2> HIDE DEF A
  <2> QED BY <1>10, <2>1, EndsStep
<1> HIDE DEF ends, A
<1>13. \A i \in 1..n : ends[i - 1] = FirstRow(i - 1) /\ ends[i] = LastRow(i - 1)
  <2> DEFINE T == {i \in Nat : i + 1 \in 1..n => ends[i] = FirstRow(i) /\ ends[i + 1] = LastRow(i)}
  <2>1. ASSUME NEW i \in Nat, i + 1 \in 1..n, ends[i] = FirstRow(i) PROVE ends[i + 1] = LastRow(i)
    <3>1. ends[i + 1] = ends[i] + Len(seqs[i + 1]) /\ Len(seqs[i + 1]) = LastRow(i) - FirstRow(i)
      BY <1>10, <1>12, <2>1
    <3>2. i \in 0..(n - 1)
      BY <1>2, <2>1
    <3>3. FirstRow(i) \in 0..m /\ LastRow(i) \in 0..m
      BY <1>8, <3>2
    <3>4. FirstRow(i) \in Int /\ LastRow(i) \in Int
      BY <1>7, <3>3
    <3> QED BY <2>1, <3>1, <3>4
  <2>2. 0 \in T
    BY <1>2, <1>8, <1>12, <2>1
  <2>3. ASSUME NEW i \in Nat, i \in T PROVE i + 1 \in T
    <3> SUFFICES ASSUME (i + 1) + 1 \in 1..n
                 PROVE  ends[i + 1] = FirstRow(i + 1) /\ ends[(i + 1) + 1] = LastRow(i + 1)
      OBVIOUS
    <3>1. i + 1 \in 1..n /\ i \in 0..(n - 1) /\ i # n - 1
      BY <1>2
    <3>2. ends[i + 1] = LastRow(i) /\ LastRow(i) = FirstRow(i + 1)
      BY <1>8, <2>3, <3>1
    <3> QED BY <2>1, <3>2
  <2>4. Nat \subseteq T
    <3> HIDE DEF T
    <3> QED BY <2>2, <2>3, NatSetInduction
  <2> TAKE i \in 1..n
  <2>5. i - 1 \in T /\ (i - 1) + 1 = i
    BY <1>2, <2>4
  <2> QED BY <2>5
<1>14. ends[n] = m
  <2>1. n \in 1..n /\ n - 1 \in 0..(n - 1)
    BY <1>2
  <2> QED BY <1>8, <1>13, <2>1
<1>15. \A t \in 1..m : FlattenSeq(seqs)[t] = DualAt(t)
  <2> TAKE t \in 1..m
  <2>1. PICK i \in 1..n : \E k \in 1..Len(seqs[i]) : t = ends[i - 1] + k
    BY <1>11, <1>14
  <2>2. PICK k \in 1..Len(seqs[i]) : t = ends[i - 1] + k
    BY <2>1
  <2>3. FlattenSeq(seqs)[t] = seqs[i][k] /\ t = FirstRow(i - 1) + k
    BY <1>11, <1>13, <2>2
  <2>4. seqs[i][k] = DualAt(FirstRow(i - 1) + k)
    BY <1>9, <1>10, <2>2
  <2> QED BY <2>3, <2>4
<1>16. FlattenSeq(seqs) = [t \in 1..m |-> DualAt(t)]
  BY <1>7, <1>11, <1>14, <1>15
<1> QED BY <1>6, <1>7, <1>16


\* What the root has of the multipliers, once it has gathered them.
Gathered == {"gather", "done"}
DualInv == pc[root] \in Gathered => result[root].dual = Expected

LEMMA ExpectedFixed ==
  ASSUME call' = call
  PROVE  Expected' = Expected
<1>1. Reference' = Reference
  BY DEF Reference, Caller
<1> QED BY <1>1 DEF Expected

\* No step but CollectDual changes the multipliers the root has gathered.
LEMMA DualKept ==
  ASSUME GridInv, ResultInv, [Next]_vars, ~CollectDual, pc'[root] \in Gathered
  PROVE  pc[root] \in Gathered /\ result'[root].dual = result[root].dual
<1>1. root \in Procs
  BY WorldAssumption DEF root, Procs
<1>2. pc[root] \in Gathered
  <2>1. ASSUME NEW p \in Procs, SelectGrid(p) \/ Abort(p) PROVE pc[root] \in Gathered
    <3>1. pc'[root] = pc[root] \/ pc'[root] \in {"grid", "aborted"}
      BY <1>1, <2>1, Placing
    <3> QED BY <3>1 DEF Gathered
  <2>2. CASE \E p \in Procs : SelectGrid(p) \/ Abort(p)
    BY <2>1, <2>2
  <2>3. CASE ~ \E p \in Procs : SelectGrid(p) \/ Abort(p)
    BY <1>1, <2>3, Moves DEF Moved, Gathered
  <2> QED BY <2>2, <2>3
<1>3. "dual" \in DOMAIN result[root] /\ root \in DOMAIN result
  BY <1>1, <1>2 DEF ResultInv, Gathered, Returned
<1>4. pc[root] \notin {"solved", "nonzeros", "ranks"}
  BY <1>2 DEF Gathered
<1>5. ASSUME NEW p \in Procs, CreateResult(p) PROVE UNCHANGED result[root]
  <2>1. result' = [result EXCEPT ![p] = LocalResult(p)] /\ pc[p] = "solved"
    BY <1>5 DEF CreateResult
  <2>2. p # root
    BY <1>4, <2>1
  <2> QED BY <2>1, <2>2
<1>6. ASSUME NEW p \in Procs, CountNonzeros(p) PROVE UNCHANGED result[root]
  <2>1. PICK n : result' = [q \in Procs |-> IF q \in Comm(row_color, p)
                                            THEN [result[q] EXCEPT !.nnz = n] ELSE result[q]]
    BY <1>6 DEF CountNonzeros
  <2>2. \A q \in Comm(row_color, p) : pc[q] = "nonzeros"
    BY <1>6 DEF CountNonzeros, At
  <2> QED BY <1>1, <1>4, <2>1, <2>2
<1>7. ASSUME NEW p \in Procs, CountRanks(p) PROVE UNCHANGED result[root]
  <2>1. PICK n : result' = [q \in Procs |-> IF q \in Comm(rank_color, p)
                                            THEN [result[q] EXCEPT !.rank = n] ELSE result[q]]
    BY <1>7 DEF CountRanks
  <2>2. \A q \in Comm(rank_color, p) : pc[q] = "ranks"
    BY <1>7 DEF CountRanks, At
  <2> QED BY <1>1, <1>4, <2>1, <2>2
<1>8. ASSUME NEW p \in Procs, DropReplica(p) PROVE result'[root].dual = result[root].dual
  <2>1. result' = [result EXCEPT ![p] = Dropped(@)]
    BY <1>8 DEF DropReplica
  <2> QED BY <1>3, <2>1 DEF Dropped
<1>9. ASSUME NEW p \in Procs, GatherFactor(p) PROVE result'[root].dual = result[root].dual
  <2>1. PICK R2, ranks :
          result' = [q \in Procs |->
            IF q \notin Comm(rank_color, p) THEN result[q]
            ELSE IF my_rank(q) = 0 THEN [result[q] EXCEPT !.R2 = R2, !.rank_list = ranks]
            ELSE Dropped(result[q])]
    BY <1>9 DEF GatherFactor
  <2> QED BY <1>1, <1>3, <2>1 DEF Dropped
<1>10. ASSUME NEW p \in Procs, Step(p) PROVE result'[root].dual = result[root].dual
  <2>1. CASE CreateResult(p) \/ CountNonzeros(p) \/ CountRanks(p) \/ DropReplica(p) \/ GatherFactor(p)
    BY <1>5, <1>6, <1>7, <1>8, <1>9, <2>1
  <2>2. CASE ~(CreateResult(p) \/ CountNonzeros(p) \/ CountRanks(p) \/ DropReplica(p)
               \/ GatherFactor(p))
    <3>1. UNCHANGED result
      BY <1>10, <2>2 DEF Step, SelectGrid, Abort, Serialize, SendChunk, ReceiveChunk, Permute,
         Take, RowNorms, ConeNorms, ZeroObjective, NotGathered
    <3> QED BY <1>1, <3>1
  <2> QED BY <2>1, <2>2
<1>11. CASE Collective
  <2>1. UNCHANGED result
    BY <1>11 DEF Collective, InitializeContext, Barrier, Solve
  <2> QED BY <1>2, <2>1
<1>12. CASE UNCHANGED vars
  BY <1>12 DEF vars
<1> QED BY <1>2, <1>10, <1>11, <1>12, StepCases

\* CollectDual leaves the root with the caller's multipliers.
LEMMA DualCollected ==
  ASSUME IInv, CollectDual
  PROVE  result'[root].dual = Expected
<1>1. root \in Procs /\ At(Procs, "collect")
  BY WorldAssumption DEF root, Procs, CollectDual
<1>2. CallInv /\ GridInv /\ LocalInv /\ CopyInv /\ ResultInv
  BY DEF IInv
<1>3. pc[root] = "collect" /\ pc[root] \notin Unplaced /\ pc[root] \notin Copying
      /\ pc[root] \in Returned
  BY <1>1 DEF At, Unplaced, Copying, Returned
<1>4. KeepsDual(root)
  <2>1. IsDims(Dims(call.grid))
    BY <1>1, <1>2, <1>3, PlacedAt, GridOfCall
  <2> DEFINE d == Dims(call.grid)
  <2>2. d[1] \in Nat \ {0} /\ d[2] \in Nat \ {0} /\ d[3] \in Nat \ {0}
    BY <2>1 DEF IsDims
  <2>3. 0 \in 0..(d[1] - 1) /\ 0 \in 0..(d[2] - 1) /\ 0 \in 0..(d[3] - 1)
    BY <2>2
  <2> DEFINE p == (0 * d[2] + 0) * d[3] + 0
  <2>4. Coords(d, p) = <<0, 0, 0>>
    BY <2>1, <2>3, ProcessAt
  <2> HIDE DEF d
  <2>5. p = 0
    BY <2>2
  <2>6. Coords(d, root) = <<0, 0, 0>>
    BY <2>4, <2>5 DEF root
  <2>7. my_row(root) = 0 /\ my_rank(root) = 0 /\ my_cone(root) = 0
    BY <1>1, <1>2, <1>3, <2>6, PlacedAt DEF Coordinates, d
  <2> QED BY <1>1, <2>7 DEF KeepsDual, Collectors
<1>5. perm[root] = call.order
  BY <1>1, <1>2, <1>3 DEF CopyInv
<1>6. GatheredDual = [i \in Rows |-> DualAt(i)]
  BY <1>1, <1>2, DualGathered
<1>7. \A r \in Rows : NewRow(call.order, r) \in Rows
  BY <1>2, CallersOrder, NewRowInverts
<1>8. unpermute_dual_solution(perm[root], GatheredDual)
        = [r \in Rows |-> DualAt(NewRow(call.order, r))]
  BY <1>5, <1>6, <1>7 DEF unpermute_dual_solution
<1>9. "dual" \in DOMAIN result[root]
  BY <1>1, <1>2, <1>3 DEF ResultInv
<1>10. result'[root] = [result[root] EXCEPT !.dual = unpermute_dual_solution(perm[root], GatheredDual)]
  BY <1>1, <1>4 DEF CollectDual
<1> QED BY <1>2, <1>8, <1>9, <1>10, DualOfRow

LEMMA InductiveDual == IInv /\ DualInv /\ [Next]_vars => DualInv'
<1> SUFFICES ASSUME IInv, DualInv, [Next]_vars, pc'[root] \in Gathered
             PROVE  result'[root].dual = Expected'
  BY DEF DualInv
<1>1. Expected' = Expected
  BY CallStep, ExpectedFixed
<1>2. CASE CollectDual
  BY <1>1, <1>2, DualCollected
<1>3. CASE ~CollectDual
  BY <1>1, <1>3, DualKept DEF IInv, DualInv
<1> QED BY <1>2, <1>3

\* The multipliers the root returns are those of the caller's constraints, in
\* their order and units, whatever the grid, the order the processes ran in,
\* the shuffle and the scaling (gather_sdp_result, unpermute_dual_solution).
THEOREM DualAlwaysInCallersOrder == Spec => []DualInCallersOrder
<1>1. Init => DualInv
  <2>1. Init => pc[root] = "start"
    BY WorldAssumption DEF Init, root, Procs
  <2> QED BY <2>1 DEF DualInv, Gathered
<1>2. IInv /\ DualInv /\ [Next]_vars => DualInv'
  BY InductiveDual
<1>3. DualInv => DualInCallersOrder
  <2>1. root \in Procs
    BY WorldAssumption DEF root, Procs
  <2> QED BY <2>1 DEF DualInv, DualInCallersOrder, At, Gathered, Expected
<1> QED BY <1>1, <1>2, <1>3, IInvHolds, PTL DEF Spec



-----------------------------------------------------------------------------
(* The communicators: each is a line of the grid.                          *)

LEMMA SameLine ==
  ASSUME CallInv, GridInv, \A q \in Procs : pc[q] \notin Unplaced, NEW p \in Procs
  PROVE  LET c == Coordinates(p)
         IN  /\ Comm(rank_color, p)
                  = {q \in Procs : Coordinates(q)[1] = c[1] /\ Coordinates(q)[3] = c[3]}
             /\ Comm(row_color, p)
                  = {q \in Procs : Coordinates(q)[2] = c[2] /\ Coordinates(q)[3] = c[3]}
             /\ Comm(cone_color, p)
                  = {q \in Procs : Coordinates(q)[1] = c[1] /\ Coordinates(q)[2] = c[2]}
<1> DEFINE d == Dims(call.grid)
<1>1. IsDims(d)
  BY PlacedAt, GridOfCall
<1>2. d[1] \in Nat \ {0} /\ d[2] \in Nat \ {0} /\ d[3] \in Nat \ {0}
  BY <1>1 DEF IsDims
<1>3. \A q \in Procs : /\ dims[q] = d /\ my_row(q) = Coordinates(q)[1]
                       /\ my_rank(q) = Coordinates(q)[2] /\ my_cone(q) = Coordinates(q)[3]
  BY PlacedAt
<1>4. \A q \in Procs : /\ Coordinates(q)[1] \in 0..(d[1] - 1)
                       /\ Coordinates(q)[2] \in 0..(d[2] - 1)
                       /\ Coordinates(q)[3] \in 0..(d[3] - 1)
  BY <1>1, CoordinatesOf DEF Coordinates
<1> HIDE DEF d
<1>5. \A q \in Procs : /\ rank_color(q) = Coordinates(q)[1] * d[3] + Coordinates(q)[3]
                       /\ row_color(q) = Coordinates(q)[2] * d[3] + Coordinates(q)[3]
                       /\ cone_color(q) = Coordinates(q)[1] * d[2] + Coordinates(q)[2]
  BY <1>3 DEF rank_color, row_color, cone_color
<1>6. ASSUME NEW n \in Nat, NEW x \in Nat, NEW y \in Nat, NEW r \in 0..(n - 1), NEW s \in 0..(n - 1)
      PROVE  x * n + r = y * n + s <=> x = y /\ r = s
  <2>1. x * n + r = y * n + s => x = y /\ r = s
    BY DivisionUnique
  <2> QED BY <2>1
<1>7. ASSUME NEW q \in Procs
      PROVE  /\ rank_color(q) = rank_color(p) <=>
                  Coordinates(q)[1] = Coordinates(p)[1] /\ Coordinates(q)[3] = Coordinates(p)[3]
             /\ row_color(q) = row_color(p) <=>
                  Coordinates(q)[2] = Coordinates(p)[2] /\ Coordinates(q)[3] = Coordinates(p)[3]
             /\ cone_color(q) = cone_color(p) <=>
                  Coordinates(q)[1] = Coordinates(p)[1] /\ Coordinates(q)[2] = Coordinates(p)[2]
  <2> DEFINE i == Coordinates(q)[1]
             j == Coordinates(q)[2]
             k == Coordinates(q)[3]
             x == Coordinates(p)[1]
             y == Coordinates(p)[2]
             z == Coordinates(p)[3]
  <2>1. i \in Nat /\ j \in Nat /\ x \in Nat /\ y \in Nat
    BY <1>2, <1>4
  <2>2. k \in 0..(d[3] - 1) /\ z \in 0..(d[3] - 1) /\ j \in 0..(d[2] - 1) /\ y \in 0..(d[2] - 1)
    BY <1>4
  <2> HIDE DEF i, j, k, x, y, z
  <2>3. d[3] \in Nat /\ d[2] \in Nat
    BY <1>2
  <2>4. i * d[3] + k = x * d[3] + z <=> i = x /\ k = z
    BY <1>6, <2>1, <2>2, <2>3
  <2>5. j * d[3] + k = y * d[3] + z <=> j = y /\ k = z
    BY <1>6, <2>1, <2>2, <2>3
  <2>6. i * d[2] + j = x * d[2] + y <=> i = x /\ j = y
    BY <1>6, <2>1, <2>2, <2>3
  <2> QED BY <1>5, <2>4, <2>5, <2>6 DEF i, j, k, x, y, z
<1>8. /\ Comm(rank_color, p) = {q \in Procs : rank_color(q) = rank_color(p)}
      /\ Comm(row_color, p) = {q \in Procs : row_color(q) = row_color(p)}
      /\ Comm(cone_color, p) = {q \in Procs : cone_color(q) = cone_color(p)}
  BY DEF Comm
<1> QED BY <1>7, <1>8

\* Along the rank axis there is a process at each coordinate.
LEMMA SharesInLine ==
  ASSUME CallInv, GridInv, \A q \in Procs : pc[q] \notin Unplaced, NEW p \in Procs
  PROVE  LET S == Comm(rank_color, p)
             coord == [q \in S |-> my_rank(q)]
         IN  /\ Dims(call.grid)[2] \in Nat \ {0}
             /\ Along(S, Dims(call.grid)[2], coord)
             /\ OrderedBy(S, {q \in S \X S : my_rank(q[1]) < my_rank(q[2])}, coord)
<1> DEFINE S == Comm(rank_color, p)
           coord == [q \in S |-> my_rank(q)]
           d == Dims(call.grid)
           x == Coordinates(p)[1]
           z == Coordinates(p)[3]
<1>1. IsDims(d)
  BY PlacedAt, GridOfCall
<1>2. d[1] \in Nat \ {0} /\ d[2] \in Nat \ {0} /\ d[3] \in Nat \ {0}
  BY <1>1 DEF IsDims
<1>3. \A q \in Procs : my_rank(q) = Coordinates(q)[2] /\ Coordinates(q) = Coords(d, q)
  BY PlacedAt DEF Coordinates
<1>4. \A q \in Procs : q \in S <=> Coordinates(q)[1] = x /\ Coordinates(q)[3] = z
  BY SameLine
<1>5. S \subseteq Procs
  BY CommMembers
<1>6. x \in 0..(d[1] - 1) /\ z \in 0..(d[3] - 1)
  BY <1>1, CoordinatesOf DEF Coordinates
<1>7. \A q \in Procs : Coordinates(q)[2] \in 0..(d[2] - 1)
  BY <1>1, CoordinatesOf DEF Coordinates
<1>8. \A q \in S : coord[q] = Coordinates(q)[2]
  BY <1>3, <1>5
<1> HIDE DEF S, d, x, z
<1>9. coord \in [S -> 0..(d[2] - 1)]
  BY <1>5, <1>7, <1>8
<1>10. ASSUME NEW q \in S, NEW r \in S, coord[q] = coord[r] PROVE q = r
  <2>1. /\ q = (Coordinates(q)[1] * d[2] + Coordinates(q)[2]) * d[3] + Coordinates(q)[3]
        /\ r = (Coordinates(r)[1] * d[2] + Coordinates(r)[2]) * d[3] + Coordinates(r)[3]
    BY <1>1, <1>3, <1>5, CoordinatesOf
  <2>2. Coordinates(q)[1] = Coordinates(r)[1] /\ Coordinates(q)[2] = Coordinates(r)[2]
        /\ Coordinates(q)[3] = Coordinates(r)[3]
    BY <1>4, <1>5, <1>8, <1>10
  <2> QED BY <2>1, <2>2
<1>11. ASSUME NEW j \in 0..(d[2] - 1) PROVE \E q \in S : coord[q] = j
  <2> DEFINE q == (x * d[2] + j) * d[3] + z
  <2>1. q \in Procs /\ Coords(d, q) = <<x, j, z>>
    BY <1>1, <1>6, ProcessAt
  <2> HIDE DEF q
  <2>2. q \in S
    BY <1>3, <1>4, <2>1
  <2> QED BY <1>3, <1>8, <2>1, <2>2
<1>12. Along(S, d[2], coord)
  <2> HIDE DEF coord
  <2> QED BY <1>9, <1>10, <1>11 DEF Along
<1>13. OrderedBy(S, {q \in S \X S : my_rank(q[1]) < my_rank(q[2])}, coord)
  BY DEF OrderedBy
<1> QED BY <1>2, <1>12, <1>13 DEF S, d

\* A sum along a line is where the partial sums end.
LEMMA SumAlong ==
  ASSUME NEW n \in Nat, NEW S, NEW coord, Along(S, n, coord),
         NEW F \in [0..n -> Int], F[0] = 0,
         NEW f, \A p \in S : f[p] = F[coord[p] + 1] - F[coord[p]]
  PROVE  SumOver(f, S) = F[n]
<1>1. /\ coord \in [S -> 0..(n - 1)]
      /\ \A p, q \in S : coord[p] = coord[q] => p = q
      /\ \A i \in 0..(n - 1) : \E p \in S : coord[p] = i
  BY DEF Along
<1>2. IsFiniteSet(S)
  <2>1. OrderedBy(S, {q \in S \X S : coord[q[1]] < coord[q[2]]}, coord)
    BY DEF OrderedBy
  <2> QED BY <2>1, InLine
<1>3. \A p \in S : f[p] \in Int
  <2> TAKE p \in S
  <2>1. coord[p] \in 0..(n - 1)
    BY <1>1
  <2>2. coord[p] \in 0..n /\ coord[p] + 1 \in 0..n
    BY <2>1
  <2> QED BY <2>2
<1> DEFINE B(k) == {p \in S : coord[p] < k}
           T == {k \in Nat : k <= n => SumOver(f, B(k)) = F[k]}
<1>4. 0 \in T
  <2>1. B(0) = {}
    BY <1>1
  <2>2. SumOver(f, {}) = 0
    BY <1>2, <1>3, SumSteps
  <2> QED BY <2>1, <2>2
<1>5. ASSUME NEW k \in Nat, k \in T PROVE k + 1 \in T
  <2>0. k + 1 \in Nat
    OBVIOUS
  <2> SUFFICES ASSUME k + 1 <= n PROVE SumOver(f, B(k + 1)) = F[k + 1]
    <3> HIDE DEF B
    <3> QED BY <2>0
  <2>1. PICK p \in S : coord[p] = k
    BY <1>1
  <2>2. B(k + 1) \ {p} = B(k) /\ p \in B(k + 1)
    <3>1. \A q \in S : coord[q] \in Int /\ (coord[q] = k => q = p)
      BY <1>1, <2>1
    <3> QED BY <2>1, <3>1
  <2>3. IsFiniteSet(B(k + 1)) /\ \A q \in B(k + 1) : f[q] \in Int
    <3>1. B(k + 1) \in SUBSET S
      OBVIOUS
    <3> QED BY <1>2, <1>3, <3>1, FS_Subset
  <2> DEFINE C == B(k + 1)
  <2>4. IsFiniteSet(C) /\ (\A q \in C : f[q] \in Int) /\ p \in C
    BY <2>2, <2>3
  <2>5. C \ {p} = B(k)
    BY <2>2
  <2> HIDE DEF C
  <2>6. SumOver(f, C) = f[p] + SumOver(f, C \ {p})
    BY <2>4, SumSteps
  <2>7. SumOver(f, B(k)) = F[k]
    <3> HIDE DEF B
    <3> QED BY <1>5
  <2>8. F[k] \in Int /\ F[k + 1] \in Int /\ f[p] = F[k + 1] - F[k]
    BY <2>1
  <2> HIDE DEF B
  <2>9. SumOver(f, C) = F[k + 1]
    <3>1. SumOver(f, C \ {p}) = F[k]
      BY <2>5, <2>7
    <3>2. SumOver(f, C) = f[p] + F[k]
      BY <2>6, <3>1
    <3> QED BY <2>8, <3>2
  <2> QED BY <2>9 DEF C
<1>6. n \in T
  <2> HIDE DEF T
  <2> QED BY <1>4, <1>5, NatSetInduction
<1>7. B(n) = S
  BY <1>1
<1> HIDE DEF B
<1>8. SumOver(f, B(n)) = F[n]
  BY <1>6
<1> QED BY <1>7, <1>8



-----------------------------------------------------------------------------
(* The shares of the rank.                                                 *)

LEMMA MinOfThree ==
  ASSUME NEW a \in Int, NEW b \in Int, NEW c \in Int
  PROVE  /\ Min({b, c}) \in Int
         /\ Min({a, b, c}) = IF a <= Min({b, c}) THEN a ELSE Min({b, c})
<1>1. Min({b, c}) = IF b <= c THEN b ELSE c
  BY MinOfTwo
<1> DEFINE m == IF a <= b /\ a <= c THEN a ELSE IF b <= c THEN b ELSE c
<1>2. m \in {a, b, c} /\ \A y \in {a, b, c} : m <= y
  OBVIOUS
<1>3. \A x \in {a, b, c} : (\A y \in {a, b, c} : x <= y) => x = m
  <2> TAKE x \in {a, b, c}
  <2> HAVE \A y \in {a, b, c} : x <= y
  <2>1. x <= m /\ m <= x
    BY <1>2
  <2>2. x \in Int /\ m \in Int
    OBVIOUS
  <2> HIDE DEF m
  <2> QED BY <2>1, <2>2
<1> HIDE DEF m
<1>4. Min({a, b, c}) = m
  BY <1>2, <1>3 DEF Min
<1> QED BY <1>1, <1>4 DEF m

\* The bounds on the rank of a cone are numbers.
LEMMA MaxRankIsNumber ==
  ASSUME NEW m \in Nat
  PROVE  MaxRank(m) \in Nat
<1> DEFINE R == {r \in 1..(m + 1) : r * (r + 1) >= 2 * m}
<1>1. R \in SUBSET Int /\ R \subseteq Nat /\ IsFiniteSet(R)
  <2>1. R \in SUBSET (1..(m + 1)) /\ m + 1 \in Int
    OBVIOUS
  <2>2. IsFiniteSet(1..(m + 1))
    BY <2>1, FS_Interval
  <2>3. IsFiniteSet(R)
    BY <2>1, <2>2, FS_Subset
  <2> QED BY <2>3
<1>2. m + 1 \in R
  <2>1. (m + 1) * ((m + 1) + 1) >= 2 * m
    <3>1. (m + 1) * ((m + 1) + 1) = m * m + 3 * m + 2 /\ m * m \in Nat
      OBVIOUS
    <3> QED BY <3>1
  <2> QED BY <2>1
<1>3. Min(R) \in Nat
  <2> HIDE DEF R
  <2>1. \E x \in R : \A y \in R : x <= y
    BY <1>1, <1>2, MinimumExists
  <2>2. Min(R) \in R
    BY <2>1 DEF Min
  <2> QED BY <1>1, <2>2
<1> QED BY <1>3 DEF MaxRank

LEMMA CapIsNumber ==
  ASSUME NEW q, NEW k
  PROVE  /\ Cardinality(RowsInCone(q, k)) \in Nat
         /\ compute_per_block_max_rank(q, k) \in Nat
<1> DEFINE m == Cardinality(RowsInCone(q, k))
<1>1. m \in Nat
  <2>1. RowsInCone(q, k) \in SUBSET Rows /\ IsFiniteSet(Rows)
    BY RowsFinite DEF RowsInCone
  <2> QED BY <2>1, FS_Subset, FS_CardinalityType
<1>2. MaxRank(m) \in Nat
  BY <1>1, MaxRankIsNumber
<1> QED BY <1>1, <1>2, RankAssumption DEF compute_per_block_max_rank

\* The ranks a process begins with, by cone and rank coordinate.
RankAt(j, k) == Min({Share(initial_rank, Dims(call.grid)[2], j), blk_dims[k],
                     compute_per_block_max_rank(Permuted, k)})

LEMMA RanksTaken ==
  ASSUME LocalInv, NEW p \in Procs, pc[p] = "solve"
  PROVE  /\ local[p].part.cones = OwnedBy(p).cones
         /\ state[p].rank_list =
              [l \in DOMAIN OwnedBy(p).cones |-> RankAt(Coordinates(p)[2], OwnedBy(p).cones[l])]
<1>1. pc[p] \in Taken /\ pc[p] \notin Solved
  BY DEF Taken, Solved, Returned
<1>2. PartOf(p).cones = OwnedBy(p).cones
  BY DEF PartOf, partition_problem
<1>3. local[p].part.cones = OwnedBy(p).cones
  BY <1>1, <1>2, LocalFields
<1>4. state[p].rank_list = InitialState(p)
  BY <1>1 DEF LocalInv
<1>5. InitialState(p) =
        [l \in DOMAIN OwnedBy(p).cones |-> RankAt(Coordinates(p)[2], OwnedBy(p).cones[l])]
  BY <1>2 DEF InitialState, InitialRanks, RankShare, RankAt
<1> QED BY <1>3, <1>4, <1>5

\* The processes at one cone coordinate own the same cones.
LEMMA SameCones ==
  ASSUME NEW p \in Procs, NEW q \in Procs, Coordinates(p)[3] = Coordinates(q)[3]
  PROVE  OwnedBy(p).cones = OwnedBy(q).cones
BY OwnedShape

LEMMA IInvRankSharedOut == IInv => RankSharedOut
<1> SUFFICES ASSUME IInv, At(Procs, "solve"), NEW p \in Procs, NEW l \in DOMAIN local[p].part.cones
    PROVE  LET k == local[p].part.cones[l]
               bound == Min({blk_dims[k], compute_per_block_max_rank(problem[p], k)})
               shares == [q \in Comm(rank_color, p) |-> state[q].rank_list[l]]
               together == SumOver(shares, Comm(rank_color, p))
           IN  /\ together <= initial_rank
               /\ bound >= initial_rank => together = initial_rank
               /\ \A q \in Comm(row_color, p) : state[q].rank_list = state[p].rank_list
  BY DEF RankSharedOut
<1> DEFINE k == local[p].part.cones[l]
           bound == Min({blk_dims[k], compute_per_block_max_rank(problem[p], k)})
           S == Comm(rank_color, p)
           shares == [q \in S |-> state[q].rank_list[l]]
           coord == [q \in S |-> my_rank(q)]
           P == Dims(call.grid)[2]
           M == initial_rank
           whole == [q \in S |-> Share(M, P, my_rank(q))]
<1>1. CallInv /\ GridInv /\ LocalInv /\ CopyInv
  BY DEF IInv
<1>2. \A q \in Procs : pc[q] = "solve" /\ pc[q] \notin Unplaced /\ pc[q] \notin Copying
  BY DEF At, Unplaced, Copying
<1>3. S \subseteq Procs /\ Comm(row_color, p) \subseteq Procs
  BY CommMembers
<1>4. P \in Nat \ {0} /\ Along(S, P, coord)
  BY <1>1, <1>2, SharesInLine
<1>5. IsFiniteSet(S)
  <2>1. OrderedBy(S, {q \in S \X S : coord[q[1]] < coord[q[2]]}, coord)
    BY DEF OrderedBy
  <2>2. P \in Nat
    BY <1>4
  <2> HIDE DEF S, coord, P
  <2> QED BY <1>4, <2>1, <2>2, InLine
<1>6. \A q \in Procs : /\ local[q].part.cones = OwnedBy(q).cones
                       /\ state[q].rank_list = [h \in DOMAIN OwnedBy(q).cones |->
                            RankAt(Coordinates(q)[2], OwnedBy(q).cones[h])]
                       /\ my_rank(q) = Coordinates(q)[2]
  BY <1>1, <1>2, RanksTaken, PlacedAt
<1>7. problem[p] = Permuted
  BY <1>1, <1>2 DEF CopyInv
<1>8. k \in Cones /\ l \in DOMAIN OwnedBy(p).cones /\ k = OwnedBy(p).cones[l]
  BY <1>6, OwnedShape
<1>9. \A q \in S : shares[q] = RankAt(my_rank(q), k)
  <2> TAKE q \in S
  <2>1. q \in Procs /\ Coordinates(q)[3] = Coordinates(p)[3]
    BY <1>1, <1>2, <1>3, SameLine
  <2>2. OwnedBy(q).cones = OwnedBy(p).cones
    BY <2>1, SameCones
  <2>3. state[q].rank_list = [h \in DOMAIN OwnedBy(q).cones |->
                              RankAt(Coordinates(q)[2], OwnedBy(q).cones[h])]
    BY <1>6, <2>1
  <2>4. l \in DOMAIN OwnedBy(q).cones /\ OwnedBy(q).cones[l] = k
    BY <1>8, <2>2
  <2>5. state[q].rank_list[l] = RankAt(Coordinates(q)[2], k)
    BY <2>3, <2>4
  <2> QED BY <1>6, <2>1, <2>5
<1>10. \A q \in Comm(row_color, p) : state[q].rank_list = state[p].rank_list
  <2> TAKE q \in Comm(row_color, p)
  <2>1. q \in Procs /\ Coordinates(q)[3] = Coordinates(p)[3] /\ Coordinates(q)[2] = Coordinates(p)[2]
    BY <1>1, <1>2, <1>3, SameLine
  <2>2. OwnedBy(q).cones = OwnedBy(p).cones
    BY <2>1, SameCones
  <2>3. state[q].rank_list = [h \in DOMAIN OwnedBy(q).cones |->
                              RankAt(Coordinates(q)[2], OwnedBy(q).cones[h])]
    BY <1>6, <2>1
  <2>4. state[p].rank_list = [h \in DOMAIN OwnedBy(p).cones |->
                              RankAt(Coordinates(p)[2], OwnedBy(p).cones[h])]
    BY <1>6
  <2> QED BY <2>1, <2>2, <2>3, <2>4
<1>11. M \in Nat
  BY RankAssumption
<1>12. \A q \in S : my_rank(q) \in 0..(P - 1) /\ coord[q] = my_rank(q)
  BY <1>4 DEF Along
<1>13. /\ ShareStart(M, P, 0) = 0
       /\ \A i \in 0..(P - 1) :
            /\ ShareStart(M, P, i) \in 0..M
            /\ Share(M, P, i) \in Nat
            /\ ShareStart(M, P, i) + Share(M, P, i) \in 0..M
            /\ ShareStart(M, P, i) + Share(M, P, i)
                 = IF i = P - 1 THEN M ELSE ShareStart(M, P, i + 1)
  BY <1>4, <1>11, SharesTile
<1> HIDE DEF S, coord, P, M
<1>14. SumOver(whole, S) = M
  <2> DEFINE F == [i \in 0..P |-> IF i = P THEN M ELSE ShareStart(M, P, i)]
  <2>1. F \in [0..P -> Int] /\ F[0] = 0 /\ F[P] = M
    BY <1>4, <1>11, <1>13
  <2>2. \A q \in S : whole[q] = F[coord[q] + 1] - F[coord[q]]
    <3> TAKE q \in S
    <3> DEFINE i == my_rank(q)
    <3>1. i \in 0..(P - 1)
      BY <1>12
    <3> HIDE DEF i
    <3>2. F[i] = ShareStart(M, P, i)
          /\ F[i + 1] = IF i = P - 1 THEN M ELSE ShareStart(M, P, i + 1)
      BY <1>4, <3>1
    <3>3. ShareStart(M, P, i) \in Int /\ Share(M, P, i) \in Int
          /\ ShareStart(M, P, i) + Share(M, P, i) = F[i + 1]
      BY <1>13, <3>1, <3>2
    <3>4. whole[q] = Share(M, P, i) /\ coord[q] = i
      BY <1>12 DEF i
    <3> HIDE DEF F, whole
    <3> QED BY <3>2, <3>3, <3>4
  <2>3. P \in Nat
    BY <1>4
  <2> HIDE DEF F, whole
  <2> QED BY <1>4, <2>1, <2>2, <2>3, SumAlong, SMTT(30)
<1>15. \A q \in S : whole[q] \in Nat /\ whole[q] <= M /\ whole[q] = Share(M, P, my_rank(q))
  <2> TAKE q \in S
  <2> DEFINE i == my_rank(q)
  <2>1. i \in 0..(P - 1) /\ whole[q] = Share(M, P, i)
    BY <1>12
  <2> HIDE DEF i
  <2>2. ShareStart(M, P, i) \in Nat /\ Share(M, P, i) \in Nat
        /\ ShareStart(M, P, i) + Share(M, P, i) <= M
    BY <1>11, <1>13, <2>1
  <2> HIDE DEF whole
  <2>3. whole[q] \in Nat /\ whole[q] <= M
    BY <1>11, <2>1, <2>2
  <2> QED BY <2>1, <2>3 DEF i
<1>16. bound \in Int /\ \A q \in S : shares[q] = IF whole[q] <= bound THEN whole[q] ELSE bound
  <2> DEFINE cap == compute_per_block_max_rank(Permuted, k)
             b == blk_dims[k]
  <2>1. cap \in Int
    <3>1. compute_per_block_max_rank(Permuted, k) \in Nat
      BY CapIsNumber
    <3> QED BY <3>1
  <2>2. b \in Int
    BY <1>8, Dimensions
  <2>3. bound = Min({b, cap})
    BY <1>7
  <2>4. \A q \in S : shares[q] = Min({whole[q], b, cap})
    BY <1>9, <1>15 DEF RankAt, M, P
  <2> HIDE DEF cap, b, bound, shares, whole
  <2>5. bound \in Int
    BY <2>1, <2>2, <2>3, MinOfThree
  <2>6. ASSUME NEW q \in S PROVE shares[q] = IF whole[q] <= bound THEN whole[q] ELSE bound
    <3> DEFINE a == whole[q]
    <3>1. a \in Int
      BY <1>15
    <3> HIDE DEF a
    <3>2. Min({a, b, cap}) = IF a <= Min({b, cap}) THEN a ELSE Min({b, cap})
      BY <2>1, <2>2, <3>1, MinOfThree
    <3> QED BY <2>3, <2>4, <3>2 DEF a
  <2> QED BY <2>5, <2>6
<1> HIDE DEF bound, shares, whole
<1>17. \A q \in S : shares[q] \in Int /\ whole[q] \in Int /\ shares[q] <= whole[q]
  BY <1>15, <1>16
<1>18. SumOver(shares, S) <= SumOver(whole, S)
  BY <1>5, <1>17, SumCompares
<1>19. ASSUME bound >= M PROVE SumOver(shares, S) = SumOver(whole, S)
  <2>1. \A q \in S : shares[q] = whole[q]
    BY <1>11, <1>15, <1>16, <1>19
  <2>2. \A q \in S : shares[q] \in Int
    BY <1>17
  <2>3. \A q \in S : whole[q] = shares[q]
    BY <2>1
  <2> QED BY <1>5, <2>2, <2>3, SumEquals
<1>20. SumOver(shares, S) <= M /\ (bound >= M => SumOver(shares, S) = M)
  BY <1>14, <1>18, <1>19
<1> QED BY <1>10, <1>20 DEF S, M, bound, shares

\* The ranks that the processes of the rank axis begin with come to the rank
\* asked for, unless a cone's own bound cuts them, and replicas agree on them
\* (distributed_optimize, initialize_solver_state).
THEOREM RankAlwaysSharedOut == Spec => []RankSharedOut
BY IInvHolds, IInvRankSharedOut, PTL



-----------------------------------------------------------------------------
(* The factors.                                                            *)

\* What the process holds of its l-th cone, in the caller's units.
Held(p, l) ==
  LET k == OwnedBy(p).cones[l]
  IN  [c \in 1..state[p].rank_list[l] |-> [i \in 1..blk_dims[k] |->
         2 * Factor(k, i, Coordinates(p)[2], c) - Reference.tau_b
           - 2 * Reference.unit[<<k, i>>]]]
\* The processes with the same rows and cones, by their share of the rank.
RankLine(p) == {q \in Procs : /\ Coordinates(q)[1] = Coordinates(p)[1]
                              /\ Coordinates(q)[3] = Coordinates(p)[3]}
InOrder(p) == Sorted(RankLine(p), {q \in RankLine(p) \X RankLine(p) :
                                     Coordinates(q[1])[2] < Coordinates(q[2])[2]})
Together(p, l) == FlattenSeq([i \in DOMAIN InOrder(p) |-> Held(InOrder(p)[i], l)])
Gathering == {"nonzeros", "ranks", "collect", "gather"}

SolvedTogether == \A p, q \in Procs : pc[p] \in Solved => pc[q] \in Solved
SolutionInv ==
  \A p \in Procs : pc[p] \in Solved =>
    /\ state[p].rank_list \in [DOMAIN OwnedBy(p).cones -> Nat]
    /\ state[p].R = [l \in DOMAIN OwnedBy(p).cones |->
         [c \in 1..state[p].rank_list[l] |->
            [i \in 1..blk_dims[OwnedBy(p).cones[l]] |->
               Factor(OwnedBy(p).cones[l], i, Coordinates(p)[2], c)]]]
UngatheredInv ==
  \A p \in Procs : pc[p] \in Gathering =>
    /\ result[p].R2 = [l \in DOMAIN OwnedBy(p).cones |-> Held(p, l)]
    /\ result[p].rank_list = state[p].rank_list
GatheredInv ==
  \A p \in Procs : pc[p] = "done" =>
    IF Coordinates(p)[1] = 0 /\ Coordinates(p)[2] = 0
    THEN /\ result[p].R2 = [l \in DOMAIN OwnedBy(p).cones |-> Together(p, l)]
         /\ result[p].rank_list = [l \in DOMAIN OwnedBy(p).cones |-> Len(Together(p, l))]
    ELSE result[p].R2 = <<>>
FactorInv == SolvedTogether /\ SolutionInv /\ UngatheredInv /\ GatheredInv

LEMMA RankIsNatural ==
  ASSUME NEW k \in Cones, Dims(call.grid)[2] \in Nat \ {0}, NEW j \in 0..(Dims(call.grid)[2] - 1)
  PROVE  RankAt(j, k) \in Nat
<1> DEFINE a == Share(initial_rank, Dims(call.grid)[2], j)
           b == blk_dims[k]
           c == compute_per_block_max_rank(Permuted, k)
           P == Dims(call.grid)[2]
<1>1. a \in Nat
  <2>1. initial_rank \in Nat /\ P \in Nat \ {0} /\ j \in 0..(P - 1)
    BY RankAssumption
  <2> HIDE DEF P
  <2>2. Share(initial_rank, P, j) \in Nat
    BY <2>1, SharesTile
  <2> QED BY <2>2 DEF P
<1>2. b \in Nat
  BY Dimensions
<1>3. c \in Nat
  BY CapIsNumber
<1>4. RankAt(j, k) = Min({a, b, c})
  BY DEF RankAt
<1> HIDE DEF a, b, c
<1>5. /\ Min({b, c}) = IF b <= c THEN b ELSE c
      /\ Min({a, b, c}) = IF a <= Min({b, c}) THEN a ELSE Min({b, c})
  BY <1>1, <1>2, <1>3, MinOfTwo, MinOfThree
<1> QED BY <1>1, <1>2, <1>3, <1>4, <1>5

\* The steps of processes that have solved.
LEMMA SolvedSteps ==
  ASSUME SolvedTogether, [Next]_vars, NEW r \in Procs, pc[r] \in Solved
  PROVE  \/ \E p \in Procs : CreateResult(p) \/ CountNonzeros(p) \/ CountRanks(p)
                             \/ NotGathered(p) \/ DropReplica(p) \/ GatherFactor(p)
         \/ CollectDual
         \/ UNCHANGED vars
<1>1. \A p \in Procs : pc[p] \in Solved
  BY DEF SolvedTogether
<1>2. 0 \in Procs
  BY WorldAssumption DEF Procs
<1>3. ASSUME NEW p \in Procs, Step(p)
      PROVE  CreateResult(p) \/ CountNonzeros(p) \/ CountRanks(p)
             \/ NotGathered(p) \/ DropReplica(p) \/ GatherFactor(p)
  <2>1. pc[p] \notin {"start", "grid", "serialize", "barrier", "bcast", "permute", "partition",
                      "row_norms", "cone_norms", "objective", "solve"}
    BY <1>1 DEF Solved, Returned
  <2> QED BY <1>3, <2>1 DEF Step, SelectGrid, Abort, Serialize, SendChunk, ReceiveChunk,
     Permute, Take, RowNorms, ConeNorms, ZeroObjective
<1>4. ASSUME Collective PROVE CollectDual
  <2>1. pc[0] \notin {"grid", "barrier", "solve"}
    BY <1>1, <1>2 DEF Solved, Returned
  <2> QED BY <1>2, <1>4, <2>1 DEF Collective, InitializeContext, Barrier, Solve, At
<1> QED BY <1>3, <1>4, StepCases

LEMMA SolvedStateKept ==
  ASSUME SolvedTogether, [Next]_vars, NEW r \in Procs, pc[r] \in Solved
  PROVE  state' = state /\ local' = local /\ dims' = dims
<1>1. CASE \E p \in Procs : CreateResult(p) \/ CountNonzeros(p) \/ CountRanks(p)
                             \/ NotGathered(p) \/ DropReplica(p) \/ GatherFactor(p)
  BY <1>1 DEF CreateResult, CountNonzeros, CountRanks, NotGathered, DropReplica, GatherFactor
<1>2. CASE CollectDual
  BY <1>2 DEF CollectDual
<1>3. CASE UNCHANGED vars
  BY <1>3 DEF vars
<1> QED BY <1>1, <1>2, <1>3, SolvedSteps

LEMMA SolvedTogetherStep ==
  ASSUME GridInv, SolvedTogether, [Next]_vars
  PROVE  SolvedTogether'
<1>1. CASE Solve
  <2>1. \A p \in Procs : pc'[p] = "solved"
    BY <1>1, Going DEF GridInv, Solve, Labels
  <2> QED BY <2>1 DEF SolvedTogether, Solved
<1>2. CASE ~Solve
  <2>1. \A p \in Procs : pc'[p] \in Solved <=> pc[p] \in Solved
    BY <1>2, Sides
  <2> QED BY <2>1 DEF SolvedTogether
<1> QED BY <1>1, <1>2

LEMMA SolutionInvStep ==
  ASSUME IInv, SolvedTogether, SolutionInv, [Next]_vars
  PROVE  SolutionInv'
<1> SUFFICES ASSUME NEW p \in Procs, pc'[p] \in Solved
             PROVE  /\ state'[p].rank_list \in [DOMAIN OwnedBy(p).cones -> Nat]
                    /\ state'[p].R = [l \in DOMAIN OwnedBy(p).cones |->
                         [c \in 1..state'[p].rank_list[l] |->
                            [i \in 1..blk_dims[OwnedBy(p).cones[l]] |->
                               Factor(OwnedBy(p).cones[l], i, Coordinates(p)[2], c)]]]
  <2>1. call' = call
    BY CallStep
  <2>2. \A p \in Procs : OwnedBy(p)' = OwnedBy(p) /\ Coordinates(p)' = Coordinates(p)
    BY <2>1 DEF OwnedBy, ScaledCopy, Permuted, Caller, Coordinates
  <2> QED BY <2>2 DEF SolutionInv
<1>1. CASE Solve
  <2> DEFINE cones == OwnedBy(p).cones
  <2>1. PICK grown \in [{my_rank(q) : q \in Procs} -> Growth] :
          state' = [q \in Procs |-> Solution(q, grown)]
    BY <1>1 DEF Solve
  <2>2. \A q \in Procs : pc[q] = "solve" /\ pc[q] \notin Unplaced
    BY <1>1 DEF Solve, At, Unplaced
  <2>3. /\ local[p].part.cones = cones
        /\ state[p].rank_list = [l \in DOMAIN cones |-> RankAt(Coordinates(p)[2], cones[l])]
        /\ my_rank(p) = Coordinates(p)[2]
    BY <2>2, RanksTaken, PlacedAt DEF IInv
  <2>4. Coordinates(p)[2] \in 0..(Dims(call.grid)[2] - 1) /\ Dims(call.grid)[2] \in Nat \ {0}
    <3>1. IsDims(Dims(call.grid))
      BY <2>2, PlacedAt, GridOfCall DEF IInv
    <3> QED BY <3>1, CoordinatesOf DEF Coordinates, IsDims
  <2>5. \A l \in DOMAIN cones : cones[l] \in Cones
    BY OwnedShape
  <2>6. grown[my_rank(p)] \in Nat
    BY <2>1, RankAssumption
  <2>7. \A l \in DOMAIN cones : RankAt(Coordinates(p)[2], cones[l]) \in Nat
    BY <2>4, <2>5, RankIsNatural
  <2> DEFINE ranks == [l \in DOMAIN cones |-> state[p].rank_list[l] + grown[my_rank(p)]]
  <2>8. ranks \in [DOMAIN cones -> Nat]
    BY <2>3, <2>6, <2>7
  <2>9. state'[p] = Solution(p, grown)
    BY <2>1
  <2>10. /\ Solution(p, grown).rank_list = ranks
         /\ Solution(p, grown).R = [l \in DOMAIN cones |-> [c \in 1..ranks[l] |->
              [i \in 1..blk_dims[cones[l]] |-> Factor(cones[l], i, Coordinates(p)[2], c)]]]
    BY <2>3 DEF Solution
  <2> HIDE DEF ranks, cones
  <2> QED BY <2>8, <2>9, <2>10 DEF cones
<1>2. CASE ~Solve
  <2>1. pc[p] \in Solved
    BY <1>2, Sides DEF IInv
  <2>2. state' = state
    BY <2>1, SolvedStateKept
  <2> QED BY <2>1, <2>2 DEF SolutionInv
<1> QED BY <1>1, <1>2


\* The factors a process has of the rows of its cones are the caller's.
LEMMA FactorOfSlot ==
  ASSUME CallInv, NEW p \in Procs
  PROVE  \A l \in DOMAIN OwnedBy(p).cones : \A r \in 1..blk_dims[OwnedBy(p).cones[l]] :
           Whole(p).info.psd[FirstSlot(OwnedBy(p), l) + r]
             = Reference.unit[<<OwnedBy(p).cones[l], r>>]
<1> DEFINE cones == OwnedBy(p).cones
           n == Len(cones)
           unit == ScaledCopy.info.unit
           A == {unit[<<k, j>>] : k \in Cones, j \in Nat}
           seqs == [h \in 1..n |-> [j \in 1..blk_dims[cones[h]] |-> unit[<<cones[h], j>>]]]
<1>1. n \in Nat /\ DOMAIN cones = 1..n /\ \A h \in 1..n : cones[h] \in Cones
  BY OwnedShape
<1>2. Whole(p).info.psd = FlattenSeq([h \in DOMAIN cones |->
        [j \in 1..blk_dims[cones[h]] |-> unit[<<cones[h], j>>]]])
  BY DEF Whole, partition_rescale_info
<1>3. Whole(p).info.psd = FlattenSeq(seqs)
  BY <1>1, <1>2
<1>4. \A l : FirstSlot(OwnedBy(p), l)
               = RunningSum([h \in DOMAIN cones |-> blk_dims[cones[h]]], n)[l - 1]
  BY DEF FirstSlot
<1>5. unit = Reference.unit
  BY SameScales
<1> HIDE DEF cones, n, unit
<1>6. \A h \in 1..n : blk_dims[cones[h]] \in Nat
  BY <1>1, Dimensions
<1>7. ASSUME NEW h \in 1..n
      PROVE  seqs[h] \in Seq(A) /\ Len(seqs[h]) = blk_dims[cones[h]]
  <2> DEFINE m == blk_dims[cones[h]]
  <2>1. seqs[h] = [j \in 1..m |-> unit[<<cones[h], j>>]] /\ m \in Nat
    BY <1>6
  <2>2. cones[h] \in Cones
    BY <1>1 DEF cones, n
  <2>3. \A j \in 1..m : unit[<<cones[h], j>>] \in A
    <3> HIDE DEF seqs, m
    <3> QED BY <2>2
  <2> HIDE DEF m, A, seqs
  <2>4. seqs[h] \in [1..m -> A]
    BY <2>1, <2>3
  <2>5. m \in Nat
    BY <2>1
  <2> HIDE <2>1
  <2>6. Len(seqs[h]) = m /\ seqs[h] \in Seq(A)
    BY <2>4, <2>5
  <2> QED BY <2>6 DEF m
<1>8. seqs \in [1..n -> Seq(A)]
  <2> HIDE DEF A
  <2> QED BY <1>7
<1>9. LenOf(seqs, n) = [h \in DOMAIN cones |-> blk_dims[cones[h]]]
  <2>1. DOMAIN cones = 1..n
    BY <1>1 DEF cones, n
  <2> HIDE DEF seqs, A
  <2>2. \A h \in 1..n : Len(seqs[h]) = blk_dims[cones[h]]
    BY <1>7
  <2> QED BY <2>1, <2>2 DEF LenOf
<1>10. \A l : FirstSlot(OwnedBy(p), l) = Ends(seqs, n)[l - 1]
  BY <1>4, <1>9 DEF Ends
<1>11. ASSUME NEW l \in 1..n, NEW r \in 1..blk_dims[cones[l]]
       PROVE  r \in 1..Len(seqs[l]) /\ seqs[l][r] = unit[<<cones[l], r>>]
  <2>2. Len(seqs[l]) = blk_dims[cones[l]]
    <3> HIDE DEF seqs, A
    <3> QED BY <1>7
  <2> QED BY <2>2
<1> HIDE DEF seqs, A
<1>12. \A i \in 1..n : \A k \in 1..Len(seqs[i]) :
         FlattenSeq(seqs)[Ends(seqs, n)[i - 1] + k] = seqs[i][k]
  <2>1. n \in Nat
    BY <1>1 DEF n, cones
  <2>2. n \in Nat /\ seqs \in [1..n -> Seq(A)]
    BY <1>8, <2>1
  <2>3. /\ FlattenSeq(seqs) \in Seq(A)
        /\ Len(FlattenSeq(seqs)) = Ends(seqs, n)[n]
        /\ \A i \in 1..n : \A k \in 1..Len(seqs[i]) :
             /\ Ends(seqs, n)[i - 1] + k \in 1..Len(FlattenSeq(seqs))
             /\ FlattenSeq(seqs)[Ends(seqs, n)[i - 1] + k] = seqs[i][k]
        /\ \A t \in 1..Len(FlattenSeq(seqs)) :
             \E i \in 1..n : \E k \in 1..Len(seqs[i]) : t = Ends(seqs, n)[i - 1] + k
    <3>1. OneAfterOther(A, n, seqs)
      BY <2>2, FlattenedAt
    <3> QED BY <3>1, Zenon DEF OneAfterOther
  <2> QED BY <2>3
<1>13. DOMAIN cones = 1..n
  BY <1>1 DEF cones, n
<1> QED BY <1>3, <1>5, <1>10, <1>11, <1>12, <1>13 DEF cones

\* What a process puts in its result of its factor.
LEMMA LocalBlocks ==
  ASSUME IInv, SolutionInv, NEW p \in Procs, pc[p] = "solved"
  PROVE  /\ LocalResult(p).R2 = [l \in DOMAIN OwnedBy(p).cones |-> Held(p, l)]
         /\ LocalResult(p).rank_list = state[p].rank_list
<1> DEFINE cones == OwnedBy(p).cones
           D == DOMAIN cones
           ranks == state[p].rank_list
           part == local[p].part
           info == local[p].info
           R == state[p].R
<1>1. pc[p] \in Taken /\ pc[p] \in Solved
  BY DEF Taken, Solved
<1>2. part.cones = cones
  <2>1. part.cones = PartOf(p).cones
    BY <1>1, LocalFields DEF IInv
  <2> QED BY <2>1 DEF PartOf, partition_problem
<1>3. info = Whole(p).info
  BY <1>1, LocalFields DEF IInv
<1>4. info.tau_b = Reference.tau_b
  <2>1. Whole(p).info.tau_b = ScaledCopy.info.tau_b
    BY DEF Whole, partition_rescale_info
  <2> QED BY <1>3, <2>1, SameScales DEF IInv
<1>5. \A l \in D : FirstSlot(part, l) = FirstSlot(OwnedBy(p), l)
  BY <1>2 DEF FirstSlot
<1>6. \A l \in D : \A i \in 1..blk_dims[cones[l]] :
        info.psd[FirstSlot(part, l) + i] = Reference.unit[<<cones[l], i>>]
  BY <1>3, <1>5, FactorOfSlot DEF IInv
<1>7. R = [l \in D |-> [c \in 1..ranks[l] |-> [i \in 1..blk_dims[cones[l]] |->
             Factor(cones[l], i, Coordinates(p)[2], c)]]]
  BY <1>1 DEF SolutionInv
<1>8. LocalResult(p).R2 = [l \in DOMAIN R |-> [c \in DOMAIN R[l] |-> [i \in DOMAIN R[l][c] |->
        Unscaled2(info, part, l, i, R[l][c][i])]]]
  BY DEF LocalResult
<1>9. \A l, i, size : Unscaled2(info, part, l, i, size)
                        = 2 * size - info.tau_b - 2 * info.psd[FirstSlot(part, l) + i]
  BY DEF Unscaled2
<1>10. LocalResult(p).rank_list = ranks
  BY DEF LocalResult
<1>11. ASSUME NEW l \in D
       PROVE  [c \in DOMAIN R[l] |-> [i \in DOMAIN R[l][c] |->
                Unscaled2(info, part, l, i, R[l][c][i])]] = Held(p, l)
  <2> DEFINE k == cones[l]
             m == blk_dims[k]
             j == Coordinates(p)[2]
             r == ranks[l]
  <2>1. R[l] = [c \in 1..r |-> [i \in 1..m |-> Factor(k, i, j, c)]]
    BY <1>7
  <2>2. \A i \in 1..m : info.psd[FirstSlot(part, l) + i] = Reference.unit[<<k, i>>]
    BY <1>6
  <2>3. Held(p, l) = [c \in 1..r |-> [i \in 1..m |->
           2 * Factor(k, i, j, c) - Reference.tau_b - 2 * Reference.unit[<<k, i>>]]]
    BY DEF Held
  <2> HIDE DEF R, info, part, k, m, j, r
  <2>4. \A c \in 1..r : R[l][c] = [i \in 1..m |-> Factor(k, i, j, c)]
    BY <2>1
  <2>5. ASSUME NEW c \in 1..r, NEW i \in 1..m
        PROVE  Unscaled2(info, part, l, i, R[l][c][i])
                 = 2 * Factor(k, i, j, c) - Reference.tau_b - 2 * Reference.unit[<<k, i>>]
    <3>1. R[l][c][i] = Factor(k, i, j, c)
      BY <2>4
    <3>2. info.psd[FirstSlot(part, l) + i] = Reference.unit[<<k, i>>]
      BY <2>2
    <3>3. Unscaled2(info, part, l, i, R[l][c][i])
            = 2 * R[l][c][i] - info.tau_b - 2 * info.psd[FirstSlot(part, l) + i]
      BY <1>9
    <3> QED BY <1>4, <3>1, <3>2, <3>3
  <2>6. DOMAIN R[l] = 1..r /\ \A c \in 1..r : DOMAIN R[l][c] = 1..m
    BY <2>1
  <2> QED BY <2>3, <2>5, <2>6, ZenonT(40)
<1>12. DOMAIN R = D
  BY <1>7
<1> HIDE DEF R, info, part
<1> QED BY <1>8, <1>10, <1>11, <1>12


\* What a step does with the result of a process.
FactorKept(q) == result'[q].R2 = result[q].R2 /\ result'[q].rank_list = result[q].rank_list
GatheredNow(q) ==
  LET S == Comm(rank_color, q)
  IN  /\ At(S, "gather")
      /\ result'[q].R2 = [l \in DOMAIN OwnedBy(q).cones |-> GatheredBlock(S, l)]
      /\ result'[q].rank_list = [l \in DOMAIN OwnedBy(q).cones |->
                                   Total(S, LAMBDA s : state[s].rank_list[l])]

LEMMA ResultSteps ==
  ASSUME IInv, SolvedTogether, [Next]_vars, NEW q \in Procs, pc[q] \in Solved
  PROVE  \/ pc'[q] = pc[q] /\ result'[q] = result[q]
         \/ pc[q] = "solved" /\ pc'[q] = "nonzeros" /\ result'[q] = LocalResult(q)
         \/ /\ pc[q] \in {"nonzeros", "ranks", "collect"}
            /\ pc'[q] \in {"ranks", "collect", "gather"}
            /\ FactorKept(q)
         \/ /\ pc[q] = "gather" /\ pc'[q] = "done"
            /\ \/ dims[q][1] = 1 /\ dims[q][2] = 1 /\ FactorKept(q)
               \/ my_row(q) # 0 /\ result'[q].R2 = <<>>
               \/ my_row(q) = 0 /\ my_rank(q) # 0 /\ result'[q].R2 = <<>>
               \/ my_row(q) = 0 /\ my_rank(q) = 0 /\ GatheredNow(q)
<1>1. \A r \in Procs : pc[r] \in Solved /\ pc[r] \notin Unplaced /\ pc[r] \in Taken
  BY DEF SolvedTogether, Solved, Returned, Unplaced, Taken
<1>2. pc \in [Procs -> Labels] /\ CallInv /\ GridInv /\ LocalInv /\ ResultInv
  BY DEF IInv, GridInv
<1>3. pc[q] \in Returned => {"R2", "rank_list", "nnz", "rank", "dual", "x"} \subseteq DOMAIN result[q]
  BY <1>2 DEF ResultInv
<1>4. q \in DOMAIN result
  BY <1>2 DEF ResultInv
<1>5. ASSUME NEW p \in Procs, CreateResult(p)
      PROVE  \/ pc'[q] = pc[q] /\ result'[q] = result[q]
             \/ pc[q] = "solved" /\ pc'[q] = "nonzeros" /\ result'[q] = LocalResult(q)
  <2>1. pc'[q] = IF q = p THEN "nonzeros" ELSE pc[q]
    BY <1>2, <1>5, Going DEF CreateResult, Labels
  <2> QED BY <1>4, <1>5, <2>1 DEF CreateResult
<1>6. ASSUME NEW p \in Procs, CountNonzeros(p)
      PROVE  \/ pc'[q] = pc[q] /\ result'[q] = result[q]
             \/ pc[q] = "nonzeros" /\ pc'[q] = "ranks" /\ FactorKept(q)
  <2> DEFINE S == Comm(row_color, p)
  <2>1. pc'[q] = IF q \in S THEN "ranks" ELSE pc[q]
    BY <1>2, <1>6, Going DEF CountNonzeros, Labels
  <2>2. q \in S => pc[q] = "nonzeros" /\ pc[q] \in Returned
    BY <1>6 DEF CountNonzeros, At, Returned
  <2>3. PICK n : result' = [r \in Procs |-> IF r \in S THEN [result[r] EXCEPT !.nnz = n]
                                            ELSE result[r]]
    BY <1>6 DEF CountNonzeros
  <2> HIDE DEF S
  <2> QED BY <1>3, <2>1, <2>2, <2>3 DEF FactorKept
<1>7. ASSUME NEW p \in Procs, CountRanks(p)
      PROVE  \/ pc'[q] = pc[q] /\ result'[q] = result[q]
             \/ pc[q] = "ranks" /\ pc'[q] = "collect" /\ FactorKept(q)
  <2> DEFINE S == Comm(rank_color, p)
  <2>1. pc'[q] = IF q \in S THEN "collect" ELSE pc[q]
    BY <1>2, <1>7, Going DEF CountRanks, Labels
  <2>2. q \in S => pc[q] = "ranks" /\ pc[q] \in Returned
    BY <1>7 DEF CountRanks, At, Returned
  <2>3. PICK n : result' = [r \in Procs |-> IF r \in S THEN [result[r] EXCEPT !.rank = n]
                                            ELSE result[r]]
    BY <1>7 DEF CountRanks
  <2> HIDE DEF S
  <2> QED BY <1>3, <2>1, <2>2, <2>3 DEF FactorKept
<1>8. ASSUME CollectDual
      PROVE  pc[q] = "collect" /\ pc'[q] = "gather" /\ FactorKept(q)
  <2>1. pc[q] = "collect" /\ pc'[q] = "gather" /\ pc[q] \in Returned
    BY <1>2, <1>8, Going DEF CollectDual, At, Labels, Returned
  <2>2. result'[q] = result[q] \/ \E d : result'[q] = [result[q] EXCEPT !.dual = d]
    BY <1>8 DEF CollectDual
  <2> QED BY <1>3, <2>1, <2>2 DEF FactorKept
<1>9. ASSUME NEW p \in Procs, NotGathered(p)
      PROVE  \/ pc'[q] = pc[q] /\ result'[q] = result[q]
             \/ /\ pc[q] = "gather" /\ pc'[q] = "done"
                /\ dims[q][1] = 1 /\ dims[q][2] = 1 /\ FactorKept(q)
  <2>1. pc'[q] = IF q = p THEN "done" ELSE pc[q]
    BY <1>2, <1>9, Going DEF NotGathered, Labels
  <2> QED BY <1>9, <2>1 DEF NotGathered, FactorKept
<1>10. ASSUME NEW p \in Procs, DropReplica(p)
       PROVE  \/ pc'[q] = pc[q] /\ result'[q] = result[q]
              \/ pc[q] = "gather" /\ pc'[q] = "done" /\ my_row(q) # 0 /\ result'[q].R2 = <<>>
  <2>1. pc'[q] = IF q = p THEN "done" ELSE pc[q]
    BY <1>2, <1>10, Going DEF DropReplica, Labels
  <2>2. result' = [result EXCEPT ![p] = Dropped(@)] /\ pc[p] = "gather" /\ my_row(p) # 0
    BY <1>10 DEF DropReplica
  <2>3. q = p => "R2" \in DOMAIN result[q]
    BY <1>3, <2>2 DEF Returned
  <2> QED BY <1>4, <2>1, <2>2, <2>3 DEF Dropped
<1>11. ASSUME NEW p \in Procs, GatherFactor(p)
       PROVE  \/ pc'[q] = pc[q] /\ result'[q] = result[q]
              \/ /\ pc[q] = "gather" /\ pc'[q] = "done"
                 /\ \/ my_row(q) = 0 /\ my_rank(q) # 0 /\ result'[q].R2 = <<>>
                    \/ my_row(q) = 0 /\ my_rank(q) = 0 /\ GatheredNow(q)
  <2> DEFINE S == Comm(rank_color, p)
             cones == DOMAIN local[p].part.cones
             R2 == [l \in cones |-> GatheredBlock(S, l)]
             ranks == [l \in cones |-> Total(S, LAMBDA s : state[s].rank_list[l])]
  <2>1. pc'[q] = IF q \in S THEN "done" ELSE pc[q]
    <3>1. Go(S, "done")
      BY <1>11 DEF GatherFactor
    <3> HIDE DEF S
    <3> QED BY <1>2, <3>1, Going DEF Labels
  <2>2. At(S, "gather") /\ my_row(p) = 0
    BY <1>11 DEF GatherFactor
  <2>3. result' = [r \in Procs |->
           IF r \notin S THEN result[r]
           ELSE IF my_rank(r) = 0 THEN [result[r] EXCEPT !.R2 = R2, !.rank_list = ranks]
           ELSE Dropped(result[r])]
    BY <1>11 DEF GatherFactor
  <2>4. CASE q \notin S
    BY <2>1, <2>3, <2>4
  <2>5. CASE q \in S
    <3>1. pc[q] = "gather" /\ {"R2", "rank_list"} \subseteq DOMAIN result[q]
      BY <1>3, <2>2, <2>5 DEF At, Returned
    <3>2. Comm(rank_color, q) = S
      BY <2>5 DEF Comm
    <3>3. my_row(q) = 0 /\ OwnedBy(q).cones = OwnedBy(p).cones
      <4>1. Coordinates(q)[1] = Coordinates(p)[1] /\ Coordinates(q)[3] = Coordinates(p)[3]
        BY <1>1, <1>2, <2>5, SameLine
      <4>2. my_row(q) = my_row(p)
        BY <1>1, <1>2, <4>1, PlacedAt
      <4> QED BY <2>2, <4>1, <4>2, SameCones
    <3>4. cones = DOMAIN OwnedBy(q).cones
      <4>1. local[p].part.cones = PartOf(p).cones
        BY <1>1, <1>2, LocalFields
      <4> QED BY <3>3, <4>1 DEF PartOf, partition_problem
    <3>5. my_rank(q) # 0 => result'[q].R2 = <<>>
      BY <2>3, <2>5, <3>1 DEF Dropped
    <3>6. my_rank(q) = 0 => result'[q].R2 = R2 /\ result'[q].rank_list = ranks
      <4> HIDE DEF R2, ranks, S
      <4> QED BY <2>3, <2>5, <3>1
    <3>7. my_rank(q) = 0 => GatheredNow(q)
      BY <2>2, <3>2, <3>4, <3>6 DEF GatheredNow
    <3> QED BY <2>1, <2>5, <3>1, <3>3, <3>5, <3>7
  <2> QED BY <2>4, <2>5
<1>12. CASE UNCHANGED vars
  BY <1>12 DEF vars
<1> QED BY <1>5, <1>6, <1>7, <1>8, <1>9, <1>10, <1>11, <1>12, SolvedSteps

\* The processes of a line in the order of their shares of the rank.
LEMMA LineOrder ==
  ASSUME CallInv, GridInv, \A q \in Procs : pc[q] \notin Unplaced, NEW p \in Procs
  PROVE  /\ Dims(call.grid)[2] \in Nat \ {0}
         /\ RankLine(p) = Comm(rank_color, p)
         /\ p \in RankLine(p)
         /\ InOrder(p) = ByRankShare(Comm(rank_color, p))
         /\ InOrder(p) \in [1..Dims(call.grid)[2] -> RankLine(p)]
         /\ Along(RankLine(p), Dims(call.grid)[2], [q \in RankLine(p) |-> my_rank(q)])
         /\ \A i \in 1..Dims(call.grid)[2] : my_rank(InOrder(p)[i]) = i - 1
<1> DEFINE S == RankLine(p)
           P == Dims(call.grid)[2]
           coord == [q \in S |-> my_rank(q)]
           before == {q \in S \X S : my_rank(q[1]) < my_rank(q[2])}
<1>1. S = Comm(rank_color, p)
  BY SameLine DEF RankLine
<1>2. P \in Nat \ {0} /\ Along(S, P, coord) /\ OrderedBy(S, before, coord)
  BY <1>1, SharesInLine
<1>3. before = {q \in S \X S : Coordinates(q[1])[2] < Coordinates(q[2])[2]}
  <2>1. \A q \in S : my_rank(q) = Coordinates(q)[2]
    BY PlacedAt DEF RankLine
  <2> QED BY <2>1
<1>4. InOrder(p) = Sorted(S, before)
  BY <1>3 DEF InOrder
<1>5. ByRankShare(S) = Sorted(S, before)
  BY DEF ByRankShare
<1>6. p \in S
  BY DEF RankLine
<1>7. P \in Nat
  BY <1>2
<1> HIDE DEF S, P, coord, before
<1>8. Sorted(S, before) \in [1..P -> S] /\ \A i \in 1..P : coord[Sorted(S, before)[i]] = i - 1
  BY <1>2, <1>7, InLine
<1>9. \A i \in 1..P : my_rank(InOrder(p)[i]) = i - 1
  <2>1. \A i \in 1..P : InOrder(p)[i] \in S
    BY <1>4, <1>8
  <2>2. \A q \in S : coord[q] = my_rank(q)
    BY DEF coord
  <2> QED BY <1>4, <1>8, <2>1, <2>2
<1> QED BY <1>1, <1>2, <1>4, <1>5, <1>6, <1>8, <1>9 DEF S, P, coord

\* What a process holds are as many columns as its rank.
LEMMA HeldColumnsOf ==
  ASSUME SolutionInv, NEW p \in Procs, pc[p] \in Solved, NEW l \in DOMAIN OwnedBy(p).cones,
         NEW A, \A c \in Nat : Held(p, l)[c] \in A
  PROVE  Held(p, l) \in Seq(A) /\ Len(Held(p, l)) = state[p].rank_list[l]
<1> DEFINE r == state[p].rank_list[l]
           h == Held(p, l)
<1>1. r \in Nat
  BY DEF SolutionInv
<1>2. DOMAIN h = 1..r /\ h = [c \in 1..r |-> h[c]]
  BY DEF Held
<1>3. \A c \in 1..r : h[c] \in A
  <2> HIDE DEF h, r
  <2>1. \A c \in 1..r : c \in Nat
    BY <1>1
  <2> QED BY <2>1 DEF h
<1> HIDE DEF r, h
<1>4. h \in [1..r -> A]
  BY <1>2, <1>3
<1> HIDE <1>2
<1> QED BY <1>1, <1>4 DEF r, h

\* A step after the solver leaves alone what the processes hold.
LEMMA HeldKept ==
  ASSUME call' = call, state' = state
  PROVE  /\ \A p : OwnedBy(p)' = OwnedBy(p) /\ Coordinates(p)' = Coordinates(p)
         /\ \A p, l : Held(p, l)' = Held(p, l)
         /\ \A p, l : Together(p, l)' = Together(p, l)
<1>1. \A p : OwnedBy(p)' = OwnedBy(p) /\ Coordinates(p)' = Coordinates(p)
  BY DEF OwnedBy, ScaledCopy, Permuted, Caller, Coordinates
<1>2. Reference' = Reference
  BY DEF Reference, Caller
<1>3. \A p, l : Held(p, l)' = Held(p, l)
  BY <1>1, <1>2 DEF Held
<1>4. \A p : RankLine(p)' = RankLine(p)
  BY <1>1 DEF RankLine
<1>5. \A p : InOrder(p)' = InOrder(p)
  BY <1>1, <1>4 DEF InOrder
<1> QED BY <1>1, <1>3, <1>5 DEF Together

LEMMA UngatheredInvStep ==
  ASSUME IInv, SolvedTogether, SolutionInv, UngatheredInv, [Next]_vars
  PROVE  UngatheredInv'
<1> SUFFICES ASSUME NEW p \in Procs, pc'[p] \in Gathering
             PROVE  /\ result'[p].R2 = [l \in DOMAIN OwnedBy(p)'.cones |-> Held(p, l)']
                    /\ result'[p].rank_list = state'[p].rank_list
  BY DEF UngatheredInv
<1>1. ~Solve
  <2>1. ASSUME Solve PROVE pc'[p] = "solved"
    BY <2>1, Going DEF IInv, GridInv, Solve, Labels
  <2> QED BY <2>1 DEF Gathering
<1>2. pc[p] \in Solved
  <2>1. pc'[p] \in Solved
    BY DEF Gathering, Solved, Returned
  <2> QED BY <1>1, <2>1, Sides DEF IInv
<1>3. call' = call /\ state' = state
  BY <1>2, CallStep, SolvedStateKept
<1>4. OwnedBy(p)' = OwnedBy(p) /\ \A l : Held(p, l)' = Held(p, l)
  BY <1>3, HeldKept
<1>5. pc[p] \in Gathering => result[p].R2 = [l \in DOMAIN OwnedBy(p).cones |-> Held(p, l)]
                             /\ result[p].rank_list = state[p].rank_list
  BY DEF UngatheredInv
<1>6. pc[p] = "solved" => LocalResult(p).R2 = [l \in DOMAIN OwnedBy(p).cones |-> Held(p, l)]
                          /\ LocalResult(p).rank_list = state[p].rank_list
  BY LocalBlocks
<1>7. \/ pc[p] \in Gathering /\ result'[p].R2 = result[p].R2
                             /\ result'[p].rank_list = result[p].rank_list
      \/ pc[p] = "solved" /\ result'[p] = LocalResult(p)
  BY <1>2, ResultSteps DEF Gathering, FactorKept
<1> QED BY <1>3, <1>4, <1>5, <1>6, <1>7

\* TogetherShape as one fact, to be opened where it is used.
HeldOnLine(p, l, n) == [i \in 1..n |-> Held(InOrder(p)[i], l)]
ColumnsHeld(l) == {Held(q, l)[c] : q \in Procs, c \in Nat}
IsTogether(p, l, n) ==
  /\ Together(p, l) = FlattenSeq(HeldOnLine(p, l, n))
  /\ HeldOnLine(p, l, n) \in [1..n -> Seq(ColumnsHeld(l))]
  /\ \A q \in RankLine(p) : Len(Held(q, l)) = state[q].rank_list[l]
  /\ \A q \in RankLine(p) : InOrder(p)[my_rank(q) + 1] = q /\ my_rank(q) \in 0..(n - 1)

\* The members of a line, and what they hold of a cone, in the line's order.
LEMMA TogetherShape ==
  ASSUME CallInv, GridInv, SolutionInv, \A q \in Procs : pc[q] \in Solved,
         NEW p \in Procs, NEW l \in DOMAIN OwnedBy(p).cones
  PROVE  IsTogether(p, l, Dims(call.grid)[2])
<1> DEFINE n == Dims(call.grid)[2]
           A == ColumnsHeld(l)
           seqs == HeldOnLine(p, l, n)
           S == RankLine(p)
           order == InOrder(p)
           coord == [q \in S |-> my_rank(q)]
<1>1. \A q \in Procs : pc[q] \notin Unplaced
  BY DEF Solved, Returned, Unplaced
<1>2. /\ n \in Nat \ {0}
      /\ order \in [1..n -> S]
      /\ Along(S, n, coord)
      /\ \A i \in 1..n : my_rank(order[i]) = i - 1
  BY <1>1, LineOrder
<1>3. \A q \in S : /\ q \in Procs /\ l \in DOMAIN OwnedBy(q).cones
  <2> TAKE q \in S
  <2>1. q \in Procs /\ Coordinates(q)[3] = Coordinates(p)[3]
    BY DEF RankLine
  <2> QED BY <2>1, SameCones
<1>4. \A q \in S : Held(q, l) \in Seq(A) /\ Len(Held(q, l)) = state[q].rank_list[l]
  <2> TAKE q \in S
  <2>1. q \in Procs /\ pc[q] \in Solved /\ l \in DOMAIN OwnedBy(q).cones
    BY <1>3
  <2>2. \A c \in Nat : Held(q, l)[c] \in A
    BY <2>1 DEF ColumnsHeld
  <2> HIDE DEF A
  <2> QED BY <2>1, <2>2, HeldColumnsOf
<1>5. Together(p, l) = FlattenSeq(seqs)
  <2>1. DOMAIN order = 1..n
    BY <1>2
  <2>2. [i \in DOMAIN order |-> Held(order[i], l)] = seqs
    BY <2>1 DEF HeldOnLine
  <2> QED BY <2>2 DEF Together
<1>6. seqs \in [1..n -> Seq(A)]
  <2>1. \A i \in 1..n : order[i] \in S
    BY <1>2
  <2>2. \A i \in 1..n : Held(order[i], l) \in Seq(A)
    <3> HIDE DEF S, order, n, A
    <3> QED BY <1>4, <2>1
  <2> HIDE DEF A, n
  <2> QED BY <2>2 DEF HeldOnLine
<1>7. \A q \in S : order[my_rank(q) + 1] = q /\ my_rank(q) \in 0..(n - 1)
  <2> TAKE q \in S
  <2> DEFINE x == my_rank(q)
  <2>1. coord[q] = x /\ x \in 0..(n - 1)
    BY <1>2 DEF Along
  <2> HIDE DEF x, n, S, order
  <2>2. x + 1 \in 1..n /\ (x + 1) - 1 = x
    BY <1>2, <2>1
  <2>3. order[x + 1] \in S /\ my_rank(order[x + 1]) = x
    <3>1. order[x + 1] \in S
      <4>1. order \in [1..n -> S]
        BY <1>2
      <4> QED BY <2>2, <4>1
    <3>2. my_rank(order[x + 1]) = (x + 1) - 1
      <4>1. \A i \in 1..n : my_rank(order[i]) = i - 1
        BY <1>2
      <4> QED BY <2>2, <4>1
    <3> QED BY <2>2, <3>1, <3>2
  <2>4. coord[order[x + 1]] = x
    BY <2>3
  <2> HIDE DEF coord
  <2>5. order[x + 1] = q
    BY <1>2, <2>1, <2>3, <2>4 DEF Along
  <2> QED BY <2>1, <2>5 DEF x
<1> HIDE DEF A, seqs, S, order, n
<1>8. /\ Together(p, l) = FlattenSeq(seqs)
      /\ seqs \in [1..n -> Seq(A)]
      /\ \A q \in S : Len(Held(q, l)) = state[q].rank_list[l]
      /\ \A q \in S : order[my_rank(q) + 1] = q /\ my_rank(q) \in 0..(n - 1)
  BY <1>4, <1>5, <1>6, <1>7
<1> QED BY <1>8 DEF IsTogether, A, seqs, S, order, n

\* The gathered factor has the columns of all the shares.
LEMMA TogetherLength ==
  ASSUME CallInv, GridInv, SolutionInv, \A q \in Procs : pc[q] \in Solved,
         NEW p \in Procs, NEW l \in DOMAIN OwnedBy(p).cones
  PROVE  Len(Together(p, l)) = Total(Comm(rank_color, p), LAMBDA s : state[s].rank_list[l])
<1> DEFINE n == Dims(call.grid)[2]
           A == ColumnsHeld(l)
           seqs == HeldOnLine(p, l, n)
           S == RankLine(p)
           coord == [q \in S |-> my_rank(q)]
           f == [q \in S |-> state[q].rank_list[l]]
           F == Ends(seqs, n)
<1>1. \A q \in Procs : pc[q] \notin Unplaced
  BY DEF Solved, Returned, Unplaced
<1>2. n \in Nat /\ Along(S, n, coord) /\ S = Comm(rank_color, p)
  BY <1>1, LineOrder
<1>3. /\ Together(p, l) = FlattenSeq(seqs)
      /\ seqs \in [1..n -> Seq(A)]
      /\ \A q \in S : Len(Held(q, l)) = state[q].rank_list[l]
      /\ \A q \in S : InOrder(p)[my_rank(q) + 1] = q /\ my_rank(q) \in 0..(n - 1)
  <2>1. IsTogether(p, l, n)
    BY TogetherShape
  <2> QED BY <2>1 DEF IsTogether
<1>4. \A q \in S : coord[q] \in 0..(n - 1) /\ Len(seqs[coord[q] + 1]) = f[q]
  <2> TAKE q \in S
  <2> DEFINE x == my_rank(q)
  <2>1. x \in 0..(n - 1) /\ InOrder(p)[x + 1] = q
    BY <1>3
  <2> HIDE DEF x, n, S
  <2>2. seqs[x + 1] = Held(InOrder(p)[x + 1], l)
    <3>1. x + 1 \in 1..n
      BY <1>2, <2>1
    <3> QED BY <3>1 DEF HeldOnLine
  <2>3. coord[q] = x /\ f[q] = state[q].rank_list[l]
    BY DEF x
  <2>4. Len(Held(q, l)) = state[q].rank_list[l]
    BY <1>3
  <2> HIDE DEF seqs, coord, f
  <2> QED BY <2>1, <2>2, <2>3, <2>4
<1>5. Total(S, LAMBDA s : state[s].rank_list[l]) = SumOver(f, S)
  BY DEF Total
<1> HIDE DEF n, A, seqs, S, coord, f
<1>6. n \in Nat /\ seqs \in [1..n -> Seq(A)]
  BY <1>2, <1>3
<1>7. /\ Ends(seqs, n) \in [0..n -> Nat]
      /\ Ends(seqs, n)[0] = 0
      /\ \A i \in 1..n : Ends(seqs, n)[i] = Ends(seqs, n)[i - 1] + Len(seqs[i])
      /\ \A i, j \in 0..n : i <= j => Ends(seqs, n)[i] <= Ends(seqs, n)[j]
  BY <1>6, EndsStep
<1>8. Len(FlattenSeq(seqs)) = Ends(seqs, n)[n]
  <2>1. OneAfterOther(A, n, seqs)
    BY <1>6, FlattenedAt
  <2> QED BY <2>1 DEF OneAfterOther
<1>9. F \in [0..n -> Int] /\ F[0] = 0 /\ F[n] = Len(FlattenSeq(seqs))
  <2>1. F \in [0..n -> Nat] /\ F[0] = 0 /\ F[n] = Len(FlattenSeq(seqs))
    BY <1>7, <1>8
  <2> HIDE DEF F
  <2> QED BY <2>1
<1>10. \A q \in S : f[q] = F[coord[q] + 1] - F[coord[q]]
  <2> TAKE q \in S
  <2> DEFINE x == coord[q]
  <2>1. x \in 0..(n - 1) /\ Len(seqs[x + 1]) = f[q]
    BY <1>4
  <2> HIDE DEF x
  <2>2. x + 1 \in 1..n /\ x + 1 - 1 = x /\ x \in 0..n /\ x + 1 \in 0..n
    BY <1>2, <2>1
  <2>3. F[x + 1] = F[x] + Len(seqs[x + 1])
    BY <1>7, <2>2
  <2>4. F[x] \in Int /\ F[x + 1] \in Int /\ Len(seqs[x + 1]) \in Int
    <3>1. seqs[x + 1] \in Seq(A)
      BY <1>6, <2>2
    <3> HIDE DEF F
    <3> QED BY <1>9, <2>2, <3>1
  <2> HIDE DEF F
  <2> QED BY <2>1, <2>3, <2>4 DEF x
<1> HIDE DEF F
<1>11. SumOver(f, S) = F[n]
  BY <1>2, <1>9, <1>10, SumAlong
<1> QED BY <1>2, <1>3, <1>5, <1>9, <1>11

\* Where nobody shares the rank, a process has its factor whole.
LEMMA TogetherAlone ==
  ASSUME CallInv, GridInv, SolutionInv, \A q \in Procs : pc[q] \in Solved,
         NEW p \in Procs, Dims(call.grid)[2] = 1, NEW l \in DOMAIN OwnedBy(p).cones
  PROVE  Together(p, l) = Held(p, l)
<1> DEFINE A == ColumnsHeld(l)
           seqs == HeldOnLine(p, l, 1)
<1>1. \A q \in Procs : pc[q] \notin Unplaced
  BY DEF Solved, Returned, Unplaced
<1>2. p \in RankLine(p)
  BY <1>1, LineOrder
<1>3. /\ Together(p, l) = FlattenSeq(seqs)
      /\ seqs \in [1..1 -> Seq(A)]
      /\ InOrder(p)[1] = p
  <2>1. IsTogether(p, l, 1)
    BY TogetherShape
  <2>2. InOrder(p)[my_rank(p) + 1] = p /\ my_rank(p) \in 0..(1 - 1)
    BY <1>2, <2>1 DEF IsTogether
  <2>3. my_rank(p) + 1 = 1
    BY <2>2
  <2>4. InOrder(p)[1] = p
    BY <2>2, <2>3
  <2> QED BY <2>1, <2>4 DEF IsTogether
<1>4. seqs[1] = Held(p, l)
  BY <1>3 DEF HeldOnLine
<1> HIDE DEF A, seqs
<1>5. seqs[1] \in Seq(A) /\ 1 \in Nat
  BY <1>3
<1>6. 1 \in Nat /\ seqs \in [1..1 -> Seq(A)]
  BY <1>3
<1>7. Ends(seqs, 1)[0] = 0 /\ Ends(seqs, 1)[1] = Len(seqs[1])
  <2>1. /\ Ends(seqs, 1) \in [0..1 -> Nat]
        /\ Ends(seqs, 1)[0] = 0
        /\ \A i \in 1..1 : Ends(seqs, 1)[i] = Ends(seqs, 1)[i - 1] + Len(seqs[i])
        /\ \A i, j \in 0..1 : i <= j => Ends(seqs, 1)[i] <= Ends(seqs, 1)[j]
    BY <1>6, EndsStep
  <2>2. Ends(seqs, 1)[1] = Ends(seqs, 1)[0] + Len(seqs[1])
    BY <2>1
  <2>3. Len(seqs[1]) \in Int
    BY <1>5
  <2> QED BY <2>1, <2>2, <2>3
<1>8. /\ FlattenSeq(seqs) \in Seq(A)
      /\ Len(FlattenSeq(seqs)) = Len(seqs[1])
      /\ \A k \in 1..Len(seqs[1]) : FlattenSeq(seqs)[Ends(seqs, 1)[0] + k] = seqs[1][k]
  <2>1. OneAfterOther(A, 1, seqs)
    BY <1>6, FlattenedAt
  <2>2. /\ FlattenSeq(seqs) \in Seq(A)
        /\ Len(FlattenSeq(seqs)) = Ends(seqs, 1)[1]
        /\ \A i \in 1..1 : \A k \in 1..Len(seqs[i]) :
             /\ Ends(seqs, 1)[i - 1] + k \in 1..Len(FlattenSeq(seqs))
             /\ FlattenSeq(seqs)[Ends(seqs, 1)[i - 1] + k] = seqs[i][k]
    BY <2>1 DEF OneAfterOther
  <2>3. \A k \in 1..Len(seqs[1]) : FlattenSeq(seqs)[Ends(seqs, 1)[1 - 1] + k] = seqs[1][k]
    BY <2>2
  <2> QED BY <1>7, <2>2, <2>3
<1>9. FlattenSeq(seqs) = seqs[1]
  <2> DEFINE a == FlattenSeq(seqs)
             b == seqs[1]
             m == Len(b)
  <2>1. a \in Seq(A) /\ b \in Seq(A) /\ Len(a) = m /\ m \in Nat
    BY <1>5, <1>8
  <2>2. \A k \in 1..m : a[k] = b[k]
    <3> TAKE k \in 1..m
    <3>1. 0 + k = k
      BY <2>1
    <3> QED BY <1>7, <1>8, <3>1
  <2> HIDE DEF a, b
  <2>3. a = [k \in 1..m |-> a[k]] /\ b = [k \in 1..m |-> b[k]]
    BY <2>1
  <2>4. a = b
    <3>1. [k \in 1..m |-> a[k]] = [k \in 1..m |-> b[k]]
      BY <2>2
    <3> QED BY <2>3, <3>1
  <2> QED BY <2>4 DEF a, b
<1> QED BY <1>3, <1>4, <1>9

\* What a line brings together when all its members are there.
LEMMA BlocksGathered ==
  ASSUME IInv, UngatheredInv, \A q \in Procs : pc[q] \in Solved,
         NEW p \in Procs, NEW l \in DOMAIN OwnedBy(p).cones,
         At(Comm(rank_color, p), "gather")
  PROVE  GatheredBlock(Comm(rank_color, p), l) = Together(p, l)
<1> DEFINE S == Comm(rank_color, p)
           order == InOrder(p)
           n == Dims(call.grid)[2]
<1>1. \A q \in Procs : pc[q] \notin Unplaced
  BY DEF Solved, Returned, Unplaced
<1>2. S = RankLine(p) /\ order = ByRankShare(S) /\ order \in [1..n -> S]
  BY <1>1, LineOrder DEF IInv
<1>3. \A q \in S : result[q].R2[l] = Held(q, l)
  <2> TAKE q \in S
  <2>1. q \in Procs /\ Coordinates(q)[3] = Coordinates(p)[3]
    BY <1>2 DEF RankLine
  <2>2. l \in DOMAIN OwnedBy(q).cones
    BY <2>1, SameCones
  <2>3. pc[q] \in Gathering
    BY DEF At, Gathering
  <2> QED BY <2>1, <2>2, <2>3 DEF UngatheredInv
<1>4. \A i \in DOMAIN order : order[i] \in S
  <2> HIDE DEF order, S, n
  <2> QED BY <1>2
<1>5. GatheredBlock(S, l) = FlattenSeq([i \in DOMAIN order |-> result[order[i]].R2[l]])
  BY <1>2 DEF GatheredBlock
<1>6. Together(p, l) = FlattenSeq([i \in DOMAIN order |-> Held(order[i], l)])
  BY DEF Together
<1>7. [i \in DOMAIN order |-> result[order[i]].R2[l]] = [i \in DOMAIN order |-> Held(order[i], l)]
  <2> HIDE DEF order, S
  <2>1. \A i \in DOMAIN order : result[order[i]].R2[l] = Held(order[i], l)
    BY <1>3, <1>4
  <2> QED BY <2>1
<1> QED BY <1>5, <1>6, <1>7

LEMMA GatheredInvStep ==
  ASSUME IInv, FactorInv, [Next]_vars
  PROVE  GatheredInv'
<1> DEFINE Collects(p) == Coordinates(p)[1] = 0 /\ Coordinates(p)[2] = 0
           HasColumns(p, r) ==
             /\ r.R2 = [l \in DOMAIN OwnedBy(p).cones |-> Together(p, l)]
             /\ r.rank_list = [l \in DOMAIN OwnedBy(p).cones |-> Len(Together(p, l))]
<1>1. ASSUME NEW p \in Procs, pc'[p] = "done"
      PROVE  IF Collects(p) THEN HasColumns(p, result'[p]) ELSE result'[p].R2 = <<>>
  <2>1. ~Solve
    <3>1. ASSUME Solve PROVE pc'[p] = "solved"
      BY <3>1, Going DEF IInv, GridInv, Solve, Labels
    <3> QED BY <1>1, <3>1
  <2>2. pc[p] \in Solved
    <3>1. pc'[p] \in Solved
      BY <1>1 DEF Solved, Returned
    <3> QED BY <2>1, <3>1, Sides DEF IInv
  <2>3. \A q \in Procs : pc[q] \in Solved /\ pc[q] \notin Unplaced
    BY <2>2 DEF FactorInv, SolvedTogether, Solved, Returned, Unplaced
  <2>4. my_row(p) = Coordinates(p)[1] /\ my_rank(p) = Coordinates(p)[2]
        /\ dims[p] = Dims(call.grid)
    BY <2>3, PlacedAt DEF IInv
  <2>5. /\ CallInv /\ GridInv /\ SolvedTogether /\ SolutionInv /\ UngatheredInv /\ GatheredInv
        /\ \A q \in Procs : pc[q] \in Solved
    BY <2>3 DEF IInv, FactorInv
  <2>6. CASE pc[p] = "done" /\ result'[p] = result[p]
    BY <2>5, <2>6 DEF GatheredInv
  <2>7. CASE pc[p] = "gather" /\ dims[p][1] = 1 /\ dims[p][2] = 1 /\ FactorKept(p)
    <3>1. result'[p].R2 = [l \in DOMAIN OwnedBy(p).cones |-> Held(p, l)]
          /\ result'[p].rank_list = state[p].rank_list
      BY <2>5, <2>7 DEF UngatheredInv, Gathering, FactorKept
    <3>2. Dims(call.grid)[2] = 1 /\ Dims(call.grid)[1] = 1
      BY <2>4, <2>7
    <3>3. Collects(p)
      <4>1. IsDims(Dims(call.grid))
        BY <2>3, PlacedAt, GridOfCall DEF IInv
      <4>2. Coordinates(p)[1] \in 0..(1 - 1) /\ Coordinates(p)[2] \in 0..(1 - 1)
        BY <3>2, <4>1, CoordinatesOf DEF Coordinates
      <4> QED BY <4>2
    <3>4. \A l \in DOMAIN OwnedBy(p).cones : Together(p, l) = Held(p, l)
      BY <2>5, <3>2, TogetherAlone
    <3>5. \A l \in DOMAIN OwnedBy(p).cones : Len(Held(p, l)) = state[p].rank_list[l]
      <4> TAKE l \in DOMAIN OwnedBy(p).cones
      <4>1. IsTogether(p, l, Dims(call.grid)[2])
        BY <2>5, TogetherShape
      <4> QED BY <4>1 DEF IsTogether, RankLine
    <3>6. state[p].rank_list = [l \in DOMAIN OwnedBy(p).cones |-> state[p].rank_list[l]]
      BY <2>5 DEF SolutionInv
    <3> QED BY <3>1, <3>3, <3>4, <3>5, <3>6
  <2>8. CASE (my_row(p) # 0 \/ my_rank(p) # 0) /\ result'[p].R2 = <<>>
    BY <2>4, <2>8
  <2>9. CASE my_row(p) = 0 /\ my_rank(p) = 0 /\ GatheredNow(p)
    <3> DEFINE S == Comm(rank_color, p)
               D == DOMAIN OwnedBy(p).cones
    <3>1. /\ At(S, "gather")
          /\ result'[p].R2 = [l \in D |-> GatheredBlock(S, l)]
          /\ result'[p].rank_list = [l \in D |-> Total(S, LAMBDA s : state[s].rank_list[l])]
      BY <2>9 DEF GatheredNow
    <3>2. \A l \in D : GatheredBlock(S, l) = Together(p, l)
      BY <2>5, <3>1, BlocksGathered
    <3>3. \A l \in D : Total(S, LAMBDA s : state[s].rank_list[l]) = Len(Together(p, l))
      BY <2>5, TogetherLength
    <3>4. Collects(p)
      BY <2>4, <2>9
    <3> HIDE DEF S, D
    <3>5. result'[p].R2 = [l \in D |-> Together(p, l)]
      BY <3>1, <3>2
    <3>6. result'[p].rank_list = [l \in D |-> Len(Together(p, l))]
      BY <3>1, <3>3
    <3> QED BY <3>4, <3>5, <3>6 DEF D
  <2>10. \/ pc[p] = "done" /\ result'[p] = result[p]
         \/ pc[p] = "gather" /\ dims[p][1] = 1 /\ dims[p][2] = 1 /\ FactorKept(p)
         \/ (my_row(p) # 0 \/ my_rank(p) # 0) /\ result'[p].R2 = <<>>
         \/ my_row(p) = 0 /\ my_rank(p) = 0 /\ GatheredNow(p)
    BY <1>1, <2>2, <2>5, ResultSteps
  <2> QED BY <2>6, <2>7, <2>8, <2>9, <2>10
<1>2. ASSUME NEW p \in Procs, pc'[p] = "done"
      PROVE  call' = call /\ state' = state
  <2>1. ~Solve
    <3>1. ASSUME Solve PROVE pc'[p] = "solved"
      BY <3>1, Going DEF IInv, GridInv, Solve, Labels
    <3> QED BY <1>2, <3>1
  <2>2. pc[p] \in Solved
    <3>1. pc'[p] \in Solved
      BY <1>2 DEF Solved, Returned
    <3> QED BY <2>1, <3>1, Sides DEF IInv
  <2> QED BY <2>2, CallStep, SolvedStateKept DEF FactorInv
<1>3. ASSUME NEW p \in Procs, pc'[p] = "done"
      PROVE  /\ OwnedBy(p)' = OwnedBy(p) /\ Coordinates(p)' = Coordinates(p)
             /\ \A l : Together(p, l)' = Together(p, l)
  BY <1>2, <1>3, HeldKept
<1> SUFFICES ASSUME NEW p \in Procs, pc'[p] = "done"
             PROVE  IF (Coordinates(p)[1] = 0 /\ Coordinates(p)[2] = 0)'
                    THEN (/\ result[p].R2 = [l \in DOMAIN OwnedBy(p).cones |-> Together(p, l)]
                          /\ result[p].rank_list
                               = [l \in DOMAIN OwnedBy(p).cones |-> Len(Together(p, l))])'
                    ELSE result'[p].R2 = <<>>
  BY DEF GatheredInv
<1>4. IF Collects(p) THEN HasColumns(p, result'[p]) ELSE result'[p].R2 = <<>>
  BY <1>1
<1>5. /\ OwnedBy(p)' = OwnedBy(p) /\ Coordinates(p)' = Coordinates(p)
      /\ \A l : Together(p, l)' = Together(p, l)
  BY <1>3
<1> QED BY <1>4, <1>5

LEMMA InductiveFactor == IInv /\ FactorInv /\ [Next]_vars => FactorInv'
<1> SUFFICES ASSUME IInv, FactorInv, [Next]_vars PROVE FactorInv'
  OBVIOUS
<1>1. SolvedTogether /\ SolutionInv /\ UngatheredInv
  BY DEF FactorInv
<1>2. SolvedTogether'
  BY <1>1, SolvedTogetherStep DEF IInv
<1>3. SolutionInv'
  BY <1>1, SolutionInvStep
<1>4. UngatheredInv'
  BY <1>1, UngatheredInvStep
<1>5. GatheredInv'
  BY GatheredInvStep
<1> QED BY <1>2, <1>3, <1>4, <1>5 DEF FactorInv

LEMMA InitFactor == Init => FactorInv
<1> SUFFICES ASSUME Init PROVE FactorInv
  OBVIOUS
<1>1. \A p \in Procs : pc[p] = "start"
  BY DEF Init
<1>2. "start" \notin Solved \union Gathering \union {"done"}
  BY DEF Solved, Returned, Gathering
<1> QED BY <1>1, <1>2 DEF FactorInv, SolvedTogether, SolutionInv, UngatheredInv, GatheredInv

\* A cone is listed once, so that its columns are found where they are.
LEMMA ColumnsOfLine ==
  ASSUME IInv, \A q \in Procs : pc[q] \in Solved,
         NEW p \in Procs, NEW l \in DOMAIN OwnedBy(p).cones
  PROVE  AllColumns(OwnedBy(p).cones[l], Comm(rank_color, p)) = Together(p, l)
<1> DEFINE S == Comm(rank_color, p)
           order == InOrder(p)
           n == Dims(call.grid)[2]
           k == OwnedBy(p).cones[l]
           PlaceOf(q) == CHOOSE h \in DOMAIN local[q].part.cones : local[q].part.cones[h] = k
           Block(q) == [c \in 1..state[q].rank_list[PlaceOf(q)] |-> [i2 \in 1..blk_dims[k] |->
                          2 * Factor(k, i2, my_rank(q), c) - Reference.tau_b
                            - 2 * Reference.unit[<<k, i2>>]]]
<1>1. \A q \in Procs : pc[q] \notin Unplaced /\ pc[q] \in Taken
  BY DEF Solved, Returned, Unplaced, Taken
<1>2. S = RankLine(p) /\ order = ByRankShare(S) /\ order \in [1..n -> S]
  BY <1>1, LineOrder DEF IInv
<1>3. ASSUME NEW q \in S PROVE Block(q) = Held(q, l)
  <2>1. q \in Procs /\ Coordinates(q)[3] = Coordinates(p)[3]
    BY <1>2, <1>3 DEF RankLine
  <2>2. OwnedBy(q).cones = OwnedBy(p).cones
    BY <2>1, SameCones
  <2>3. local[q].part.cones = OwnedBy(q).cones
    <3>1. local[q].part.cones = PartOf(q).cones
      BY <1>1, <2>1, LocalFields DEF IInv
    <3> QED BY <3>1 DEF PartOf, partition_problem
  <2>4. my_rank(q) = Coordinates(q)[2]
    BY <1>1, <2>1, PlacedAt DEF IInv
  <2>5. PlaceOf(q) = l
    <3> DEFINE cones == OwnedBy(p).cones
    <3>1. DOMAIN cones = 1..Len(cones) /\ Len(cones) \in Nat
          /\ \A h \in DOMAIN cones : cones[h] \in Cones
          /\ \A i, j \in DOMAIN cones : i < j => cones[i] < cones[j]
      BY OwnedShape
    <3>2. \A c \in Cones : c \in Int
      BY Dimensions
    <3>3. local[q].part.cones = cones /\ l \in DOMAIN cones /\ k = cones[l]
      BY <2>2, <2>3
    <3> HIDE DEF cones
    <3>4. \A h \in DOMAIN cones : cones[h] \in Int
      BY <3>1, <3>2
    <3>5. \A h \in DOMAIN cones : cones[h] = cones[l] => h = l
      <4> TAKE h \in DOMAIN cones
      <4>1. h \in Int /\ l \in Int
        BY <3>1, <3>3
      <4>2. cones[h] \in Int /\ cones[l] \in Int
        BY <3>3, <3>4
      <4>3. (h < l => cones[h] < cones[l]) /\ (l < h => cones[l] < cones[h])
        BY <3>1, <3>3
      <4> QED BY <4>1, <4>2, <4>3
    <3> HIDE DEF k
    <3> QED BY <3>3, <3>5
  <2>6. Held(q, l) = [c \in 1..state[q].rank_list[l] |-> [i \in 1..blk_dims[k] |->
                        2 * Factor(k, i, Coordinates(q)[2], c) - Reference.tau_b
                          - 2 * Reference.unit[<<k, i>>]]]
    BY <2>2 DEF Held
  <2> HIDE DEF PlaceOf, k
  <2> QED BY <2>4, <2>5, <2>6
<1>4. \A i \in DOMAIN order : order[i] \in S
  <2> HIDE DEF order, S, n
  <2> QED BY <1>2
<1>5. AllColumns(k, S) = FlattenSeq([i \in DOMAIN order |-> Block(order[i])])
  BY <1>2 DEF AllColumns
<1>6. Together(p, l) = FlattenSeq([i \in DOMAIN order |-> Held(order[i], l)])
  BY DEF Together
<1>7. [i \in DOMAIN order |-> Block(order[i])] = [i \in DOMAIN order |-> Held(order[i], l)]
  <2> HIDE DEF order, S, Block
  <2>1. \A i \in DOMAIN order : Block(order[i]) = Held(order[i], l)
    BY <1>3, <1>4
  <2> QED BY <2>1
<1> QED BY <1>5, <1>6, <1>7

LEMMA FactorInvGathered == IInv /\ FactorInv => FactorGathered
<1> SUFFICES ASSUME IInv, FactorInv, At(Procs, "done"), NEW p \in Procs
             PROVE  IF my_row(p) = 0 /\ my_rank(p) = 0
                    THEN \A l \in DOMAIN local[p].part.cones :
                           /\ result[p].R2[l]
                                = AllColumns(local[p].part.cones[l], Comm(rank_color, p))
                           /\ result[p].rank_list[l] = Len(result[p].R2[l])
                    ELSE result[p].R2 = <<>>
  BY DEF FactorGathered
<1>1. \A q \in Procs : /\ pc[q] = "done" /\ pc[q] \in Solved /\ pc[q] \in Taken
                       /\ pc[q] \notin Unplaced
  BY DEF At, Solved, Returned, Unplaced, Taken
<1>2. my_row(p) = Coordinates(p)[1] /\ my_rank(p) = Coordinates(p)[2]
  BY <1>1, PlacedAt DEF IInv
<1>3. local[p].part.cones = OwnedBy(p).cones
  <2>1. local[p].part.cones = PartOf(p).cones
    BY <1>1, LocalFields DEF IInv
  <2> QED BY <2>1 DEF PartOf, partition_problem
<1>4. IF Coordinates(p)[1] = 0 /\ Coordinates(p)[2] = 0
      THEN /\ result[p].R2 = [l \in DOMAIN OwnedBy(p).cones |-> Together(p, l)]
           /\ result[p].rank_list = [l \in DOMAIN OwnedBy(p).cones |-> Len(Together(p, l))]
      ELSE result[p].R2 = <<>>
  BY <1>1 DEF FactorInv, GatheredInv
<1>5. \A l \in DOMAIN OwnedBy(p).cones :
        AllColumns(OwnedBy(p).cones[l], Comm(rank_color, p)) = Together(p, l)
  BY <1>1, ColumnsOfLine
<1> QED BY <1>2, <1>3, <1>4, <1>5

\* The first process of each line of the rank axis on the first row returns,
\* of each of its cones, the columns of all the shares, in the order of the
\* shares and in the caller's units, and their number as the rank; no other
\* process returns a factor (create_result_from_state, unscale_result,
\* gather_sdp_result).
THEOREM FactorAlwaysGathered == Spec => []FactorGathered
<1>1. Init => FactorInv
  BY InitFactor
<1>2. IInv /\ FactorInv /\ [Next]_vars => FactorInv'
  BY InductiveFactor
<1>3. IInv /\ FactorInv => FactorGathered
  BY FactorInvGathered
<1> QED BY <1>1, <1>2, <1>3, IInvHolds, PTL DEF Spec

-----------------------------------------------------------------------------
(* Every datum is held once.  First the numbers: times the factors that    *)
(* were recorded, the scaled copy is the caller's problem.                 *)

LEMMA PermutedIsProblem ==
  ASSUME CallInv
  PROVE  IsProblem(Permuted)
<1> DEFINE P == Permuted
<1>1. /\ Transmissible(Caller)
      /\ DOMAIN P = {"A", "b", "c", "L"}
      /\ \A r \in Rows : P.b[r] = Caller.b[CallersRow(call.order, r)]
      /\ P.c = Caller.c
      /\ DOMAIN P.L = DOMAIN Caller.L
  BY PermutedProblem
<1>2. IsFiniteSet(DOMAIN P.A) /\ DOMAIN P.A \subseteq Rows \X Vars
  BY ScaledEntries, ScaledShape
<1>3. \A e \in DOMAIN P.A : P.A[e] \in Int
  <2>1. \A e \in DOMAIN Caller.A : Caller.A[e] \in Int
    BY <1>1 DEF Transmissible
  <2> QED BY <2>1, EntriesMoved
<1>4. P.A \in [DOMAIN P.A -> Int] /\ P.b \in [Rows -> Int]
  <2>1. \A r \in Rows : CallersRow(call.order, r) \in Rows
    BY CallersOrder, NewRowInverts
  <2>2. \A r \in Rows : P.b[r] \in Int
    BY <1>1, <2>1 DEF Transmissible
  <2>3. P.A = [e \in DOMAIN P.A |-> P.A[e]] /\ P.b = [r \in Rows |-> P.b[r]]
    <3>1. CASE call.order = null
      BY <1>1, <3>1 DEF Permuted, Transmissible
    <3>2. CASE call.order # null
      <4>1. DOMAIN Caller = {"A", "b", "c", "L"}
        BY <1>1 DEF Transmissible
      <4> QED BY <3>2, <4>1 DEF Permuted, permute_global_problem_constraints
    <3> QED BY <3>1, <3>2
  <2> QED BY <1>3, <2>2, <2>3
<1>5. IsFiniteSet(DOMAIN P.c) /\ DOMAIN P.c \subseteq Vars /\ P.c \in [DOMAIN P.c -> Int]
  BY <1>1, VarsFinite DEF Transmissible
<1>6. IsFiniteSet(DOMAIN P.L)
  <2>1. DOMAIN P.L = 1..Len(Caller.L) /\ Len(Caller.L) \in Nat
    BY <1>1 DEF Transmissible
  <2> QED BY <2>1, FS_Interval
<1>7. ASSUME NEW j \in DOMAIN P.L PROVE IsColumn(P.L[j])
  <2> DEFINE col == Caller.L[j]
             new == P.L[j]
  <2>1. IsInputColumn(col)
    BY <1>1 DEF Transmissible
  <2>2. /\ new.w = col.w /\ new.u = col.u /\ new.cone = col.cone
        /\ new.row = IF col.row = objective THEN objective ELSE NewRow(call.order, col.row)
        /\ col.row \in Rows \union {objective}
    BY <1>1, EntriesMoved
  <2>3. new = [col EXCEPT !.row = IF @ = objective THEN @ ELSE NewRow(call.order, @)]
    BY <1>1, PermutedProblem
  <2>4. DOMAIN new = {"row", "cone", "w", "u"}
    BY <2>1, <2>3 DEF IsInputColumn
  <2>5. new.row \in Rows \union {objective}
    BY <2>2, CallersOrder, NewRowInverts
  <2>6. IsFiniteSet(DOMAIN col.u)
    BY <2>1, ConeSlotsFinite, FS_Subset DEF IsInputColumn
  <2> QED BY <2>1, <2>2, <2>4, <2>5, <2>6 DEF IsInputColumn, IsColumn
<1> QED BY <1>1, <1>2, <1>4, <1>5, <1>6, <1>7 DEF IsProblem

LEMMA ScalesAreNumbers ==
  ASSUME CallInv
  PROVE  IsInfo(ScaledCopy.info)
<1> DEFINE s == call.settings
           f == RuizFactors(Permuted, s.per_cone)
           d == Divided(Permuted, f)
<1>1. IsFactors(f) /\ IsProblem(d)
  BY PermutedIsProblem, RuizFactorsType, DividedType
<1>2. BoundScale(d) \in Int /\ ObjectiveScale(d) \in Int
  BY <1>1, BoundScaleType
<1>3. ScaledCopy.info = IF ~scaling_enabled(s) THEN NoRescaling
                        ELSE [row |-> f.row, unit |-> f.unit, tau_b |-> BoundScale(d),
                              tau_c |-> ObjectiveScale(d)]
  BY DEF ScaledCopy, Rescaled
<1> HIDE DEF f, d, s
<1> QED BY <1>1, <1>2, <1>3, NoRescalingType DEF IsFactors, IsInfo

\* What a column of the scaled copy is times the factors.
ColumnBack(new, old, info) ==
  /\ DOMAIN new = {"row", "cone", "w", "u"}
  /\ DOMAIN new.u = DOMAIN old.u
  /\ \A s \in DOMAIN old.u : new.u[s] + info.unit[s] = old.u[s]
  /\ old.row = objective => new.w - info.tau_c = old.w
  /\ old.row # objective => new.w + info.row[new.row] = old.w
LEMMA ScaledBack ==
  ASSUME CallInv
  PROVE  LET P == ScaledCopy.problem
             info == ScaledCopy.info
         IN  /\ \A e \in DOMAIN Permuted.A :
                  P.A[e] + info.row[e[1]] + VarFactor(info.unit, e[2]) = Permuted.A[e]
             /\ \A r \in Rows : P.b[r] + info.row[r] - info.tau_b = Permuted.b[r]
             /\ \A v \in DOMAIN Caller.c :
                  P.c[v] + VarFactor(info.unit, v) - info.tau_c = Caller.c[v]
             /\ \A j \in DOMAIN Caller.L : ColumnBack(P.L[j], Caller.L[j], info)
<1> DEFINE s == call.settings
           q == Permuted
           f == RuizFactors(q, s.per_cone)
           d == Divided(q, f)
           tb == BoundScale(d)
           tc == ObjectiveScale(d)
           e == Bounded(d, tb, tc)
           P == ScaledCopy.problem
           info == ScaledCopy.info
<1>1. IsProblem(q) /\ IsFactors(f) /\ IsProblem(d)
  BY PermutedIsProblem, RuizFactorsType, DividedType
<1>2. tb \in Int /\ tc \in Int
  BY <1>1, BoundScaleType
<1>3. q.c = Caller.c /\ DOMAIN q.L = DOMAIN Caller.L
  BY PermutedProblem
<1>4. \A j \in DOMAIN Caller.L :
        /\ IsColumn(q.L[j])
        /\ q.L[j].w = Caller.L[j].w /\ q.L[j].u = Caller.L[j].u
        /\ Caller.L[j].row = objective <=> q.L[j].row = objective
  <2> SUFFICES ASSUME NEW j \in DOMAIN Caller.L
               PROVE  /\ IsColumn(q.L[j])
                      /\ q.L[j].w = Caller.L[j].w /\ q.L[j].u = Caller.L[j].u
                      /\ Caller.L[j].row = objective <=> q.L[j].row = objective
    OBVIOUS
  <2>1. IsColumn(q.L[j])
    BY <1>1, <1>3 DEF IsProblem
  <2>2. /\ q.L[j].w = Caller.L[j].w /\ q.L[j].u = Caller.L[j].u
        /\ Caller.L[j].row \in Rows \union {objective}
        /\ q.L[j].row = IF Caller.L[j].row = objective THEN objective
                        ELSE NewRow(call.order, Caller.L[j].row)
    BY EntriesMoved
  <2>3. Caller.L[j].row # objective => NewRow(call.order, Caller.L[j].row) \in Rows
    BY <2>2, CallersOrder, NewRowInverts
  <2>4. objective \notin Rows
    BY DEF objective, Rows
  <2> QED BY <2>1, <2>2, <2>3, <2>4
<1>5. CASE ~scaling_enabled(s)
  <2>1. P = q /\ info = NoRescaling
    BY <1>5 DEF ScaledCopy, Rescaled
  <2>2. /\ \A r \in Rows : NoRescaling.row[r] = 0
        /\ \A u \in Units : NoRescaling.unit[u] = 0
        /\ NoRescaling.tau_b = 0 /\ NoRescaling.tau_c = 0
    BY DEF NoRescaling
  <2>3. \A v \in Vars : VarFactor(NoRescaling.unit, v) = 0
    BY <2>2, VarUnits DEF VarFactor
  <2> HIDE DEF q
  <2>4. \A h \in DOMAIN q.A : h[1] \in Rows /\ h[2] \in Vars /\ q.A[h] \in Int
    BY <1>1 DEF IsProblem
  <2>5. \A r \in Rows : q.b[r] \in Int
    BY <1>1 DEF IsProblem
  <2>6. \A v \in DOMAIN Caller.c : v \in Vars /\ q.c[v] \in Int
    BY <1>1, <1>3 DEF IsProblem
  <2>7. ASSUME NEW j \in DOMAIN Caller.L PROVE ColumnBack(q.L[j], Caller.L[j], NoRescaling)
    <3>1. IsColumn(q.L[j])
      BY <1>4
    <3>2. DOMAIN q.L[j].u \subseteq Units
      BY <3>1 DEF IsColumn, Units, Slots
    <3> QED BY <1>4, <2>2, <3>1, <3>2 DEF ColumnBack, IsColumn
  <2> QED BY <1>3, <2>1, <2>2, <2>3, <2>4, <2>5, <2>6, <2>7 DEF q
<1>6. CASE scaling_enabled(s)
  <2>1. P = e /\ info.row = f.row /\ info.unit = f.unit /\ info.tau_b = tb /\ info.tau_c = tc
    BY <1>6 DEF ScaledCopy, Rescaled
  <2> HIDE DEF f, q, tb, tc
  <2>2. /\ d.A = [h \in DOMAIN q.A |-> q.A[h] - f.row[h[1]] - VarFactor(f.unit, h[2])]
        /\ d.b = [r \in Rows |-> q.b[r] - f.row[r]]
        /\ d.c = [v \in DOMAIN q.c |-> q.c[v] - VarFactor(f.unit, v)]
        /\ d.L = [j \in DOMAIN q.L |-> DividedColumn(q.L[j], f)]
    BY DEF Divided
  <2> HIDE DEF d
  <2>3. /\ e.A = d.A
        /\ e.b = [r \in Rows |-> d.b[r] + tb]
        /\ e.c = [v \in DOMAIN d.c |-> d.c[v] + tc]
        /\ e.L = [j \in DOMAIN d.L |-> BoundedColumn(d.L[j], tc)]
    BY DEF Bounded
  <2> HIDE DEF e, P, info
  <2>4. ASSUME NEW h \in DOMAIN q.A
        PROVE  P.A[h] + info.row[h[1]] + VarFactor(info.unit, h[2]) = q.A[h]
    <3>1. h[1] \in Rows /\ h[2] \in Vars /\ q.A[h] \in Int
      BY <1>1 DEF IsProblem
    <3>2. f.row[h[1]] \in Int /\ VarFactor(f.unit, h[2]) \in Int
      BY <1>1, <3>1, VarFactorType DEF IsFactors
    <3>3. P.A[h] = q.A[h] - f.row[h[1]] - VarFactor(f.unit, h[2])
      BY <2>1, <2>2, <2>3
    <3> QED BY <2>1, <3>1, <3>2, <3>3
  <2>5. ASSUME NEW r \in Rows PROVE P.b[r] + info.row[r] - info.tau_b = q.b[r]
    <3>1. q.b[r] \in Int /\ f.row[r] \in Int
      BY <1>1 DEF IsProblem, IsFactors
    <3>2. P.b[r] = (q.b[r] - f.row[r]) + tb
      BY <2>1, <2>2, <2>3
    <3> QED BY <1>2, <2>1, <3>1, <3>2
  <2>6. ASSUME NEW v \in DOMAIN Caller.c
        PROVE  P.c[v] + VarFactor(info.unit, v) - info.tau_c = Caller.c[v]
    <3>1. v \in Vars /\ q.c[v] \in Int
      BY <1>1, <1>3 DEF IsProblem
    <3>2. VarFactor(f.unit, v) \in Int
      BY <1>1, <3>1, VarFactorType DEF IsFactors
    <3>3. P.c[v] = (q.c[v] - VarFactor(f.unit, v)) + tc
      BY <1>3, <2>1, <2>2, <2>3
    <3> QED BY <1>2, <1>3, <2>1, <3>1, <3>2, <3>3
  <2>7. ASSUME NEW j \in DOMAIN Caller.L PROVE ColumnBack(P.L[j], Caller.L[j], info)
    <3> DEFINE old == q.L[j]
               mid == d.L[j]
               new == P.L[j]
    <3>1. mid = DividedColumn(old, f) /\ new = BoundedColumn(mid, tc)
      BY <1>3, <2>1, <2>2, <2>3
    <3>2. IsColumn(old)
      BY <1>4
    <3> HIDE DEF old, mid, new
    <3>3. /\ DOMAIN mid = {"row", "cone", "w", "u"}
          /\ mid.row = old.row
          /\ mid.w = IF old.row = objective THEN old.w ELSE old.w - f.row[old.row]
          /\ mid.u = [t \in DOMAIN old.u |-> old.u[t] - f.unit[t]]
      BY <3>1 DEF DividedColumn
    <3>4. /\ DOMAIN new = {"row", "cone", "w", "u"}
          /\ new.row = old.row /\ new.u = mid.u
          /\ new.w = IF old.row = objective THEN mid.w + tc ELSE mid.w
      BY <3>1, <3>3 DEF BoundedColumn
    <3>5. DOMAIN old.u \subseteq Units /\ \A t \in DOMAIN old.u : old.u[t] \in Int
      BY <3>2 DEF IsColumn, Units, Slots
    <3>6. \A t \in DOMAIN old.u : new.u[t] + f.unit[t] = old.u[t]
      <4> SUFFICES ASSUME NEW t \in DOMAIN old.u PROVE new.u[t] + f.unit[t] = old.u[t]
        OBVIOUS
      <4>1. f.unit[t] \in Int /\ old.u[t] \in Int
        BY <1>1, <3>5 DEF IsFactors
      <4>2. new.u[t] = old.u[t] - f.unit[t]
        BY <3>3, <3>4
      <4> QED BY <4>1, <4>2
    <3>7. old.w \in Int /\ old.row \in Rows \union {objective}
      BY <3>2 DEF IsColumn
    <3>8. old.row = objective => new.w - tc = old.w
      BY <1>2, <3>3, <3>4, <3>7
    <3>9. old.row # objective => new.w + f.row[new.row] = old.w
      <4> SUFFICES ASSUME old.row # objective PROVE new.w + f.row[new.row] = old.w
        OBVIOUS
      <4>1. f.row[old.row] \in Int
        BY <1>1, <3>7 DEF IsFactors
      <4>2. new.w = old.w - f.row[old.row] /\ new.row = old.row
        BY <3>3, <3>4
      <4> QED BY <3>7, <4>1, <4>2
    <3>10. /\ old.w = Caller.L[j].w /\ old.u = Caller.L[j].u
           /\ Caller.L[j].row = objective <=> old.row = objective
      BY <1>4 DEF old
    <3>11. DOMAIN new.u = DOMAIN old.u
      BY <3>3, <3>4
    <3> QED BY <2>1, <3>4, <3>6, <3>8, <3>9, <3>10, <3>11 DEF ColumnBack, new
  <2> QED BY <2>4, <2>5, <2>6, <2>7 DEF q, P, info
<1> QED BY <1>5, <1>6

-----------------------------------------------------------------------------
(* Then the owners: every cone and every linear variable is assigned to a  *)
(* process of the cone axis (compute_cone_assignment).                     *)

\* The smallest and the largest of finitely many numbers are among them.
LEMMA MinIsIn ==
  ASSUME NEW S \in SUBSET Int, IsFiniteSet(S), S # {}
  PROVE  Min(S) \in S /\ \A y \in S : Min(S) <= y
BY MinimumExists DEF Min
LEMMA MaxIsIn ==
  ASSUME NEW S \in SUBSET Int, IsFiniteSet(S), S # {}
  PROVE  Max(S) \in S
<1>1. \E x \in S : \A y \in S : x >= y
  BY MaximumExists
<1> QED BY <1>1 DEF Max

LEMMA LeastOf ==
  ASSUME NEW D, IsFiniteSet(D), D # {}, NEW f, \A q \in D : f[q] \in Int
  PROVE  \E q \in D : \A r \in D : f[q] <= f[r]
<1> DEFINE S == {f[q] : q \in D}
<1>1. S \in SUBSET Int /\ S # {}
  OBVIOUS
<1>2. IsFiniteSet(S)
  BY FiniteValues
<1>3. PICK x \in S : \A y \in S : x <= y
  <2> HIDE DEF S
  <2> QED BY <1>1, <1>2, MinimumExists
<1> QED BY <1>3

LEMMA LeastLoadedIs ==
  ASSUME NEW P \in Nat \ {0}, NEW loads, DOMAIN loads.all = 0..(P - 1),
         \A q \in 0..(P - 1) : loads.all[q] \in Int /\ loads.batch[q] \in Int,
         NEW batch \in BOOLEAN
  PROVE  LeastLoaded(loads, batch) \in 0..(P - 1)
<1> DEFINE D == 0..(P - 1)
           before(q, r) == \/ batch /\ loads.batch[q] < loads.batch[r]
                           \/ /\ batch => loads.batch[q] = loads.batch[r]
                              /\ loads.all[q] < loads.all[r]
           S == {q \in D : \A r \in D : ~before(r, q)}
<1>1. IsFiniteSet(D) /\ D # {} /\ D \subseteq Int
  <2> DEFINE m == P - 1
  <2>1. m \in Nat
    OBVIOUS
  <2>2. D = 0..m
    OBVIOUS
  <2> HIDE DEF m, D
  <2>3. IsFiniteSet(0..m)
    BY <2>1, FS_Interval
  <2>4. 0 \in 0..m /\ 0..m \subseteq Int
    BY <2>1
  <2> QED BY <2>2, <2>3, <2>4
<1>2. \A q \in D : loads.all[q] \in Int /\ loads.batch[q] \in Int
  OBVIOUS
<1>3. LeastLoaded(loads, batch) = Min(S)
  BY DEF LeastLoaded
<1> HIDE DEF D
<1>4. S # {}
  <2>1. CASE ~batch
    <3>1. PICK q \in D : \A r \in D : loads.all[q] <= loads.all[r]
      BY <1>1, <1>2, LeastOf
    <3>2. \A r \in D : ~before(r, q)
      BY <1>2, <2>1, <3>1
    <3> QED BY <3>2
  <2>2. CASE batch
    <3>1. PICK b \in D : \A r \in D : loads.batch[b] <= loads.batch[r]
      BY <1>1, <1>2, LeastOf
    <3> DEFINE E == {r \in D : loads.batch[r] = loads.batch[b]}
    <3>2. IsFiniteSet(E) /\ E # {} /\ \A r \in E : loads.all[r] \in Int
      BY <1>1, <1>2, FS_Subset
    <3>3. PICK q \in E : \A r \in E : loads.all[q] <= loads.all[r]
      <4> HIDE DEF E
      <4> QED BY <3>2, LeastOf
    <3>4. ASSUME NEW r \in D PROVE ~before(r, q)
      <4> DEFINE x == loads.batch[r]
                 y == loads.batch[q]
                 u == loads.all[r]
                 v == loads.all[q]
      <4>1. x \in Int /\ y \in Int /\ u \in Int /\ v \in Int /\ y <= x
        BY <1>2, <3>1, <3>3
      <4>2. x = y => v <= u
        BY <3>3
      <4> HIDE DEF x, y, u, v
      <4>3. ~(x < y) /\ (x = y => ~(u < v))
        BY <4>1, <4>2
      <4> QED BY <2>2, <4>3, Zenon DEF x, y, u, v
    <3> QED BY <3>3, <3>4
  <2> QED BY <2>1, <2>2
<1>5. S \in SUBSET Int /\ IsFiniteSet(S) /\ S \subseteq D
  BY <1>1, FS_Subset
<1> HIDE DEF S
<1>6. Min(S) \in S
  BY <1>4, <1>5, MinIsIn
<1> QED BY <1>3, <1>5, <1>6 DEF D

\* Ranges that follow each other cover what they divide, and do not overlap.
LEMMA Tiling ==
  ASSUME NEW n \in Nat, NEW P \in Nat \ {0}, NEW a, NEW b, a[0] = 0,
         \A i \in 0..(P - 1) : /\ a[i] \in 0..n /\ b[i] \in 0..n /\ a[i] <= b[i]
                               /\ b[i] = IF i = P - 1 THEN n ELSE a[i + 1]
  PROVE  /\ \A x \in 0..(n - 1) : \E i \in 0..(P - 1) : a[i] <= x /\ x < b[i]
         /\ \A i, j \in 0..(P - 1) : i < j => b[i] <= a[j]
<1>1. ASSUME NEW x \in 0..(n - 1), \A i \in 0..(P - 1) : ~(a[i] <= x /\ x < b[i])
      PROVE  FALSE
  <2> DEFINE T == {i \in Nat : i <= P - 1 => a[i] <= x}
  <2>1. 0 \in T
    OBVIOUS
  <2>2. ASSUME NEW i \in Nat, i \in T PROVE i + 1 \in T
    <3> SUFFICES ASSUME i + 1 <= P - 1 PROVE a[i + 1] <= x
      OBVIOUS
    <3>1. i \in 0..(P - 1) /\ i # P - 1
      OBVIOUS
    <3>2. a[i] <= x /\ b[i] = a[i + 1] /\ b[i] \in 0..n
      BY <2>2, <3>1
    <3>3. ~(x < b[i])
      BY <1>1, <3>1, <3>2
    <3> QED BY <3>2, <3>3
  <2>3. Nat \subseteq T
    <3> HIDE DEF T
    <3> QED BY <2>1, <2>2, NatSetInduction
  <2>4. P - 1 \in 0..(P - 1) /\ a[P - 1] <= x
    BY <2>3
  <2>5. b[P - 1] = n
    BY <2>4
  <2> QED BY <1>1, <2>4, <2>5
<1>2. ASSUME NEW i \in 0..(P - 1) PROVE \A j \in 0..(P - 1) : i < j => b[i] <= a[j]
  <2> DEFINE T == {d \in Nat : i + 1 + d <= P - 1 => b[i] <= a[i + 1 + d]}
  <2>1. 0 \in T
    <3> SUFFICES ASSUME i + 1 <= P - 1 PROVE b[i] <= a[i + 1]
      OBVIOUS
    <3>1. b[i] = a[i + 1] /\ b[i] \in 0..n
      OBVIOUS
    <3> QED BY <3>1
  <2>2. ASSUME NEW d \in Nat, d \in T PROVE d + 1 \in T
    <3> DEFINE k == i + 1 + d
    <3> SUFFICES ASSUME k + 1 <= P - 1 PROVE b[i] <= a[k + 1]
      OBVIOUS
    <3>1. k \in 0..(P - 1) /\ k # P - 1 /\ b[i] <= a[k]
      BY <2>2
    <3> HIDE DEF k
    <3>2. a[k] <= b[k] /\ b[k] = a[k + 1] /\ a[k] \in 0..n /\ b[k] \in 0..n /\ b[i] \in 0..n
      BY <3>1
    <3> QED BY <3>1, <3>2
  <2>3. Nat \subseteq T
    <3> HIDE DEF T
    <3> QED BY <2>1, <2>2, NatSetInduction
  <2> TAKE j \in 0..(P - 1)
  <2> HAVE i < j
  <2>4. j - (i + 1) \in T /\ i + 1 + (j - (i + 1)) = j
    BY <2>3
  <2> QED BY <2>4
<1> QED BY <1>1, <1>2

LEMMA SharesCover ==
  ASSUME NEW n \in Nat, NEW P \in Nat \ {0}, NEW x \in 0..(n - 1)
  PROVE  \E i \in 0..(P - 1) :
           x \in ShareStart(n, P, i)..(ShareStart(n, P, i) + Share(n, P, i) - 1)
<1> DEFINE a == [i \in 0..P |-> ShareStart(n, P, i)]
           b == [i \in 0..P |-> ShareStart(n, P, i) + Share(n, P, i)]
<1>1. a[0] = 0
  BY SharesTile
<1>2. ASSUME NEW i \in 0..(P - 1)
      PROVE  /\ a[i] \in 0..n /\ b[i] \in 0..n /\ a[i] <= b[i]
             /\ b[i] = IF i = P - 1 THEN n ELSE a[i + 1]
  <2> DEFINE u == ShareStart(n, P, i)
             v == Share(n, P, i)
             w == ShareStart(n, P, i + 1)
  <2>1. u \in 0..n /\ v \in Nat /\ u + v \in 0..n /\ u + v = IF i = P - 1 THEN n ELSE w
    BY SharesTile
  <2>2. a[i] = u /\ b[i] = u + v /\ (i # P - 1 => a[i + 1] = w)
    OBVIOUS
  <2> HIDE DEF u, v, w, a, b
  <2>3. u <= u + v
    BY <2>1
  <2>4. CASE i = P - 1
    BY <2>1, <2>2, <2>3, <2>4
  <2>5. CASE i # P - 1
    BY <2>1, <2>2, <2>3, <2>5
  <2> QED BY <2>4, <2>5
<1>3. PICK i \in 0..(P - 1) : a[i] <= x /\ x < b[i]
  <2> HIDE DEF a, b
  <2> QED BY <1>1, <1>2, Tiling
<1> DEFINE u == ShareStart(n, P, i)
           v == Share(n, P, i)
<1>4. u <= x /\ x < u + v /\ u \in 0..n /\ v \in Nat
  BY <1>3, SharesTile
<1> HIDE DEF u, v
<1>5. x \in u..(u + v - 1)
  BY <1>4
<1> QED BY <1>5 DEF u, v


\* The cost of a cone is a number, and a run of cones is what it is the run
\* of: consecutive ones.
LEMMA ConeCostIsNumber ==
  ASSUME NEW p, IsFiniteSet(DOMAIN p.L), NEW k \in Cones
  PROVE  ConeCost(p, k) \in Int
<1> DEFINE a == Cardinality(RowsInCone(p, k))
           b == Cardinality(LowRankRows(p, k))
           d == blk_dims[k]
           r == MaxRank(a + b)
           m == Min({d, r})
<1>1. a \in Nat
  BY CapIsNumber
<1>2. b \in Nat
  <2> DEFINE J == {j \in DOMAIN p.L : p.L[j].cone = k}
             f == [j \in J |-> p.L[j].row]
  <2>1. IsFiniteSet(J)
    BY FS_Subset
  <2>2. IsFiniteSet({f[j] : j \in J})
    <3> HIDE DEF J, f
    <3> QED BY <2>1, FiniteValues
  <2>3. LowRankRows(p, k) \subseteq {f[j] : j \in J}
    BY DEF LowRankRows
  <2> HIDE DEF J, f
  <2> QED BY <2>2, <2>3, FS_Subset, FS_CardinalityType
<1>3. d \in Int
  BY Dimensions
<1> HIDE DEF a, b, d
<1>4. r \in Int
  BY <1>1, <1>2, MaxRankIsNumber
<1> HIDE DEF r
<1>5. m \in Int
  BY <1>3, <1>4, MinOfTwo
<1> HIDE DEF m
<1>6. d * d * m \in Int
  BY <1>3, <1>5
<1> QED BY <1>6 DEF ConeCost, a, b, d, r, m

LEMMA RunIsRange ==
  ASSUME NEW k \in Cones
  PROVE  /\ Cardinality(RunFrom(k)) \in Nat \ {0}
         /\ IsFiniteSet(RunFrom(k))
         /\ \A j \in RunFrom(k) : j - k \in 0..(Cardinality(RunFrom(k)) - 1)
<1> DEFINE n == Len(blk_dims)
           R == RunFrom(k)
           D == {d \in 1..n : k + d - 1 \in R}
           f == [d \in D |-> k + d - 1]
           N == Cardinality(D)
<1>1. n \in Nat /\ Cones = 1..n /\ k \in 1..n
  BY Dimensions, SizesAssumption
<1>2. R \subseteq Cones /\ k \in R /\ \A j \in R : j >= k
  BY <1>1 DEF RunFrom
<1>3. \A i \in R : \A j \in k..i : j \in R
  BY <1>1 DEF RunFrom
<1> HIDE DEF R
<1>4. \A i \in D, j \in 1..n : j <= i => j \in D
  <2> TAKE i \in D, j \in 1..n
  <2> HAVE j <= i
  <2>1. k + j - 1 \in k..(k + i - 1)
    BY <1>1
  <2> QED BY <1>3, <2>1
<1>5. IsFiniteSet(D) /\ N \in Nat /\ D = 1..N
  <2> DEFINE E == D
  <2>1. E \in SUBSET (1..n) /\ \A i \in E, j \in 1..n : j <= i => j \in E
    BY <1>4
  <2> HIDE DEF E
  <2>2. IsFiniteSet(E) /\ Cardinality(E) \in Nat /\ E = 1..Cardinality(E)
    BY <1>1, <2>1, InitialPositions
  <2> QED BY <2>2 DEF E
<1>6. \A j \in R : (j - k) + 1 \in D /\ f[(j - k) + 1] = j
  <2> TAKE j \in R
  <2>1. j \in 1..n /\ j >= k
    BY <1>1, <1>2
  <2>2. (j - k) + 1 \in 1..n /\ k + ((j - k) + 1) - 1 = j
    BY <1>1, <2>1
  <2> QED BY <2>2
<1>7. f \in [D -> R] /\ (\A x, y \in D : f[x] = f[y] => x = y) /\ \A z \in R : \E x \in D : f[x] = z
  <2>1. f \in [D -> R]
    OBVIOUS
  <2>2. \A x, y \in D : f[x] = f[y] => x = y
    BY <1>1
  <2> QED BY <1>6, <2>1, <2>2
<1> HIDE DEF D, f
<1>8. IsFiniteSet(R) /\ Cardinality(R) = N
  <2>1. IsFiniteSet(D)
    BY <1>5
  <2>2. IsFiniteSet(R) /\ Cardinality(R) = Cardinality(D)
    BY <1>7, <2>1, SameCount
  <2> QED BY <2>2
<1> HIDE DEF N
<1>9. \A j \in R : j - k \in 0..(N - 1)
  <2> TAKE j \in R
  <2>1. (j - k) + 1 \in 1..N /\ j \in Int /\ k \in Int
    BY <1>1, <1>2, <1>5, <1>6
  <2> QED BY <1>5, <2>1
<1>10. N # 0
  BY <1>2, <1>5, <1>9
<1> QED BY <1>5, <1>8, <1>9, <1>10 DEF R

LEMMA ChunksAreCounted ==
  ASSUME NEW N \in Nat \ {0}, NEW P \in Nat \ {0}
  PROVE  NumChunks(N, P) \in Nat \ {0}
<1> DEFINE q == N \div min_batch
           m == Max({1, q})
<1>1. q \in Int
  BY PartitionAssumption
<1> HIDE DEF q
<1>2. m = IF q >= 1 THEN q ELSE 1
  BY <1>1 DEF Max
<1>3. m \in Nat \ {0}
  BY <1>1, <1>2
<1> HIDE DEF m
<1>4. Min({N, m}) = IF N <= m THEN N ELSE m
  BY <1>3, MinOfTwo
<1>5. Min({P, N, m}) = IF P <= Min({N, m}) THEN P ELSE Min({N, m})
  BY <1>3, MinOfThree
<1>6. NumChunks(N, P) = Min({P, N, m})
  BY DEF NumChunks, m, q
<1> QED BY <1>3, <1>4, <1>5, <1>6


ItemSet == [kind : {"cone", "batch", "lp", "free"}, blks : SUBSET Cones, cost : Int]
\* What is to be assigned where: items, with every cone in one of them.
LEMMA ItemsOfRun ==
  ASSUME NEW p, IsFiniteSet(DOMAIN p.L), NEW k \in Cones, NEW P \in Nat \ {0}
  PROVE  ItemsAt(p, k, P) \in Seq(ItemSet)
<1>1. CASE blk_dims[k] > small_dim
  <2>1. Item("cone", {k}, ConeCost(p, k)) \in ItemSet
    BY ConeCostIsNumber DEF Item, ItemSet
  <2> QED BY <1>1, <2>1 DEF ItemsAt
<1>2. CASE ~(blk_dims[k] > small_dim) /\ k > 1 /\ blk_dims[k - 1] = blk_dims[k]
  BY <1>2 DEF ItemsAt
<1>3. CASE ~(blk_dims[k] > small_dim) /\ ~(k > 1 /\ blk_dims[k - 1] = blk_dims[k])
  <2> DEFINE K == NumChunks(Cardinality(RunFrom(k)), P)
             cost == [j \in Cones |-> ConeCost(p, j)]
  <2>1. K \in Nat
    BY RunIsRange, ChunksAreCounted
  <2>2. ASSUME NEW i \in 1..K
        PROVE  Item("batch", Chunk(k, K, i - 1), SumOver(cost, Chunk(k, K, i - 1))) \in ItemSet
    <3>1. Chunk(k, K, i - 1) \in SUBSET Cones
      BY DEF Chunk, RunFrom
    <3>2. \A j \in Cones : cost[j] \in Int
      BY ConeCostIsNumber
    <3> HIDE DEF cost, K
    <3>3. PICK g : SumsOf(g, cost, Cones)
      BY <3>2, ConesFinite, SumIs
    <3>4. SumOver(cost, Chunk(k, K, i - 1)) \in Int
      BY <3>1, <3>3 DEF SumsOf
    <3> QED BY <3>1, <3>4 DEF Item, ItemSet
  <2>3. ItemsAt(p, k, P) = [i \in 1..K |-> Item("batch", Chunk(k, K, i - 1),
                                                SumOver(cost, Chunk(k, K, i - 1)))]
    BY <1>3 DEF ItemsAt
  <2> HIDE DEF cost, K
  <2> QED BY <2>1, <2>2, <2>3
<1> QED BY <1>1, <1>2, <1>3

LEMMA ConeInRun ==
  ASSUME NEW p, NEW k \in Cones, NEW P \in Nat \ {0}
  PROVE  \E h \in Cones : \E i \in 1..Len(ItemsAt(p, h, P)) : k \in ItemsAt(p, h, P)[i].blks
<1>1. Cones = 1..Len(blk_dims) /\ Len(blk_dims) \in Nat /\ \A j \in Cones : blk_dims[j] \in Nat
  BY Dimensions
<1>2. CASE blk_dims[k] > small_dim
  <2>1. ItemsAt(p, k, P) = <<Item("cone", {k}, ConeCost(p, k))>>
    BY <1>2 DEF ItemsAt
  <2>2. Item("cone", {k}, ConeCost(p, k)).blks = {k}
    BY DEF Item
  <2> HIDE DEF Item
  <2>3. 1 \in 1..Len(ItemsAt(p, k, P)) /\ k \in ItemsAt(p, k, P)[1].blks
    BY <2>1, <2>2
  <2> QED BY <2>3
<1>3. CASE ~(blk_dims[k] > small_dim)
  <2> DEFINE H == {h \in 1..k : \A i \in h..k : blk_dims[i] = blk_dims[k]}
  <2>1. H \in SUBSET Int /\ IsFiniteSet(H) /\ H # {}
    <3>1. k \in Nat /\ k \in H
      BY <1>1
    <3>2. IsFiniteSet(1..k)
      BY <3>1, FS_Interval
    <3> QED BY <3>1, <3>2, FS_Subset
  <2>2. PICK h \in H : \A g \in H : h <= g
    <3> HIDE DEF H
    <3> QED BY <2>1, MinimumExists
  <2>3. h \in Cones /\ k \in Cones /\ h <= k /\ blk_dims[h] = blk_dims[k]
        /\ \A i \in h..k : blk_dims[i] = blk_dims[h]
    BY <1>1, <2>2
  <2>4. ~(h > 1 /\ blk_dims[h - 1] = blk_dims[h])
    <3> SUFFICES ASSUME h > 1, blk_dims[h - 1] = blk_dims[h] PROVE FALSE
      OBVIOUS
    <3>1. h - 1 \in 1..k /\ \A i \in (h - 1)..k : i = h - 1 \/ i \in h..k
      BY <1>1, <2>2
    <3>2. h - 1 \in H
      BY <2>3, <3>1
    <3>3. h <= h - 1
      <4> HIDE DEF H
      <4> QED BY <2>2, <3>2
    <3>4. h \in Int
      BY <1>1, <2>3
    <3> QED BY <3>3, <3>4
  <2> DEFINE R == RunFrom(h)
             N == Cardinality(R)
             K == NumChunks(N, P)
  <2>5. k \in R
    BY <1>1, <2>3 DEF RunFrom
  <2>6. N \in Nat \ {0} /\ k - h \in 0..(N - 1)
    BY <2>3, <2>5, RunIsRange
  <2> HIDE DEF R, N
  <2>7. K \in Nat \ {0}
    BY <2>6, ChunksAreCounted
  <2> HIDE DEF K
  <2>8. PICK i \in 0..(K - 1) :
          k - h \in ShareStart(N, K, i)..(ShareStart(N, K, i) + Share(N, K, i) - 1)
    BY <2>6, <2>7, SharesCover
  <2>9. k \in Chunk(h, K, i)
    BY <2>5, <2>8 DEF Chunk, R, N
  <2> DEFINE item(t) == Item("batch", Chunk(h, K, t - 1),
                             SumOver([j \in Cones |-> ConeCost(p, j)], Chunk(h, K, t - 1)))
  <2>10. ItemsAt(p, h, P) = [t \in 1..K |-> item(t)]
    BY <1>3, <2>3, <2>4 DEF ItemsAt, R, N, K
  <2>11. i + 1 \in 1..K /\ (i + 1) - 1 = i
    BY <2>7
  <2>12. item(i + 1).blks = Chunk(h, K, i)
    BY <2>11 DEF Item
  <2> HIDE DEF item
  <2>13. i + 1 \in 1..Len(ItemsAt(p, h, P)) /\ ItemsAt(p, h, P)[i + 1] = item(i + 1)
    BY <2>7, <2>10, <2>11
  <2> QED BY <2>3, <2>9, <2>12, <2>13
<1> QED BY <1>2, <1>3

LEMMA ItemsListed ==
  ASSUME NEW p, IsFiniteSet(DOMAIN p.L), NEW P \in Nat \ {0}
  PROVE  /\ Items(p, P) \in Seq(ItemSet)
         /\ \A k \in Cones : \E i \in DOMAIN Items(p, P) : k \in Items(p, P)[i].blks
<1> DEFINE n == Len(blk_dims)
           runs == [k \in Cones |-> ItemsAt(p, k, P)]
           flat == FlattenSeq(runs)
           lp == IF lp_dim > 0 THEN <<Item("lp", {}, lp_dim)>> ELSE <<>>
           free == IF free_dim > 0 THEN <<Item("free", {}, free_dim)>> ELSE <<>>
<1>1. n \in Nat /\ Cones = 1..n
  BY Dimensions
<1>2. runs \in [1..n -> Seq(ItemSet)]
  BY <1>1, ItemsOfRun
<1>3. \A h \in Cones : runs[h] = ItemsAt(p, h, P)
  OBVIOUS
<1> HIDE DEF runs
<1>4. OneAfterOther(ItemSet, n, runs)
  BY <1>1, <1>2, FlattenedAt
<1>5. lp \in Seq(ItemSet) /\ free \in Seq(ItemSet)
  <2>1. Item("lp", {}, lp_dim) \in ItemSet /\ Item("free", {}, free_dim) \in ItemSet
    BY SizesAssumption DEF Item, ItemSet
  <2> HIDE DEF Item
  <2> QED BY <2>1
<1>6. flat \in Seq(ItemSet)
  BY <1>4 DEF OneAfterOther
<1>7. Items(p, P) = (flat \o lp) \o free
  BY DEF Items, runs
<1>8. ASSUME NEW k \in Cones
      PROVE \E i \in DOMAIN Items(p, P) : k \in Items(p, P)[i].blks
  <2>9. \E h \in Cones : \E i \in 1..Len(ItemsAt(p, h, P)) : k \in ItemsAt(p, h, P)[i].blks
    BY ConeInRun
  <2>10. PICK h \in 1..n : \E i \in 1..Len(runs[h]) : k \in runs[h][i].blks
    <3> HIDE DEF n
    <3> QED BY <1>1, <1>3, <2>9
  <2>1. PICK i \in 1..Len(runs[h]) : k \in runs[h][i].blks
    BY <2>10
  <2> DEFINE t == Ends(runs, n)[h - 1] + i
  <2>2. t \in 1..Len(flat) /\ flat[t] = runs[h][i]
    BY <1>4, <2>1 DEF OneAfterOther
  <2> HIDE DEF t, flat, lp, free
  <2>3. t \in DOMAIN ((flat \o lp) \o free) /\ ((flat \o lp) \o free)[t] = flat[t]
    BY <1>5, <1>6, <2>2
  <2> QED BY <1>7, <2>1, <2>2, <2>3
<1> HIDE DEF flat, lp, free
<1>9. Items(p, P) \in Seq(ItemSet)
  BY <1>5, <1>6, <1>7
<1> QED BY <1>8, <1>9


\* Placing an item changes the loads and gives the item an owner.
Loads(items, P) == [all : [0..(P - 1) -> Int], batch : [0..(P - 1) -> Int],
                    owner : [DOMAIN items -> 0..(P - 1)]]
LEMMA PlaceInRange ==
  ASSUME NEW items \in Seq(ItemSet), NEW P \in Nat \ {0},
         NEW loads \in Loads(items, P), NEW i \in DOMAIN items
  PROVE  Place(items, loads, i) \in Loads(items, P)
<1> DEFINE batch == items[i].kind = "batch"
           q == LeastLoaded(loads, batch)
           cost == items[i].cost
           Q == 0..(P - 1)
           D == DOMAIN items
<1>1. items[i] \in ItemSet
  OBVIOUS
<1>2. cost \in Int
  BY <1>1 DEF ItemSet
<1>3. loads.all \in [Q -> Int] /\ loads.batch \in [Q -> Int] /\ loads.owner \in [D -> Q]
  BY DEF Loads
<1>4. q \in Q
  <2>1. batch \in BOOLEAN
    OBVIOUS
  <2>2. DOMAIN loads.all = 0..(P - 1) /\ \A r \in 0..(P - 1) : loads.all[r] \in Int /\ loads.batch[r] \in Int
    BY <1>3
  <2> HIDE DEF batch
  <2> QED BY <2>1, <2>2, LeastLoadedIs
<1>5. Place(items, loads, i) = [all |-> [loads.all EXCEPT ![q] = @ + cost],
                                batch |-> IF batch THEN [loads.batch EXCEPT ![q] = @ + cost]
                                          ELSE loads.batch,
                                owner |-> [loads.owner EXCEPT ![i] = q]]
  BY Zenon DEF Place
<1>6. i \in D
  OBVIOUS
<1> HIDE DEF batch, q, cost, Q, D
<1>7. [loads.all EXCEPT ![q] = @ + cost] \in [Q -> Int]
  BY <1>2, <1>3, <1>4
<1>8. [loads.batch EXCEPT ![q] = @ + cost] \in [Q -> Int]
  BY <1>2, <1>3, <1>4
<1>9. [loads.owner EXCEPT ![i] = q] \in [D -> Q]
  BY <1>3, <1>4, <1>6
<1>10. Place(items, loads, i) \in [all : [Q -> Int], batch : [Q -> Int], owner : [D -> Q]]
  BY <1>3, <1>5, <1>7, <1>8, <1>9
<1> QED BY <1>10 DEF Loads, Q, D

LEMMA OrderListsItems ==
  ASSUME NEW items \in Seq(ItemSet), NEW batches
  PROVE  Order(items, batches) \in Seq(DOMAIN items)
<1> DEFINE D == DOMAIN items
           mine == {i \in D : (items[i].kind = "batch") = batches}
           before == {q \in mine \X mine :
                        \/ items[q[1]].cost > items[q[2]].cost
                        \/ items[q[1]].cost = items[q[2]].cost /\ q[1] < q[2]}
           cost == [i \in D |-> items[i].cost]
<1>1. D = 1..Len(items) /\ Len(items) \in Nat
  OBVIOUS
<1>2. \A i \in D : cost[i] \in Int /\ i \in Int
  <2> TAKE i \in D
  <2>1. items[i] \in ItemSet
    OBVIOUS
  <2>2. items[i].cost \in Int
    BY <2>1 DEF ItemSet
  <2> QED BY <1>1, <2>2
<1>3. IsFiniteSet(mine) /\ mine \subseteq D
  <2>1. IsFiniteSet(D)
    BY <1>1, FS_Interval
  <2> QED BY <2>1, FS_Subset
<1>4. \A x, y \in mine :
        <<x, y>> \in before <=> (cost[x] > cost[y] \/ (cost[x] = cost[y] /\ x < y))
  <2> TAKE x, y \in mine
  <2>1. cost[x] = items[x].cost /\ cost[y] = items[y].cost
    BY <1>3
  <2>2. <<x, y>> \in before
          <=> (items[x].cost > items[y].cost \/ (items[x].cost = items[y].cost /\ x < y))
    OBVIOUS
  <2> QED BY <2>1, <2>2
<1>5. Order(items, batches) = Sorted(mine, before)
  BY DEF Order
<1> HIDE DEF D, mine, before, cost
<1>6. \A x \in mine : <<x, x>> \notin before
  BY <1>2, <1>3, <1>4
<1>7. \A x, y, z \in mine : <<x, y>> \in before /\ <<y, z>> \in before => <<x, z>> \in before
  <2> TAKE x, y, z \in mine
  <2>1. /\ cost[x] \in Int /\ cost[y] \in Int /\ cost[z] \in Int
        /\ x \in Int /\ y \in Int /\ z \in Int
    BY <1>2, <1>3
  <2> QED BY <1>4, <2>1
<1>8. \A x, y \in mine : x # y => <<x, y>> \in before \/ <<y, x>> \in before
  <2> TAKE x, y \in mine
  <2>1. cost[x] \in Int /\ cost[y] \in Int /\ x \in Int /\ y \in Int
    BY <1>2, <1>3
  <2> QED BY <1>4, <2>1
<1>9. Cardinality(mine) \in Nat /\ Sorted(mine, before) \in [1..Cardinality(mine) -> mine]
  BY <1>3, <1>6, <1>7, <1>8, SortedSequence
<1> QED BY <1>3, <1>5, <1>9 DEF D

LEMMA PlacedInRange ==
  ASSUME NEW p, IsFiniteSet(DOMAIN p.L), NEW P \in Nat \ {0}
  PROVE  Placed(p, P) \in [DOMAIN Items(p, P) -> 0..(P - 1)]
<1> DEFINE items == Items(p, P)
           V == Loads(items, P)
           none == [q \in 0..(P - 1) |-> 0]
           start == [all |-> none, batch |-> none, owner |-> [i \in DOMAIN items |-> 0]]
           seq == Order(items, FALSE) \o Order(items, TRUE)
           S == DOMAIN seq
           Def(h) == [s \in SUBSET S |->
                        IF s = {} THEN start ELSE Place(items, h[s \ {Max(s)}], seq[Max(s)])]
           it == CHOOSE h : h = Def(h)
           c == [s \in SUBSET S |-> Max(s)]
           step == [q \in (SUBSET S) \X V |->
                      IF q[1] = {} THEN start ELSE Place(items, q[2], seq[Max(q[1])])]
<1>1. items \in Seq(ItemSet)
  BY ItemsListed
<1>2. Placed(p, P) = it[S].owner
  BY DEF Placed, FoldLeft, MapThenFoldSet
<1> HIDE DEF items
<1>3. start \in V
  <2>1. 0 \in 0..(P - 1)
    OBVIOUS
  <2>2. none \in [0..(P - 1) -> Int] /\ [i \in DOMAIN items |-> 0] \in [DOMAIN items -> 0..(P - 1)]
    BY <2>1
  <2> HIDE DEF none
  <2> QED BY <2>2 DEF Loads
<1>4. Order(items, FALSE) \in Seq(DOMAIN items) /\ Order(items, TRUE) \in Seq(DOMAIN items)
  BY <1>1, OrderListsItems
<1>5. seq \in Seq(DOMAIN items)
  <2> DEFINE D == DOMAIN items
             a == Order(items, FALSE)
             b == Order(items, TRUE)
  <2>1. a \in Seq(D) /\ b \in Seq(D)
    BY <1>4
  <2> HIDE DEF D, a, b
  <2>2. a \o b \in Seq(D)
    BY <2>1
  <2> QED BY <2>2 DEF D, a, b
<1> HIDE DEF V, start, seq
<1>6. S \in SUBSET Int /\ IsFiniteSet(S) /\ \A x \in S : seq[x] \in DOMAIN items
  <2>1. S = 1..Len(seq) /\ Len(seq) \in Nat
    BY <1>5
  <2>2. IsFiniteSet(S)
    BY <2>1, FS_Interval
  <2> QED BY <1>5, <2>1, <2>2
<1> HIDE DEF S
<1>7. \A s \in SUBSET S : s # {} => Max(s) \in s /\ seq[Max(s)] \in DOMAIN items
  <2> TAKE s \in SUBSET S
  <2> HAVE s # {}
  <2>1. s \in SUBSET Int /\ IsFiniteSet(s)
    BY <1>6, FS_Subset
  <2>2. Max(s) \in s
    BY <2>1, MaxIsIn
  <2> QED BY <1>6, <2>2
<1>8. step \in [(SUBSET S) \X V -> V]
  <2>1. ASSUME NEW q \in (SUBSET S) \X V
        PROVE  (IF q[1] = {} THEN start ELSE Place(items, q[2], seq[Max(q[1])])) \in V
    <3>1. q[1] \in SUBSET S /\ q[2] \in V
      OBVIOUS
    <3>2. CASE q[1] = {}
      BY <1>3, <3>2
    <3>3. CASE q[1] # {}
      <4>1. seq[Max(q[1])] \in DOMAIN items
        BY <1>7, <3>1, <3>3
      <4>2. Place(items, q[2], seq[Max(q[1])]) \in V
        BY <1>1, <3>1, <4>1, PlaceInRange DEF V
      <4> QED BY <3>3, <4>2
    <3> QED BY <3>2, <3>3
  <2> QED BY <2>1
<1>9. \A s \in SUBSET S : s # {} => c[s] \in s
  BY <1>7
<1>10. PICK g \in [SUBSET S -> V] : FoldsUp(g, step, start, c, SUBSET S)
  <2> HIDE DEF step, c
  <2> QED BY <1>3, <1>6, <1>8, <1>9, FoldExists
<1>11. g = Def(g)
  <2>1. ASSUME NEW s \in SUBSET S PROVE g[s] = Def(g)[s]
    <3>1. g[s] = IF s = {} THEN start ELSE step[<<s, g[s \ {c[s]}]>>]
      BY <1>10 DEF FoldsUp
    <3>2. CASE s = {}
      BY <3>1, <3>2
    <3>3. CASE s # {}
      <4>1. c[s] = Max(s) /\ s \ {Max(s)} \in SUBSET S
        OBVIOUS
      <4>2. <<s, g[s \ {Max(s)}]>> \in (SUBSET S) \X V
        BY <4>1
      <4>3. step[<<s, g[s \ {Max(s)}]>>] = Place(items, g[s \ {Max(s)}], seq[Max(s)])
        BY <3>3, <4>2
      <4> HIDE DEF step, c
      <4> QED BY <3>1, <3>3, <4>1, <4>3
    <3> QED BY <3>2, <3>3
  <2> QED BY <2>1
<1>12. it = Def(it)
  BY <1>11
<1> HIDE DEF it
<1> DEFINE C == {s \in SUBSET S : it[s] \in V}
<1>13. {} \in C
  BY <1>3, <1>12
<1>14. \A s \in SUBSET S : s # {} /\ (\A x \in s : s \ {x} \in C) => s \in C
  <2> TAKE s \in SUBSET S
  <2> HAVE s # {} /\ (\A x \in s : s \ {x} \in C)
  <2>1. Max(s) \in s /\ seq[Max(s)] \in DOMAIN items
    BY <1>7
  <2>2. it[s \ {Max(s)}] \in V
    BY <2>1
  <2>3. it[s] = Place(items, it[s \ {Max(s)}], seq[Max(s)])
    BY <1>12
  <2>4. it[s] \in V
    BY <1>1, <2>1, <2>2, <2>3, PlaceInRange DEF V
  <2> QED BY <2>4
<1>15. SUBSET S \subseteq C
  <2> HIDE DEF C
  <2> QED BY <1>6, <1>13, <1>14, SubsetInduction
<1>16. it[S] \in V
  BY <1>15
<1> QED BY <1>2, <1>16 DEF V, Loads, items


LEMMA OwnersInRange ==
  ASSUME NEW p, IsFiniteSet(DOMAIN p.L), NEW P \in Nat \ {0}
  PROVE  LET assigned == compute_cone_assignment(p, P)
         IN  /\ \A k \in Cones : assigned.blk[k] \in 0..(P - 1)
             /\ assigned.lp \in 0..(P - 1)
             /\ assigned.free \in 0..(P - 1)
<1> DEFINE items == Items(p, P)
           owner == Placed(p, P)
           of(kind) == {owner[i] : i \in {i \in DOMAIN items : items[i].kind = kind}}
           sole(S) == IF S = {} THEN 0 ELSE CHOOSE q \in S : TRUE
           assigned == compute_cone_assignment(p, P)
<1>1. 0 \in 0..(P - 1)
  OBVIOUS
<1>2. assigned = IF P <= 1 THEN [blk |-> [k \in Cones |-> 0], lp |-> 0, free |-> 0]
                 ELSE [blk |-> [k \in Cones |->
                                  owner[CHOOSE i \in DOMAIN items : k \in items[i].blks]],
                       lp |-> sole(of("lp")), free |-> sole(of("free"))]
  BY DEF compute_cone_assignment
<1>3. owner \in [DOMAIN items -> 0..(P - 1)]
  BY PlacedInRange
<1>4. \A k \in Cones : (CHOOSE i \in DOMAIN items : k \in items[i].blks) \in DOMAIN items
  BY ItemsListed
<1> HIDE DEF items, owner, assigned
<1>5. \A kind : sole(of(kind)) \in 0..(P - 1)
  <2> TAKE kind
  <2>1. of(kind) \subseteq 0..(P - 1)
    BY <1>3
  <2> HIDE DEF of
  <2> QED BY <1>1, <2>1
<1> HIDE DEF sole, of
<1>6. CASE P <= 1
  BY <1>1, <1>2, <1>6 DEF assigned
<1>7. CASE ~(P <= 1)
  <2>1. \A k \in Cones : assigned.blk[k] \in 0..(P - 1)
    BY <1>2, <1>3, <1>4, <1>7
  <2>2. assigned.lp \in 0..(P - 1) /\ assigned.free \in 0..(P - 1)
    BY <1>2, <1>5, <1>7
  <2> QED BY <2>1, <2>2 DEF assigned
<1> QED BY <1>6, <1>7


\* The cone coordinate a cone and a variable belong to, and the rows a
\* process has.
ConeOwner(k) == compute_cone_assignment(ScaledCopy.problem, Dims(call.grid)[3]).blk[k]
UnitOwner(u) ==
  IF u \in FreeUnits
  THEN compute_cone_assignment(ScaledCopy.problem, Dims(call.grid)[3]).free
  ELSE compute_cone_assignment(ScaledCopy.problem, Dims(call.grid)[3]).lp
VarOwner(v) == IF v \in LinearVars THEN UnitOwner(v[1]) ELSE ConeOwner(v[1][1])
HasRow(p, r) == r \in RowsOf(OwnedBy(p))

LEMMA OwnersOfCall ==
  ASSUME CallInv, ~WrongGrid(call.grid)
  PROVE  LET d == Dims(call.grid)
         IN  /\ \A k \in Cones : ConeOwner(k) \in 0..(d[3] - 1)
             /\ \A v \in Vars : VarOwner(v) \in 0..(d[3] - 1)
<1> DEFINE P == ScaledCopy.problem
           n == Dims(call.grid)[3]
           assigned == compute_cone_assignment(P, n)
<1>1. n \in Nat \ {0}
  BY GridOfCall DEF IsDims
<1>2. IsFiniteSet(DOMAIN P.L)
  BY PermutedIsProblem, ScaledShape, PermutedProblem DEF IsProblem
<1>3. /\ \A k \in Cones : assigned.blk[k] \in 0..(n - 1)
      /\ assigned.lp \in 0..(n - 1) /\ assigned.free \in 0..(n - 1)
  <2> HIDE DEF P, n
  <2> QED BY <1>1, <1>2, OwnersInRange
<1>4. \A k \in Cones : ConeOwner(k) \in 0..(n - 1)
  BY <1>3 DEF ConeOwner
<1>5. \A u : UnitOwner(u) \in 0..(n - 1)
  BY <1>3 DEF UnitOwner
<1>6. \A v \in Vars : VarOwner(v) \in 0..(n - 1)
  <2> TAKE v \in Vars
  <2>1. CASE v \in LinearVars
    BY <1>5, <2>1 DEF VarOwner
  <2>2. CASE v \notin LinearVars
    <3>1. v[1][1] \in Cones
      BY <2>2 DEF Vars, PsdVars, ConeSlots
    <3> QED BY <1>4, <2>2, <3>1 DEF VarOwner
  <2> QED BY <2>1, <2>2
<1> QED BY <1>4, <1>6

LEMMA OwnedVars ==
  ASSUME NEW p \in Procs
  PROVE  /\ \A k \in Cones :
              k \in ToSet(OwnedBy(p).cones) <=> ConeOwner(k) = Coordinates(p)[3]
         /\ \A u \in LpUnits \union FreeUnits :
              u \in OwnedBy(p).units <=> UnitOwner(u) = Coordinates(p)[3]
         /\ \A v \in Vars : Owned(OwnedBy(p), v) <=> VarOwner(v) = Coordinates(p)[3]
<1> DEFINE c == Coordinates(p)[3]
           assigned == compute_cone_assignment(ScaledCopy.problem, Dims(call.grid)[3])
           mine == {k \in Cones : ConeOwner(k) = c}
           cones == OwnedBy(p).cones
           n == Cardinality(mine)
<1>1. cones = Sorted(mine, Increasing(mine))
  BY OwnedShape DEF ConeOwner
<1>2. mine \in SUBSET Int /\ IsFiniteSet(mine)
  <2>1. mine \subseteq Cones /\ Cones \subseteq Int
    BY Dimensions
  <2> HIDE DEF mine
  <2> QED BY <2>1, ConesFinite, FS_Subset
<1>3. \A k \in Cones : k \in mine <=> ConeOwner(k) = c
  OBVIOUS
<1> HIDE DEF mine, cones
<1>4. /\ cones \in [1..n -> mine]
      /\ \A x \in mine : \E i \in 1..n : cones[i] = x
  BY <1>1, <1>2, SortedNumbers
<1>5. ToSet(cones) = mine
  BY <1>4 DEF ToSet
<1>6. \A k \in Cones : k \in ToSet(cones) <=> ConeOwner(k) = c
  BY <1>3, <1>5
<1>7. OwnedBy(p).units = (IF assigned.lp = c THEN LpUnits ELSE {})
                           \union (IF assigned.free = c THEN FreeUnits ELSE {})
  BY DEF OwnedBy, Part
<1>8. \A u \in LpUnits : u \notin FreeUnits
  BY DEF LpUnits, FreeUnits
<1>9. \A u \in LpUnits \union FreeUnits : u \in OwnedBy(p).units <=> UnitOwner(u) = c
  <2> TAKE u \in LpUnits \union FreeUnits
  <2>1. UnitOwner(u) = IF u \in FreeUnits THEN assigned.free ELSE assigned.lp
    BY DEF UnitOwner
  <2> HIDE DEF assigned
  <2>2. CASE u \in FreeUnits
    BY <1>7, <1>8, <2>1, <2>2
  <2>3. CASE u \notin FreeUnits
    BY <1>7, <1>8, <2>1, <2>3
  <2> QED BY <2>2, <2>3
<1>10. \A v \in Vars : Owned(OwnedBy(p), v) <=> VarOwner(v) = c
  <2> TAKE v \in Vars
  <2>1. CASE v \in LinearVars
    <3>1. v[1] \in LpUnits \union FreeUnits
      BY <2>1 DEF LinearVars
    <3> QED BY <1>9, <2>1, <3>1 DEF Owned, VarOwner
  <2>2. CASE v \notin LinearVars
    <3>1. v[1][1] \in Cones
      BY <2>2 DEF Vars, PsdVars, ConeSlots
    <3> QED BY <1>6, <2>2, <3>1 DEF Owned, VarOwner, cones
  <2> QED BY <2>1, <2>2
<1> QED BY <1>6, <1>9, <1>10 DEF cones, c

\* The rows of a grid are divided among its row coordinates.
LEMMA RowsDivided ==
  ASSUME CallInv, ~WrongGrid(call.grid)
  PROVE  /\ \A r \in Rows : \E i \in 0..(Dims(call.grid)[1] - 1) :
              \A p \in Procs : Coordinates(p)[1] = i => HasRow(p, r)
         /\ \A r \in Rows : \A p, q \in Procs :
              HasRow(p, r) /\ HasRow(q, r) => Coordinates(p)[1] = Coordinates(q)[1]
         /\ \A p \in Procs : /\ OwnedBy(p).start \in Nat /\ OwnedBy(p).m \in Nat
                             /\ RowsOf(OwnedBy(p)) \subseteq Rows
<1> DEFINE d == Dims(call.grid)
           P == d[1]
           n == num_constraints
           a == [i \in 0..(P - 1) |-> FirstRow(i)]
           b == [i \in 0..(P - 1) |-> LastRow(i)]
<1>1. P \in Nat \ {0} /\ n \in Nat /\ IsDims(d)
  BY GridOfCall, SizesAssumption DEF IsDims
<1>2. /\ FirstRow(0) = 0
      /\ \A i \in 0..(P - 1) :
           /\ FirstRow(i) \in 0..n /\ LastRow(i) \in 0..n /\ FirstRow(i) <= LastRow(i)
           /\ LastRow(i) = IF i = P - 1 THEN n ELSE FirstRow(i + 1)
      /\ \A p \in Procs : /\ OwnedBy(p).start = FirstRow(Coordinates(p)[1])
                          /\ OwnedBy(p).m = LastRow(Coordinates(p)[1]) - FirstRow(Coordinates(p)[1])
  BY RowsShared
<1>3. \A p \in Procs : Coordinates(p)[1] \in 0..(P - 1)
  BY <1>1, CoordinatesOf DEF Coordinates
<1> HIDE DEF P, n, d
<1>4. a[0] = 0 /\ \A i \in 0..(P - 1) : a[i] = FirstRow(i) /\ b[i] = LastRow(i)
  BY <1>1, <1>2
<1> HIDE DEF a, b
<1>5. \A i \in 0..(P - 1) : /\ a[i] \in 0..n /\ b[i] \in 0..n /\ a[i] <= b[i]
                            /\ b[i] = IF i = P - 1 THEN n ELSE a[i + 1]
  <2> TAKE i \in 0..(P - 1)
  <2>1. a[i] \in 0..n /\ b[i] \in 0..n /\ a[i] <= b[i]
    BY <1>2, <1>4
  <2>2. CASE i = P - 1
    BY <1>2, <1>4, <2>1, <2>2
  <2>3. CASE i # P - 1
    <3>1. i + 1 \in 0..(P - 1)
      BY <1>1, <2>3
    <3> QED BY <1>2, <1>4, <2>1, <2>3, <3>1
  <2> QED BY <2>2, <2>3
<1>6. /\ \A x \in 0..(n - 1) : \E i \in 0..(P - 1) : a[i] <= x /\ x < b[i]
      /\ \A i, j \in 0..(P - 1) : i < j => b[i] <= a[j]
  BY <1>1, <1>4, <1>5, Tiling
<1>7. ASSUME NEW p \in Procs
      PROVE  LET i == Coordinates(p)[1]
             IN  /\ OwnedBy(p).start = a[i] /\ OwnedBy(p).m = b[i] - a[i]
                 /\ a[i] \in 0..n /\ b[i] \in 0..n /\ a[i] <= b[i]
                 /\ RowsOf(OwnedBy(p)) = (a[i] + 1)..b[i]
  <2> DEFINE i == Coordinates(p)[1]
             s == OwnedBy(p).start
             m == OwnedBy(p).m
  <2>1. s = a[i] /\ m = b[i] - a[i]
    BY <1>2, <1>3, <1>4
  <2>2. a[i] \in 0..n /\ b[i] \in 0..n /\ a[i] <= b[i]
    BY <1>3, <1>5
  <2>3. RowsOf(OwnedBy(p)) = (s + 1)..(s + m)
    BY DEF RowsOf
  <2> HIDE DEF s, m, i
  <2>4. s + m = b[i]
    BY <1>1, <2>1, <2>2
  <2> QED BY <2>1, <2>2, <2>3, <2>4 DEF s, m, i
<1>8. Rows = 1..n
  BY DEF Rows, n
<1>9. ASSUME NEW r \in Rows
      PROVE  \E i \in 0..(P - 1) : \A p \in Procs : Coordinates(p)[1] = i => HasRow(p, r)
  <2>1. r - 1 \in 0..(n - 1)
    BY <1>1, <1>8
  <2>2. PICK i \in 0..(P - 1) : a[i] <= r - 1 /\ r - 1 < b[i]
    BY <1>6, <2>1
  <2>3. r \in (a[i] + 1)..b[i]
    BY <1>1, <1>5, <1>8, <2>2
  <2> QED BY <1>7, <2>3 DEF HasRow
<1>10. ASSUME NEW r \in Rows, NEW p \in Procs, NEW q \in Procs, HasRow(p, r), HasRow(q, r)
       PROVE  Coordinates(p)[1] = Coordinates(q)[1]
  <2> DEFINE i == Coordinates(p)[1]
             j == Coordinates(q)[1]
  <2>1. i \in 0..(P - 1) /\ j \in 0..(P - 1)
    BY <1>3
  <2>2. r \in (a[i] + 1)..b[i] /\ r \in (a[j] + 1)..b[j]
    BY <1>7, <1>10 DEF HasRow
  <2>3. a[i] \in 0..n /\ b[i] \in 0..n /\ a[j] \in 0..n /\ b[j] \in 0..n
    BY <1>5, <2>1
  <2> HIDE DEF i, j
  <2>4. ~(i < j) /\ ~(j < i)
    BY <1>1, <1>6, <1>8, <2>1, <2>2, <2>3
  <2> QED BY <1>1, <2>1, <2>4 DEF i, j
<1>11. ASSUME NEW p \in Procs
       PROVE  /\ OwnedBy(p).start \in Nat /\ OwnedBy(p).m \in Nat
              /\ RowsOf(OwnedBy(p)) \subseteq Rows
  BY <1>1, <1>7, <1>8
<1> QED BY <1>9, <1>10, <1>11 DEF P, d


\* The local columns are owned, and have every variable of an own row.
LEMMA LocalColumnsOwned ==
  ASSUME CallInv, NEW p \in Procs
  PROVE  /\ DOMAIN PartOf(p).cols = 1..Len(PartOf(p).cols)
         /\ \A i \in DOMAIN PartOf(p).cols :
              PartOf(p).cols[i] \in Vars /\ Owned(OwnedBy(p), PartOf(p).cols[i])
         /\ \A i, j \in DOMAIN PartOf(p).cols : PartOf(p).cols[i] = PartOf(p).cols[j] => i = j
         /\ \A e \in DOMAIN Permuted.A :
              HasRow(p, e[1]) /\ Owned(OwnedBy(p), e[2])
                => \E i \in DOMAIN PartOf(p).cols : PartOf(p).cols[i] = e[2]
<1> DEFINE P == ScaledCopy.problem
           own == OwnedBy(p)
           vs == {v \in ActiveVars(P) : Kept(P, own, v)}
           cols == PartOf(p).cols
           w == <<<<own.cones[1], 1>>, <<own.cones[1], 1>>>>
<1>1. cols = IF ByPosition(vs) = <<>> /\ own.cones # <<>> THEN <<w>> ELSE ByPosition(vs)
  BY DEF PartOf, partition_problem, LocalColumns
<1>2. vs \subseteq Vars /\ \A v \in vs : Owned(own, v)
  BY ScaledColumns DEF Kept
<1>3. ASSUME NEW e \in DOMAIN Permuted.A, HasRow(p, e[1]), Owned(own, e[2])
      PROVE  e[2] \in vs
  <2>1. e \in DOMAIN P.A
    BY ScaledShape
  <2>2. e[2] \in PsdVars \union LinearVars
    BY PermutedIsProblem DEF IsProblem, Vars
  <2>3. e[2] \in ActiveVars(P)
    BY <2>1, <2>2 DEF ActiveVars
  <2>4. Kept(P, own, e[2])
    BY <1>3, <2>1 DEF Kept, HasRow
  <2> QED BY <2>3, <2>4
<1>4. /\ Cardinality(vs) \in Nat
      /\ ByPosition(vs) \in [1..Cardinality(vs) -> vs]
      /\ Len(ByPosition(vs)) = Cardinality(vs)
      /\ \A v \in vs : \E i \in 1..Cardinality(vs) : ByPosition(vs)[i] = v
      /\ \A i, j \in 1..Cardinality(vs) : ByPosition(vs)[i] = ByPosition(vs)[j] => i = j
  <2> HIDE DEF vs
  <2> QED BY <1>2, Positions
<1>5. /\ Len(cols) \in Nat /\ cols \in [1..Len(cols) -> Vars]
  BY ColumnsListed
<1>6. DOMAIN cols = 1..Len(cols)
  BY <1>5
<1>7. own.cones \in [1..Len(own.cones) -> Cones] /\ Len(own.cones) \in Nat
  <2>1. /\ Len(own.cones) \in Nat /\ DOMAIN own.cones = 1..Len(own.cones)
        /\ \A l \in DOMAIN own.cones : own.cones[l] \in Cones
        /\ own.cones = LET mine == {c \in Cones :
                compute_cone_assignment(P, Dims(call.grid)[3]).blk[c] = Coordinates(p)[3]}
              IN  Sorted(mine, Increasing(mine))
    BY OwnedShape
  <2>2. own.cones = [i \in DOMAIN own.cones |-> own.cones[i]]
    BY <2>1, Zenon DEF Sorted
  <2> HIDE DEF own
  <2> QED BY <2>1, <2>2
<1> HIDE DEF vs, own, cols
<1>8. CASE ByPosition(vs) = <<>> /\ own.cones # <<>>
  <2>1. cols = <<w>> /\ w \notin LinearVars /\ Len(own.cones) # 0
    BY <1>1, <1>7, <1>8 DEF LinearVars
  <2>2. own.cones[1] \in ToSet(own.cones)
    BY <1>7, <2>1 DEF ToSet
  <2>3. w[1][1] = own.cones[1]
    OBVIOUS
  <2>4. Owned(own, w)
    BY <2>1, <2>2, <2>3 DEF Owned
  <2>5. vs = {}
    BY <1>4, <1>8
  <2> HIDE DEF w
  <2>6. \A i \in DOMAIN cols : i = 1 /\ cols[i] = w
    BY <2>1
  <2> QED BY <1>3, <1>5, <1>6, <2>4, <2>5, <2>6 DEF cols, own
<1>9. CASE ~(ByPosition(vs) = <<>> /\ own.cones # <<>>)
  <2>1. cols = ByPosition(vs)
    BY <1>1, <1>9
  <2>2. \A i \in DOMAIN cols : cols[i] \in Vars /\ Owned(own, cols[i])
    BY <1>2, <1>4, <2>1
  <2>3. \A v \in vs : \E i \in DOMAIN cols : cols[i] = v
    BY <1>4, <2>1
  <2>4. \A i, j \in DOMAIN cols : cols[i] = cols[j] => i = j
    BY <1>4, <2>1
  <2> QED BY <1>3, <1>6, <2>2, <2>3, <2>4 DEF cols, own
<1> QED BY <1>8, <1>9

\* All processes are past the partition and before the solver.
Ready == IInv /\ At(Procs, "solve")
LEMMA ReadyShape ==
  ASSUME Ready, NEW p \in Procs
  PROVE  /\ CallInv /\ ~WrongGrid(call.grid)
         /\ my_row(p) = Coordinates(p)[1] /\ my_rank(p) = Coordinates(p)[2]
         /\ my_cone(p) = Coordinates(p)[3]
         /\ Comm(row_color, p) = {q \in Procs : /\ Coordinates(q)[2] = Coordinates(p)[2]
                                                /\ Coordinates(q)[3] = Coordinates(p)[3]}
         /\ perm[p] = call.order
         /\ local[p].start = OwnedBy(p).start
         /\ local[p].info = Whole(p).info
         /\ local[p].part.m = OwnedBy(p).m
         /\ local[p].part.cones = OwnedBy(p).cones
         /\ local[p].part.units = OwnedBy(p).units
         /\ local[p].part.cols = PartOf(p).cols
         /\ local[p].part.A = PartOf(p).A
         /\ local[p].part.b = PartOf(p).b
         /\ local[p].part.L = PartOf(p).L
         /\ local[p].part.c = IF Coordinates(p)[1] = 0 THEN PartOf(p).c ELSE <<>>
<1>1. CallInv /\ GridInv /\ LocalInv /\ CopyInv
  BY DEF Ready, IInv
<1>2. \A q \in Procs : pc[q] = "solve"
  BY DEF Ready, At
<1>3. \A q \in Procs : /\ pc[q] \notin Unplaced /\ pc[q] \in Taken /\ pc[q] \notin Preparing
                       /\ pc[q] \notin Copying
  BY <1>2 DEF Unplaced, Taken, Preparing, Solved, Returned, Copying
<1>4. /\ ~WrongGrid(call.grid)
      /\ my_row(p) = Coordinates(p)[1] /\ my_rank(p) = Coordinates(p)[2]
      /\ my_cone(p) = Coordinates(p)[3]
  BY <1>1, <1>3, PlacedAt
<1>5. Comm(row_color, p) = {q \in Procs : /\ Coordinates(q)[2] = Coordinates(p)[2]
                                          /\ Coordinates(q)[3] = Coordinates(p)[3]}
  BY <1>1, <1>3, SameLine
<1>6. perm[p] = call.order
  BY <1>1, <1>3 DEF CopyInv
<1>7. /\ local[p].start = OwnedBy(p).start
      /\ local[p].info = Whole(p).info
      /\ \A f \in {"m", "cones", "units", "cols", "free_start", "lp_start", "A", "b", "L"} :
           local[p].part[f] = PartOf(p)[f]
      /\ local[p].part.c = IF pc[p] \in Preparing \/ Coordinates(p)[1] = 0 THEN PartOf(p).c
                           ELSE <<>>
  BY <1>1, <1>3, LocalFields
<1>8. /\ local[p].part.m = PartOf(p).m /\ local[p].part.cones = PartOf(p).cones
      /\ local[p].part.units = PartOf(p).units /\ local[p].part.cols = PartOf(p).cols
      /\ local[p].part.A = PartOf(p).A /\ local[p].part.b = PartOf(p).b
      /\ local[p].part.L = PartOf(p).L
  BY <1>7
<1>9. /\ PartOf(p).m = OwnedBy(p).m /\ PartOf(p).cones = OwnedBy(p).cones
      /\ PartOf(p).units = OwnedBy(p).units
  BY DEF PartOf, partition_problem
<1>10. local[p].part.c = IF Coordinates(p)[1] = 0 THEN PartOf(p).c ELSE <<>>
  BY <1>3, <1>7
<1> QED BY <1>1, <1>4, <1>5, <1>6, <1>7, <1>8, <1>9, <1>10


\* The factor a process takes for an own variable is that of its copy.
LEMMA FactorsFound ==
  ASSUME Ready, NEW p \in Procs
  PROVE  /\ \A k \in Cones : k \in ToSet(OwnedBy(p).cones) =>
              \A s \in ConeSlots(k) : UnitFactor(p, s) = ScaledCopy.info.unit[s]
         /\ \A v \in Vars : Owned(OwnedBy(p), v) =>
              VarFactorAt(p, v) = VarFactor(ScaledCopy.info.unit, v)
         /\ \A r \in 1..OwnedBy(p).m :
              local[p].info.row[r] = ScaledCopy.info.row[r + OwnedBy(p).start]
         /\ local[p].info.tau_b = ScaledCopy.info.tau_b
         /\ local[p].info.tau_c = ScaledCopy.info.tau_c
<1> DEFINE own == OwnedBy(p)
           part == local[p].part
           info == local[p].info
           unit == ScaledCopy.info.unit
<1>1. CallInv /\ part.cones = own.cones /\ part.units = own.units /\ info = Whole(p).info
  BY ReadyShape
<1>2. info = partition_rescale_info(ScaledCopy.info, own)
  BY <1>1 DEF Whole
<1>3. /\ \A r \in 1..own.m : info.row[r] = ScaledCopy.info.row[r + own.start]
      /\ \A u \in own.units : info.unit[u] = unit[u]
      /\ info.tau_b = ScaledCopy.info.tau_b /\ info.tau_c = ScaledCopy.info.tau_c
  BY <1>2 DEF partition_rescale_info
<1>4. \A l : FirstSlot(part, l) = FirstSlot(own, l)
  BY <1>1 DEF FirstSlot
<1>5. unit = Reference.unit
  BY <1>1, SameScales
<1>6. \A l \in DOMAIN own.cones : \A r \in 1..blk_dims[own.cones[l]] :
        info.psd[FirstSlot(own, l) + r] = unit[<<own.cones[l], r>>]
  BY <1>1, <1>5, FactorOfSlot
<1>7. ASSUME NEW k \in Cones, k \in ToSet(own.cones), NEW s \in ConeSlots(k)
      PROVE  UnitFactor(p, s) = unit[s]
  <2> DEFINE l == CHOOSE l \in DOMAIN part.cones : part.cones[l] = s[1]
  <2>1. PICK r \in 1..blk_dims[k] : s = <<k, r>>
    BY DEF ConeSlots
  <2>2. \E h \in DOMAIN own.cones : own.cones[h] = k
    BY <1>7 DEF ToSet
  <2>3. l \in DOMAIN own.cones /\ own.cones[l] = k
    BY <1>1, <2>1, <2>2
  <2>4. s \in Slots
    BY DEF Slots
  <2>5. UnitFactor(p, s) = info.psd[FirstSlot(part, l) + s[2]]
    BY <2>4, Zenon DEF UnitFactor
  <2> HIDE DEF l, part, own, info
  <2>6. info.psd[FirstSlot(own, l) + r] = unit[<<own.cones[l], r>>]
    BY <1>6, <2>3
  <2> QED BY <1>4, <2>1, <2>3, <2>5, <2>6
<1>8. ASSUME NEW u \in LpUnits \union FreeUnits, u \in own.units
      PROVE  UnitFactor(p, u) = unit[u]
  <2>1. u \notin Slots
    BY Dimensions DEF Slots, ConeSlots, LpUnits, FreeUnits
  <2>2. UnitFactor(p, u) = info.unit[u]
    BY <2>1, Zenon DEF UnitFactor
  <2> QED BY <1>3, <1>8, <2>2
<1>9. ASSUME NEW v \in Vars, Owned(own, v)
      PROVE  VarFactorAt(p, v) = VarFactor(unit, v)
  <2>1. CASE v \in LinearVars
    <3>1. PICK u \in LpUnits \union FreeUnits : v = <<u>>
      BY <2>1 DEF LinearVars
    <3>2. u \in own.units
      BY <1>9, <2>1, <3>1 DEF Owned
    <3>3. UnitFactor(p, u) = unit[u]
      BY <1>8, <3>2
    <3>4. Len(v) = 1 /\ v[1] = u
      BY <3>1
    <3> HIDE DEF unit
    <3> QED BY <3>3, <3>4 DEF VarFactorAt, VarFactor
  <2>2. CASE v \notin LinearVars
    <3>1. PICK k \in Cones : v \in ConeSlots(k) \X ConeSlots(k)
      BY <2>2 DEF Vars, PsdVars
    <3>2. v[1][1] = k
      BY <3>1 DEF ConeSlots
    <3>3. k \in ToSet(own.cones)
      BY <1>9, <2>2, <3>2 DEF Owned
    <3>4. Len(v) = 2 /\ v[1] \in ConeSlots(k) /\ v[2] \in ConeSlots(k)
      BY <3>1
    <3>5. UnitFactor(p, v[1]) = unit[v[1]] /\ UnitFactor(p, v[2]) = unit[v[2]]
      BY <1>7, <3>3, <3>4
    <3> HIDE DEF unit
    <3> QED BY <3>4, <3>5 DEF VarFactorAt, VarFactor
  <2> QED BY <2>1, <2>2
<1> QED BY <1>3, <1>7, <1>9 DEF own, info, unit

\* What a process holds of the constraint matrix, in the caller's terms.
LEMMA EntriesOf ==
  ASSUME Ready, NEW p \in Procs
  PROVE  HeldEntries(p) =
           {<<"A", e[1], e[2], Caller.A[e]>> : e \in
             {e \in DOMAIN Caller.A : /\ HasRow(p, NewRow(call.order, e[1]))
                                      /\ VarOwner(e[2]) = Coordinates(p)[3]}}
<1> DEFINE P == ScaledCopy.problem
           own == OwnedBy(p)
           cols == PartOf(p).cols
           A == PartOf(p).A
           row == ScaledCopy.info.row
           unit == ScaledCopy.info.unit
           D == {e \in DOMAIN Caller.A : /\ HasRow(p, NewRow(call.order, e[1]))
                                         /\ VarOwner(e[2]) = Coordinates(p)[3]}
           global(q) == <<q[1] + own.start, cols[q[2]]>>
           datum(q) == <<"A", CallersRowAt(p, q[1]), cols[q[2]],
                         A[q] + local[p].info.row[q[1]] + VarFactorAt(p, cols[q[2]])>>
<1>1. /\ CallInv /\ ~WrongGrid(call.grid) /\ perm[p] = call.order
      /\ local[p].start = own.start /\ local[p].part.A = A /\ local[p].part.cols = cols
  BY ReadyShape
<1>2. HeldEntries(p) = {datum(q) : q \in DOMAIN A}
  BY <1>1 DEF HeldEntries
<1>3. own.start \in Nat /\ own.m \in Nat /\ RowsOf(own) = (own.start + 1)..(own.start + own.m)
      /\ RowsOf(own) \subseteq Rows
  BY <1>1, RowsDivided DEF RowsOf
<1>4. /\ DOMAIN A = {q \in (1..own.m) \X DOMAIN cols :
                       global(q) \in DOMAIN P.A /\ global(q)[1] \in RowsOf(own)
                         /\ global(q)[2] \in ToSet(cols)}
      /\ \A q \in DOMAIN A : A[q] = P.A[global(q)]
  BY DEF PartOf, partition_problem
<1>5. /\ DOMAIN P.A = DOMAIN Permuted.A
      /\ \A e \in DOMAIN Permuted.A : P.A[e] + row[e[1]] + VarFactor(unit, e[2]) = Permuted.A[e]
  BY <1>1, ScaledShape, ScaledBack
<1>6. /\ \A i \in DOMAIN cols : cols[i] \in Vars /\ Owned(own, cols[i])
      /\ \A e \in DOMAIN Permuted.A :
           HasRow(p, e[1]) /\ Owned(own, e[2]) => \E i \in DOMAIN cols : cols[i] = e[2]
  BY <1>1, LocalColumnsOwned
<1>7. /\ \A v \in Vars : Owned(own, v) <=> VarOwner(v) = Coordinates(p)[3]
      /\ \A v \in Vars : Owned(own, v) => VarFactorAt(p, v) = VarFactor(unit, v)
      /\ \A r \in 1..own.m : local[p].info.row[r] = row[r + own.start]
  BY OwnedVars, FactorsFound
<1> HIDE DEF P, own, cols, A, row, unit
<1>8. \A q \in DOMAIN A : CallersRowAt(p, q[1]) = CallersRow(call.order, q[1] + own.start)
  BY <1>1 DEF CallersRowAt
<1>9. ASSUME NEW q \in DOMAIN A
      PROVE  LET d == global(q)
                 e == <<CallersRow(call.order, d[1]), d[2]>>
             IN  e \in D /\ datum(q) = <<"A", e[1], e[2], Caller.A[e]>>
  <2> DEFINE d == global(q)
             e == <<CallersRow(call.order, d[1]), d[2]>>
  <2>1. /\ q[1] \in 1..own.m /\ q[2] \in DOMAIN cols /\ d \in DOMAIN Permuted.A
        /\ d[1] = q[1] + own.start /\ d[2] = cols[q[2]] /\ d[1] \in RowsOf(own)
        /\ A[q] = P.A[d]
    BY <1>4, <1>5
  <2> HIDE DEF d
  <2>2. e \in DOMAIN Caller.A /\ Permuted.A[d] = Caller.A[e] /\ d[1] \in Rows
    BY <1>1, <2>1, EntriesMoved
  <2>3. NewRow(call.order, e[1]) = d[1]
    BY <1>1, <2>2, CallersOrder, NewRowInverts
  <2>4. d[2] \in Vars /\ Owned(own, d[2])
    BY <1>6, <2>1
  <2>5. VarOwner(e[2]) = Coordinates(p)[3]
    BY <1>7, <2>4
  <2>6. HasRow(p, NewRow(call.order, e[1]))
    BY <2>1, <2>3 DEF HasRow, own
  <2>7. e \in D
    BY <2>2, <2>5, <2>6
  <2>8. A[q] + local[p].info.row[q[1]] + VarFactorAt(p, cols[q[2]]) = Caller.A[e]
    <3>1. local[p].info.row[q[1]] = row[d[1]] /\ VarFactorAt(p, cols[q[2]]) = VarFactor(unit, d[2])
      BY <1>7, <2>1, <2>4
    <3>2. P.A[d] + row[d[1]] + VarFactor(unit, d[2]) = Caller.A[e]
      BY <1>5, <2>1, <2>2
    <3> QED BY <2>1, <3>1, <3>2
  <2>9. datum(q) = <<"A", e[1], e[2], Caller.A[e]>>
    BY <1>8, <2>1, <2>8
  <2> QED BY <2>7, <2>9 DEF d
<1>10. ASSUME NEW e \in D
       PROVE  \E q \in DOMAIN A : global(q) = <<NewRow(call.order, e[1]), e[2]>>
  <2> DEFINE d == <<NewRow(call.order, e[1]), e[2]>>
  <2>1. e \in DOMAIN Caller.A /\ d \in DOMAIN Permuted.A /\ e[1] \in Rows
    BY <1>1, EntriesMoved
  <2>2. d[1] \in RowsOf(own) /\ HasRow(p, d[1])
    BY DEF HasRow, own
  <2>3. e[2] \in Vars
    BY <1>1, <2>1, PermutedIsProblem DEF IsProblem
  <2>4. Owned(own, d[2])
    BY <1>7, <2>3
  <2>5. PICK i \in DOMAIN cols : cols[i] = d[2]
    BY <1>6, <2>1, <2>2, <2>4
  <2> DEFINE r == d[1] - own.start
             q == <<r, i>>
  <2>6. r \in 1..own.m /\ r + own.start = d[1]
    BY <1>3, <2>2
  <2> HIDE DEF r
  <2>7. global(q) = d /\ q \in (1..own.m) \X DOMAIN cols
    BY <2>5, <2>6
  <2>8. d[2] \in ToSet(cols)
    BY <2>5 DEF ToSet
  <2>9. q \in DOMAIN A
    BY <1>4, <1>5, <2>1, <2>2, <2>7, <2>8
  <2> QED BY <2>7, <2>9
<1>11. ASSUME NEW e \in D, NEW q \in DOMAIN A, global(q) = <<NewRow(call.order, e[1]), e[2]>>
       PROVE  datum(q) = <<"A", e[1], e[2], Caller.A[e]>>
  <2>1. e \in DOMAIN Caller.A /\ e[1] \in Rows /\ e = <<e[1], e[2]>>
    <3>1. Transmissible(Caller)
      BY <1>1, PermutedProblem
    <3> QED BY <3>1 DEF Transmissible
  <2>2. CallersRow(call.order, NewRow(call.order, e[1])) = e[1]
    BY <1>1, <2>1, CallersOrder, NewRowInverts
  <2>3. <<CallersRow(call.order, global(q)[1]), global(q)[2]>> = e
    BY <1>11, <2>1, <2>2
  <2> QED BY <1>9, <2>3
<1> DEFINE name(e) == <<"A", e[1], e[2], Caller.A[e]>>
<1>12. \A q \in DOMAIN A : \E e \in D : datum(q) = name(e)
  BY <1>9
<1>13. \A e \in D : \E q \in DOMAIN A : datum(q) = name(e)
  BY <1>10, <1>11
<1>14. HeldEntries(p) = {name(e) : e \in D}
  <2> HIDE DEF datum, name, D
  <2> QED BY <1>2, <1>12, <1>13
<1> QED BY <1>14


\* Likewise its right-hand sides, objective and low-rank columns.
LEMMA RightSidesOf ==
  ASSUME Ready, NEW p \in Procs
  PROVE  HeldRhs(p) = {<<"b", r, Caller.b[r]>> : r \in
                         {r \in Rows : HasRow(p, NewRow(call.order, r))}}
<1> DEFINE P == ScaledCopy.problem
           own == OwnedBy(p)
           b == PartOf(p).b
           row == ScaledCopy.info.row
           tau == ScaledCopy.info.tau_b
           D == {r \in Rows : HasRow(p, NewRow(call.order, r))}
           I == 1..own.m
           datum(r) == <<"b", CallersRowAt(p, r),
                         b[r] + local[p].info.row[r] - local[p].info.tau_b>>
           name(r) == <<"b", r, Caller.b[r]>>
<1>1. /\ CallInv /\ ~WrongGrid(call.grid) /\ perm[p] = call.order
      /\ local[p].start = own.start /\ local[p].part.b = b /\ local[p].part.m = own.m
  BY ReadyShape
<1>2. HeldRhs(p) = {datum(r) : r \in I}
  BY <1>1 DEF HeldRhs
<1>3. own.start \in Nat /\ own.m \in Nat /\ RowsOf(own) = (own.start + 1)..(own.start + own.m)
      /\ RowsOf(own) \subseteq Rows
  BY <1>1, RowsDivided DEF RowsOf
<1>4. \A r \in I : b[r] = P.b[r + own.start]
  BY DEF PartOf, partition_problem
<1>5. \A r \in Rows : P.b[r] + row[r] - tau = Permuted.b[r]
                      /\ Permuted.b[r] = Caller.b[CallersRow(call.order, r)]
  BY <1>1, ScaledBack, PermutedProblem
<1>6. /\ \A r \in I : local[p].info.row[r] = row[r + own.start]
      /\ local[p].info.tau_b = tau
  BY FactorsFound
<1> HIDE DEF P, b, row, tau
<1>7. ASSUME NEW r \in I
      PROVE  LET d == r + own.start
             IN  d \in RowsOf(own) /\ datum(r) = name(CallersRow(call.order, d))
  <2> DEFINE d == r + own.start
  <2>1. d \in RowsOf(own)
    BY <1>3
  <2>2. CallersRowAt(p, r) = CallersRow(call.order, d)
    BY <1>1 DEF CallersRowAt
  <2> HIDE DEF d
  <2>3. b[r] = P.b[d] /\ local[p].info.row[r] = row[d] /\ local[p].info.tau_b = tau
    BY <1>4, <1>6 DEF d
  <2>4. P.b[d] + row[d] - tau = Caller.b[CallersRow(call.order, d)]
    BY <1>3, <1>5, <2>1
  <2> QED BY <2>1, <2>2, <2>3, <2>4 DEF d
<1> HIDE DEF datum
<1>8. \A r \in I : \E q \in D : datum(r) = name(q)
  <2> TAKE r \in I
  <2> DEFINE d == r + own.start
  <2>1. d \in RowsOf(own) /\ datum(r) = name(CallersRow(call.order, d))
    BY <1>7
  <2> HIDE DEF d
  <2>2. d \in Rows
    BY <1>3, <2>1
  <2>3. CallersRow(call.order, d) \in Rows /\ NewRow(call.order, CallersRow(call.order, d)) = d
    BY <1>1, <2>2, CallersOrder, NewRowInverts
  <2>4. CallersRow(call.order, d) \in D
    BY <2>1, <2>3 DEF HasRow
  <2> QED BY <2>1, <2>4
<1>9. \A q \in D : \E r \in I : datum(r) = name(q)
  <2> TAKE q \in D
  <2> DEFINE d == NewRow(call.order, q)
  <2>1. d \in RowsOf(own) /\ CallersRow(call.order, d) = q
    BY <1>1, CallersOrder, NewRowInverts DEF HasRow
  <2> HIDE DEF d
  <2>2. d - own.start \in I /\ (d - own.start) + own.start = d
    BY <1>3, <2>1
  <2> QED BY <1>7, <2>1, <2>2
<1>10. HeldRhs(p) = {name(r) : r \in D}
  <2> HIDE DEF name, D, I
  <2> QED BY <1>2, <1>8, <1>9
<1> QED BY <1>10

LEMMA ObjectiveOf ==
  ASSUME Ready, NEW p \in Procs
  PROVE  HeldObjective(p) =
           {<<"c", v, Caller.c[v]>> : v \in
             {v \in DOMAIN Caller.c : Coordinates(p)[1] = 0 /\ VarOwner(v) = Coordinates(p)[3]}}
<1> DEFINE P == ScaledCopy.problem
           own == OwnedBy(p)
           c == local[p].part.c
           unit == ScaledCopy.info.unit
           tau == ScaledCopy.info.tau_c
           D == {v \in DOMAIN Caller.c : Coordinates(p)[1] = 0 /\ VarOwner(v) = Coordinates(p)[3]}
<1>1. CallInv /\ c = IF Coordinates(p)[1] = 0 THEN PartOf(p).c ELSE <<>>
  BY ReadyShape
<1>2. HeldObjective(p) = {<<"c", v, c[v] + VarFactorAt(p, v) - local[p].info.tau_c>> : v \in DOMAIN c}
  BY DEF HeldObjective
<1>3. PartOf(p).c = [v \in {v \in DOMAIN P.c : Owned(own, v)} |-> P.c[v]]
  BY DEF PartOf, partition_problem
<1>4. /\ DOMAIN P.c = DOMAIN Caller.c /\ DOMAIN Caller.c \subseteq Vars
      /\ \A v \in DOMAIN Caller.c : P.c[v] + VarFactor(unit, v) - tau = Caller.c[v]
  BY <1>1, ScaledShape, ScaledBack, PermutedProblem DEF Transmissible
<1>5. /\ \A v \in Vars : Owned(own, v) <=> VarOwner(v) = Coordinates(p)[3]
      /\ \A v \in Vars : Owned(own, v) => VarFactorAt(p, v) = VarFactor(unit, v)
      /\ local[p].info.tau_c = tau
  BY OwnedVars, FactorsFound
<1> HIDE DEF P, own, c, unit, tau
<1>6. CASE Coordinates(p)[1] = 0
  <2>1. DOMAIN c = D /\ \A v \in D : c[v] = P.c[v] /\ Owned(own, v) /\ v \in Vars
    BY <1>1, <1>3, <1>4, <1>5, <1>6
  <2>2. \A v \in D : c[v] + VarFactorAt(p, v) - local[p].info.tau_c = Caller.c[v]
    BY <1>4, <1>5, <2>1
  <2> HIDE DEF D
  <2> QED BY <1>2, <2>1, <2>2 DEF D
<1>7. CASE Coordinates(p)[1] # 0
  <2>1. c = <<>> /\ D = {}
    BY <1>1, <1>7
  <2>2. HeldObjective(p) = {}
    BY <1>2, <2>1
  <2> QED BY <2>1, <2>2
<1> QED BY <1>6, <1>7


\* The low-rank columns a process keeps, in the order of the list, and what it
\* makes of them.
KeptList(p) ==
  LET old == ScaledCopy.problem.L
      mine == {j \in DOMAIN old : KeptColumn(OwnedBy(p), Coordinates(p)[1], old[j])}
  IN  Sorted(mine, Increasing(mine))
LEMMA KeptColumns ==
  ASSUME CallInv, NEW p \in Procs
  PROVE  LET own == OwnedBy(p)
             old == ScaledCopy.problem.L
             new == PartOf(p).L
             kept == KeptList(p)
         IN  /\ \A i \in DOMAIN new : /\ kept[i] \in DOMAIN Caller.L
                                      /\ KeptColumn(own, Coordinates(p)[1], old[kept[i]])
                                      /\ new[i] = LocalColumn(own, old[kept[i]])
             /\ \A j \in DOMAIN Caller.L : KeptColumn(own, Coordinates(p)[1], old[j]) =>
                  \E i \in DOMAIN new : kept[i] = j
             /\ \A h, i \in DOMAIN new : kept[h] = kept[i] => h = i
<1> DEFINE own == OwnedBy(p)
           old == ScaledCopy.problem.L
           new == PartOf(p).L
           mine == {j \in DOMAIN old : KeptColumn(own, Coordinates(p)[1], old[j])}
           kept == KeptList(p)
           n == Cardinality(mine)
<1>1. kept = Sorted(mine, Increasing(mine))
  BY DEF KeptList
<1>2. new = [i \in DOMAIN kept |-> LocalColumn(own, old[kept[i]])]
  BY <1>1 DEF PartOf, partition_problem
<1>3. DOMAIN old = DOMAIN Caller.L /\ DOMAIN Caller.L = 1..Len(Caller.L) /\ Len(Caller.L) \in Nat
  BY ScaledShape, PermutedProblem DEF Transmissible
<1>4. mine \in SUBSET Int /\ IsFiniteSet(mine)
  <2>1. IsFiniteSet(1..Len(Caller.L))
    <3> DEFINE m == Len(Caller.L)
    <3>1. m \in Nat
      BY <1>3
    <3> HIDE DEF m
    <3>2. IsFiniteSet(1..m)
      BY <3>1, FS_Interval
    <3> QED BY <3>2 DEF m
  <2>2. mine \subseteq 1..Len(Caller.L)
    BY <1>3
  <2> QED BY <1>3, <2>1, <2>2, FS_Subset
<1>5. \A j : j \in mine <=> j \in DOMAIN Caller.L /\ KeptColumn(own, Coordinates(p)[1], old[j])
  BY <1>3
<1> HIDE DEF mine, kept, own, old, new
<1>6. /\ n \in Nat /\ kept \in [1..n -> mine]
      /\ \A j \in mine : \E i \in 1..n : kept[i] = j
      /\ \A i, j \in 1..n : i < j => kept[i] < kept[j]
  BY <1>1, <1>4, SortedNumbers
<1> HIDE DEF n
<1>7. DOMAIN new = 1..n /\ \A i \in DOMAIN new : new[i] = LocalColumn(own, old[kept[i]])
  BY <1>2, <1>6
<1>8. \A h, i \in 1..n : kept[h] = kept[i] => h = i
  <2> TAKE h, i \in 1..n
  <2>1. kept[h] \in Int /\ kept[i] \in Int
    BY <1>4, <1>6
  <2>2. h < i => kept[h] < kept[i]
    BY <1>6
  <2>3. i < h => kept[i] < kept[h]
    BY <1>6
  <2> QED BY <1>6, <2>1, <2>2, <2>3
<1>9. /\ \A i \in DOMAIN new : /\ kept[i] \in DOMAIN Caller.L
                              /\ KeptColumn(own, Coordinates(p)[1], old[kept[i]])
                              /\ new[i] = LocalColumn(own, old[kept[i]])
      /\ \A j \in DOMAIN Caller.L : KeptColumn(own, Coordinates(p)[1], old[j]) =>
           \E i \in DOMAIN new : kept[i] = j
      /\ \A h, i \in DOMAIN new : kept[h] = kept[i] => h = i
  BY <1>5, <1>6, <1>7, <1>8
<1> QED BY <1>9 DEF own, old, new, kept

\* The caller's column that a column of a process is.
LEMMA ColumnGivenBack ==
  ASSUME Ready, NEW p \in Procs, NEW j \in DOMAIN Caller.L,
         KeptColumn(OwnedBy(p), Coordinates(p)[1], ScaledCopy.problem.L[j])
  PROVE  HeldColumn(p, LocalColumn(OwnedBy(p), ScaledCopy.problem.L[j])) =
           <<"L", Caller.L[j].row, Caller.L[j].cone, Caller.L[j].w, Caller.L[j].u>>
<1> DEFINE own == OwnedBy(p)
           old == Caller.L[j]
           mid == ScaledCopy.problem.L[j]
           new == LocalColumn(own, mid)
           row == ScaledCopy.info.row
           unit == ScaledCopy.info.unit
           l == CHOOSE l \in DOMAIN own.cones : own.cones[l] = mid.cone
<1>1. /\ CallInv /\ ~WrongGrid(call.grid) /\ perm[p] = call.order
      /\ local[p].start = own.start /\ local[p].part.cones = own.cones
  BY ReadyShape
<1>2. own.start \in Nat /\ own.m \in Nat /\ RowsOf(own) = (own.start + 1)..(own.start + own.m)
      /\ RowsOf(own) \subseteq Rows
  BY <1>1, RowsDivided DEF RowsOf
<1>3. /\ mid.row = Permuted.L[j].row /\ mid.cone = old.cone
      /\ old.row \in Rows \union {objective}
      /\ Permuted.L[j].row = IF old.row = objective THEN objective
                             ELSE NewRow(call.order, old.row)
      /\ Permuted.L[j].u = old.u
  BY <1>1, ScaledShape, EntriesMoved
<1>4. /\ DOMAIN mid = {"row", "cone", "w", "u"}
      /\ DOMAIN mid.u = DOMAIN old.u
      /\ \A s \in DOMAIN old.u : mid.u[s] + unit[s] = old.u[s]
      /\ old.row = objective => mid.w - ScaledCopy.info.tau_c = old.w
      /\ old.row # objective => mid.w + row[mid.row] = old.w
  BY <1>1, ScaledBack DEF ColumnBack
<1>5. IsColumn(Permuted.L[j])
  BY <1>1, PermutedIsProblem, PermutedProblem DEF IsProblem
<1>6. /\ old.cone \in Cones /\ DOMAIN old.u \subseteq ConeSlots(old.cone)
      /\ old.u \in [DOMAIN old.u -> Int]
  BY <1>1, <1>3, <1>5, EntriesMoved DEF IsColumn
<1>7. /\ \A k \in Cones : k \in ToSet(own.cones) =>
           \A s \in ConeSlots(k) : UnitFactor(p, s) = unit[s]
      /\ \A r \in 1..own.m : local[p].info.row[r] = row[r + own.start]
      /\ local[p].info.tau_c = ScaledCopy.info.tau_c
  BY FactorsFound
<1>8. /\ mid.cone \in ToSet(own.cones)
      /\ IF mid.row = objective THEN Coordinates(p)[1] = 0 ELSE mid.row \in RowsOf(own)
  BY DEF KeptColumn
<1>9. /\ new.row = IF mid.row = objective THEN mid.row ELSE mid.row - own.start
      /\ new.cone = l /\ new.w = mid.w /\ new.u = mid.u
  BY <1>4 DEF LocalColumn
<1>10. own.cones[l] = old.cone
  BY <1>3, <1>8 DEF ToSet
<1> HIDE DEF own, new, mid, row, unit, l
<1>11. local[p].part.cones[new.cone] = old.cone
  BY <1>1, <1>9, <1>10
<1> DEFINE u == [s \in DOMAIN new.u |-> new.u[s] + UnitFactor(p, s)]
<1>12. u = old.u
  <2>1. \A s \in DOMAIN old.u : UnitFactor(p, s) = unit[s]
    BY <1>3, <1>6, <1>7, <1>8
  <2>2. DOMAIN new.u = DOMAIN old.u
    BY <1>4, <1>9
  <2>3. \A s \in DOMAIN old.u : new.u[s] + UnitFactor(p, s) = old.u[s]
    BY <1>4, <1>9, <2>1
  <2> QED BY <1>6, <2>2, <2>3
<1> HIDE DEF u
<1>13. CASE old.row = objective
  <2>1. new.row = objective /\ new.w = mid.w
    BY <1>3, <1>9, <1>13
  <2>2. new.w - local[p].info.tau_c = old.w
    BY <1>4, <1>7, <1>13, <2>1
  <2>3. HeldColumn(p, new) = <<"L", objective, local[p].part.cones[new.cone],
                               new.w - local[p].info.tau_c, u>>
    BY <2>1 DEF HeldColumn, u
  <2>4. HeldColumn(p, new) = <<"L", old.row, old.cone, old.w, old.u>>
    BY <1>11, <1>12, <1>13, <2>2, <2>3
  <2> QED BY <2>4 DEF new, own, mid
<1>14. CASE old.row # objective
  <2>1. old.row \in Rows /\ mid.row = NewRow(call.order, old.row)
    BY <1>3, <1>14 DEF mid
  <2>2. mid.row \in Rows /\ CallersRow(call.order, mid.row) = old.row
    BY <1>1, <2>1, CallersOrder, NewRowInverts
  <2>3. mid.row # objective
    BY <2>2, Dimensions DEF Rows, objective
  <2>4. mid.row \in RowsOf(own) /\ new.row = mid.row - own.start
    BY <1>8, <1>9, <2>3
  <2>5. new.row \in 1..own.m /\ new.row + own.start = mid.row
    BY <1>2, <2>4
  <2>6. new.row # objective
    BY <2>5 DEF objective
  <2>7. CallersRowAt(p, new.row) = old.row
    BY <1>1, <2>2, <2>5 DEF CallersRowAt
  <2>8. new.w + local[p].info.row[new.row] = old.w
    BY <1>4, <1>7, <1>9, <1>14, <2>5
  <2>9. HeldColumn(p, new) = <<"L", CallersRowAt(p, new.row), local[p].part.cones[new.cone],
                               new.w + local[p].info.row[new.row], u>>
    BY <2>6 DEF HeldColumn, u
  <2>10. HeldColumn(p, new) = <<"L", old.row, old.cone, old.w, old.u>>
    BY <1>11, <1>12, <2>7, <2>8, <2>9
  <2> QED BY <2>10 DEF new, own, mid
<1> QED BY <1>13, <1>14

\* The process at row coordinate 0 holds the objective's columns of its cones,
\* the others those of their rows.
HoldsColumn(p, col) ==
  /\ ConeOwner(col.cone) = Coordinates(p)[3]
  /\ IF col.row = objective THEN Coordinates(p)[1] = 0
     ELSE HasRow(p, NewRow(call.order, col.row))
LEMMA KeptIsHeld ==
  ASSUME CallInv, NEW p \in Procs, NEW j \in DOMAIN Caller.L
  PROVE  /\ ScaledCopy.problem.L[j].row = objective <=> Caller.L[j].row = objective
         /\ Caller.L[j].cone \in Cones
         /\ KeptColumn(OwnedBy(p), Coordinates(p)[1], ScaledCopy.problem.L[j])
              <=> HoldsColumn(p, Caller.L[j])
<1> DEFINE own == OwnedBy(p)
           old == ScaledCopy.problem.L
<1>1. /\ old[j].row = IF Caller.L[j].row = objective THEN objective
                      ELSE NewRow(call.order, Caller.L[j].row)
      /\ old[j].cone = Caller.L[j].cone /\ Caller.L[j].row \in Rows \union {objective}
  BY ScaledShape, EntriesMoved
<1>2. Caller.L[j].cone \in Cones
  <2>1. IsColumn(Permuted.L[j])
    BY PermutedIsProblem, PermutedProblem DEF IsProblem
  <2> QED BY <2>1, EntriesMoved DEF IsColumn
<1>3. old[j].cone \in ToSet(own.cones) <=> ConeOwner(Caller.L[j].cone) = Coordinates(p)[3]
  BY <1>1, <1>2, OwnedVars
<1> HIDE DEF own, old
<1>4. CASE Caller.L[j].row = objective
  <2>1. old[j].row = objective
    BY <1>1, <1>4
  <2> QED BY <1>2, <1>3, <1>4, <2>1 DEF KeptColumn, HoldsColumn, own, old
<1>5. CASE Caller.L[j].row # objective
  <2>1. Caller.L[j].row \in Rows /\ old[j].row = NewRow(call.order, Caller.L[j].row)
    BY <1>1, <1>5
  <2>2. old[j].row \in Rows
    BY <2>1, CallersOrder, NewRowInverts
  <2>3. old[j].row # objective
    BY <2>2, Dimensions DEF Rows, objective
  <2> QED BY <1>2, <1>3, <1>5, <2>1, <2>3 DEF KeptColumn, HoldsColumn, HasRow, own, old
<1> QED BY <1>4, <1>5

LEMMA LowRankOf ==
  ASSUME Ready, NEW p \in Procs
  PROVE  HeldColumns(p) =
           {<<"L", Caller.L[j].row, Caller.L[j].cone, Caller.L[j].w, Caller.L[j].u>> :
              j \in {j \in DOMAIN Caller.L : HoldsColumn(p, Caller.L[j])}}
<1> DEFINE own == OwnedBy(p)
           old == ScaledCopy.problem.L
           new == PartOf(p).L
           D == {j \in DOMAIN Caller.L : HoldsColumn(p, Caller.L[j])}
           name(j) == <<"L", Caller.L[j].row, Caller.L[j].cone, Caller.L[j].w, Caller.L[j].u>>
           datum(i) == HeldColumn(p, new[i])
           kept(j) == KeptColumn(own, Coordinates(p)[1], old[j])
<1>1. CallInv /\ local[p].part.L = new
  BY ReadyShape
<1>2. \A j \in DOMAIN Caller.L : kept(j) <=> HoldsColumn(p, Caller.L[j])
  BY <1>1, KeptIsHeld
<1>3. /\ \A i \in DOMAIN new : \E j \in DOMAIN Caller.L :
           kept(j) /\ new[i] = LocalColumn(own, old[j])
      /\ \A j \in DOMAIN Caller.L : kept(j) =>
           \E i \in DOMAIN new : new[i] = LocalColumn(own, old[j])
  <2> DEFINE list == KeptList(p)
  <2>1. /\ \A i \in DOMAIN new : /\ list[i] \in DOMAIN Caller.L /\ kept(list[i])
                                /\ new[i] = LocalColumn(own, old[list[i]])
        /\ \A j \in DOMAIN Caller.L : kept(j) => \E i \in DOMAIN new : list[i] = j
    BY <1>1, KeptColumns
  <2> HIDE DEF list, kept, own, old, new
  <2> QED BY <2>1
<1>4. \A j \in DOMAIN Caller.L : kept(j) => HeldColumn(p, LocalColumn(own, old[j])) = name(j)
  BY ColumnGivenBack
<1>5. HeldColumns(p) = {datum(i) : i \in DOMAIN new}
  BY <1>1 DEF HeldColumns
<1> HIDE DEF kept, name, own, old, new
<1>6. \A i \in DOMAIN new : \E j \in D : datum(i) = name(j)
  BY <1>2, <1>3, <1>4
<1>7. \A j \in D : \E i \in DOMAIN new : datum(i) = name(j)
  BY <1>2, <1>3, <1>4
<1>8. HeldColumns(p) = {name(j) : j \in D}
  <2> HIDE DEF datum, D
  <2> QED BY <1>5, <1>6, <1>7
<1> QED BY <1>8 DEF name


-----------------------------------------------------------------------------
(* Each layer of the grid has one process at every place, so that what is *)
(* held by the owner of a place is held once.                              *)

\* One process is at coordinates i, j and k.
LEMMA OneProcessAt ==
  ASSUME CallInv, ~WrongGrid(call.grid)
  PROVE  LET d == Dims(call.grid)
         IN  /\ \A i \in 0..(d[1] - 1), j \in 0..(d[2] - 1), k \in 0..(d[3] - 1) :
                  \E p \in Procs : Coordinates(p) = <<i, j, k>>
             /\ 0 \in 0..(d[1] - 1)
             /\ \A p \in Procs : Coordinates(p) \in
                  (0..(d[1] - 1)) \X (0..(d[2] - 1)) \X (0..(d[3] - 1))
             /\ \A p, q \in Procs :
                  /\ Coordinates(p)[1] = Coordinates(q)[1]
                  /\ Coordinates(p)[2] = Coordinates(q)[2]
                  /\ Coordinates(p)[3] = Coordinates(q)[3]
                  => p = q
<1> DEFINE d == Dims(call.grid)
<1>1. IsDims(d)
  BY GridOfCall
<1>2. \A p : Coordinates(p) = Coords(d, p)
  BY DEF Coordinates
<1> HIDE DEF d
<1>3. ASSUME NEW i \in 0..(d[1] - 1), NEW j \in 0..(d[2] - 1), NEW k \in 0..(d[3] - 1)
      PROVE  \E p \in Procs : Coordinates(p) = <<i, j, k>>
  <2> DEFINE p == (i * d[2] + j) * d[3] + k
  <2>1. p \in Procs /\ Coords(d, p) = <<i, j, k>>
    BY <1>1, ProcessAt
  <2> HIDE DEF p
  <2> QED BY <1>2, <2>1
<1>4. 0 \in 0..(d[1] - 1)
  BY <1>1 DEF IsDims
<1>5. \A p \in Procs : Coordinates(p) \in
        (0..(d[1] - 1)) \X (0..(d[2] - 1)) \X (0..(d[3] - 1))
  BY <1>1, <1>2, CoordinatesOf
<1>6. ASSUME NEW p \in Procs, NEW q \in Procs, Coordinates(p)[1] = Coordinates(q)[1],
             Coordinates(p)[2] = Coordinates(q)[2], Coordinates(p)[3] = Coordinates(q)[3]
      PROVE  p = q
  <2>1. Coordinates(p) = Coordinates(q)
    BY <1>5, <1>6
  <2> QED BY <1>1, <1>2, <2>1, CoordinatesUnique
<1> QED BY <1>3, <1>4, <1>5, <1>6 DEF d


\* In a layer every entry is on the process at the row coordinate of its row
\* and the cone coordinate of its column.
LEMMA EntriesOnce ==
  ASSUME Ready, NEW j \in {my_rank(p) : p \in Procs}
  PROVE  OnceOver(Layer(j), HeldEntries, CallersData.A)
<1> DEFINE d == Dims(call.grid)
           E == DOMAIN Caller.A
           name(e) == <<"A", e[1], e[2], Caller.A[e]>>
           at(p, e) == /\ HasRow(p, NewRow(call.order, e[1]))
                       /\ VarOwner(e[2]) = Coordinates(p)[3]
           all == CallersData.A
<1>1. \A p \in Procs : CallInv /\ ~WrongGrid(call.grid) /\ my_rank(p) = Coordinates(p)[2]
  BY ReadyShape
<1>2. PICK q \in Procs : j = Coordinates(q)[2]
  BY <1>1
<1>3. CallInv /\ ~WrongGrid(call.grid)
  BY <1>1, <1>2
<1>4. \A p : p \in Layer(j) <=> p \in Procs /\ Coordinates(p)[2] = j
  BY <1>1 DEF Layer
<1>5. \A p \in Layer(j) : HeldEntries(p) = {name(e) : e \in {e \in E : at(p, e)}}
  BY <1>4, EntriesOf
<1>6. all = {name(e) : e \in E}
  BY DEF CallersData
<1>7. \A e \in E : /\ e = <<e[1], e[2]>> /\ e[2] \in Vars
                   /\ NewRow(call.order, e[1]) \in Rows
  <2>1. Transmissible(Caller)
    BY <1>3, PermutedProblem
  <2>2. \A e \in E : e = <<e[1], e[2]>> /\ e[1] \in Rows /\ e[2] \in Vars
    BY <2>1 DEF Transmissible
  <2> QED BY <1>3, <2>2, CallersOrder, NewRowInverts
<1> HIDE DEF d, E
<1>8. \A e \in E : \E p \in Layer(j) : at(p, e)
  <2> TAKE e \in E
  <2>1. PICK i \in 0..(d[1] - 1) : \A p \in Procs :
          Coordinates(p)[1] = i => HasRow(p, NewRow(call.order, e[1]))
    BY <1>3, <1>7, RowsDivided DEF d
  <2>2. VarOwner(e[2]) \in 0..(d[3] - 1)
    BY <1>3, <1>7, OwnersOfCall DEF d
  <2>3. j \in 0..(d[2] - 1)
    BY <1>2, <1>3, OneProcessAt DEF d
  <2>4. PICK p \in Procs : Coordinates(p) = <<i, j, VarOwner(e[2])>>
    BY <1>3, <2>2, <2>3, OneProcessAt DEF d
  <2> QED BY <1>4, <2>1, <2>4
<1>9. \A e \in E : \A p1, p2 \in Layer(j) : at(p1, e) /\ at(p2, e) => p1 = p2
  <2> TAKE e \in E
  <2> TAKE p1, p2 \in Layer(j)
  <2> HAVE at(p1, e) /\ at(p2, e)
  <2>1. Coordinates(p1)[1] = Coordinates(p2)[1]
    BY <1>3, <1>4, <1>7, RowsDivided
  <2>2. Coordinates(p1)[3] = Coordinates(p2)[3]
    OBVIOUS
  <2> HIDE DEF at
  <2> QED BY <1>3, <1>4, <2>1, <2>2, OneProcessAt
<1>10. \A e1, e2 \in E : name(e1) = name(e2) => e1 = e2
  <2> TAKE e1, e2 \in E
  <2> HAVE name(e1) = name(e2)
  <2>1. e1[1] = e2[1] /\ e1[2] = e2[2]
    OBVIOUS
  <2> QED BY <1>7, <2>1
<1> HIDE DEF name, at, all
<1> QED BY <1>5, <1>6, <1>8, <1>9, <1>10 DEF OnceOver, all

\* The objective is kept by the processes at row coordinate 0.
LEMMA ObjectiveOnce ==
  ASSUME Ready, NEW j \in {my_rank(p) : p \in Procs}
  PROVE  OnceOver(Layer(j), HeldObjective, CallersData.c)
<1> DEFINE d == Dims(call.grid)
           E == DOMAIN Caller.c
           name(v) == <<"c", v, Caller.c[v]>>
           at(p, v) == Coordinates(p)[1] = 0 /\ VarOwner(v) = Coordinates(p)[3]
           all == CallersData.c
<1>1. \A p \in Procs : CallInv /\ ~WrongGrid(call.grid) /\ my_rank(p) = Coordinates(p)[2]
  BY ReadyShape
<1>2. PICK q \in Procs : j = Coordinates(q)[2]
  BY <1>1
<1>3. CallInv /\ ~WrongGrid(call.grid)
  BY <1>1, <1>2
<1>4. \A p : p \in Layer(j) <=> p \in Procs /\ Coordinates(p)[2] = j
  BY <1>1 DEF Layer
<1>5. \A p \in Layer(j) : HeldObjective(p) = {name(v) : v \in {v \in E : at(p, v)}}
  BY <1>4, ObjectiveOf
<1>6. all = {name(v) : v \in E}
  BY DEF CallersData
<1>7. \A v \in E : v \in Vars
  BY <1>3, PermutedProblem DEF Transmissible
<1> HIDE DEF d, E
<1>8. \A v \in E : \E p \in Layer(j) : at(p, v)
  <2> TAKE v \in E
  <2>1. VarOwner(v) \in 0..(d[3] - 1)
    BY <1>3, <1>7, OwnersOfCall DEF d
  <2>2. j \in 0..(d[2] - 1) /\ 0 \in 0..(d[1] - 1)
    BY <1>2, <1>3, OneProcessAt DEF d
  <2>3. PICK p \in Procs : Coordinates(p) = <<0, j, VarOwner(v)>>
    BY <1>3, <2>1, <2>2, OneProcessAt DEF d
  <2> QED BY <1>4, <2>3
<1>9. \A v \in E : \A p1, p2 \in Layer(j) : at(p1, v) /\ at(p2, v) => p1 = p2
  <2> TAKE v \in E
  <2> TAKE p1, p2 \in Layer(j)
  <2> HAVE at(p1, v) /\ at(p2, v)
  <2>1. /\ Coordinates(p1)[1] = Coordinates(p2)[1]
        /\ Coordinates(p1)[3] = Coordinates(p2)[3]
    OBVIOUS
  <2> HIDE DEF at
  <2> QED BY <1>3, <1>4, <2>1, OneProcessAt
<1>10. \A v1, v2 \in E : name(v1) = name(v2) => v1 = v2
  OBVIOUS
<1> HIDE DEF name, at, all
<1> QED BY <1>5, <1>6, <1>8, <1>9, <1>10 DEF OnceOver, all

\* A low-rank column goes where its row and its cone go.
LEMMA ColumnsOnce ==
  ASSUME Ready, NEW j \in {my_rank(p) : p \in Procs}
  PROVE  OnceOver(Layer(j), HeldColumns, CallersData.L)
<1> DEFINE d == Dims(call.grid)
           E == DOMAIN Caller.L
           L(i) == Caller.L[i]
           name(i) == <<"L", Caller.L[i].row, Caller.L[i].cone, Caller.L[i].w, Caller.L[i].u>>
           at(p, i) == HoldsColumn(p, Caller.L[i])
           all == CallersData.L
<1>1. \A p \in Procs : CallInv /\ ~WrongGrid(call.grid) /\ my_rank(p) = Coordinates(p)[2]
  BY ReadyShape
<1>2. PICK q \in Procs : j = Coordinates(q)[2]
  BY <1>1
<1>3. CallInv /\ ~WrongGrid(call.grid)
  BY <1>1, <1>2
<1>4. \A p : p \in Layer(j) <=> p \in Procs /\ Coordinates(p)[2] = j
  BY <1>1 DEF Layer
<1>5. \A p \in Layer(j) : HeldColumns(p) = {name(i) : i \in {i \in E : at(p, i)}}
  BY <1>4, LowRankOf
<1>6. all = {name(i) : i \in E}
  BY DEF CallersData
<1>7. \A i \in E : /\ L(i).cone \in Cones
                   /\ L(i).row # objective => NewRow(call.order, L(i).row) \in Rows
  <2> TAKE i \in E
  <2>1. IsColumn(Permuted.L[i]) /\ L(i).row \in Rows \union {objective}
    BY <1>3, PermutedIsProblem, PermutedProblem, EntriesMoved DEF IsProblem
  <2>2. L(i).cone \in Cones
    BY <1>3, <2>1, EntriesMoved DEF IsColumn
  <2> QED BY <1>3, <2>1, <2>2, CallersOrder, NewRowInverts
<1> HIDE DEF d, E
<1>8. \A i \in E : \E p \in Layer(j) : at(p, i)
  <2> TAKE i \in E
  <2>1. ConeOwner(L(i).cone) \in 0..(d[3] - 1)
    BY <1>3, <1>7, OwnersOfCall DEF d
  <2>2. j \in 0..(d[2] - 1) /\ 0 \in 0..(d[1] - 1)
    BY <1>2, <1>3, OneProcessAt DEF d
  <2>3. CASE L(i).row = objective
    <3>1. PICK p \in Procs : Coordinates(p) = <<0, j, ConeOwner(L(i).cone)>>
      BY <1>3, <2>1, <2>2, OneProcessAt DEF d
    <3> QED BY <1>4, <2>3, <3>1 DEF HoldsColumn
  <2>4. CASE L(i).row # objective
    <3>1. PICK h \in 0..(d[1] - 1) : \A p \in Procs :
            Coordinates(p)[1] = h => HasRow(p, NewRow(call.order, L(i).row))
      BY <1>3, <1>7, <2>4, RowsDivided DEF d
    <3>2. PICK p \in Procs : Coordinates(p) = <<h, j, ConeOwner(L(i).cone)>>
      BY <1>3, <2>1, <2>2, OneProcessAt DEF d
    <3> QED BY <1>4, <2>4, <3>1, <3>2 DEF HoldsColumn
  <2> QED BY <2>3, <2>4
<1>9. \A i1, i2 \in E : \A p1, p2 \in Layer(j) :
        at(p1, i1) /\ at(p2, i2) /\ name(i1) = name(i2) => p1 = p2
  <2> TAKE i1, i2 \in E
  <2> TAKE p1, p2 \in Layer(j)
  <2> HAVE at(p1, i1) /\ at(p2, i2) /\ name(i1) = name(i2)
  <2>1. L(i1).row = L(i2).row /\ L(i1).cone = L(i2).cone
    OBVIOUS
  <2>2. Coordinates(p1)[3] = Coordinates(p2)[3]
    BY <2>1 DEF HoldsColumn
  <2>3. Coordinates(p1)[1] = Coordinates(p2)[1]
    <3>1. CASE L(i1).row = objective
      BY <2>1, <3>1 DEF HoldsColumn
    <3>2. CASE L(i1).row # objective
      BY <1>3, <1>4, <1>7, <2>1, <3>2, RowsDivided DEF HoldsColumn
    <3> QED BY <3>1, <3>2
  <2> QED BY <1>3, <1>4, <2>2, <2>3, OneProcessAt
<1> HIDE DEF name, at, all
<1> QED BY <1>5, <1>6, <1>8, <1>9 DEF OnceOver, all

\* Right-hand sides are divided among the processes of a row communicator.
LEMMA RightSidesOnce ==
  ASSUME Ready, NEW q \in Procs
  PROVE  OnceOver(Comm(row_color, q), HeldRhs, CallersData.b)
<1> DEFINE d == Dims(call.grid)
           S == Comm(row_color, q)
           name(r) == <<"b", r, Caller.b[r]>>
           at(p, r) == HasRow(p, NewRow(call.order, r))
           all == CallersData.b
<1>1. /\ CallInv /\ ~WrongGrid(call.grid)
      /\ S = {p \in Procs : /\ Coordinates(p)[2] = Coordinates(q)[2]
                            /\ Coordinates(p)[3] = Coordinates(q)[3]}
  BY ReadyShape
<1> HIDE DEF S, d
<1>2. \A p \in S : HeldRhs(p) = {name(r) : r \in {r \in Rows : at(p, r)}}
  BY <1>1, RightSidesOf
<1>3. all = {name(r) : r \in Rows}
  BY DEF CallersData
<1>4. \A r \in Rows : NewRow(call.order, r) \in Rows
  BY <1>1, CallersOrder, NewRowInverts
<1>5. \A r \in Rows : \E p \in S : at(p, r)
  <2> TAKE r \in Rows
  <2>1. PICK i \in 0..(d[1] - 1) : \A p \in Procs :
          Coordinates(p)[1] = i => HasRow(p, NewRow(call.order, r))
    BY <1>1, <1>4, RowsDivided DEF d
  <2>2. Coordinates(q)[2] \in 0..(d[2] - 1) /\ Coordinates(q)[3] \in 0..(d[3] - 1)
    BY <1>1, OneProcessAt DEF d
  <2>3. PICK p \in Procs : Coordinates(p) = <<i, Coordinates(q)[2], Coordinates(q)[3]>>
    BY <1>1, <2>2, OneProcessAt DEF d
  <2> QED BY <1>1, <2>1, <2>3
<1>6. \A r \in Rows : \A p1, p2 \in S : at(p1, r) /\ at(p2, r) => p1 = p2
  BY <1>1, <1>4, RowsDivided, OneProcessAt
<1>7. \A r1, r2 \in Rows : name(r1) = name(r2) => r1 = r2
  OBVIOUS
<1> HIDE DEF name, at, all
<1> QED BY <1>2, <1>3, <1>5, <1>6, <1>7 DEF OnceOver, all, S

\* What the processes hold when the solve starts is the caller's problem,
\* divided: every entry, right-hand side, objective coefficient and low-rank
\* column of it is held once in each layer of the grid, unscaled and under the
\* caller's number of its row (the copy every process permutes, rescales and
\* cuts its part from, and the objective zeroed off row coordinate 0).
THEOREM EveryDatumHeldOnce == Spec => []EveryDatumOnce
<1>1. IInv => EveryDatumOnce
  <2> SUFFICES ASSUME IInv, At(Procs, "solve")
               PROVE  /\ \A j \in {my_rank(p) : p \in Procs} :
                           /\ OnceOver(Layer(j), HeldEntries, CallersData.A)
                           /\ OnceOver(Layer(j), HeldObjective, CallersData.c)
                           /\ OnceOver(Layer(j), HeldColumns, CallersData.L)
                      /\ \A p \in Procs : OnceOver(Comm(row_color, p), HeldRhs, CallersData.b)
    BY DEF EveryDatumOnce
  <2>1. Ready
    BY DEF Ready
  <2>2. ASSUME NEW j \in {my_rank(p) : p \in Procs}
        PROVE  /\ OnceOver(Layer(j), HeldEntries, CallersData.A)
               /\ OnceOver(Layer(j), HeldObjective, CallersData.c)
               /\ OnceOver(Layer(j), HeldColumns, CallersData.L)
    BY <2>1, EntriesOnce, ObjectiveOnce, ColumnsOnce
  <2>3. ASSUME NEW p \in Procs
        PROVE  OnceOver(Comm(row_color, p), HeldRhs, CallersData.b)
    BY <2>1, RightSidesOnce
  <2> QED BY <2>2, <2>3
<1> QED BY <1>1, IInvHolds, PTL


RowLine(p) == {q \in Procs : /\ Coordinates(q)[2] = Coordinates(p)[2]
                             /\ Coordinates(q)[3] = Coordinates(p)[3]}
ConeLine(p) == {q \in Procs : /\ Coordinates(q)[1] = Coordinates(p)[1]
                              /\ Coordinates(q)[2] = Coordinates(p)[2]}
RowData(p) == RhsData(PartOf(p), call.order, OwnedBy(p).start)
ConeData(p) == ObjectiveData(PartOf(p), Coordinates(p)[3])
NormsAt(p, label) ==
  [b |-> IF label = "row_norms" THEN RowData(p)
         ELSE BagSum([q \in RowLine(p) |-> RowData(q)]),
   c |-> IF label \in {"row_norms", "cone_norms"} THEN ConeData(p)
         ELSE BagSum([q \in ConeLine(p) |-> ConeData(q)])]
\* No process is without its place once the communicators are split.
PlacedTogether ==
  \A p, q \in Procs : pc[p] \notin Unplaced \union {"grid"} => pc[q] \notin Unplaced
NormsInv == \A p \in Procs :
  pc[p] \in Preparing \union {"solve"} => norms[p] = NormsAt(p, pc[p])

LEMMA PlacedTogetherStep ==
  ASSUME GridInv, PlacedTogether, [Next]_vars
  PROVE  PlacedTogether'
<1> DEFINE early == Unplaced \union {"grid"}
<1>1. ASSUME NEW r \in Procs, SelectGrid(r) \/ Abort(r) PROVE PlacedTogether'
  <2>1. \A q \in Procs : pc'[q] = pc[q] \/ (pc[q] \in Unplaced /\ pc'[q] \in early)
    BY <1>1, Placing DEF Unplaced
  <2> QED BY <2>1 DEF PlacedTogether, Unplaced
<1>2. CASE InitializeContext
  <2>1. \A q \in Procs : pc'[q] = "serialize"
    BY <1>2, Going DEF GridInv, InitializeContext, Labels
  <2> QED BY <2>1 DEF PlacedTogether, Unplaced
<1>3. CASE \E from, to : Moved(from, to) /\ from \intersect early = {} /\ to \notin early
  <2>1. \A q \in Procs : /\ pc'[q] \in Unplaced <=> pc[q] \in Unplaced
                         /\ pc'[q] \in early <=> pc[q] \in early
    BY <1>3 DEF Moved
  <2> QED BY <2>1 DEF PlacedTogether
<1> QED BY <1>1, <1>2, <1>3, Moves DEF Unplaced

\* The steps that bring a process to the labels of the norms, or keep it there.
LEMMA NormsSteps ==
  ASSUME GridInv, [Next]_vars, NEW p \in Procs, pc'[p] \in Preparing \union {"solve"}
  PROVE  \/ \E r \in Procs : Take(r) \/ RowNorms(r) \/ ConeNorms(r) \/ ZeroObjective(r)
         \/ pc'[p] = pc[p] /\ UNCHANGED norms
<1> SUFFICES ASSUME ~ \E r \in Procs : Take(r) \/ RowNorms(r) \/ ConeNorms(r) \/ ZeroObjective(r)
             PROVE  pc'[p] = pc[p] /\ UNCHANGED norms
  OBVIOUS
<1>1. pc'[p] = pc[p]
  <2>1. CASE \E r \in Procs : SelectGrid(r) \/ Abort(r)
    BY <2>1, Placing DEF Preparing
  <2>2. CASE ~ \E r \in Procs : SelectGrid(r) \/ Abort(r)
    BY <2>2, Moves DEF Moved, Preparing
  <2> QED BY <2>1, <2>2
<1>2. ASSUME NEW r \in Procs, Step(r) PROVE UNCHANGED norms
  BY <1>2 DEF Step, SelectGrid, Abort, Serialize, SendChunk, ReceiveChunk, Permute,
     CreateResult, CountNonzeros, CountRanks, NotGathered, DropReplica, GatherFactor
<1>3. Collective => UNCHANGED norms
  BY DEF Collective, InitializeContext, Barrier, Solve, CollectDual
<1>4. UNCHANGED vars => UNCHANGED norms
  BY DEF vars
<1> QED BY <1>1, <1>2, <1>3, <1>4, StepCases

LEMMA NormsFixed ==
  ASSUME call' = call, NEW p \in Procs
  PROVE  NormsAt(p, pc[p])' = NormsAt(p, pc'[p])
<1>1. \A q \in Procs : /\ Coordinates(q)' = Coordinates(q)
                       /\ RowData(q)' = RowData(q) /\ ConeData(q)' = ConeData(q)
  BY Fixed DEF RowData, ConeData
<1>2. RowLine(p)' = RowLine(p) /\ ConeLine(p)' = ConeLine(p)
  BY <1>1 DEF RowLine, ConeLine
<1>3. [q \in RowLine(p) |-> RowData(q)]' = [q \in RowLine(p) |-> RowData(q)]
  BY <1>1, <1>2 DEF RowLine
<1>4. [q \in ConeLine(p) |-> ConeData(q)]' = [q \in ConeLine(p) |-> ConeData(q)]
  BY <1>1, <1>2 DEF ConeLine
<1> QED BY <1>1, <1>3, <1>4 DEF NormsAt

LEMMA NormsTaken ==
  ASSUME IInv, NormsInv, NEW r \in Procs, Take(r), NEW p \in Procs,
         pc'[p] \in Preparing \union {"solve"}
  PROVE  norms'[p] = NormsAt(p, pc'[p])
<1>1. \A q \in Procs : pc'[q] = IF q = r THEN "row_norms" ELSE pc[q]
  BY Going DEF IInv, GridInv, Take, Labels
<1>2. pc[r] = "partition"
  BY DEF Take
<1>3. /\ problem[r] = Permuted /\ dims[r] = Dims(call.grid) /\ my_cone(r) = Coordinates(r)[3]
  BY <1>2, PlacedAt DEF IInv, CopyInv, Copying, Unplaced
<1>4. norms' = [norms EXCEPT ![r] = [b |-> RowData(r), c |-> ConeData(r)]]
  BY <1>3 DEF Take, PartOf, OwnedBy, ScaledCopy, Coordinates, RowData, ConeData
<1>5. DOMAIN norms = Procs
  BY DEF IInv, LocalInv
<1>6. CASE p = r
  BY <1>1, <1>4, <1>5, <1>6 DEF NormsAt
<1>7. CASE p # r
  BY <1>1, <1>4, <1>5, <1>7 DEF NormsInv
<1> QED BY <1>6, <1>7

\* A reduction along the row or the cone axis gives each member the sum.
LEMMA NormsReduced ==
  ASSUME IInv, PlacedTogether, NormsInv, NEW r \in Procs, RowNorms(r) \/ ConeNorms(r),
         NEW p \in Procs, pc'[p] \in Preparing \union {"solve"}
  PROVE  norms'[p] = NormsAt(p, pc'[p])
<1>1. /\ Comm(row_color, r) = RowLine(r) /\ Comm(cone_color, r) = ConeLine(r)
      /\ GridInv /\ DOMAIN norms = Procs
  <2>1. pc[r] \in {"row_norms", "cone_norms"}
    BY DEF RowNorms, ConeNorms
  <2>2. \A q \in Procs : pc[q] \notin Unplaced
    BY <2>1 DEF PlacedTogether, Unplaced
  <2> QED BY <2>2, SameLine DEF RowLine, ConeLine, IInv, LocalInv
<1>2. CASE RowNorms(r)
  <2> DEFINE M == RowLine(r)
  <2>1. /\ \A q \in M : pc[q] = "row_norms"
        /\ norms' = [q \in Procs |->
             IF q \in M THEN [norms[q] EXCEPT !.b = BagSum([s \in M |-> norms[s].b])]
             ELSE norms[q]]
        /\ Go(M, "cone_norms")
    BY <1>1, <1>2 DEF RowNorms, At
  <2>2. \A q \in Procs : pc'[q] = IF q \in M THEN "cone_norms" ELSE pc[q]
    BY <1>1, <2>1, Going DEF Labels, GridInv
  <2>3. CASE p \in M
    <3>1. RowLine(p) = M
      BY <2>3 DEF RowLine
    <3>2. \A q \in M : norms[q] = [b |-> RowData(q), c |-> ConeData(q)]
      BY <2>1 DEF NormsInv, NormsAt, Preparing, RowLine
    <3> HIDE DEF M
    <3>3. [s \in M |-> norms[s].b] = [s \in M |-> RowData(s)]
      <4>1. \A s \in M : norms[s].b = RowData(s)
        <5> TAKE s \in M
        <5> DEFINE x == RowData(s)
                   y == ConeData(s)
        <5>1. norms[s] = [b |-> x, c |-> y]
          BY <3>2
        <5> HIDE DEF x, y
        <5>2. norms[s].b = x
          BY <5>1
        <5> QED BY <5>2 DEF x
      <4> QED BY <4>1
    <3>4. norms'[p] = [norms[p] EXCEPT !.b = BagSum([s \in M |-> RowData(s)])]
      BY <1>1, <2>1, <2>3, <3>3
    <3>5. norms'[p] = [b |-> BagSum([s \in M |-> RowData(s)]), c |-> ConeData(p)]
      <4> DEFINE sum == BagSum([s \in M |-> RowData(s)])
      <4>1. norms[p] = [b |-> RowData(p), c |-> ConeData(p)] /\ norms'[p] = [norms[p] EXCEPT !.b = sum]
        BY <2>3, <3>2, <3>4
      <4> HIDE DEF sum
      <4>2. norms'[p] = [b |-> sum, c |-> ConeData(p)]
        BY <4>1
      <4> QED BY <4>2 DEF sum
    <3> QED BY <2>2, <2>3, <3>1, <3>5 DEF NormsAt
  <2>4. CASE p \notin M
    BY <2>1, <2>2, <2>4 DEF NormsInv
  <2> QED BY <2>3, <2>4
<1>3. CASE ConeNorms(r)
  <2> DEFINE M == ConeLine(r)
  <2>1. /\ \A q \in M : pc[q] = "cone_norms"
        /\ norms' = [q \in Procs |->
             IF q \in M THEN [norms[q] EXCEPT !.c = BagSum([s \in M |-> norms[s].c])]
             ELSE norms[q]]
        /\ Go(M, "objective")
    BY <1>1, <1>3 DEF ConeNorms, At
  <2>2. \A q \in Procs : pc'[q] = IF q \in M THEN "objective" ELSE pc[q]
    BY <1>1, <2>1, Going DEF Labels, GridInv
  <2>3. CASE p \in M
    <3>1. ConeLine(p) = M
      BY <2>3 DEF ConeLine
    <3>2. \A q \in M : norms[q] = [b |-> BagSum([s \in RowLine(q) |-> RowData(s)]),
                                   c |-> ConeData(q)]
      BY <2>1 DEF NormsInv, NormsAt, Preparing, ConeLine
    <3> HIDE DEF M
    <3>3. [s \in M |-> norms[s].c] = [s \in M |-> ConeData(s)]
      <4>1. \A s \in M : norms[s].c = ConeData(s)
        <5> TAKE s \in M
        <5> DEFINE x == BagSum([q \in RowLine(s) |-> RowData(q)])
                   y == ConeData(s)
        <5>1. norms[s] = [b |-> x, c |-> y]
          BY <3>2
        <5> HIDE DEF x, y
        <5>2. norms[s].c = y
          BY <5>1
        <5> QED BY <5>2 DEF y
      <4> QED BY <4>1
    <3>4. norms'[p] = [norms[p] EXCEPT !.c = BagSum([s \in M |-> ConeData(s)])]
      BY <1>1, <2>1, <2>3, <3>3
    <3>5. norms'[p] = [b |-> BagSum([s \in RowLine(p) |-> RowData(s)]),
                       c |-> BagSum([s \in M |-> ConeData(s)])]
      <4> DEFINE sum == BagSum([s \in M |-> ConeData(s)])
                 rows == BagSum([s \in RowLine(p) |-> RowData(s)])
      <4>1. norms[p] = [b |-> rows, c |-> ConeData(p)] /\ norms'[p] = [norms[p] EXCEPT !.c = sum]
        BY <2>3, <3>2, <3>4
      <4> HIDE DEF sum, rows
      <4>2. norms'[p] = [b |-> rows, c |-> sum]
        BY <4>1
      <4> QED BY <4>2 DEF sum, rows
    <3> QED BY <2>2, <2>3, <3>1, <3>5 DEF NormsAt
  <2>4. CASE p \notin M
    BY <2>1, <2>2, <2>4 DEF NormsInv
  <2> QED BY <2>3, <2>4
<1> QED BY <1>2, <1>3

LEMMA NormsInvStep ==
  ASSUME IInv, PlacedTogether, NormsInv, [Next]_vars
  PROVE  NormsInv'
<1> SUFFICES ASSUME NEW p \in Procs, pc'[p] \in Preparing \union {"solve"}
             PROVE  norms'[p] = NormsAt(p, pc[p])'
  BY DEF NormsInv
<1>1. NormsAt(p, pc[p])' = NormsAt(p, pc'[p])
  BY CallStep, NormsFixed
<1>2. CASE \E r \in Procs : Take(r)
  BY <1>1, <1>2, NormsTaken
<1>3. CASE \E r \in Procs : RowNorms(r) \/ ConeNorms(r)
  BY <1>1, <1>3, NormsReduced
<1>4. ASSUME NEW r \in Procs, ZeroObjective(r) PROVE norms'[p] = NormsAt(p, pc'[p])
  <2>1. \A q \in Procs : pc'[q] = IF q = r THEN "solve" ELSE pc[q]
    BY <1>4, Going DEF IInv, GridInv, ZeroObjective, Labels
  <2>2. pc[r] = "objective" /\ norms' = norms
    BY <1>4 DEF ZeroObjective
  <2>3. CASE p = r
    <3>1. norms[p] = NormsAt(p, "objective")
      BY <2>2, <2>3 DEF NormsInv, Preparing
    <3> QED BY <2>1, <2>2, <2>3, <3>1 DEF NormsAt
  <2>4. CASE p # r
    BY <2>1, <2>2, <2>4 DEF NormsInv
  <2> QED BY <2>3, <2>4
<1>5. CASE pc'[p] = pc[p] /\ UNCHANGED norms
  BY <1>1, <1>5 DEF NormsInv
<1> QED BY <1>1, <1>2, <1>3, <1>4, <1>5, NormsSteps DEF IInv


\* The right-hand sides of a row line are the caller's.
LEMMA RowDataAdded ==
  ASSUME CallInv, ~WrongGrid(call.grid), NEW p \in Procs
  PROVE  BagSum([q \in RowLine(p) |-> RowData(q)]) = SetToBag(Rows)
<1> DEFINE d == Dims(call.grid)
           S == RowLine(p)
           rows(q) == {CallersRow(call.order, r + OwnedBy(q).start) : r \in 1..OwnedBy(q).m}
           data == [q \in S |-> rows(q)]
<1>1. \A q \in S : RowData(q) = SetToBag(rows(q))
  <2> TAKE q \in S
  <2>1. PartOf(q).m = OwnedBy(q).m
    BY DEF PartOf, partition_problem
  <2> QED BY <2>1 DEF RowData, RhsData
<1>2. ASSUME NEW q \in Procs
      PROVE  /\ rows(q) \subseteq Rows
             /\ \A x \in Rows : x \in rows(q) <=> HasRow(q, NewRow(call.order, x))
  <2> DEFINE own == OwnedBy(q)
  <2>1. own.start \in Nat /\ own.m \in Nat /\ RowsOf(own) = (own.start + 1)..(own.start + own.m)
        /\ RowsOf(own) \subseteq Rows
    BY RowsDivided DEF RowsOf
  <2>2. \A x : x \in rows(q) <=> \E r \in 1..own.m : x = CallersRow(call.order, r + own.start)
    OBVIOUS
  <2> HIDE DEF own, rows
  <2>3. ASSUME NEW r \in 1..own.m
        PROVE  LET x == CallersRow(call.order, r + own.start)
               IN  x \in Rows /\ NewRow(call.order, x) \in RowsOf(own)
    <3> DEFINE i == r + own.start
    <3>1. i \in RowsOf(own)
      BY <2>1
    <3> HIDE DEF i
    <3>2. CallersRow(call.order, i) \in Rows /\ NewRow(call.order, CallersRow(call.order, i)) = i
      BY <2>1, <3>1, CallersOrder, NewRowInverts
    <3> QED BY <3>1, <3>2 DEF i
  <2>4. ASSUME NEW x \in Rows, NewRow(call.order, x) \in RowsOf(own)
        PROVE  \E r \in 1..own.m : x = CallersRow(call.order, r + own.start)
    <3> DEFINE i == NewRow(call.order, x)
               r == i - own.start
    <3>1. CallersRow(call.order, i) = x
      BY CallersOrder, NewRowInverts
    <3>2. i \in RowsOf(own)
      BY <2>4
    <3> HIDE DEF i
    <3>3. r \in 1..own.m /\ r + own.start = i
      BY <2>1, <3>2
    <3> QED BY <3>1, <3>3
  <2> QED BY <2>2, <2>3, <2>4 DEF HasRow, own
<1>3. \A q \in S : q \in Procs /\ Coordinates(q)[2] = Coordinates(p)[2]
                   /\ Coordinates(q)[3] = Coordinates(p)[3]
  BY DEF RowLine
<1> HIDE DEF rows, d
<1>4. \A q, r \in S : \A x : x \in rows(q) /\ x \in rows(r) => q = r
  <2> TAKE q, r \in S
  <2> TAKE x
  <2> HAVE x \in rows(q) /\ x \in rows(r)
  <2>1. q \in Procs /\ r \in Procs
    BY <1>3
  <2>2. x \in Rows /\ HasRow(q, NewRow(call.order, x)) /\ HasRow(r, NewRow(call.order, x))
    BY <1>2, <2>1
  <2>3. NewRow(call.order, x) \in Rows
    BY <2>2, CallersOrder, NewRowInverts
  <2>4. Coordinates(q)[1] = Coordinates(r)[1]
    BY <2>1, <2>2, <2>3, RowsDivided
  <2> QED BY <1>3, <2>4, OneProcessAt
<1>5. \A x \in Rows : \E q \in S : x \in rows(q)
  <2> TAKE x \in Rows
  <2>1. NewRow(call.order, x) \in Rows
    BY CallersOrder, NewRowInverts
  <2>2. PICK i \in 0..(d[1] - 1) : \A q \in Procs :
          Coordinates(q)[1] = i => HasRow(q, NewRow(call.order, x))
    BY <2>1, RowsDivided DEF d
  <2>3. Coordinates(p)[2] \in 0..(d[2] - 1) /\ Coordinates(p)[3] \in 0..(d[3] - 1)
    BY OneProcessAt DEF d
  <2>4. PICK q \in Procs : Coordinates(q) = <<i, Coordinates(p)[2], Coordinates(p)[3]>>
    BY <2>3, OneProcessAt DEF d
  <2> QED BY <1>2, <2>2, <2>4 DEF RowLine
<1>6. IsFiniteSet(S)
  <2>1. IsFiniteSet(Procs)
    BY WorldAssumption, FS_Interval DEF Procs
  <2> QED BY <2>1, FS_Subset DEF RowLine
<1> HIDE DEF S
<1>7. \A q \in S : data[q] = rows(q)
  OBVIOUS
<1>8. UNION {data[q] : q \in S} = Rows
  <2>1. \A q \in S : rows(q) \subseteq Rows
    BY <1>2, <1>3
  <2> QED BY <1>5, <1>7, <2>1
<1>9. \A q, r \in S : \A x : x \in data[q] /\ x \in data[r] => q = r
  BY <1>4, <1>7
<1> HIDE DEF data
<1>10. BagSum([q \in S |-> SetToBag(data[q])]) = SetToBag(Rows)
  BY <1>6, <1>8, <1>9, DisjointSum
<1>11. [q \in S |-> SetToBag(data[q])] = [q \in S |-> RowData(q)]
  BY <1>1, <1>7
<1> QED BY <1>10, <1>11 DEF S

\* The low-rank columns of the objective on the processes of a cone line.
ColumnNames(q) ==
  {<<"L", Coordinates(q)[3], i>> : i \in {i \in DOMAIN PartOf(q).L : PartOf(q).L[i].row = objective}}
LineColumns(p) == UNION {ColumnNames(q) : q \in ConeLine(p)}

LEMMA ConeDataAdded ==
  ASSUME CallInv, ~WrongGrid(call.grid), NEW p \in Procs
  PROVE  BagSum([q \in ConeLine(p) |-> ConeData(q)])
           = SetToBag({<<"c", v>> : v \in DOMAIN Caller.c} \union LineColumns(p))
<1> DEFINE d == Dims(call.grid)
           S == ConeLine(p)
           terms(q) == {<<"c", v>> : v \in DOMAIN PartOf(q).c}
           data == [q \in S |-> terms(q) \union ColumnNames(q)]
           all == {<<"c", v>> : v \in DOMAIN Caller.c}
<1>1. \A q \in S : ConeData(q) = SetToBag(terms(q) \union ColumnNames(q))
  BY DEF ConeData, ObjectiveData, ColumnNames
<1>2. \A q \in S : q \in Procs /\ Coordinates(q)[1] = Coordinates(p)[1]
                   /\ Coordinates(q)[2] = Coordinates(p)[2]
  BY DEF ConeLine
<1>3. DOMAIN Caller.c \subseteq Vars /\ DOMAIN ScaledCopy.problem.c = DOMAIN Caller.c
  BY ScaledShape, PermutedProblem DEF Transmissible
<1>4. \A q \in Procs : \A v : v \in DOMAIN PartOf(q).c <=>
                              v \in DOMAIN Caller.c /\ VarOwner(v) = Coordinates(q)[3]
  <2> TAKE q \in Procs
  <2>1. DOMAIN PartOf(q).c = {v \in DOMAIN ScaledCopy.problem.c : Owned(OwnedBy(q), v)}
    BY DEF PartOf, partition_problem
  <2>2. \A v \in Vars : Owned(OwnedBy(q), v) <=> VarOwner(v) = Coordinates(q)[3]
    BY OwnedVars
  <2> QED BY <1>3, <2>1, <2>2
<1>5. \A q, r \in S : Coordinates(q)[3] = Coordinates(r)[3] => q = r
  BY <1>2, OneProcessAt
<1>6. \A q, r \in S : \A x : /\ x \in terms(q) \union ColumnNames(q)
                             /\ x \in terms(r) \union ColumnNames(r)
                             => q = r
  <2> TAKE q, r \in S
  <2> TAKE x
  <2> HAVE x \in terms(q) \union ColumnNames(q) /\ x \in terms(r) \union ColumnNames(r)
  <2>1. CASE x[1] = "c"
    <3>1. x \notin ColumnNames(q) /\ x \notin ColumnNames(r)
      BY <2>1 DEF ColumnNames
    <3>2. x[2] \in DOMAIN PartOf(q).c /\ x[2] \in DOMAIN PartOf(r).c
      BY <3>1
    <3>3. VarOwner(x[2]) = Coordinates(q)[3] /\ VarOwner(x[2]) = Coordinates(r)[3]
      BY <1>2, <1>4, <3>2
    <3> QED BY <1>5, <3>3
  <2>2. CASE x[1] # "c"
    <3>1. x \notin terms(q) /\ x \notin terms(r)
      BY <2>2
    <3>2. x[2] = Coordinates(q)[3] /\ x[2] = Coordinates(r)[3]
      BY <3>1 DEF ColumnNames
    <3> QED BY <1>5, <3>2
  <2> QED BY <2>1, <2>2
<1> HIDE DEF d
<1>7. ASSUME NEW v \in DOMAIN Caller.c PROVE \E q \in S : v \in DOMAIN PartOf(q).c
  <2>1. /\ VarOwner(v) \in 0..(d[3] - 1)
        /\ Coordinates(p)[1] \in 0..(d[1] - 1) /\ Coordinates(p)[2] \in 0..(d[2] - 1)
    BY <1>3, OwnersOfCall, OneProcessAt DEF d
  <2>2. PICK q \in Procs : Coordinates(q) = <<Coordinates(p)[1], Coordinates(p)[2], VarOwner(v)>>
    BY <2>1, OneProcessAt DEF d
  <2> QED BY <1>4, <2>2 DEF ConeLine
<1>8. UNION {terms(q) : q \in S} = all
  <2>1. \A q \in S : terms(q) \subseteq all
    BY <1>2, <1>4
  <2>2. \A x \in all : \E q \in S : x \in terms(q)
    BY <1>7
  <2> HIDE DEF terms, all, S
  <2> QED BY <2>1, <2>2
<1>9. IsFiniteSet(S)
  <2>1. IsFiniteSet(Procs)
    BY WorldAssumption, FS_Interval DEF Procs
  <2> QED BY <2>1, FS_Subset DEF ConeLine
<1>10. UNION {ColumnNames(q) : q \in S} = LineColumns(p)
  BY DEF LineColumns
<1> HIDE DEF S, terms, all
<1>11. \A q \in S : data[q] = terms(q) \union ColumnNames(q)
  OBVIOUS
<1>12. UNION {data[q] : q \in S} = all \union LineColumns(p)
  BY <1>8, <1>10, <1>11
<1>13. \A q, r \in S : \A x : x \in data[q] /\ x \in data[r] => q = r
  BY <1>6, <1>11
<1> HIDE DEF data
<1>14. BagSum([q \in S |-> SetToBag(data[q])]) = SetToBag(all \union LineColumns(p))
  BY <1>9, <1>12, <1>13, DisjointSum
<1>15. [q \in S |-> SetToBag(data[q])] = [q \in S |-> ConeData(q)]
  BY <1>1, <1>11
<1> QED BY <1>14, <1>15 DEF S, all


\* A local column is one of the objective if the caller's is.
LEMMA LocalRow ==
  ASSUME CallInv, ~WrongGrid(call.grid), NEW p \in Procs, NEW j \in DOMAIN Caller.L,
         KeptColumn(OwnedBy(p), Coordinates(p)[1], ScaledCopy.problem.L[j])
  PROVE  LocalColumn(OwnedBy(p), ScaledCopy.problem.L[j]).row = objective
           <=> Caller.L[j].row = objective
<1> DEFINE own == OwnedBy(p)
           mid == ScaledCopy.problem.L[j]
           new == LocalColumn(own, mid)
<1>1. own.start \in Nat /\ own.m \in Nat /\ RowsOf(own) = (own.start + 1)..(own.start + own.m)
  BY RowsDivided DEF RowsOf
<1>2. mid.row = objective <=> Caller.L[j].row = objective
  BY KeptIsHeld
<1>3. mid.row = objective \/ mid.row \in RowsOf(own)
  BY DEF KeptColumn
<1>4. DOMAIN mid = {"row", "cone", "w", "u"}
  BY ScaledBack DEF ColumnBack
<1>5. new.row = IF mid.row = objective THEN mid.row ELSE mid.row - own.start
  BY <1>4 DEF LocalColumn
<1> HIDE DEF own, mid, new
<1>6. mid.row # objective => new.row # objective
  BY <1>1, <1>3, <1>5 DEF objective
<1>7. mid.row = objective => new.row = objective
  BY <1>5
<1>8. new.row = objective <=> Caller.L[j].row = objective
  BY <1>2, <1>6, <1>7
<1> QED BY <1>8 DEF own, mid, new

\* On the first row, the lines' columns of the objective are the caller's.
LEMMA LineColumnsCounted ==
  ASSUME CallInv, ~WrongGrid(call.grid), NEW p \in Procs, Coordinates(p)[1] = 0
  PROVE  LET J == {j \in DOMAIN Caller.L : Caller.L[j].row = objective}
         IN  IsFiniteSet(LineColumns(p)) /\ Cardinality(LineColumns(p)) = Cardinality(J)
<1> DEFINE d == Dims(call.grid)
           S == ConeLine(p)
           J == {j \in DOMAIN Caller.L : Caller.L[j].row = objective}
           X == LineColumns(p)
           at(k) == CHOOSE q \in S : Coordinates(q)[3] = k
           f == [x \in X |-> KeptList(at(x[2]))[x[3]]]
<1>1. \A q \in S : q \in Procs /\ Coordinates(q)[1] = 0
                   /\ Coordinates(q)[2] = Coordinates(p)[2]
  BY DEF ConeLine
<1>2. \A q, r \in S : Coordinates(q)[3] = Coordinates(r)[3] => q = r
  BY <1>1, OneProcessAt
<1>3. \A q \in S : at(Coordinates(q)[3]) = q
  BY <1>2
<1>4. \A x : x \in X <=> \E q \in S : \E i \in DOMAIN PartOf(q).L :
                           /\ x = <<"L", Coordinates(q)[3], i>>
                           /\ PartOf(q).L[i].row = objective
  BY DEF LineColumns, ColumnNames
<1>5. ASSUME NEW q \in S
      PROVE  /\ \A i \in DOMAIN PartOf(q).L :
                  /\ KeptList(q)[i] \in DOMAIN Caller.L
                  /\ ConeOwner(Caller.L[KeptList(q)[i]].cone) = Coordinates(q)[3]
                  /\ PartOf(q).L[i].row = objective <=> KeptList(q)[i] \in J
             /\ \A j \in J : ConeOwner(Caller.L[j].cone) = Coordinates(q)[3] =>
                  \E i \in DOMAIN PartOf(q).L : KeptList(q)[i] = j
             /\ \A h, i \in DOMAIN PartOf(q).L : KeptList(q)[h] = KeptList(q)[i] => h = i
  <2> DEFINE own == OwnedBy(q)
             old == ScaledCopy.problem.L
             new == PartOf(q).L
             list == KeptList(q)
             kept(j) == KeptColumn(own, Coordinates(q)[1], old[j])
  <2>1. /\ \A i \in DOMAIN new : /\ list[i] \in DOMAIN Caller.L /\ kept(list[i])
                                 /\ new[i] = LocalColumn(own, old[list[i]])
        /\ \A j \in DOMAIN Caller.L : kept(j) => \E i \in DOMAIN new : list[i] = j
        /\ \A h, i \in DOMAIN new : list[h] = list[i] => h = i
    BY <1>1, KeptColumns
  <2>2. \A j \in DOMAIN Caller.L : kept(j) <=> HoldsColumn(q, Caller.L[j])
    BY <1>1, KeptIsHeld
  <2>3. \A j \in DOMAIN Caller.L : kept(j) =>
          (LocalColumn(own, old[j]).row = objective <=> Caller.L[j].row = objective)
    BY <1>1, LocalRow
  <2> HIDE DEF own, old, new, list, kept, S
  <2>4. \A i \in DOMAIN new : new[i].row = objective <=> list[i] \in J
    BY <2>1, <2>3
  <2>5. \A i \in DOMAIN new : ConeOwner(Caller.L[list[i]].cone) = Coordinates(q)[3]
    BY <2>1, <2>2 DEF HoldsColumn
  <2>6. ASSUME NEW j \in J, ConeOwner(Caller.L[j].cone) = Coordinates(q)[3]
        PROVE  \E i \in DOMAIN new : list[i] = j
    <3>1. HoldsColumn(q, Caller.L[j])
      BY <1>1, <2>6 DEF HoldsColumn
    <3> QED BY <2>1, <2>2, <3>1
  <2> QED BY <2>1, <2>4, <2>5, <2>6 DEF new, list
<1>6. \A j \in J : \E q \in S : ConeOwner(Caller.L[j].cone) = Coordinates(q)[3]
  <2> TAKE j \in J
  <2>1. ConeOwner(Caller.L[j].cone) \in 0..(d[3] - 1)
    BY KeptIsHeld, OwnersOfCall
  <2>2. 0 \in 0..(d[1] - 1) /\ Coordinates(p)[2] \in 0..(d[2] - 1)
    BY OneProcessAt
  <2> HIDE DEF d
  <2>3. PICK q \in Procs : Coordinates(q) = <<0, Coordinates(p)[2], ConeOwner(Caller.L[j].cone)>>
    BY <2>1, <2>2, OneProcessAt DEF d
  <2> QED BY <2>3 DEF ConeLine
<1> HIDE DEF d, S, X, J, at
<1>7. ASSUME NEW x \in X
      PROVE  \E q \in S : \E i \in DOMAIN PartOf(q).L :
               /\ x = <<"L", Coordinates(q)[3], i>> /\ f[x] = KeptList(q)[i] /\ f[x] \in J
  <2>1. PICK q \in S : \E i \in DOMAIN PartOf(q).L :
          x = <<"L", Coordinates(q)[3], i>> /\ PartOf(q).L[i].row = objective
    BY <1>4
  <2>2. PICK i \in DOMAIN PartOf(q).L :
          x = <<"L", Coordinates(q)[3], i>> /\ PartOf(q).L[i].row = objective
    BY <2>1
  <2>3. at(x[2]) = q /\ x[3] = i
    BY <1>3, <2>2
  <2>4. f[x] = KeptList(q)[i]
    BY <2>3
  <2> QED BY <1>5, <2>2, <2>4
<1> HIDE DEF f
<1>8. f \in [X -> J]
  BY <1>7 DEF f
<1>9. \A x, y \in X : f[x] = f[y] => x = y
  <2> TAKE x, y \in X
  <2> HAVE f[x] = f[y]
  <2>1. PICK q \in S : \E i \in DOMAIN PartOf(q).L :
          x = <<"L", Coordinates(q)[3], i>> /\ f[x] = KeptList(q)[i]
    BY <1>7
  <2>2. PICK i \in DOMAIN PartOf(q).L :
          x = <<"L", Coordinates(q)[3], i>> /\ f[x] = KeptList(q)[i]
    BY <2>1
  <2>3. PICK r \in S : \E h \in DOMAIN PartOf(r).L :
          y = <<"L", Coordinates(r)[3], h>> /\ f[y] = KeptList(r)[h]
    BY <1>7
  <2>4. PICK h \in DOMAIN PartOf(r).L :
          y = <<"L", Coordinates(r)[3], h>> /\ f[y] = KeptList(r)[h]
    BY <2>3
  <2>5. Coordinates(q)[3] = Coordinates(r)[3]
    BY <1>5, <2>2, <2>4
  <2>6. q = r
    BY <1>2, <2>5
  <2>7. i = h
    BY <1>5, <2>2, <2>4, <2>6
  <2> QED BY <2>2, <2>4, <2>6, <2>7
<1>10. \A j \in J : \E x \in X : f[x] = j
  <2> TAKE j \in J
  <2>1. PICK q \in S : ConeOwner(Caller.L[j].cone) = Coordinates(q)[3]
    BY <1>6
  <2>2. PICK i \in DOMAIN PartOf(q).L : KeptList(q)[i] = j
    BY <1>5, <2>1
  <2> DEFINE x == <<"L", Coordinates(q)[3], i>>
  <2>3. PartOf(q).L[i].row = objective
    BY <1>5, <2>2
  <2>4. x \in X
    BY <1>4, <2>3
  <2>5. at(x[2]) = q /\ x[3] = i
    BY <1>3
  <2> HIDE DEF x
  <2>6. f[x] = KeptList(q)[i]
    BY <2>4, <2>5 DEF f
  <2> QED BY <2>2, <2>4, <2>6
<1>11. IsFiniteSet(J)
  <2>1. IsFiniteSet(DOMAIN Caller.L)
    BY PermutedIsProblem, PermutedProblem DEF IsProblem
  <2>2. J \subseteq DOMAIN Caller.L
    BY DEF J
  <2> QED BY <2>1, <2>2, FS_Subset
<1>12. f \in Injection(X, J) /\ f \in Surjection(X, J)
  BY <1>8, <1>9, <1>10 DEF Injection, Surjection, IsInjective
<1>13. IsFiniteSet(X) /\ Cardinality(X) = Cardinality(J)
  BY <1>11, <1>12, FS_Injection
<1> QED BY <1>13 DEF X, J

\* After the reductions before the solve every process has the norms of the
\* whole problem: each right-hand side and each term of the objective counts
\* once, and on the first row, which alone keeps the objective's low-rank
\* columns, each of them does (preprocess_distributed_solver).
THEOREM NormsAlwaysCountOnce == Spec => []NormsCountOnce
<1> DEFINE Inv == PlacedTogether /\ NormsInv
<1>1. Init => Inv
  <2>1. Init => \A p \in Procs : pc[p] = "start"
    BY DEF Init
  <2> QED BY <2>1 DEF PlacedTogether, NormsInv, Unplaced, Preparing
<1>2. IInv /\ Inv /\ [Next]_vars => Inv'
  BY PlacedTogetherStep, NormsInvStep DEF IInv
<1>3. IInv /\ Inv => NormsCountOnce
  <2> SUFFICES ASSUME IInv, Inv, At(Procs, "solve"), NEW p \in Procs
               PROVE  /\ norms[p].b = SetToBag(Rows)
                      /\ \A v \in DOMAIN Caller.c : BagIn(<<"c", v>>, norms[p].c)
                      /\ \A d \in BagToSet(norms[p].c) : norms[p].c[d] = 1
                      /\ my_row(p) = 0 =>
                           Cardinality(BagToSet(norms[p].c)) =
                             Cardinality(DOMAIN Caller.c)
                               + Cardinality({j \in DOMAIN Caller.L : Caller.L[j].row = objective})
    BY DEF NormsCountOnce
  <2> DEFINE C == {<<"c", v>> : v \in DOMAIN Caller.c}
             X == LineColumns(p)
             J == {j \in DOMAIN Caller.L : Caller.L[j].row = objective}
  <2>1. CallInv /\ ~WrongGrid(call.grid) /\ my_row(p) = Coordinates(p)[1]
    BY ReadyShape DEF Ready
  <2>2. /\ BagSum([q \in RowLine(p) |-> RowData(q)]) = SetToBag(Rows)
        /\ BagSum([q \in ConeLine(p) |-> ConeData(q)]) = SetToBag(C \union X)
    BY <2>1, RowDataAdded, ConeDataAdded
  <2>3. norms[p] = NormsAt(p, "solve")
    BY DEF At, NormsInv
  <2>4. norms[p] = [b |-> SetToBag(Rows), c |-> SetToBag(C \union X)]
    BY <2>2, <2>3 DEF NormsAt
  <2> HIDE DEF C, X, J, Inv
  <2>5. norms[p].b = SetToBag(Rows) /\ norms[p].c = [x \in C \union X |-> 1]
    BY <2>4 DEF SetToBag
  <2>6. \A v \in DOMAIN Caller.c : BagIn(<<"c", v>>, norms[p].c)
    BY <2>5 DEF BagIn, BagToSet, C
  <2>7. \A x \in BagToSet(norms[p].c) : norms[p].c[x] = 1
    BY <2>5 DEF BagToSet
  <2>8. ASSUME my_row(p) = 0
        PROVE  Cardinality(BagToSet(norms[p].c)) = Cardinality(DOMAIN Caller.c) + Cardinality(J)
    <3>1. IsFiniteSet(X) /\ Cardinality(X) = Cardinality(J)
      BY <2>1, <2>8, LineColumnsCounted DEF X, J
    <3>2. IsFiniteSet(C) /\ Cardinality(C) = Cardinality(DOMAIN Caller.c)
      <4> DEFINE D == DOMAIN Caller.c
                 f == [v \in D |-> <<"c", v>>]
      <4>1. IsFiniteSet(D)
        BY <2>1, PermutedIsProblem, PermutedProblem DEF IsProblem
      <4>2. f \in [D -> C] /\ (\A v, w \in D : f[v] = f[w] => v = w)
            /\ \A x \in C : \E v \in D : f[v] = x
        BY DEF C
      <4> HIDE DEF D, f
      <4>3. f \in Bijection(D, C)
        BY <4>2 DEF Bijection, Injection, Surjection, IsInjective
      <4>4. ExistsBijection(D, C)
        BY <4>3 DEF ExistsBijection
      <4> QED BY <4>1, <4>4, FS_Bijection DEF D
    <3>3. C \intersect X = {}
      BY DEF C, X, LineColumns, ColumnNames
    <3>4. Cardinality(C \union X) = Cardinality(C) + Cardinality(X) - 0
      BY <3>1, <3>2, <3>3, FS_Union, FS_EmptySet
    <3>5. Cardinality(C) \in Nat /\ Cardinality(X) \in Nat
      BY <3>1, <3>2, FS_CardinalityType
    <3>6. BagToSet(norms[p].c) = C \union X
      BY <2>5 DEF BagToSet
    <3> QED BY <3>1, <3>2, <3>4, <3>5, <3>6
  <2> QED BY <2>5, <2>6, <2>7, <2>8 DEF J
<1> QED BY <1>1, <1>2, <1>3, IInvHolds, PTL DEF Spec
=============================================================================
