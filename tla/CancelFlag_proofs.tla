------------------------- MODULE CancelFlag_proofs -------------------------
(***************************************************************************)
(* Theorems about CancelFlag, for any set of threads and any number of     *)
(* solves and requests.                                                    *)
(***************************************************************************)
EXTENDS CancelFlag, TLAPS

\* While the flag is up, every solve that will read it has been asked to stop.
FlagInv ==
  g_cardal_cancel_request =>
    \A t \in Threads : InSolve(t) => requested[t] # "never"

\* What was read of the flag is of the solve that read it.
ReadInv ==
  \A t \in Threads :
    pc[t] = "read" /\ was_cancelled[t] => requested[t] # "never"

\* The outcome is that of a solve that is over.
OutcomeInv == \A t \in Threads : pc[t] # "outside" => outcome[t] = "none"

\* While a solve is alone, nobody can clear the flag that it will read.
AloneInv ==
  \A t \in Threads :
    InSolve(t) /\ alone[t] =>
      /\ \A u \in Threads : u # t => pc[u] = "outside"
      /\ requested[t] # "never" => g_cardal_cancel_request
      /\ status[t] = "USER_INTERRUPT" => g_cardal_cancel_request

AloneReadInv ==
  \A t \in Threads :
    /\ pc[t] = "read"
    /\ alone[t]
    /\ requested[t] # "never" \/ status[t] = "USER_INTERRUPT"
    => was_cancelled[t]

\* While no two solves have overlapped, one wrapper is active at most, and it
\* has the process's own handler to put back.
HandlerInv ==
  ~overlapped =>
    /\ \A t, u \in Threads : pc[t] # "outside" /\ pc[u] # "outside" => t = u
    /\ \A t \in Threads :
         pc[t] \in {"solving", "stopped"} => prev_sigint[t] = "previous"
    /\ (\A t \in Threads : pc[t] \notin {"solving", "stopped"})
       => handler = "previous"

IInv ==
  /\ TypeOK
  /\ FlagInv /\ ReadInv /\ InterruptWasRequested
  /\ OutcomeInv /\ AloneInv /\ AloneReadInv /\ LoneSolveReportsCancel
  /\ HandlerInv
-----------------------------------------------------------------------------
\* The process starts with no solve, no request and its own handler.
LEMMA InitIInv == Init => IInv
  <1> SUFFICES ASSUME Init PROVE IInv
    OBVIOUS
  <1> USE DEF Init, InSolve
  <1>1. TypeOK
    <2>1. solves \in [Threads -> 0..MaxSolves] /\ requests \in 0..MaxRequests
      BY BoundsAssumption
    <2>2. alone \in [Threads -> BOOLEAN] /\ was_cancelled \in [Threads -> BOOLEAN]
      OBVIOUS
    <2> QED BY <2>1, <2>2 DEF TypeOK, Handler, Status, Outcome, Time
  <1>2. FlagInv /\ ReadInv /\ InterruptWasRequested
    BY DEF FlagInv, ReadInv, InterruptWasRequested
  <1>3. OutcomeInv /\ AloneInv /\ AloneReadInv /\ LoneSolveReportsCancel
    BY DEF OutcomeInv, AloneInv, AloneReadInv, LoneSolveReportsCancel
  <1>4. HandlerInv
    BY DEF HandlerInv
  <1> QED BY <1>1, <1>2, <1>3, <1>4 DEF IInv

\* A request, by whichever way it comes, marks every solve it reaches.
LEMMA RequestKeepsIInv ==
  ASSUME IInv, cardal_request_cancel
  PROVE  IInv'
  <1> USE DEF IInv, cardal_request_cancel, wrapper, InSolve
  <1>1. TypeOK'
    BY BoundsAssumption DEF TypeOK, Handler, Status, Outcome, Time
  <1>2. FlagInv' /\ ReadInv' /\ InterruptWasRequested'
    BY DEF TypeOK, Time, FlagInv, ReadInv, InterruptWasRequested
  <1>3. OutcomeInv' /\ AloneInv'
    BY DEF TypeOK, OutcomeInv, AloneInv
  <1>4. AloneReadInv' /\ LoneSolveReportsCancel'
    BY DEF TypeOK, OutcomeInv, AloneReadInv, LoneSolveReportsCancel
  <1>5. HandlerInv'
    BY DEF HandlerInv
  <1> QED BY <1>1, <1>2, <1>3, <1>4, <1>5

\* A new solve starts with the flag down.
LEMMA EnterKeepsIInv ==
  ASSUME NEW t \in Threads, IInv, Enter(t)
  PROVE  IInv'
  <1> USE DEF IInv, Enter, InSolve
  <1>1. TypeOK'
    <2>1. solves' \in [Threads -> 0..MaxSolves]
      BY BoundsAssumption DEF TypeOK
    <2>2. alone' \in [Threads -> BOOLEAN] /\ overlapped' \in BOOLEAN
      BY DEF TypeOK
    <2>3. \A u \in Threads :
            pc'[u] \in {"install", "restored", "read"} => gil' = u
      BY ThreadsAssumption DEF TypeOK
    <2>4. /\ pc' \in [Threads -> {"outside", "install", "solving", "stopped",
                                  "restored", "read"}]
          /\ status' \in [Threads -> Status]
          /\ outcome' \in [Threads -> Outcome]
          /\ requested' \in [Threads -> Time]
      BY DEF TypeOK, Status, Outcome, Time
    <2> QED BY <2>1, <2>2, <2>3, <2>4 DEF TypeOK
  <1>2. FlagInv' /\ ReadInv' /\ InterruptWasRequested'
    BY DEF TypeOK, FlagInv, ReadInv, InterruptWasRequested
  <1>3. \A u \in Threads : pc[u] \notin {"install", "restored", "read"}
    BY ThreadsAssumption DEF TypeOK
  <1>4. OutcomeInv'
    BY DEF TypeOK, OutcomeInv
  <1>5. AloneInv'
    BY <1>3 DEF TypeOK, AloneInv
  <1>6. AloneReadInv' /\ LoneSolveReportsCancel'
    BY DEF TypeOK, AloneReadInv, LoneSolveReportsCancel
  <1>7. HandlerInv'
    BY <1>3 DEF TypeOK, HandlerInv
  <1> QED BY <1>1, <1>2, <1>4, <1>5, <1>6, <1>7

\* The handler that is put aside is the process's own, if solves do not overlap.
LEMMA InstallKeepsIInv ==
  ASSUME NEW t \in Threads, IInv, Install(t)
  PROVE  IInv'
  <1> USE DEF IInv, Install, history, InSolve
  <1>1. TypeOK'
    BY ThreadsAssumption DEF TypeOK, Handler
  <1>2. FlagInv' /\ ReadInv' /\ InterruptWasRequested'
    BY DEF TypeOK, FlagInv, ReadInv, InterruptWasRequested
  <1>3. OutcomeInv' /\ AloneInv' /\ AloneReadInv' /\ LoneSolveReportsCancel'
    BY DEF TypeOK, OutcomeInv, AloneInv, AloneReadInv, LoneSolveReportsCancel
  <1>4. HandlerInv'
    BY DEF TypeOK, HandlerInv
  <1> QED BY <1>1, <1>2, <1>3, <1>4

\* A solve that reports an interruption has seen the flag up.
LEMMA StopKeepsIInv ==
  ASSUME NEW t \in Threads, IInv,
         Cancelled(t) \/ Finish(t) \/ Fail(t)
  PROVE  IInv'
  <1>1. PICK how \in Status :
          /\ Stop(t, how)
          /\ how = "USER_INTERRUPT" => g_cardal_cancel_request
    BY DEF Cancelled, Finish, Fail, Status
  <1> USE <1>1 DEF IInv, Stop, history, InSolve
  <1>2. TypeOK'
    BY DEF TypeOK
  <1>3. FlagInv' /\ ReadInv' /\ InterruptWasRequested'
    BY DEF TypeOK, FlagInv, ReadInv, InterruptWasRequested
  <1>4. OutcomeInv'
    BY DEF TypeOK, OutcomeInv
  <1>5. AloneInv'
    BY DEF TypeOK, AloneInv
  <1>6. AloneReadInv' /\ LoneSolveReportsCancel'
    BY DEF TypeOK, OutcomeInv, AloneReadInv, LoneSolveReportsCancel
  <1>7. HandlerInv'
    BY DEF TypeOK, HandlerInv
  <1> QED BY <1>2, <1>3, <1>4, <1>5, <1>6, <1>7

\* The handler that was found comes back.
LEMMA RestoreKeepsIInv ==
  ASSUME NEW t \in Threads, IInv, Restore(t)
  PROVE  IInv'
  <1> USE DEF IInv, Restore, history, InSolve
  <1>1. TypeOK'
    BY ThreadsAssumption DEF TypeOK
  <1>2. FlagInv' /\ ReadInv' /\ InterruptWasRequested'
    BY DEF TypeOK, FlagInv, ReadInv, InterruptWasRequested
  <1>3. OutcomeInv' /\ AloneInv' /\ AloneReadInv' /\ LoneSolveReportsCancel'
    BY DEF TypeOK, OutcomeInv, AloneInv, AloneReadInv, LoneSolveReportsCancel
  <1>4. HandlerInv'
    BY DEF TypeOK, HandlerInv
  <1> QED BY <1>1, <1>2, <1>3, <1>4

\* What is read of the flag is justified by a request to this solve.
LEMMA ReadKeepsIInv ==
  ASSUME NEW t \in Threads, IInv, Read(t)
  PROVE  IInv'
  <1> USE DEF IInv, Read, history, InSolve
  <1>1. TypeOK'
    BY DEF TypeOK
  <1>2. FlagInv' /\ ReadInv' /\ InterruptWasRequested'
    BY DEF TypeOK, FlagInv, ReadInv, InterruptWasRequested
  <1>3. OutcomeInv' /\ AloneInv'
    BY DEF TypeOK, OutcomeInv, AloneInv
  <1>4. AloneReadInv'
    BY DEF TypeOK, AloneInv, AloneReadInv
  <1>5. LoneSolveReportsCancel'
    BY DEF TypeOK, LoneSolveReportsCancel
  <1>6. HandlerInv'
    BY DEF TypeOK, HandlerInv
  <1> QED BY <1>1, <1>2, <1>3, <1>4, <1>5, <1>6

\* The outcome follows what was read; the flag is put down for nobody else, as
\* far as a solve is alone.
LEMMA LeaveKeepsIInv ==
  ASSUME NEW t \in Threads, IInv, Leave(t)
  PROVE  IInv'
  <1> USE DEF IInv, Leave, history, InSolve
  <1>1. TypeOK'
    BY ThreadsAssumption DEF TypeOK, Outcome
  <1>2. FlagInv' /\ ReadInv' /\ InterruptWasRequested'
    BY DEF TypeOK, FlagInv, ReadInv, InterruptWasRequested
  <1>3. OutcomeInv'
    BY DEF TypeOK, OutcomeInv
  <1>4. AloneInv'
    BY DEF TypeOK, AloneInv
  <1>5. AloneReadInv' /\ LoneSolveReportsCancel'
    BY DEF TypeOK, AloneReadInv, LoneSolveReportsCancel
  <1>6. HandlerInv'
    BY DEF TypeOK, HandlerInv
  <1> QED BY <1>1, <1>2, <1>3, <1>4, <1>5, <1>6

\* No variable of the module changes, so nothing does.
LEMMA StutterKeepsIInv ==
  ASSUME IInv, UNCHANGED vars
  PROVE  IInv'
  <1> USE DEF vars, wrapper, history, InSolve
  <1>1. TypeOK'
    BY DEF IInv, TypeOK
  <1>2. FlagInv' /\ ReadInv' /\ InterruptWasRequested'
    BY DEF IInv, FlagInv, ReadInv, InterruptWasRequested
  <1>3. OutcomeInv' /\ AloneInv' /\ AloneReadInv' /\ LoneSolveReportsCancel'
    BY DEF IInv, OutcomeInv, AloneInv, AloneReadInv, LoneSolveReportsCancel
  <1>4. HandlerInv'
    BY DEF IInv, HandlerInv
  <1> QED BY <1>1, <1>2, <1>3, <1>4 DEF IInv
-----------------------------------------------------------------------------
\* The invariant holds in every state of the wrapper and its threads.
THEOREM Inductive == Spec => []IInv
  <1>1. Init => IInv
    BY InitIInv
  <1>2. IInv /\ [Next]_vars => IInv'
    <2> SUFFICES ASSUME IInv, [Next]_vars PROVE IInv'
      OBVIOUS
    <2>1. CASE cardal_sigint_handler \/ request_cancel
      BY <2>1, RequestKeepsIInv DEF cardal_sigint_handler, request_cancel
    <2>2. ASSUME NEW t \in Threads, Enter(t) PROVE IInv'
      BY <2>2, EnterKeepsIInv
    <2>3. ASSUME NEW t \in Threads, Install(t) PROVE IInv'
      BY <2>3, InstallKeepsIInv
    <2>4. ASSUME NEW t \in Threads, Cancelled(t) \/ Finish(t) \/ Fail(t)
          PROVE  IInv'
      BY <2>4, StopKeepsIInv
    <2>5. ASSUME NEW t \in Threads, Restore(t) PROVE IInv'
      BY <2>5, RestoreKeepsIInv
    <2>6. ASSUME NEW t \in Threads, Read(t) PROVE IInv'
      BY <2>6, ReadKeepsIInv
    <2>7. ASSUME NEW t \in Threads, Leave(t) PROVE IInv'
      BY <2>7, LeaveKeepsIInv
    <2>8. CASE UNCHANGED vars
      BY <2>8, StutterKeepsIInv
    <2> QED BY <2>1, <2>2, <2>3, <2>4, <2>5, <2>6, <2>7, <2>8 DEF Next
  <1> QED BY <1>1, <1>2, PTL DEF Spec

\* A wrapper between two statements of its own holds the GIL, and every
\* variable has its type.
THEOREM TypeCorrect == Spec => []TypeOK
  <1>1. IInv => TypeOK
    BY DEF IInv
  <1> QED BY <1>1, Inductive, PTL

\* KeyboardInterrupt is raised only by a solve during which a cancellation was
\* requested, for any number of threads.
THEOREM InterruptsAreRequested == Spec => []InterruptWasRequested
  <1>1. IInv => InterruptWasRequested
    BY DEF IInv
  <1> QED BY <1>1, Inductive, PTL

\* A solve that no other overlaps never returns a result if it was asked to
\* stop, up to the statement that reads the flag.
THEOREM LoneCancelIsReported == Spec => []LoneSolveReportsCancel
  <1>1. IInv => LoneSolveReportsCancel
    BY DEF IInv
  <1> QED BY <1>1, Inductive, PTL

\* Solves one after the other leave the process's handler as they found it.
THEOREM SerialSolvesKeepHandler == Spec => []SerialSolvesRestoreHandler
  <1>1. IInv => SerialSolvesRestoreHandler
    BY DEF IInv, HandlerInv, SerialSolvesRestoreHandler
  <1> QED BY <1>1, Inductive, PTL
=============================================================================
