----------------------------- MODULE CancelFlag -----------------------------
(***************************************************************************)
(* Cancellation of solves in a Python process (python_bindings/_core.cpp,  *)
(* src/cardal_c_api.c): one flag and one SIGINT handler for the process,   *)
(* and threads that each run solves one after the other.                   *)
(*                                                                         *)
(* The wrapper prepares and ends a solve under the interpreter's lock, the *)
(* GIL, and solves without it.  So its statements interleave with those of *)
(* other wrappers only around the solve, but with a signal anywhere.       *)
(* Of a solve, only when it polls the flag is kept.                        *)
(***************************************************************************)
EXTENDS Integers

CONSTANTS Threads,
          Nobody,        \* holds the GIL if no wrapper does
          MaxSolves,     \* bound of the model: solves of a thread
          MaxRequests    \* bound of the model: requests to cancel

ASSUME ThreadsAssumption == Nobody \notin Threads
ASSUME BoundsAssumption == MaxSolves \in Nat /\ MaxRequests \in Nat

VARIABLES
  gil,
  g_cardal_cancel_request,
  handler,          \* of SIGINT: the process's own or the wrapper's
  pc,               \* where each thread is in the wrapper
  prev_sigint,
  was_cancelled,
  status,           \* how the C solve ended
  outcome,          \* what the wrapper made of it
  solves,           \* history: solves of each thread
  requests,         \* history: requests made
  requested,        \* history: when in the thread's solve one was made
  alone,            \* history: no other solve overlapped the thread's
  overlapped        \* history: two solves have overlapped

wrapper == <<pc, prev_sigint, was_cancelled, status, outcome>>
history == <<solves, requests, requested, alone, overlapped>>
vars == <<gil, g_cardal_cancel_request, handler, wrapper, history>>

Handler == {"previous", "cardal"}
Status == {"running", "finished", "failed", "USER_INTERRUPT"}
Outcome == {"none", "Result", "RuntimeError", "KeyboardInterrupt"}
Time == {"never", "running", "late"}

\* From the first statement about the flag to the one that reads it.
InSolve(t) == pc[t] \in {"install", "solving", "stopped", "restored"}
-----------------------------------------------------------------------------
Init ==
  /\ gil = Nobody
  /\ g_cardal_cancel_request = FALSE
  /\ handler = "previous"
  /\ pc = [t \in Threads |-> "outside"]
  /\ prev_sigint = [t \in Threads |-> "previous"]
  /\ was_cancelled = [t \in Threads |-> FALSE]
  /\ status = [t \in Threads |-> "running"]
  /\ outcome = [t \in Threads |-> "none"]
  /\ solves = [t \in Threads |-> 0]
  /\ requests = 0
  /\ requested = [t \in Threads |-> "never"]
  /\ alone = [t \in Threads |-> TRUE]
  /\ overlapped = FALSE

\* cardal_request_cancel: every solve that has not read the flag is meant.
cardal_request_cancel ==
  /\ requests < MaxRequests
  /\ requests' = requests + 1
  /\ g_cardal_cancel_request' = TRUE
  /\ requested' = [t \in Threads |->
                     IF pc[t] = "solving" THEN "running"
                     ELSE IF InSolve(t) /\ requested[t] = "never" THEN "late"
                     ELSE requested[t]]
  /\ UNCHANGED <<gil, handler, wrapper, solves, alone, overlapped>>

\* The handler the wrapper installs runs between any two statements.
cardal_sigint_handler == handler = "cardal" /\ cardal_request_cancel

\* _core.request_cancel(), called by some Python thread.
request_cancel == gil = Nobody /\ cardal_request_cancel

\* The wrapper takes the GIL and forgets earlier requests.
EnterKeepingFlag(t) ==                                          \* mutant
  /\ pc[t] = "outside" /\ gil = Nobody /\ solves[t] < MaxSolves
  /\ gil' = t
  /\ pc' = [pc EXCEPT ![t] = "install"]
  /\ status' = [status EXCEPT ![t] = "running"]
  /\ outcome' = [outcome EXCEPT ![t] = "none"]
  /\ solves' = [solves EXCEPT ![t] = @ + 1]
  /\ requested' = [requested EXCEPT ![t] = "never"]
  /\ alone' = [u \in Threads |-> IF u = t THEN \A v \in Threads : ~InSolve(v)
                                 ELSE alone[u] /\ ~InSolve(u)]
  /\ overlapped' = (overlapped \/ \E v \in Threads : InSolve(v))
  /\ UNCHANGED <<g_cardal_cancel_request, handler, prev_sigint, was_cancelled,
                 requests>>
Enter(t) ==
  /\ pc[t] = "outside" /\ gil = Nobody /\ solves[t] < MaxSolves
  /\ gil' = t
  /\ g_cardal_cancel_request' = FALSE
  /\ pc' = [pc EXCEPT ![t] = "install"]
  /\ status' = [status EXCEPT ![t] = "running"]
  /\ outcome' = [outcome EXCEPT ![t] = "none"]
  /\ solves' = [solves EXCEPT ![t] = @ + 1]
  /\ requested' = [requested EXCEPT ![t] = "never"]
  /\ alone' = [u \in Threads |-> IF u = t THEN \A v \in Threads : ~InSolve(v)
                                 ELSE alone[u] /\ ~InSolve(u)]
  /\ overlapped' = (overlapped \/ \E v \in Threads : InSolve(v))
  /\ UNCHANGED <<handler, prev_sigint, was_cancelled, requests>>

\* The handler is exchanged and the GIL released for the solve.
Install(t) ==
  /\ pc[t] = "install"
  /\ prev_sigint' = [prev_sigint EXCEPT ![t] = handler]
  /\ handler' = "cardal"
  /\ pc' = [pc EXCEPT ![t] = "solving"]
  /\ gil' = Nobody
  /\ UNCHANGED <<g_cardal_cancel_request, was_cancelled, status, outcome,
                 history>>

\* The solve ends: at a poll that finds the flag, at a poll that does not, or
\* without a result.
Stop(t, how) ==
  /\ pc[t] = "solving"
  /\ pc' = [pc EXCEPT ![t] = "stopped"]
  /\ status' = [status EXCEPT ![t] = how]
  /\ UNCHANGED <<gil, g_cardal_cancel_request, handler, prev_sigint,
                 was_cancelled, outcome, history>>
Cancelled(t) == g_cardal_cancel_request /\ Stop(t, "USER_INTERRUPT")
Finish(t) == ~g_cardal_cancel_request /\ Stop(t, "finished")
Fail(t) == Stop(t, "failed")

\* With the GIL again, the handler that was found is put back.
RestoreNothing(t) ==                                            \* mutant
  /\ pc[t] = "stopped" /\ gil = Nobody
  /\ gil' = t
  /\ pc' = [pc EXCEPT ![t] = "restored"]
  /\ UNCHANGED <<g_cardal_cancel_request, handler, prev_sigint, was_cancelled,
                 status, outcome, history>>
RestoreWithoutGil(t) ==                                         \* mutant
  /\ pc[t] = "stopped"
  /\ handler' = prev_sigint[t]
  /\ pc' = [pc EXCEPT ![t] = "restored"]
  /\ UNCHANGED <<gil, g_cardal_cancel_request, prev_sigint, was_cancelled,
                 status, outcome, history>>
Restore(t) ==
  /\ pc[t] = "stopped" /\ gil = Nobody
  /\ gil' = t
  /\ handler' = prev_sigint[t]
  /\ pc' = [pc EXCEPT ![t] = "restored"]
  /\ UNCHANGED <<g_cardal_cancel_request, prev_sigint, was_cancelled, status,
                 outcome, history>>

ReadByStatus(t) ==                                              \* mutant
  /\ pc[t] = "restored"
  /\ was_cancelled' = [was_cancelled EXCEPT ![t] = status[t] = "USER_INTERRUPT"]
  /\ pc' = [pc EXCEPT ![t] = "read"]
  /\ UNCHANGED <<gil, g_cardal_cancel_request, handler, prev_sigint, status,
                 outcome, history>>
Read(t) ==
  /\ pc[t] = "restored"
  /\ was_cancelled' = [was_cancelled EXCEPT ![t] = g_cardal_cancel_request]
  /\ pc' = [pc EXCEPT ![t] = "read"]
  /\ UNCHANGED <<gil, g_cardal_cancel_request, handler, prev_sigint, status,
                 outcome, history>>

\* The flag is cleared, and the solve's end becomes the wrapper's.
Leave(t) ==
  /\ pc[t] = "read"
  /\ g_cardal_cancel_request' = FALSE
  /\ outcome' = [outcome EXCEPT ![t] =
                   IF was_cancelled[t] THEN "KeyboardInterrupt"
                   ELSE IF status[t] = "failed" THEN "RuntimeError"
                   ELSE "Result"]
  /\ pc' = [pc EXCEPT ![t] = "outside"]
  /\ gil' = Nobody
  /\ UNCHANGED <<handler, prev_sigint, was_cancelled, status, history>>

Next ==
  \/ cardal_sigint_handler
  \/ request_cancel
  \/ \E t \in Threads :
       \/ Enter(t) \/ Install(t)
       \/ Cancelled(t) \/ Finish(t) \/ Fail(t)
       \/ Restore(t) \/ Read(t) \/ Leave(t)

Spec == Init /\ [][Next]_vars
-----------------------------------------------------------------------------
(* Properties. *)

TypeOK ==
  /\ gil \in Threads \cup {Nobody}
  /\ g_cardal_cancel_request \in BOOLEAN
  /\ handler \in Handler
  /\ pc \in [Threads -> {"outside", "install", "solving", "stopped", "restored",
                         "read"}]
  /\ prev_sigint \in [Threads -> Handler]
  /\ was_cancelled \in [Threads -> BOOLEAN]
  /\ status \in [Threads -> Status]
  /\ outcome \in [Threads -> Outcome]
  /\ solves \in [Threads -> 0..MaxSolves]
  /\ requests \in 0..MaxRequests
  /\ requested \in [Threads -> Time]
  /\ alone \in [Threads -> BOOLEAN]
  /\ overlapped \in BOOLEAN
  /\ \A t \in Threads : pc[t] \in {"install", "restored", "read"} => gil = t

\* A solve raises KeyboardInterrupt only for a request made during it: what was
\* asked of an earlier solve, or while none ran, is never charged to a later
\* one, whatever other threads do.
InterruptWasRequested ==
  \A t \in Threads :
    outcome[t] = "KeyboardInterrupt" => requested[t] # "never"

\* A solve that no other overlaps reports every request made during it, one
\* that came after its last poll included, and its partial result is never
\* returned as if it were an answer.
LoneSolveReportsCancel ==
  \A t \in Threads :
    /\ outcome[t] # "none"
    /\ alone[t]
    /\ requested[t] # "never" \/ status[t] = "USER_INTERRUPT"
    => outcome[t] = "KeyboardInterrupt"

\* While no two solves have overlapped, the process has its own SIGINT handler
\* back whenever none runs, however the solves before ended.
SerialSolvesRestoreHandler ==
  ~overlapped /\ (\A t \in Threads : pc[t] = "outside") => handler = "previous"

\* Claim of the comment at python_bindings/_core.cpp:642-644 ("restore the
\* previous handler on exit so we do not leak process-wide state").
HandlerIsRestored ==
  (\A t \in Threads : pc[t] = "outside") => handler = "previous"
=============================================================================
