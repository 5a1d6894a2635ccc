--------------------------- MODULE TimeoutExecutor --------------------------
(***************************************************************************)
(* TimeoutExecutor::executeWithTimeout.  A call starts a thread for the    *)
(* function and waits for its future; when the wait times out it sets      *)
(* cancelled_, detaches the thread and throws.  The thread runs on.  The   *)
(* executor, with its one flag, may be used for call after call.           *)
(***************************************************************************)
EXTENDS Naturals

CONSTANTS
  LastCall  \* bound: calls, one after the other, on one executor

ASSUME LastCallAssumption == LastCall \in Nat

CallNumbers == 1 .. LastCall

VARIABLES
  current,    \* the call in progress or the last one, 0 before the first
  waiting,    \* the caller waits for the future of the current call
  fn,         \* fn[c]: the function of call c on its thread
  cancelled,  \* cancelled_
  outcome,    \* outcome[c]: what the caller got
  thread      \* thread[c]: what became of the std::thread object

timeoutVars == <<current, waiting, fn, cancelled, outcome, thread>>

TimeoutInit ==
  /\ current = 0 /\ waiting = FALSE /\ cancelled = FALSE
  /\ fn = [c \in CallNumbers |-> "none"]
  /\ outcome = [c \in CallNumbers |-> "none"]
  /\ thread = [c \in CallNumbers |-> "none"]

(* A bug: the flag of the last call stays. *)
ExecuteWithoutReset ==
  /\ ~waiting /\ current < LastCall
  /\ current' = current + 1 /\ waiting' = TRUE
  /\ fn' = [fn EXCEPT ![current + 1] = "running"]
  /\ thread' = [thread EXCEPT ![current + 1] = "joinable"]
  /\ UNCHANGED <<outcome, cancelled>>

(* The flag is reset and the thread started. *)
ExecuteWithTimeout ==
  /\ ~waiting /\ current < LastCall
  /\ current' = current + 1 /\ waiting' = TRUE /\ cancelled' = FALSE
  /\ fn' = [fn EXCEPT ![current + 1] = "running"]
  /\ thread' = [thread EXCEPT ![current + 1] = "joinable"]
  /\ UNCHANGED outcome

(* The function returns or throws by itself, or polls isCancelled and stops. *)
FunctionEnds(c) ==
  /\ fn[c] = "running"
  /\ \E r \in {"returned", "threw"} : fn' = [fn EXCEPT ![c] = r]
  /\ UNCHANGED <<current, waiting, cancelled, outcome, thread>>
FunctionSeesCancel(c) ==
  /\ fn[c] = "running" /\ cancelled
  /\ fn' = [fn EXCEPT ![c] = "cancelled"]
  /\ UNCHANGED <<current, waiting, cancelled, outcome, thread>>

(* wait_for times out, however close the function is to its end. *)
WaitTimesOut ==
  /\ waiting /\ fn[current] = "running"
  /\ waiting' = FALSE /\ cancelled' = TRUE
  /\ thread' = [thread EXCEPT ![current] = "detached"]
  /\ outcome' = [outcome EXCEPT ![current] = "timeout"]
  /\ UNCHANGED <<current, fn>>

(* The future is ready: the thread is joined and the future's content given. *)
WaitSucceeds ==
  /\ waiting /\ fn[current] # "running"
  /\ waiting' = FALSE
  /\ thread' = [thread EXCEPT ![current] = "joined"]
  /\ outcome' = [outcome EXCEPT ![current] = fn[current]]
  /\ UNCHANGED <<current, fn, cancelled>>

(* RuleExecutor::execute makes an executor of its own for every call. *)
TimeoutNext ==
  \/ ExecuteWithTimeout \/ WaitTimesOut \/ WaitSucceeds
  \/ \E c \in CallNumbers : FunctionEnds(c) \/ FunctionSeesCancel(c)

(* A function that polls isCancelled keeps polling. *)
TimeoutFairness == \A c \in CallNumbers : WF_timeoutVars(FunctionSeesCancel(c))

-----------------------------------------------------------------------------
(* No thread is left joinable (its destructor would terminate the process), *)
(* and none but a thread that was still running is detached.                 *)
EveryThreadIsReclaimed ==
  \A c \in CallNumbers :
    /\ outcome[c] # "none" => thread[c] \in {"joined", "detached"}
    /\ thread[c] = "joined" => fn[c] # "running"
    /\ thread[c] = "detached" <=> outcome[c] = "timeout"

(* A call is not spoilt by the one before it: a function that was not timed  *)
(* out is never told to stop, even while the thread of an earlier call that   *)
(* timed out is still running.                                                *)
CancelIsForTheTimedOut ==
  \A c \in CallNumbers : fn[c] = "cancelled" => outcome[c] = "timeout"

(* A function that polls stops after its timeout, unless the executor was    *)
(* called again before it looked: the new call resets the flag.              *)
CancelIsSeen ==
  \A c \in CallNumbers :
    (outcome[c] = "timeout" /\ current = c) ~> (fn[c] # "running" \/ current # c)

(* Calls with a timeout do not disturb each other: every thread is reclaimed, *)
(* and only a function that was timed out is told to stop.                    *)
TimeoutsAreOwn == EveryThreadIsReclaimed /\ CancelIsForTheTimedOut
=============================================================================
