------------------------------- MODULE Future -------------------------------
(***************************************************************************)
(* The answer to a request: promise, future and the State they share       *)
(* (msgqueue/cmd/future.hpp), on the Mutex and CondVar of thread_util.hpp. *)
(*                                                                         *)
(* The thread that executes a RequestCommand sets the value and then       *)
(* deletes the command, and with it the promise.  Threads that hold a      *)
(* future wait for the value with State::wait or State::wait_for, or drop  *)
(* the future.  The State lives as long as a promise or a future points at *)
(* it (std::shared_ptr).  pthread_cond_wait may wake for no reason.        *)
(***************************************************************************)
EXTENDS Naturals, FiniteSets

CONSTANTS
  Waiters,    \* the threads that hold a future of the promise
  Executor,   \* the thread that holds the command
  Nobody,     \* the mutex is free
  MaxTimed    \* bound: how often one waiter calls wait_for

ASSUME FutureAssumption ==
  /\ Executor \notin Waiters
  /\ Nobody \notin Waiters \union {Executor}
  /\ MaxTimed \in Nat

VARIABLES
  mutex,      \* who holds State::mutex
  result,     \* State::result is not null
  holders,    \* who owns a shared_ptr to the State; freed when nobody does
  epc,        \* executor: its place in call, set_value, set_result
  wpc, op,    \* waiter: its place in wait or wait_for, and which of the two
  success,    \* waiter: the local `success` of wait_for
  timed       \* waiter: how often it called wait_for

vars == <<mutex, result, holders, epc, wpc, op, success, timed>>

Init ==
  /\ mutex = Nobody /\ result = FALSE
  /\ holders = Waiters \union {Executor}
  /\ epc = "queued"
  /\ wpc = [w \in Waiters |-> "holds"]
  /\ op = [w \in Waiters |-> "wait"]
  /\ success = [w \in Waiters |-> TRUE]
  /\ timed = [w \in Waiters |-> 0]

Asleep(w) == wpc[w] = "asleep"

-----------------------------------------------------------------------------
(* Bugs the properties are sensitive to; none of these is an action of Next *)

\* set_result that does not take the mutex.
SetLockForgotten ==
  /\ epc = "storing"
  /\ epc' = "swap"
  /\ UNCHANGED <<mutex, result, holders, wpc, op, success, timed>>

\* set_result that signals where it should broadcast.
NotifyOne ==
  /\ epc = "notify"
  /\ epc' = "delete"
  /\ \/ /\ \A w \in Waiters : ~Asleep(w)
        /\ UNCHANGED wpc
     \/ \E w \in Waiters : Asleep(w) /\ wpc' = [wpc EXCEPT ![w] = "woken"]
  /\ UNCHANGED <<mutex, result, holders, op, success, timed>>

\* The promise lets go of the State as soon as set_result has stored the value.
SetSwapAndRelease ==
  /\ epc = "swap"
  /\ result' = TRUE
  /\ holders' = holders \ {Executor}
  /\ epc' = "unlock"
  /\ UNCHANGED <<mutex, wpc, op, success, timed>>

\* State::wait with `if` where it has `while`.
CheckOnce(w) ==
  /\ wpc[w] = "check"
  /\ wpc' = [wpc EXCEPT ![w] = "unlock"]
  /\ UNCHANGED <<mutex, result, holders, epc, op, success, timed>>

-----------------------------------------------------------------------------
(* The executor: RequestCommand::call, then the command is deleted *)

\* The function returned; set_value stores the value and releases the storage.
CallReturns ==
  /\ epc = "queued"
  /\ epc' = "storing"
  /\ UNCHANGED <<mutex, result, holders, wpc, op, success, timed>>

SetLock ==
  /\ epc = "storing" /\ mutex = Nobody
  /\ mutex' = Executor
  /\ epc' = "swap"
  /\ UNCHANGED <<result, holders, wpc, op, success, timed>>

SetSwap ==
  /\ epc = "swap"
  /\ result' = TRUE
  /\ epc' = "unlock"
  /\ UNCHANGED <<mutex, holders, wpc, op, success, timed>>

SetUnlock ==
  /\ epc = "unlock"
  /\ mutex' = Nobody
  /\ epc' = "notify"
  /\ UNCHANGED <<result, holders, wpc, op, success, timed>>

\* notify_all, after the mutex was given up
Notify ==
  /\ epc = "notify"
  /\ wpc' = [w \in Waiters |-> IF Asleep(w) THEN "woken" ELSE wpc[w]]
  /\ epc' = "delete"
  /\ UNCHANGED <<mutex, result, holders, op, success, timed>>

\* receive deletes the command, and the promise with it.
DeleteCommand ==
  /\ epc = "delete"
  /\ holders' = holders \ {Executor}
  /\ epc' = "done"
  /\ UNCHANGED <<mutex, result, wpc, op, success, timed>>

-----------------------------------------------------------------------------
(* A waiter *)

\* get calls State::wait.
BeginWait(w) ==
  /\ wpc[w] = "holds"
  /\ op' = [op EXCEPT ![w] = "wait"]
  /\ wpc' = [wpc EXCEPT ![w] = "lock"]
  /\ UNCHANGED <<mutex, result, holders, epc, success, timed>>

BeginWaitFor(w) ==
  /\ wpc[w] = "holds" /\ timed[w] < MaxTimed
  /\ op' = [op EXCEPT ![w] = "wait_for"]
  /\ success' = [success EXCEPT ![w] = TRUE]
  /\ timed' = [timed EXCEPT ![w] = @ + 1]
  /\ wpc' = [wpc EXCEPT ![w] = "lock"]
  /\ UNCHANGED <<mutex, result, holders, epc>>

\* mutex.lock(), on entry or on the way out of pthread_cond_wait
Lock(w) ==
  /\ wpc[w] \in {"lock", "woken"} /\ mutex = Nobody
  /\ mutex' = w
  /\ wpc' = [wpc EXCEPT ![w] =
               IF @ = "woken" /\ op[w] = "wait_for" THEN "recheck" ELSE "check"]
  /\ UNCHANGED <<result, holders, epc, op, success, timed>>

\* isReady()
Check(w) ==
  /\ wpc[w] = "check"
  /\ wpc' = [wpc EXCEPT ![w] = IF result THEN "unlock" ELSE "sleep"]
  /\ UNCHANGED <<mutex, result, holders, epc, op, success, timed>>

\* cond.wait: give up the mutex and sleep, in one.
Sleep(w) ==
  /\ wpc[w] = "sleep"
  /\ wpc' = [wpc EXCEPT ![w] = "asleep"]
  /\ mutex' = Nobody
  /\ UNCHANGED <<result, holders, epc, op, success, timed>>

\* wait_for looks once more and does not sleep again.
Recheck(w) ==
  /\ wpc[w] = "recheck"
  /\ success' = [success EXCEPT ![w] = result]
  /\ wpc' = [wpc EXCEPT ![w] = "unlock"]
  /\ UNCHANGED <<mutex, result, holders, epc, op, timed>>

\* A spurious wakeup, or the timeout of pthread_cond_timedwait.
Wake(w) ==
  /\ Asleep(w)
  /\ wpc' = [wpc EXCEPT ![w] = "woken"]
  /\ UNCHANGED <<mutex, result, holders, epc, op, success, timed>>

Unlock(w) ==
  /\ wpc[w] = "unlock"
  /\ mutex' = Nobody
  /\ wpc' = [wpc EXCEPT ![w] = IF op[w] = "wait" THEN "read" ELSE "holds"]
  /\ UNCHANGED <<result, holders, epc, op, success, timed>>

\* `return *result`, outside the mutex; get moves the value out, and the
\* temporary future is destroyed.
Read(w) ==
  /\ wpc[w] = "read"
  /\ holders' = holders \ {w}
  /\ wpc' = [wpc EXCEPT ![w] = "gone"]
  /\ UNCHANGED <<mutex, result, epc, op, success, timed>>

\* The future is destroyed without having been asked.
DropFuture(w) ==
  /\ wpc[w] = "holds"
  /\ holders' = holders \ {w}
  /\ wpc' = [wpc EXCEPT ![w] = "gone"]
  /\ UNCHANGED <<mutex, result, epc, op, success, timed>>

-----------------------------------------------------------------------------
Execute ==
  CallReturns \/ SetLock \/ SetSwap \/ SetUnlock \/ Notify \/ DeleteCommand

\* What a waiter does by itself once it has called wait or wait_for.
Proceed(w) ==
  Lock(w) \/ Check(w) \/ Sleep(w) \/ Recheck(w) \/ Unlock(w) \/ Read(w)

Next ==
  \/ Execute
  \/ \E w \in Waiters :
       \/ BeginWait(w) \/ BeginWaitFor(w) \/ DropFuture(w)
       \/ Proceed(w) \/ Wake(w)

(* The command is executed, and no thread stops in the middle of an         *)
(* operation.  A thread gets a mutex that is free over and over again: its  *)
(* holders keep it for a few instructions, and wakeups for no reason, which *)
(* alone could keep it busy for ever, are rare.  Nothing makes a sleeper    *)
(* wake but the notification, except that a timed wait times out.           *)
Spec ==
  /\ Init /\ [][Next]_vars
  /\ WF_vars(Execute) /\ SF_vars(SetLock)
  /\ \A w \in Waiters :
       WF_vars(Proceed(w)) /\ SF_vars(Lock(w)) /\ WF_vars(op[w] = "wait_for" /\ Wake(w))

-----------------------------------------------------------------------------
(* Properties *)

(* set_result notifies after it has unlocked, when a waiter may already     *)
(* have taken the value and destroyed its future: the State must still      *)
(* exist for every thread that is not done with it.                         *)
NoUseAfterFree ==
  holders = {} => epc = "done" /\ \A w \in Waiters : wpc[w] = "gone"

(* The answer of wait_for is the truth while the mutex is still held; and   *)
(* wait is over only when there is a result, whatever woke it, so that get   *)
(* never returns the value of a result that is not there.                   *)
AnswerIsCurrent ==
  \A w \in Waiters :
    wpc[w] = "unlock" => (success[w] \/ op[w] = "wait") = result

(* Nobody sleeps on a value that was set and announced, not even a waiter   *)
(* that looked just before the value came.                                  *)
NoMissedNotify ==
  epc \in {"delete", "done"} => \A w \in Waiters : ~Asleep(w)

\* Whoever asks for the value gets it.
GetReturns ==
  \A w \in Waiters : (wpc[w] = "lock" /\ op[w] = "wait") ~> (wpc[w] = "gone")

=============================================================================
