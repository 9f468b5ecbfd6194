---------------------------- MODULE FutureProofs ----------------------------
(***************************************************************************)
(* The safety invariants of Future, for any set of waiters and any number  *)
(* of timed waits.                                                         *)
(***************************************************************************)
EXTENDS Future, TLAPS

\* Where the executor and a waiter can be.
ExecutorPlaces == {"queued", "storing", "swap", "unlock", "notify", "delete", "done"}
WaiterPlaces ==
  {"holds", "lock", "check", "sleep", "asleep", "woken", "recheck", "unlock", "read", "gone"}

\* The instructions between mutex.lock() and mutex.unlock().
ExecutorLocked == epc \in {"swap", "unlock"}
WaiterLocked(w) == wpc[w] \in {"check", "sleep", "recheck", "unlock"}

TypeOK ==
  /\ mutex \in Waiters \union {Executor, Nobody}
  /\ result \in BOOLEAN
  /\ holders \subseteq Waiters \union {Executor}
  /\ epc \in ExecutorPlaces
  /\ wpc \in [Waiters -> WaiterPlaces]
  /\ op \in [Waiters -> {"wait", "wait_for"}]
  /\ success \in [Waiters -> BOOLEAN]
  /\ timed \in [Waiters -> Nat]

\* Who is between lock and unlock holds the mutex, and nobody else does.
Locked ==
  /\ ExecutorLocked <=> mutex = Executor
  /\ \A w \in Waiters : WaiterLocked(w) <=> mutex = w

\* A thread that is not done with the State keeps it alive.
Counted ==
  /\ Executor \in holders <=> epc # "done"
  /\ \A w \in Waiters : w \in holders <=> wpc[w] # "gone"

\* The value is there as soon as the mutex is free again.
Stored == result <=> epc \in {"unlock", "notify", "delete", "done"}

(* What a waiter knows.  Only wait_for looks again without going to sleep;  *)
(* it has not given up before it has looked.  Who decided to sleep saw no    *)
(* value, so that the executor, who needs the mutex to store one, has not   *)
(* yet announced it.                                                        *)
Knows ==
  \A w \in Waiters :
    /\ wpc[w] = "recheck" => op[w] = "wait_for"
    /\ /\ op[w] = "wait_for"
       /\ wpc[w] \in {"lock", "check", "sleep", "asleep", "woken", "recheck"}
       => success[w]
    /\ wpc[w] = "sleep" => ~result

IInv ==
  /\ TypeOK /\ Locked /\ Counted /\ Stored /\ Knows
  /\ AnswerIsCurrent /\ NoMissedNotify

-----------------------------------------------------------------------------
(* Threads and Nobody differ.                                              *)
LEMMA Names ==
  /\ Executor # Nobody
  /\ \A w \in Waiters : w # Executor /\ w # Nobody
  BY FutureAssumption

(* Everybody holds the State, nobody the mutex.                            *)
LEMMA InitIInv == Init => IInv
  <1>1. SUFFICES ASSUME Init PROVE IInv
    OBVIOUS
  <1>2. TypeOK
    BY <1>1, FutureAssumption DEF Init, TypeOK, ExecutorPlaces, WaiterPlaces
  <1>3. Locked /\ Counted /\ Stored
    BY <1>1, Names DEF Init, Locked, ExecutorLocked, WaiterLocked, Counted, Stored
  <1>4. Knows /\ AnswerIsCurrent /\ NoMissedNotify
    BY <1>1 DEF Init, Knows, AnswerIsCurrent, NoMissedNotify
  <1> QED
    BY <1>2, <1>3, <1>4 DEF IInv

(* The executor changes the place of a waiter only when it notifies, and    *)
(* the value only while no waiter holds the mutex.                          *)
LEMMA ExecuteKeeps == IInv /\ Execute => IInv'
  <1>1. SUFFICES ASSUME IInv, Execute PROVE IInv'
    OBVIOUS
  <1> USE <1>1, Names DEF IInv, TypeOK, Locked, Counted, Stored, Knows, AnswerIsCurrent, NoMissedNotify,
         ExecutorLocked, WaiterLocked, Asleep, ExecutorPlaces, WaiterPlaces
  <1>2. CASE CallReturns
    BY <1>2 DEF CallReturns
  <1>3. CASE SetLock
    BY <1>3 DEF SetLock
  <1>4. CASE SetSwap
    BY <1>4 DEF SetSwap
  <1>5. CASE SetUnlock
    BY <1>5 DEF SetUnlock
  <1>6. CASE Notify
    BY <1>6 DEF Notify
  <1>7. CASE DeleteCommand
    BY <1>7 DEF DeleteCommand
  <1> QED
    BY <1>2, <1>3, <1>4, <1>5, <1>6, <1>7 DEF Execute

(* A waiter changes its own place only; it falls asleep holding the mutex,  *)
(* so that a value it did not see is not announced either.                  *)
LEMMA WaiterKeeps ==
  ASSUME IInv, NEW w \in Waiters,
         BeginWait(w) \/ BeginWaitFor(w) \/ DropFuture(w) \/ Proceed(w) \/ Wake(w)
  PROVE  IInv'
  <1> USE Names DEF IInv, TypeOK, Locked, Counted, Stored, Knows, AnswerIsCurrent, NoMissedNotify,
         ExecutorLocked, WaiterLocked, Asleep, ExecutorPlaces, WaiterPlaces
  <1>1. CASE BeginWait(w)
    BY <1>1 DEF BeginWait
  <1>2. CASE BeginWaitFor(w)
    BY <1>2 DEF BeginWaitFor
  <1>3. CASE DropFuture(w)
    BY <1>3 DEF DropFuture
  <1>4. CASE Lock(w)
    BY <1>4 DEF Lock
  <1>5. CASE Check(w)
    BY <1>5 DEF Check
  <1>6. CASE Sleep(w)
    BY <1>6 DEF Sleep
  <1>7. CASE Recheck(w)
    BY <1>7 DEF Recheck
  <1>8. CASE Unlock(w)
    BY <1>8 DEF Unlock
  <1>9. CASE Read(w)
    BY <1>9 DEF Read
  <1>10. CASE Wake(w)
    BY <1>10 DEF Wake
  <1> QED
    BY <1>1, <1>2, <1>3, <1>4, <1>5, <1>6, <1>7, <1>8, <1>9, <1>10 DEF Proceed

(* Every step.                                                             *)
LEMMA NextKeeps == IInv /\ [Next]_vars => IInv'
  <1>1. ASSUME IInv, UNCHANGED vars PROVE IInv'
    BY <1>1 DEF vars, IInv, TypeOK, Locked, Counted, Stored, Knows, AnswerIsCurrent, NoMissedNotify,
         ExecutorLocked, WaiterLocked, Asleep, ExecutorPlaces, WaiterPlaces
  <1> QED
    BY <1>1, ExecuteKeeps, WaiterKeeps DEF Next

(* The invariant of the executor and the waiters (future.hpp).              *)
THEOREM Invariant == Spec => []IInv
  BY InitIInv, NextKeeps, PTL DEF Spec

(* The State is freed only when the executor is past notify_all and every   *)
(* future is gone (future.hpp:110-117).                                     *)
THEOREM NoUseAfterFreeHolds == Spec => []NoUseAfterFree
  <1>1. IInv => NoUseAfterFree
    BY DEF IInv, Counted, NoUseAfterFree
  <1> QED
    BY <1>1, Invariant, PTL

(* What wait and wait_for answer is so when they answer, whatever woke them  *)
(* (future.hpp:88-108).                                                     *)
THEOREM AnswerIsCurrentHolds == Spec => []AnswerIsCurrent
  BY Invariant, PTL DEF IInv

(* After notify_all nobody sleeps for the value (future.hpp:110-117).       *)
THEOREM NoMissedNotifyHolds == Spec => []NoMissedNotify
  BY Invariant, PTL DEF IInv

=============================================================================
