----------------------------- MODULE Eventcount -----------------------------
(***************************************************************************)
(* Eventcount (msgqueue/queue/eventcount.hpp): an atomic flag and a        *)
(* semaphore with which one consumer sleeps until a producer notifies it.  *)
(* The operations are actions without a program counter: the pipes that    *)
(* own an eventcount say in which order their threads take them.           *)
(*                                                                         *)
(* notify is three accesses to shared memory, hence three actions.         *)
(***************************************************************************)
EXTENDS Integers

VARIABLES
  waiting,     \* the consumer is about to sleep, or sleeps
  semaphore    \* tokens posted and not taken

Init == waiting = FALSE /\ semaphore = 0

\* waiting.store(true)
prepare_wait == waiting' = TRUE /\ UNCHANGED semaphore

\* waiting.store(false), the first store of notify as well as cancel_wait
cancel_wait == waiting' = FALSE /\ UNCHANGED semaphore

\* sem_wait: blocks while there is no token.
commit_wait ==
  /\ semaphore > 0
  /\ semaphore' = semaphore - 1
  /\ UNCHANGED waiting

\* notify: what the load of `waiting` says; the two steps that follow it.
notify_needed == waiting
notify_clear == cancel_wait
notify_post == semaphore' = semaphore + 1 /\ UNCHANGED waiting

=============================================================================
