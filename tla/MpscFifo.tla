------------------------------ MODULE MpscFifo ------------------------------
(***************************************************************************)
(* What a multi-producer single-consumer queue of msgqueue/queue promises, *)
(* with none of its pointers: messages are delivered in the order in which *)
(* they entered the queue, each of them exactly once, and none is left     *)
(* behind as long as the consumer keeps calling pop.                       *)
(*                                                                         *)
(* IntMpscQueue and MpscQueue are shown to implement this module.          *)
(***************************************************************************)
EXTENDS Naturals, Sequences

CONSTANT Messages

VARIABLES
  log,   \* every message that ever entered the queue, in order of entry
  deq,   \* how many of them the consumer has received
  out    \* the message the consumer received last, <<>> before the first

vars == <<log, deq, out>>

Init ==
  /\ log = <<>>
  /\ deq = 0
  /\ out = <<>>

\* A message enters the queue.
Enqueue(m) ==
  /\ log' = Append(log, m)
  /\ UNCHANGED <<deq, out>>

\* The consumer receives the oldest message it has not received yet.
Dequeue ==
  /\ deq < Len(log)
  /\ deq' = deq + 1
  /\ out' = log[deq + 1]
  /\ UNCHANGED log

Next ==
  \/ \E m \in Messages : Enqueue(m)
  \/ Dequeue

\* The safety half of the promise, and the promise itself.
SafeSpec == Init /\ [][Next]_vars
Spec == SafeSpec /\ WF_vars(Dequeue)

=============================================================================
