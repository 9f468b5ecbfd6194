---------------------------- MODULE SignaledQueue ----------------------------
(***************************************************************************)
(* SignaledQueue (msgqueue/signal/signaled_queue.hpp) on its Signaler      *)
(* (signaler.hpp): an IntMpscQueue and an eventfd that counts the commands *)
(* pushed on it.  The owner calls receive when the eventfd is readable;    *)
(* receive takes the count and pops that many nodes, spinning while pop    *)
(* answers nullptr.                                                        *)
(*                                                                         *)
(* eventfd: write adds to the counter, read returns it and resets it to 0. *)
(***************************************************************************)
EXTENDS Integers, Sequences, FiniteSets

CONSTANTS Producers, Nodes, Stub, NULL, MaxSends,
  NullSenders    \* the threads that may call nullmsg

VARIABLES
  head, tail, next, heap, body, ppc, mine, prev, count, cpc, h, cprev,
  order, log, deq, out, overlap,
  spc,       \* thread p: its place in send, request or nullmsg
  nulls,     \* the messages that are null nodes (self = nullptr)
  executed,  \* the commands that were called, in that order
  counter,   \* the eventfd
  times,     \* receive: the nodes it has yet to pop
  rpc        \* the owner: its place in receive

Queue == INSTANCE IntMpscQueue

queue == <<head, tail, next, heap, body, ppc, mine, prev, count, cpc, h, cprev,
           order, log, deq, out, overlap>>
vars  == <<queue, spc, nulls, executed, counter, times, rpc>>

Init ==
  /\ Queue!Init
  /\ spc = [p \in Producers |-> "idle"]
  /\ nulls = {} /\ executed = <<>>
  /\ counter = 0 /\ times = 0 /\ rpc = "poll"

-----------------------------------------------------------------------------
(* Bugs the properties are sensitive to; none of these is an action of Next *)

\* send that writes to the eventfd before it pushes.
SignalFirst(p) ==
  /\ spc[p] = "idle"
  /\ Queue!PushBegin(p)
  /\ counter' = counter + 1
  /\ spc' = [spc EXCEPT ![p] = "null"]
  /\ UNCHANGED <<nulls, executed, times, rpc>>

\* receive that takes one node for a signal, whatever the count was.
ReadOne ==
  /\ rpc = "poll" /\ counter > 0
  /\ times' = 1 /\ counter' = 0
  /\ rpc' = "receive"
  /\ UNCHANGED <<queue, spc, nulls, executed>>

\* receive that calls a command twice.
CallTwice ==
  /\ rpc = "receive" /\ cpc = "got" /\ body[h] \notin nulls
  /\ executed' = executed \o <<body[h], body[h]>>
  /\ times' = times - 1
  /\ rpc' = IF times > 1 THEN "receive" ELSE "poll"
  /\ Queue!Consume
  /\ UNCHANGED <<spc, nulls, counter>>

-----------------------------------------------------------------------------
(* send, request and nullmsg *)

Send(p) ==
  /\ spc[p] = "idle"
  /\ Queue!PushBegin(p)
  /\ spc' = [spc EXCEPT ![p] = "push"]
  /\ UNCHANGED <<nulls, executed, counter, times, rpc>>

\* A null node: pushed, not signalled.
NullMsg(p) ==
  /\ spc[p] = "idle" /\ p \in NullSenders
  /\ Queue!PushBegin(p)
  /\ nulls' = nulls \union {<<p, count'[p]>>}
  /\ spc' = [spc EXCEPT ![p] = "null"]
  /\ UNCHANGED <<executed, counter, times, rpc>>

Swap(p) ==
  Queue!PushSwap(p) /\ UNCHANGED <<spc, nulls, executed, counter, times, rpc>>

Link(p) ==
  /\ Queue!PushLink(p)
  /\ spc' = [spc EXCEPT ![p] = IF @ = "push" THEN "signal" ELSE "idle"]
  /\ UNCHANGED <<nulls, executed, counter, times, rpc>>

\* signaler.send()
Signal(p) ==
  /\ spc[p] = "signal"
  /\ counter' = counter + 1
  /\ spc' = [spc EXCEPT ![p] = "idle"]
  /\ UNCHANGED <<queue, nulls, executed, times, rpc>>

-----------------------------------------------------------------------------
(* receive *)

\* The eventfd is readable: signaler.recv().
Read ==
  /\ rpc = "poll" /\ counter > 0
  /\ times' = counter /\ counter' = 0
  /\ rpc' = "receive"
  /\ UNCHANGED <<queue, spc, nulls, executed>>

Pop ==
  /\ rpc = "receive"
  /\ \/ Queue!PopStart \/ Queue!PopSecond \/ Queue!PopTail
     \/ Queue!PopRestub \/ Queue!PopRelink \/ Queue!PopLast
  /\ UNCHANGED <<spc, nulls, executed, counter, times, rpc>>

\* nullptr: continue
Spin ==
  /\ rpc = "receive" /\ cpc = "null"
  /\ Queue!Retry
  /\ UNCHANGED <<spc, nulls, executed, counter, times, rpc>>

\* A node: the command is called and deleted, a null node is only deleted.
Receive ==
  /\ rpc = "receive" /\ cpc = "got"
  /\ executed' = IF body[h] \in nulls THEN executed ELSE Append(executed, body[h])
  /\ times' = times - 1
  /\ rpc' = IF times > 1 THEN "receive" ELSE "poll"
  /\ Queue!Consume
  /\ UNCHANGED <<spc, nulls, counter>>

-----------------------------------------------------------------------------
OwnerStep == Read \/ Pop \/ Spin \/ Receive

Next ==
  \/ \E p \in Producers : Send(p) \/ NullMsg(p) \/ Swap(p) \/ Link(p) \/ Signal(p)
  \/ OwnerStep

\* A thread inside send or nullmsg runs on; the owner polls and receives.
Fairness ==
  /\ \A p \in Producers : WF_vars(Swap(p) \/ Link(p) \/ Signal(p))
  /\ WF_vars(OwnerStep)

Spec == Init /\ [][Next]_vars /\ Fairness

-----------------------------------------------------------------------------
(* Properties *)

(* receive spins until it has as many nodes as were signalled (line 50-54). *)
(* They are in the queue, but another push may be cut between its exchange  *)
(* and its link in front of them, and then receive waits for that thread.   *)
(* It waits for nothing else: pop answers it nullptr only if some push was  *)
(* at that point while pop ran, never because there is nothing to pop.      *)
SpinsBehindAPush == rpc = "receive" /\ cpc = "null" => overlap

(* The commands are executed once each, in the order in which they were     *)
(* pushed: each is in the place that it has among the commands pushed.      *)
Commands(i) == Cardinality({j \in 1 .. i : log[j] \notin nulls})
InHand == IF cpc = "got" /\ body[h] \notin nulls THEN <<body[h]>> ELSE <<>>
Done == executed \o InHand

ExecutedOnceInOrder ==
  /\ Len(Done) = Commands(deq)
  /\ \A i \in 1 .. deq : log[i] \notin nulls => Done[Commands(i)] = log[i]

(* Stored arguments are applied to the function object (cmd/command.hpp:73, *)
(* 99-100): a command that was sent is executed.  A null node takes the     *)
(* turn of a command, since it is pushed without a signal (line 69-73), so  *)
(* this holds as long as nobody calls nullmsg.                              *)
CommandExecuted ==
  \A p \in Producers, k \in 1 .. MaxSends :
    count[p] >= k
      ~> (nulls # {} \/ \E i \in 1 .. Len(executed) : executed[i] = <<p, k>>)

(* What null nodes can do at worst: the queue is left with as many nodes as *)
(* null nodes were sent, and no more, when every thread is done.            *)
LeftBehind == Len(log) - deq <= Cardinality(nulls)
NullsStrandNoMore ==
  (counter = 0 /\ rpc = "poll" /\ \A p \in Producers : spc[p] = "idle") => LeftBehind

=============================================================================
