----------------------------- MODULE AsyncQueue -----------------------------
(***************************************************************************)
(* AsyncQueue (libsensor/source/service/async_msgqueue.hpp): requests are  *)
(* pushed on an IntMpscQueue, the event loop is told with ev_async_send,   *)
(* and its callback pops and executes one command.  A callback that got no *)
(* command stops the watcher.                                              *)
(*                                                                         *)
(* libev: ev_async_send sets a flag of the watcher; the loop clears it and *)
(* calls the callback of an active watcher once, however often it was set. *)
(***************************************************************************)
EXTENDS Integers, Sequences, FiniteSets

CONSTANTS Producers, Nodes, Stub, NULL, MaxSends,
  Synchronous,   \* requesters wait for an answer before they ask again
  NullSenders    \* the threads that may call nullmsg

VARIABLES
  head, tail, next, heap, body, ppc, mine, prev, count, cpc, h, cprev,
  order, log, deq, out, overlap,
  spc,       \* thread p: its place in request or nullmsg
  nulls,     \* the messages that are null nodes (self = nullptr)
  answered,  \* the requests whose future has its value, in order of execution
  sent,      \* libev: ev_async_send was called since the last callback
  active,    \* libev: the watcher is started
  lpc        \* the event loop: its place in asyncCallback

Queue == INSTANCE IntMpscQueue

queue == <<head, tail, next, heap, body, ppc, mine, prev, count, cpc, h, cprev,
           order, log, deq, out, overlap>>
vars  == <<queue, spc, nulls, answered, sent, active, lpc>>

\* The loop has started the watcher (AsyncQueue::start).
Init ==
  /\ Queue!Init
  /\ spc = [p \in Producers |-> "idle"]
  /\ nulls = {} /\ answered = <<>>
  /\ sent = FALSE /\ active = TRUE /\ lpc = "idle"

IsAnswered(m) == \E i \in 1 .. Len(answered) : answered[i] = m

-----------------------------------------------------------------------------
(* Bugs the properties are sensitive to; none of these is an action of Next *)

\* request without ev_async_send, as nullmsg has it.
SignalForgotten(p) ==
  /\ spc[p] = "signal"
  /\ spc' = [spc EXCEPT ![p] = "idle"]
  /\ UNCHANGED <<queue, nulls, answered, sent, active, lpc>>

\* receive that executes a command twice.
CallTwice ==
  /\ lpc = "receive" /\ cpc = "got" /\ body[h] \notin nulls
  /\ answered' = answered \o <<body[h], body[h]>>
  /\ Queue!Consume
  /\ lpc' = "idle"
  /\ UNCHANGED <<spc, nulls, sent, active>>

-----------------------------------------------------------------------------
(* request and nullmsg *)

\* Thread p has the answers to all its requests.
Answered(p) == \A k \in 1 .. count[p] : <<p, k>> \in nulls \/ IsAnswered(<<p, k>>)

\* new RequestCommand, then push up to the exchange
Request(p) ==
  /\ spc[p] = "idle"
  /\ Synchronous => Answered(p)
  /\ Queue!PushBegin(p)
  /\ spc' = [spc EXCEPT ![p] = "push"]
  /\ UNCHANGED <<nulls, answered, sent, active, lpc>>

\* new Node() with a null self; nobody is signalled.
NullMsg(p) ==
  /\ spc[p] = "idle" /\ p \in NullSenders
  /\ Queue!PushBegin(p)
  /\ nulls' = nulls \union {<<p, count'[p]>>}
  /\ spc' = [spc EXCEPT ![p] = "null"]
  /\ UNCHANGED <<answered, sent, active, lpc>>

Swap(p) == Queue!PushSwap(p) /\ UNCHANGED <<spc, nulls, answered, sent, active, lpc>>

Link(p) ==
  /\ Queue!PushLink(p)
  /\ spc' = [spc EXCEPT ![p] = IF @ = "push" THEN "signal" ELSE "idle"]
  /\ UNCHANGED <<nulls, answered, sent, active, lpc>>

\* ev_async_send
Signal(p) ==
  /\ spc[p] = "signal"
  /\ sent' = TRUE
  /\ spc' = [spc EXCEPT ![p] = "idle"]
  /\ UNCHANGED <<queue, nulls, answered, active, lpc>>

-----------------------------------------------------------------------------
(* The event loop *)

\* The loop finds the flag and runs asyncCallback, which calls receive.
Callback ==
  /\ lpc = "idle" /\ active /\ sent
  /\ sent' = FALSE
  /\ lpc' = "receive"
  /\ UNCHANGED <<queue, spc, nulls, answered, active>>

Pop ==
  /\ lpc = "receive"
  /\ \/ Queue!PopStart \/ Queue!PopSecond \/ Queue!PopTail
     \/ Queue!PopRestub \/ Queue!PopRelink \/ Queue!PopLast
  /\ UNCHANGED <<spc, nulls, answered, sent, active, lpc>>

\* A command: it is called, which answers it, and deleted.
CallCommand ==
  /\ lpc = "receive" /\ cpc = "got" /\ body[h] \notin nulls
  /\ answered' = Append(answered, body[h])
  /\ Queue!Consume
  /\ lpc' = "idle"
  /\ UNCHANGED <<spc, nulls, sent, active>>

\* A null node: it is deleted, and receive says false.
ReceiveNullNode ==
  /\ lpc = "receive" /\ cpc = "got" /\ body[h] \in nulls
  /\ Queue!Consume
  /\ lpc' = "stop"
  /\ UNCHANGED <<spc, nulls, answered, sent, active>>

\* pop answered nullptr, and receive says false.
ReceiveNothing ==
  /\ lpc = "receive" /\ cpc = "null"
  /\ Queue!Retry
  /\ lpc' = "stop"
  /\ UNCHANGED <<spc, nulls, answered, sent, active>>

\* ev_async_stop
Stop ==
  /\ lpc = "stop"
  /\ active' = FALSE
  /\ lpc' = "idle"
  /\ UNCHANGED <<queue, spc, nulls, answered, sent>>

-----------------------------------------------------------------------------
LoopStep ==
  Callback \/ Pop \/ CallCommand \/ ReceiveNullNode \/ ReceiveNothing \/ Stop

Next ==
  \/ \E p \in Producers :
       Request(p) \/ NullMsg(p) \/ Swap(p) \/ Link(p) \/ Signal(p)
  \/ LoopStep

\* A thread inside request or nullmsg runs on, and so does the event loop.
Fairness ==
  /\ \A p \in Producers : WF_vars(Swap(p) \/ Link(p) \/ Signal(p))
  /\ WF_vars(LoopStep)

Spec == Init /\ [][Next]_vars /\ Fairness

-----------------------------------------------------------------------------
(* Properties *)

(* A request is executed at most once, and the requests that entered the    *)
(* queue are executed in that order, whatever is left behind at the end:    *)
(* each is in the place that it has among the requests pushed.              *)
Requests(i) == Cardinality({j \in 1 .. i : log[j] \notin nulls})
Held == IF cpc = "got" /\ body[h] \notin nulls THEN <<body[h]>> ELSE <<>>
Done == answered \o Held

ExecutedOnceInOrder ==
  /\ Len(Done) = Requests(deq)
  /\ \A i \in 1 .. deq : log[i] \notin nulls => Done[Requests(i)] = log[i]

(* Signals coalesce, so a request may be left in the queue when the loop    *)
(* has nothing more to do.  As long as the watcher was not stopped this     *)
(* does not happen to all requesters at once: when every thread is done and *)
(* something is left behind, somebody was answered and can send the signal  *)
(* that gets the loop going again.                                          *)
AtRest == ~sent /\ lpc = "idle" /\ \A p \in Producers : spc[p] = "idle"

NotEveryoneStranded ==
  Synchronous /\ AtRest /\ active => \E p \in Producers : Answered(p)

(* A command is applied and its result is returned via future-promise       *)
(* (cmd/command.hpp:99-100): who has made a request gets an answer.         *)
RequestAnswered ==
  \A p \in Producers, k \in 1 .. MaxSends :
    (count[p] >= k /\ <<p, k>> \notin nulls) ~> IsAnswered(<<p, k>>)

=============================================================================
