------------------------------ MODULE MpscPipe ------------------------------
(***************************************************************************)
(* MpscPipe<DataT> (msgqueue/queue/mpsc_pipe.hpp): an MpscQueue and the    *)
(* Eventcount its consumer sleeps on.  send pushes and notifies, recv is   *)
(* Eventcount::out around pop.  As written, send and try_recv do not       *)
(* compile (`queue->` where queue is no pointer); they are read as calls   *)
(* of the member.                                                          *)
(*                                                                         *)
(* The link of push (`prev->next = next`, a plain store) and the load of   *)
(* `waiting` in notify are to different addresses and nothing orders them. *)
(* The processor may perform the load while the store still sits in the    *)
(* producer's store buffer, as x86 does.  Atomic exchange, the             *)
(* sequentially consistent store of prepare_wait and sem_post empty the    *)
(* buffer, and stores leave it in order, so the link is the only store it  *)
(* can delay to any effect.                                                *)
(***************************************************************************)
EXTENDS Integers, Sequences, FiniteSets

CONSTANTS Producers, Nodes, Dummy, NULL, MaxSends

ASSUME MpscPipeAssumption ==
  /\ Dummy \in Nodes /\ NULL \notin Nodes
  /\ MaxSends \in Nat

VARIABLES
  head, tail, next, heap, data, ppc, mine, prev, count, cpc, h, dropped,
  order, log, deq, out,
  waiting, semaphore,
  spc,   \* producer p: its place in send
  rpc,   \* consumer: its place in recv, that is in Eventcount::out
  overtaken  \* history: a notify that posted nothing overtook its own push

Queue == INSTANCE MpscQueue
Event == INSTANCE Eventcount

queue == <<head, tail, next, heap, data, ppc, mine, prev, count, cpc, h,
           dropped, order, log, deq, out>>
event == <<waiting, semaphore>>
vars  == <<queue, event, spc, rpc, overtaken>>

Init ==
  /\ Queue!Init /\ Event!Init
  /\ spc = [p \in Producers |-> "idle"]
  /\ rpc = "first" /\ overtaken = FALSE

-----------------------------------------------------------------------------
(* Bugs the properties are sensitive to; none of these is an action of Next *)

\* recv that sleeps without asking the queue again after prepare_wait.
PrepareThenSleep ==
  /\ rpc = "prepare"
  /\ Event!prepare_wait
  /\ rpc' = "commit"
  /\ UNCHANGED <<queue, spc, overtaken>>

\* notify that clears `waiting` and posts no token.
ClearForgotten(p) ==
  /\ spc[p] = "clear" /\ ppc[p] = "idle"
  /\ Event!notify_clear
  /\ spc' = [spc EXCEPT ![p] = "idle"]
  /\ UNCHANGED <<queue, rpc, overtaken>>

-----------------------------------------------------------------------------
(* send *)

Send(p) ==
  /\ spc[p] = "idle"
  /\ Queue!PushBegin(p)
  /\ spc' = [spc EXCEPT ![p] = "push"]
  /\ UNCHANGED <<event, rpc, overtaken>>

Swap(p) == Queue!PushSwap(p) /\ UNCHANGED <<event, spc, rpc, overtaken>>

Link(p) == Queue!PushLink(p) /\ UNCHANGED <<event, spc, rpc, overtaken>>

\* notify loads `waiting`, after the link or, out of order, before it.
NotifyLoad(p) ==
  /\ spc[p] = "push"
  /\ ppc[p] \in {"idle", "link"}
  /\ spc' = [spc EXCEPT ![p] = IF Event!notify_needed THEN "clear" ELSE "idle"]
  /\ overtaken' = (overtaken \/ (ppc[p] = "link" /\ ~Event!notify_needed))
  /\ UNCHANGED <<queue, event, rpc>>

NotifyClear(p) ==
  /\ spc[p] = "clear" /\ ppc[p] = "idle"
  /\ Event!notify_clear
  /\ spc' = [spc EXCEPT ![p] = "post"]
  /\ UNCHANGED <<queue, rpc, overtaken>>

NotifyPost(p) ==
  /\ spc[p] = "post"
  /\ Event!notify_post
  /\ spc' = [spc EXCEPT ![p] = "idle"]
  /\ UNCHANGED <<queue, rpc, overtaken>>

-----------------------------------------------------------------------------
(* recv, which the consumer calls over and over *)

\* `func()` at one of its three places in out.
InFunc == rpc \in {"first", "second", "third"}

Func ==
  /\ InFunc
  /\ Queue!Pop \/ Queue!PopFree
  /\ UNCHANGED <<event, spc, rpc, overtaken>>

\* A message: out returns it, and recv is called again.
FuncTrue ==
  /\ InFunc /\ cpc = "true"
  /\ Queue!Call
  /\ rpc' = IF rpc = "second" THEN "cancel" ELSE "first"
  /\ UNCHANGED <<event, spc, overtaken>>

\* No message: the loop goes on.
FuncFalse ==
  /\ InFunc /\ cpc = "false"
  /\ Queue!Call
  /\ rpc' = IF rpc = "second" THEN "commit" ELSE "prepare"
  /\ UNCHANGED <<event, spc, overtaken>>

Prepare ==
  /\ rpc = "prepare"
  /\ Event!prepare_wait
  /\ rpc' = "second"
  /\ UNCHANGED <<queue, spc, overtaken>>

Cancel ==
  /\ rpc = "cancel"
  /\ Event!cancel_wait
  /\ rpc' = "first"
  /\ UNCHANGED <<queue, spc, overtaken>>

Commit ==
  /\ rpc = "commit"
  /\ Event!commit_wait
  /\ rpc' = "third"
  /\ UNCHANGED <<queue, spc, overtaken>>

\* The pipe goes when nobody is inside send or recv: its queue is destroyed.
Destroy ==
  /\ rpc = "first" /\ cpc = "ready" /\ \A p \in Producers : spc[p] = "idle"
  /\ Queue!Destroy
  /\ UNCHANGED <<event, spc, rpc, overtaken>>

-----------------------------------------------------------------------------
SendStep(p) == Swap(p) \/ NotifyLoad(p) \/ NotifyClear(p) \/ NotifyPost(p)
RecvStep == Func \/ FuncTrue \/ FuncFalse \/ Prepare \/ Cancel \/ Commit

Next ==
  \/ \E p \in Producers : Send(p) \/ Link(p) \/ SendStep(p)
  \/ RecvStep
  \/ Destroy

(* A send that began ends (it has no loop and never blocks), store buffers  *)
(* drain, and the consumer runs on until it sleeps on an empty semaphore.   *)
(* Nobody has to destroy the pipe.                                          *)
Spec ==
  /\ Init /\ [][Next]_vars
  /\ \A p \in Producers : WF_vars(SendStep(p)) /\ WF_vars(Link(p))
  /\ WF_vars(RecvStep)

-----------------------------------------------------------------------------
(* Properties *)

\* The consumer sleeps and no token is there to wake it.
Asleep == rpc = "commit" /\ semaphore = 0

(* Whatever the store buffers do, who sleeps has announced it, or a post is *)
(* on its way: the next send wakes the consumer (eventcount.hpp:31-36), and *)
(* a message stranded by a lost wakeup is stranded only until then.         *)
WokenBySend == Asleep => Event!notify_needed \/ \E p \in Producers : spc[p] = "post"

\* Every message that was sent is received, unless a load overtook a link or
\* the pipe is destroyed.
Received == (deq < Len(log)) ~> (deq = Len(log) \/ overtaken \/ cpc = "destroyed")

\* The queue within the pipe is a FIFO, whatever sleeps and wakes around it.
ImplementsFifo == Queue!ImplementsFifo

\* pop frees no node that a send may still store into (mpsc_queue.hpp:67).
NoUseAfterFree == Queue!NoUseAfterFree

\* A pipe that is destroyed leaves no node, and clears what nobody received.
NoLeak == Queue!NoLeak

=============================================================================
