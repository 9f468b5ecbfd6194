---------------------------- MODULE MessageQueue ----------------------------
(***************************************************************************)
(* MessageQueue (msgqueue/msgqueue.hpp) on its IntMpscPipe                 *)
(* (queue/int_mpsc_pipe.hpp): the queue of a worker thread that executes   *)
(* the commands other threads send it, until it receives a null node.      *)
(* MemberMessageQueue wraps it and adds nothing.                           *)
(*                                                                         *)
(* IntMpscPipe::send calls queue.pop() where one expects queue.push(node). *)
(* The model does the same, so the queue is never filled: it is kept as a  *)
(* sequence, since the pointer structure of IntMpscQueue plays no role.    *)
(***************************************************************************)
EXTENDS Naturals, Sequences

CONSTANTS
  Clients,    \* the threads that send
  MaxSends    \* bound: how many nodes one client sends

VARIABLES
  queue,      \* the nodes in the queue
  waiting, semaphore,
  cpc,        \* client: its place in request, send and notify
  count,      \* client: how many nodes it has sent
  nulls,      \* the nodes with a null self
  answered,   \* the commands that were called
  wpc,        \* worker: its place in run, receive and Eventcount::out
  node        \* worker: the result of out, <<>> for nullptr

Event == INSTANCE Eventcount

client == <<cpc, count, nulls>>
event  == <<waiting, semaphore>>
vars   == <<queue, event, client, answered, wpc, node>>

Init ==
  /\ queue = <<>> /\ Event!Init
  /\ cpc = [c \in Clients |-> "idle"]
  /\ count = [c \in Clients |-> 0]
  /\ nulls = {} /\ answered = {}
  /\ wpc = "first" /\ node = <<>>

\* What pop leaves of the queue.
Popped == IF queue = <<>> THEN <<>> ELSE Tail(queue)

-----------------------------------------------------------------------------
(* request and nullmsg, called by a client *)

New(c) ==
  /\ cpc[c] = "idle" /\ count[c] < MaxSends
  /\ cpc' = [cpc EXCEPT ![c] = "send"]
  /\ count' = [count EXCEPT ![c] = @ + 1]
  /\ UNCHANGED <<queue, event, answered, wpc, node>>

Request(c) == New(c) /\ UNCHANGED nulls
NullMsg(c) == New(c) /\ nulls' = nulls \union {<<c, count'[c]>>}

\* IntMpscPipe::send
Send(c) ==
  /\ cpc[c] = "send"
  /\ queue' = Popped
  /\ cpc' = [cpc EXCEPT ![c] = "notify"]
  /\ UNCHANGED <<event, count, nulls, answered, wpc, node>>

NotifyLoad(c) ==
  /\ cpc[c] = "notify"
  /\ cpc' = [cpc EXCEPT ![c] = IF Event!notify_needed THEN "clear" ELSE "idle"]
  /\ UNCHANGED <<queue, event, count, nulls, answered, wpc, node>>

NotifyClear(c) ==
  /\ cpc[c] = "clear"
  /\ Event!notify_clear
  /\ cpc' = [cpc EXCEPT ![c] = "post"]
  /\ UNCHANGED <<queue, count, nulls, answered, wpc, node>>

NotifyPost(c) ==
  /\ cpc[c] = "post"
  /\ Event!notify_post
  /\ cpc' = [cpc EXCEPT ![c] = "idle"]
  /\ UNCHANGED <<queue, count, nulls, answered, wpc, node>>

-----------------------------------------------------------------------------
(* recv, receive and run, called by the worker *)

\* `func()`, at its three places in out
Func ==
  /\ wpc \in {"first", "second", "third"}
  /\ node' = IF queue = <<>> THEN <<>> ELSE Head(queue)
  /\ queue' = Popped
  /\ wpc' = CASE node' # <<>> /\ wpc = "second" -> "cancel"
              [] node' # <<>> /\ wpc # "second" -> "receive"
              [] node' = <<>> /\ wpc = "second" -> "commit"
              [] OTHER -> "prepare"
  /\ UNCHANGED <<event, client, answered>>

Prepare ==
  /\ wpc = "prepare"
  /\ Event!prepare_wait
  /\ wpc' = "second"
  /\ UNCHANGED <<queue, client, answered, node>>

Cancel ==
  /\ wpc = "cancel"
  /\ Event!cancel_wait
  /\ wpc' = "receive"
  /\ UNCHANGED <<queue, client, answered, node>>

Commit ==
  /\ wpc = "commit"
  /\ Event!commit_wait
  /\ wpc' = "third"
  /\ UNCHANGED <<queue, client, answered, node>>

\* A command is called and deleted, a null node ends run.
Receive ==
  /\ wpc = "receive"
  /\ \/ /\ node \notin nulls
        /\ answered' = answered \union {node}
        /\ wpc' = "first"
     \/ /\ node \in nulls
        /\ wpc' = "ended"
        /\ UNCHANGED answered
  /\ node' = <<>>
  /\ UNCHANGED <<queue, event, client>>

-----------------------------------------------------------------------------
ClientStep(c) == Send(c) \/ NotifyLoad(c) \/ NotifyClear(c) \/ NotifyPost(c)
WorkerStep == Func \/ Prepare \/ Cancel \/ Commit \/ Receive

Next ==
  \/ \E c \in Clients : Request(c) \/ NullMsg(c) \/ ClientStep(c)
  \/ WorkerStep

\* A send that has begun ends; the worker runs until it sleeps or has ended.
Spec ==
  /\ Init /\ [][Next]_vars
  /\ \A c \in Clients : WF_vars(ClientStep(c))
  /\ WF_vars(WorkerStep)

-----------------------------------------------------------------------------
(* Properties *)

(* The stored arguments are applied to the function object and the result   *)
(* is returned via future-promise (cmd/command.hpp:99-100): a request made  *)
(* while the worker runs is answered, unless the worker is told to end.     *)
RequestAnswered ==
  \A c \in Clients, k \in 1 .. MaxSends :
    (count[c] >= k) ~> (<<c, k>> \in answered \/ nulls # {})

=============================================================================
