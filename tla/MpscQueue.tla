------------------------------ MODULE MpscQueue ------------------------------
(***************************************************************************)
(* MpscQueue<DataT> (msgqueue/queue/mpsc_queue.hpp): the queue that owns   *)
(* its nodes.  The node at the head is always a dummy whose data has been  *)
(* taken; pop frees it and makes its successor the new dummy.              *)
(*                                                                         *)
(* One action is one access to memory another thread can see.  Freed nodes *)
(* go back to the allocator and are handed out again.  The destructor runs *)
(* when no thread uses the queue any more.                                 *)
(***************************************************************************)
EXTENDS Integers, Sequences, FiniteSets

CONSTANTS
  Producers,  \* the threads that call push
  Nodes,      \* the addresses the allocator gives to nodes
  Dummy,      \* the one the constructor gets
  NULL,       \* the null pointer
  MaxSends    \* bound: how many messages one producer sends

VARIABLES
  head, tail, next,
  heap,       \* the nodes that are allocated
  data,       \* the data member of a node, <<>> when it was default-constructed
  ppc, mine, prev, count,   \* producer p: place in push, its locals
  cpc, h,                   \* consumer: place in pop, its local h
  dropped,    \* the messages clearData deleted
  \* history: the nodes in the queue from head to tail, and the abstract queue
  order, log, deq, out

memory   == <<head, tail, next, heap, data>>
producer == <<ppc, mine, prev, count>>
consumer == <<cpc, h>>
history  == <<order, log, deq, out>>
vars     == <<memory, producer, consumer, dropped, history>>

\* What the producers send: the k-th message of each.
Messages == Producers \X (1 .. MaxSends)

-----------------------------------------------------------------------------
\* The constructor: one value-initialised node.
Init ==
  /\ head = Dummy /\ tail = Dummy
  /\ next = [n \in Nodes |-> NULL]
  /\ heap = {Dummy}
  /\ data = [n \in Nodes |-> <<>>]
  /\ ppc = [p \in Producers |-> "idle"]
  /\ mine = [p \in Producers |-> NULL]
  /\ prev = [p \in Producers |-> NULL]
  /\ count = [p \in Producers |-> 0]
  /\ cpc = "ready" /\ h = NULL
  /\ dropped = {}
  /\ order = <<Dummy>> /\ log = <<>> /\ deq = 0 /\ out = <<>>

-----------------------------------------------------------------------------
\* No thread is inside push or pop.
Unused ==
  /\ cpc \in {"ready", "true", "false"}
  /\ \A p \in Producers : ppc[p] = "idle"

-----------------------------------------------------------------------------
(* Bugs the properties are sensitive to; none of these is an action of Next *)

\* pop that frees the new head instead of the node it left.
PopFreeWrongNode ==
  /\ cpc = "free"
  /\ heap' = heap \ {head}
  /\ cpc' = "true" /\ h' = NULL
  /\ UNCHANGED <<head, tail, next, data, producer, dropped, history>>

\* pop that reads the data of the node it leaves.
PopFromHead ==
  /\ cpc = "ready"
  /\ \/ /\ next[head] = NULL
        /\ cpc' = "false"
        /\ UNCHANGED <<head, h, order, deq, out>>
     \/ /\ next[head] # NULL
        /\ cpc' = "free" /\ h' = head
        /\ head' = next[head] /\ order' = Tail(order)
        /\ deq' = deq + 1 /\ out' = data[head]
  /\ UNCHANGED <<tail, next, heap, data, producer, dropped, log>>

\* A destructor that starts with the dummy's successor.
DestroyForgetsDummy ==
  /\ Unused
  /\ cpc' = "destroyed"
  /\ heap' = {head}
  /\ dropped' = {data[n] : n \in heap \ {head}}
  /\ UNCHANGED <<head, tail, next, data, producer, h, history>>

-----------------------------------------------------------------------------
(* push *)

\* new Node(), with its data and a null next, on no other thread's path.
PushBegin(p) ==
  /\ ppc[p] = "idle" /\ count[p] < MaxSends /\ cpc # "destroyed"
  /\ \E n \in Nodes \ heap :
       /\ heap' = heap \union {n}
       /\ data' = [data EXCEPT ![n] = <<p, count[p] + 1>>]
       /\ next' = [next EXCEPT ![n] = NULL]
       /\ mine' = [mine EXCEPT ![p] = n]
  /\ ppc' = [ppc EXCEPT ![p] = "swap"]
  /\ count' = [count EXCEPT ![p] = @ + 1]
  /\ UNCHANGED <<head, tail, prev, consumer, dropped, history>>

\* tail.exchange(next)
PushSwap(p) ==
  /\ ppc[p] = "swap"
  /\ prev' = [prev EXCEPT ![p] = tail]
  /\ tail' = mine[p]
  /\ order' = Append(order, mine[p])
  /\ log' = Append(log, data[mine[p]])
  /\ ppc' = [ppc EXCEPT ![p] = "link"]
  /\ UNCHANGED <<head, next, heap, data, mine, count, consumer, dropped, deq, out>>

\* `prev->next = next`
PushLink(p) ==
  /\ ppc[p] = "link"
  /\ next' = [next EXCEPT ![prev[p]] = mine[p]]
  /\ ppc' = [ppc EXCEPT ![p] = "idle"]
  /\ mine' = [mine EXCEPT ![p] = NULL]
  /\ prev' = [prev EXCEPT ![p] = NULL]
  /\ UNCHANGED <<head, tail, heap, data, count, consumer, dropped, history>>

-----------------------------------------------------------------------------
(* pop *)

\* The caller of pop has looked at its answer and may call it again.
Call ==
  /\ cpc \in {"true", "false"}
  /\ cpc' = "ready"
  /\ UNCHANGED <<memory, producer, h, dropped, history>>

\* The successor of the dummy becomes the dummy, its data is taken.
Pop ==
  /\ cpc = "ready"
  /\ \/ /\ next[head] = NULL
        /\ cpc' = "false"
        /\ UNCHANGED <<head, h, order, deq, out>>
     \/ /\ next[head] # NULL
        /\ cpc' = "free" /\ h' = head
        /\ head' = next[head] /\ order' = Tail(order)
        /\ deq' = deq + 1 /\ out' = data[next[head]]
  /\ UNCHANGED <<tail, next, heap, data, producer, dropped, log>>

\* `delete h; return true`
PopFree ==
  /\ cpc = "free"
  /\ heap' = heap \ {h}
  /\ cpc' = "true" /\ h' = NULL
  /\ UNCHANGED <<head, tail, next, data, producer, dropped, history>>

-----------------------------------------------------------------------------
(* The destructor *)

\* The nodes the destructor's loop comes past: head, and every successor.
Closed(S) == head \in S /\ \A n \in S : next[n] \in S \union {NULL}
Reached == {n \in Nodes : \A S \in SUBSET Nodes : Closed(S) => n \in S}

\* Every node is deleted, and the data of all but the first is cleared.
Destroy ==
  /\ Unused
  /\ cpc' = "destroyed"
  /\ heap' = heap \ Reached
  /\ dropped' = {data[n] : n \in Reached \ {head}}
  /\ UNCHANGED <<head, tail, next, data, producer, h, history>>

-----------------------------------------------------------------------------
Push(p) == PushBegin(p) \/ PushSwap(p) \/ PushLink(p)
Consumer == Call \/ Pop \/ PopFree

Next ==
  \/ \E p \in Producers : Push(p)
  \/ Consumer
  \/ Destroy

SafeSpec == Init /\ [][Next]_vars

-----------------------------------------------------------------------------
(* Properties *)

(* pop frees a node other threads may still know: whoever displaced it as   *)
(* the tail stores into its next field.  It must be alive then, as must the *)
(* ends of the queue and the node pop is about to free.                     *)
NoUseAfterFree ==
  cpc # "destroyed" =>
    /\ head \in heap /\ tail \in heap
    /\ \A p \in Producers : ppc[p] = "link" => prev[p] \in heap \ {h}
    /\ cpc = "free" => h \in heap

(* Once the queue is destroyed nothing of it is left, and every message was *)
(* either received or cleared, none of them both.                           *)
NoLeak ==
  cpc = "destroyed" =>
    /\ heap = {}
    /\ dropped = {log[i] : i \in (deq + 1) .. Len(log)}

Fifo == INSTANCE MpscFifo

\* The queue is a FIFO: nothing is lost, duplicated or reordered.
ImplementsFifo == Fifo!SafeSpec

=============================================================================
