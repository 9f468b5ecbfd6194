---------------------------- MODULE IntMpscQueue ----------------------------
(***************************************************************************)
(* IntMpscQueue (msgqueue/queue/int_mpsc_queue.hpp): the intrusive         *)
(* multi-producer single-consumer queue every message queue of the program *)
(* is built on.  Producers call push, one consumer calls pop and deletes   *)
(* the command it received (MessageQueue::receive and its siblings).       *)
(*                                                                         *)
(* One action is one access to memory that another thread can see, with    *)
(* the thread-private work around it.  `next` is a plain pointer field: a  *)
(* store to it becomes visible at some later time, which is what leaving   *)
(* PushLink a step of its own says.  Addresses are reused: a deleted node  *)
(* goes back to the allocator, which may hand it to the next producer.     *)
(***************************************************************************)
EXTENDS Integers, Sequences, FiniteSets

CONSTANTS
  Producers,  \* the threads that call push
  Nodes,      \* the addresses the allocator gives to commands
  Stub,       \* the address of the queue's own member `stub`
  NULL,       \* the null pointer
  MaxSends    \* bound: how many commands one producer sends

ASSUME QueueAssumption ==
  /\ Stub \notin Nodes
  /\ NULL \notin Nodes \union {Stub}
  /\ MaxSends \in Nat

Pointers == Nodes \union {Stub}
Messages == Producers \X (1 .. MaxSends)

VARIABLES
  \* the queue object and the nodes
  head, tail, next,
  heap,       \* the nodes that are allocated
  body,       \* the message a node carries (AbstractCommand around the Node)
  \* producer p: where it is in push, its arguments and locals
  ppc, mine, prev, count,
  \* consumer: where it is in pop, its locals h and (inside push(s)) prev
  cpc, h, cprev,
  \* history: the nodes in the queue from head to tail, and the abstract queue
  order, log, deq, out,
  overlap     \* some push was under way while the running pop executed

memory   == <<head, tail, next, heap, body>>
producer == <<ppc, mine, prev, count>>
consumer == <<cpc, h, cprev>>
history  == <<order, log, deq, out, overlap>>
vars     == <<memory, producer, consumer, history>>

-----------------------------------------------------------------------------
\* The constructor: head and tail point at the stub, whose next is null.
Init ==
  /\ head = Stub /\ tail = Stub
  /\ next = [n \in Pointers |-> NULL]
  /\ heap = {}
  /\ body = [n \in Nodes |-> <<>>]
  /\ ppc = [p \in Producers |-> "idle"]
  /\ mine = [p \in Producers |-> NULL]
  /\ prev = [p \in Producers |-> NULL]
  /\ count = [p \in Producers |-> 0]
  /\ cpc = "idle" /\ h = NULL /\ cprev = NULL
  /\ order = <<Stub>> /\ log = <<>> /\ deq = 0 /\ out = <<>>
  /\ overlap = FALSE

\* Producer p displaced the tail and still owes the store of a next field.
Linking(p) == ppc[p] = "link"
Popping == cpc \in {"second", "tail", "restub", "relink", "last"}

-----------------------------------------------------------------------------
(* How pop ends *)

\* `head.store(n); return node;` -- the node leaves the queue.
Return(node, n) ==
  /\ head' = n
  /\ cpc' = "got" /\ h' = node
  /\ order' = Tail(order)
  /\ deq' = deq + 1 /\ out' = body[node]
  /\ overlap' = FALSE
  /\ UNCHANGED log

\* `return nullptr`
ReturnNull ==
  /\ cpc' = "null" /\ h' = NULL
  /\ UNCHANGED <<head, order, log, deq, out>>

-----------------------------------------------------------------------------
(* Bugs the properties are sensitive to; none of these is an action of Next *)

\* push without `next->next = NULL`.
PushBeginKeepsNext(p) ==
  /\ ppc[p] = "idle" /\ count[p] < MaxSends
  /\ \E n \in Nodes \ heap :
       /\ heap' = heap \union {n}
       /\ body' = [body EXCEPT ![n] = <<p, count[p] + 1>>]
       /\ mine' = [mine EXCEPT ![p] = n]
  /\ ppc' = [ppc EXCEPT ![p] = "swap"]
  /\ count' = [count EXCEPT ![p] = @ + 1]
  /\ UNCHANGED <<head, tail, next, prev, consumer, history>>

\* pop without the stub: a null pointer behind the last node means empty.
PopTailWithoutStub ==
  /\ cpc = "tail"
  /\ ReturnNull
  /\ UNCHANGED <<tail, next, heap, body, producer, cprev, overlap>>

\* pop that gives up after push(s) without looking at h->next again.
PopLastWithoutRecheck ==
  /\ cpc = "last"
  /\ ReturnNull
  /\ UNCHANGED <<tail, next, heap, body, producer, cprev, overlap>>

\* pop that hands the node out although a push has yet to link behind it.
PopLastTooEarly ==
  /\ cpc = "last"
  /\ Return(h, IF next[h] # NULL THEN next[h] ELSE Stub)
  /\ UNCHANGED <<tail, next, heap, body, producer, cprev>>

-----------------------------------------------------------------------------
(* push, called by a producer for a command it has just allocated *)

\* new Command, then `next->next = NULL` on a node no other thread can reach.
PushBegin(p) ==
  /\ ppc[p] = "idle" /\ count[p] < MaxSends
  /\ \E n \in Nodes \ heap :
       /\ heap' = heap \union {n}
       /\ body' = [body EXCEPT ![n] = <<p, count[p] + 1>>]
       /\ next' = [next EXCEPT ![n] = NULL]
       /\ mine' = [mine EXCEPT ![p] = n]
  /\ ppc' = [ppc EXCEPT ![p] = "swap"]
  /\ count' = [count EXCEPT ![p] = @ + 1]
  /\ UNCHANGED <<head, tail, prev, consumer, history>>

\* tail.exchange(next): the message is in the queue from here on.
PushSwap(p) ==
  /\ ppc[p] = "swap"
  /\ prev' = [prev EXCEPT ![p] = tail]
  /\ tail' = mine[p]
  /\ ppc' = [ppc EXCEPT ![p] = "link"]
  /\ order' = Append(order, mine[p])
  /\ log' = Append(log, body[mine[p]])
  /\ overlap' = (overlap \/ Popping)
  /\ UNCHANGED <<head, next, heap, body, mine, count, consumer, deq, out>>

\* `prev->next = next`: the consumer can reach the node from here on.
PushLink(p) ==
  /\ ppc[p] = "link"
  /\ next' = [next EXCEPT ![prev[p]] = mine[p]]
  /\ ppc' = [ppc EXCEPT ![p] = "idle"]
  /\ mine' = [mine EXCEPT ![p] = NULL]
  /\ prev' = [prev EXCEPT ![p] = NULL]
  /\ UNCHANGED <<head, tail, heap, body, count, consumer, history>>

-----------------------------------------------------------------------------
(* pop, called by the consumer *)

\* h and n are read; the stub is stepped over when it is at the head.
PopStart ==
  /\ cpc = "idle"
  /\ \/ /\ head = Stub /\ next[Stub] = NULL
        /\ overlap' = (\E p \in Producers : Linking(p))
        /\ ReturnNull
     \/ /\ head = Stub /\ next[Stub] # NULL
        /\ head' = next[Stub] /\ h' = next[Stub]
        /\ cpc' = "second"
        /\ order' = Tail(order)
        /\ overlap' = (\E p \in Producers : Linking(p))
        /\ UNCHANGED <<log, deq, out>>
     \/ /\ head # Stub /\ next[head] # NULL
        /\ Return(head, next[head])
     \/ /\ head # Stub /\ next[head] = NULL
        /\ cpc' = "tail" /\ h' = head
        /\ overlap' = (\E p \in Producers : Linking(p))
        /\ UNCHANGED <<head, order, log, deq, out>>
  /\ UNCHANGED <<tail, next, heap, body, producer, cprev>>

\* `n = n->next` after the stub was stepped over.
PopSecond ==
  /\ cpc = "second"
  /\ \/ /\ next[h] # NULL
        /\ Return(h, next[h])
     \/ /\ next[h] = NULL
        /\ cpc' = "tail"
        /\ UNCHANGED <<head, h, history>>
  /\ UNCHANGED <<tail, next, heap, body, producer, cprev>>

\* `t != h`: another push has swapped the tail, its link is not there yet.
PopTail ==
  /\ cpc = "tail"
  /\ \/ /\ tail # h
        /\ ReturnNull
        /\ UNCHANGED <<next, overlap>>
     \/ /\ tail = h
        /\ next' = [next EXCEPT ![Stub] = NULL]
        /\ cpc' = "restub"
        /\ UNCHANGED <<head, h, history>>
  /\ UNCHANGED <<tail, heap, body, producer, cprev>>

\* The exchange inside push(s): the stub goes back in behind the last node.
PopRestub ==
  /\ cpc = "restub"
  /\ cprev' = tail
  /\ tail' = Stub
  /\ cpc' = "relink"
  /\ order' = Append(order, Stub)
  /\ UNCHANGED <<head, next, heap, body, producer, h, log, deq, out, overlap>>

\* `prev->next = next` inside push(s).
PopRelink ==
  /\ cpc = "relink"
  /\ next' = [next EXCEPT ![cprev] = Stub]
  /\ cpc' = "last" /\ cprev' = NULL
  /\ UNCHANGED <<head, tail, heap, body, producer, h, history>>

\* `n = h->next` once more.
PopLast ==
  /\ cpc = "last"
  /\ \/ /\ next[h] # NULL
        /\ Return(h, next[h])
     \/ /\ next[h] = NULL
        /\ ReturnNull
        /\ UNCHANGED overlap
  /\ UNCHANGED <<tail, next, heap, body, producer, cprev>>

\* The caller of pop (receive): the command is called and deleted.
Consume ==
  /\ cpc = "got"
  /\ heap' = heap \ {h}
  /\ cpc' = "idle" /\ h' = NULL
  /\ UNCHANGED <<head, tail, next, body, producer, cprev, history>>

\* The caller of pop got nullptr and will call again.
Retry ==
  /\ cpc = "null"
  /\ cpc' = "idle"
  /\ overlap' = FALSE
  /\ UNCHANGED <<memory, producer, h, cprev, order, log, deq, out>>

-----------------------------------------------------------------------------
PopStep ==
  \/ PopStart \/ PopSecond \/ PopTail \/ PopRestub \/ PopRelink \/ PopLast
  \/ Consume \/ Retry

Next ==
  \/ \E p \in Producers : PushBegin(p) \/ PushSwap(p) \/ PushLink(p)
  \/ PopStep

SafeSpec == Init /\ [][Next]_vars

(* A thread inside push runs on (the scheduler is fair and push has no     *)
(* loop), and the consumer's loop keeps calling pop; nobody has to call    *)
(* push.                                                                   *)
Fairness ==
  /\ \A p \in Producers : WF_vars(PushSwap(p) \/ PushLink(p))
  /\ WF_vars(PopStep)

Spec == SafeSpec /\ Fairness

-----------------------------------------------------------------------------
(* Type correctness *)

\* The values every variable of the queue, of its users and of the history takes.
TypeOK ==
  /\ head \in Pointers /\ tail \in Pointers
  /\ next \in [Pointers -> Pointers \union {NULL}]
  /\ heap \subseteq Nodes
  /\ body \in [Nodes -> Messages \union {<<>>}]
  /\ ppc \in [Producers -> {"idle", "swap", "link"}]
  /\ mine \in [Producers -> Nodes \union {NULL}]
  /\ prev \in [Producers -> Pointers \union {NULL}]
  /\ count \in [Producers -> 0 .. MaxSends]
  /\ cpc \in {"idle", "second", "tail", "restub", "relink", "last", "got", "null"}
  /\ h \in Pointers \union {NULL} /\ cprev \in Pointers \union {NULL}
  /\ order \in Seq(Pointers)
  /\ log \in Seq(Messages) /\ deq \in Nat
  /\ out \in Messages \union {<<>>}
  /\ overlap \in BOOLEAN

-----------------------------------------------------------------------------
(* The shape of the queue: the inductive invariant behind the properties *)

\* The consumer, inside push(s), is about to store a next field.
Restubbing == cpc = "relink"

\* Which thread owes the link from order[i] to order[i + 1].
OwedByProducer(p, i) == Linking(p) /\ prev[p] = order[i] /\ mine[p] = order[i + 1]
OwedByConsumer(i) == Restubbing /\ cprev = order[i] /\ order[i + 1] = Stub
Owed(i) == (\E p \in Producers : OwedByProducer(p, i)) \/ OwedByConsumer(i)

\* The nodes from head to tail are all different and end in a null pointer.
Ends ==
  /\ Len(order) >= 1
  /\ order[1] = head /\ order[Len(order)] = tail
  /\ next[tail] = NULL
  /\ \A i, j \in 1 .. Len(order) : order[i] = order[j] => i = j

\* Each node points at its successor, or a thread is about to make it do so.
Links ==
  \A i \in 1 .. (Len(order) - 1) :
    \/ next[order[i]] = order[i + 1] /\ ~Owed(i)
    \/ next[order[i]] = NULL /\ Owed(i)

\* Every thread that is about to store a next field stores it into the queue.
Debts ==
  /\ \A p \in Producers : Linking(p) =>
       \E i \in 1 .. (Len(order) - 1) : OwedByProducer(p, i)
  /\ \A p, q \in Producers : Linking(p) /\ Linking(q) /\ mine[p] = mine[q] => p = q
  /\ Restubbing => \E i \in 1 .. (Len(order) - 1) : OwedByConsumer(i)

\* The allocated nodes and who holds them.
InQueue(n) == \E i \in 1 .. Len(order) : order[i] = n
Before(p) == ppc[p] = "swap"
Held(n) == cpc = "got" /\ h = n

Owners ==
  /\ \A n \in Nodes : InQueue(n) => n \in heap /\ ~Held(n)
  /\ \A p \in Producers : Before(p) =>
       /\ mine[p] \in heap /\ ~InQueue(mine[p]) /\ ~Held(mine[p])
       /\ next[mine[p]] = NULL /\ body[mine[p]] \in Messages
       /\ \A q \in Producers : Before(q) /\ mine[q] = mine[p] => q = p
  /\ cpc = "got" => h \in heap

\* What pop knows of the queue at each of its points.
PopState ==
  /\ cpc \in {"second", "tail", "restub", "relink", "last"} => h = head /\ h # Stub
  /\ cpc \in {"second", "restub"} => ~InQueue(Stub)
  /\ cpc = "restub" => next[Stub] = NULL
  /\ cpc \in {"relink", "last"} => InQueue(Stub)
  /\ Popping /\ ~overlap =>
       (\A p \in Producers : ~Linking(p)) /\ (cpc = "tail" => next[h] = NULL)

\* The place of order[i] in the abstract queue: the stub carries no message.
Rank(i) == deq + i - (IF \E j \in 1 .. i : order[j] = Stub THEN 1 ELSE 0)

\* The queue holds exactly the messages not yet received, in order of entry.
Contents ==
  /\ \A i \in 1 .. Len(order) : order[i] # Stub =>
       Rank(i) \in 1 .. Len(log) /\ body[order[i]] = log[Rank(i)]
  /\ Rank(Len(order)) = Len(log)

Chain == Ends /\ Links /\ Debts /\ Owners /\ PopState /\ Contents

-----------------------------------------------------------------------------
(* Safety *)

(* push stores into the node it displaced after it let go of the tail: that *)
(* node must not have been received, deleted and given to another producer  *)
(* in between (`prev->next = next`, line 28).                               *)
NoDanglingWrite ==
  \A p \in Producers : Linking(p) =>
    /\ prev[p] \in heap \union {Stub}
    /\ \A q \in Producers : Before(q) => mine[q] # prev[p]
    /\ ~Held(prev[p])

(* pop may answer nullptr while messages are waiting, but only when a push  *)
(* ran at the same time: a consumer alone with the queue empties it.        *)
NullIsHonest ==
  [][cpc' = "null" /\ cpc # "null" /\ ~overlap' => deq' = Len(log')]_vars

-----------------------------------------------------------------------------
(* What the queue promises *)

Fifo == INSTANCE MpscFifo

(* The queue is a FIFO: push enqueues at its exchange, pop dequeues where   *)
(* it moves head and returns the node, and nothing is lost, duplicated or   *)
(* reordered.                                                               *)
ImplementsFifo == Fifo!SafeSpec

(* Nothing is left behind: a consumer that keeps calling pop receives every *)
(* message, also those whose pop was answered nullptr in between.           *)
NothingLeftBehind == Fifo!Spec

=============================================================================
