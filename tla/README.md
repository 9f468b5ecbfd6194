# A TLA+ verification of sensor

`sensor` is a network-sensor daemon: a front end that reads a configuration and
supervises a child process (`frontend/`), a library with the capture engine, an
event loop and its services (`libsensor/`), and a small header library of
lock-free queues, futures and commands with which its threads talk to each other
(`msgqueue/`).  There are no tests and hardly any documentation; the code is the
reference for every definition here, and `PROJECT.json` maps each definition to
the lines it models.

The concurrency is where this program is hard, and where it is modelled first; the
hash table, the links of the event loop, the daemon with its configuration and its
supervisor, the engine with its descriptors, and the helpers follow.

## 1. Inventory

| component | state | operations | what must hold |
|---|---|---|---|
| `IntMpscQueue` | `head`, `tail`, the nodes' `next`, a stub node inside the queue | `push` (any thread), `pop` (one thread) | FIFO, nothing lost or duplicated, no store into a node that was given away, null only when empty or when a push is under way |
| `MpscQueue` | the same shape with nodes it allocates, a dummy instead of the stub | `push`, `pop`, destructor | FIFO, no use after free, no leak |
| `Eventcount` | atomic `waiting`, a semaphore | `prepare_wait`, `cancel_wait`, `commit_wait`, `notify`, `out` | no lost wakeup |
| `MpscPipe`, `IntMpscPipe` | a queue and an eventcount | `send`, `recv` | what is sent is received, and a sleeping receiver is woken |
| `MessageQueue`, `MemberMessageQueue` | a pipe | `send`, `request`, `nullmsg`, `receive`, `run` | a request is answered, a null node ends `run` |
| commands | function, arguments, a promise | `call`, delete | called once, the answer reaches the future |
| `future`, `promise` | shared state: mutex, condition variable, `done`, result, reference counts | `set_value`, `get`, `wait`, `wait_for` | `get` returns the value and does return, nothing is used after its last owner dropped it |
| `Signaler`, `SignaledQueue` | an eventfd counter and a queue | `send`, `request`, `nullmsg`, `receive` | `receive` gets as many nodes as were signalled, commands once and in order |
| `AsyncQueue` | a queue and a libev async watcher | `start`, `stop`, `request`, `send`, `nullmsg`, callback | requests answered by the loop |
| event loop, stream links, buffers | armed events, link state, two buffers | `onEvent`, `processRead`, `processWrite`, `prepareEvents` | bytes delivered in order, errors dispose of the link |
| sockets, acceptor, connector | descriptors | `init`, `start`, accept callback | every accepted descriptor has an owner, and the acceptor has its own |
| sensor service, sessions | map of links by address | `onConnectionAccepted`, `onDataRead` | one link per address |
| engine (`sensor_main`) | options, `activated`, two threads | init, set options, main, break loop | stops when told to |
| daemon | the process and its child | fork, wait, restart | a crash restarts, an exit ends |
| configuration (`kvset`) | sections and registered keys | load | every key reaches its option |
| hash table, locks | chained buckets, read-write lock | get, add, replace, remove, steal | a map |
| circular buffer, socket buffer | two positions and a size | add, get, pick, watch, flush, send, recv | a bounded FIFO of bytes |
| capture and survey | the interface's addresses, frames | `perform_survey`, `handlePacket` | the survey asks its network, what is taken for an answer was said to this machine |
| socket helpers | descriptors, `errno` | create, connect, `commit_config` | what fails leaves nothing open |
| multicast sockets | an OpenPGM socket | `create_pgm_socket`, options, descriptors | all or nothing |

How they interact.  The engine's threads (capture, poluter, service) own one
message queue each.  A thread asks another for something by allocating a command,
pushing it on the other's queue and waiting on a future; the other thread pops,
calls, and deletes the command, which sets the promise.  Four queues differ in how
the receiver learns that there is something to pop: a semaphore behind an
eventcount (`MpscPipe`, `IntMpscPipe`), an eventfd (`SignaledQueue`), or the event
loop's async watcher (`AsyncQueue`).  All but `MpscPipe` are built on
`IntMpscQueue`, whose `pop` may answer null although messages wait: each receiver
must cope with that, and each does so differently.

The daemon's `main` loads the configuration, detaches, forks a child and supervises it; the
child installs signal handlers, fills in a `sensor_t` and calls `sensor_main`, which opens
the packet handle, makes the service with its acceptor, and starts the capture and the survey
threads.  The library is meant for other processes than this daemon too, with which it shares the
descriptors.

The hard behaviours: pushes that are cut in two by the scheduler; addresses that
are freed and handed out again; a consumer that goes to sleep while a producer
looks whether it does; signals that coalesce or are missing; condition variables
that wake up spuriously, time out, or are notified after the mutex was released;
shared state whose last owner goes away while another thread returns from it; signals and
crashes at any point of the life of parent and child; descriptors whose number belongs to
somebody else by now; calls that fail half-way through a set-up.

## 2. Modules

| module | models | uses |
|---|---|---|
| `MpscFifo` | what a multi-producer single-consumer queue promises: a log of entered messages, how many left it, and the last one out | |
| `IntMpscQueue` | `int_mpsc_queue.hpp`, at the grain of single loads and stores | implements `MpscFifo` |
| `MpscQueue` | `mpsc_queue.hpp` with allocation and destructor | implements `MpscFifo` |
| `Eventcount` | `eventcount.hpp`, the operations as actions without a program counter | |
| `MpscPipe` | `mpsc_pipe.hpp`, producers, a consumer that sleeps, and the destruction | `MpscQueue`, `Eventcount` |
| `MpscPipeProofs` | proofs about the pipe and its queue | `MpscPipe` |
| `MessageQueue` | `msgqueue.hpp` on `int_mpsc_pipe.hpp` | `Eventcount` |
| `Future` | `future.hpp`, `thread_util.hpp`, and what a command does to its promise | |
| `FutureProofs` | proofs about it | `Future` |
| `SignaledQueue` | `signaled_queue.hpp`, `signaler.hpp` | `IntMpscQueue` |
| `AsyncQueue` | `async_msgqueue.hpp` and the part of libev it relies on | `IntMpscQueue` |
| `Receivers` | the intrusive queue with either of these two receivers | `IntMpscQueue`, `SignaledQueue`, `AsyncQueue` |
| `IntMpscQueueProofs` | proofs about the intrusive queue and both receivers | `Receivers` |
| `ConcurrentMap` | what a shared map promises: each call takes effect at once, and its answer is the map's | |
| `TsHashTable` | `ts_hash_table.hpp` and the lock of `threading.hpp` | implements `ConcurrentMap` |
| `MCTsHashTable` | an instance with colliding hashes | `TsHashTable` |
| `TsHashTableProofs` | proofs about it | `TsHashTable` |
| `Config` | `arguments.c`, `read_config` of `sensord.c`, `kvset.c` | |
| `Daemon` | `main`, `detach`, `forking` and the signal handlers of `sensord.c`, and the object behind `sensor_t` of `sensor_main.cpp` | `Config` |
| `MCDaemon` | the files that are loaded and the command lines | `Daemon` |
| `DaemonProofs` | proofs about the daemon and its configuration | `Daemon` |
| `Buffer` | `reactor/buffer.hpp`: what is pending, what is behind it, how large it is | |
| `StreamLink` | `reactor/stream_link.cpp`, the reads and writes of `reactor/utils.cpp`, with the application its callbacks call, the socket and the peer | `Buffer` |
| `StreamLinkProofs` | proofs about them | `StreamLink` |
| `Engine` | `sensor_main`, `RawPacketHandler`, `SensorService`, `TcpAcceptor`, `Socket`, the capture thread: who has which descriptor | |
| `EngineProofs` | proofs about it | `Engine` |
| `CircularBuffer` | `circular_buffer.cpp`, `socket_buffer.cpp` | |
| `Survey` | `perform_survey` | |
| `TrafficCapture` | `handlePacket`, `arputil.c`, and the frames that pass the interface | |
| `SocketUtils` | `socket_utils.c`, `commit_config` | |
| `PgmSocket` | `pgm_socket_utils.c` | |
| `Toolbox` | the five above side by side: one behaviour exercises one of them | all five |
| `ToolboxProofs` | proofs about them | `Toolbox` |

In the queue modules `ppc` is a producer's place in `push`, `cpc` the consumer's
place in `pop`, and `h`, `prev`, `mine`, `cprev` are the locals of the code with
these names or roles.  `heap` is the set of allocated addresses: a deleted node
may be the next one that is allocated, so that a stale pointer in the model hits a
live node as it would in the program.  `order`, `log`, `deq`, `out` and `overlap`
are history variables: no guard reads them.

The composed modules instantiate the queue and add a program counter of their own
(`spc` for a sender, `rpc` or `lpc` for the receiver), so every interleaving of the
queue's steps with the steps around it is explored.  `Receivers` puts `SignaledQueue` and
`AsyncQueue` on one queue, of which only one runs in a behaviour (`SignaledSpec` or `AsyncSpec`): the runs
`signaled_queue` and `async_queue` and the proofs are about these two.

In `TsHashTable` a chain of buckets is a sequence, and the body of an operation is
one step, because it runs under the lock; `LockRead` and `LockWrite` begin an
operation and `Release` ends it.  Two parts of `add` are steps of their own because
they are interesting in between: `expand_map` moves one bucket a step (`old` holds
the chains it has not moved yet), which is the granularity at which it must not lose
any, and `capacity++` comes after the bucket was linked (`Count`).  `capacity--` of `remove`
and `steal` is a step of its own too (`Uncount`), after the bucket was unlinked and deleted.  In both
places `getSize`, which takes no lock, can see the difference.  That the unlocked read sees the
writes in the order of the source is taken for granted here; C++ calls it a data race.

`Daemon` has two processes, each with its place (`parent`, `child`).  `main` without Fork runs
the engine in the process itself (`parent = "engine"`).  The child may crash at any place, of
which `sensor_main` is one: whether it returns is left open, what it does is in `Engine`.  A
signal in the child runs `break_loop`, which dereferences `sensor` before it was made and
writes to it after it was freed: the model lets the child crash there or go on.

In `Engine` a descriptor is a number, a system call gives out the lowest one that is free, and
`owner` says whose it is.  The rest of the process (`HostOpen`, `HostClose`) takes and
returns descriptors at any time.  An accepted descriptor has the address of its connection as
its owner, which makes a lost one visible.  `EndpointAddress` compares all of its memory, and
`accept` reads a length that was never set, so the address of a connection is any.

`CircularBuffer` numbers the bytes in the order in which they are added.  The code of `distance`
is wrong when both positions are large, and a full buffer passes for empty; `sound` becomes
false there, and the properties are about everything before.  In `Survey` the masks that make
the count of nodes 0 or too large are in the model, where the survey does not end.  In `TrafficCapture`
the frames that pass are made and recognised by the operators that have the code's names, and
anything may pass: what this machine sends, the survey's requests or its kernel's requests and
replies, what others say to each other, announcements to all, frames that are no ARP, and replies to this
machine, which come (`Reply`) for any address and whether it has asked or not.  `SocketUtils`
keeps `errno` as a variable because `connect` is judged by it.  `PgmSocket` lets every call of
OpenPGM fail, and keeps what was allocated; of a role's options it keeps how many were set.

In `Config` a line of the file is a comment, a header or a key with a text.  `Parse` says
what becomes of the text: a flag is true for "1" and "true" only, a number goes through
`strtol` (a constant function, 0 for a text with no number) and is cut to 32 bits,
anything else stays a text.  What has never been assigned is `Garbage`.

`StreamLink` follows `onEvent` through its calls (`pc`): it receives, calls `onRead` if
something is pending, sends if the link is OK, and arms the watcher again or disposes of the
link.  The application may write, advance, disconnect or stop receiving in each callback and
between events.  Bytes are numbers in the order in which the peer sends them or the application
writes them, so that a lost, repeated or swapped byte shows.  Two things end a behaviour
("undefined"): a read that did not fit the buffer (`readv` gets a second vector whose content
`bufferedRecv` then appends behind the end of the allocation), and a write to a reset connection
when SIGPIPE kills the process.  `init(Socket)` leaves the watcher's descriptor
uninitialised, so an armed event may come or not: there is no fairness to assume, and
only safety is claimed.

The comment "Bugs the properties are sensitive to" in each module heads operators
that are no part of the specification: each is an action with a plausible slip of
the code in it, and replacing the action by it violates a property.

## 3. Runs

| run | instance | shows |
|---|---|---|
| `intrusive_queue` | 2 producers, 3 nodes, 2 messages each | the chain invariant, `NoDanglingWrite`, `NullIsHonest`, the FIFO refinement, and with fairness `NothingLeftBehind` |
| `pipe` | 2 producers, 3 nodes, 2 messages each, and the destructor | no use after free, no leak at destruction, the FIFO refinement; what is sent is received, unless a load overtook a store, and then the next send heals it |
| `future` | 2 waiters, one timed wait each | no use after free, a wait is over only when there is a result and `wait_for` tells the truth about it, no missed notification, `get` returns |
| `signaled_queue` | 2 senders, one of them with null nodes | `receive` spins only behind a push that is cut between exchange and link; once and in order; only null nodes strand commands |
| `async_queue` | 2 requesters, one of them with null nodes | once and in order; not everyone is stranded while the watcher runs |
| `async_queue_stranded` | 2 requesters, 1 request each | violation: a request is never answered |
| `message_queue` | 2 clients, 1 request each | violation: `IntMpscPipe::send` pops |
| `hash_table` | 2 threads, 3 keys of which 2 have one hash, 2 values, initial length 2 | the table implements a map while it grows; the count is off by the add, remove or steal under way and no more; the destructor leaks nothing |
| `stream_link` | 4 bytes each way, buffers of 2 bytes, a second vector of 1, a window of 2 | both streams stay in order; a completed write is complete; a closed link stays closed; a link that never writes is deaf |
| `daemon` | `sensor.conf` and all files of up to 4 lines from 9, 3 command lines, any number of crashes | every option has the last value that the section it is registered with gave it, or keeps what it had, and reaches every engine; no engine without its supervisor, and none after one has exited; every end of a child is answered |
| `engine` | 5 descriptors, 3 addresses | the engine never listens on a socket of its own; accepted descriptors are a link's or lost to a known address, and no two links share one |
| `toolbox` | a buffer of 5 bytes and 12 bytes added, addresses of 3 bits, 3 machines, 3 descriptors, 3 groups | the buffer returns the oldest bytes first; the survey asks all hosts of its network and no others; what is taken for an answer, another machine replied to this one; no refused connection is left open; a committed configuration has its socket; a multicast socket is all or nothing |

### Bounds and why they are enough

There are always fewer nodes than messages, so addresses are reused within a
behaviour; that is what dangling stores need.  Two producers suffice for every
interleaving pattern of the queues: a push cut in two and another one behind it.
Two messages per producer let a producer be in its second push while its first
node is being received.  The theorems about the intrusive queue hold for any
number of producers, nodes and messages.  `MaxSends` bounds how many commands a
producer sends, `MaxTimed` how many timed waits a waiter makes; both only bound
what the environment asks for.

The hash table starts with two chains instead of sixteen, so that three keys make it
grow twice: to four when the third is added, and to eight when any `add`, even of a key
that is there, meets the three buckets.  All keys collide in the short table, one leaves the chain
when it grows and two never part, which gives every position in a chain to a bucket
that is taken, replaced or moved.  No bound is needed beyond the finite sets.  The
daemon's files have nine kinds of lines that stand for what the loop tells apart: two sections with a
key of the same name, an unknown header, a comment, a value that is missing, does not
fit a word, or is no flag.  Four lines suffice for a header that is overridden, a
header that is ignored, and a key before and after it.  The life of parent and child has no
bound: a child may crash and be forked again for ever.  The command lines give all the ways
through `main` that the files do not.

The engine's five descriptors are enough for a handle, the acceptor's number, an accepted
connection, one that is refused, and one of the host, and few enough for the table to be full; of
three addresses two can have links while the third connects.  The theorems hold for any number
of both.  A buffer of five bytes has positions whose sum is below, at and above its capacity, and
twelve bytes go around twice.  Addresses of three bits have masks of no bits, of all, and with
holes, and networks of two and of six hosts.  Three machines are this one and two that talk to
it and to each other.
Three groups let the first, the middle and the last join fail.

The link's buffers hold two bytes and four are sent each way: so a buffer is filled, partly
taken, overrun by one (the second vector), emptied and used again, and the output buffer
grows, while a window of two makes a write partial.  The theorems about it hold for any
sizes.

`CHECK_DEADLOCK FALSE` is set everywhere because
the behaviours end when the producers have sent what the bound allows and the
consumer sleeps, when the queue or the table is destroyed, when the daemon has exited, when the
engine was aborted, when a survey is over or the content of a buffer unknown, or when the link is
closed.

### Fairness

Weak fairness of the steps inside `push`, `send`, `request` and `notify`: they have
no loop, and the threads of a running process get the processor.  None is assumed
for starting a push: nobody has to send.  Weak fairness of the receiving
thread's steps: `run` and the event loop call `receive` again and again.  In
`Future` the acquisition of the mutex is strongly fair: a thread that waits for a
mutex that is released over and over gets it in the end, which the futex-based
mutexes of the platform give with probability one; all other steps are weakly fair.
Spurious wakeups and timeouts are never fair.

In `Daemon` the steps of the parent and those of the child outside `sensor_main` are weakly fair:
both are processes that run on.  `sensor_main` need not return, and neither crashes nor signals
need ever come.  `Engine` and the toolbox have safety properties only.

### Memory model

`push` publishes a node with an exchange (a full barrier) and links it with a plain
store.  That the store is late is already in the models, since it is a step of its
own.  In `MpscPipe` the load of `waiting` in `notify` may in addition overtake it
(`NotifyLoad` in the state `"link"`): x86 allows it, and nothing in
`eventcount.hpp:31-36` forbids it.  Then a wakeup can be lost: the producer has
read `waiting = FALSE`, the consumer sets it, looks at the list, finds nothing and
sleeps, and the link arrives.  `Received` therefore excludes
behaviours in which that happened (`overtaken`), and `WokenBySend` says that the
damage lasts until the next send only.  A sequentially consistent fence before
the load would make `Received` hold without the exception.

## 4. Proofs

`IntMpscQueueProofs` proves, from `QueueAssumption` only (the stub and null are no
nodes, the bound is a natural number):

* `ChainInvariant`: `SafeSpec => [](TypeOK /\ Chain)`;
* `NoDanglingWriteHolds`: `SafeSpec => []NoDanglingWrite`;
* `Refinement`: `SafeSpec => ImplementsFifo`;
* `NullIsHonestHolds`: `SafeSpec => NullIsHonest`.

The inductive invariant is `TypeOK /\ Chain`, with `Chain` the conjunction of six
parts, each there because another one needs it:

* `Ends`: the sequence `order` of nodes runs from `head` to `tail` without
  repetition and ends in a null pointer;
* `Links`: each node points at its successor or somebody owes the link;
* `Debts`: who is about to store a `next` field stores it into the queue, and at
  most one thread owes each link (without it `Links` is not preserved by the store);
* `Owners`: allocated nodes are in the queue, or with exactly one push, or with the
  receiver (without it a new node could already be in `order`);
* `PopState`: what `pop` knows at each of its points, among them that the stub is
  out of the list when it is about to be pushed again;
* `Contents`: the bodies of the nodes in `order` are the part of `log` that was not
  yet received.

`NoDanglingWrite` follows from `Debts` and `Owners`, the refinement from `Contents`
(an exchange is `Enqueue`, a move of `head` past a node other than the stub is
`Dequeue`, all other steps stutter), and `NullIsHonest` from `PopState` and `Links`: when no
push overlaps, nobody owes a link, so a null pointer means the end.  The proof has
one lemma per action.

Its second half is about the receivers.  What a step of the queue looks like to the one who built on it is
said once for both: a message enters the log once, and what `pop` returned is the last that left it
(`Told`); a push changes the nodes that have arrived only where it links, `pop` only where it returns
a node (`PushEffect`, `PopEffect`); and three sets are counted together with those nodes: who has
displaced the tail and not linked, who has linked and not signalled, which null nodes are linked
(`Finite`, `Balanced`).  Theorems:

* `SpinsBehindAPushHolds`, `CommandsOnceInOrderHolds`, `NullsStrandNoMoreHolds`:
  `SignaledSpec => []SpinsBehindAPush`, `[]CommandsOnceInOrder`, `[]NullsStrandNoMore`.  In `SignaledInv` the arrived
  nodes, less the signals still to come and the linked null nodes, are the signals
  counted and taken (`Covered`): that gives the third when everybody is idle.  For the first (`Waits`),
  a promise of `receive` that is not kept yet is by `Covered` a node in the queue, and `pop` answers nullptr to a queue
  that is not empty only if some push was between its exchange and its link while it ran.  `receive` does wait for
  that thread: the nodes that were signalled may be linked behind the cut;
* `RequestsOnceInOrderHolds`, `NotEveryoneStrandedHolds`: `AsyncSpec => []RequestsOnceInOrder`,
  `[]NotEveryoneStranded`, the latter if there is a requester at all.  In `AsyncInv` a synchronous thread has at most
  one request open (`OneOpen`), only what has left the queue is answered (`AnsweredBefore`), and while the
  loop has nothing to do and was not stopped, some thread has no request open or is about to signal
  (`Pending`).

`ExecutedOnceInOrder`, which both receivers state, says where each command of the log is among those executed: at the place that it has among the
messages that are not null nodes, a count rather than a projection of the log, since a projection
is recursive.

`StreamLinkProofs` proves all the properties of `StreamLink`, from `StreamLinkAssumption` only
(the sizes are positive, the bounds are natural numbers):

* `TypeCorrect`: `Spec => []TypeOK`, with it that both buffers stay in their memory;
* `ReceivedStream`, `SentStream`: `Spec => []ReceivedInOrder`, `Spec => []SentInOrder`;
* `CompletedWrite`: `Spec => CompletedIsComplete`;
* `ClosedLink`: `Spec => ClosedForGood`;
* `DeafLink`: `Spec => []DeafUntilItWrites`.

Its first half is about `Buffer`: what `processed`, `written`, `append` and `reset` do to the
bytes that are pending (`UnreadOfProcessed`, `UnreadOfWritten`, `UnreadOfAppend`, `UnreadOfEmpty`),
which are cuts and concatenations of sequences.  Its inductive invariant `IInv` adds two parts to
the properties themselves: `Closed` (a link whose socket is closed has no running watcher and
is in no step of `onEvent` but `onDispose`), without which a closed link could send again;
and `Deaf` (nothing written: nothing armed, and the loop never entered `onEvent`), without which
`DeafUntilItWrites` is not inductive.  `CompletedIsComplete` follows from `SentInOrder`: when
`onWriteCompleted` is called nothing is pending, so the wire is the whole stream.

`EngineProofs` proves both properties of `Engine`, from `EngineAssumption` only (`MaxFd` is a natural
number, and no address is a word for an owner):

* `NeverItsOwnSocket`: `Spec => []ListensOnForeignSocket`;
* `LinksKeepTheirDescriptor`: `Spec => []LinksAndDescriptors`.

Its inductive invariant `IInv` is the type invariant, the two properties, and `Early`: until the
event loop runs there are no links, nothing listens before `listen`, and as soon as the
temporary is gone the number in `sock` is free or the host's, never the engine's.  Without that
part a later `listen` could be on the engine's own socket.  `LinksAndDescriptors` is in two
halves, `LostOnlyToALink` and `LinksOwnTheirDescriptor`: an `Accept` that makes a link disturbs the
second, one that is refused the first.

`MpscPipeProofs` proves the safety of the pipe and of the owning queue in it, from `MpscPipeAssumption` only
(the dummy is a node, null is none, the bound is a natural number), with the store buffers of the
memory model below:

* `NoUseAfterFreeHolds`, `NoLeakHolds`: `Spec => []NoUseAfterFree`, `Spec => []NoLeak`;
* `WokenBySendHolds`: `Spec => []WokenBySend`;
* `Refinement`: `Spec => ImplementsFifo`.

`order` is the history of the nodes from head to tail.  The invariant says where every node is: `Chain`
(each node points at its successor, or holds null and some producer owes the link), `Pushing` (what a
producer owes, and that two never owe the same), `Allocated` (the heap is the queue, the nodes of the
producers that have not swapped, and the one `pop` is about to free), `Carries` (the nodes
behind the dummy hold the part of `log` that was not received) and `Nothing` (what the
destructor leaves).  `Allocated` is what makes a freed node safe: nobody who has yet to store holds it.
The properties speak of the nodes a walk from `head` visits, as the least set that is `Closed` under
`next`; that this set is `order` up to the first cut is the one induction of the proof, done by the
least index that would be an exception (`LeastNat`).  `Announced` carries the eventcount: a consumer between its
second look and its sleep has announced itself, has a token, or has one on its way.

`FutureProofs` proves the three safety properties of `Future` from `FutureAssumption` (the executor is not a
waiter, nobody is neither): `NoUseAfterFreeHolds`, `AnswerIsCurrentHolds`, `NoMissedNotifyHolds`.  Its invariant
says who is inside the mutex (`Locked`), that a thread that is not done holds a reference (`Counted`), that
the value is there exactly from the swap on (`Stored`), and what a waiter knows at each place (`Knows`):
one that decided to sleep saw no value while it held the mutex, so the executor has not announced
one.

`DaemonProofs` proves `LoadedAsRegisteredHolds`, `EngineHasOptionsHolds` and `SupervisionHolds`, for any files, command lines
and values, over the registry that `read_config` has, from `DaemonAssumption` (a file is a finite sequence of lines, none both a header and a key).  Its first half is about
`Config`: the section a line is in is that of the last header before it that is known (`SectionOfHeader`,
`SectionOfOther`), and after every line that was read each option has what the last line
that says it has written, or what it had (`ReadAsWritten`).  The second half says which places of
parent and child go together (`Family`) and that no engine starts without its options (`Options`).

`TsHashTableProofs` proves, from `TsHashTableAssumption` (hashes are natural numbers, the initial length is
a power of two, `NoValue` and `Nobody` are none of the values and threads):

* `SizeIsHonestHolds`, `NoLeakHolds`: `Spec => []SizeIsHonest`, `Spec => []NoLeak`;
* `Refinement`: `Spec => ImplementsMap`.

A bucket is known by its place, a chain and a position in it.  The invariant says that each
bucket is in the chain its hash names and that no two have one key (`WellPlaced`), the same for the old
chains with the old length while the table grows (`OldWellPlaced`), that no key is in both (`Apart`), and
that `capacity` is the number of places in both, less one while an `add` has linked its bucket and not counted
it, and one more while a `remove` or `steal` has deleted its bucket and still counts it (`Counted`, `Lag`).  That a body of `add`, `replace`, `remove` or `steal` changes one place and moves the
others up or down is a bijection between the places before and after it, from which both the
count and the abstract map follow.  A step of the expansion is such a bijection too, which
leaves the map alone.

`ToolboxProofs` proves the six properties of the helpers from `ToolboxAssumption` (the capacity is positive
and fits a `size_t`, the others are natural numbers, and no machine is the broadcast address): `ReadsOldestFirstHolds`, `RefusedIsClosedHolds`,
`UsableIsOpenHolds`, `AllOrNothingHolds`, `AnswersAreRepliesHolds`, `AsksItsNetworkHolds`.  The ring buffer needs most of it: while the content is
known, it lies in `memory` from `begin` on, wrapping around at the capacity, and `end` is behind it
(`Holds`, `Behind`); each of `add`, `get`, `flush_in`, `flush_out`, `send` and `recv` keeps that, for any capacity
and any number of bytes.  For `create_pgm_socket` the invariant says at which calls the socket is open,
for the connect helpers who has which descriptor.  For the capture thread each kind of frame is gone
through: all but the replies of others to this machine fail one of the tests of `arp_is_reply`.

`AsksItsNetworkHolds` is about bits, for addresses of any width.  The invariant (`NetworkInv`) says that under the
mask of a network `i` has not passed `nodeCount`, that what was asked is among the hosts, and that a
finished survey is at `nodeCount`; it is kept because the next address is that of a host (`NextHost`).
Under it are the facts about the operators of the model: `bitcount` of a mask with `k` bits for the host is
`Bits - k` (`MaskCount`), `&` with it takes an address to that of its network (`AndMask`: the number that does
it is a candidate of the `CHOOSE`, and the only one, as numbers with the same bits are the same, `SameBits`), and the hosts
are the `2^k - 2` addresses behind that of the network (`HostsFacts`).  The provers know nothing of powers: that
`2^(n + 1)` is `2 * 2^n` is proved from the number of subsets of `1 .. n` (`PowerNext`).  Nor can they use the library's
theorems on induction, whose parameter is an operator: `LeastNumber` gets the least number of a
set from the well-foundedness of inclusion among the intervals `0 .. n`, and `Induction` says of a set
with 0 and with the successor of each of its numbers that it has them all.

Each inductive invariant was first checked by TLC on the instance of its run.

### Only model-checked

* Everything under fairness: `NothingLeftBehind`, `Received`, `GetReturns`, `CommandExecuted`,
  `EndIsAnswered`; the prover does not do it.  Every other property of a passing run is a theorem.

## 5. What the violations say

* `IntMpscPipe::send` calls `pop` (`int_mpsc_pipe.hpp:13`).  A request to a running
  worker is never answered, its command leaks, and the sender's pop runs
  concurrently with the consumer's.
* `AsyncQueue` answers one command per callback, libev merges signals, and the
  callback stops its watcher when it got no command (`async_msgqueue.hpp:79-83`).  With
  two requesters a request can stay in the queue for good; with one requester that
  waits for each answer it cannot.

Seen in the models and contradicted by the repository itself, though no run is about it: `read_config`
registers `ModifyRoutingTimeout` with section 4, `[balancing]` (`sensord.c:111`).  The call is among those
under the comment `/* nodes */` (106), and `sensor.conf:24` has the key under `[nodes]`: the line is skipped,
and the option keeps what was in memory.  `LoadedAsRegistered` holds all the same, also of the sample, because it
is about the section an option is registered with and not the one it was meant for.

Not a contradiction of anything the repository says, but seen in the models:
`SignaledQueue::nullmsg` does not signal, so each null node leaves one command behind
(`NullsStrandNoMore` says: no more than that); the lost wakeup above; the timed wait
of a future passes a duration where a point in time is expected and ends at once
(`thread_util.hpp:60`).  In `StreamLink`: `prepareEvents` arms EV_READ only in a state that is both
OK and WRITE_ERROR (`stream_link.cpp:88`), so a link reads only when it has something to
write (`DeafUntilItWrites`); a write error disarms the link but never disposes of it; and
what `readv` puts into the second vector is written past the end of the input buffer
(`utils.cpp:5-21`).

In `Daemon`: a signal between the installation of the handlers and
`sensor_init` crashes the child, which the supervisor then starts again; `sensor_breakloop`
clears a flag that nobody reads.

In `Engine`: `createFromText` returns a `SocketMain` whose copy is kept and whose destructor closes
the descriptor (`tcp_acceptor.cpp:9`), so `set_nonblocking` fails and the engine ends with an exception,
unless another thread of the process has opened something under the same number; in
`sensord`, which has no other thread at that point, it always ends there.  Where it does go
on, `ev_run` never returns, and the lines of `sensor_main` that stop and join the
threads (267-280) are unreachable.  A connection whose address is known is accepted and
never closed.

In the toolbox: `distance` is wrong when the positions are large (`circular_buffer.cpp:112`), a full
buffer passes for empty, `flush_out` is the same as `flush_in`, neither updates `size`; and
`SocketBuffer::send` sends stale bytes from an empty buffer and never consumes what it
sent.  `create_tcp_connect` returns -1 whatever happens and may leave its
descriptor open; `create_inet_connect` closes a connection that was established unless `errno` says
something left over from an earlier call.  A multicast socket may be returned that has not joined all
its groups.

## 6. Plan

1. Done: the queues, pipes, futures and the receivers built on them; the hash table; the
   stream links and their buffers; the daemon, its configuration and its supervisor; the
   engine's set-up and its connections; the circular buffer, the survey, the socket helpers and the
   multicast sockets; the proofs of section 4.
2. Done: all safety properties of the pipe, the future, the daemon, the hash table and the
   helpers, and the refinements of the FIFO and of the map (section 4).
3. Done: the safety properties of the two receivers.
4. Left: the steps of `MessageQueue` in the same form as those of the other receivers, whose
   violations are only shown by TLC; and liveness, if a prover for it comes.

Not modelled, and why:

* `MpscPipe` as it stands: `send` and `try_recv` write `queue->push` and `queue->try_pop` of a member that is no
  pointer (`mpsc_pipe.hpp:15`, `24`), so the template does not compile where it is instantiated, and
  nothing instantiates it.  The model reads both as calls of the member's functions;
* the handle pool: it does not compile when instantiated, and nothing uses it;
* the session classes under `service/`: they are left over from an earlier protocol, and the only
  code that created them is commented out (`sensor_service.cpp:64-78`);
* the connector: nothing creates one, it never calls `connect`, and the data of its watcher is
  never set; the reactor's timer, which nothing uses;
* `spoof_nodes`: its node count is 0 and it never has a gateway, so it sends nothing;
* the second half of `sensor_main` (267-280), which is never reached;
* OpenPGM's timeouts and sizes, the ARP and route queries of `netinfo.c`, packet extraction,
  clock, random numbers, logging and conversions: pure I/O or stateless;
* libpcap, libev and OpenPGM themselves: external, as the code uses them.
