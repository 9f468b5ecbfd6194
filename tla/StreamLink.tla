----------------------------- MODULE StreamLink -----------------------------
(***************************************************************************)
(* A StreamLink (libsensor/source/reactor/stream_link.cpp) on its socket,  *)
(* with the application that its callbacks call, the event loop, and the   *)
(* peer at the other end of the connection.                                *)
(*                                                                         *)
(* The bytes that the peer sends are numbered in the order in which it     *)
(* sends them, and so are those that the application writes.               *)
(*                                                                         *)
(* init(Socket) leaves the watcher's descriptor as it is in memory, and so *)
(* what it watches is anybody's guess: an event may come, or not come,     *)
(* whenever one is armed.  A behaviour ends ("undefined") where a read did *)
(* not fit the buffer, and where a SIGPIPE kills the process.              *)
(***************************************************************************)
EXTENDS Buffer, FiniteSets

CONSTANTS
  InitialSize,  \* 2048 in the code
  Extended,     \* 4096 in the code: the second vector of readv
  Window,       \* how much the socket takes before the peer reads
  MaxSent,      \* bound: bytes that the peer sends
  MaxWritten    \* bound: bytes that the application writes

ASSUME StreamLinkAssumption ==
  /\ {InitialSize, Extended, Window} \subseteq Nat \ {0}
  /\ {MaxSent, MaxWritten} \subseteq Nat

VARIABLES
  state, receiving,  \* m_state, m_receive
  in, out,           \* m_in, m_out
  active, events,    \* the watcher: whether it runs, and for what
  pc,                \* where the loop is in onEvent
  sock,              \* "open", or "closed" by destroy
  blocking,          \* the socket: accepted ones block, connecting ones do not
  peer,              \* "open", "closed" after a FIN, "reset" after an RST
  sent, net,         \* how many bytes the peer sent, and those not received
  wire, drained,     \* what the socket took, and how many of it the peer read
  given, taken,      \* history: bytes the application wrote; those it advanced over
  disposals          \* history: calls of onDispose

link  == <<state, receiving, in, out, active, events, sock>>
world == <<peer, sent, net, drained>>
vars  == <<link, pc, blocking, world, wire, given, taken, disposals>>

States    == {"OK", "DISCONNECT", "READ_ERROR", "WRITE_ERROR"}
Callbacks == {"onRead", "onWriteCompleted", "onDispose"}
Numbers(from, n) == [i \in 1 .. n |-> from + i]

Init ==
  /\ state = "OK" /\ receiving = FALSE
  /\ in = New(InitialSize) /\ out = New(InitialSize)
  /\ active = FALSE /\ events = {}
  /\ pc = "new"
  /\ sock = "open" /\ blocking \in BOOLEAN
  /\ peer = "open" /\ sent = 0 /\ net = <<>>
  /\ wire = <<>> /\ drained = 0
  /\ given = 0 /\ taken = <<>> /\ disposals = 0

-----------------------------------------------------------------------------
(* Bugs the properties are sensitive to; none of these is an action of Next *)

\* processWrite that takes everything for sent.
SendIsComplete ==
  /\ pc = "send" /\ state = "OK"
  /\ \E n \in 1 .. pending(out) :
       /\ Len(wire) - drained + n <= Window
       /\ wire' = wire \o SubSeq(Unread(out), 1, n)
       /\ out' = reset(out)
       /\ pc' = "onWriteCompleted"
  /\ UNCHANGED <<state, receiving, in, active, events, sock, blocking, world, given,
                 taken, disposals>>

\* processWrite that reports after every write.
SendReportsAlways ==
  /\ pc = "send" /\ state = "OK"
  /\ \E n \in 1 .. pending(out) :
       /\ Len(wire) - drained + n <= Window
       /\ wire' = wire \o SubSeq(Unread(out), 1, n)
       /\ out' = IF pending(out) = n THEN reset(out) ELSE processed(out, n)
       /\ pc' = "onWriteCompleted"
  /\ UNCHANGED <<state, receiving, in, active, events, sock, blocking, world, given,
                 taken, disposals>>

\* processRead that resets the buffer whatever the application has left in it.
ReadReturnsAndResets ==
  /\ pc = "onRead"
  /\ in' = reset(in)
  /\ pc' = "send"
  /\ UNCHANGED <<state, receiving, out, active, events, sock, blocking, world, wire,
                 given, taken, disposals>>

\* onEvent that forgets to stop the watcher of a link that it destroys.
DisposeWithoutStop ==
  /\ pc = "prepare" /\ state \in {"DISCONNECT", "READ_ERROR"}
  /\ sock' = "closed" /\ disposals' = disposals + 1
  /\ pc' = "onDispose"
  /\ UNCHANGED <<state, receiving, in, out, active, events, blocking, world, wire,
                 given, taken>>

\* prepareEvents that arms EV_WRITE whether there is something to write or not.
WantedAlways == {e \in {"WRITE"} : state = "OK"}

-----------------------------------------------------------------------------
(* The peer and the network *)

PeerSend ==
  /\ peer = "open" /\ sent < MaxSent
  /\ sent' = sent + 1 /\ net' = Append(net, sent + 1)
  /\ UNCHANGED <<link, pc, blocking, peer, wire, drained, given, taken, disposals>>

PeerRead ==
  /\ peer # "reset" /\ drained < Len(wire)
  /\ drained' = Len(wire)
  /\ UNCHANGED <<link, pc, blocking, peer, sent, net, wire, given, taken, disposals>>

PeerCloses ==
  /\ \/ peer = "open" /\ peer' \in {"closed", "reset"}
     \/ peer = "closed" /\ peer' = "reset"
  /\ UNCHANGED <<link, pc, blocking, sent, net, wire, drained, given, taken, disposals>>

-----------------------------------------------------------------------------
(* The application, in a callback or between two events of the loop *)

Write ==
  /\ pc \in Callbacks \union {"new", "idle"}
  /\ \E n \in 1 .. MaxWritten - given :
       out' = append(out, Numbers(given, n)) /\ given' = given + n
  /\ UNCHANGED <<state, receiving, in, active, events, sock, pc, blocking, world, wire,
                 taken, disposals>>

\* peek shows what is pending; advance takes some of it.
Advance ==
  /\ pc \in Callbacks \union {"idle"}
  /\ \E n \in 1 .. pending(in) :
       in' = processed(in, n) /\ taken' = taken \o SubSeq(Unread(in), 1, n)
  /\ UNCHANGED <<state, receiving, out, active, events, sock, pc, blocking, world, wire,
                 given, disposals>>

SetReceiving ==
  /\ pc \in Callbacks \union {"new", "idle"}
  /\ state = "OK" /\ receiving' = ~receiving
  /\ UNCHANGED <<state, in, out, active, events, sock, pc, blocking, world, wire, given,
                 taken, disposals>>

MakeDisconnect ==
  /\ pc \in Callbacks \union {"new", "idle"}
  /\ state = "OK" /\ state' = "DISCONNECT"
  /\ UNCHANGED <<receiving, in, out, active, events, sock, pc, blocking, world, wire,
                 given, taken, disposals>>

-----------------------------------------------------------------------------
(* prepareEvents, which cannot arm EV_READ: no state is two states at once *)

Broken == state \in {"DISCONNECT", "READ_ERROR"}

Wanted ==
  {e \in {"READ", "WRITE"} :
     \/ e = "READ"  /\ receiving /\ (state = "OK" /\ state = "WRITE_ERROR")
     \/ e = "WRITE" /\ pending(out) # 0 /\ state = "OK"}

\* init and start; a link that was disconnected before has no watcher.
Start ==
  /\ pc = "new"
  /\ IF Broken THEN UNCHANGED <<active, events>> ELSE active' = TRUE /\ events' = Wanted
  /\ pc' = "idle"
  /\ UNCHANGED <<state, receiving, in, out, sock, blocking, world, wire, given, taken,
                 disposals>>

Rearm ==
  /\ pc = "prepare" /\ ~Broken
  /\ events' = Wanted
  /\ pc' = "idle"
  /\ UNCHANGED <<state, receiving, in, out, active, sock, blocking, world, wire, given,
                 taken, disposals>>

\* stop, destroy, onDispose
Dispose ==
  /\ pc = "prepare" /\ Broken
  /\ active' = FALSE
  /\ sock' = "closed" /\ disposals' = disposals + 1
  /\ pc' = "onDispose"
  /\ UNCHANGED <<state, receiving, in, out, events, blocking, world, wire, given, taken>>

-----------------------------------------------------------------------------
(* onEvent: it always reads, and then writes if the link is OK *)

Event ==
  /\ pc = "idle" /\ active /\ events # {}
  /\ pc' = "receive"
  /\ UNCHANGED <<link, blocking, world, wire, given, taken, disposals>>

\* onRead is called also after an error, -1 being a large size_t.
Received(b) == pc' = IF pending(b) # 0 THEN "onRead" ELSE "send"

\* bufferedRecv; what does not fit is written behind the end of the buffer.
Receive ==
  /\ pc = "receive"
  /\ \E n \in 1 .. Len(net) :
       /\ n <= writable(in) + Extended
       /\ net' = SubSeq(net, n + 1, Len(net))
       /\ IF n <= writable(in)
            THEN in' = written(in, SubSeq(net, 1, n)) /\ Received(in')
            ELSE UNCHANGED in /\ pc' = "undefined"
  /\ UNCHANGED <<state, receiving, out, active, events, sock, blocking, peer, sent, wire,
                 drained, given, taken, disposals>>

ReceiveNothing ==
  /\ pc = "receive" /\ net = <<>>
  /\ \/ /\ peer # "open" /\ state' = "DISCONNECT" /\ pc' = "send"
     \/ /\ peer = "reset" /\ state' = "READ_ERROR" /\ Received(in)
     \/ /\ peer = "open" /\ ~blocking /\ UNCHANGED state /\ Received(in)
  /\ UNCHANGED <<receiving, in, out, active, events, sock, blocking, world, wire, given,
                 taken, disposals>>

ReadReturns ==
  /\ pc = "onRead"
  /\ in' = IF pending(in) = 0 THEN reset(in) ELSE in
  /\ pc' = "send"
  /\ UNCHANGED <<state, receiving, out, active, events, sock, blocking, world, wire,
                 given, taken, disposals>>

\* A part may be sent on a blocking socket too: a signal can interrupt it.
Send ==
  /\ pc = "send" /\ state = "OK"
  /\ \E n \in 1 .. pending(out) :
       /\ Len(wire) - drained + n <= Window
       /\ wire' = wire \o SubSeq(Unread(out), 1, n)
       /\ out' = IF pending(out) = n THEN reset(out) ELSE processed(out, n)
       /\ pc' = IF pending(out) = n THEN "onWriteCompleted" ELSE "prepare"
  /\ UNCHANGED <<state, receiving, in, active, events, sock, blocking, world, given,
                 taken, disposals>>

\* An error with nothing to send is reported as a completed write.
SendFails ==
  /\ pc = "send" /\ state = "OK" /\ peer = "reset"
  /\ \/ /\ state' = "WRITE_ERROR"
        /\ out' = IF pending(out) = 0 THEN reset(out) ELSE out
        /\ pc' = IF pending(out) = 0 THEN "onWriteCompleted" ELSE "prepare"
     \/ /\ pc' = "undefined" /\ UNCHANGED <<state, out>>
  /\ UNCHANGED <<receiving, in, active, events, sock, blocking, world, wire, given,
                 taken, disposals>>

\* Nothing to send, no room for it, or a link that is not OK.
SendNothing ==
  /\ pc = "send"
  /\ \/ state # "OK" \/ pending(out) = 0
     \/ Len(wire) - drained = Window /\ ~blocking
  /\ pc' = "prepare"
  /\ UNCHANGED <<link, blocking, world, wire, given, taken, disposals>>

WriteReturns ==
  /\ pc = "onWriteCompleted"
  /\ pc' = "prepare"
  /\ UNCHANGED <<link, blocking, world, wire, given, taken, disposals>>

DisposeReturns ==
  /\ pc = "onDispose"
  /\ pc' = "idle"
  /\ UNCHANGED <<link, blocking, world, wire, given, taken, disposals>>

Application == Write \/ Advance \/ SetReceiving \/ MakeDisconnect
Environment == PeerSend \/ PeerRead \/ PeerCloses
OnEvent == \/ Event \/ Receive \/ ReceiveNothing \/ ReadReturns
           \/ Send \/ SendFails \/ SendNothing \/ WriteReturns
           \/ Rearm \/ Dispose \/ DisposeReturns

Next == Application \/ Environment \/ Start \/ OnEvent

Spec == Init /\ [][Next]_vars

-----------------------------------------------------------------------------
(* Properties *)

\* The values of the variables; in particular the buffers stay in their memory.
TypeOK ==
  /\ state \in States /\ receiving \in BOOLEAN
  /\ in \in Buffers(1 .. MaxSent) /\ WellFormed(in)
  /\ out \in Buffers(1 .. MaxWritten) /\ WellFormed(out)
  /\ active \in BOOLEAN /\ events \subseteq {"READ", "WRITE"}
  /\ pc \in Callbacks \union {"new", "idle", "receive", "send", "prepare", "undefined"}
  /\ sock \in {"open", "closed"} /\ blocking \in BOOLEAN
  /\ peer \in {"open", "closed", "reset"}
  /\ sent \in 0 .. MaxSent /\ net \in Seq(1 .. MaxSent)
  /\ wire \in Seq(1 .. MaxWritten) /\ drained \in 0 .. Len(wire)
  /\ given \in 0 .. MaxWritten /\ taken \in Seq(1 .. MaxSent)
  /\ disposals \in Nat

(* processRead, reset and advance keep the stream: what the application took *)
(* what is pending and what is on its way are what the peer sent, in order. *)
ReceivedInOrder ==
  pc # "undefined" => taken \o Unread(in) \o net = Numbers(0, sent)

(* processWrite, reset and append keep the stream, through partial writes,  *)
(* errors, and writes from callbacks.                                       *)
SentInOrder == wire \o Unread(out) = Numbers(0, given)

(* onWriteCompleted is called when everything that was written was sent,    *)
(* also when what it reports is an error.                                   *)
CompletedIsComplete ==
  [][pc' = "onWriteCompleted" /\ pc # "onWriteCompleted" => Len(wire') = given']_vars

(* After destroy has closed the socket no event is handled any more: nothing *)
(* is read or written, and onDispose is not called again.                   *)
ClosedForGood ==
  [][sock = "closed" => UNCHANGED <<sock, wire, disposals>> /\ pc' # "receive"]_vars

(* EV_READ is never armed (stream_link.cpp:88): who has written nothing     *)
(* receives nothing, and a link is not told that its peer has gone.         *)
DeafUntilItWrites ==
  given = 0 => in = New(InitialSize) /\ state \in {"OK", "DISCONNECT"} /\ disposals = 0

=============================================================================
