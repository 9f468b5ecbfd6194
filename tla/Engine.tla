------------------------------- MODULE Engine -------------------------------
(***************************************************************************)
(* sensor_main (libsensor/source/sensor_main.cpp) and what it sets up: the *)
(* packet handle, the SensorService with its TcpAcceptor, the capture      *)
(* thread and the survey thread; then the connections that the acceptor    *)
(* accepts.                                                                *)
(*                                                                         *)
(* All of it is about descriptors, which are numbers: a system call gives  *)
(* out the lowest free one.  The library shares them with the process that *)
(* calls it, whose other threads open and close descriptors at any time.   *)
(* Descriptors that one call opens and closes again are left out.          *)
(*                                                                         *)
(* The links of this engine neither read nor write: StreamLink says why.   *)
(***************************************************************************)
EXTENDS Integers

CONSTANTS
  MaxFd,   \* the highest number of a descriptor
  Address  \* what an EndpointAddress can say

ASSUME EngineAssumption ==
  /\ MaxFd \in Nat
  /\ Address \cap {"free", "host", "engine"} = {}

VARIABLES
  main,      \* where sensor_main is
  owner,     \* whose each descriptor is; an accepted one has its address
  sock,      \* the number in the acceptor's sock, or -1
  listening, \* the watcher of that number is on a socket that listens
  links,     \* activeChannels: the descriptor of the link of an address
  pcap,      \* m_handler: "null" or "open"
  capture,   \* the capture thread
  nulls      \* null commands in the service's queue, which nobody signals

threads == <<pcap, capture, nulls>>
vars == <<main, owner, sock, listening, links, threads>>

Fds == 0 .. MaxFd
Lowest(f) == owner[f] = "free" /\ \A g \in 0 .. f - 1 : owner[g] # "free"
Full == \A f \in Fds : owner[f] # "free"

Setup == {"pcap", "socket", "temporary", "nonblocking", "reuse", "bind", "listen", "threads"}

Init ==
  /\ main = "pcap"
  /\ owner \in [Fds -> {"free", "host"}]
  /\ sock = -1 /\ listening = FALSE
  /\ links = [a \in {} |-> -1]
  /\ pcap = "null" /\ capture = "none" /\ nulls = 0

\* An error, an exception nobody catches, an assertion: the process ends.
Abort == main' = "aborted" /\ UNCHANGED <<owner, sock, listening, links, threads>>

-----------------------------------------------------------------------------
(* Bugs the properties are sensitive to; none of these is an action of Next *)

\* createFromText whose temporary gives its descriptor away.
CloseTemporaryMoves ==
  /\ main = "temporary" /\ main' = "nonblocking"
  /\ UNCHANGED <<owner, sock, listening, links, threads>>

\* A link whose address is refused takes the place of the one that is there,
\* and the descriptor of that one is closed; the map is not told.
RefuseClosesOther(b, f) ==
  /\ b \in DOMAIN links
  /\ owner' = [g \in Fds |-> IF g = f THEN b ELSE IF g = links[b] THEN "free" ELSE owner[g]]
  /\ UNCHANGED <<main, links>>

-----------------------------------------------------------------------------
(* The rest of the process *)

HostOpen ==
  /\ main # "aborted"
  /\ \E f \in Fds : Lowest(f) /\ owner' = [owner EXCEPT ![f] = "host"]
  /\ UNCHANGED <<main, sock, listening, links, threads>>

\* The event loop forgets a descriptor that is closed.
HostClose ==
  /\ main # "aborted"
  /\ \E f \in Fds :
       /\ owner[f] = "host" /\ owner' = [owner EXCEPT ![f] = "free"]
       /\ listening' = (listening /\ f # sock)
  /\ UNCHANGED <<main, sock, links, threads>>

-----------------------------------------------------------------------------
(* sensor_main *)

(* RawPacketHandler::init: a failure leaves the handle null, asks the closed *)
(* one for its error, which may crash, and is ignored by sensor_main.       *)
InitHandler ==
  /\ main = "pcap" /\ main' = "socket"
  /\ \/ pcap' = "open" /\ \E f \in Fds : Lowest(f) /\ owner' = [owner EXCEPT ![f] = "engine"]
     \/ UNCHANGED <<pcap, owner>>
  /\ UNCHANGED <<sock, listening, links, capture, nulls>>

\* Setup ends the process where a call fails: what can fail is up to the system.
Fail == main \in Setup \ {"temporary", "threads"} /\ Abort

\* fromText, its result in the temporary SocketMain and copied into sock.
Socket ==
  /\ main = "socket" /\ main' = "temporary"
  /\ \/ \E f \in Fds : Lowest(f) /\ sock' = f /\ owner' = [owner EXCEPT ![f] = "engine"]
     \/ Full /\ sock' = -1 /\ UNCHANGED owner
  /\ UNCHANGED <<listening, links, threads>>

\* The temporary goes out of scope, and ~SocketMain closes its descriptor.
CloseTemporary ==
  /\ main = "temporary" /\ main' = "nonblocking"
  /\ owner' = [f \in Fds |-> IF f = sock THEN "free" ELSE owner[f]]
  /\ UNCHANGED <<sock, listening, links, threads>>

\* set_nonblocking, setReuseAddr, bind: none succeeds on a free number.
Configure(from, to) ==
  /\ main = from /\ main' = to
  /\ sock \in Fds /\ owner[sock] # "free"
  /\ UNCHANGED <<owner, sock, listening, links, threads>>

\* TcpAcceptor::start.
Listen ==
  /\ main = "listen" /\ main' = "threads"
  /\ sock \in Fds /\ owner[sock] # "free"
  /\ listening' = TRUE
  /\ UNCHANGED <<owner, sock, links, threads>>

\* The threads are created, and ev_run has a watcher and never returns.
StartThreads ==
  /\ main = "threads" /\ main' = "loop"
  /\ capture' = "dispatch"
  /\ UNCHANGED <<owner, sock, listening, links, pcap, nulls>>

-----------------------------------------------------------------------------
(* TcpAcceptor::onEvent.  accept reads a length that was never set, so the  *)
(* address is what it writes, a part of it, or what the memory held: any;   *)
(* and so it is where accept fails and writes none.                         *)

\* SensorService::onConnectionAccepted(b) and the start of the link it made.
Enlist(b, f) ==
  /\ b \notin DOMAIN links
  /\ links' = [a \in DOMAIN links \union {b} |-> IF a = b THEN f ELSE links[a]]
  /\ owner' = [g \in Fds |-> IF g = f THEN b ELSE owner[g]]
  /\ main' \in {"loop", "aborted"}

\* The address has a link already: nobody keeps the descriptor.
Refuse(b, f) ==
  /\ b \in DOMAIN links
  /\ owner' = [g \in Fds |-> IF g = f THEN b ELSE owner[g]]
  /\ UNCHANGED <<main, links>>

Accept ==
  /\ main = "loop" /\ listening
  /\ \E f \in {g \in Fds : Lowest(g)} \union {-1}, b \in Address :
       Enlist(b, f) \/ Refuse(b, f)
  /\ UNCHANGED <<sock, listening, threads>>

\* The family of the address is none that EndpointAddress takes.
AcceptThrows == main = "loop" /\ listening /\ Abort

-----------------------------------------------------------------------------
(* The capture thread *)

\* pcap_dispatch handles what there is and returns.
Dispatch ==
  /\ main = "loop" /\ capture = "dispatch" /\ pcap = "open"
  /\ capture' = "ended" /\ nulls' = nulls + 1
  /\ UNCHANGED <<main, owner, sock, listening, links, pcap>>

DispatchNull == main = "loop" /\ capture = "dispatch" /\ pcap = "null" /\ Abort

-----------------------------------------------------------------------------
SetupStep ==
  \/ InitHandler \/ Fail
  \/ Socket \/ CloseTemporary
  \/ Configure("nonblocking", "reuse") \/ Configure("reuse", "bind") \/ Configure("bind", "listen")
  \/ Listen \/ StartThreads

LoopStep == Accept \/ AcceptThrows \/ Dispatch \/ DispatchNull

Next == HostOpen \/ HostClose \/ SetupStep \/ LoopStep

Spec == Init /\ [][Next]_vars

-----------------------------------------------------------------------------
(* Properties *)

(* The engine never listens on a socket of its own: createFromText's        *)
(* temporary has closed it (tcp_acceptor.cpp:9), and the engine ends there, *)
(* unless the number has become another's in between.                       *)
ListensOnForeignSocket == listening => sock \in Fds /\ owner[sock] = "host"

(* Links and descriptors fit together, as long as no link is disposed of:   *)
(* an accepted descriptor is its address's link's, or it was lost because   *)
(* that address had a link already (sensor_service.cpp:39-46); and a link   *)
(* has a descriptor that is open and that no other link has, unless accept  *)
(* had failed and it has -1 (tcp_acceptor.cpp:52-57).                       *)
LinksAndDescriptors ==
  /\ \A f \in Fds : owner[f] \in Address => owner[f] \in DOMAIN links
  /\ \A a \in DOMAIN links : links[a] # -1 => links[a] \in Fds /\ owner[links[a]] = a

=============================================================================
