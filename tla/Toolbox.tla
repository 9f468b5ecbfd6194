------------------------------ MODULE Toolbox -------------------------------
(***************************************************************************)
(* The helpers of libsensor that work on nothing in common: the ring       *)
(* buffer, the survey of the network, the capture of answers, the socket   *)
(* helpers and the multicast sockets.  One behaviour exercises one of      *)
(* them, its subject.                                                      *)
(***************************************************************************)
EXTENDS Integers

CONSTANTS Capacity, Word, MaxBytes, Bits, Machines, MaxFd, Groups

\* A capacity is a word itself.
ASSUME ToolboxAssumption ==
  /\ Capacity \in Nat \ {0} /\ Word \in Nat /\ Capacity < Word
  /\ Bits \in Nat /\ MaxFd \in Nat /\ Groups \in Nat
  /\ "broadcast" \notin Machines

VARIABLES
  subject,
  begin, end, size, memory, content, added, sound,
  local, netmask, i, survey, asked,
  hw, replied, answers,
  fds, peer, errno, sock, alive, committed,
  step, encap, addrinfo, pgm_error, pgm, group, joined, options, ok, pgm_fds

Ring    == INSTANCE CircularBuffer
Network == INSTANCE Survey
Traffic == INSTANCE TrafficCapture
Sockets == INSTANCE SocketUtils
Pgm     == INSTANCE PgmSocket WITH sock <- pgm, i <- group, fds <- pgm_fds

ring    == <<begin, end, size, memory, content, added, sound>>
network == <<local, netmask, i, survey, asked>>
traffic == <<hw, replied, answers>>
sockets == <<fds, peer, errno, sock, alive, committed>>
multicast ==
  <<step, encap, addrinfo, pgm_error, pgm, group, joined, options, ok, pgm_fds>>
vars == <<subject, ring, network, traffic, sockets, multicast>>

Init ==
  /\ subject \in {"ring", "network", "traffic", "sockets", "pgm"}
  /\ Ring!Init
  /\ Network!Init /\ (subject = "network" \/ (local = 0 /\ netmask = 0))
  /\ Traffic!Init
  /\ Sockets!Init /\ (subject = "sockets" \/ \A f \in Sockets!Fds : fds[f] = "free")
  /\ Pgm!Init /\ (subject = "pgm" \/ encap)

Next ==
  /\ UNCHANGED subject
  /\ \/ subject = "ring" /\ Ring!Next /\ UNCHANGED <<network, traffic, sockets, multicast>>
     \/ subject = "network" /\ Network!Next /\ UNCHANGED <<ring, traffic, sockets, multicast>>
     \/ subject = "traffic" /\ Traffic!Next /\ UNCHANGED <<ring, network, sockets, multicast>>
     \/ subject = "sockets" /\ Sockets!Next /\ UNCHANGED <<ring, network, traffic, multicast>>
     \/ subject = "pgm" /\ Pgm!Next /\ UNCHANGED <<ring, network, traffic, sockets>>

Spec == Init /\ [][Next]_vars

-----------------------------------------------------------------------------
(* The properties, each of the module that states it                       *)

(* The ring buffer returns the oldest bytes first: CircularBuffer.          *)
ReadsOldestFirst == Ring!ReadsOldestFirst

(* The survey asks the hosts of its network: Survey.                        *)
AsksItsNetwork == Network!AsksItsNetwork

(* What is taken for an answer was a reply to this machine: TrafficCapture.  *)
AnswersAreReplies == Traffic!AnswersAreReplies

(* No helper leaves a refused connection open: SocketUtils.                 *)
RefusedIsClosed == Sockets!RefusedIsClosed

(* A configuration that could be committed has its socket: SocketUtils.     *)
UsableIsOpen == Sockets!UsableIsOpen

(* A multicast socket that cannot be set up leaves nothing open: PgmSocket.  *)
AllOrNothing == Pgm!AllOrNothing

=============================================================================
