---------------------------- MODULE EngineProofs ----------------------------
(***************************************************************************)
(* The invariants of Engine, for any number of descriptors and any set of  *)
(* addresses.                                                              *)
(***************************************************************************)
EXTENDS Engine, TLAPS

\* What can own a descriptor, and where sensor_main can be.
Owners == {"free", "host", "engine"} \union Address
Places == Setup \union {"loop", "aborted"}

TypeOK ==
  /\ main \in Places
  /\ owner \in [Fds -> Owners]
  /\ sock \in Fds \union {-1}
  /\ listening \in BOOLEAN
  /\ DOMAIN links \subseteq Address
  /\ links \in [DOMAIN links -> Fds \union {-1}]

(* Until the temporary is gone there are no links and nothing listens; from *)
(* then on the number in sock is free or the host's, until links take it:   *)
(* the one that listens stays the host's.                                   *)
Early ==
  main \in Setup =>
    /\ DOMAIN links = {}
    /\ main # "threads" => ~listening
    /\ main \notin {"pcap", "socket", "temporary"} /\ sock # -1 =>
         owner[sock] \in {"free", "host"}

(* The two parts of LinksAndDescriptors.                                    *)
LostOnlyToALink ==
  \A f \in Fds : owner[f] \in Address => owner[f] \in DOMAIN links

LinksOwnTheirDescriptor ==
  \A a \in DOMAIN links : links[a] # -1 => links[a] \in Fds /\ owner[links[a]] = a

IInv ==
  /\ TypeOK
  /\ Early
  /\ ListensOnForeignSocket
  /\ LostOnlyToALink
  /\ LinksOwnTheirDescriptor

-----------------------------------------------------------------------------
(* No name of an owner is an address, and -1 is no descriptor.             *)
LEMMA Names == /\ {"free", "host", "engine"} \cap Address = {}
               /\ -1 \notin Fds /\ Fds \subseteq Int
  BY EngineAssumption DEF Fds

(* The process starts with descriptors of the host and none of the engine. *)
LEMMA InitIInv == Init => IInv
  BY Names DEF Init, IInv, TypeOK, Early, Owners, Places, Setup, ListensOnForeignSocket,
               LostOnlyToALink, LinksOwnTheirDescriptor

(* A step that changes no descriptor, no link and not what listens only has *)
(* to keep to the order of sensor_main (SetupStep's early steps, Abort).    *)
LEMMA OnlyMain ==
  ASSUME IInv, UNCHANGED <<owner, sock, listening, links>>, main' \in Places, Early'
  PROVE  IInv'
  BY DEF IInv, TypeOK, ListensOnForeignSocket, LostOnlyToALink, LinksOwnTheirDescriptor

(* The end of the process changes nothing else.                            *)
LEMMA AbortIInv == IInv /\ Abort => IInv'
  BY OnlyMain DEF Abort, Places, Setup, Early

(* The rest of the process may take a free descriptor at any time.         *)
LEMMA HostOpenIInv == IInv /\ HostOpen => IInv'
  <1>1. SUFFICES ASSUME IInv, HostOpen PROVE IInv'
    OBVIOUS
  <1>2. PICK f \in Fds : owner[f] = "free" /\ owner' = [owner EXCEPT ![f] = "host"]
    BY <1>1 DEF HostOpen, Lowest
  <1>3. UNCHANGED <<main, sock, listening, links>>
    BY <1>1 DEF HostOpen
  <1>4. \A g \in Fds : owner'[g] = IF g = f THEN "host" ELSE owner[g]
    BY <1>1, <1>2 DEF IInv, TypeOK
  <1>5. TypeOK'
    BY <1>1, <1>2, <1>3 DEF IInv, TypeOK, Owners
  <1>6. Early'
    BY <1>1, <1>3, <1>4 DEF IInv, TypeOK, Early
  <1>7. ListensOnForeignSocket'
    BY <1>1, <1>3, <1>4 DEF IInv, ListensOnForeignSocket
  <1>8. LostOnlyToALink'
    BY <1>1, <1>3, <1>4, Names DEF IInv, LostOnlyToALink
  <1>9. LinksOwnTheirDescriptor'
    BY <1>1, <1>2, <1>3, <1>4, Names DEF IInv, TypeOK, LinksOwnTheirDescriptor
  <1> QED
    BY <1>5, <1>6, <1>7, <1>8, <1>9 DEF IInv

(* It may close what it has; if that is what the acceptor listens on, the   *)
(* event loop forgets it.                                                   *)
LEMMA HostCloseIInv == IInv /\ HostClose => IInv'
  <1>1. SUFFICES ASSUME IInv, HostClose PROVE IInv'
    OBVIOUS
  <1>2. PICK f \in Fds : /\ owner[f] = "host" /\ owner' = [owner EXCEPT ![f] = "free"]
                        /\ listening' = (listening /\ f # sock)
    BY <1>1 DEF HostClose
  <1>3. UNCHANGED <<main, sock, links>>
    BY <1>1 DEF HostClose
  <1>4. \A g \in Fds : owner'[g] = IF g = f THEN "free" ELSE owner[g]
    BY <1>1, <1>2 DEF IInv, TypeOK
  <1>5. TypeOK'
    BY <1>1, <1>2, <1>3 DEF IInv, TypeOK, Owners
  <1>6. Early'
    BY <1>1, <1>2, <1>3, <1>4 DEF IInv, TypeOK, Early
  <1>7. ListensOnForeignSocket'
    BY <1>1, <1>2, <1>3, <1>4 DEF IInv, ListensOnForeignSocket
  <1>8. LostOnlyToALink'
    BY <1>1, <1>3, <1>4, Names DEF IInv, LostOnlyToALink
  <1>9. LinksOwnTheirDescriptor'
    BY <1>1, <1>2, <1>3, <1>4, Names DEF IInv, TypeOK, LinksOwnTheirDescriptor
  <1> QED
    BY <1>5, <1>6, <1>7, <1>8, <1>9 DEF IInv

-----------------------------------------------------------------------------
(* sensor_main takes a descriptor for the packet handle, and for the socket *)
(* of the acceptor; there is no link yet that could have it.                *)
LEMMA InitHandlerIInv == IInv /\ InitHandler => IInv'
  <1>1. SUFFICES ASSUME IInv, InitHandler PROVE IInv'
    OBVIOUS
  <1>2. /\ main = "pcap" /\ main' = "socket"
        /\ UNCHANGED <<sock, listening, links>>
    BY <1>1 DEF InitHandler
  <1>3. DOMAIN links = {} /\ ~listening
    BY <1>1, <1>2 DEF IInv, Early, Setup
  <1>4. CASE UNCHANGED owner
    BY <1>1, <1>2, <1>3, <1>4, OnlyMain DEF Places, Setup, Early
  <1>5. CASE \E f \in Fds : Lowest(f) /\ owner' = [owner EXCEPT ![f] = "engine"]
    <2>1. TypeOK'
      BY <1>1, <1>2, <1>5 DEF IInv, TypeOK, Owners, Places, Setup
    <2>2. \A g \in Fds : owner'[g] \notin Address
      BY <1>1, <1>3, <1>5, Names DEF IInv, TypeOK, LostOnlyToALink
    <2> QED
      BY <1>2, <1>3, <2>1, <2>2
         DEF IInv, Early, ListensOnForeignSocket, LostOnlyToALink, LinksOwnTheirDescriptor
  <1> QED
    BY <1>1, <1>4, <1>5 DEF InitHandler

(* fromText's socket is the temporary's and sock's alike.                   *)
LEMMA SocketIInv == IInv /\ Socket => IInv'
  <1>1. SUFFICES ASSUME IInv, Socket PROVE IInv'
    OBVIOUS
  <1>2. main = "socket" /\ main' = "temporary" /\ UNCHANGED <<listening, links>>
    BY <1>1 DEF Socket
  <1>3. DOMAIN links = {} /\ ~listening
    BY <1>1, <1>2 DEF IInv, Early, Setup
  <1>4. \A g \in Fds : owner[g] \notin Address
    BY <1>1, <1>3 DEF IInv, LostOnlyToALink
  <1>5. TypeOK' /\ \A g \in Fds : owner'[g] \notin Address
    <2>1. CASE sock' = -1 /\ UNCHANGED owner
      BY <1>1, <1>2, <1>4, <2>1 DEF IInv, TypeOK, Places, Setup
    <2>2. CASE \E f \in Fds : sock' = f /\ owner' = [owner EXCEPT ![f] = "engine"]
      BY <1>1, <1>2, <1>4, <2>2, Names DEF IInv, TypeOK, Owners, Places, Setup
    <2> QED
      BY <1>1, <2>1, <2>2 DEF Socket
  <1> QED
    BY <1>2, <1>3, <1>5
       DEF IInv, Early, ListensOnForeignSocket, LostOnlyToALink, LinksOwnTheirDescriptor

(* From here on sock is a number that the engine does not have.            *)
LEMMA CloseTemporaryIInv == IInv /\ CloseTemporary => IInv'
  <1>1. SUFFICES ASSUME IInv, CloseTemporary PROVE IInv'
    OBVIOUS
  <1>2. /\ main = "temporary" /\ main' = "nonblocking"
        /\ owner' = [f \in Fds |-> IF f = sock THEN "free" ELSE owner[f]]
        /\ UNCHANGED <<sock, listening, links>>
    BY <1>1 DEF CloseTemporary
  <1>3. DOMAIN links = {} /\ ~listening
    BY <1>1, <1>2 DEF IInv, Early, Setup
  <1>4. TypeOK' /\ (sock # -1 => owner'[sock] = "free")
    BY <1>1, <1>2 DEF IInv, TypeOK, Owners, Places, Setup
  <1>5. \A g \in Fds : owner'[g] \notin Address
    BY <1>1, <1>2, <1>3, Names DEF IInv, LostOnlyToALink
  <1> QED
    BY <1>2, <1>3, <1>4, <1>5
       DEF IInv, Early, ListensOnForeignSocket, LostOnlyToALink, LinksOwnTheirDescriptor

(* What the acceptor configures, and listens on, is therefore the host's.   *)
LEMMA ConfigureIInv ==
  ASSUME NEW from \in {"nonblocking", "reuse", "bind"}, NEW to \in {"reuse", "bind", "listen"},
         IInv, Configure(from, to)
  PROVE  IInv'
  <1>1. main = from /\ main' = to /\ UNCHANGED <<owner, sock, listening, links>>
    BY DEF Configure
  <1>2. main' \in Places
    BY <1>1 DEF Places, Setup
  <1>3. Early'
    BY <1>1 DEF IInv, Early, Setup
  <1> QED
    BY <1>1, <1>2, <1>3, OnlyMain

(* listen succeeds on an open number only, and so on the host's.            *)
LEMMA ListenIInv == IInv /\ Listen => IInv'
  <1>1. SUFFICES ASSUME IInv, Listen PROVE IInv'
    OBVIOUS
  <1>2. /\ main = "listen" /\ main' = "threads" /\ listening' = TRUE
        /\ sock \in Fds /\ owner[sock] # "free"
        /\ UNCHANGED <<owner, sock, links>>
    BY <1>1 DEF Listen
  <1>3. DOMAIN links = {} /\ owner[sock] = "host"
    BY <1>1, <1>2, Names DEF IInv, Early, Setup
  <1>4. TypeOK' /\ Early' /\ ListensOnForeignSocket'
    BY <1>1, <1>2, <1>3 DEF IInv, TypeOK, Places, Setup, Early, ListensOnForeignSocket
  <1>5. LostOnlyToALink' /\ LinksOwnTheirDescriptor'
    BY <1>1, <1>2 DEF IInv, LostOnlyToALink, LinksOwnTheirDescriptor
  <1> QED
    BY <1>4, <1>5 DEF IInv

(* sensor_main goes into its loop and touches no descriptor.                *)
LEMMA StartThreadsIInv == IInv /\ StartThreads => IInv'
  BY OnlyMain DEF StartThreads, Places, Setup, Early

-----------------------------------------------------------------------------
(* A connection: its descriptor was free, so that no link had it and the    *)
(* acceptor does not listen on it.                                          *)
LEMMA AcceptIInv == IInv /\ Accept => IInv'
  <1>1. SUFFICES ASSUME IInv, Accept PROVE IInv'
    OBVIOUS
  <1>2. PICK f \in {g \in Fds : Lowest(g)} \union {-1}, b \in Address :
          Enlist(b, f) \/ Refuse(b, f)
    BY <1>1 DEF Accept
  <1>3. main = "loop" /\ listening /\ UNCHANGED <<sock, listening>>
    BY <1>1 DEF Accept
  <1>4. f \in Fds \union {-1} /\ (f \in Fds => owner[f] = "free")
    BY <1>2, Names DEF Lowest
  <1>5. owner' = [g \in Fds |-> IF g = f THEN b ELSE owner[g]]
    BY <1>2 DEF Enlist, Refuse
  <1>6. main' \in {"loop", "aborted"}
    BY <1>2, <1>3 DEF Enlist, Refuse
  <1>7. /\ DOMAIN links' = DOMAIN links \union {b}
        /\ \A a \in DOMAIN links : links'[a] = links[a]
        /\ b \notin DOMAIN links => links'[b] = f
        /\ links' \in [DOMAIN links' -> Fds \union {-1}]
    <2>1. CASE Enlist(b, f)
      BY <1>1, <1>4, <2>1 DEF Enlist, IInv, TypeOK
    <2>2. CASE Refuse(b, f)
      BY <1>1, <2>2 DEF Refuse, IInv, TypeOK
    <2> QED
      BY <1>2, <2>1, <2>2
  <1>8. TypeOK'
    BY <1>1, <1>3, <1>5, <1>6, <1>7 DEF IInv, TypeOK, Owners, Places
  <1>9. Early'
    BY <1>6 DEF Early, Setup
  <1>10. ListensOnForeignSocket'
    BY <1>1, <1>3, <1>4, <1>5 DEF IInv, ListensOnForeignSocket
  <1>11. LostOnlyToALink'
    <2>1. SUFFICES ASSUME NEW g \in Fds, owner'[g] \in Address PROVE owner'[g] \in DOMAIN links'
      BY DEF LostOnlyToALink
    <2>2. CASE g = f
      BY <1>5, <1>7, <2>2
    <2>3. CASE g # f
      BY <1>1, <1>5, <1>7, <2>1, <2>3 DEF IInv, LostOnlyToALink
    <2> QED
      BY <2>2, <2>3
  <1>12. LinksOwnTheirDescriptor'
    BY <1>1, <1>4, <1>5, <1>7, Names DEF IInv, TypeOK, LinksOwnTheirDescriptor
  <1> QED
    BY <1>8, <1>9, <1>10, <1>11, <1>12 DEF IInv

(* The capture thread ends and touches none either.                         *)
LEMMA DispatchIInv == IInv /\ Dispatch => IInv'
  BY OnlyMain DEF Dispatch, Places, Setup, Early

-----------------------------------------------------------------------------
(* Every step, one lemma each.                                             *)
LEMMA NextIInv == IInv /\ [Next]_vars => IInv'
  <1>1. SUFFICES ASSUME IInv, [Next]_vars PROVE IInv'
    OBVIOUS
  <1>2. CASE SetupStep
    BY <1>1, <1>2, AbortIInv, InitHandlerIInv, SocketIInv, CloseTemporaryIInv, ConfigureIInv,
       ListenIInv, StartThreadsIInv DEF SetupStep, Fail
  <1>3. CASE LoopStep
    BY <1>1, <1>3, AbortIInv, AcceptIInv, DispatchIInv DEF LoopStep, AcceptThrows, DispatchNull
  <1>4. CASE UNCHANGED vars
    <2>1. main' \in Places /\ Early'
      BY <1>1, <1>4 DEF vars, IInv, TypeOK, Early
    <2> QED
      BY <1>1, <1>4, <2>1, OnlyMain DEF vars
  <1> QED
    BY <1>1, <1>2, <1>3, <1>4, HostOpenIInv, HostCloseIInv DEF Next

(* What sensor_main, the host and the event loop do keeps the invariant.    *)
THEOREM Invariant == Spec => []IInv
  BY InitIInv, NextIInv, PTL DEF Spec

(* The engine never listens on a socket of its own (tcp_acceptor.cpp:9).    *)
THEOREM NeverItsOwnSocket == Spec => []ListensOnForeignSocket
  BY Invariant, PTL DEF IInv

(* An accepted descriptor is a link's or was lost to an address that has    *)
(* one, and no two links share one (sensor_service.cpp:39-46).              *)
THEOREM LinksKeepTheirDescriptor == Spec => []LinksAndDescriptors
  BY Invariant, PTL DEF IInv, LostOnlyToALink, LinksOwnTheirDescriptor, LinksAndDescriptors

=============================================================================
