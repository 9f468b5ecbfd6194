----------------------------- MODULE PgmSocket ------------------------------
(***************************************************************************)
(* The multicast sockets of libsensor/source/net/pgm_socket_utils.c: the   *)
(* way of create_pgm_socket through the calls of OpenPGM, each of which    *)
(* may fail, to the one place where it cleans up; then what set_pgm_sender *)
(* or set_pgm_receiver sets, in order and up to the first failure, and the *)
(* descriptors that get_pgm_send_fd and get_pgm_recv_fd hand out.          *)
(*                                                                         *)
(* OpenPGM is external: a call succeeds, or fails and leaves things as     *)
(* they are, and an error, where the call reports one, is the caller's.    *)
(***************************************************************************)
EXTENDS Integers, Sequences

CONSTANT Groups  \* how many groups the network names: ai_recv_addrs_len

VARIABLES
  step,      \* the call that is next, or where create_pgm_socket ended
  encap,     \* its parameter: over UDP
  addrinfo, pgm_error,  \* "none", "held" or "freed"
  sock,      \* "none", "open" or "closed"
  i,         \* the group whose turn it is
  joined,    \* history: the groups that were joined
  options,   \* how many options were set for sending or receiving
  ok,        \* what the last function after create_pgm_socket returned
  fds        \* *send_fds or *recv_fds: the descriptors that are filled in

made == <<encap, addrinfo, pgm_error, sock, i, joined>>
vars == <<step, made, options, ok, fds>>

Init ==
  /\ step = "getaddrinfo" /\ encap \in BOOLEAN
  /\ addrinfo = "none" /\ pgm_error = "none" /\ sock = "none"
  /\ i = 0 /\ joined = {}
  /\ options = 0 /\ ok = TRUE /\ fds = {}

-----------------------------------------------------------------------------
(* A bug the property is sensitive to; it is not an action of Next          *)

\* An end that forgets the socket of a call that failed.
CleanUpWithoutClose(error) ==
  /\ addrinfo' = IF addrinfo = "held" THEN "freed" ELSE addrinfo
  /\ pgm_error' = IF pgm_error = "held" THEN "freed" ELSE pgm_error
  /\ step' = IF error THEN "NULL" ELSE "returned"
  /\ UNCHANGED <<encap, sock, i, joined, options, ok, fds>>

-----------------------------------------------------------------------------
(* create_pgm_socket                                                        *)

Rest == <<encap, addrinfo, pgm_error, sock, i, joined, options, ok, fds>>

Order == <<"encapsulate", "gsi", "bind", "join", "send_group", "connect", "succeed">>
After(s) == Order[1 + CHOOSE n \in 1 .. Len(Order) : Order[n] = s]

getaddrinfo ==
  /\ step = "getaddrinfo"
  /\ \/ step' = "socket" /\ addrinfo' = "held" /\ UNCHANGED pgm_error
     \/ step' = "fail" /\ pgm_error' = "held" /\ UNCHANGED addrinfo
  /\ UNCHANGED <<encap, sock, i, joined, options, ok, fds>>

socket ==
  /\ step = "socket"
  /\ \/ step' = (IF encap THEN "encapsulate" ELSE "gsi") /\ sock' = "open" /\ UNCHANGED pgm_error
     \/ step' = "fail" /\ pgm_error' = "held" /\ UNCHANGED sock
  /\ UNCHANGED <<encap, addrinfo, i, joined, options, ok, fds>>

\* A call that either works or ends the loop; some report an error.
Call(s, reports) ==
  /\ step = s
  /\ \/ step' = After(s) /\ UNCHANGED pgm_error
     \/ step' = "fail" /\ pgm_error' = IF reports THEN "held" ELSE pgm_error
  /\ UNCHANGED <<encap, addrinfo, sock, i, joined, options, ok, fds>>

join ==
  /\ step = "join" /\ i < Groups
  /\ i' = i + 1 /\ joined' = joined \union {i}
  /\ UNCHANGED <<step, encap, addrinfo, pgm_error, sock, options, ok, fds>>

\* The break leaves the loop over the groups, and that only.
JoinFails ==
  /\ step = "join" /\ i < Groups
  /\ step' = "send_group"
  /\ UNCHANGED Rest

AllTried ==
  /\ step = "join" /\ i = Groups
  /\ step' = "send_group"
  /\ UNCHANGED Rest

\* The end of create_pgm_socket, with state.error and state.sock_init.
CleanUp(error) ==
  /\ addrinfo' = IF addrinfo = "held" THEN "freed" ELSE addrinfo
  /\ pgm_error' = IF pgm_error = "held" THEN "freed" ELSE pgm_error
  /\ sock' = IF error /\ sock = "open" THEN "closed" ELSE sock
  /\ step' = IF error THEN "NULL" ELSE "returned"
  /\ UNCHANGED <<encap, i, joined, options, ok, fds>>

Return == (step = "fail" /\ CleanUp(TRUE)) \/ (step = "succeed" /\ CleanUp(FALSE))

-----------------------------------------------------------------------------
(* What is done with the socket                                             *)

\* The options of a role are a chain of &&: none after the first that fails.
Sender   == 7
Receiver == 11

SetOptions(all) ==
  /\ step = "returned" /\ options = 0
  /\ \E n \in 0 .. all : options' = n /\ ok' = (n = all)
  /\ UNCHANGED <<step, made, fds>>

set_pgm_sender   == SetOptions(Sender)
set_pgm_receiver == SetOptions(Receiver)

\* The structure is filled in on the side and copied if every query worked.
Fill(queries) ==
  \/ fds' = {queries[q] : q \in 1 .. Len(queries)} /\ ok' = TRUE
  \/ ok' = FALSE /\ UNCHANGED fds

GetFds(queries) ==
  /\ step = "returned" /\ fds = {}
  /\ Fill(queries)
  /\ UNCHANGED <<step, made, options>>

get_pgm_send_fd == GetFds(<<"send", "receive", "repair", "pending">>)
get_pgm_recv_fd == GetFds(<<"receive", "pending">>)

-----------------------------------------------------------------------------
Next ==
  \/ getaddrinfo \/ socket
  \/ Call("encapsulate", FALSE) \/ Call("gsi", FALSE) \/ Call("bind", TRUE)
  \/ join \/ JoinFails \/ AllTried
  \/ Call("send_group", FALSE) \/ Call("connect", TRUE)
  \/ Return
  \/ set_pgm_sender \/ set_pgm_receiver \/ get_pgm_send_fd \/ get_pgm_recv_fd

Spec == Init /\ [][Next]_vars

-----------------------------------------------------------------------------
(* All or nothing, whichever call fails, but for the groups.                *)
(* create_pgm_socket frees the addresses and the error, returns NULL only   *)
(* with no socket open, and a socket only when it is open and has joined    *)
(* the groups before the first that failed (pgm_socket_utils.c:33-128); the *)
(* caller's structure gets all descriptors of its role or none (217-243).   *)
AllOrNothing ==
  /\ step \in {"NULL", "returned"} =>
       /\ addrinfo # "held" /\ pgm_error # "held"
       /\ sock = "open" <=> step = "returned"
       /\ \E n \in 0 .. Groups : joined = 0 .. n - 1
  /\ fds \in {{}, {"send", "receive", "repair", "pending"}, {"receive", "pending"}}

=============================================================================
