---------------------------- MODULE SocketUtils -----------------------------
(***************************************************************************)
(* The socket helpers (libsensor/source/net/socket_utils.c) and            *)
(* commit_config (sensor_main.cpp), called in any order by one thread.     *)
(* Each call is one action, with the descriptors it leaves open and the    *)
(* value it leaves in errno.                                               *)
(*                                                                         *)
(* The helpers ask whether bind and connect returned something other than  *)
(* 1, which they always do, and then look at errno, which a success leaves *)
(* as some earlier call has set it.  And they declare sock twice: what the *)
(* inner one holds at the end of the loop is not what they return.         *)
(***************************************************************************)
EXTENDS Integers

CONSTANT MaxFd  \* the highest number of a descriptor

VARIABLES
  fds,        \* "free" or who has it: "caller", "config", "nobody"
  peer,       \* what the last connect on each descriptor came to
  errno,
  sock,       \* config->sock
  alive,      \* the process has not crashed
  committed   \* the last commit_config: "none", "usable", "bare", "failed"

vars == <<fds, peer, errno, sock, alive, committed>>

Fds     == 0 .. MaxFd
Errors  == {"EINTR", "EINPROGRESS", "other"}

Lowest(f) == fds[f] = "free" /\ \A g \in 0 .. f - 1 : fds[g] # "free"

Init ==
  /\ fds \in [Fds -> {"free", "caller"}]
  /\ peer = [f \in Fds |-> "none"]
  /\ errno = "other" /\ sock = 0 /\ alive = TRUE /\ committed = "none"

Keep(f, keeper) == fds' = [fds EXCEPT ![f] = keeper]

(* A call that leaves no descriptor behind.  Where getaddrinfo fails, the    *)
(* result that is freed was never set, which may crash.                     *)
NoSocket == errno' \in Errors /\ alive' \in BOOLEAN /\ UNCHANGED <<fds, peer, sock, committed>>

-----------------------------------------------------------------------------
(* Bugs the properties are sensitive to; none of these is an action of Next *)

\* The test of errno without its negation.
KeptOther(nonblock) == ~(errno' = "EINTR" \/ (errno' = "EINPROGRESS" /\ nonblock))

\* commit_config that goes on when the timeout cannot be set.
CommitIgnoresTimeout(s, promiscuous, timeout) ==
  \/ s = 0 /\ committed' = "failed"
  \/ s # 0 /\ promiscuous /\ committed' = "failed"
  \/ s # 0 /\ (promiscuous => s # -1)
       /\ committed' = IF promiscuous \/ timeout THEN "usable" ELSE "bare"

-----------------------------------------------------------------------------
close_socket(f) ==
  /\ fds[f] = "caller" /\ Keep(f, "free")
  /\ UNCHANGED <<peer, errno, sock, alive, committed>>

\* It closes what it has bound, and returns -1 in any case.
create_socket_server == NoSocket

(* What errno must be for the descriptor to be left open.                  *)
Kept(nonblock) == errno' = "EINTR" \/ (errno' = "EINPROGRESS" /\ nonblock)

\* connect, by its three ends: a success leaves errno alone.
Connect(f, nonblock) ==
  \/ peer' = [peer EXCEPT ![f] = "established"] /\ UNCHANGED errno
  \/ peer' = [peer EXCEPT ![f] = "pending"]
       /\ errno' \in {"EINTR"} \union {e \in {"EINPROGRESS"} : nonblock}
  \/ peer' = [peer EXCEPT ![f] = "refused"] /\ errno' = "other"

ConnectFor(keeper, f, nonblock) ==
  /\ Lowest(f) /\ Connect(f, nonblock)
  /\ IF Kept(nonblock) THEN Keep(f, keeper) ELSE UNCHANGED fds
  /\ UNCHANGED <<sock, alive, committed>>

\* It returns -1 in any case, also where it has kept the descriptor.
create_tcp_connect(f, nonblock) == ConnectFor("nobody", f, nonblock)

create_inet_connect(f, nonblock) == ConnectFor("caller", f, nonblock)

-----------------------------------------------------------------------------
(* commit_config(config): 0 is taken for a failure of socket and -1 is not; *)
(* promiscuous mode and the timeout fail on -1, and may fail on others.     *)

Commit(s, promiscuous, timeout) ==
  \/ s = 0 /\ committed' = "failed"
  \/ s # 0 /\ (promiscuous \/ timeout) /\ committed' = "failed"
  \/ s # 0 /\ (promiscuous \/ timeout => s # -1)
       /\ committed' = IF promiscuous \/ timeout THEN "usable" ELSE "bare"

\* The descriptor of an earlier call is overwritten, and not closed.
create_raw_socket(s) ==
  /\ sock' = s
  /\ fds' = [f \in Fds |->
       IF f = s THEN "config" ELSE IF fds[f] = "config" THEN "nobody" ELSE fds[f]]

commit_config ==
  /\ \E s \in {f \in Fds : Lowest(f)} \union {-1}, promiscuous, timeout \in BOOLEAN :
       create_raw_socket(s) /\ Commit(s, promiscuous, timeout)
  /\ errno' \in Errors /\ UNCHANGED alive
  /\ peer' = [f \in Fds |-> IF f = sock' THEN "none" ELSE peer[f]]

Next ==
  /\ alive
  /\ \/ create_socket_server \/ commit_config
     \/ \E f \in Fds : close_socket(f)
     \/ \E f \in Fds, nonblock \in BOOLEAN :
          create_tcp_connect(f, nonblock) \/ create_inet_connect(f, nonblock)

Spec == Init /\ [][Next]_vars

-----------------------------------------------------------------------------
(* Properties *)

(* No descriptor that a connect has left open is one on which the          *)
(* connection was refused: whatever errno held before, it is closed         *)
(* (socket_utils.c:172-180, 215-223).                                       *)
RefusedIsClosed == \A f \in Fds : fds[f] # "free" => peer[f] # "refused"

(* After a commit_config that had something to set and succeeded, the       *)
(* configuration has an open socket (sensor_main.cpp:62-90): that -1 passes *)
(* the first check is found out by the calls that follow.                   *)
UsableIsOpen == committed = "usable" => sock \in Fds /\ fds[sock] = "config"

=============================================================================
