--------------------------- MODULE TrafficCapture ---------------------------
(***************************************************************************)
(* The capture thread, TrafficCapture::handlePacket with arp_is_reply      *)
(* (arputil.c): out of all the frames that pass its interface it takes     *)
(* those that answer an ARP request.  A machine is known by its hardware   *)
(* address and has an address of the same name, but may answer for others  *)
(* too.  The handle sees what this machine sends, the survey or its        *)
(* kernel, what others say to each other, and answers to whatever program  *)
(* asked, or to nobody.  Frames too short for ARP are left out.            *)
(***************************************************************************)
CONSTANT Machines

VARIABLES
  hw,       \* interface.hw: this machine
  replied,  \* history: addresses that another machine said in a reply to this one it has
  answers   \* history: addresses that handlePacket took an answer for

Init == hw \in Machines /\ replied = {} /\ answers = {}

-----------------------------------------------------------------------------
(* A bug the property is sensitive to; it is not used by Next               *)

\* arp_is_reply that does not ask whom the reply is for.
arp_is_reply_to_anybody(frame) ==
  frame.shost # hw /\ frame.type = "arp" /\ frame.op = "reply" /\ frame.sha # hw

-----------------------------------------------------------------------------
(* Frames: Ethernet addresses, then what ARP says in them                   *)

arp_request_create(my_ip4, my_hw, to_ip4) ==
  [dhost |-> "broadcast", shost |-> my_hw, type |-> "arp", op |-> "request",
   sha |-> my_hw, sip |-> my_ip4, tha |-> "nobody", tip |-> to_ip4]

arp_reply_create(my_ip4, my_hw, to_ip4, to_hw) ==
  [dhost |-> to_hw, shost |-> my_hw, type |-> "arp", op |-> "reply",
   sha |-> my_hw, sip |-> my_ip4, tha |-> to_hw, tip |-> to_ip4]

arp_is_reply(frame) ==
  /\ frame.shost # hw /\ frame.dhost = hw
  /\ frame.type = "arp" /\ frame.op = "reply"
  /\ frame.sha # hw /\ frame.tha = hw

\* Replies to this machine are what others have said to it; any of the rest may pass.
Replies ==
  {arp_reply_create(a, hw, m, m) : a \in Machines, m \in Machines \ {hw}}
    \union {arp_reply_create(a, m, n, n) : a \in Machines, m \in Machines, n \in Machines \ {hw}}
    \union {arp_reply_create(a, m, hw, hw) : a \in replied, m \in Machines \ {hw}}

Passing ==
  {arp_request_create(m, m, a) : m \in Machines, a \in Machines}
    \union Replies
    \union {[arp_reply_create(m, m, m, m) EXCEPT !.dhost = "broadcast"] : m \in Machines}
    \union {[arp_reply_create(m, m, hw, hw) EXCEPT !.type = "ip"] : m \in Machines}

-----------------------------------------------------------------------------
\* Another machine replies to this one, asked or not, for itself or another.
Reply ==
  /\ \E a \in Machines : replied' = replied \union {a}
  /\ UNCHANGED <<hw, answers>>

handlePacket ==
  /\ \E frame \in Passing :
       arp_is_reply(frame) /\ answers' = answers \union {frame.sip}
  /\ UNCHANGED <<hw, replied>>

Next == Reply \/ handlePacket

Spec == Init /\ [][Next]_<<hw, replied, answers>>

-----------------------------------------------------------------------------
(* Whatever frames pass, an address is taken for that of an answer only if   *)
(* another machine has said in a reply to this one that it has it: not      *)
(* because this machine asked or replied itself, nor because others talked  *)
(* to each other or to all.  Whether the reply was to a request of the      *)
(* survey the code does not ask (arputil.c:89-95).                          *)
AnswersAreReplies == answers \subseteq replied

=============================================================================
