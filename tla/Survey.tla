------------------------------- MODULE Survey -------------------------------
(***************************************************************************)
(* The survey of the local network: Poluter::perform_survey (poluter.cpp)  *)
(* asks every address of the network of the interface; the answers come to *)
(* the capture thread (TrafficCapture).  Addresses have Bits bits, 32 in   *)
(* the code; the order of their bytes is left out.                         *)
(*                                                                         *)
(* read_interface_info looks at no error: what it failed to read has any   *)
(* value.  Nobody sends the survey thread the message that starts this.    *)
(***************************************************************************)
EXTENDS Integers, FiniteSets

CONSTANT Bits

VARIABLES
  local, netmask,  \* info.ip4
  i,               \* how many addresses were tried; not beyond all of them
  survey,          \* "running", "finished", or "crashed"
  asked            \* history: addresses a request was sent to

vars == <<local, netmask, i, survey, asked>>

Addresses == 0 .. 2^Bits - 1

Bit(n, b) == (n \div 2^b) % 2
bitcount(n) == Cardinality({b \in 0 .. Bits - 1 : Bit(n, b) = 1})

\* The bits that both have: the code's &.
And(m, n) == CHOOSE a \in Addresses : \A b \in 0 .. Bits - 1 : Bit(a, b) = Bit(m, b) * Bit(n, b)

Endless == -1

-----------------------------------------------------------------------------
(* A bug the property is sensitive to; it is not used by Next               *)

\* perform_survey that counts the broadcast address in.
nodeCountPlusOne ==
  IF bitcount(netmask) \in {0, Bits} THEN Endless ELSE 2^(Bits - bitcount(netmask)) - 1

-----------------------------------------------------------------------------
(* The int 2^(Bits-k) - 2 is -1 for a mask of all bits; a shift by Bits is   *)
(* undefined, and a shift by 0 on x86.  As a size_t either never ends.      *)
nodeCount ==
  IF bitcount(netmask) \in {0, Bits} THEN Endless ELSE 2^(Bits - bitcount(netmask)) - 2

network == And(local, netmask)
ip4addr == (network + i + 1) % 2^Bits

Init ==
  /\ local \in Addresses /\ netmask \in Addresses
  /\ i = 0 /\ survey = "running"
  /\ asked = {}

-----------------------------------------------------------------------------
More == survey = "running" /\ (nodeCount = Endless \/ i < nodeCount)
Tried == i' = IF i < 2^Bits THEN i + 1 ELSE 1

\* inject fails: the message wants an argument it is not given, which may crash.
Inject ==
  /\ More /\ ip4addr # local
  /\ \/ Tried /\ asked' = asked \union {ip4addr} /\ UNCHANGED survey
     \/ Tried /\ UNCHANGED <<asked, survey>>
     \/ survey' = "crashed" /\ UNCHANGED <<i, asked>>
  /\ UNCHANGED <<local, netmask>>

SkipSelf ==
  /\ More /\ ip4addr = local
  /\ Tried /\ UNCHANGED <<local, netmask, survey, asked>>

Finish ==
  /\ survey = "running" /\ ~More
  /\ survey' = "finished"
  /\ UNCHANGED <<local, netmask, i, asked>>

Next == Inject \/ SkipSelf \/ Finish

Spec == Init /\ [][Next]_vars

-----------------------------------------------------------------------------
Contiguous == \E k \in 1 .. Bits - 1 : netmask = 2^Bits - 2^k
Hosts ==
  {a \in Addresses : And(a, netmask) = network} \ {network, network + 2^Bits - netmask - 1}

(* With the mask of a network the survey asks nobody but its hosts, itself  *)
(* excluded; where every frame could be sent it has asked them all when it  *)
(* is finished (poluter.cpp:28-39).                                         *)
AsksItsNetwork ==
  Contiguous =>
    /\ asked \subseteq Hosts \ {local}
    /\ survey = "finished" => i = Cardinality(Hosts)

=============================================================================
