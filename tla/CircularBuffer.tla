--------------------------- MODULE CircularBuffer ---------------------------
(***************************************************************************)
(* CircularBuffer (libsensor/source/base/circular_buffer.cpp), and what    *)
(* SocketBuffer does with it.  The bytes are numbered in the order in      *)
(* which they are added; 0 is a byte that was received and is not added.   *)
(*                                                                         *)
(* A behaviour ends ("~sound") with the call after which nothing is known  *)
(* of the content: the sum of begin and end was larger than the capacity   *)
(* and distance wrapped around, the buffer was filled and passes for       *)
(* empty, or a flush believed a size that earlier ones left unchanged.     *)
(***************************************************************************)
EXTENDS Integers, Sequences

CONSTANTS
  Capacity,
  Word,     \* 2^64 in the code
  MaxBytes  \* bound: bytes that are added

VARIABLES
  begin, end, size, memory,
  content,  \* history: the bytes added and neither got nor flushed
  added,    \* history: how many bytes were added
  sound     \* see above

vars == <<begin, end, size, memory, content, added, sound>>

Lesser(m, n) == IF m < n THEN m ELSE n

Init ==
  /\ begin = 0 /\ end = 0 /\ size = 0
  /\ memory = [p \in 0 .. Capacity - 1 |-> 0]
  /\ content = <<>> /\ added = 0 /\ sound = TRUE

distance(from, to) ==
  IF from < to THEN to - from ELSE (Capacity - (from + to)) % Word

WrapsAround(from, to) == from > to /\ from + to > Capacity

cont_distance(from, to) == IF from < to THEN to - from ELSE Capacity - from

hasfilled == IF begin # end THEN distance(begin, end) ELSE 0
hasfree   == IF begin # end THEN distance(end, begin) ELSE Capacity

\* Where the i-th byte from one end of the range from .. to is, from 0 on.
Place(from, to, i) ==
  LET cont == cont_distance(from, to) IN IF i < cont THEN from + i ELSE i - cont

pick(sz) ==
  [i \in 1 .. Lesser(sz, hasfilled) |-> memory[Place(begin, end, i - 1)]]

watch_in == [i \in 1 .. cont_distance(begin, end) |-> memory[begin + i - 1]]

Dropped(n) == SubSeq(content, Lesser(n, Len(content)) + 1, Len(content))

-----------------------------------------------------------------------------
(* A bug the property is sensitive to; it is not an action of Next          *)

\* get that advances by what it was asked for.
GetAdvancesBySz(sz) ==
  /\ sound /\ ~WrapsAround(begin, end)
  /\ hasfilled > 0
  /\ begin' = (begin + sz) % Capacity /\ size' = size - sz
  /\ content' = Dropped(Lesser(sz, hasfilled))
  /\ UNCHANGED <<end, memory, added, sound>>

-----------------------------------------------------------------------------
add(sz) ==
  /\ sound /\ ~WrapsAround(end, begin) /\ added + sz <= MaxBytes
  /\ LET n == Lesser(sz, hasfree)
         New == [i \in 1 .. n |-> added + i] IN
       /\ memory' = [p \in 0 .. Capacity - 1 |->
            IF \E i \in 1 .. n : p = Place(end, begin, i - 1)
            THEN added + CHOOSE i \in 1 .. n : p = Place(end, begin, i - 1)
            ELSE memory[p]]
       /\ end' = (end + n) % Capacity /\ size' = size + n
       /\ content' = content \o New /\ added' = added + n
       /\ sound' = (Len(content') < Capacity)
  /\ UNCHANGED begin

get(sz) ==
  /\ sound /\ ~WrapsAround(begin, end)
  /\ LET n == Lesser(sz, hasfilled) IN
       /\ begin' = (begin + n) % Capacity /\ size' = size - n
       /\ content' = Dropped(n)
  /\ UNCHANGED <<end, memory, added, sound>>

\* flush_in and flush_out are the same.
flush(sz) ==
  /\ sound
  /\ IF sz = 0 \/ sz >= size
     THEN begin' = end /\ content' = <<>> /\ UNCHANGED sound
     ELSE LET cont == cont_distance(begin, end) IN
            /\ begin' = IF sz > cont THEN sz - cont ELSE begin + sz
            /\ content' = Dropped(sz)
            /\ sound' = (sz <= Len(content))
  /\ UNCHANGED <<end, size, memory, added>>

\* A call whose distance wraps around.
Overstep ==
  /\ sound /\ (WrapsAround(begin, end) \/ WrapsAround(end, begin))
  /\ sound' = FALSE
  /\ UNCHANGED <<begin, end, size, memory, content, added>>

(* SocketBuffer::recv into watch_out: end stays where it is.  The other one, *)
(* send, hands watch_in to the socket and changes nothing.                  *)
recv ==
  /\ sound
  /\ \E n \in 1 .. cont_distance(end, begin) :
       memory' = [p \in 0 .. Capacity - 1 |-> IF p \in end .. end + n - 1 THEN 0 ELSE memory[p]]
  /\ UNCHANGED <<begin, end, size, content, added, sound>>

Next ==
  \/ \E sz \in 1 .. Capacity : add(sz) \/ get(sz)
  \/ \E sz \in 0 .. Capacity : flush(sz)
  \/ Overstep \/ recv

Spec == Init /\ [][Next]_vars

-----------------------------------------------------------------------------
IsPrefixOfContent(s) == Len(s) <= Len(content) /\ s = SubSeq(content, 1, Len(s))

(* Whatever is added, got, flushed and received in whatever order, up to a  *)
(* call that leaves the content unknown: pick and get return the oldest     *)
(* bytes in their order, though maybe fewer than there are, and so does     *)
(* what SocketBuffer::send hands to the socket, unless there are none.      *)
ReadsOldestFirst ==
  sound =>
    /\ ~WrapsAround(begin, end) => \A sz \in 1 .. Capacity : IsPrefixOfContent(pick(sz))
    /\ content # <<>> => IsPrefixOfContent(watch_in)

=============================================================================
