------------------------------- MODULE Buffer -------------------------------
(***************************************************************************)
(* net::Buffer (libsensor/source/reactor/buffer.hpp).  `mem` is what lies  *)
(* between begin and w, `r` of these bytes lie before the read position,   *)
(* and `size` is end - begin.                                              *)
(***************************************************************************)
EXTENDS Integers, Sequences

Buffers(Byte) == [mem : Seq(Byte), r : Nat, size : Nat]

New(initial) == [mem |-> <<>>, r |-> 0, size |-> initial]

pending(b)  == Len(b.mem) - b.r
writable(b) == b.size - Len(b.mem)
Unread(b)   == SubSeq(b.mem, b.r + 1, Len(b.mem))

processed(b, n) == [b EXCEPT !.r = @ + n]
reset(b)        == New(b.size)
written(b, s)   == [b EXCEPT !.mem = @ \o s]

\* It grows by the length of what does not fit, not by what is missing.
append(b, s) ==
  [written(b, s) EXCEPT !.size = IF writable(b) < Len(s) THEN @ + Len(s) ELSE @]

WellFormed(b) == b.r <= Len(b.mem) /\ Len(b.mem) <= b.size

=============================================================================
