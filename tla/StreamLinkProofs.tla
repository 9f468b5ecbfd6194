-------------------------- MODULE StreamLinkProofs --------------------------
(***************************************************************************)
(* Proofs about StreamLink: the streams of both directions are kept, for   *)
(* any sizes of the buffers, of the socket's window and of the streams.    *)
(* The first part is about Buffer, whose operators a link is built from.   *)
(***************************************************************************)
EXTENDS StreamLink, SequenceTheorems, TLAPS

-----------------------------------------------------------------------------
(* Sequences *)

\* Buffer::processed, bufferedRecv and bufferedSend cut a sequence in two.
LEMMA Cut ==
  ASSUME NEW S, NEW s \in Seq(S), NEW n \in 0 .. Len(s)
  PROVE  /\ SubSeq(s, 1, n) \in Seq(S)
         /\ SubSeq(s, n + 1, Len(s)) \in Seq(S)
         /\ Len(SubSeq(s, 1, n)) = n
         /\ Len(SubSeq(s, n + 1, Len(s))) = Len(s) - n
         /\ \A i \in 1 .. Len(s) - n : SubSeq(s, n + 1, Len(s))[i] = s[n + i]
         /\ SubSeq(s, 1, n) \o SubSeq(s, n + 1, Len(s)) = s
<1>1. Len(s) \in Nat /\ n \in Nat /\ n <= Len(s)
  BY LenProperties
<1>2. \A i \in 1 .. Len(s) : s[i] \in S
  BY ElementOfSeq
<1>3. /\ SubSeq(s, 1, n) \in Seq(S)
      /\ Len(SubSeq(s, 1, n)) = n
      /\ \A i \in 1 .. n : SubSeq(s, 1, n)[i] = s[i]
  <2>1. \A i \in 1 .. n : s[i] \in S
    BY <1>1, <1>2
  <2>2. /\ SubSeq(s, 1, n) \in Seq(S)
        /\ Len(SubSeq(s, 1, n)) = IF 1 <= n THEN n - 1 + 1 ELSE 0
        /\ \A i \in 1 .. n - 1 + 1 : SubSeq(s, 1, n)[i] = s[1 + i - 1]
    BY <1>1, <2>1, SubSeqProperties
  <2> QED
    BY <1>1, <2>2
<1>4. /\ SubSeq(s, n + 1, Len(s)) \in Seq(S)
      /\ Len(SubSeq(s, n + 1, Len(s))) = Len(s) - n
      /\ \A i \in 1 .. Len(s) - n : SubSeq(s, n + 1, Len(s))[i] = s[n + i]
  <2>1. \A i \in n + 1 .. Len(s) : s[i] \in S
    BY <1>1, <1>2
  <2>2. /\ SubSeq(s, n + 1, Len(s)) \in Seq(S)
        /\ Len(SubSeq(s, n + 1, Len(s))) = IF n + 1 <= Len(s) THEN Len(s) - (n + 1) + 1 ELSE 0
        /\ \A i \in 1 .. Len(s) - (n + 1) + 1 :
              SubSeq(s, n + 1, Len(s))[i] = s[(n + 1) + i - 1]
    BY <1>1, <2>1, SubSeqProperties
  <2> QED
    BY <1>1, <2>2
<1>5. SubSeq(s, 1, n) \o SubSeq(s, n + 1, Len(s)) = s
  <2>1. 1 \in 1 .. Len(s) + 1 /\ n \in 1 - 1 .. Len(s) /\ Len(s) \in n .. Len(s)
    BY <1>1
  <2>2. SubSeq(s, 1, n) \o SubSeq(s, n + 1, Len(s)) = SubSeq(s, 1, Len(s))
    BY <2>1, ConcatAdjacentSubSeq
  <2> QED
    BY <2>2, SubSeqFull
<1> QED
  BY <1>3, <1>4, <1>5

\* What is in front of two equal sequences can be taken away.
LEMMA CancelLeft ==
  ASSUME NEW S, NEW f \in Seq(S), NEW v \in Seq(S), NEW w \in Seq(S), f \o v = f \o w
  PROVE  v = w
BY ConcatSimplifications

\* Concatenation, with the facts that are used of it.
LEMMA Concat ==
  ASSUME NEW S, NEW f \in Seq(S), NEW v \in Seq(S), NEW w \in Seq(S)
  PROVE  /\ f \o v \in Seq(S)
         /\ Len(f \o v) = Len(f) + Len(v)
         /\ \A i \in 1 .. Len(f) + Len(v) : (f \o v)[i] = IF i <= Len(f) THEN f[i] ELSE v[i - Len(f)]
         /\ (f \o v) \o w = f \o (v \o w)
         /\ f \o <<>> = f
<1>1. (f \o v) \o w = f \o (v \o w)
  BY ConcatAssociative
<1>2. f \o <<>> = f
  BY ConcatEmptySeq
<1> QED
  BY <1>1, <1>2, ConcatProperties

\* Two cuts in a row are one.
LEMMA CutTwice ==
  ASSUME NEW S, NEW s \in Seq(S), NEW m \in 0 .. Len(s), NEW n \in 0 .. Len(s) - m
  PROVE  SubSeq(SubSeq(s, m + 1, Len(s)), n + 1, Len(s) - m) = SubSeq(s, (m + n) + 1, Len(s))
<1> DEFINE u == SubSeq(s, m + 1, Len(s))
           v == SubSeq(s, (m + n) + 1, Len(s))
           w == SubSeq(u, n + 1, Len(u))
<1>1. Len(s) \in Nat /\ m \in Nat /\ n \in Nat /\ m <= Len(s) /\ m + n <= Len(s)
  BY LenProperties
<1>2. /\ u \in Seq(S) /\ Len(u) = Len(s) - m
      /\ \A i \in 1 .. Len(s) - m : u[i] = s[m + i]
  BY Cut
<1>3. m + n \in 0 .. Len(s)
  BY <1>1
<1>4. /\ v \in Seq(S) /\ Len(v) = Len(s) - (m + n)
      /\ \A i \in 1 .. Len(s) - (m + n) : v[i] = s[(m + n) + i]
  BY <1>3, Cut
<1>5. n \in 0 .. Len(u)
  BY <1>2
<1> HIDE DEF u, v
<1>6. /\ w \in Seq(S) /\ Len(w) = Len(u) - n
      /\ \A i \in 1 .. Len(u) - n : w[i] = u[n + i]
  BY <1>2, <1>5, Cut
<1> HIDE DEF w
<1>7. Len(w) = Len(v)
  BY <1>1, <1>2, <1>4, <1>6
<1>8. \A i \in 1 .. Len(w) : w[i] = v[i]
  <2> SUFFICES ASSUME NEW i \in 1 .. Len(s) - (m + n) PROVE w[i] = v[i]
    BY <1>4, <1>7
  <2>1. i \in 1 .. Len(u) - n /\ n + i \in 1 .. Len(s) - m /\ i \in Nat
    BY <1>1, <1>2
  <2>2. w[i] = s[m + (n + i)]
    BY <1>2, <1>6, <2>1
  <2>3. v[i] = s[(m + n) + i]
    BY <1>4
  <2> QED
    BY <1>1, <2>1, <2>2, <2>3
<1>9. w = v
  BY <1>4, <1>6, <1>7, <1>8, SeqEqual
<1> QED
  BY <1>2, <1>9 DEF u, v, w

-----------------------------------------------------------------------------
(* Buffers *)

\* pending is the length of what peek shows.
LEMMA UnreadType ==
  ASSUME NEW Byte, NEW b \in Buffers(Byte), WellFormed(b)
  PROVE  /\ b.mem \in Seq(Byte) /\ b.r \in 0 .. Len(b.mem) /\ b.size \in Nat
         /\ Len(b.mem) \in Nat
         /\ Unread(b) \in Seq(Byte)
         /\ pending(b) \in Nat
         /\ Len(Unread(b)) = pending(b)
<1>1. b.mem \in Seq(Byte) /\ b.r \in Nat /\ b.size \in Nat
  BY DEF Buffers
<1>2. Len(b.mem) \in Nat
  BY <1>1, LenProperties
<1>3. b.r \in 0 .. Len(b.mem)
  BY <1>1, <1>2 DEF WellFormed
<1> QED
  BY <1>1, <1>2, <1>3, Cut DEF Unread, pending

\* Nothing is pending in a new buffer, nor in one that was reset.
LEMMA UnreadOfEmpty ==
  ASSUME NEW Byte, NEW b \in Buffers(Byte), WellFormed(b)
  PROVE  /\ pending(b) = 0 => Unread(b) = <<>>
         /\ reset(b) \in Buffers(Byte) /\ WellFormed(reset(b))
         /\ Unread(reset(b)) = <<>> /\ pending(reset(b)) = 0
<1>1. b.mem \in Seq(Byte) /\ b.size \in Nat
  BY UnreadType
<1>2. pending(b) = 0 => Unread(b) = <<>>
  BY UnreadType, EmptySeq
<1>3. reset(b) = [mem |-> <<>>, r |-> 0, size |-> b.size]
  BY DEF reset, New
<1>4. <<>> \in Seq(Byte) /\ Len(<<>>) = 0
  BY EmptySeq
<1>5. reset(b) \in Buffers(Byte) /\ WellFormed(reset(b)) /\ pending(reset(b)) = 0
  BY <1>1, <1>3, <1>4 DEF Buffers, WellFormed, pending
<1> QED
  BY <1>2, <1>3, <1>4, <1>5, SubSeqEmpty DEF Unread

\* processed takes the first of the pending bytes.
LEMMA UnreadOfProcessed ==
  ASSUME NEW Byte, NEW b \in Buffers(Byte), WellFormed(b), NEW n \in 1 .. pending(b)
  PROVE  /\ processed(b, n) \in Buffers(Byte) /\ WellFormed(processed(b, n))
         /\ pending(processed(b, n)) = pending(b) - n
         /\ SubSeq(Unread(b), 1, n) \in Seq(Byte)
         /\ Len(SubSeq(Unread(b), 1, n)) = n
         /\ SubSeq(Unread(b), 1, n) \o Unread(processed(b, n)) = Unread(b)
<1> DEFINE c == processed(b, n)
           u == Unread(b)
           z == SubSeq(u, n + 1, Len(u))
<1>1. /\ b.mem \in Seq(Byte) /\ b.r \in 0 .. Len(b.mem) /\ b.size \in Nat
      /\ Len(b.mem) \in Nat /\ u \in Seq(Byte) /\ Len(u) = pending(b)
      /\ pending(b) = Len(b.mem) - b.r /\ pending(b) \in Nat
  BY UnreadType DEF pending
<1>2. n \in Nat /\ n >= 1 /\ n <= pending(b) /\ n \in 0 .. Len(u)
  BY <1>1
<1>3. c = [mem |-> b.mem, r |-> b.r + n, size |-> b.size]
  BY DEF Buffers, processed
<1>4. c \in Buffers(Byte) /\ WellFormed(c) /\ pending(c) = pending(b) - n
  BY <1>1, <1>2, <1>3 DEF Buffers, WellFormed, pending
<1>5. /\ SubSeq(u, 1, n) \in Seq(Byte) /\ Len(SubSeq(u, 1, n)) = n
      /\ z \in Seq(Byte) /\ Len(z) = Len(u) - n
      /\ SubSeq(u, 1, n) \o z = u
  BY <1>1, <1>2, Cut
<1>6. Unread(c) = z
  <2>1. Unread(c) = SubSeq(b.mem, (b.r + n) + 1, Len(b.mem))
    <3>1. c.mem = b.mem /\ c.r = b.r + n
      BY <1>3
    <3> QED
      BY <3>1 DEF Unread
  <2>2. n \in 0 .. Len(b.mem) - b.r
    BY <1>1, <1>2
  <2>3. z = SubSeq(SubSeq(b.mem, b.r + 1, Len(b.mem)), n + 1, Len(b.mem) - b.r)
    BY <1>1 DEF Unread
  <2> QED
    BY <1>1, <2>1, <2>2, <2>3, CutTwice
<1> QED
  BY <1>4, <1>5, <1>6

\* written puts its bytes behind the pending ones.
LEMMA UnreadOfWritten ==
  ASSUME NEW Byte, NEW b \in Buffers(Byte), WellFormed(b), NEW s \in Seq(Byte)
  PROVE  /\ written(b, s) = [mem |-> b.mem \o s, r |-> b.r, size |-> b.size]
         /\ written(b, s) \in Buffers(Byte)
         /\ b.mem \o s \in Seq(Byte)
         /\ Len(b.mem \o s) = Len(b.mem) + Len(s)
         /\ pending(written(b, s)) = pending(b) + Len(s)
         /\ Unread(written(b, s)) = Unread(b) \o s
<1> DEFINE m == b.mem \o s
           c == written(b, s)
<1>1. /\ b.mem \in Seq(Byte) /\ b.r \in 0 .. Len(b.mem) /\ b.size \in Nat
      /\ Len(b.mem) \in Nat /\ Unread(b) \in Seq(Byte)
  BY UnreadType
<1>2. m \in Seq(Byte) /\ Len(m) = Len(b.mem) + Len(s) /\ Len(s) \in Nat
  BY <1>1, ConcatProperties, LenProperties
<1> HIDE DEF m
<1>3. c = [mem |-> m, r |-> b.r, size |-> b.size]
  <2>1. [b EXCEPT !.mem = m] = [mem |-> m, r |-> b.r, size |-> b.size]
    BY DEF Buffers
  <2> QED
    BY <2>1 DEF written, m
<1> HIDE DEF c
<1>4. c \in Buffers(Byte) /\ c.mem = m /\ c.r = b.r
  BY <1>1, <1>2, <1>3 DEF Buffers
<1>5. pending(c) = pending(b) + Len(s)
  <2>1. pending(c) = Len(m) - b.r
    BY <1>4 DEF pending
  <2>2. pending(b) = Len(b.mem) - b.r
    BY DEF pending
  <2> QED
    BY <1>1, <1>2, <2>1, <2>2
<1>6. Unread(c) = SubSeq(m, b.r + 1, Len(m))
  BY <1>4 DEF Unread
<1>7. b.r \in 0 .. Len(m)
  BY <1>1, <1>2
<1>8. SubSeq(m, 1, b.r) = SubSeq(b.mem, 1, b.r)
  <2>1. CASE b.r = 0
    BY <2>1, SubSeqEmpty
  <2>2. CASE b.r # 0
    <3>1. 1 \in 1 .. Len(b.mem) /\ b.r \in 1 .. Len(b.mem)
      BY <1>1, <2>2
    <3> QED
      BY <1>1, <3>1, SubSeqOfConcat1 DEF m
  <2> QED
    BY <2>1, <2>2
<1> DEFINE f == SubSeq(b.mem, 1, b.r)
           v == SubSeq(m, b.r + 1, Len(m))
<1>9. f \in Seq(Byte) /\ f \o Unread(b) = b.mem
  BY <1>1, Cut DEF Unread
<1>10. v \in Seq(Byte) /\ f \o v = m
  BY <1>2, <1>7, <1>8, Cut
<1> HIDE DEF f, v
<1> DEFINE u == Unread(b)
<1>11. u \in Seq(Byte) /\ f \o u = b.mem
  BY <1>1, <1>9
<1> HIDE DEF u
<1>12. u \o s \in Seq(Byte) /\ (f \o u) \o s = f \o (u \o s)
  <2>1. f \in Seq(Byte) /\ u \in Seq(Byte) /\ s \in Seq(Byte)
    BY <1>9, <1>11
  <2>2. u \o s \in Seq(Byte)
    BY <2>1, ConcatProperties
  <2>3. (f \o u) \o s = f \o (u \o s)
    BY <2>1, ConcatAssociative
  <2> QED
    BY <2>2, <2>3
<1>13. f \o v = f \o (u \o s)
  BY <1>10, <1>11, <1>12 DEF m
<1>14. v = u \o s
  BY <1>9, <1>10, <1>12, <1>13, CancelLeft
<1> QED
  BY <1>2, <1>3, <1>4, <1>5, <1>6, <1>14 DEF c, m, u, v

\* append does the same, and makes the room that it needs.
LEMMA UnreadOfAppend ==
  ASSUME NEW Byte, NEW b \in Buffers(Byte), WellFormed(b), NEW s \in Seq(Byte)
  PROVE  /\ append(b, s) \in Buffers(Byte) /\ WellFormed(append(b, s))
         /\ pending(append(b, s)) = pending(b) + Len(s)
         /\ Unread(append(b, s)) = Unread(b) \o s
<1> DEFINE c == append(b, s)
           d == written(b, s)
           z == IF writable(b) < Len(s) THEN b.size + Len(s) ELSE b.size
<1>1. /\ b.mem \in Seq(Byte) /\ b.r \in 0 .. Len(b.mem) /\ b.size \in Nat
      /\ Len(b.mem) \in Nat /\ Len(s) \in Nat
  BY UnreadType, LenProperties
<1>2. /\ d = [mem |-> b.mem \o s, r |-> b.r, size |-> b.size]
      /\ b.mem \o s \in Seq(Byte)
      /\ Len(b.mem \o s) = Len(b.mem) + Len(s)
      /\ pending(d) = pending(b) + Len(s)
      /\ Unread(d) = Unread(b) \o s
  BY UnreadOfWritten
<1> HIDE DEF d, z
<1>3. c = [mem |-> d.mem, r |-> d.r, size |-> z]
  <2>1. [d EXCEPT !.size = z] = [mem |-> d.mem, r |-> d.r, size |-> z]
    <3>1. d \in Buffers(Byte)
      BY UnreadOfWritten DEF d
    <3> QED
      BY <3>1 DEF Buffers
  <2>2. d.size = b.size
    BY <1>2
  <2> QED
    BY <2>1, <2>2 DEF append, d, z
<1> HIDE DEF c
<1>4. c \in Buffers(Byte) /\ c.mem = d.mem /\ c.r = d.r
  BY <1>1, <1>2, <1>3 DEF Buffers, writable, z
<1>5. pending(c) = pending(d) /\ Unread(c) = Unread(d)
  BY <1>4 DEF pending, Unread
<1>6. WellFormed(c)
  <2>1. Len(b.mem) <= b.size /\ b.r <= Len(b.mem)
    BY DEF WellFormed
  <2>2. Len(b.mem) + Len(s) <= z
    BY <1>1, <2>1 DEF writable, z
  <2> QED
    BY <1>1, <1>2, <1>3, <2>1, <2>2 DEF WellFormed
<1> QED
  BY <1>2, <1>4, <1>5, <1>6 DEF c

-----------------------------------------------------------------------------
(* The numbered bytes *)

\* Numbers goes on where Numbers ended.
LEMMA NumbersFacts ==
  ASSUME NEW k \in Nat, NEW n \in Nat, NEW max \in Nat, k + n <= max
  PROVE  /\ Numbers(k, n) \in Seq(1 .. max)
         /\ Len(Numbers(k, n)) = n
         /\ Numbers(0, k) \o Numbers(k, n) = Numbers(0, k + n)
<1>1. /\ Numbers(k, n) \in Seq(1 .. max) /\ Len(Numbers(k, n)) = n
      /\ \A i \in 1 .. n : Numbers(k, n)[i] = k + i
  BY DEF Numbers
<1>2. /\ Numbers(0, k) \in Seq(1 .. max) /\ Len(Numbers(0, k)) = k
      /\ \A i \in 1 .. k : Numbers(0, k)[i] = 0 + i
  BY DEF Numbers
<1>3. /\ Numbers(0, k + n) \in Seq(1 .. max) /\ Len(Numbers(0, k + n)) = k + n
      /\ \A i \in 1 .. k + n : Numbers(0, k + n)[i] = 0 + i
  BY DEF Numbers
<1> DEFINE a == Numbers(0, k)
           z == Numbers(k, n)
           t == Numbers(0, k + n)
<1>7. a \in Seq(1 .. max) /\ z \in Seq(1 .. max) /\ Len(a) = k /\ Len(z) = n
  BY <1>1, <1>2
<1> HIDE DEF a, z, t
<1>4. /\ a \o z \in Seq(1 .. max) /\ Len(a \o z) = k + n
      /\ \A i \in 1 .. k + n : (a \o z)[i] = IF i <= k THEN a[i] ELSE z[i - k]
  BY <1>7, ConcatProperties
<1>5. \A i \in 1 .. k + n : (a \o z)[i] = t[i]
  <2> SUFFICES ASSUME NEW i \in 1 .. k + n PROVE (a \o z)[i] = t[i]
    OBVIOUS
  <2>1. t[i] = i /\ i \in Nat
    BY <1>3 DEF t
  <2>2. CASE i <= k
    <3>1. a[i] = i
      BY <1>2, <2>1, <2>2 DEF a
    <3> QED
      BY <1>4, <2>1, <2>2, <3>1
  <2>3. CASE ~(i <= k)
    <3>1. i - k \in 1 .. n
      BY <2>1, <2>3
    <3>2. z[i - k] = i
      BY <1>1, <2>1, <3>1 DEF z
    <3> QED
      BY <1>4, <2>1, <2>3, <3>2
  <2> QED
    BY <2>2, <2>3
<1>6. a \o z = t
  BY <1>3, <1>4, <1>5, SeqEqual DEF t
<1> QED
  BY <1>1, <1>6 DEF a, z, t

\* A buffer as the constructor makes it.
LEMMA NewFacts ==
  ASSUME NEW Byte, NEW size \in Nat
  PROVE  /\ New(size) \in Buffers(Byte) /\ WellFormed(New(size))
         /\ pending(New(size)) = 0 /\ Unread(New(size)) = <<>>
<1>1. <<>> \in Seq(Byte) /\ Len(<<>>) = 0
  BY EmptySeq
<1>2. New(size) = [mem |-> <<>>, r |-> 0, size |-> size]
  BY DEF New
<1>3. New(size) \in Buffers(Byte) /\ WellFormed(New(size)) /\ pending(New(size)) = 0
  BY <1>1, <1>2 DEF Buffers, WellFormed, pending
<1>4. Unread(New(size)) = SubSeq(<<>>, 0 + 1, 0)
  BY <1>1, <1>2 DEF Unread
<1> QED
  BY <1>3, <1>4, SubSeqEmpty

-----------------------------------------------------------------------------
(* The inductive invariant.  Closed is why a link that was destroyed stays  *)
(* so; Deaf is why one that never wrote handles no event.                   *)

Closed == sock = "closed" => ~active /\ pc \in {"onDispose", "idle"}

Deaf ==
  given = 0 =>
    /\ in = New(InitialSize) /\ out = New(InitialSize)
    /\ events = {} /\ pc \in {"new", "idle"}
    /\ state \in {"OK", "DISCONNECT"} /\ disposals = 0

IInv == TypeOK /\ SentInOrder /\ ReceivedInOrder /\ Closed /\ Deaf

\* The link as its constructor and init leave it, on a fresh connection.
LEMMA InitIInv == Init => IInv
<1> SUFFICES ASSUME Init PROVE IInv
  OBVIOUS
<1> USE StreamLinkAssumption
<1>1. /\ InitialSize \in Nat /\ MaxSent \in Nat /\ MaxWritten \in Nat
      /\ in = New(InitialSize) /\ out = New(InitialSize)
      /\ wire = <<>> /\ net = <<>> /\ taken = <<>> /\ sent = 0 /\ given = 0
  BY DEF Init
<1>2. /\ in \in Buffers(1 .. MaxSent) /\ WellFormed(in) /\ Unread(in) = <<>>
      /\ out \in Buffers(1 .. MaxWritten) /\ WellFormed(out) /\ Unread(out) = <<>>
  BY <1>1, NewFacts
<1>3. Len(<<>>) = 0 /\ <<>> \in Seq(1 .. MaxSent) /\ <<>> \in Seq(1 .. MaxWritten)
  BY EmptySeq
<1>4. <<>> \o <<>> = <<>> /\ Numbers(0, 0) = <<>>
  <2>1. Numbers(0, 0) \in Seq(1 .. MaxSent) /\ Len(Numbers(0, 0)) = 0
    BY <1>1, NumbersFacts
  <2>2. Numbers(0, 0) = <<>>
    BY <2>1, EmptySeq
  <2> QED
    BY <1>3, <2>2, ConcatEmptySeq
<1>5. TypeOK
  <2>1. drained \in 0 .. Len(wire) /\ sent \in 0 .. MaxSent /\ given \in 0 .. MaxWritten
    BY <1>1, <1>3 DEF Init
  <2>2. net \in Seq(1 .. MaxSent) /\ taken \in Seq(1 .. MaxSent) /\ wire \in Seq(1 .. MaxWritten)
    BY <1>1, <1>3
  <2> QED
    BY <1>2, <2>1, <2>2 DEF TypeOK, Init, States, Callbacks
<1>6. SentInOrder /\ ReceivedInOrder
  BY <1>1, <1>2, <1>4 DEF SentInOrder, ReceivedInOrder
<1>7. Closed /\ Deaf
  BY DEF Closed, Deaf, Init
<1> QED
  BY <1>5, <1>6, <1>7 DEF IInv

\* What both ends of a stream are made of has its type.
LEMMA StreamTypes ==
  ASSUME TypeOK
  PROVE  /\ MaxSent \in Nat /\ MaxWritten \in Nat /\ InitialSize \in Nat
         /\ in.mem \in Seq(1 .. MaxSent) /\ Unread(in) \in Seq(1 .. MaxSent)
         /\ Unread(out) \in Seq(1 .. MaxWritten)
         /\ pending(in) \in Nat /\ pending(out) \in Nat
         /\ Len(Unread(in)) = pending(in) /\ Len(Unread(out)) = pending(out)
         /\ Len(net) \in Nat /\ Len(wire) \in Nat /\ sent \in Nat /\ given \in Nat
<1> USE StreamLinkAssumption
<1>1. /\ in \in Buffers(1 .. MaxSent) /\ WellFormed(in)
      /\ out \in Buffers(1 .. MaxWritten) /\ WellFormed(out)
      /\ net \in Seq(1 .. MaxSent) /\ wire \in Seq(1 .. MaxWritten)
      /\ sent \in 0 .. MaxSent /\ given \in 0 .. MaxWritten
  BY DEF TypeOK
<1> QED
  BY <1>1, UnreadType, LenProperties

\* Every step of the loop, of the application and of the peer keeps the invariant.
LEMMA NextIInv == IInv /\ [Next]_vars => IInv'
<1> SUFFICES ASSUME IInv, [Next]_vars PROVE IInv'
  OBVIOUS
<1> USE DEF IInv, States, Callbacks
<1>1. TypeOK /\ SentInOrder /\ ReceivedInOrder /\ Closed /\ Deaf
  OBVIOUS
<1>2. /\ MaxSent \in Nat /\ MaxWritten \in Nat /\ InitialSize \in Nat
      /\ Unread(in) \in Seq(1 .. MaxSent) /\ Unread(out) \in Seq(1 .. MaxWritten)
      /\ pending(in) \in Nat /\ pending(out) \in Nat
      /\ Len(Unread(in)) = pending(in) /\ Len(Unread(out)) = pending(out)
      /\ Len(net) \in Nat /\ Len(wire) \in Nat /\ sent \in Nat /\ given \in Nat
  BY <1>1, StreamTypes
<1>3. /\ in \in Buffers(1 .. MaxSent) /\ WellFormed(in)
      /\ out \in Buffers(1 .. MaxWritten) /\ WellFormed(out)
      /\ net \in Seq(1 .. MaxSent) /\ wire \in Seq(1 .. MaxWritten)
      /\ taken \in Seq(1 .. MaxSent)
      /\ sent \in 0 .. MaxSent /\ given \in 0 .. MaxWritten /\ drained \in 0 .. Len(wire)
  BY <1>1 DEF TypeOK
<1>4. pending(New(InitialSize)) = 0
  BY <1>2, NewFacts
<1>5. CASE PeerSend
  <2>1. /\ net' = Append(net, sent + 1) /\ sent' = sent + 1 /\ sent < MaxSent
        /\ UNCHANGED <<link, pc, blocking, peer, wire, drained, given, taken, disposals>>
    BY <1>5 DEF PeerSend
  <2>2. sent + 1 \in 1 .. MaxSent
    BY <1>2, <2>1
  <2>3. /\ <<sent + 1>> \in Seq(1 .. MaxSent) /\ net \o <<sent + 1>> = net'
        /\ Numbers(0, sent) \o <<sent + 1>> = Numbers(0, sent + 1)
    <3>1. sent \in Nat /\ 1 \in Nat /\ MaxSent \in Nat /\ sent + 1 <= MaxSent
      BY <1>2, <2>1
    <3>2. Numbers(sent, 1) = <<sent + 1>>
      BY DEF Numbers
    <3>3. Numbers(0, sent) \o Numbers(sent, 1) = Numbers(0, sent + 1)
      BY <3>1, NumbersFacts
    <3>4. <<sent + 1>> \in Seq(1 .. MaxSent)
      BY <2>2
    <3>5. net \o <<sent + 1>> = net'
      BY <1>3, <2>1, <2>2, AppendIsConcat
    <3> QED
      BY <3>2, <3>3, <3>4, <3>5
  <2>4. TypeOK'
    BY <1>1, <1>3, <2>1, <2>2, AppendProperties DEF TypeOK, link
  <2>5. ReceivedInOrder'
    <3>1. taken \o Unread(in) \in Seq(1 .. MaxSent)
      BY <1>2, <1>3, ConcatProperties
    <3> DEFINE t == taken \o Unread(in)
               e == <<sent + 1>>
    <3>2. t \in Seq(1 .. MaxSent) /\ net \in Seq(1 .. MaxSent) /\ e \in Seq(1 .. MaxSent)
      BY <1>3, <2>3, <3>1
    <3> HIDE DEF t, e
    <3>3. (t \o net) \o e = t \o (net \o e)
      BY <3>2, ConcatAssociative
    <3> QED
      BY <1>1, <2>1, <2>3, <3>3 DEF ReceivedInOrder, link, t, e
  <2>6. SentInOrder' /\ Closed' /\ Deaf'
    BY <1>1, <2>1 DEF SentInOrder, Closed, Deaf, link
  <2> QED
    BY <2>4, <2>5, <2>6
<1>6. CASE PeerRead
  <2> USE <1>6 DEF PeerRead, link
  <2>1. TypeOK'
    BY <1>1, <1>2 DEF TypeOK
  <2>2. SentInOrder' /\ ReceivedInOrder' /\ Closed' /\ Deaf'
    BY <1>1 DEF SentInOrder, ReceivedInOrder, Closed, Deaf
  <2> QED
    BY <2>1, <2>2
<1>7. CASE PeerCloses
  <2> USE <1>7 DEF PeerCloses, link
  <2>1. TypeOK'
    BY <1>1 DEF TypeOK
  <2>2. SentInOrder' /\ ReceivedInOrder' /\ Closed' /\ Deaf'
    BY <1>1 DEF SentInOrder, ReceivedInOrder, Closed, Deaf
  <2> QED
    BY <2>1, <2>2
<1>8. CASE Write
  <2>1. PICK n \in 1 .. MaxWritten - given :
            out' = append(out, Numbers(given, n)) /\ given' = given + n
    BY <1>8 DEF Write
  <2>2. UNCHANGED <<state, receiving, in, active, events, sock, pc, blocking, world, wire,
                    taken, disposals>>
    BY <1>8 DEF Write
  <2>3. /\ n \in Nat /\ given + n <= MaxWritten
        /\ given' \in 0 .. MaxWritten /\ given' # 0
    BY <1>2, <2>1
  <2> DEFINE s == Numbers(given, n)
  <2>4. s \in Seq(1 .. MaxWritten) /\ Numbers(0, given) \o s = Numbers(0, given')
    <3>1. s \in Seq(1 .. MaxWritten) /\ Numbers(0, given) \o s = Numbers(0, given + n)
      BY <1>2, <2>3, NumbersFacts
    <3> QED
      BY <2>1, <3>1
  <2> HIDE DEF s
  <2>5. /\ out' \in Buffers(1 .. MaxWritten) /\ WellFormed(out')
        /\ Unread(out') = Unread(out) \o s
    <3>1. out' = append(out, s)
      BY <2>1 DEF s
    <3> QED
      BY <1>3, <2>4, <3>1, UnreadOfAppend
  <2>6. TypeOK'
    BY <1>1, <2>2, <2>3, <2>5 DEF TypeOK, world
  <2>7. SentInOrder'
    <3> DEFINE u == Unread(out)
    <3>1. wire \in Seq(1 .. MaxWritten) /\ u \in Seq(1 .. MaxWritten) /\ s \in Seq(1 .. MaxWritten)
      BY <1>2, <1>3, <2>4
    <3> HIDE DEF u
    <3>2. (wire \o u) \o s = wire \o (u \o s)
      BY <3>1, ConcatAssociative
    <3> QED
      BY <1>1, <2>2, <2>4, <2>5, <3>2 DEF SentInOrder, u
  <2>8. ReceivedInOrder' /\ Closed' /\ Deaf'
    BY <1>1, <2>2, <2>3 DEF ReceivedInOrder, Closed, Deaf, world
  <2> QED
    BY <2>6, <2>7, <2>8
<1>9. CASE Advance
  <2>1. PICK n \in 1 .. pending(in) :
            in' = processed(in, n) /\ taken' = taken \o SubSeq(Unread(in), 1, n)
    BY <1>9 DEF Advance
  <2>2. UNCHANGED <<state, receiving, out, active, events, sock, pc, blocking, world, wire,
                    given, disposals>>
    BY <1>9 DEF Advance
  <2> DEFINE s == SubSeq(Unread(in), 1, n)
  <2>3. /\ in' \in Buffers(1 .. MaxSent) /\ WellFormed(in')
        /\ s \in Seq(1 .. MaxSent)
        /\ s \o Unread(in') = Unread(in)
    BY <1>3, <2>1, UnreadOfProcessed
  <2> HIDE DEF s
  <2>4. taken' = taken \o s /\ taken' \in Seq(1 .. MaxSent)
    <3>1. taken' = taken \o s
      BY <2>1 DEF s
    <3>2. taken \o s \in Seq(1 .. MaxSent)
      BY <1>3, <2>3, ConcatProperties
    <3> QED
      BY <3>1, <3>2
  <2>5. TypeOK'
    BY <1>1, <2>2, <2>3, <2>4 DEF TypeOK, world
  <2>6. ReceivedInOrder'
    <3> DEFINE u == Unread(in')
    <3>1. taken \in Seq(1 .. MaxSent) /\ s \in Seq(1 .. MaxSent) /\ u \in Seq(1 .. MaxSent)
      BY <1>3, <2>3, UnreadType
    <3> HIDE DEF u
    <3>2. (taken \o s) \o u = taken \o (s \o u)
      BY <3>1, ConcatAssociative
    <3> QED
      BY <1>1, <2>2, <2>3, <2>4, <3>2 DEF ReceivedInOrder, world, u
  <2>7. given # 0
    BY <1>1, <1>2, <1>4, <2>1 DEF Deaf
  <2>8. SentInOrder' /\ Closed' /\ Deaf'
    BY <1>1, <2>2, <2>7 DEF SentInOrder, Closed, Deaf, world
  <2> QED
    BY <2>5, <2>6, <2>8
<1>10. CASE SetReceiving
  <2> USE <1>10 DEF SetReceiving, world
  <2>1. TypeOK'
    BY <1>1 DEF TypeOK
  <2>2. SentInOrder' /\ ReceivedInOrder' /\ Closed' /\ Deaf'
    BY <1>1 DEF SentInOrder, ReceivedInOrder, Closed, Deaf
  <2> QED
    BY <2>1, <2>2
<1>11. CASE MakeDisconnect
  <2> USE <1>11 DEF MakeDisconnect, world
  <2>1. TypeOK'
    BY <1>1 DEF TypeOK
  <2>2. SentInOrder' /\ ReceivedInOrder' /\ Closed' /\ Deaf'
    BY <1>1 DEF SentInOrder, ReceivedInOrder, Closed, Deaf
  <2> QED
    BY <2>1, <2>2
<1>12. CASE Start
  <2> USE <1>12 DEF Start, world
  <2>1. Wanted \subseteq {"READ", "WRITE"} /\ (pending(out) = 0 => Wanted = {})
    BY DEF Wanted
  <2>2. TypeOK'
    BY <1>1, <2>1 DEF TypeOK
  <2>3. SentInOrder' /\ ReceivedInOrder' /\ Closed'
    BY <1>1 DEF SentInOrder, ReceivedInOrder, Closed
  <2>4. Deaf'
    BY <1>1, <1>4, <2>1 DEF Deaf
  <2> QED
    BY <2>2, <2>3, <2>4
<1>13. CASE Event
  <2> USE <1>13 DEF Event, world, link
  <2>1. TypeOK'
    BY <1>1 DEF TypeOK
  <2>2. SentInOrder' /\ ReceivedInOrder' /\ Closed' /\ Deaf'
    BY <1>1 DEF SentInOrder, ReceivedInOrder, Closed, Deaf
  <2> QED
    BY <2>1, <2>2
<1>14. CASE Receive
  <2>1. PICK n \in 1 .. Len(net) :
            /\ net' = SubSeq(net, n + 1, Len(net))
            /\ IF n <= writable(in)
                 THEN in' = written(in, SubSeq(net, 1, n)) /\ Received(in')
                 ELSE UNCHANGED in /\ pc' = "undefined"
    BY <1>14 DEF Receive
  <2>2. /\ UNCHANGED <<state, receiving, out, active, events, sock, blocking, peer, sent,
                       wire, drained, given, taken, disposals>>
        /\ pc = "receive"
    BY <1>14 DEF Receive
  <2>3. pc' \in {"onRead", "send", "undefined"}
    BY <2>1 DEF Received
  <2> DEFINE s == SubSeq(net, 1, n)
  <2>4. /\ s \in Seq(1 .. MaxSent) /\ Len(s) = n
        /\ net' \in Seq(1 .. MaxSent) /\ s \o net' = net
    <3>1. n \in 0 .. Len(net)
      BY <1>2
    <3> QED
      BY <1>3, <2>1, <3>1, Cut
  <2> HIDE DEF s
  <2>5. /\ in' \in Buffers(1 .. MaxSent) /\ WellFormed(in')
        /\ pc' # "undefined" => Unread(in') = Unread(in) \o s
    <3>1. CASE n <= writable(in)
      <4>1. in' = written(in, s)
        BY <2>1, <3>1 DEF s
      <4>2. /\ written(in, s) = [mem |-> in.mem \o s, r |-> in.r, size |-> in.size]
            /\ written(in, s) \in Buffers(1 .. MaxSent)
            /\ Len(in.mem \o s) = Len(in.mem) + Len(s)
            /\ Unread(written(in, s)) = Unread(in) \o s
        BY <1>3, <2>4, UnreadOfWritten
      <4>3. in.r \in 0 .. Len(in.mem) /\ Len(in.mem) \in Nat /\ in.size \in Nat
        BY <1>3, UnreadType
      <4>4. in.r <= Len(in.mem) + Len(s) /\ Len(in.mem) + Len(s) <= in.size
        BY <2>4, <3>1, <4>3 DEF writable
      <4>5. WellFormed(written(in, s))
        BY <4>2, <4>4 DEF WellFormed
      <4> QED
        BY <4>1, <4>2, <4>5
    <3>2. CASE ~(n <= writable(in))
      BY <1>3, <2>1, <3>2
    <3> QED
      BY <3>1, <3>2
  <2>6. TypeOK'
    BY <1>1, <2>2, <2>3, <2>4, <2>5 DEF TypeOK
  <2>7. ReceivedInOrder'
    <3> SUFFICES ASSUME pc' # "undefined"
                 PROVE  (taken' \o Unread(in')) \o net' = Numbers(0, sent')
      BY DEF ReceivedInOrder
    <3> DEFINE u == Unread(in)
               w == net'
    <3>1. /\ taken \in Seq(1 .. MaxSent) /\ u \in Seq(1 .. MaxSent)
          /\ s \in Seq(1 .. MaxSent) /\ w \in Seq(1 .. MaxSent)
      BY <1>2, <1>3, <2>4
    <3>2. (taken \o u) \o (s \o w) = Numbers(0, sent)
      BY <1>1, <2>2, <2>4 DEF ReceivedInOrder
    <3>3. Unread(in') = u \o s
      BY <2>5
    <3> HIDE DEF u, w
    <3>4. (taken \o u) \o s = taken \o (u \o s)
      BY <3>1, ConcatAssociative
    <3> DEFINE t == taken \o u
    <3>5. t \in Seq(1 .. MaxSent) /\ s \in Seq(1 .. MaxSent) /\ w \in Seq(1 .. MaxSent)
      BY <3>1, ConcatProperties
    <3> HIDE DEF t
    <3>6. (t \o s) \o w = t \o (s \o w)
      BY <3>5, ConcatAssociative
    <3> QED
      BY <2>2, <3>2, <3>3, <3>4, <3>6 DEF t, w
  <2>8. SentInOrder' /\ Closed' /\ Deaf'
    BY <1>1, <2>2, <2>3 DEF SentInOrder, Closed, Deaf
  <2> QED
    BY <2>6, <2>7, <2>8
<1>15. CASE ReceiveNothing
  <2> USE <1>15 DEF ReceiveNothing, Received, world
  <2>1. TypeOK'
    BY <1>1 DEF TypeOK
  <2>2. SentInOrder' /\ ReceivedInOrder' /\ Closed' /\ Deaf'
    BY <1>1 DEF SentInOrder, ReceivedInOrder, Closed, Deaf
  <2> QED
    BY <2>1, <2>2
<1>16. CASE ReadReturns
  <2>1. /\ in' = IF pending(in) = 0 THEN reset(in) ELSE in
        /\ pc = "onRead" /\ pc' = "send"
        /\ UNCHANGED <<state, receiving, out, active, events, sock, blocking, world, wire,
                       given, taken, disposals>>
    BY <1>16 DEF ReadReturns
  <2>2. in' \in Buffers(1 .. MaxSent) /\ WellFormed(in') /\ Unread(in') = Unread(in)
    BY <1>3, <2>1, UnreadOfEmpty
  <2>3. TypeOK'
    BY <1>1, <2>1, <2>2 DEF TypeOK, world
  <2>4. SentInOrder' /\ ReceivedInOrder' /\ Closed' /\ Deaf'
    BY <1>1, <2>1, <2>2 DEF SentInOrder, ReceivedInOrder, Closed, Deaf, world
  <2> QED
    BY <2>3, <2>4
<1>17. CASE Send
  <2>1. PICK n \in 1 .. pending(out) :
            /\ wire' = wire \o SubSeq(Unread(out), 1, n)
            /\ out' = IF pending(out) = n THEN reset(out) ELSE processed(out, n)
            /\ pc' = IF pending(out) = n THEN "onWriteCompleted" ELSE "prepare"
    BY <1>17 DEF Send
  <2>2. /\ UNCHANGED <<state, receiving, in, active, events, sock, blocking, world, given,
                       taken, disposals>>
        /\ pc = "send"
    BY <1>17 DEF Send
  <2> DEFINE s == SubSeq(Unread(out), 1, n)
  <2>3. /\ s \in Seq(1 .. MaxWritten)
        /\ out' \in Buffers(1 .. MaxWritten) /\ WellFormed(out')
        /\ s \o Unread(out') = Unread(out)
    <3>1. /\ s \in Seq(1 .. MaxWritten) /\ s \o Unread(processed(out, n)) = Unread(out)
          /\ processed(out, n) \in Buffers(1 .. MaxWritten) /\ WellFormed(processed(out, n))
          /\ pending(processed(out, n)) = pending(out) - n
      BY <1>3, UnreadOfProcessed
    <3> HIDE DEF s
    <3>2. CASE pending(out) = n
      <4>1. Unread(processed(out, n)) = <<>>
        <5> DEFINE d == processed(out, n)
        <5>1. d \in Buffers(1 .. MaxWritten) /\ WellFormed(d) /\ pending(d) = 0
          BY <1>2, <3>1, <3>2
        <5> HIDE DEF d
        <5>2. Unread(d) = <<>>
          BY <5>1, UnreadOfEmpty
        <5> QED
          BY <5>2 DEF d
      <4>2. Unread(reset(out)) = <<>> /\ reset(out) \in Buffers(1 .. MaxWritten) /\ WellFormed(reset(out))
        BY <1>3, UnreadOfEmpty
      <4> QED
        BY <2>1, <3>1, <3>2, <4>1, <4>2
    <3>3. CASE pending(out) # n
      BY <2>1, <3>1, <3>3
    <3> QED
      BY <3>2, <3>3
  <2> HIDE DEF s
  <2>4. wire' = wire \o s
    BY <2>1 DEF s
  <2>5. wire' \in Seq(1 .. MaxWritten) /\ drained' \in 0 .. Len(wire')
    <3>1. wire \o s \in Seq(1 .. MaxWritten) /\ Len(wire \o s) = Len(wire) + Len(s) /\ Len(s) \in Nat
      BY <1>3, <2>3, ConcatProperties, LenProperties
    <3> QED
      BY <1>2, <1>3, <2>2, <2>4, <3>1 DEF world
  <2>6. TypeOK'
    BY <1>1, <2>1, <2>2, <2>3, <2>5 DEF TypeOK, world
  <2>7. SentInOrder'
    <3> DEFINE u == Unread(out')
    <3>1. wire \in Seq(1 .. MaxWritten) /\ s \in Seq(1 .. MaxWritten) /\ u \in Seq(1 .. MaxWritten)
      BY <1>3, <2>3, UnreadType
    <3>2. s \o u = Unread(out)
      BY <2>3
    <3> HIDE DEF u
    <3>3. (wire \o s) \o u = wire \o (s \o u)
      BY <3>1, ConcatAssociative
    <3> QED
      BY <1>1, <2>2, <2>4, <3>2, <3>3 DEF SentInOrder, u
  <2>8. ReceivedInOrder' /\ Closed' /\ Deaf'
    BY <1>1, <2>1, <2>2 DEF ReceivedInOrder, Closed, Deaf, world
  <2> QED
    BY <2>6, <2>7, <2>8
<1>18. CASE SendFails
  <2>1. /\ UNCHANGED <<receiving, in, active, events, sock, blocking, world, wire, given,
                       taken, disposals>>
        /\ pc = "send" /\ pc' \in {"onWriteCompleted", "prepare", "undefined"}
        /\ state' \in {state, "WRITE_ERROR"}
        /\ out' \in {out, reset(out)} /\ (out' # out => pending(out) = 0)
    BY <1>18 DEF SendFails
  <2>2. out' \in Buffers(1 .. MaxWritten) /\ WellFormed(out') /\ Unread(out') = Unread(out)
    <3>1. CASE out' = out
      BY <1>3, <3>1
    <3>2. CASE out' # out
      BY <1>3, <2>1, <3>2, UnreadOfEmpty
    <3> QED
      BY <3>1, <3>2
  <2>3. TypeOK'
    BY <1>1, <2>1, <2>2 DEF TypeOK, world
  <2>4. SentInOrder' /\ ReceivedInOrder' /\ Closed' /\ Deaf'
    BY <1>1, <2>1, <2>2 DEF SentInOrder, ReceivedInOrder, Closed, Deaf, world
  <2> QED
    BY <2>3, <2>4
<1>19. CASE SendNothing
  <2> USE <1>19 DEF SendNothing, world, link
  <2>1. TypeOK'
    BY <1>1 DEF TypeOK
  <2>2. SentInOrder' /\ ReceivedInOrder' /\ Closed' /\ Deaf'
    BY <1>1 DEF SentInOrder, ReceivedInOrder, Closed, Deaf
  <2> QED
    BY <2>1, <2>2
<1>20. CASE WriteReturns
  <2> USE <1>20 DEF WriteReturns, world, link
  <2>1. TypeOK'
    BY <1>1 DEF TypeOK
  <2>2. SentInOrder' /\ ReceivedInOrder' /\ Closed' /\ Deaf'
    BY <1>1 DEF SentInOrder, ReceivedInOrder, Closed, Deaf
  <2> QED
    BY <2>1, <2>2
<1>21. CASE Rearm
  <2> USE <1>21 DEF Rearm, world
  <2>1. Wanted \subseteq {"READ", "WRITE"}
    BY DEF Wanted
  <2>2. TypeOK'
    BY <1>1, <2>1 DEF TypeOK
  <2>3. SentInOrder' /\ ReceivedInOrder' /\ Closed' /\ Deaf'
    BY <1>1 DEF SentInOrder, ReceivedInOrder, Closed, Deaf
  <2> QED
    BY <2>2, <2>3
<1>22. CASE Dispose
  <2> USE <1>22 DEF Dispose, world
  <2>1. TypeOK'
    <3>1. disposals' \in Nat
      BY <1>1 DEF TypeOK
    <3> QED
      BY <1>1, <3>1 DEF TypeOK, Broken
  <2>2. SentInOrder' /\ ReceivedInOrder' /\ Closed' /\ Deaf'
    BY <1>1 DEF SentInOrder, ReceivedInOrder, Closed, Deaf
  <2> QED
    BY <2>1, <2>2
<1>23. CASE DisposeReturns
  <2> USE <1>23 DEF DisposeReturns, world, link
  <2>1. TypeOK'
    BY <1>1 DEF TypeOK
  <2>2. SentInOrder' /\ ReceivedInOrder' /\ Closed' /\ Deaf'
    BY <1>1 DEF SentInOrder, ReceivedInOrder, Closed, Deaf
  <2> QED
    BY <2>1, <2>2
<1>24. CASE UNCHANGED vars
  <2> USE <1>24 DEF vars, world, link
  <2>1. TypeOK'
    BY <1>1 DEF TypeOK
  <2>2. SentInOrder' /\ ReceivedInOrder' /\ Closed' /\ Deaf'
    BY <1>1 DEF SentInOrder, ReceivedInOrder, Closed, Deaf
  <2> QED
    BY <2>1, <2>2
<1> QED
  BY <1>5, <1>6, <1>7, <1>8, <1>9, <1>10, <1>11, <1>12, <1>13, <1>14, <1>15, <1>16, <1>17,
     <1>18, <1>19, <1>20, <1>21, <1>22, <1>23, <1>24 DEF Next, Application, Environment, OnEvent

\* The invariant holds of every reachable state, whatever the sizes.
THEOREM Invariant == Spec => []IInv
BY InitIInv, NextIInv, PTL DEF Spec

-----------------------------------------------------------------------------
(* The properties *)

(* The values have their types; in particular what bufferedRecv and append  *)
(* leave in a buffer lies in its memory, its read position included.        *)
THEOREM TypeCorrect == Spec => []TypeOK
<1>1. IInv => TypeOK
  BY DEF IInv
<1> QED
  BY <1>1, Invariant, PTL

(* What onRead's application takes is what the peer sent, in order and       *)
(* without a gap, up to a read that overruns the buffer.                    *)
THEOREM ReceivedStream == Spec => []ReceivedInOrder
<1>1. IInv => ReceivedInOrder
  BY DEF IInv
<1> QED
  BY <1>1, Invariant, PTL

(* What processWrite gives to the socket and what it still holds is what     *)
(* was written, in order and without a gap.                                 *)
THEOREM SentStream == Spec => []SentInOrder
<1>1. IInv => SentInOrder
  BY DEF IInv
<1> QED
  BY <1>1, Invariant, PTL

(* A link on which nothing was written handles no event: prepareEvents never *)
(* arms EV_READ.                                                            *)
THEOREM DeafLink == Spec => []DeafUntilItWrites
<1>1. IInv => DeafUntilItWrites
  BY DEF IInv, Deaf, DeafUntilItWrites
<1> QED
  BY <1>1, Invariant, PTL

(* onWriteCompleted is called by processWrite when all that was written was  *)
(* sent: the lengths follow from SentInOrder, once nothing is pending.      *)
THEOREM CompletedWrite == Spec => CompletedIsComplete
<1>1. IInv /\ IInv' /\ [Next]_vars =>
        [pc' = "onWriteCompleted" /\ pc # "onWriteCompleted" => Len(wire') = given']_vars
  <2> SUFFICES ASSUME IInv, IInv', [Next]_vars, pc' = "onWriteCompleted", pc # "onWriteCompleted"
               PROVE  Len(wire') = given'
    OBVIOUS
  <2>1. TypeOK /\ TypeOK' /\ SentInOrder'
    BY DEF IInv
  <2>2. Send \/ SendFails
    BY DEF Next, Application, Environment, OnEvent, Write, Advance, SetReceiving, MakeDisconnect,
           PeerSend, PeerRead, PeerCloses, Start, Event, Receive, ReceiveNothing, Received,
           ReadReturns, SendNothing, WriteReturns, Rearm, Dispose, DisposeReturns, vars, link
  <2>3. out' = reset(out)
    BY <2>2 DEF Send, SendFails
  <2>4. Unread(out') = <<>>
    <3>1. out \in Buffers(1 .. MaxWritten) /\ WellFormed(out)
      BY <2>1 DEF TypeOK
    <3> QED
      BY <2>3, <3>1, UnreadOfEmpty
  <2>5. wire' \in Seq(1 .. MaxWritten) /\ given' \in Nat /\ given' <= MaxWritten /\ MaxWritten \in Nat
    BY <2>1, StreamLinkAssumption DEF TypeOK
  <2>6. wire' = Numbers(0, given')
    BY <2>1, <2>4, <2>5, ConcatEmptySeq DEF SentInOrder
  <2> QED
    BY <2>5, <2>6, NumbersFacts
<1>2. IInv /\ [Next]_vars => IInv'
  BY NextIInv
<1> QED
  BY <1>1, <1>2, Invariant, PTL DEF Spec, CompletedIsComplete

(* Once destroy has closed the socket, no event of the link is handled and   *)
(* onDispose is not called again: onEvent has stopped the watcher before.   *)
THEOREM ClosedLink == Spec => ClosedForGood
<1>1. IInv /\ [Next]_vars =>
        [sock = "closed" => UNCHANGED <<sock, wire, disposals>> /\ pc' # "receive"]_vars
  <2> SUFFICES ASSUME IInv, [Next]_vars, sock = "closed"
               PROVE  UNCHANGED <<sock, wire, disposals>> /\ pc' # "receive"
    OBVIOUS
  <2>1. ~active /\ pc \in {"onDispose", "idle"}
    BY DEF IInv, Closed
  <2>2. ~(Start \/ Event \/ Receive \/ ReceiveNothing \/ ReadReturns \/ Send \/ SendFails
            \/ SendNothing \/ WriteReturns \/ Rearm \/ Dispose)
    BY <2>1 DEF Start, Event, Receive, ReceiveNothing, ReadReturns, Send, SendFails, SendNothing,
                WriteReturns, Rearm, Dispose
  <2>3. Application \/ Environment \/ DisposeReturns \/ UNCHANGED vars
    BY <2>2 DEF Next, OnEvent
  <2> QED
    BY <2>1, <2>3 DEF Application, Environment, Write, Advance, SetReceiving, MakeDisconnect,
                      PeerSend, PeerRead, PeerCloses, DisposeReturns, vars, link, world
<1> QED
  BY <1>1, Invariant, PTL DEF Spec, ClosedForGood

=============================================================================
