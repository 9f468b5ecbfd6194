---------------------------- MODULE ToolboxProofs ----------------------------
(***************************************************************************)
(* The invariants of the helpers of libsensor, for a buffer of any         *)
(* capacity, any number of descriptors, of groups and of machines, and     *)
(* addresses of any width.  Those of CircularBuffer hold for any number of *)
(* bytes and any width of size_t that has room for the capacity.           *)
(***************************************************************************)
EXTENDS Toolbox, Sequences, FiniteSetTheorems, TLAPS

-----------------------------------------------------------------------------
(* The ring buffer: the inductive invariant                                *)

\* The index that is n bytes behind b, which flush may leave at the capacity.
Behind(b, n) == IF b + n < Capacity THEN b + n ELSE b + n - Capacity

RingType ==
  /\ begin \in 0 .. Capacity /\ end \in 0 .. Capacity - 1
  /\ memory \in [0 .. Capacity - 1 -> Nat]
  /\ content \in Seq(Nat) /\ added \in Nat /\ size \in Int
  /\ sound \in BOOLEAN

\* The content is in the memory, from begin on, and end is behind it.
Holds(b, e, mem, bytes) ==
  /\ Len(bytes) < Capacity
  /\ e = Behind(b, Len(bytes))
  /\ \A n \in 0 .. Len(bytes) - 1 : bytes[n + 1] = mem[Behind(b, n)]

RingInv == RingType /\ (sound => Holds(begin, end, memory, content))

-----------------------------------------------------------------------------
(* Facts about positions                                                   *)

(* What % does to a position that has passed the end once.                 *)
LEMMA ModFacts ==
  ASSUME NEW x \in Nat, x < 2 * Capacity
  PROVE  x % Capacity = IF x < Capacity THEN x ELSE x - Capacity
  <1>1. Capacity \in Nat \ {0}
    BY ToolboxAssumption
  <1>2. ASSUME NEW c \in Nat \ {0}, x < c PROVE x % c = x
    BY <1>2
  <1>3. ASSUME NEW c \in Nat \ {0}, x < 2 * c, x >= c PROVE x % c = x - c
    BY <1>3
  <1> QED
    BY <1>1, <1>2, <1>3

(* Positions behind an index are in the memory, apart, and add up.         *)
LEMMA BehindFacts ==
  ASSUME NEW b \in Nat, b <= Capacity, NEW m \in Nat, m < Capacity
  PROVE  /\ Behind(b, m) \in Nat /\ Behind(b, m) < Capacity
         /\ \A n \in Nat : n < Capacity /\ Behind(b, m) = Behind(b, n) => m = n
         /\ \A n \in Nat : m + n < Capacity => Behind(Behind(b, m), n) = Behind(b, m + n)
  BY ToolboxAssumption DEF Behind

(* Place, which goes by the other end of a range, is the position in it.   *)
LEMMA PlaceFacts ==
  ASSUME NEW from \in 0 .. Capacity, NEW to \in 0 .. Capacity, NEW n \in Nat,
         from < to => n < to - from
  PROVE  Ring!Place(from, to, n) = Behind(from, n)
  BY ToolboxAssumption DEF Ring!Place, Ring!cont_distance, Behind

(* The bytes of two sequences one after the other.                         *)
LEMMA ConcatFacts ==
  ASSUME NEW S, NEW s \in Seq(S), NEW r \in Seq(S)
  PROVE  /\ s \o r \in Seq(S) /\ Len(s \o r) = Len(s) + Len(r)
         /\ \A m \in 1 .. Len(s) : (s \o r)[m] = s[m]
         /\ \A m \in 1 .. Len(r) : (s \o r)[Len(s) + m] = r[m]
  OBVIOUS

(* The smaller of two numbers.                                             *)
LEMMA LesserFacts ==
  ASSUME NEW m \in Nat, NEW n \in Nat
  PROVE  /\ Ring!Lesser(m, n) \in Nat
         /\ Ring!Lesser(m, n) <= m /\ Ring!Lesser(m, n) <= n
  BY DEF Ring!Lesser

(* Where the sum of the ends does not pass the capacity, hasfilled is at   *)
(* most what is there.                                                     *)
LEMMA FilledFacts ==
  ASSUME RingInv, sound, ~Ring!WrapsAround(begin, end)
  PROVE  /\ Ring!hasfilled \in 0 .. Len(content)
         /\ begin < end => Ring!hasfilled = end - begin
  <1>1. /\ Capacity \in Nat \ {0} /\ Word \in Nat /\ Capacity < Word
        /\ begin \in 0 .. Capacity /\ end \in 0 .. Capacity - 1
        /\ Len(content) \in Nat /\ Len(content) < Capacity /\ end = Behind(begin, Len(content))
    BY ToolboxAssumption DEF RingInv, RingType, Holds
  <1>2. ASSUME NEW w \in Nat, NEW y \in Nat, y < w PROVE y % w = y
    BY <1>2
  <1>3. begin > end => Ring!distance(begin, end) = Capacity - (begin + end)
    <2>1. SUFFICES ASSUME begin > end PROVE Ring!distance(begin, end) = Capacity - (begin + end)
      OBVIOUS
    <2>2. Capacity - (begin + end) \in Nat /\ Capacity - (begin + end) < Word
      BY <1>1, <2>1 DEF Ring!WrapsAround
    <2>3. (Capacity - (begin + end)) % Word = Capacity - (begin + end)
      BY <1>1, <1>2, <2>2
    <2> QED
      BY <1>1, <2>1, <2>3 DEF Ring!distance
  <1>4. CASE begin < end
    <2>1. Ring!hasfilled = end - begin
      BY <1>1, <1>4 DEF Ring!hasfilled, Ring!distance
    <2>2. Len(content) = end - begin
      BY <1>1, <1>4 DEF Behind
    <2> QED
      BY <1>1, <1>4, <2>1, <2>2
  <1>5. CASE begin > end
    <2>1. Ring!hasfilled = Capacity - (begin + end)
      BY <1>1, <1>3, <1>5 DEF Ring!hasfilled
    <2>2. Len(content) = Capacity - begin + end /\ begin + end <= Capacity
      BY <1>1, <1>5 DEF Behind, Ring!WrapsAround
    <2> QED
      BY <1>1, <1>5, <2>1, <2>2
  <1>6. CASE begin = end
    <2>1. Ring!hasfilled = 0
      BY <1>6 DEF Ring!hasfilled
    <2> QED
      BY <1>1, <1>6, <2>1
  <1> QED
    BY <1>1, <1>4, <1>5, <1>6

(* And hasfree at most what is free.                                       *)
LEMMA FreeFacts ==
  ASSUME RingInv, sound, ~Ring!WrapsAround(end, begin)
  PROVE  /\ Ring!hasfree \in 0 .. Capacity - Len(content)
         /\ end < begin => Ring!hasfree = begin - end
  <1>1. /\ Capacity \in Nat \ {0} /\ Word \in Nat /\ Capacity < Word
        /\ begin \in 0 .. Capacity /\ end \in 0 .. Capacity - 1
        /\ Len(content) \in Nat /\ Len(content) < Capacity /\ end = Behind(begin, Len(content))
    BY ToolboxAssumption DEF RingInv, RingType, Holds
  <1>2. ASSUME NEW w \in Nat, NEW y \in Nat, y < w PROVE y % w = y
    BY <1>2
  <1>3. end > begin => Ring!distance(end, begin) = Capacity - (end + begin)
    <2>1. SUFFICES ASSUME end > begin PROVE Ring!distance(end, begin) = Capacity - (end + begin)
      OBVIOUS
    <2>2. Capacity - (end + begin) \in Nat /\ Capacity - (end + begin) < Word
      BY <1>1, <2>1 DEF Ring!WrapsAround
    <2>3. (Capacity - (end + begin)) % Word = Capacity - (end + begin)
      BY <1>1, <1>2, <2>2
    <2> QED
      BY <1>1, <2>1, <2>3 DEF Ring!distance
  <1>4. CASE end < begin
    <2>1. Ring!hasfree = begin - end
      BY <1>1, <1>4 DEF Ring!hasfree, Ring!distance
    <2>2. Len(content) = Capacity - begin + end
      BY <1>1, <1>4 DEF Behind
    <2> QED
      BY <1>1, <1>4, <2>1, <2>2
  <1>5. CASE end > begin
    <2>1. Ring!hasfree = Capacity - (end + begin)
      BY <1>1, <1>3, <1>5 DEF Ring!hasfree
    <2>2. Len(content) = end - begin /\ begin + end <= Capacity
      BY <1>1, <1>5 DEF Behind, Ring!WrapsAround
    <2> QED
      BY <1>1, <1>5, <2>1, <2>2
  <1>6. CASE begin = end
    <2>1. Ring!hasfree = Capacity
      BY <1>6 DEF Ring!hasfree
    <2>2. Len(content) = 0
      BY <1>1, <1>6 DEF Behind
    <2> QED
      BY <1>1, <1>6, <2>1, <2>2
  <1> QED
    BY <1>1, <1>4, <1>5, <1>6

(* What is left of the content without its first bytes.                    *)
LEMMA DroppedFacts ==
  ASSUME content \in Seq(Nat), NEW n \in Nat
  PROVE  /\ Ring!Dropped(n) \in Seq(Nat)
         /\ n <= Len(content) =>
              /\ Len(Ring!Dropped(n)) = Len(content) - n
              /\ \A m \in 1 .. Len(content) - n : Ring!Dropped(n)[m] = content[n + m]
  <1>1. Len(content) \in Nat
    OBVIOUS
  <1>2. Ring!Lesser(n, Len(content)) \in Nat
    BY <1>1, LesserFacts
  <1>3. ASSUME NEW j \in Nat
        PROVE  /\ SubSeq(content, j + 1, Len(content)) \in Seq(Nat)
               /\ j <= Len(content) =>
                    /\ Len(SubSeq(content, j + 1, Len(content))) = Len(content) - j
                    /\ \A m \in 1 .. Len(content) - j :
                         SubSeq(content, j + 1, Len(content))[m] = content[j + m]
    BY <1>1, <1>3
  <1>4. n <= Len(content) => Ring!Lesser(n, Len(content)) = n
    BY <1>1 DEF Ring!Lesser
  <1> QED
    BY <1>2, <1>3, <1>4 DEF Ring!Dropped

-----------------------------------------------------------------------------
(* The ring buffer: each call                                              *)

(* add writes what it is given behind the content, and nothing over it.    *)
LEMMA AddStep ==
  ASSUME RingInv, NEW sz \in 1 .. Capacity, Ring!add(sz)
  PROVE  RingInv'
  <1> DEFINE L == Len(content)
             n == Ring!Lesser(sz, Ring!hasfree)
             New == [k \in 1 .. n |-> added + k]
             at(k) == Ring!Place(end, begin, k - 1)
  <1>1. /\ Capacity \in Nat \ {0} /\ begin \in Nat /\ begin <= Capacity
        /\ end \in Nat /\ end < Capacity
        /\ memory \in [0 .. Capacity - 1 -> Nat] /\ content \in Seq(Nat) /\ added \in Nat
        /\ size \in Int /\ L \in Nat
    BY ToolboxAssumption DEF RingInv, RingType
  <1>2. /\ L < Capacity /\ end = Behind(begin, L)
        /\ \A m \in 0 .. L - 1 : content[m + 1] = memory[Behind(begin, m)]
    BY DEF RingInv, Holds, Ring!add
  <1>15. /\ Capacity \in Nat /\ begin \in Nat /\ begin <= Capacity /\ L \in Nat
         /\ end \in Nat /\ end < Capacity /\ Capacity > 0
    BY <1>1
  <1>3. Ring!hasfree \in 0 .. Capacity - L /\ (end < begin => Ring!hasfree = begin - end)
    BY FreeFacts DEF Ring!add
  <1>4. n \in Nat /\ n <= Capacity - L /\ (end < begin => n <= begin - end)
    <2>1. sz \in Nat /\ Ring!hasfree \in Nat
      BY <1>1, <1>3
    <2>2. n \in Nat /\ n <= Ring!hasfree
      BY <2>1, LesserFacts
    <2> QED
      BY <1>1, <1>3, <2>2
  <1> HIDE DEF n
  <1>5. ASSUME NEW k \in 1 .. n PROVE at(k) = Behind(end, k - 1)
    <2>1. k - 1 \in Nat /\ (end < begin => k - 1 < begin - end)
          /\ end \in 0 .. Capacity /\ begin \in 0 .. Capacity
      BY <1>1, <1>4
    <2> QED
      BY <1>1, <2>1, PlaceFacts
  <1> HIDE DEF at
  <1>6. memory' = [p \in 0 .. Capacity - 1 |->
             IF \E k \in 1 .. n : p = at(k) THEN added + CHOOSE k \in 1 .. n : p = at(k)
                                          ELSE memory[p]]
    BY DEF Ring!add, n, at
  <1>13. /\ size' = size + n /\ content' = content \o New /\ added' = added + n
         /\ sound' = (Len(content') < Capacity) /\ begin' = begin
    BY DEF Ring!add, n
  <1>14. end' = (end + n) % Capacity
    BY DEF Ring!add, n
  <1>7. /\ New \in Seq(Nat) /\ Len(New) = n /\ \A k \in 1 .. n : New[k] = added + k
    BY <1>1, <1>4
  <1> HIDE DEF New
  <1>8. /\ content' \in Seq(Nat) /\ Len(content') = L + n
        /\ \A m \in 1 .. L : content'[m] = content[m]
        /\ \A k \in 1 .. n : content'[L + k] = New[k]
    <2>1. content \in Seq(Nat) /\ New \in Seq(Nat)
      BY <1>1, <1>7
    <2>2. /\ content \o New \in Seq(Nat) /\ Len(content \o New) = Len(content) + Len(New)
          /\ \A m \in 1 .. Len(content) : (content \o New)[m] = content[m]
          /\ \A m \in 1 .. Len(New) : (content \o New)[Len(content) + m] = New[m]
      BY ONLY <2>1, ConcatFacts
    <2> QED
      BY <1>7, <1>13, <2>2
  <1>9. end' = Behind(end, n) /\ end' \in 0 .. Capacity - 1
    <2>1. end + n \in Nat /\ end + n < 2 * Capacity
      BY <1>1, <1>4
    <2>2. end' = IF end + n < Capacity THEN end + n ELSE end + n - Capacity
      BY ONLY <1>4, <1>14, <1>15, <2>1, ModFacts
    <2> QED
      BY <1>1, <1>4, <2>1, <2>2 DEF Behind
  <1>10. memory' \in [0 .. Capacity - 1 -> Nat]
    <2>1. \A p : (\E k \in 1 .. n : p = at(k)) => (CHOOSE k \in 1 .. n : p = at(k)) \in 1 .. n
      OBVIOUS
    <2>2. \A k \in 1 .. n : added + k \in Nat
      BY <1>1, <1>4
    <2>3. ASSUME NEW p \in 0 .. Capacity - 1
          PROVE  (IF \E k \in 1 .. n : p = at(k) THEN added + CHOOSE k \in 1 .. n : p = at(k)
                                                 ELSE memory[p]) \in Nat
      BY <1>1, <2>1, <2>2
    <2> QED
      BY <1>6, <2>3
  <1>11. RingType'
    BY SMTT(30), <1>1, <1>4, <1>8, <1>9, <1>10, <1>13 DEF RingType
  <1>12. ASSUME sound' PROVE Holds(begin', end', memory', content')
    <2>1. L + n < Capacity
      BY <1>8, <1>12, <1>13
    <2>2. \A k \in 0 .. n : Behind(end, k) = Behind(begin, L + k)
      BY <1>1, <1>2, <1>4, <2>1, BehindFacts
    <2>3. ASSUME NEW m \in 0 .. L + n - 1
          PROVE  content'[m + 1] = memory'[Behind(begin, m)]
      <3>9. m \in Nat /\ m < Capacity
        BY <1>1, <1>4, <2>1
      <3>1. Behind(begin, m) \in 0 .. Capacity - 1
        <4>1. Behind(begin, m) \in Nat /\ Behind(begin, m) < Capacity
          BY ONLY <1>15, <3>9, BehindFacts
        <4> QED
          BY <1>15, <4>1
      <3>2. \A k \in 1 .. n : k - 1 \in 0 .. n /\ L + (k - 1) \in Nat /\ L + (k - 1) < Capacity
        BY <1>1, <1>4, <2>1
      <3>3. \A k \in 1 .. n : at(k) = Behind(begin, L + (k - 1))
        BY <1>5, <2>2, <3>2
      <3>4. ASSUME NEW k \in 1 .. n, Behind(begin, m) = at(k) PROVE m = L + (k - 1)
        <4>1. PICK j \in Nat : j = L + (k - 1)
          BY <3>2
        <4>2. j < Capacity /\ Behind(begin, m) = Behind(begin, j)
          BY <3>2, <3>3, <3>4, <4>1
        <4>3. m = j
          BY ONLY <1>15, <3>9, <4>2, BehindFacts
        <4> QED
          BY <4>1, <4>3
      <3>5. CASE m < L
        <4>1. ~ \E k \in 1 .. n : Behind(begin, m) = at(k)
          BY <1>1, <1>4, <3>4, <3>5
        <4>2. memory'[Behind(begin, m)] = memory[Behind(begin, m)]
          BY <1>6, <3>1, <4>1
        <4>3. m \in 0 .. L - 1 /\ m + 1 \in 1 .. L
          BY <1>1, <3>5
        <4> QED
          BY <1>2, <1>8, <4>2, <4>3
      <3>6. CASE m >= L
        <4> DEFINE k == m - L + 1
        <4>1. k \in 1 .. n /\ L + (k - 1) = m /\ L + k = m + 1
          BY <1>1, <1>4, <3>6
        <4>2. Behind(begin, m) = at(k)
          BY <3>3, <4>1
        <4>3. \A j \in 1 .. n : Behind(begin, m) = at(j) => j = k
          BY <1>1, <1>4, <3>4
        <4> HIDE DEF k
        <4>4. (CHOOSE j \in 1 .. n : Behind(begin, m) = at(j)) = k
          BY <4>1, <4>2, <4>3
        <4>5. memory'[Behind(begin, m)] = added + k
          BY <1>6, <3>1, <4>1, <4>2, <4>4
        <4> QED
          BY <1>7, <1>8, <4>1, <4>5
      <3> QED
        BY <1>1, <3>5, <3>6
    <2>4. end' = Behind(begin, L + n)
      BY <1>4, <1>9, <2>2
    <2> QED
      <3>1. Len(content') = L + n /\ begin' = begin
        BY <1>8, <1>13
      <3>2. Len(content') < Capacity /\ end' = Behind(begin', Len(content'))
        BY <2>1, <2>4, <3>1
      <3>3. ASSUME NEW m \in 0 .. Len(content') - 1
            PROVE  content'[m + 1] = memory'[Behind(begin', m)]
        <4>1. m \in 0 .. L + n - 1
          <5> HIDE DEF L
          <5> QED
            BY <1>1, <1>4, <3>1
        <4>2. content'[m + 1] = memory'[Behind(begin, m)]
          BY <2>3, <4>1
        <4> QED
          BY <3>1, <4>2
      <3> QED
        BY ONLY <3>2, <3>3 DEF Holds
  <1> QED
    BY <1>11, <1>12 DEF RingInv

(* Without its first bytes the content begins where they end.              *)
LEMMA DropStep ==
  ASSUME RingInv, sound, NEW n \in 0 .. Len(content)
  PROVE  Holds(Behind(begin, n), end, memory, Ring!Dropped(n))
  <1> DEFINE L == Len(content)
  <1>1. /\ Capacity \in Nat \ {0} /\ begin \in Nat /\ begin <= Capacity /\ L \in Nat
        /\ n \in Nat /\ n <= L /\ content \in Seq(Nat) /\ L < Capacity /\ end = Behind(begin, L)
        /\ \A m \in 0 .. L - 1 : content[m + 1] = memory[Behind(begin, m)]
    BY SMTT(30), ToolboxAssumption DEF RingInv, RingType, Holds
  <1>2. /\ Len(Ring!Dropped(n)) = L - n
        /\ \A m \in 1 .. L - n : Ring!Dropped(n)[m] = content[n + m]
    BY <1>1, DroppedFacts
  <1>3. ASSUME NEW m \in 0 .. L - n PROVE Behind(Behind(begin, n), m) = Behind(begin, n + m)
    <2>1. /\ Capacity \in Nat /\ begin \in Nat /\ begin <= Capacity
          /\ n \in Nat /\ n < Capacity /\ m \in Nat /\ n + m < Capacity
      BY <1>1
    <2> QED
      BY ONLY <2>1, BehindFacts
  <1>4. ASSUME NEW m \in 0 .. L - n - 1
        PROVE  Ring!Dropped(n)[m + 1] = memory[Behind(Behind(begin, n), m)]
    <2>1. m \in 0 .. L - n /\ m + 1 \in 1 .. L - n /\ n + m \in 0 .. L - 1
          /\ n + (m + 1) = (n + m) + 1
      BY <1>1
    <2> QED
      BY <1>1, <1>2, <1>3, <2>1
  <1>5. L - n \in 0 .. L - n /\ n + (L - n) = L /\ L - n < Capacity
    BY <1>1
  <1> QED
    BY <1>1, <1>2, <1>3, <1>4, <1>5 DEF Holds

(* get takes the oldest bytes.                                             *)
LEMMA GetStep ==
  ASSUME RingInv, NEW sz \in 1 .. Capacity, Ring!get(sz)
  PROVE  RingInv'
  <1> DEFINE L == Len(content)
             n == Ring!Lesser(sz, Ring!hasfilled)
  <1>1. /\ Capacity \in Nat \ {0} /\ begin \in Nat /\ begin <= Capacity
        /\ end \in Nat /\ end < Capacity /\ L \in Nat /\ L < Capacity
    BY SMTT(30), ToolboxAssumption DEF RingInv, RingType, Holds, Ring!get
  <1>2. Ring!hasfilled \in 0 .. L /\ (begin < end => Ring!hasfilled = end - begin)
    BY FilledFacts DEF Ring!get
  <1>3. n \in Nat /\ n <= L
    <2>1. sz \in Nat /\ Ring!hasfilled \in Nat /\ Ring!hasfilled <= L
      BY <1>1, <1>2
    <2>2. n \in Nat /\ n <= Ring!hasfilled
      BY ONLY <2>1, LesserFacts
    <2> QED
      BY <1>1, <2>1, <2>2
  <1>4. /\ begin' = (begin + n) % Capacity /\ size' = size - n
        /\ content' = Ring!Dropped(n)
        /\ UNCHANGED <<end, memory, added, sound>> /\ sound
    BY DEF Ring!get
  <1> HIDE DEF L, n
  <1>5. begin' = Behind(begin, n) /\ begin' \in 0 .. Capacity
    <2>1. begin + n \in Nat /\ begin + n < 2 * Capacity
      BY <1>1, <1>3
    <2>2. (begin + n) % Capacity = IF begin + n < Capacity THEN begin + n ELSE begin + n - Capacity
      BY ONLY <1>1, <1>3, <2>1, ModFacts
    <2> QED
      BY <1>1, <1>3, <1>4, <2>1, <2>2 DEF Behind
  <1>6. Holds(begin', end', memory', content')
    <2>1. n \in 0 .. Len(content)
      BY <1>1, <1>3 DEF L
    <2>2. Holds(Behind(begin, n), end, memory, Ring!Dropped(n))
      BY <1>4, <2>1, DropStep
    <2> QED
      BY <1>4, <1>5, <2>2
  <1>7. content' \in Seq(Nat)
    <2>1. content \in Seq(Nat)
      BY DEF RingInv, RingType
    <2> QED
      BY <1>3, <1>4, <2>1, DroppedFacts
  <1> QED
    BY <1>3, <1>4, <1>5, <1>6, <1>7 DEF RingInv, RingType

(* So does a flush that believes a size that is true.                      *)
LEMMA FlushStep ==
  ASSUME RingInv, NEW sz \in 0 .. Capacity, Ring!flush(sz)
  PROVE  RingInv'
  <1> DEFINE L == Len(content)
             cont == Ring!cont_distance(begin, end)
  <1>1. /\ Capacity \in Nat \ {0} /\ begin \in Nat /\ begin <= Capacity
        /\ end \in Nat /\ end < Capacity /\ L \in Nat /\ L < Capacity
        /\ content \in Seq(Nat) /\ sz \in Nat /\ sz <= Capacity /\ end = Behind(begin, L)
    BY ToolboxAssumption DEF RingInv, RingType, Holds, Ring!flush
  <1>2. UNCHANGED <<end, size, memory, added>>
    BY DEF Ring!flush
  <1>3. CASE sz = 0 \/ sz >= size
    <2>1. begin' = end /\ content' = <<>> /\ sound' = sound
      BY <1>3 DEF Ring!flush
    <2>2. content' \in Seq(Nat) /\ Len(content') = 0
      BY <2>1
    <2>3. Holds(begin', end', memory', content')
      BY <1>1, <1>2, <2>1, <2>2 DEF Holds, Behind
    <2> QED
      BY <1>1, <1>2, <2>1, <2>2, <2>3 DEF RingInv, RingType
  <1>4. CASE ~(sz = 0 \/ sz >= size)
    <2>1. /\ begin' = IF sz > cont THEN sz - cont ELSE begin + sz
          /\ content' = Ring!Dropped(sz) /\ sound' = (sz <= L) /\ sound
      BY <1>4 DEF Ring!flush
    <2>2. cont = IF begin < end THEN end - begin ELSE Capacity - begin
      BY DEF Ring!cont_distance
    <2> HIDE DEF cont, L
    <2>3. begin' \in 0 .. Capacity
      BY <1>1, <2>1, <2>2
    <2>4. content' \in Seq(Nat)
      BY <1>1, <2>1, DroppedFacts
    <2>5. ASSUME sz <= L PROVE Holds(begin', end', memory', content')
      <3>1. sz \in 0 .. Len(content)
        BY <1>1, <2>5 DEF L
      <3>2. Holds(Behind(begin, sz), end, memory, Ring!Dropped(sz))
        BY <2>1, <3>1, DropStep
      <3>3. CASE begin' = Behind(begin, sz)
        BY <1>2, <2>1, <3>2, <3>3
      <3>4. CASE begin' # Behind(begin, sz)
        <4>1. begin' = Capacity /\ Behind(begin, sz) = 0
          BY <1>1, <1>4, <2>1, <2>2, <2>5, <3>4 DEF Behind
        <4>2. \A m \in Nat : m < Capacity => Behind(Capacity, m) = Behind(0, m)
          BY <1>1 DEF Behind
        <4>3. PICK l \in Nat : l = Len(content')
          BY <2>4
        <4>4. /\ l < Capacity /\ end = Behind(0, l)
              /\ \A m \in 0 .. l - 1 : content'[m + 1] = memory[Behind(0, m)]
          BY <2>1, <3>2, <4>1, <4>3 DEF Holds
        <4>5. end = Behind(Capacity, l)
          BY <4>2, <4>4
        <4>6. ASSUME NEW m \in 0 .. l - 1 PROVE content'[m + 1] = memory[Behind(Capacity, m)]
          <5>1. m \in Nat /\ m < Capacity
            BY <1>1, <4>4
          <5> QED
            BY <4>2, <4>4, <5>1
        <4> QED
          BY <1>2, <4>1, <4>3, <4>4, <4>5, <4>6 DEF Holds
      <3> QED
        BY <3>3, <3>4
    <2>6. RingType'
      BY <1>2, <2>1, <2>3, <2>4 DEF RingInv, RingType
    <2> QED
      BY <2>1, <2>5, <2>6 DEF RingInv
  <1> QED
    BY <1>3, <1>4

(* A recv from the socket writes where nothing is.                         *)
LEMMA RecvStep ==
  ASSUME RingInv, Ring!recv
  PROVE  RingInv'
  <1> DEFINE L == Len(content)
  <1>1. /\ Capacity \in Nat \ {0} /\ begin \in Nat /\ begin <= Capacity
        /\ end \in Nat /\ end < Capacity /\ L \in Nat /\ L < Capacity
        /\ memory \in [0 .. Capacity - 1 -> Nat] /\ end = Behind(begin, L)
        /\ \A m \in 0 .. L - 1 : content[m + 1] = memory[Behind(begin, m)]
    BY SMTT(30), ToolboxAssumption DEF RingInv, RingType, Holds, Ring!recv
  <1>2. PICK n \in 1 .. Ring!cont_distance(end, begin) :
          memory' = [p \in 0 .. Capacity - 1 |->
                      IF p \in end .. end + n - 1 THEN 0 ELSE memory[p]]
    BY DEF Ring!recv
  <1>3. n \in Nat /\ n <= IF end < begin THEN begin - end ELSE Capacity - end
    BY <1>1, <1>2 DEF Ring!cont_distance
  <1>4. UNCHANGED <<begin, end, size, content, added, sound>>
    BY DEF Ring!recv
  <1>5. memory' \in [0 .. Capacity - 1 -> Nat]
    BY <1>1, <1>2
  <1> HIDE DEF L
  <1>6. ASSUME NEW m \in 0 .. L - 1 PROVE content[m + 1] = memory'[Behind(begin, m)]
    <2>1. Behind(begin, m) \in 0 .. Capacity - 1 /\ ~(Behind(begin, m) \in end .. end + n - 1)
      BY <1>1, <1>3 DEF Behind
    <2> QED
      BY <1>1, <1>2, <2>1
  <1>7. Holds(begin', end', memory', content')
    BY <1>1, <1>4, <1>6 DEF Holds, L
  <1> QED
    BY <1>4, <1>5, <1>7 DEF RingInv, RingType

(* Every call keeps the invariant of the buffer.                           *)
LEMMA RingStep ==
  ASSUME RingInv, Ring!Next \/ UNCHANGED ring
  PROVE  RingInv'
  <1>1. CASE Ring!Overstep
    BY <1>1 DEF RingInv, RingType, Ring!Overstep
  <1>2. CASE UNCHANGED ring
    BY <1>2 DEF RingInv, RingType, Holds, ring
  <1> QED
    BY <1>1, <1>2, AddStep, GetStep, FlushStep, RecvStep DEF Ring!Next

(* A sequence as long as a part of the content and equal to it.            *)
LEMMA PrefixFacts ==
  ASSUME content \in Seq(Nat), NEW n \in Nat, n <= Len(content), NEW s,
         s = [k \in 1 .. n |-> s[k]], \A k \in 1 .. n : s[k] = content[k]
  PROVE  Ring!IsPrefixOfContent(s)
  <1>1. Len(s) = n
    OBVIOUS
  <1> DEFINE r == SubSeq(content, 1, n)
  <1>2. r \in Seq(Nat) /\ Len(r) = n /\ \A k \in 1 .. n : r[k] = content[k]
    OBVIOUS
  <1> HIDE DEF r
  <1>3. r = [k \in 1 .. n |-> r[k]]
    BY <1>2
  <1>4. s = r
    BY <1>2, <1>3
  <1> QED
    BY <1>1, <1>4 DEF Ring!IsPrefixOfContent, r

(* What is read is the beginning of the content.                           *)
LEMMA ReadsFacts ==
  ASSUME RingInv
  PROVE  Ring!ReadsOldestFirst
  <1> DEFINE L == Len(content)
  <1>1. SUFFICES ASSUME sound
                 PROVE  /\ ~Ring!WrapsAround(begin, end) =>
                             \A sz \in 1 .. Capacity : Ring!IsPrefixOfContent(Ring!pick(sz))
                        /\ content # <<>> => Ring!IsPrefixOfContent(Ring!watch_in)
    BY DEF Ring!ReadsOldestFirst
  <1>2. /\ Capacity \in Nat \ {0} /\ begin \in Nat /\ begin <= Capacity
        /\ end \in Nat /\ end < Capacity /\ L \in Nat /\ L < Capacity
        /\ content \in Seq(Nat) /\ end = Behind(begin, L)
        /\ \A m \in 0 .. L - 1 : content[m + 1] = memory[Behind(begin, m)]
    BY SMTT(30), <1>1, ToolboxAssumption DEF RingInv, RingType, Holds
  <1>3. \A k \in 1 .. L : content[k] = memory[Behind(begin, k - 1)]
    <2>1. SUFFICES ASSUME NEW k \in 1 .. L PROVE content[k] = memory[Behind(begin, k - 1)]
      OBVIOUS
    <2>2. k - 1 \in 0 .. L - 1 /\ (k - 1) + 1 = k
      BY <1>2
    <2>3. content[(k - 1) + 1] = memory[Behind(begin, k - 1)]
      BY <1>2, <2>2
    <2> QED
      BY <2>2, <2>3
  <1>4. ASSUME ~Ring!WrapsAround(begin, end), NEW sz \in 1 .. Capacity
        PROVE  Ring!IsPrefixOfContent(Ring!pick(sz))
    <2> DEFINE n == Ring!Lesser(sz, Ring!hasfilled)
               s == Ring!pick(sz)
    <2>1. Ring!hasfilled \in 0 .. L /\ (begin < end => Ring!hasfilled = end - begin)
      BY <1>1, <1>4, FilledFacts
    <2>2. n \in Nat /\ n <= L /\ n <= Ring!hasfilled
      <3>1. sz \in Nat /\ Ring!hasfilled \in Nat /\ Ring!hasfilled <= L
        BY <1>2, <2>1
      <3>2. n \in Nat /\ n <= Ring!hasfilled
        BY ONLY <3>1, LesserFacts
      <3> QED
        BY <1>2, <3>1, <3>2
    <2>3. s = [k \in 1 .. n |-> memory[Ring!Place(begin, end, k - 1)]]
      BY DEF Ring!pick
    <2> HIDE DEF n, s
    <2>4. ASSUME NEW k \in 1 .. n PROVE s[k] = content[k]
      <3>1. /\ k \in 1 .. L /\ k - 1 \in Nat /\ (begin < end => k - 1 < end - begin)
            /\ begin \in 0 .. Capacity /\ end \in 0 .. Capacity
        BY <1>2, <2>1, <2>2
      <3>2. Ring!Place(begin, end, k - 1) = Behind(begin, k - 1)
        BY ONLY <3>1, PlaceFacts
      <3> QED
        BY <1>3, <2>3, <3>1, <3>2
    <2>5. s = [k \in 1 .. n |-> s[k]]
      BY <2>3
    <2> QED
      BY <1>2, <2>2, <2>4, <2>5, PrefixFacts DEF s
  <1>5. ASSUME content # <<>> PROVE Ring!IsPrefixOfContent(Ring!watch_in)
    <2> DEFINE n == Ring!cont_distance(begin, end)
               s == Ring!watch_in
    <2>1. L > 0
      BY <1>2, <1>5
    <2>2. n \in Nat /\ n <= L /\ begin + n <= Capacity
      BY <1>2, <2>1 DEF Ring!cont_distance, Behind
    <2>3. s = [k \in 1 .. n |-> memory[begin + k - 1]]
      BY DEF Ring!watch_in
    <2> HIDE DEF n, s
    <2>4. ASSUME NEW k \in 1 .. n PROVE s[k] = content[k]
      <3>1. k \in 1 .. L /\ Behind(begin, k - 1) = begin + k - 1
        BY <1>2, <2>2 DEF Behind
      <3> QED
        BY <1>3, <2>3, <3>1
    <2>5. s = [k \in 1 .. n |-> s[k]]
      BY <2>3
    <2> QED
      BY <1>2, <2>2, <2>4, <2>5, PrefixFacts DEF s
  <1> QED
    BY <1>4, <1>5

-----------------------------------------------------------------------------
(* The socket helpers                                                      *)

SocketsType ==
  /\ fds \in [Sockets!Fds -> {"free", "caller", "config", "nobody"}]
  /\ peer \in [Sockets!Fds -> {"none", "established", "pending", "refused"}]
  /\ sock \in Sockets!Fds \union {-1}

SocketsInv == SocketsType /\ Sockets!RefusedIsClosed /\ Sockets!UsableIsOpen

(* A connection that is refused is closed, whatever errno was before, and  *)
(* a descriptor that is free is not that of the configuration.             *)
LEMMA ConnectStep ==
  ASSUME SocketsInv, NEW f \in Sockets!Fds, NEW nonblock \in BOOLEAN,
         NEW keeper \in {"caller", "nobody"}, Sockets!ConnectFor(keeper, f, nonblock)
  PROVE  SocketsInv'
  <1>1. fds[f] = "free" /\ UNCHANGED <<sock, alive, committed>>
    BY DEF Sockets!ConnectFor, Sockets!Lowest
  <1>2. PICK p \in {"established", "pending", "refused"} :
          peer' = [peer EXCEPT ![f] = p] /\ (p = "refused" => errno' = "other")
    BY DEF Sockets!ConnectFor, Sockets!Connect
  <1>3. \/ fds' = fds
        \/ fds' = [fds EXCEPT ![f] = keeper] /\ p # "refused"
    BY <1>2 DEF Sockets!ConnectFor, Sockets!Kept, Sockets!Keep
  <1>4. fds \in [Sockets!Fds -> {"free", "caller", "config", "nobody"}]
        /\ peer \in [Sockets!Fds -> {"none", "established", "pending", "refused"}]
    BY DEF SocketsInv, SocketsType
  <1>5. SocketsType'
    BY <1>1, <1>2, <1>3, <1>4 DEF SocketsInv, SocketsType
  <1>6. ASSUME NEW g \in Sockets!Fds, fds'[g] # "free" PROVE peer'[g] # "refused"
    <2>1. CASE g = f
      BY <1>1, <1>2, <1>3, <1>4, <1>6, <2>1
    <2>2. CASE g # f
      <3>1. fds'[g] = fds[g] /\ peer'[g] = peer[g]
        BY <1>2, <1>3, <1>4, <2>2
      <3> QED
        BY <1>6, <3>1 DEF SocketsInv, Sockets!RefusedIsClosed
    <2> QED
      BY <2>1, <2>2
  <1>7. Sockets!UsableIsOpen'
    <2>1. ASSUME committed = "usable" PROVE sock \in Sockets!Fds /\ fds'[sock] = "config"
      BY <1>1, <1>3, <1>4, <2>1 DEF SocketsInv, Sockets!UsableIsOpen
    <2> QED
      BY <1>1, <2>1 DEF Sockets!UsableIsOpen
  <1> QED
    BY <1>5, <1>6, <1>7 DEF SocketsInv, Sockets!RefusedIsClosed

(* commit_config is done with a socket that is there, or says that it is   *)
(* not.                                                                    *)
LEMMA CommitStep ==
  ASSUME SocketsInv, Sockets!commit_config
  PROVE  SocketsInv'
  <1>1. PICK s \in {f \in Sockets!Fds : Sockets!Lowest(f)} \union {-1},
             promiscuous \in BOOLEAN, timeout \in BOOLEAN :
               Sockets!create_raw_socket(s) /\ Sockets!Commit(s, promiscuous, timeout)
    BY DEF Sockets!commit_config
  <1>2. /\ sock' = s /\ s \in Sockets!Fds \union {-1}
        /\ fds' = [f \in Sockets!Fds |->
             IF f = s THEN "config" ELSE IF fds[f] = "config" THEN "nobody" ELSE fds[f]]
    BY <1>1 DEF Sockets!create_raw_socket
  <1>3. peer' = [f \in Sockets!Fds |-> IF f = s THEN "none" ELSE peer[f]]
    BY <1>2 DEF Sockets!commit_config
  <1>4. committed' = "usable" => s # -1
    BY <1>1 DEF Sockets!Commit
  <1>5. fds \in [Sockets!Fds -> {"free", "caller", "config", "nobody"}]
        /\ peer \in [Sockets!Fds -> {"none", "established", "pending", "refused"}]
    BY DEF SocketsInv, SocketsType
  <1>6. SocketsType'
    BY <1>2, <1>3, <1>5 DEF SocketsType
  <1>7. Sockets!RefusedIsClosed'
    <2>1. ASSUME NEW f \in Sockets!Fds, fds'[f] # "free" PROVE peer'[f] # "refused"
      BY <1>2, <1>3, <2>1 DEF SocketsInv, Sockets!RefusedIsClosed
    <2> QED
      BY <2>1 DEF Sockets!RefusedIsClosed
  <1>8. Sockets!UsableIsOpen'
    <2>1. ASSUME s # -1 PROVE s \in Sockets!Fds /\ fds'[s] = "config"
      BY <1>2, <2>1
    <2> QED
      BY <1>2, <1>4, <2>1 DEF Sockets!UsableIsOpen
  <1> QED
    BY <1>6, <1>7, <1>8 DEF SocketsInv

(* Every call keeps the invariant of the descriptors.                      *)
LEMMA SocketsStep ==
  ASSUME SocketsInv, Sockets!Next \/ UNCHANGED sockets
  PROVE  SocketsInv'
  <1>1. CASE Sockets!create_socket_server
    BY <1>1 DEF SocketsInv, SocketsType, Sockets!RefusedIsClosed, Sockets!UsableIsOpen,
                Sockets!create_socket_server, Sockets!NoSocket
  <1>2. ASSUME NEW f \in Sockets!Fds, Sockets!close_socket(f) PROVE SocketsInv'
    <2>1. /\ fds[f] = "caller" /\ fds' = [fds EXCEPT ![f] = "free"]
          /\ UNCHANGED <<peer, sock, committed>>
      BY <1>2 DEF Sockets!close_socket, Sockets!Keep
    <2>2. SocketsType'
      BY <2>1 DEF SocketsInv, SocketsType
    <2>3. \A g \in Sockets!Fds : fds'[g] = IF g = f THEN "free" ELSE fds[g]
      BY <2>1 DEF SocketsInv, SocketsType
    <2> QED
      BY <2>1, <2>2, <2>3 DEF SocketsInv, Sockets!RefusedIsClosed, Sockets!UsableIsOpen
  <1>3. ASSUME NEW f \in Sockets!Fds, NEW nonblock \in BOOLEAN,
               \/ Sockets!create_tcp_connect(f, nonblock)
               \/ Sockets!create_inet_connect(f, nonblock)
        PROVE  SocketsInv'
    BY <1>3, ConnectStep DEF Sockets!create_tcp_connect, Sockets!create_inet_connect
  <1>4. CASE UNCHANGED sockets
    BY <1>4 DEF SocketsInv, SocketsType, Sockets!RefusedIsClosed, Sockets!UsableIsOpen, sockets
  <1> QED
    BY <1>1, <1>2, <1>3, <1>4, CommitStep DEF Sockets!Next

-----------------------------------------------------------------------------
(* The multicast sockets                                                   *)

\* Where create_pgm_socket has its socket.
Inside == {"encapsulate", "gsi", "bind", "join", "send_group", "connect", "succeed"}

PgmInv ==
  /\ step \in {"getaddrinfo", "socket", "fail", "NULL", "returned"} \union Inside
  /\ step \in Inside \union {"returned"} => pgm = "open"
  /\ step = "NULL" => pgm # "open"
  /\ step \in {"NULL", "returned"} => addrinfo # "held" /\ pgm_error # "held"
  /\ group \in 0 .. Groups /\ joined = 0 .. group - 1
  /\ pgm_fds \in {{}, {"send", "receive", "repair", "pending"}, {"receive", "pending"}}

(* The call that comes after another.                                      *)
LEMMA AfterFacts ==
  \A s \in {"encapsulate", "gsi", "bind", "send_group", "connect"} : Pgm!After(s) \in Inside
  <1> DEFINE O == <<"encapsulate", "gsi", "bind", "join", "send_group", "connect", "succeed">>
  <1>1. /\ O[1] = "encapsulate" /\ O[2] = "gsi" /\ O[3] = "bind" /\ O[4] = "join"
        /\ O[5] = "send_group" /\ O[6] = "connect" /\ O[7] = "succeed" /\ Len(O) = 7
    OBVIOUS
  <1> HIDE DEF O
  <1>2. ASSUME NEW s, NEW n \in 1 .. 6, O[n] = s PROVE O[1 + CHOOSE m \in 1 .. Len(O) : O[m] = s] \in Inside
    <2>1. n \in 1 .. Len(O)
      BY <1>1
    <2>2. PICK m \in 1 .. 7 : m = CHOOSE k \in 1 .. Len(O) : O[k] = s
      BY <1>1, <1>2, <2>1
    <2>3. O[m] = s
      BY <1>2, <2>1, <2>2
    <2>4. s # "succeed"
      BY <1>1, <1>2
    <2>5. m \in {1, 2, 3, 4, 5, 6}
      BY <1>1, <2>3, <2>4
    <2>6. O[1 + m] \in Inside
      BY <1>1, <2>5 DEF Inside
    <2> QED
      BY <2>2, <2>6
  <1>3. \A s : Pgm!After(s) = O[1 + CHOOSE n \in 1 .. Len(O) : O[n] = s]
    BY DEF Pgm!After, Pgm!Order, O
  <1>4. ASSUME NEW s \in {"encapsulate", "gsi", "bind", "send_group", "connect"}
        PROVE  \E n \in 1 .. 6 : O[n] = s
    <2>1. 1 \in 1 .. 6 /\ 2 \in 1 .. 6 /\ 3 \in 1 .. 6 /\ 5 \in 1 .. 6 /\ 6 \in 1 .. 6
      OBVIOUS
    <2> QED
      BY <1>1, <2>1
  <1> QED
    BY <1>2, <1>3, <1>4

(* Every call keeps the invariant of create_pgm_socket and what is done    *)
(* with its socket.                                                        *)
LEMMA PgmStep ==
  ASSUME PgmInv, Pgm!Next \/ UNCHANGED multicast
  PROVE  PgmInv'
  <1> USE DEF PgmInv
  <1>1. CASE Pgm!getaddrinfo \/ Pgm!socket
    BY <1>1 DEF Pgm!getaddrinfo, Pgm!socket, Inside
  <1>2. ASSUME NEW s \in {"encapsulate", "gsi", "bind", "send_group", "connect"},
               NEW reports \in BOOLEAN, Pgm!Call(s, reports)
        PROVE  PgmInv'
    <2>1. step = s /\ step' \in Inside \union {"fail"} /\ UNCHANGED <<pgm, group, joined, pgm_fds>>
      BY <1>2, AfterFacts DEF Pgm!Call
    <2>2. pgm = "open"
      BY <2>1 DEF Inside
    <2> QED
      BY <2>1, <2>2 DEF Inside
  <1>3. CASE Pgm!join
    <2>1. group \in 0 .. Groups - 1 /\ group' = group + 1 /\ joined' = joined \union {group}
      BY <1>3, ToolboxAssumption DEF Pgm!join
    <2>2. group' \in 0 .. Groups /\ joined' = 0 .. group' - 1
      BY <2>1, ToolboxAssumption
    <2> QED
      BY <1>3, <2>2 DEF Pgm!join
  <1>4. CASE Pgm!JoinFails \/ Pgm!AllTried
    BY <1>4 DEF Pgm!JoinFails, Pgm!AllTried, Pgm!Rest, Inside
  <1>5. CASE Pgm!Return
    BY <1>5 DEF Pgm!Return, Pgm!CleanUp, Inside
  <1>6. CASE Pgm!set_pgm_sender \/ Pgm!set_pgm_receiver
    BY <1>6 DEF Pgm!set_pgm_sender, Pgm!set_pgm_receiver, Pgm!SetOptions, Pgm!made
  <1>7. CASE Pgm!get_pgm_send_fd \/ Pgm!get_pgm_recv_fd
    <2>1. UNCHANGED <<step, addrinfo, pgm_error, pgm, group, joined>>
      BY <1>7 DEF Pgm!get_pgm_send_fd, Pgm!get_pgm_recv_fd, Pgm!GetFds, Pgm!made
    <2> DEFINE send == <<"send", "receive", "repair", "pending">>
               recv == <<"receive", "pending">>
    <2>2. {send[q] : q \in 1 .. Len(send)} = {"send", "receive", "repair", "pending"}
      <3>1. Len(send) = 4 /\ 1 .. 4 = {1, 2, 3, 4}
        OBVIOUS
      <3> QED
        BY <3>1
    <2>3. {recv[q] : q \in 1 .. Len(recv)} = {"receive", "pending"}
      <3>1. Len(recv) = 2 /\ 1 .. 2 = {1, 2}
        OBVIOUS
      <3> QED
        BY <3>1
    <2>4. \/ pgm_fds' = pgm_fds
          \/ pgm_fds' = {send[q] : q \in 1 .. Len(send)}
          \/ pgm_fds' = {recv[q] : q \in 1 .. Len(recv)}
      BY <1>7 DEF Pgm!get_pgm_send_fd, Pgm!get_pgm_recv_fd, Pgm!GetFds, Pgm!Fill
    <2> HIDE DEF send, recv
    <2> QED
      BY <2>1, <2>2, <2>3, <2>4
  <1>8. CASE UNCHANGED multicast
    BY <1>8 DEF multicast
  <1> QED
    BY <1>1, <1>2, <1>3, <1>4, <1>5, <1>6, <1>7, <1>8 DEF Pgm!Next

(* The groups that were joined are the first ones.                         *)
LEMMA PgmFacts ==
  ASSUME PgmInv
  PROVE  Pgm!AllOrNothing
  <1>1. \E n \in 0 .. Groups : joined = 0 .. n - 1
    BY DEF PgmInv
  <1>2. ASSUME step \in {"NULL", "returned"}
        PROVE  addrinfo # "held" /\ pgm_error # "held" /\ (pgm = "open" <=> step = "returned")
    BY <1>2 DEF PgmInv, Inside
  <1>3. pgm_fds \in {{}, {"send", "receive", "repair", "pending"}, {"receive", "pending"}}
    BY DEF PgmInv
  <1> QED
    BY ONLY <1>1, <1>2, <1>3 DEF Pgm!AllOrNothing

-----------------------------------------------------------------------------
(* Numbers.  Induction is by the least number that a set of numbers leaves *)
(* out, which the well-foundedness of set inclusion gives; 2^n is known as *)
(* the number of subsets of 1 .. n.                                        *)

(* A set of numbers that is not empty has a least one.                     *)
LEMMA LeastNumber ==
  ASSUME NEW T, T \subseteq Nat, T # {}
  PROVE  \E m \in T : \A k \in T : m <= k
  <1>1. PICK n \in T : n \in Nat
    OBVIOUS
  <1> DEFINE S     == 0 .. n
             Under == {0 .. k : k \in T \intersect S}
  <1>2. IsWellFoundedOn(StrictSubsetOrdering(S), FiniteSubsetsOf(S))
    BY ONLY FS_StrictSubsetOrderingWellFounded
  <1>3. Under \subseteq FiniteSubsetsOf(S) /\ Under # {}
    <2>1. ASSUME NEW k \in T \intersect S PROVE 0 .. k \in FiniteSubsetsOf(S)
      <3>1. k \in Int /\ 0 \in Int /\ 0 .. k \subseteq S
        BY <1>1
      <3>2. IsFiniteSet(0 .. k)
        BY ONLY <3>1, FS_Interval
      <3> QED
        BY <3>1, <3>2 DEF FiniteSubsetsOf
    <2>2. n \in T \intersect S
      BY <1>1
    <2> QED
      BY <2>1, <2>2
  <1> HIDE DEF Under
  <1>4. \E x \in Under : \A y \in Under : <<y, x>> \notin StrictSubsetOrdering(S)
    BY ONLY <1>2, <1>3, WFMin
  <1> USE DEF Under
  <1>5. PICK m \in T \intersect S :
          \A k \in T \intersect S : <<0 .. k, 0 .. m>> \notin StrictSubsetOrdering(S)
    BY <1>4
  <1>6. ASSUME NEW k \in T, k < m PROVE FALSE
    <2>1. k \in Nat /\ m \in Nat /\ k \in S
      BY <1>1, <1>6
    <2>2. 0 .. k \subseteq 0 .. m /\ m \in 0 .. m /\ m \notin 0 .. k
      BY <1>6, <2>1
    <2>3. 0 .. k \in SUBSET S /\ 0 .. m \in SUBSET S
      BY <1>1, <2>1
    <2>4. <<0 .. k, 0 .. m>> \in StrictSubsetOrdering(S)
      BY ONLY <2>2, <2>3 DEF StrictSubsetOrdering
    <2> QED
      BY ONLY <1>5, <2>1, <2>4, k \in T
  <1>7. \A k \in T : m <= k
    BY <1>6
  <1> QED
    BY <1>7

(* A set with 0 and with the successor of each of its numbers has them all. *)
LEMMA Induction ==
  ASSUME NEW T, 0 \in T, \A n \in Nat : n \in T => n + 1 \in T
  PROVE  \A n \in Nat : n \in T
  <1> DEFINE Rest == Nat \ T
  <1> SUFFICES ASSUME Rest # {} PROVE FALSE
    OBVIOUS
  <1>1. PICK m \in Rest : \A k \in Rest : m <= k
    <2>1. Rest \subseteq Nat
      OBVIOUS
    <2> HIDE DEF Rest
    <2> QED
      BY ONLY <2>1, Rest # {}, LeastNumber
  <1>2. m \in Nat /\ m # 0 /\ m - 1 \in Nat
    OBVIOUS
  <1>3. m - 1 \in T
    BY <1>1, <1>2
  <1> QED
    BY <1>2, <1>3

(* What ^ is on powers of two: its value at 0,                             *)
LEMMA PowerZero == 2^0 = 1
  <1>1. SUBSET {} = {{}}
    OBVIOUS
  <1>2. Cardinality(SUBSET {}) = 2^Cardinality({})
    BY ONLY FS_EmptySet, FS_SUBSET
  <1>3. Cardinality({{}}) = 1 /\ Cardinality({}) = 0
    BY ONLY FS_EmptySet, FS_Singleton
  <1> QED
    BY ONLY <1>1, <1>2, <1>3

(* as the number of subsets,                                               *)
LEMMA PowerCard ==
  ASSUME NEW n \in Nat
  PROVE  /\ IsFiniteSet(SUBSET (1 .. n)) /\ Cardinality(SUBSET (1 .. n)) = 2^n
         /\ 2^n \in Nat
  <1>1. IsFiniteSet(1 .. n) /\ Cardinality(1 .. n) = n
    <2>1. n \in Int /\ 1 \in Int /\ (IF 1 > n THEN 0 ELSE n - 1 + 1) = n
      OBVIOUS
    <2> QED
      BY ONLY <2>1, FS_Interval
  <1>2. IsFiniteSet(SUBSET (1 .. n)) /\ Cardinality(SUBSET (1 .. n)) = 2^n
    BY ONLY <1>1, FS_SUBSET
  <1> QED
    BY ONLY <1>2, FS_CardinalityType

(* at the next exponent,                                                   *)
LEMMA PowerNext ==
  ASSUME NEW n \in Nat
  PROVE  2^(n + 1) = 2 * 2^n
  <1> DEFINE A == SUBSET (1 .. n)
             C == {T \union {n + 1} : T \in A}
             f == [T \in A |-> T \union {n + 1}]
  <1>1. SUBSET (1 .. n + 1) = A \union C /\ A \intersect C = {}
    <2>1. 1 .. n + 1 = (1 .. n) \union {n + 1} /\ n + 1 \notin 1 .. n
      OBVIOUS
    <2>2. ASSUME NEW U \in SUBSET (1 .. n + 1), n + 1 \in U PROVE U \in C
      <3>1. U \ {n + 1} \in A /\ U = (U \ {n + 1}) \union {n + 1}
        BY <2>1, <2>2
      <3> QED
        BY <3>1
    <2>3. ASSUME NEW U \in SUBSET (1 .. n + 1), n + 1 \notin U PROVE U \in A
      BY ONLY <2>1, <2>3
    <2>4. \A U \in C : U \in SUBSET (1 .. n + 1) /\ U \notin A
      BY <2>1
    <2>5. \A U \in A : U \in SUBSET (1 .. n + 1)
      BY <2>1
    <2> HIDE DEF A, C
    <2> QED
      BY <2>2, <2>3, <2>4, <2>5
  <1>2. f \in Bijection(A, C)
    <2>1. f \in [A -> C]
      OBVIOUS
    <2>2. \A T, U \in A : f[T] = f[U] => T = U
      <3>1. n + 1 \notin 1 .. n
        OBVIOUS
      <3> QED
        BY <3>1
    <2>3. \A U \in C : \E T \in A : f[T] = U
      OBVIOUS
    <2> HIDE DEF A, C, f
    <2> QED
      BY ONLY <2>1, <2>2, <2>3 DEF Bijection, Injection, Surjection, IsInjective
  <1>3. IsFiniteSet(A) /\ Cardinality(A) = 2^n /\ 2^n \in Nat
    BY ONLY PowerCard, n \in Nat
  <1>4. Cardinality(SUBSET (1 .. n + 1)) = 2^(n + 1)
    <2>1. n + 1 \in Nat
      OBVIOUS
    <2> QED
      BY ONLY <2>1, PowerCard
  <1> HIDE DEF A, C, f
  <1>5. IsFiniteSet(C) /\ Cardinality(C) = 2^n
    <2>1. ExistsBijection(A, C)
      BY ONLY <1>2 DEF ExistsBijection
    <2> QED
      BY ONLY <1>3, <2>1, FS_Bijection
  <1>6. Cardinality(A \union C) = 2^n + 2^n - 0
    <2>1. Cardinality(A \union C) = Cardinality(A) + Cardinality(C) - Cardinality(A \intersect C)
      BY ONLY <1>3, <1>5, FS_Union
    <2>2. Cardinality(A \intersect C) = 0
      BY ONLY <1>1, FS_EmptySet
    <2> QED
      BY ONLY <1>3, <1>5, <2>1, <2>2
  <1>7. ASSUME NEW a \in Nat PROVE a + a - 0 = 2 * a
    OBVIOUS
  <1> QED
    BY ONLY <1>1, <1>3, <1>4, <1>6, <1>7

(* never 0,                                                                *)
LEMMA PowerPositive == \A n \in Nat : 2^n \in Nat \ {0}
  <1> DEFINE T == {n \in Nat : 2^n \in Nat \ {0}}
  <1>1. 0 \in T
    BY PowerZero
  <1>2. ASSUME NEW n \in Nat, n \in T PROVE n + 1 \in T
    BY <1>2, PowerNext
  <1>3. \A n \in Nat : n \in T
    <2> HIDE DEF T
    <2> QED
      BY ONLY <1>1, <1>2, Induction
  <1> QED
    BY <1>3

(* and at a sum.                                                           *)
LEMMA PowerSum ==
  ASSUME NEW m \in Nat, NEW n \in Nat
  PROVE  2^(m + n) = 2^m * 2^n
  <1> DEFINE T == {k \in Nat : 2^(m + k) = 2^m * 2^k}
  <1>0. 2^m \in Nat
    BY PowerPositive
  <1>1. 0 \in T
    BY <1>0, PowerZero
  <1>2. ASSUME NEW k \in Nat, k \in T PROVE k + 1 \in T
    <2>1. 2^k \in Nat /\ m + k \in Nat /\ m + (k + 1) = (m + k) + 1
      BY PowerPositive
    <2>2. 2^(m + (k + 1)) = 2 * 2^(m + k) /\ 2^(k + 1) = 2 * 2^k
      BY <2>1, PowerNext
    <2>3. 2^(m + k) = 2^m * 2^k
      BY <1>2
    <2>4. ASSUME NEW a \in Nat, NEW b \in Nat PROVE 2 * (a * b) = a * (2 * b)
      OBVIOUS
    <2>5. 2 * (2^m * 2^k) = 2^m * (2 * 2^k)
      BY ONLY <1>0, <2>1, <2>4
    <2>6. 2^(m + (k + 1)) = 2^m * 2^(k + 1)
      BY ONLY <2>2, <2>3, <2>5
    <2> QED
      BY <2>6
  <1>3. \A k \in Nat : k \in T
    <2> HIDE DEF T
    <2> QED
      BY ONLY <1>1, <1>2, Induction
  <1> QED
    BY <1>3

(* Quotient and remainder exist,                                           *)
LEMMA DivMod ==
  ASSUME NEW d \in Nat \ {0}, NEW a \in Nat
  PROVE  /\ a \div d \in Nat /\ a % d \in 0 .. d - 1
         /\ a = d * (a \div d) + (a % d)
  OBVIOUS

(* are the only ones,                                                      *)
LEMMA DivModUnique ==
  ASSUME NEW d \in Nat \ {0}, NEW q \in Nat, NEW r \in 0 .. d - 1
  PROVE  (d * q + r) \div d = q /\ (d * q + r) % d = r
  <1> DEFINE a == d * q + r
             p == a \div d
             s == a % d
  <1>1. a \in Nat /\ d * q \in Nat
    BY SMT
  <1>2. p \in Nat /\ s \in 0 .. d - 1 /\ a = d * p + s
    BY <1>1, DivMod
  <1> HIDE DEF p, s
  <1>3. ASSUME NEW x \in Nat, NEW y \in Nat, x < y PROVE d * y >= d * x + d
    <2>1. PICK z \in Nat : y = x + 1 + z
      <3>1. y - x - 1 \in Nat /\ y = x + 1 + (y - x - 1)
        BY <1>3
      <3> QED
        BY <3>1
    <2>2. d * (x + 1 + z) = d * x + d + d * z /\ d * z \in Nat
      OBVIOUS
    <2> QED
      BY <2>1, <2>2
  <1>4. ~ p < q
    <2> SUFFICES ASSUME p < q PROVE FALSE
      OBVIOUS
    <2>1. d * q >= d * p + d /\ d * q \in Nat /\ d * p \in Nat
      BY <1>2, <1>3
    <2> QED
      BY <1>2, <2>1
  <1>5. ~ q < p
    <2> SUFFICES ASSUME q < p PROVE FALSE
      OBVIOUS
    <2>1. d * p >= d * q + d /\ d * q \in Nat /\ d * p \in Nat
      BY <1>2, <1>3
    <2> QED
      BY <1>2, <2>1
  <1>6. p = q
    BY <1>2, <1>4, <1>5
  <1>7. s = r
    <2>1. d * q \in Nat /\ d * q + r = d * q + s
      BY <1>1, <1>2, <1>6
    <2> QED
      BY ONLY <1>2, <2>1, r \in 0 .. d - 1, d \in Nat
  <1> QED
    BY ONLY <1>6, <1>7 DEF p, s

(* and dividing twice is dividing by the product.                          *)
LEMMA DivTwice ==
  ASSUME NEW c \in Nat \ {0}, NEW d \in Nat \ {0}, NEW a \in Nat
  PROVE  (a \div c) \div d = a \div (c * d)
  <1> DEFINE p == a \div c
             q == p \div d
             r == a % c
             s == p % d
  <1>1. p \in Nat /\ r \in 0 .. c - 1 /\ a = c * p + r
    BY DivMod
  <1>2. q \in Nat /\ s \in 0 .. d - 1 /\ p = d * q + s
    BY <1>1, DivMod
  <1> HIDE DEF p, q, r, s
  <1>3. c * d \in Nat \ {0}
    OBVIOUS
  <1>4. a = (c * d) * q + (c * s + r)
    BY <1>1, <1>2
  <1>5. c * s + r \in 0 .. c * d - 1
    <2>1. PICK z \in Nat : d = s + 1 + z
      <3>1. d - s - 1 \in Nat /\ d = s + 1 + (d - s - 1)
        BY <1>2
      <3> QED
        BY <3>1
    <2>2. c * (s + 1 + z) = c * s + c + c * z /\ c * z \in Nat /\ c * s \in Nat
      BY <1>2
    <2> QED
      BY <1>1, <2>1, <2>2
  <1>6. a \div (c * d) = q
    BY ONLY <1>2, <1>3, <1>4, <1>5, DivModUnique
  <1> QED
    BY <1>6 DEF p, q
-----------------------------------------------------------------------------
(* The bits of a number                                                    *)

(* The bits from k on are those of the quotient by 2^k.                    *)
LEMMA BitShift ==
  ASSUME NEW n \in Nat, NEW k \in Nat, NEW b \in Nat
  PROVE  Network!Bit(n, k + b) = Network!Bit(n \div 2^k, b)
  <1>1. 2^k \in Nat \ {0} /\ 2^b \in Nat \ {0}
    BY PowerPositive
  <1>2. (n \div 2^k) \div 2^b = n \div 2^(k + b)
    <2>1. 2^(k + b) = 2^k * 2^b
      BY ONLY PowerSum, k \in Nat, b \in Nat
    <2>2. ASSUME NEW c \in Nat \ {0}, NEW d \in Nat \ {0} PROVE (n \div c) \div d = n \div (c * d)
      BY ONLY DivTwice, n \in Nat
    <2> QED
      BY ONLY <1>1, <2>1, <2>2, Zenon
  <1> QED
    BY ONLY <1>2 DEF Network!Bit

(* Numbers of n bits that have the same bits are the same.                 *)
LEMMA SameBits ==
  \A n \in Nat : \A x, y \in 0 .. 2^n - 1 :
    (\A b \in 0 .. n - 1 : Network!Bit(x, b) = Network!Bit(y, b)) => x = y
  <1> DEFINE Agree(x, y, n) == \A b \in 0 .. n - 1 : Network!Bit(x, b) = Network!Bit(y, b)
             T == {n \in Nat : \A x, y \in 0 .. 2^n - 1 : Agree(x, y, n) => x = y}
  <1>1. 0 \in T
    BY PowerZero
  <1>2. ASSUME NEW n \in Nat, n \in T PROVE n + 1 \in T
    <2> SUFFICES ASSUME NEW x \in 0 .. 2^(n + 1) - 1, NEW y \in 0 .. 2^(n + 1) - 1,
                        Agree(x, y, n + 1)
                 PROVE  x = y
      OBVIOUS
    <2>1. 2^1 = 2
      <3>1. 2^(0 + 1) = 2 * 2^0
        BY ONLY PowerNext, 0 \in Nat
      <3> QED
        BY <3>1, PowerZero
    <2>2. 2^n \in Nat /\ 2^(n + 1) = 2 * 2^n
      BY PowerPositive, PowerNext
    <2>3. ASSUME NEW p \in Nat, NEW z \in 0 .. 2 * p - 1
          PROVE  z \in Nat /\ z \div 2 \in 0 .. p - 1 /\ z = 2 * (z \div 2) + (z % 2)
      OBVIOUS
    <2>4. /\ x \in Nat /\ x \div 2 \in 0 .. 2^n - 1 /\ x = 2 * (x \div 2) + (x % 2)
          /\ y \in Nat /\ y \div 2 \in 0 .. 2^n - 1 /\ y = 2 * (y \div 2) + (y % 2)
      BY ONLY <2>2, <2>3, x \in 0 .. 2^(n + 1) - 1, y \in 0 .. 2^(n + 1) - 1
    <2>5. Agree(x \div 2, y \div 2, n)
      <3> SUFFICES ASSUME NEW b \in 0 .. n - 1 PROVE Network!Bit(x \div 2, b) = Network!Bit(y \div 2, b)
        OBVIOUS
      <3>1. b \in Nat /\ 1 \in Nat /\ 1 + b \in 0 .. n + 1 - 1
        OBVIOUS
      <3>2. Network!Bit(x, 1 + b) = Network!Bit(x \div 2, b) /\ Network!Bit(y, 1 + b) = Network!Bit(y \div 2, b)
        <4>1. \A z \in Nat : Network!Bit(z, 1 + b) = Network!Bit(z \div 2^1, b)
          BY ONLY <3>1, BitShift
        <4> QED
          BY ONLY <2>1, <2>4, <4>1
      <3> QED
        BY <3>1, <3>2
    <2>6. x \div 2 = y \div 2
      <3> HIDE DEF Agree
      <3> QED
        BY <1>2, <2>4, <2>5
    <2>7. x % 2 = y % 2
      <3>1. 0 \in 0 .. n + 1 - 1 /\ x \div 1 = x /\ y \div 1 = y
        BY <2>4
      <3>2. Network!Bit(x, 0) = Network!Bit(y, 0)
        BY <3>1
      <3> QED
        BY ONLY <3>1, <3>2, PowerZero DEF Network!Bit
    <2> QED
      BY ONLY <2>4, <2>6, <2>7
  <1>3. \A n \in Nat : n \in T
    <2> HIDE DEF T
    <2> QED
      BY ONLY <1>1, <1>2, Induction
  <1> QED
    BY <1>3

(* A power of two is an even multiple of each that is smaller.             *)
LEMMA PowerAbove ==
  ASSUME NEW n \in Nat, NEW b \in Nat, b < n
  PROVE  \E p \in Nat \ {0} : 2^n = 2^b * (2 * p)
  <1>1. PICK c \in Nat : n = b + (c + 1)
    <2>1. n - b - 1 \in Nat /\ n = b + ((n - b - 1) + 1)
      OBVIOUS
    <2> QED
      BY <2>1
  <1>2. c + 1 \in Nat
    OBVIOUS
  <1>3. 2^(b + (c + 1)) = 2^b * 2^(c + 1)
    BY ONLY <1>2, PowerSum, b \in Nat
  <1>4. 2^(c + 1) = 2 * 2^c
    BY ONLY PowerNext, c \in Nat
  <1>5. 2^c \in Nat \ {0}
    BY ONLY PowerPositive, c \in Nat
  <1> QED
    BY ONLY <1>1, <1>3, <1>4, <1>5

(* A multiple of 2^k has no bit below k.                                   *)
LEMMA LowBits ==
  ASSUME NEW q \in Nat, NEW k \in Nat, NEW b \in Nat, b < k
  PROVE  Network!Bit(2^k * q, b) = 0
  <1>1. PICK p \in Nat \ {0} : 2^k = 2^b * (2 * p)
    BY PowerAbove
  <1>2. 2^b \in Nat \ {0}
    BY PowerPositive
  <1>3. ASSUME NEW d \in Nat \ {0}
        PROVE  /\ d * (2 * p) * q = d * (2 * (p * q)) + 0
               /\ 2 * (p * q) \in Nat /\ p * q \in Nat /\ 0 \in 0 .. d - 1
    OBVIOUS
  <1>4. /\ 2^k * q = 2^b * (2 * (p * q)) + 0
        /\ 2 * (p * q) \in Nat /\ p * q \in Nat /\ 0 \in 0 .. 2^b - 1
    BY ONLY <1>1, <1>2, <1>3
  <1>5. (2^k * q) \div 2^b = 2 * (p * q)
    BY ONLY <1>2, <1>4, DivModUnique
  <1>6. ASSUME NEW m \in Nat PROVE (2 * m) % 2 = 0
    OBVIOUS
  <1> QED
    BY ONLY <1>4, <1>5, <1>6 DEF Network!Bit

(* 2^n - 1 has all the bits below n.                                       *)
LEMMA AllBits ==
  ASSUME NEW n \in Nat, NEW b \in Nat, b < n
  PROVE  Network!Bit(2^n - 1, b) = 1
  <1>1. PICK p \in Nat \ {0} : 2^n = 2^b * (2 * p)
    BY PowerAbove
  <1>2. 2^b \in Nat \ {0}
    BY PowerPositive
  <1>3. ASSUME NEW d \in Nat \ {0}
        PROVE  /\ d * (2 * p) - 1 = d * (2 * p - 1) + (d - 1)
               /\ 2 * p - 1 \in Nat /\ d - 1 \in 0 .. d - 1
    OBVIOUS
  <1>4. /\ 2^n - 1 = 2^b * (2 * p - 1) + (2^b - 1)
        /\ 2 * p - 1 \in Nat /\ 2^b - 1 \in 0 .. 2^b - 1
    BY ONLY <1>1, <1>2, <1>3
  <1>5. (2^n - 1) \div 2^b = 2 * p - 1
    BY ONLY <1>2, <1>4, DivModUnique
  <1>6. (2 * p - 1) % 2 = 1
    OBVIOUS
  <1> QED
    BY ONLY <1>5, <1>6 DEF Network!Bit

-----------------------------------------------------------------------------
(* Masks and networks                                                      *)

\* The mask of a network with k bits for the host.
Mask(k) == 2^Bits - 2^k

\* The address of the network of a, if k bits are for the host.
NetworkOf(k, a) == 2^k * (a \div 2^k)

(* A mask is a multiple of 2^k, by a number that has only ones.            *)
LEMMA MaskFacts ==
  ASSUME NEW k \in 1 .. Bits - 1
  PROVE  /\ 2^Bits \in Nat \ {0} /\ 2^k \in Nat /\ 2^k >= 2
         /\ 2^Bits = 2^k * 2^(Bits - k) /\ 2^(Bits - k) \in Nat \ {0}
         /\ Mask(k) \in 0 .. 2^Bits - 1
         /\ Mask(k) \div 2^k = 2^(Bits - k) - 1 /\ Mask(k) = 2^k * (2^(Bits - k) - 1)
  <1>1. Bits \in Nat /\ k \in Nat /\ k - 1 \in Nat /\ Bits - k \in Nat /\ k + (Bits - k) = Bits
        /\ (k - 1) + 1 = k
    BY ToolboxAssumption
  <1>2. 2^Bits \in Nat \ {0} /\ 2^k \in Nat \ {0} /\ 2^(Bits - k) \in Nat \ {0}
        /\ 2^(k - 1) \in Nat \ {0}
    BY ONLY <1>1, PowerPositive
  <1>3. 2^Bits = 2^k * 2^(Bits - k)
    BY ONLY <1>1, PowerSum
  <1>4. 2^k = 2 * 2^(k - 1)
    BY ONLY <1>1, PowerNext
  <1>5. ASSUME NEW c \in Nat \ {0}, NEW d \in Nat \ {0}
        PROVE  c * d - c = c * (d - 1) + 0 /\ c * d - c = c * (d - 1)
               /\ c * (d - 1) \in Nat /\ d - 1 \in Nat /\ 0 \in 0 .. c - 1
               /\ c * d - c \in 0 .. c * d - 1
    <2>1. d - 1 \in Nat /\ c * (d - 1) \in Nat
      OBVIOUS
    <2>2. c * d = c * (d - 1) + c
      OBVIOUS
    <2> QED
      BY <2>1, <2>2
  <1>6. /\ Mask(k) = 2^k * (2^(Bits - k) - 1) + 0
        /\ Mask(k) = 2^k * (2^(Bits - k) - 1)
        /\ Mask(k) \in 0 .. 2^Bits - 1 /\ 2^(Bits - k) - 1 \in Nat /\ 0 \in 0 .. 2^k - 1
    BY ONLY <1>2, <1>3, <1>5 DEF Mask
  <1>7. Mask(k) \div 2^k = 2^(Bits - k) - 1
    BY ONLY <1>2, <1>6, DivModUnique
  <1>8. 2^k >= 2
    BY <1>2, <1>4
  <1> QED
    BY ONLY <1>2, <1>3, <1>6, <1>7, <1>8

(* Its bits.                                                               *)
LEMMA MaskBits ==
  ASSUME NEW k \in 1 .. Bits - 1, NEW b \in 0 .. Bits - 1
  PROVE  Network!Bit(Mask(k), b) = IF b < k THEN 0 ELSE 1
  <1>1. Bits \in Nat /\ k \in Nat /\ b \in Nat /\ Mask(k) \in Nat
    BY MaskFacts, ToolboxAssumption
  <1>2. ASSUME b < k PROVE Network!Bit(Mask(k), b) = 0
    <2>1. Mask(k) = 2^k * (2^(Bits - k) - 1) /\ 2^(Bits - k) - 1 \in Nat
      BY MaskFacts
    <2> QED
      BY ONLY <1>1, <1>2, <2>1, LowBits
  <1>3. ASSUME ~ b < k PROVE Network!Bit(Mask(k), b) = 1
    <2>1. b - k \in Nat /\ b = k + (b - k) /\ Bits - k \in Nat /\ b - k < Bits - k
      BY <1>1, <1>3
    <2>2. Network!Bit(Mask(k), k + (b - k)) = Network!Bit(Mask(k) \div 2^k, b - k)
      BY ONLY <1>1, <2>1, BitShift
    <2>3. Network!Bit(2^(Bits - k) - 1, b - k) = 1
      BY ONLY <2>1, AllBits
    <2>4. Mask(k) \div 2^k = 2^(Bits - k) - 1
      BY ONLY MaskFacts, k \in 1 .. Bits - 1
    <2> QED
      BY ONLY <2>1, <2>2, <2>3, <2>4
  <1> QED
    BY <1>2, <1>3

(* What bitcount says of it.                                               *)
LEMMA MaskCount ==
  ASSUME NEW k \in 1 .. Bits - 1
  PROVE  Network!bitcount(Mask(k)) = Bits - k
  <1>1. Bits \in Nat /\ k \in Nat
    BY ToolboxAssumption
  <1>2. {b \in 0 .. Bits - 1 : Network!Bit(Mask(k), b) = 1} = k .. Bits - 1
    BY <1>1, MaskBits
  <1>3. Cardinality(k .. Bits - 1) = Bits - k
    <2>1. k \in Int /\ Bits - 1 \in Int
          /\ (IF k > Bits - 1 THEN 0 ELSE (Bits - 1) - k + 1) = Bits - k
      BY <1>1
    <2> QED
      BY ONLY <2>1, FS_Interval
  <1>4. Network!Cardinality(k .. Bits - 1) = Cardinality(k .. Bits - 1)
    BY DEF Network!Cardinality, Cardinality
  <1> QED
    BY ONLY <1>2, <1>3, <1>4 DEF Network!bitcount

(* An address is in its network, and the network among the addresses.      *)
LEMMA NetworkOfFacts ==
  ASSUME NEW k \in 1 .. Bits - 1, NEW a \in Network!Addresses
  PROVE  /\ a \in Nat /\ a \div 2^k \in Nat
         /\ NetworkOf(k, a) \in Nat /\ NetworkOf(k, a) <= a
         /\ a < NetworkOf(k, a) + 2^k /\ NetworkOf(k, a) + 2^k <= 2^Bits
  <1>1. a \in 0 .. 2^k * 2^(Bits - k) - 1 /\ 2^k \in Nat \ {0} /\ 2^(Bits - k) \in Nat \ {0}
        /\ 2^Bits = 2^k * 2^(Bits - k)
    <2>1. a \in 0 .. 2^Bits - 1
      BY DEF Network!Addresses
    <2>2. /\ 2^Bits = 2^k * 2^(Bits - k) /\ 2^k \in Nat /\ 2^k >= 2
          /\ 2^(Bits - k) \in Nat \ {0}
      BY ONLY MaskFacts, k \in 1 .. Bits - 1
    <2> QED
      BY ONLY <2>1, <2>2
  <1>2. ASSUME NEW c \in Nat \ {0}, NEW d \in Nat \ {0}, a \in 0 .. c * d - 1
        PROVE  /\ a \in Nat /\ a \div c \in Nat /\ c * (a \div c) \in Nat
               /\ c * (a \div c) <= a /\ a < c * (a \div c) + c
               /\ c * (a \div c) + c <= c * d
    <2> DEFINE q == a \div c
               r == a % c
    <2>0. a \in Nat
      BY <1>2
    <2>1. q \in Nat /\ r \in 0 .. c - 1 /\ a = c * q + r
      BY <2>0, DivMod
    <2> HIDE DEF q, r
    <2>2. c * q \in Nat /\ c * q <= a /\ a < c * q + c
      BY <2>1
    <2>3. ~ q >= d
      <3> SUFFICES ASSUME q >= d PROVE FALSE
        OBVIOUS
      <3>1. PICK z \in Nat : q = d + z
        <4>1. q - d \in Nat /\ q = d + (q - d)
          BY <2>1
        <4> QED
          BY <4>1
      <3>2. c * (d + z) = c * d + c * z /\ c * z \in Nat /\ c * d \in Nat
        OBVIOUS
      <3> QED
        BY <1>2, <2>2, <3>1, <3>2
    <2>4. PICK z \in Nat : d = q + 1 + z
      <3>1. d - q - 1 \in Nat /\ d = q + 1 + (d - q - 1)
        BY <2>1, <2>3
      <3> QED
        BY <3>1
    <2>5. c * (q + 1 + z) = c * q + c + c * z /\ c * z \in Nat
      BY <2>1
    <2>6. c * q + c <= c * d
      BY <2>2, <2>4, <2>5
    <2> QED
      BY ONLY <2>0, <2>1, <2>2, <2>6 DEF q
  <1>3. /\ a \in Nat /\ a \div 2^k \in Nat /\ NetworkOf(k, a) \in Nat
        /\ NetworkOf(k, a) <= a /\ a < NetworkOf(k, a) + 2^k
        /\ NetworkOf(k, a) + 2^k <= 2^k * 2^(Bits - k)
    BY ONLY <1>1, <1>2, ZenonT(40) DEF NetworkOf
  <1> QED
    BY ONLY <1>1, <1>3

(* & with the mask of a network is the network: CHOOSE has one candidate.   *)
LEMMA AndMask ==
  ASSUME NEW k \in 1 .. Bits - 1, NEW a \in Network!Addresses
  PROVE  Network!And(a, Mask(k)) = NetworkOf(k, a)
  <1> DEFINE n == NetworkOf(k, a)
             Both(x) == \A b \in 0 .. Bits - 1 :
               Network!Bit(x, b) = Network!Bit(a, b) * Network!Bit(Mask(k), b)
  <1>1. Bits \in Nat /\ k \in Nat /\ a \in Nat /\ a \div 2^k \in Nat /\ n \in Nat
        /\ 2^k \in Nat \ {0}
    BY NetworkOfFacts, MaskFacts, ToolboxAssumption
  <1>2. n \in Network!Addresses
    <2>1. n <= a /\ a \in 0 .. 2^Bits - 1 /\ 2^Bits \in Nat
      BY NetworkOfFacts, MaskFacts DEF Network!Addresses
    <2> HIDE DEF n
    <2> QED
      BY <1>1, <2>1 DEF Network!Addresses
  <1>3. Both(n)
    <2> SUFFICES ASSUME NEW b \in 0 .. Bits - 1
                 PROVE  Network!Bit(n, b) = Network!Bit(a, b) * Network!Bit(Mask(k), b)
      OBVIOUS
    <2>1. Network!Bit(Mask(k), b) = IF b < k THEN 0 ELSE 1
      BY ONLY MaskBits, k \in 1 .. Bits - 1, b \in 0 .. Bits - 1
    <2>2. b \in Nat /\ Network!Bit(a, b) \in Nat
      <3>1. b \in Nat
        OBVIOUS
      <3>2. 2^b \in Nat \ {0}
        BY ONLY <3>1, PowerPositive
      <3>3. ASSUME NEW d \in Nat \ {0} PROVE (a \div d) % 2 \in Nat
        BY <1>1
      <3> QED
        BY ONLY <3>1, <3>2, <3>3 DEF Network!Bit
    <2>3. ASSUME b < k PROVE Network!Bit(n, b) = 0
      BY ONLY <1>1, <2>2, <2>3, LowBits DEF n, NetworkOf
    <2>4. ASSUME ~ b < k PROVE Network!Bit(n, b) = Network!Bit(a, b)
      <3>1. b - k \in Nat /\ b = k + (b - k)
        BY <1>1, <2>2, <2>4
      <3>2. n \div 2^k = a \div 2^k
        <4>1. ASSUME NEW c \in Nat \ {0}, NEW q \in Nat PROVE (c * q) \div c = q
          <5>1. c * q = c * q + 0 /\ 0 \in 0 .. c - 1
            OBVIOUS
          <5> QED
            BY <5>1, DivModUnique
        <4> QED
          BY ONLY <1>1, <4>1 DEF n, NetworkOf
      <3>3. /\ Network!Bit(n, k + (b - k)) = Network!Bit(n \div 2^k, b - k)
            /\ Network!Bit(a, k + (b - k)) = Network!Bit(a \div 2^k, b - k)
        <4>1. ASSUME NEW c \in Nat, NEW z \in Nat
              PROVE  Network!Bit(z, k + c) = Network!Bit(z \div 2^k, c)
          BY ONLY <1>1, BitShift
        <4> HIDE DEF n
        <4> QED
          BY ONLY <1>1, <3>1, <4>1, Zenon
      <3> QED
        BY ONLY <3>1, <3>2, <3>3
    <2> HIDE DEF n
    <2> QED
      BY ONLY <2>1, <2>2, <2>3, <2>4
  <1> HIDE DEF n
  <1>4. ASSUME NEW x \in Network!Addresses, Both(x) PROVE x = n
    <2>1. \A b \in 0 .. Bits - 1 : Network!Bit(x, b) = Network!Bit(n, b)
      BY <1>3, <1>4
    <2> QED
      BY ONLY <1>1, <1>2, <2>1, SameBits, x \in Network!Addresses DEF Network!Addresses
  <1>5. Network!And(a, Mask(k)) = CHOOSE x \in Network!Addresses : Both(x)
    BY DEF Network!And
  <1> HIDE DEF Both
  <1>6. (CHOOSE x \in Network!Addresses : Both(x)) = n
    BY ONLY <1>2, <1>3, <1>4
  <1> QED
    BY ONLY <1>5, <1>6 DEF n

(* The hosts are the addresses between that of the network and the one for  *)
(* all its hosts, and perform_survey counts as many.                       *)
LEMMA HostsFacts ==
  ASSUME NEW k \in 1 .. Bits - 1, netmask = Mask(k), local \in Network!Addresses
  PROVE  /\ Network!network \in Nat /\ Network!network + 2^k <= 2^Bits
         /\ Network!Hosts = Network!network + 1 .. Network!network + 2^k - 2
         /\ Network!Cardinality(Network!Hosts) = 2^k - 2
         /\ Network!nodeCount = 2^k - 2
  <1> DEFINE n == NetworkOf(k, local)
  <1>1. Network!network = n
    BY AndMask DEF Network!network
  <1>2. n \in Nat /\ n + 2^k <= 2^Bits /\ 2^k \in Nat /\ 2^k >= 2 /\ 2^Bits \in Nat
    BY ONLY NetworkOfFacts, MaskFacts, local \in Network!Addresses, k \in 1 .. Bits - 1
  <1>3. {a \in Network!Addresses : Network!And(a, netmask) = n} = n .. n + 2^k - 1
    <2>1. ASSUME NEW a \in Network!Addresses PROVE Network!And(a, netmask) = n <=> a \in n .. n + 2^k - 1
      <3>1. Network!And(a, netmask) = NetworkOf(k, a)
        BY AndMask
      <3>2. /\ a \in Nat /\ NetworkOf(k, a) \in Nat
            /\ NetworkOf(k, a) <= a /\ a < NetworkOf(k, a) + 2^k
        BY ONLY NetworkOfFacts, k \in 1 .. Bits - 1, a \in Network!Addresses
      <3>3. ASSUME Network!And(a, netmask) = n PROVE a \in n .. n + 2^k - 1
        <4> HIDE DEF n
        <4> QED
          BY ONLY <1>2, <3>1, <3>2, <3>3
      <3>4. ASSUME a \in n .. n + 2^k - 1 PROVE NetworkOf(k, a) = n
        <4>1. a - n \in 0 .. 2^k - 1 /\ a = n + (a - n)
          <5> HIDE DEF n
          <5> QED
            BY ONLY <1>2, <3>2, <3>4
        <4>2. local \div 2^k \in Nat /\ 2^k \in Nat \ {0}
          BY ONLY NetworkOfFacts, MaskFacts, local \in Network!Addresses, k \in 1 .. Bits - 1
        <4>3. (2^k * (local \div 2^k) + (a - n)) \div 2^k = local \div 2^k
          BY ONLY <4>1, <4>2, DivModUnique
        <4> QED
          BY ONLY <4>1, <4>3 DEF n, NetworkOf
      <3> QED
        BY ONLY <3>1, <3>3, <3>4
    <2>2. n .. n + 2^k - 1 \subseteq Network!Addresses
      <3> HIDE DEF n
      <3> QED
        BY ONLY <1>2 DEF Network!Addresses
    <2> HIDE DEF n
    <2> QED
      BY ONLY <2>1, <2>2
  <1>4. n + 2^Bits - netmask - 1 = n + 2^k - 1
    <2> HIDE DEF n
    <2> QED
      BY ONLY <1>2, netmask = Mask(k) DEF Mask
  <1>5. Network!Hosts = n + 1 .. n + 2^k - 2
    <2>1. (n .. n + 2^k - 1) \ {n, n + 2^k - 1} = n + 1 .. n + 2^k - 2
      <3> HIDE DEF n
      <3> QED
        BY ONLY <1>2
    <2> HIDE DEF n
    <2> QED
      BY ONLY <1>1, <1>3, <1>4, <2>1 DEF Network!Hosts
  <1>6. Cardinality(n + 1 .. n + 2^k - 2) = 2^k - 2
    <2> HIDE DEF n
    <2>1. /\ n + 1 \in Int /\ n + 2^k - 2 \in Int
          /\ (IF n + 1 > n + 2^k - 2 THEN 0 ELSE (n + 2^k - 2) - (n + 1) + 1) = 2^k - 2
      BY ONLY <1>2
    <2> QED
      BY ONLY <2>1, FS_Interval
  <1>7. Network!Cardinality(n + 1 .. n + 2^k - 2) = Cardinality(n + 1 .. n + 2^k - 2)
    BY DEF Network!Cardinality, Cardinality
  <1>8. Network!nodeCount = 2^k - 2
    <2>1. Network!bitcount(netmask) = Bits - k
      BY MaskCount
    <2>2. Bits - k \notin {0, Bits} /\ Bits - (Bits - k) = k
      BY ToolboxAssumption
    <2> QED
      BY ONLY <2>1, <2>2 DEF Network!nodeCount
  <1> HIDE DEF n
  <1> QED
    BY ONLY <1>1, <1>2, <1>5, <1>6, <1>7, <1>8
-----------------------------------------------------------------------------
(* The survey                                                              *)

\* The numbers of the interface are addresses; the survey of a network is
\* inside it, and finished at its end.
NetworkInv ==
  /\ local \in Network!Addresses /\ netmask \in Network!Addresses /\ i \in Nat
  /\ Network!Contiguous =>
       /\ i <= Network!nodeCount
       /\ asked \subseteq Network!Hosts \ {local}
       /\ survey = "finished" => i = Network!nodeCount

(* A mask that Contiguous names is one of those the lemmas are about.      *)
LEMMA ContiguousFacts ==
  ASSUME Network!Contiguous, local \in Network!Addresses
  PROVE  \E n \in Nat :
           /\ Network!nodeCount = n /\ Network!Cardinality(Network!Hosts) = n
           /\ Network!network \in Nat /\ Network!network + n + 2 <= 2^Bits
           /\ Network!Hosts = Network!network + 1 .. Network!network + n
  <1>1. PICK k \in 1 .. Bits - 1 : netmask = Mask(k)
    BY DEF Network!Contiguous, Mask
  <1>2. 2^k \in Nat /\ 2^k >= 2
    BY ONLY MaskFacts, k \in 1 .. Bits - 1
  <1>3. /\ Network!network \in Nat /\ Network!network + 2^k <= 2^Bits
        /\ Network!Hosts = Network!network + 1 .. Network!network + 2^k - 2
        /\ Network!Cardinality(Network!Hosts) = 2^k - 2
        /\ Network!nodeCount = 2^k - 2
    BY <1>1, HostsFacts
  <1>4. 2^Bits \in Nat
    BY ONLY MaskFacts, k \in 1 .. Bits - 1
  <1>5. /\ 2^k - 2 \in Nat /\ Network!network + (2^k - 2) + 2 <= 2^Bits
        /\ Network!Hosts = Network!network + 1 .. Network!network + (2^k - 2)
    BY ONLY <1>2, <1>3, <1>4
  <1> QED
    BY ONLY <1>3, <1>5

(* The next address of a survey that is not finished is that of a host.    *)
LEMMA NextHost ==
  ASSUME NetworkInv, Network!Contiguous, Network!More
  PROVE  /\ i < Network!nodeCount /\ i < 2^Bits
         /\ Network!ip4addr \in Network!Hosts
  <1>1. PICK n \in Nat :
          /\ Network!nodeCount = n
          /\ Network!network \in Nat /\ Network!network + n + 2 <= 2^Bits
          /\ Network!Hosts = Network!network + 1 .. Network!network + n
    BY ContiguousFacts DEF NetworkInv
  <1>2. i \in Nat /\ i < n
    BY <1>1 DEF Network!More, Network!Endless, NetworkInv
  <1>3. 2^Bits \in Nat \ {0}
    BY PowerPositive, ToolboxAssumption
  <1>4. ASSUME NEW d \in Nat \ {0}, NEW x \in Nat, x < d PROVE x % d = x
    BY <1>4
  <1>5. Network!network + i + 1 \in Nat /\ Network!network + i + 1 < 2^Bits
    BY ONLY <1>1, <1>2, <1>3
  <1>6. Network!ip4addr = Network!network + i + 1
    BY ONLY <1>3, <1>4, <1>5 DEF Network!ip4addr
  <1> QED
    BY ONLY <1>1, <1>2, <1>3, <1>5, <1>6

(* Every step keeps the survey in its network.                             *)
LEMMA NetworkStep ==
  ASSUME NetworkInv, Network!Next \/ UNCHANGED network
  PROVE  NetworkInv'
  <1>1. local' = local /\ netmask' = netmask
    BY DEF Network!Next, Network!Inject, Network!SkipSelf, Network!Finish, network
  <1>2. /\ Network!Addresses' = Network!Addresses /\ Network!nodeCount' = Network!nodeCount
        /\ Network!Hosts' = Network!Hosts /\ Network!Contiguous' = Network!Contiguous
    BY <1>1 DEF Network!Addresses, Network!nodeCount, Network!Hosts, Network!Contiguous,
                Network!network, Network!And, Network!bitcount, Network!Endless
  <1>3. i' \in Nat
    <2>1. i \in Nat
      BY DEF NetworkInv
    <2>2. ASSUME Network!Tried PROVE i' \in Nat
      BY <2>1, <2>2 DEF Network!Tried
    <2> QED
      BY <2>1, <2>2 DEF Network!Next, Network!Inject, Network!SkipSelf, Network!Finish,
                        network
  <1>4. ASSUME Network!Contiguous
        PROVE  /\ i' <= Network!nodeCount
               /\ asked' \subseteq Network!Hosts \ {local}
               /\ survey' = "finished" => i' = Network!nodeCount
    <2>1. /\ i \in Nat /\ i <= Network!nodeCount
          /\ asked \subseteq Network!Hosts \ {local}
          /\ survey = "finished" => i = Network!nodeCount
      BY <1>4 DEF NetworkInv
    <2>2. PICK n \in Nat : Network!nodeCount = n
      BY <1>4, ContiguousFacts DEF NetworkInv
    <2>3. ASSUME Network!Tried, Network!More PROVE i' = i + 1 /\ i + 1 <= n
      <3>1. i < n /\ i < 2^Bits
        BY <1>4, <2>2, <2>3, NextHost
      <3> QED
        BY <2>1, <2>2, <2>3, <3>1 DEF Network!Tried
    <2>4. CASE Network!Inject
      <3>1. Network!More /\ survey = "running" /\ Network!ip4addr # local
        BY <2>4 DEF Network!Inject, Network!More
      <3>2. Network!ip4addr \in Network!Hosts
        BY <1>4, <3>1, NextHost
      <3>3. asked' \subseteq asked \union {Network!ip4addr}
        BY <2>4 DEF Network!Inject
      <3>4. survey' # "finished" /\ (i' = i \/ Network!Tried)
        BY <2>4, <3>1 DEF Network!Inject
      <3>5. i' <= n
        BY <2>1, <2>2, <2>3, <3>1, <3>4
      <3> QED
        BY ONLY <2>1, <2>2, <3>1, <3>2, <3>3, <3>4, <3>5
    <2>5. CASE Network!SkipSelf
      <3>1. Network!More /\ Network!Tried /\ survey' = "running" /\ asked' = asked
        BY <2>5 DEF Network!SkipSelf, Network!More
      <3> QED
        BY ONLY <2>1, <2>2, <2>3, <3>1
    <2>6. CASE Network!Finish
      <3>1. i' = i /\ asked' = asked /\ survey = "running" /\ ~Network!More
        BY <2>6 DEF Network!Finish
      <3>2. ~ i < n
        BY ONLY <2>2, <3>1 DEF Network!More
      <3> QED
        BY ONLY <2>1, <2>2, <3>1, <3>2
    <2>7. CASE UNCHANGED network
      BY <2>1, <2>7 DEF network
    <2> QED
      BY <2>4, <2>5, <2>6, <2>7 DEF Network!Next
  <1> QED
    BY <1>1, <1>2, <1>3, <1>4 DEF NetworkInv

-----------------------------------------------------------------------------
(* The capture thread                                                      *)

(* Of the frames that pass, only what another machine has said in a reply  *)
(* to this one is taken for an answer.                                     *)
LEMMA TrafficStep ==
  ASSUME hw \in Machines, AnswersAreReplies, Traffic!Next \/ UNCHANGED traffic
  PROVE  hw' \in Machines /\ AnswersAreReplies'
  <1>1. CASE Traffic!Reply \/ UNCHANGED traffic
    BY <1>1 DEF AnswersAreReplies, Traffic!AnswersAreReplies, Traffic!Reply, traffic
  <1>2. CASE Traffic!handlePacket
    <2>1. PICK frame \in Traffic!Passing :
            Traffic!arp_is_reply(frame) /\ answers' = answers \union {frame.sip}
      BY <1>2 DEF Traffic!handlePacket
    <2>2. /\ frame.dhost = hw /\ frame.shost # hw
          /\ frame.type = "arp" /\ frame.op = "reply"
      BY <2>1 DEF Traffic!arp_is_reply
    <2>3. frame.dhost # "broadcast"
      BY <2>2, ToolboxAssumption
    <2>4. frame \in Traffic!Replies
      <3>1. ASSUME NEW m, NEW a, frame = Traffic!arp_request_create(m, m, a) PROVE FALSE
        BY <2>2, <3>1 DEF Traffic!arp_request_create
      <3>2. ASSUME NEW m, frame = [Traffic!arp_reply_create(m, m, m, m) EXCEPT !.dhost = "broadcast"]
            PROVE  FALSE
        BY <2>3, <3>2 DEF Traffic!arp_reply_create
      <3>3. ASSUME NEW m, frame = [Traffic!arp_reply_create(m, m, hw, hw) EXCEPT !.type = "ip"]
            PROVE  FALSE
        BY <2>2, <3>3 DEF Traffic!arp_reply_create
      <3> QED
        BY <2>1, <3>1, <3>2, <3>3 DEF Traffic!Passing
    <2>5. frame.sip \in replied
      <3>1. ASSUME NEW a, NEW m, frame = Traffic!arp_reply_create(a, hw, m, m) PROVE FALSE
        BY <2>2, <3>1 DEF Traffic!arp_reply_create
      <3>2. ASSUME NEW a, NEW m, NEW n \in Machines \ {hw},
                   frame = Traffic!arp_reply_create(a, m, n, n)
            PROVE  FALSE
        BY <2>2, <3>2 DEF Traffic!arp_reply_create
      <3>3. ASSUME NEW a \in replied, NEW m, frame = Traffic!arp_reply_create(a, m, hw, hw)
            PROVE  frame.sip \in replied
        BY <3>3 DEF Traffic!arp_reply_create
      <3> QED
        BY <2>4, <3>1, <3>2, <3>3 DEF Traffic!Replies
    <2> QED
      BY <1>2, <2>1, <2>5 DEF AnswersAreReplies, Traffic!AnswersAreReplies, Traffic!handlePacket
  <1> QED
    BY <1>1, <1>2 DEF Traffic!Next

-----------------------------------------------------------------------------
(* The theorems                                                            *)

TrafficInv == hw \in Machines /\ AnswersAreReplies

IInv == RingInv /\ SocketsInv /\ PgmInv /\ NetworkInv /\ TrafficInv

(* The helpers begin as the invariant says.                                *)
LEMMA InitInvariant ==
  ASSUME Init
  PROVE  IInv
  <1>1. RingInv
    <2>1. /\ begin = 0 /\ end = 0 /\ size = 0 /\ content = <<>> /\ added = 0 /\ sound = TRUE
          /\ memory = [p \in 0 .. Capacity - 1 |-> 0]
      BY DEF Init, Ring!Init
    <2>2. Capacity \in Nat \ {0} /\ content \in Seq(Nat) /\ Len(content) = 0
      BY <2>1, ToolboxAssumption
    <2> QED
      BY <2>1, <2>2 DEF RingInv, RingType, Holds, Behind
  <1>2. SocketsInv
    <2>1. 0 \in Sockets!Fds
      BY ToolboxAssumption DEF Sockets!Fds
    <2> QED
      BY <2>1 DEF Init, Sockets!Init, SocketsInv, SocketsType, Sockets!RefusedIsClosed,
                  Sockets!UsableIsOpen
  <1>3. PgmInv
    <2>1. 0 .. 0 - 1 = {} /\ 0 \in 0 .. Groups
      BY ToolboxAssumption
    <2> QED
      BY <2>1 DEF Init, Pgm!Init, PgmInv, Inside
  <1>4. NetworkInv
    <2>1. /\ local \in Network!Addresses /\ netmask \in Network!Addresses
          /\ i = 0 /\ survey = "running" /\ asked = {}
      BY DEF Init, Network!Init
    <2>2. ASSUME Network!Contiguous PROVE i <= Network!nodeCount
      <3>1. PICK n \in Nat : Network!nodeCount = n
        BY <2>1, <2>2, ContiguousFacts
      <3> QED
        BY <2>1, <3>1
    <2> QED
      BY <2>1, <2>2 DEF NetworkInv
  <1>5. TrafficInv
    BY DEF Init, Traffic!Init, TrafficInv, AnswersAreReplies, Traffic!AnswersAreReplies
  <1> QED
    BY <1>1, <1>2, <1>3, <1>4, <1>5 DEF IInv

(* The inductive invariant of the helpers holds throughout: where the      *)
(* bytes of the ring buffer are, who has each descriptor and what its      *)
(* connection came to, and what create_pgm_socket holds at each call.      *)
THEOREM Invariant == Spec => []IInv
  <1>1. Init => IInv
    BY InitInvariant
  <1>2. IInv /\ [Next]_vars => IInv'
    <2> SUFFICES ASSUME IInv, [Next]_vars PROVE IInv'
      OBVIOUS
    <2>1. Ring!Next \/ UNCHANGED ring
      BY DEF Next, vars
    <2>2. Sockets!Next \/ UNCHANGED sockets
      BY DEF Next, vars
    <2>3. Pgm!Next \/ UNCHANGED multicast
      BY DEF Next, vars
    <2>4. Network!Next \/ UNCHANGED network
      BY DEF Next, vars
    <2>5. RingInv'
      BY <2>1, RingStep DEF IInv
    <2>6. SocketsInv'
      BY <2>2, SocketsStep DEF IInv
    <2>7. PgmInv'
      BY <2>3, PgmStep DEF IInv
    <2>8. NetworkInv'
      BY <2>4, NetworkStep DEF IInv
    <2>9. TrafficInv'
      <3>1. Traffic!Next \/ UNCHANGED traffic
        BY DEF Next, vars
      <3> QED
        BY <3>1, TrafficStep DEF IInv, TrafficInv
    <2> QED
      BY <2>5, <2>6, <2>7, <2>8, <2>9 DEF IInv
  <1> QED
    BY <1>1, <1>2, PTL DEF Spec

(* pick, get and what send hands to the socket are the oldest bytes of the *)
(* buffer in their order, up to a call that leaves its content unknown.    *)
THEOREM ReadsOldestFirstHolds == Spec => []ReadsOldestFirst
  <1>1. IInv => ReadsOldestFirst
    BY ReadsFacts DEF IInv, ReadsOldestFirst
  <1> QED
    BY <1>1, Invariant, PTL

(* No connect helper leaves a refused connection open, whatever errno was  *)
(* before.                                                                 *)
THEOREM RefusedIsClosedHolds == Spec => []RefusedIsClosed
  <1>1. IInv => RefusedIsClosed
    BY DEF IInv, SocketsInv, RefusedIsClosed
  <1> QED
    BY <1>1, Invariant, PTL

(* A configuration that commit_config calls usable has its socket, though  *)
(* a failed socket passes its first check.                                 *)
THEOREM UsableIsOpenHolds == Spec => []UsableIsOpen
  <1>1. IInv => UsableIsOpen
    BY DEF IInv, SocketsInv, UsableIsOpen
  <1> QED
    BY <1>1, Invariant, PTL

(* Whichever of its calls fails, create_pgm_socket leaves nothing behind   *)
(* and returns an open socket or none.                                     *)
THEOREM AllOrNothingHolds == Spec => []AllOrNothing
  <1>1. IInv => AllOrNothing
    BY PgmFacts DEF IInv, AllOrNothing
  <1> QED
    BY <1>1, Invariant, PTL

(* Whatever frames pass, the capture thread takes an address for that of   *)
(* an answer only if another machine said in a reply to this one that it   *)
(* has it.                                                                 *)
THEOREM AnswersAreRepliesHolds == Spec => []AnswersAreReplies
  <1>1. IInv => AnswersAreReplies
    BY DEF IInv, TrafficInv
  <1> QED
    BY <1>1, Invariant, PTL

(* With the mask of a network, of whatever length, the survey asks only    *)
(* hosts of the network, never itself nor the two addresses that no host   *)
(* has, and when it is finished it has tried them all.                     *)
THEOREM AsksItsNetworkHolds == Spec => []AsksItsNetwork
  <1>1. ASSUME IInv PROVE AsksItsNetwork
    <2> SUFFICES ASSUME Network!Contiguous
                 PROVE  /\ asked \subseteq Network!Hosts \ {local}
                        /\ survey = "finished" => i = Network!Cardinality(Network!Hosts)
      BY DEF AsksItsNetwork, Network!AsksItsNetwork
    <2>1. Network!nodeCount = Network!Cardinality(Network!Hosts)
      BY <1>1, ContiguousFacts DEF IInv, NetworkInv
    <2> QED
      BY <1>1, <2>1 DEF IInv, NetworkInv
  <1> QED
    BY <1>1, Invariant, PTL

=============================================================================
