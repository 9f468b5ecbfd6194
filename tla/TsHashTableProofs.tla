-------------------------- MODULE TsHashTableProofs --------------------------
(***************************************************************************)
(* The invariants of TsHashTable and that it implements ConcurrentMap, for *)
(* any threads, keys and values, any hash function and any initial length. *)
(***************************************************************************)
EXTENDS TsHashTable, FiniteSetTheorems, FunctionTheorems, TLAPS

-----------------------------------------------------------------------------
(* The inductive invariant *)

PcPlaces == {"idle", "body", "expand", "put", "count", "uncount", "release"}

TypeOK ==
  /\ length \in Nat \ {0}
  /\ table \in [0 .. length - 1 -> Seq(Bucket)]
  /\ capacity \in Int
  /\ readers \subseteq Threads /\ writer \in Threads \union {Nobody}
  /\ pc \in [Threads -> PcPlaces]
  /\ op \in [Threads -> Reads \union Takes \union Puts \union {NoValue}]
  /\ ret \in [Threads -> [found : BOOLEAN, val : Values \union {NoValue}]]
  /\ old \in Seq(Seq(Bucket)) /\ place \in Nat
  /\ alive \in BOOLEAN

Adding(t) == pc[t] \in {"expand", "put", "count"}
Expanding == writer # Nobody /\ pc[writer] = "expand"

\* Whoever is inside an operation holds the lock as the operation needs it.
Locked ==
  /\ \A t \in Threads : pc[t] = "idle" <=> t \notin readers /\ t # writer
  /\ writer # Nobody => readers = {} /\ op[writer] \in Puts \union Takes
  /\ \A t \in readers : op[t] \in Reads /\ pc[t] \in {"body", "release"}
  /\ \A t \in Threads : Adding(t) => writer = t /\ op[t] \in Puts /\ op[t].name = "add"
  /\ \A t \in Threads : pc[t] = "uncount" => writer = t /\ op[t] \in Takes

\* The old chains are there while a writer expands the table, and those it has
\* passed are empty.
Growing ==
  /\ ~Expanding => old = <<>>
  /\ Expanding => place <= Len(old) /\ \A i \in 1 .. place : old[i] = <<>>

\* The bucket at a place of some chains, and whether each is in the chain that
\* its key's hash names, the only one with its key.
At(c, x) == c[x[1]][x[2]]

Home(k, len, base) == get_place(len, Hash[k]) + base

Keyed(c, len, base) ==
  \A x \in Places(c) :
    /\ x[1] = Home(At(c, x).key, len, base)
    /\ \A y \in Places(c) : At(c, x).key = At(c, y).key => x = y

\* The old chains are those of the table before, which was as long as they are.
WellPlaced == Keyed(table, length, 0)
OldWellPlaced == Keyed(old, Len(old), 1)

\* A key with an old bucket has no new one.
Apart ==
  \A x \in Places(table), y \in Places(old) : At(table, x).key # At(old, y).key

Chains == WellPlaced /\ OldWellPlaced /\ Apart

\* There are finitely many buckets, and the count may be off.  It lags behind them
\* by one while an add has yet to count what it has linked, and by one the other
\* way while a remove or a steal still counts what it has deleted.
Short(bias) ==
  /\ IsFiniteSet(Places(table)) /\ IsFiniteSet(Places(old))
  /\ capacity + bias = Cardinality(Places(table)) + Cardinality(Places(old))

Lag ==
  IF \E t \in Threads : pc[t] = "count" THEN 1
    ELSE IF \E t \in Threads : pc[t] = "uncount" THEN -1 ELSE 0
Counted == Short(Lag)

IInv ==
  /\ TypeOK /\ Locked /\ Growing
  /\ Chains /\ Counted /\ NoLeak

-----------------------------------------------------------------------------
(* Facts about chains                                                      *)

(* A chain may be empty.                                                   *)
LEMMA EmptyChain ==
  ASSUME NEW S
  PROVE  <<>> \in Seq(S)
  OBVIOUS

(* Drop leaves out one bucket of a chain.                                  *)
LEMMA DropFacts ==
  ASSUME NEW S, NEW s \in Seq(S), NEW n \in 1 .. Len(s)
  PROVE  /\ Drop(s, n) \in Seq(S) /\ Len(Drop(s, n)) = Len(s) - 1
         /\ \A m \in 1 .. Len(s) - 1 : Drop(s, n)[m] = IF m < n THEN s[m] ELSE s[m + 1]
  <1> DEFINE a == SubSeq(s, 1, n - 1)
             b == SubSeq(s, n + 1, Len(s))
  <1>1. Len(s) \in Nat /\ n \in Nat /\ n >= 1 /\ n <= Len(s)
    OBVIOUS
  <1>2. a \in Seq(S) /\ Len(a) = n - 1 /\ \A m \in 1 .. n - 1 : a[m] = s[m]
    BY <1>1
  <1>3. /\ b \in Seq(S) /\ Len(b) = Len(s) - n
        /\ \A m \in 1 .. Len(s) - n : b[m] = s[n + m]
    BY <1>1
  <1>4. Drop(s, n) = a \o b
    BY DEF Drop
  <1> HIDE DEF a, b
  <1>5. /\ a \o b \in Seq(S) /\ Len(a \o b) = Len(s) - 1
        /\ \A m \in 1 .. Len(s) - 1 : (a \o b)[m] = IF m < n THEN a[m] ELSE b[m - (n - 1)]
    <2>1. a \in Seq(S) /\ b \in Seq(S) /\ Len(a) = n - 1 /\ Len(b) = Len(s) - n
      BY <1>2, <1>3
    <2>2. a \o b \in Seq(S) /\ Len(a \o b) = Len(a) + Len(b)
      BY <2>1
    <2>3. \A m \in 1 .. Len(a) + Len(b) : (a \o b)[m] = IF m <= Len(a) THEN a[m] ELSE b[m - Len(a)]
      BY <2>1
    <2>4. Len(a) + Len(b) = Len(s) - 1 /\ \A m \in Nat : m <= Len(a) <=> m < n
      BY <1>1, <2>1
    <2> QED
      BY <1>2, <1>3, <2>2, <2>3, <2>4
  <1>6. ASSUME NEW m \in 1 .. Len(s) - 1
        PROVE  (a \o b)[m] = IF m < n THEN s[m] ELSE s[m + 1]
    <2>1. CASE m < n
      BY <1>1, <1>2, <1>5, <2>1
    <2>2. CASE ~(m < n)
      <3>1. m - (n - 1) \in 1 .. Len(s) - n /\ n + (m - (n - 1)) = m + 1
        BY <1>1, <2>2
      <3>2. b[m - (n - 1)] = s[n + (m - (n - 1))]
        BY <1>3, <3>1
      <3> QED
        BY <1>5, <2>2, <3>1, <3>2
    <2> QED
      BY <2>1, <2>2
  <1> QED
    BY <1>4, <1>5, <1>6

(* A bucket in front of a chain moves the others up.                       *)
LEMMA FrontFacts ==
  ASSUME NEW S, NEW s \in Seq(S), NEW b \in S
  PROVE  /\ <<b>> \o s \in Seq(S) /\ Len(s) \in Nat /\ Len(<<b>> \o s) = Len(s) + 1
         /\ (<<b>> \o s)[1] = b
         /\ \A m \in 2 .. Len(s) + 1 : (<<b>> \o s)[m] = s[m - 1]
  OBVIOUS

(* The places of some chains are pairs of an index and a position.         *)
LEMMA PlacesFacts ==
  ASSUME NEW c, NEW x
  PROVE  x \in Places(c) <=> \E i \in DOMAIN c : \E n \in 1 .. Len(c[i]) : x = <<i, n>>
  BY DEF Places

(* There is a bucket at every place.                                       *)
LEMMA PlaceFacts ==
  ASSUME NEW D, NEW c \in [D -> Seq(Bucket)]
  PROVE  /\ \A x \in Places(c) : /\ x = <<x[1], x[2]>> /\ x[1] \in D
                                 /\ x[2] \in Nat /\ x[2] \in 1 .. Len(c[x[1]])
                                 /\ At(c, x) \in Bucket
  <1>1. DOMAIN c = D /\ \A i \in D : c[i] \in Seq(Bucket) /\ Len(c[i]) \in Nat
    <2>1. \A i \in D : c[i] \in Seq(Bucket)
      OBVIOUS
    <2> QED
      BY <2>1
  <1>2. ASSUME NEW x \in Places(c)
        PROVE  /\ x = <<x[1], x[2]>> /\ x[1] \in D
               /\ x[2] \in Nat /\ x[2] \in 1 .. Len(c[x[1]])
               /\ At(c, x) \in Bucket
    <2>1. PICK i \in D : \E n \in 1 .. Len(c[i]) : x = <<i, n>>
      BY <1>1, <1>2, PlacesFacts
    <2>2. PICK n \in 1 .. Len(c[i]) : x = <<i, n>>
      BY <2>1
    <2>3. n \in Nat /\ c[i][n] \in Bucket
      BY <1>1
    <2> QED
      BY <2>2, <2>3 DEF At
  <1> QED
    BY <1>2

(* And each bucket of a chain is at one.                                   *)
LEMMA HasPlace ==
  ASSUME NEW D, NEW c \in [D -> Seq(Bucket)], NEW i \in D, NEW n \in 1 .. Len(c[i])
  PROVE  n \in Nat /\ <<i, n>> \in Places(c) /\ At(c, <<i, n>>) = c[i][n]
  <1>1. DOMAIN c = D /\ c[i] \in Seq(Bucket)
    OBVIOUS
  <1>2. n \in Nat
    BY <1>1
  <1> QED
    BY <1>1, <1>2, PlacesFacts DEF At

(* A bucket is a key and a value.                                          *)
LEMMA BucketFacts ==
  ASSUME NEW b \in Bucket
  PROVE  b.key \in Keys /\ b.val \in Values /\ b = [key |-> b.key, val |-> b.val]
  BY DEF Bucket

(* They depend on the lengths of the chains alone.                         *)
LEMMA PlacesSame ==
  ASSUME NEW c, NEW d, DOMAIN c = DOMAIN d, \A i \in DOMAIN c : Len(c[i]) = Len(d[i])
  PROVE  Places(d) = Places(c)
  <1>1. \A x : x \in Places(c) <=> x \in Places(d)
    BY PlacesFacts
  <1> QED
    BY <1>1

(* Empty chains have no place.                                             *)
LEMMA PlacesEmpty ==
  ASSUME NEW c, \A i \in DOMAIN c : c[i] = <<>>
  PROVE  Places(c) = {}
  <1>1. \A i \in DOMAIN c : 1 .. Len(c[i]) = {}
    OBVIOUS
  <1>2. \A x : x \notin Places(c)
    BY <1>1, PlacesFacts
  <1> QED
    BY <1>2

(* A chain that is longer by one has one place more.                       *)
LEMMA PlacesGrow ==
  ASSUME NEW D, NEW c \in [D -> Seq(Bucket)], NEW j \in D, NEW s \in Seq(Bucket),
         Len(s) = Len(c[j]) + 1, IsFiniteSet(Places(c))
  PROVE  LET d == [c EXCEPT ![j] = s]
         IN  IsFiniteSet(Places(d)) /\ Cardinality(Places(d)) = Cardinality(Places(c)) + 1
  <1> DEFINE d == [c EXCEPT ![j] = s]
             new == <<j, Len(s)>>
  <1>1. /\ DOMAIN d = D /\ DOMAIN c = D /\ d[j] = s
        /\ \A i \in D : i # j => d[i] = c[i]
    OBVIOUS
  <1>2. Len(c[j]) \in Nat /\ 1 .. Len(s) = (1 .. Len(c[j])) \union {Len(s)}
        /\ Len(s) \notin 1 .. Len(c[j]) /\ Len(s) \in 1 .. Len(s)
    <2>1. c[j] \in Seq(Bucket)
      OBVIOUS
    <2> QED
      BY <2>1
  <1> HIDE DEF d
  <1>3. ASSUME NEW x \in Places(d) PROVE x \in Places(c) \union {new}
    <2>1. PICK i \in D, n \in Nat : n \in 1 .. Len(d[i]) /\ x = <<i, n>>
      BY <1>1, <1>3, PlacesFacts
    <2>2. i # j => x \in Places(c)
      BY <1>1, <2>1, PlacesFacts
    <2>3. i = j => x = new \/ n \in 1 .. Len(c[j])
      BY <1>1, <1>2, <2>1
    <2> QED
      BY <1>1, <2>1, <2>2, <2>3, PlacesFacts
  <1>4. ASSUME NEW x \in Places(c) \union {new} PROVE x \in Places(d)
    <2>1. CASE x = new
      BY <1>1, <1>2, <2>1, PlacesFacts
    <2>2. CASE x \in Places(c)
      <3>1. PICK i \in D, n \in Nat : n \in 1 .. Len(c[i]) /\ x = <<i, n>>
        BY <1>1, <2>2, PlacesFacts
      <3>2. n \in 1 .. Len(d[i])
        BY <1>1, <1>2, <3>1
      <3> QED
        BY <1>1, <3>1, <3>2, PlacesFacts
    <2> QED
      BY <1>4, <2>1, <2>2
  <1>5. new \notin Places(c)
    <2>1. SUFFICES ASSUME NEW i \in D, NEW n \in Nat, n \in 1 .. Len(c[i]), new = <<i, n>> PROVE FALSE
      BY <1>1, PlacesFacts
    <2>2. i = j /\ n = Len(s)
      BY <2>1
    <2> QED
      BY <1>2, <2>1, <2>2
  <1>6. Places(d) = Places(c) \union {new}
    BY <1>3, <1>4
  <1>7. IsFiniteSet(Places(d)) /\ Cardinality(Places(d)) = Cardinality(Places(c)) + 1
    BY <1>5, <1>6, FS_AddElement
  <1> QED
    BY <1>7 DEF d

(* A chain that is shorter by one has one place less.                      *)
LEMMA PlacesShrink ==
  ASSUME NEW D, NEW c \in [D -> Seq(Bucket)], NEW j \in D, NEW s \in Seq(Bucket),
         Len(s) = Len(c[j]) - 1, IsFiniteSet(Places(c))
  PROVE  LET d == [c EXCEPT ![j] = s]
         IN  IsFiniteSet(Places(d)) /\ Cardinality(Places(d)) = Cardinality(Places(c)) - 1
  <1> DEFINE d == [c EXCEPT ![j] = s]
  <1>1. /\ d \in [D -> Seq(Bucket)] /\ DOMAIN c = D /\ DOMAIN d = D /\ d[j] = s
        /\ \A i \in D : i # j => d[i] = c[i]
        /\ c = [d EXCEPT ![j] = c[j]] /\ c[j] \in Seq(Bucket)
    OBVIOUS
  <1>2. Len(c[j]) \in Nat /\ Len(c[j]) = Len(s) + 1
    BY <1>1
  <1> HIDE DEF d
  <1>3. \A i \in D : \A n \in 1 .. Len(d[i]) : n \in 1 .. Len(c[i])
    BY <1>1, <1>2
  <1>4. Places(d) \subseteq Places(c)
    BY <1>1, <1>3, PlacesFacts
  <1>5. IsFiniteSet(Places(d))
    BY <1>4, FS_Subset
  <1>6. Cardinality(Places(c)) = Cardinality(Places(d)) + 1
    BY <1>1, <1>2, <1>5, PlacesGrow
  <1>7. Cardinality(Places(d)) \in Nat
    BY <1>5, FS_CardinalityType
  <1> QED
    BY <1>5, <1>6, <1>7 DEF d

-----------------------------------------------------------------------------
(* Facts about buckets and operations                                      *)

(* get_place names a chain of the table.                                   *)
LEMMA IndexFacts ==
  ASSUME NEW k \in Keys, NEW len \in Nat \ {0}
  PROVE  get_place(len, Hash[k]) \in 0 .. len - 1
  <1>1. Hash[k] \in Nat
    BY TsHashTableAssumption
  <1> QED
    BY <1>1 DEF get_place

(* get_bucket finds the one bucket of the chain that has the key.          *)
LEMMA FoundFacts ==
  ASSUME TypeOK, WellPlaced, NEW k \in Keys
  PROVE  /\ Index(k) \in 0 .. length - 1
         /\ Chain(k) \in Seq(Bucket) /\ Chain(k) = table[Index(k)]
         /\ Found(k) => /\ First(k) \in 1 .. Len(Chain(k))
                        /\ \A m \in 1 .. Len(Chain(k)) : Chain(k)[m].key = k <=> m = First(k)
         /\ ~Found(k) => \A m \in 1 .. Len(Chain(k)) : Chain(k)[m].key # k
         /\ Value(k) \in Values \union {NoValue}
  <1>1. Index(k) \in 0 .. length - 1
    BY IndexFacts DEF Index, TypeOK
  <1>2. Chain(k) \in Seq(Bucket) /\ Chain(k) = table[Index(k)]
    BY <1>1 DEF Chain, TypeOK
  <1>3. ASSUME Found(k)
        PROVE  /\ First(k) \in 1 .. Len(Chain(k))
               /\ \A m \in 1 .. Len(Chain(k)) : Chain(k)[m].key = k <=> m = First(k)
    <2>1. PICK n \in Matches(Chain(k), k) : TRUE
      BY <1>3 DEF Found
    <2>2. n \in 1 .. Len(Chain(k)) /\ Chain(k)[n].key = k
      BY <2>1 DEF Matches
    <2>3. \A m \in 1 .. Len(Chain(k)) : Chain(k)[m].key = k => m = n
      <3>1. ASSUME NEW m \in 1 .. Len(Chain(k)), Chain(k)[m].key = k PROVE m = n
        <4>1. \A h \in 1 .. Len(Chain(k)) :
                <<Index(k), h>> \in Places(table) /\ At(table, <<Index(k), h>>) = Chain(k)[h]
          <5>1. table \in [0 .. length - 1 -> Seq(Bucket)]
            BY DEF TypeOK
          <5>2. ASSUME NEW h \in 1 .. Len(Chain(k))
                PROVE  <<Index(k), h>> \in Places(table)
                       /\ At(table, <<Index(k), h>>) = Chain(k)[h]
            <6>1. h \in 1 .. Len(table[Index(k)])
              BY <1>2
            <6>2. <<Index(k), h>> \in Places(table)
                  /\ At(table, <<Index(k), h>>) = table[Index(k)][h]
              BY ZenonT(40), <1>1, <5>1, <6>1, HasPlace
            <6> QED
              BY <1>2, <6>2
          <5> QED
            BY <5>2
        <4>2. \A x, y \in Places(table) : At(table, x).key = At(table, y).key => x = y
          BY DEF WellPlaced, Keyed
        <4>3. <<Index(k), m>> = <<Index(k), n>>
          BY <2>2, <3>1, <4>1, <4>2
        <4> QED
          BY <4>3
      <3> QED
        BY <3>1
    <2>4. \A m : m \in Matches(Chain(k), k) <=> m = n
      BY <2>2, <2>3 DEF Matches
    <2>5. First(k) = n
      BY <2>2, <2>4 DEF First
    <2> QED
      BY <2>2, <2>3, <2>5
  <1>4. ~Found(k) => \A m \in 1 .. Len(Chain(k)) : Chain(k)[m].key # k
    BY DEF Found, Matches
  <1>5. Value(k) \in Values \union {NoValue}
    <2>1. CASE Found(k)
      <3>1. Chain(k)[First(k)] \in Bucket
        BY <1>2, <1>3, <2>1
      <3> QED
        BY <2>1, <3>1 DEF Value, Bucket
    <2>2. CASE ~Found(k)
      BY <2>2 DEF Value
    <2> QED
      BY <2>1, <2>2
  <1> QED
    BY <1>1, <1>2, <1>3, <1>4, <1>5

(* A thread inside an operation is a reader with a reading one or the      *)
(* writer with a writing one.                                              *)
LEMMA OpFacts ==
  ASSUME TypeOK, Locked, NEW t \in Threads, pc[t] # "idle"
  PROVE  \/ /\ t \in readers /\ t # writer /\ op[t] \in Reads
            /\ pc[t] \in {"body", "release"}
         \/ t = writer /\ writer # Nobody /\ readers = {} /\ op[t] \in Puts \union Takes
  <1>1. t # Nobody
    BY TsHashTableAssumption
  <1>2. t \in readers \/ t = writer
    BY DEF Locked
  <1> QED
    BY <1>1, <1>2 DEF Locked

(* The chain with the value of its bucket set, as replace does.            *)
LEMMA ReplaceFacts ==
  ASSUME NEW s \in Seq(Bucket), NEW n \in 1 .. Len(s), NEW v \in Values
  PROVE  LET r == [s EXCEPT ![n].val = v]
         IN  /\ r \in Seq(Bucket) /\ Len(r) = Len(s)
             /\ \A m \in 1 .. Len(s) :
                  r[m] = [key |-> s[m].key, val |-> IF m = n THEN v ELSE s[m].val]
  <1> DEFINE r == [s EXCEPT ![n].val = v]
  <1>1. \A m \in 1 .. Len(s) : s[m] \in Bucket
    OBVIOUS
  <1>2. \A m \in 1 .. Len(s) : r[m] = IF m = n THEN [s[n] EXCEPT !.val = v] ELSE s[m]
    OBVIOUS
  <1>3. [s[n] EXCEPT !.val = v] = [key |-> s[n].key, val |-> v]
    BY <1>1 DEF Bucket
  <1>4. \A m \in 1 .. Len(s) : s[m] = [key |-> s[m].key, val |-> s[m].val]
    BY <1>1 DEF Bucket
  <1>5. [s[n] EXCEPT !.val = v] \in Bucket
    BY <1>1, <1>3 DEF Bucket
  <1>6. r \in Seq(Bucket) /\ Len(r) = Len(s)
    BY <1>5
  <1> QED
    BY <1>2, <1>3, <1>4, <1>6

(* The chain with the value of every bucket with the key set, as add does. *)
LEMMA PutFacts ==
  ASSUME NEW s \in Seq(Bucket), NEW k \in Keys, NEW v \in Values
  PROVE  LET r == [n \in 1 .. Len(s) |->
                    IF n \in Matches(s, k) THEN [s[n] EXCEPT !.val = v] ELSE s[n]]
         IN  /\ r \in Seq(Bucket) /\ Len(r) = Len(s)
             /\ \A m \in 1 .. Len(s) :
                  r[m] = [key |-> s[m].key, val |-> IF s[m].key = k THEN v ELSE s[m].val]
  <1> DEFINE e(n) == IF n \in Matches(s, k) THEN [s[n] EXCEPT !.val = v] ELSE s[n]
             r == [n \in 1 .. Len(s) |-> e(n)]
  <1>1. Len(s) \in Nat /\ \A m \in 1 .. Len(s) : s[m] \in Bucket
    OBVIOUS
  <1>2. ASSUME NEW m \in 1 .. Len(s)
        PROVE  /\ e(m) = [key |-> s[m].key, val |-> IF s[m].key = k THEN v ELSE s[m].val]
               /\ e(m) \in Bucket
    <2>1. s[m] \in Bucket
      BY <1>1
    <2>2. m \in Matches(s, k) <=> s[m].key = k
      BY DEF Matches
    <2> QED
      BY <2>1, <2>2 DEF Bucket
  <1> HIDE DEF e
  <1>3. r \in Seq(Bucket) /\ Len(r) = Len(s) /\ \A m \in 1 .. Len(s) : r[m] = e(m)
    BY <1>1, <1>2
  <1>4. \A m \in 1 .. Len(s) :
          r[m] = [key |-> s[m].key, val |-> IF s[m].key = k THEN v ELSE s[m].val]
    BY <1>2, <1>3
  <1> QED
    BY <1>3, <1>4 DEF e

-----------------------------------------------------------------------------
(* The lock, and what a thread inside an operation may rely on             *)

(* The table is as constructed.                                            *)
LEMMA InitInvariant ==
  ASSUME Init
  PROVE  IInv
  <1>1. InitialLength \in Nat \ {0}
    BY TsHashTableAssumption
  <1>2. \A t \in Threads : t # Nobody
    BY TsHashTableAssumption
  <1>3. TypeOK
    BY <1>1 DEF Init, TypeOK, PcPlaces
  <1>4. Locked
    BY <1>2 DEF Init, Locked, Adding
  <1>5. Growing
    BY DEF Init, Growing, Expanding
  <1>6. Places(table) = {} /\ Places(old) = {}
    BY <1>1, PlacesEmpty DEF Init
  <1>7. Chains
    BY <1>6 DEF Chains, WellPlaced, OldWellPlaced, Apart, Keyed
  <1>8. Counted
    <2>2. \A t \in Threads : pc[t] \notin {"count", "uncount"}
      BY DEF Init
    <2> QED
      BY <1>6, <2>2, FS_EmptySet DEF Init, Counted, Short, Lag
  <1>9. NoLeak
    BY DEF Init, NoLeak
  <1> QED
    BY <1>3, <1>4, <1>5, <1>7, <1>8, <1>9 DEF IInv

(* Every step keeps the types: chains of buckets, as many as the length.   *)
LEMMA TypeStep ==
  ASSUME IInv, [Next]_vars
  PROVE  TypeOK'
  <1> USE DEF IInv, Chains
  <1>1. ASSUME NEW t \in Threads, LockRead(t) \/ LockWrite(t) \/ Release(t) PROVE TypeOK'
    BY ZenonT(40), <1>1 DEF LockRead, LockWrite, Release, TypeOK, PcPlaces, locals
  <1>2. ASSUME NEW t \in Threads, NEW v \in Values \union {NoValue}, Return(t, v)
        PROVE  /\ pc' \in [Threads -> PcPlaces]
               /\ ret' \in [Threads -> [found : BOOLEAN, val : Values \union {NoValue}]]
    <2>1. Found(op[t].key) \in BOOLEAN
      BY DEF Found
    <2> QED
      BY <1>2, <2>1 DEF Return, Answer, TypeOK, PcPlaces
  <1>3. ASSUME NEW t \in Threads, Read(t) PROVE TypeOK'
    <2>1. op[t] \in Reads
      BY <1>3, OpFacts DEF Read, In, Puts, Takes
    <2>2. op[t].key \in Keys
      BY <2>1 DEF Reads
    <2>3. Value(op[t].key) \in Values \union {NoValue}
      BY <2>2, FoundFacts
    <2> QED
      BY <1>2, <1>3, <2>3 DEF Read, TypeOK
  <1>4. ASSUME NEW t \in Threads, Take(t) PROVE TypeOK'
    <2>1. op[t] \in Takes
      BY <1>4, OpFacts DEF Take, In, Puts, Reads
    <2> DEFINE k == op[t].key
    <2>2. k \in Keys
      BY <2>1 DEF Takes
    <2>3. Value(k) \in Values \union {NoValue}
      BY <2>2, FoundFacts
    <2>4. pc' \in [Threads -> PcPlaces]
          /\ ret' \in [Threads -> [found : BOOLEAN, val : Values \union {NoValue}]]
      <3>1. Found(k) \in BOOLEAN
        BY DEF Found
      <3>2. ret' \in [Threads -> [found : BOOLEAN, val : Values \union {NoValue}]]
        BY <1>4, <2>3, <3>1 DEF Take, Answer, TypeOK
      <3>3. pc' \in [Threads -> PcPlaces]
        BY <1>4 DEF Take, TypeOK, PcPlaces
      <3> QED
        BY <3>2, <3>3
    <2>5. Found(k) => Drop(Chain(k), First(k)) \in Seq(Bucket)
      BY <2>2, FoundFacts, DropFacts
    <2>6. table' \in [0 .. length - 1 -> Seq(Bucket)]
      <3>1. \/ table' = [table EXCEPT ![Index(k)] = Drop(Chain(k), First(k))] /\ Found(k)
            \/ UNCHANGED table
        BY <1>4 DEF Take, SetChain
      <3> DEFINE s == Drop(Chain(k), First(k))
      <3>2. Found(k) => s \in Seq(Bucket)
        BY <2>5
      <3> HIDE DEF s
      <3> DEFINE i == Index(k)
      <3> HIDE DEF i
      <3>3. CASE table' = [table EXCEPT ![i] = s] /\ Found(k)
        <4>1. table \in [0 .. length - 1 -> Seq(Bucket)]
          BY DEF TypeOK
        <4> QED
          BY <3>2, <3>3, <4>1
      <3>4. CASE UNCHANGED table
        BY <3>4 DEF TypeOK
      <3> QED
        BY <3>1, <3>3, <3>4 DEF s, i
    <2> QED
      BY <1>4, <2>4, <2>6 DEF Take, TypeOK
  <1>5. ASSUME NEW t \in Threads, Replace(t) PROVE TypeOK'
    <2>1. op[t] \in Puts
      BY <1>5, OpFacts DEF Replace, In, Takes, Reads
    <2> DEFINE k == op[t].key
    <2>2. k \in Keys /\ op[t].val \in Values
      BY <2>1 DEF Puts
    <2>3. pc' \in [Threads -> PcPlaces]
          /\ ret' \in [Threads -> [found : BOOLEAN, val : Values \union {NoValue}]]
      BY <1>2, <1>5 DEF Replace
    <2>4. Found(k) => [Chain(k) EXCEPT ![First(k)].val = op[t].val] \in Seq(Bucket)
      BY <2>2, FoundFacts, ReplaceFacts
    <2>5. table' \in [0 .. length - 1 -> Seq(Bucket)]
      BY <1>5, <2>4 DEF Replace, SetChain, TypeOK
    <2> QED
      BY <1>5, <2>3, <2>5 DEF Replace, TypeOK
  <1>6. ASSUME NEW t \in Threads, Expand(t) PROVE TypeOK'
    <2>1. length' \in Nat \ {0} /\ table' \in [0 .. length' - 1 -> Seq(Bucket)]
      BY <1>6 DEF Expand, TypeOK
    <2>2. old' \in Seq(Seq(Bucket))
      <3>1. \A i \in 1 .. length : table[i - 1] \in Seq(Bucket)
        BY DEF TypeOK
      <3> QED
        BY <1>6, <3>1 DEF Expand, TypeOK
    <2> QED
      BY <1>6, <2>1, <2>2 DEF Expand, TypeOK, PcPlaces
  <1>7. ASSUME Move PROVE TypeOK'
    <2>1. old[place + 1] \in Seq(Bucket) /\ old[place + 1] # <<>>
      BY <1>7 DEF Move, TypeOK
    <2> DEFINE b == Head(old[place + 1])
    <2>2. b \in Bucket /\ Tail(old[place + 1]) \in Seq(Bucket)
      BY <2>1
    <2>3. Index(b.key) \in 0 .. length - 1
      BY <2>2, FoundFacts DEF Bucket
    <2>4. <<b>> \o table[Index(b.key)] \in Seq(Bucket)
      BY <2>2, <2>3, FrontFacts DEF TypeOK
    <2>5. table' \in [0 .. length - 1 -> Seq(Bucket)]
      BY <1>7, <2>4 DEF Move, TypeOK
    <2>6. old' \in Seq(Seq(Bucket))
      BY <1>7, <2>2 DEF Move, TypeOK
    <2> QED
      BY <1>7, <2>5, <2>6 DEF Move, TypeOK, locals
  <1>8. ASSUME MoveOn PROVE TypeOK'
    <2>1. pc' \in [Threads -> PcPlaces]
      BY <1>8 DEF MoveOn, TypeOK, PcPlaces
    <2>2. old' = old \/ old' = <<>>
      BY <1>8 DEF MoveOn
    <2>3. old' \in Seq(Seq(Bucket))
      BY <2>2, EmptyChain DEF TypeOK
    <2>4. place' \in Nat
      BY SMTT(30), <1>8 DEF MoveOn, TypeOK
    <2>5. UNCHANGED <<table, length, capacity, readers, writer, op, ret, alive>>
      BY <1>8 DEF MoveOn
    <2> QED
      BY <2>1, <2>3, <2>4, <2>5 DEF TypeOK
  <1>9. ASSUME NEW t \in Threads, Put(t) PROVE TypeOK'
    <2>1. op[t] \in Puts
      BY <1>9, OpFacts DEF Put, In, Locked, Adding, Takes, Reads
    <2> DEFINE k == op[t].key
               v == op[t].val
               r == [n \in 1 .. Len(Chain(k)) |->
                       IF n \in Matches(Chain(k), k) THEN [Chain(k)[n] EXCEPT !.val = v]
                                                     ELSE Chain(k)[n]]
    <2>2. k \in Keys /\ v \in Values /\ [key |-> k, val |-> v] \in Bucket
      BY <2>1 DEF Puts, Bucket
    <2>3. Chain(k) \in Seq(Bucket)
      BY <2>2, FoundFacts
    <2>4. r \in Seq(Bucket)
      BY <2>2, <2>3, PutFacts
    <2>5. <<[key |-> k, val |-> v]>> \o Chain(k) \in Seq(Bucket)
      BY <2>2, <2>3, FrontFacts
    <2>6. table' \in [0 .. length - 1 -> Seq(Bucket)]
      BY <1>9, <2>4, <2>5 DEF Put, SetChain, TypeOK
    <2>7. Found(k) \in BOOLEAN
      BY DEF Found
    <2>8. ret' \in [Threads -> [found : BOOLEAN, val : Values \union {NoValue}]]
      BY <1>9, <2>7 DEF Put, TypeOK
    <2>9. pc' \in [Threads -> PcPlaces]
      BY <1>9 DEF Put, TypeOK, PcPlaces
    <2> QED
      BY <1>9, <2>6, <2>8, <2>9 DEF Put, TypeOK
  <1>10. ASSUME NEW t \in Threads, Count(t) \/ Uncount(t) PROVE TypeOK'
    <2>1. /\ UNCHANGED <<table, length, readers, writer, op, ret, old, place, alive>>
          /\ pc' = [pc EXCEPT ![t] = "release"]
          /\ capacity' = capacity + 1 \/ capacity' = capacity - 1
      BY <1>10 DEF Count, Uncount
    <2>2. pc' \in [Threads -> PcPlaces]
      BY <2>1 DEF TypeOK, PcPlaces
    <2>3. capacity' \in Int
      BY <2>1 DEF TypeOK
    <2> QED
      BY <2>1, <2>2, <2>3 DEF TypeOK
  <1>11. ASSUME Destroy PROVE TypeOK'
    <2>1. table' \in [0 .. length' - 1 -> Seq(Bucket)]
      BY <1>11 DEF Destroy
    <2>2. capacity' \in Int
      BY <1>11 DEF Destroy
    <2>3. alive' \in BOOLEAN
      BY <1>11, Zenon DEF Destroy
    <2> QED
      BY <1>11, <2>1, <2>2, <2>3 DEF Destroy, TypeOK, locals
  <1>12. ASSUME UNCHANGED vars PROVE TypeOK'
    BY <1>12 DEF vars, locals, TypeOK
  <1> QED
    BY <1>1, <1>3, <1>4, <1>5, <1>6, <1>7, <1>8, <1>9, <1>10, <1>11, <1>12 DEF Next

(* Every step keeps the lock: an operation holds it from end to end.       *)
LEMMA LockedStep ==
  ASSUME IInv, [Next]_vars
  PROVE  Locked'
  <1>0. TypeOK /\ Locked /\ TypeOK'
    BY TypeStep DEF IInv
  <1>n. \A t \in Threads : t # Nobody
    BY TsHashTableAssumption
  <1>1. ASSUME NEW t \in Threads, LockRead(t) PROVE Locked'
    <2>1. readers' = readers \union {t} /\ UNCHANGED writer /\ writer = Nobody
          /\ pc' = [pc EXCEPT ![t] = "body"] /\ pc[t] = "idle"
      BY <1>1 DEF LockRead
    <2>2. op'[t] \in Reads /\ \A u \in Threads \ {t} : op'[u] = op[u]
      BY <1>0, <1>1 DEF LockRead, TypeOK
    <2>3. pc'[t] = "body" /\ \A u \in Threads \ {t} : pc'[u] = pc[u]
      BY <1>0, <2>1 DEF TypeOK
    <2> QED
      BY <1>0, <1>n, <2>1, <2>2, <2>3 DEF Locked, Adding, TypeOK
  <1>2. ASSUME NEW t \in Threads, LockWrite(t) PROVE Locked'
    <2>1. UNCHANGED readers /\ writer' = t /\ readers = {} /\ writer = Nobody
          /\ pc' = [pc EXCEPT ![t] = "body"] /\ pc[t] = "idle"
      BY <1>2 DEF LockWrite
    <2>2. op'[t] \in Puts \union Takes /\ \A u \in Threads \ {t} : op'[u] = op[u]
      BY <1>0, <1>2 DEF LockWrite, TypeOK
    <2>3. pc'[t] = "body" /\ \A u \in Threads \ {t} : pc'[u] = pc[u]
      BY <1>0, <2>1 DEF TypeOK
    <2> QED
      BY <1>0, <1>n, <2>1, <2>2, <2>3 DEF Locked, Adding, TypeOK
  <1>3. ASSUME NEW t \in Threads, Release(t) PROVE Locked'
    <2>1. pc'[t] = "idle" /\ \A u \in Threads \ {t} : pc'[u] = pc[u] /\ op'[u] = op[u]
      BY <1>0, <1>3 DEF Release, TypeOK
    <2>2. CASE writer = t
      <3>1. writer' = Nobody /\ readers' = readers /\ readers = {}
        BY <1>0, <1>3, <1>n, <2>2 DEF Release, Locked
      <3> QED
        BY <1>0, <1>n, <2>1, <2>2, <3>1 DEF Locked, Adding
    <2>3. CASE writer # t
      <3>1. writer' = writer /\ readers' = readers \ {t} /\ t \in readers /\ writer = Nobody
        BY <1>0, <1>3, <1>n, <2>3 DEF Release, Locked
      <3> QED
        BY <1>0, <1>n, <2>1, <2>3, <3>1 DEF Locked, Adding, TypeOK
    <2> QED
      BY <2>2, <2>3
  <1>4. ASSUME NEW t \in Threads, NEW q \in PcPlaces \ {"idle"},
               pc' = [pc EXCEPT ![t] = q], UNCHANGED <<readers, writer, op>>, pc[t] # "idle",
               \/ q = "release"
               \/ q # "uncount" /\ writer = t /\ op[t] \in Puts /\ op[t].name = "add"
               \/ q = "uncount" /\ writer = t /\ op[t] \in Takes
        PROVE  Locked'
    <2>1. pc'[t] = q /\ \A u \in Threads \ {t} : pc'[u] = pc[u]
      BY <1>0, <1>4 DEF TypeOK
    <2>2. t \in readers => q = "release"
      BY <1>0, <1>4, <1>n DEF Locked
    <2> QED
      BY <1>0, <1>4, <2>1, <2>2 DEF Locked, Adding, TypeOK
  <1>5. ASSUME UNCHANGED <<readers, writer, op, pc>> PROVE Locked'
    BY <1>0, <1>5 DEF Locked, Adding
  <1>6. ASSUME NEW t \in Threads, Read(t) \/ Take(t) \/ Replace(t) PROVE Locked'
    <2>1. PICK q \in {"release", "uncount"} :
            /\ pc' = [pc EXCEPT ![t] = q] /\ UNCHANGED <<readers, writer, op>>
            /\ pc[t] = "body" /\ (q = "uncount" => Take(t))
      BY <1>6 DEF Read, Take, Replace, Return, In
    <2>2. Take(t) => writer = t /\ op[t] \in Takes
      BY <1>0, OpFacts DEF Take, In, Locked, Puts, Reads
    <2> QED
      BY <1>4, <2>1, <2>2 DEF PcPlaces
  <1>7. ASSUME NEW t \in Threads, Expand(t) \/ Put(t) PROVE Locked'
    <2>1. PICK q \in {"expand", "release", "count"} :
            pc' = [pc EXCEPT ![t] = q] /\ UNCHANGED <<readers, writer, op>>
      BY <1>7 DEF Expand, Put
    <2>2. pc[t] # "idle" /\ writer = t /\ op[t] \in Puts /\ op[t].name = "add"
      BY <1>0, <1>7, OpFacts DEF Expand, Put, In, Locked, Adding, Reads, Takes
    <2> QED
      BY <1>4, <2>1, <2>2 DEF PcPlaces
  <1>8. ASSUME NEW t \in Threads, Count(t) \/ Uncount(t) PROVE Locked'
    <2>1. pc' = [pc EXCEPT ![t] = "release"] /\ UNCHANGED <<readers, writer, op>>
          /\ pc[t] \in {"count", "uncount"}
      BY <1>8 DEF Count, Uncount
    <2> QED
      BY <1>4, <2>1 DEF PcPlaces
  <1>9. ASSUME MoveOn PROVE Locked'
    <2>1. writer \in Threads /\ pc[writer] = "expand" /\ UNCHANGED <<readers, writer, op>>
          /\ (UNCHANGED pc \/ pc' = [pc EXCEPT ![writer] = "put"])
      BY <1>0, <1>9 DEF MoveOn, TypeOK
    <2>2. op[writer] \in Puts /\ op[writer].name = "add"
      BY <1>0, <2>1 DEF Locked, Adding
    <2> QED
      BY <1>4, <1>5, <2>1, <2>2 DEF PcPlaces
  <1>10. Move \/ Destroy \/ UNCHANGED vars => UNCHANGED <<readers, writer, op, pc>>
    BY DEF Move, Destroy, vars, locals
  <1> QED
    BY <1>1, <1>2, <1>3, <1>5, <1>6, <1>7, <1>8, <1>9, <1>10 DEF Next

(* Every step keeps the old chains within the expansion of the table.      *)
LEMMA GrowingStep ==
  ASSUME IInv, [Next]_vars
  PROVE  Growing'
  <1>0. TypeOK /\ Locked /\ Growing /\ TypeOK' /\ Locked'
    BY TypeStep, LockedStep DEF IInv
  <1>n. \A t \in Threads : t # Nobody
    BY TsHashTableAssumption
  <1>1. ASSUME UNCHANGED <<old, place>>, Expanding' <=> Expanding PROVE Growing'
    BY <1>0, <1>1 DEF Growing
  <1>2. ASSUME NEW t \in Threads, LockRead(t) \/ LockWrite(t) \/ Release(t) PROVE Growing'
    <2>1. pc[t] # "expand" /\ pc'[t] # "expand" /\ \A u \in Threads \ {t} : pc'[u] = pc[u]
      BY <1>0, <1>2 DEF LockRead, LockWrite, Release, TypeOK
    <2>2. UNCHANGED <<old, place>>
      BY <1>2 DEF LockRead, LockWrite, Release
    <2>3. UNCHANGED writer \/ (writer = Nobody /\ writer' = t) \/ (writer' = Nobody /\ writer = t)
      BY <1>2 DEF LockRead, LockWrite, Release
    <2> QED
      BY <1>0, <1>1, <2>1, <2>2, <2>3 DEF Expanding, TypeOK
  <1>3. ASSUME NEW t \in Threads,
               Read(t) \/ Take(t) \/ Uncount(t) \/ Replace(t) \/ Put(t) \/ Count(t)
        PROVE  Growing'
    <2>1. UNCHANGED <<old, place, writer>> /\ pc[t] # "expand"
      BY <1>3 DEF Read, Take, Uncount, Replace, Put, Count, In
    <2>2. pc'[t] # "expand" /\ \A u \in Threads \ {t} : pc'[u] = pc[u]
      BY <1>0, <1>3 DEF Read, Take, Uncount, Replace, Put, Count, Return, TypeOK
    <2> QED
      BY <1>0, <1>1, <2>1, <2>2 DEF Expanding, TypeOK
  <1>4. ASSUME NEW t \in Threads, Expand(t) PROVE Growing'
    <2>1. writer = t /\ UNCHANGED writer /\ place' = 0
      BY <1>0, <1>4, OpFacts DEF Expand, In, Reads
    <2>2. pc'[t] = "expand"
      BY <1>0, <1>4 DEF Expand, TypeOK
    <2>3. Expanding'
      BY <1>n, <2>1, <2>2 DEF Expanding
    <2>4. Len(old') \in Nat
      BY <1>0 DEF TypeOK
    <2> QED
      BY <2>1, <2>3, <2>4 DEF Growing
  <1>5. ASSUME Move PROVE Growing'
    <2>1. UNCHANGED <<place, writer, pc>> /\ Expanding /\ place < Len(old)
          /\ old' = [old EXCEPT ![place + 1] = Tail(@)]
      BY <1>5 DEF Move, Expanding, locals
    <2>2. Expanding'
      BY <2>1 DEF Expanding
    <2>3. Len(old') = Len(old) /\ \A i \in 1 .. place : old'[i] = old[i]
      BY <1>0, <2>1 DEF TypeOK
    <2> QED
      BY <1>0, <2>1, <2>2, <2>3 DEF Growing
  <1>6. ASSUME MoveOn PROVE Growing'
    <2>1. CASE place < Len(old)
      <3>1. UNCHANGED <<old, writer, pc>> /\ place' = place + 1 /\ old[place + 1] = <<>>
        BY <1>6, <2>1 DEF MoveOn
      <3>2. Expanding /\ Expanding'
        BY <1>6, <3>1 DEF MoveOn, Expanding
      <3>3. place \in Nat /\ Len(old) \in Nat
        BY <1>0 DEF TypeOK
      <3> QED
        BY <1>0, <2>1, <3>1, <3>2, <3>3 DEF Growing
    <2>2. CASE ~(place < Len(old))
      <3>1. old' = <<>> /\ UNCHANGED writer /\ writer \in Threads
            /\ pc' = [pc EXCEPT ![writer] = "put"]
        BY <1>0, <1>6, <2>2 DEF MoveOn, TypeOK
      <3>2. ~Expanding'
        BY <1>0, <3>1 DEF Expanding, TypeOK
      <3> QED
        BY <3>1, <3>2 DEF Growing
    <2> QED
      BY <2>1, <2>2
  <1>7. Destroy \/ UNCHANGED vars => UNCHANGED <<old, place>> /\ (Expanding' <=> Expanding)
    BY DEF Destroy, vars, locals, Expanding
  <1> QED
    BY <1>1, <1>2, <1>3, <1>4, <1>5, <1>6, <1>7 DEF Next

-----------------------------------------------------------------------------
(* What an operation does to the buckets                                   *)

BucketsOf(c) == {At(c, x) : x \in Places(c)}

\* Chain s with the value of every bucket with key k set to v.
Rewritten(s, r, k, v) ==
  /\ r \in Seq(Bucket) /\ Len(r) = Len(s)
  /\ \A m \in 1 .. Len(s) :
       r[m] = [key |-> s[m].key, val |-> IF s[m].key = k THEN v ELSE s[m].val]

\* The same, for all the chains c of a table.
Revalued(c, d, k, v) ==
  /\ Places(d) = Places(c)
  /\ \A x \in Places(c) :
       At(d, x) = IF At(c, x).key = k THEN [key |-> k, val |-> v] ELSE At(c, x)

(* Setting the value of the buckets with a key leaves every bucket at its  *)
(* place.                                                                  *)
LEMMA RewriteFacts ==
  ASSUME NEW D, NEW c \in [D -> Seq(Bucket)], NEW k \in Keys, NEW v \in Values,
         NEW len, NEW base, Keyed(c, len, base),
         NEW j \in D, j = Home(k, len, base), NEW r, Rewritten(c[j], r, k, v)
  PROVE  Revalued(c, [c EXCEPT ![j] = r], k, v)
  <1> DEFINE d == [c EXCEPT ![j] = r]
  <1>1. /\ d \in [D -> Seq(Bucket)] /\ DOMAIN d = D /\ DOMAIN c = D /\ d[j] = r
        /\ \A i \in D : i # j => d[i] = c[i]
    BY DEF Rewritten
  <1> HIDE DEF d
  <1>2. Places(d) = Places(c)
    BY <1>1, PlacesSame DEF Rewritten
  <1>3. ASSUME NEW x \in Places(c)
        PROVE  At(d, x) = IF At(c, x).key = k THEN [key |-> k, val |-> v] ELSE At(c, x)
    <2>1. x[1] \in D /\ x[2] \in 1 .. Len(c[x[1]]) /\ At(c, x) \in Bucket
      BY PlaceFacts
    <2>2. CASE x[1] # j
      <3>1. At(c, x).key # k
        BY <2>2 DEF Keyed
      <3> QED
        BY <1>1, <2>1, <2>2, <3>1 DEF At
    <2>3. CASE x[1] = j
      <3>1. At(c, x) = c[j][x[2]] /\ At(d, x) = r[x[2]]
        BY <1>1, <2>3 DEF At
      <3>2. At(d, x) = [key |-> At(c, x).key,
                        val |-> IF At(c, x).key = k THEN v ELSE At(c, x).val]
        BY <2>1, <2>3, <3>1 DEF Rewritten
      <3> QED
        BY <2>1, <3>2, BucketFacts
    <2> QED
      BY <2>2, <2>3
  <1> QED
    BY <1>2, <1>3 DEF d, Revalued

\* The chains without the bucket at p, and where the one at x was before.
DropAt(c, p) == [c EXCEPT ![p[1]] = Drop(c[p[1]], p[2])]
Before(p, x) == IF x[1] = p[1] /\ x[2] >= p[2] THEN <<x[1], x[2] + 1>> ELSE x

(* Leaving a bucket out moves those behind it up, and nothing else.        *)
LEMMA DropPlaces ==
  ASSUME NEW D, NEW c \in [D -> Seq(Bucket)], NEW p \in Places(c)
  PROVE  /\ DropAt(c, p) \in [D -> Seq(Bucket)]
         /\ \A x \in Places(DropAt(c, p)) :
              /\ Before(p, x) \in Places(c) \ {p}
              /\ Before(p, x)[1] = x[1]
              /\ At(DropAt(c, p), x) = At(c, Before(p, x))
         /\ \A x, y \in Places(DropAt(c, p)) : Before(p, x) = Before(p, y) => x = y
         /\ \A y \in Places(c) \ {p} : \E x \in Places(DropAt(c, p)) : y = Before(p, x)
  <1> DEFINE d == DropAt(c, p)
  <1>0. PICK j \in D : \E n \in 1 .. Len(c[j]) : p = <<j, n>>
    BY PlacesFacts
  <1>n. PICK n \in 1 .. Len(c[j]) : p = <<j, n>>
    BY <1>0
  <1>d. d = [c EXCEPT ![j] = Drop(c[j], n)]
    BY <1>n DEF DropAt
  <1> HIDE DEF d
  <1> USE <1>n
  <1>1. c[j] \in Seq(Bucket) /\ Len(c[j]) \in Nat /\ n \in Nat /\ 1 <= n /\ n <= Len(c[j])
    <2>1. c[j] \in Seq(Bucket)
      OBVIOUS
    <2> QED
      BY <2>1
  <1>2. /\ Drop(c[j], n) \in Seq(Bucket) /\ Len(Drop(c[j], n)) = Len(c[j]) - 1
        /\ \A m \in 1 .. Len(c[j]) - 1 :
             Drop(c[j], n)[m] = IF m < n THEN c[j][m] ELSE c[j][m + 1]
    BY <1>1, DropFacts
  <1>3. /\ d \in [D -> Seq(Bucket)] /\ d[j] = Drop(c[j], n)
        /\ \A i \in D : i # j => d[i] = c[i]
    BY <1>d, <1>2
  <1>t. d \in [D -> Seq(Bucket)]
    BY <1>3
  <1>4. ASSUME NEW x \in Places(d)
        PROVE  /\ Before(p, x) \in Places(c) \ {p}
               /\ Before(p, x)[1] = x[1]
               /\ At(d, x) = At(c, Before(p, x))
    <2>1. /\ x = <<x[1], x[2]>> /\ x[1] \in D
          /\ x[2] \in Nat /\ x[2] \in 1 .. Len(d[x[1]])
      BY <1>3, PlaceFacts
    <2>2. CASE x[1] # j
      <3>1. Before(p, x) = x /\ x # p
        BY <2>1, <2>2 DEF Before
      <3>2. x[2] \in 1 .. Len(c[x[1]]) /\ At(d, x) = At(c, x)
        BY <1>3, <2>1, <2>2 DEF At
      <3>3. x \in Places(c)
        BY <2>1, <3>2, HasPlace
      <3> QED
        BY <3>1, <3>2, <3>3
    <2>3. CASE x[1] = j /\ x[2] < n
      <3>1. Before(p, x) = x /\ x # p
        BY <1>1, <2>1, <2>3 DEF Before
      <3>2. x[2] \in 1 .. Len(c[j]) /\ x[2] \in 1 .. Len(c[j]) - 1
        BY <1>1, <2>1, <2>3
      <3>3. At(d, x) = At(c, x)
        BY <1>2, <1>3, <2>3, <3>2 DEF At
      <3>4. x \in Places(c)
        BY <2>1, <2>3, <3>2, HasPlace
      <3> QED
        BY <3>1, <3>3, <3>4
    <2>4. CASE x[1] = j /\ ~(x[2] < n)
      <3>1. Before(p, x) = <<j, x[2] + 1>> /\ <<j, x[2] + 1>> # p
        BY <1>1, <2>1, <2>4 DEF Before
      <3>2. x[2] + 1 \in 1 .. Len(c[j]) /\ x[2] \in 1 .. Len(c[j]) - 1
        BY <1>1, <1>2, <1>3, <2>1, <2>4
      <3>3. <<j, x[2] + 1>> \in Places(c) /\ At(c, <<j, x[2] + 1>>) = c[j][x[2] + 1]
        BY <3>2, HasPlace
      <3>4. At(d, x) = c[j][x[2] + 1]
        BY <1>2, <1>3, <2>4, <3>2 DEF At
      <3>5. Before(p, x)[1] = j
        BY <3>1
      <3>6. Before(p, x) \in Places(c) \ {p}
        BY ONLY <3>1, <3>3
      <3>7. At(d, x) = At(c, Before(p, x))
        BY <3>1, <3>3, <3>4
      <3> QED
        BY <2>4, <3>5, <3>6, <3>7
    <2> QED
      BY <2>2, <2>3, <2>4
  <1>5. ASSUME NEW x \in Places(d), NEW y \in Places(d), Before(p, x) = Before(p, y)
        PROVE  x = y
    <2>1. x = <<x[1], x[2]>> /\ x[2] \in Nat /\ y = <<y[1], y[2]>> /\ y[2] \in Nat
      BY <1>3, PlaceFacts
    <2>2. x[1] = y[1]
      <3>1. Before(p, x)[1] = x[1] /\ Before(p, y)[1] = y[1]
        BY <1>4
      <3> QED
        BY <1>5, <3>1
    <2>3. x[2] = y[2]
      <3>1. Before(p, x)[2] = IF x[1] = j /\ x[2] >= n THEN x[2] + 1 ELSE x[2]
        BY DEF Before
      <3>2. Before(p, y)[2] = IF y[1] = j /\ y[2] >= n THEN y[2] + 1 ELSE y[2]
        BY DEF Before
      <3> QED
        BY <1>1, <1>5, <2>1, <2>2, <3>1, <3>2
    <2> QED
      BY <2>1, <2>2, <2>3
  <1>6. ASSUME NEW y \in Places(c), y # p
        PROVE  \E x \in Places(d) : y = Before(p, x)
    <2>1. /\ y = <<y[1], y[2]>> /\ y[1] \in D
          /\ y[2] \in Nat /\ y[2] \in 1 .. Len(c[y[1]])
      BY PlaceFacts
    <2>2. CASE y[1] # j
      <3>1. y[2] \in 1 .. Len(d[y[1]])
        BY <1>3, <2>1, <2>2
      <3>2. <<y[1], y[2]>> \in Places(d)
        BY <1>t, <2>1, <3>1, HasPlace
      <3>3. Before(p, y) = y
        BY <2>1, <2>2 DEF Before
      <3> QED
        BY <2>1, <3>2, <3>3
    <2>3. CASE y[1] = j /\ y[2] < n
      <3>1. y[2] \in 1 .. Len(d[j])
        BY <1>1, <1>2, <1>3, <2>1, <2>3
      <3>2. <<j, y[2]>> \in Places(d)
        BY <1>t, <3>1, HasPlace
      <3>3. Before(p, y) = y
        BY <1>1, <2>1, <2>3 DEF Before
      <3> QED
        BY <2>1, <2>3, <3>2, <3>3
    <2>4. CASE y[1] = j /\ ~(y[2] < n)
      <3>1. y[2] # n
        BY <1>6, <2>1, <2>4
      <3>2. y[2] - 1 \in 1 .. Len(d[j]) /\ y[2] - 1 >= n
        BY <1>1, <1>2, <1>3, <2>1, <2>4, <3>1
      <3>3. <<j, y[2] - 1>> \in Places(d)
        BY <1>3, <3>2, HasPlace
      <3>4. Before(p, <<j, y[2] - 1>>) = <<j, y[2]>>
        BY <1>1, <2>1, <3>2 DEF Before
      <3> QED
        BY <2>1, <2>4, <3>3, <3>4
    <2> QED
      BY <2>2, <2>3, <2>4
  <1> QED
    BY <1>3, <1>4, <1>5, <1>6 DEF d

(* The rest of a chain is what leaving out its first bucket leaves.        *)
LEMMA TailDrops ==
  ASSUME NEW S, NEW s \in Seq(S), s # <<>>
  PROVE  1 \in 1 .. Len(s) /\ s[1] = Head(s) /\ s[1] \in S /\ Tail(s) = Drop(s, 1)
  <1>1. Len(s) \in Nat /\ 1 \in 1 .. Len(s)
    OBVIOUS
  <1>2. SubSeq(s, 1, 1 - 1) = <<>>
    BY <1>1
  <1>3. SubSeq(s, 1 + 1, Len(s)) = Tail(s)
    BY <1>1
  <1>4. Tail(s) \in Seq(S)
    BY <1>1
  <1>5. <<>> \o Tail(s) = Tail(s)
    BY <1>4
  <1> QED
    BY <1>1, <1>2, <1>3, <1>5 DEF Drop

(* And leaving out the bucket put in front of a chain leaves the chain.    *)
LEMMA FrontDrops ==
  ASSUME NEW S, NEW s \in Seq(S), NEW b \in S
  PROVE  Drop(<<b>> \o s, 1) = s
  <1> DEFINE f == <<b>> \o s
  <1>1. f \in Seq(S) /\ Len(f) = Len(s) + 1 /\ Len(s) \in Nat
        /\ \A m \in 2 .. Len(s) + 1 : f[m] = s[m - 1]
    BY FrontFacts
  <1> HIDE DEF f
  <1>2. Drop(f, 1) \in Seq(S) /\ Len(Drop(f, 1)) = Len(s)
        /\ \A m \in 1 .. Len(s) : Drop(f, 1)[m] = f[m + 1]
    <2>1. 1 \in 1 .. Len(f)
      BY <1>1
    <2>2. /\ Drop(f, 1) \in Seq(S) /\ Len(Drop(f, 1)) = Len(f) - 1
          /\ \A m \in 1 .. Len(f) - 1 : Drop(f, 1)[m] = IF m < 1 THEN f[m] ELSE f[m + 1]
      BY <1>1, <2>1, DropFacts
    <2> QED
      BY <1>1, <2>2
  <1>3. \A m \in 1 .. Len(s) : Drop(f, 1)[m] = s[m]
    BY <1>1, <1>2
  <1>4. Drop(f, 1) = s
    BY <1>2, <1>3
  <1> QED
    BY <1>4 DEF f

(* steal_bucket takes the bucket of one key away, and no other.            *)
LEMMA DropKeyed ==
  ASSUME NEW D, NEW c \in [D -> Seq(Bucket)], NEW p \in Places(c),
         NEW len, NEW base, Keyed(c, len, base)
  PROVE  /\ Keyed(DropAt(c, p), len, base)
         /\ \A b : b \in BucketsOf(DropAt(c, p)) <=> b \in BucketsOf(c) /\ b.key # At(c, p).key
  <1> DEFINE d == DropAt(c, p)
  <1>1. /\ \A x \in Places(d) : /\ Before(p, x) \in Places(c) \ {p}
                                /\ Before(p, x)[1] = x[1]
                                /\ At(d, x) = At(c, Before(p, x))
        /\ \A x, y \in Places(d) : Before(p, x) = Before(p, y) => x = y
        /\ \A y \in Places(c) \ {p} : \E x \in Places(d) : y = Before(p, x)
    BY DropPlaces
  <1>2. p \in Places(c)
    OBVIOUS
  <1> HIDE DEF d
  <1>3. Keyed(d, len, base)
    BY <1>1 DEF Keyed
  <1>4. ASSUME NEW b \in BucketsOf(d)
        PROVE  b \in BucketsOf(c) /\ b.key # At(c, p).key
    BY <1>1, <1>2 DEF Keyed, BucketsOf
  <1>5. ASSUME NEW b \in BucketsOf(c), b.key # At(c, p).key
        PROVE  b \in BucketsOf(d)
    <2>1. PICK y \in Places(c) : b = At(c, y)
      BY DEF BucketsOf
    <2>2. PICK x \in Places(d) : y = Before(p, x)
      BY <1>1, <1>5, <2>1
    <2> QED
      BY <1>1, <2>1, <2>2 DEF BucketsOf
  <1> QED
    BY <1>3, <1>4, <1>5 DEF d

\* No bucket has key k.
Lacks(c, k) == \A b \in BucketsOf(c) : b.key # k

(* Putting it back keeps the buckets in their chains, if its key has none. *)
LEMMA AddKeyed ==
  ASSUME NEW D, NEW d \in [D -> Seq(Bucket)], NEW p \in Places(d), NEW len, NEW base,
         Keyed(DropAt(d, p), len, base),
         p[1] = Home(At(d, p).key, len, base),
         Lacks(DropAt(d, p), At(d, p).key)
  PROVE  Keyed(d, len, base) /\ BucketsOf(d) = BucketsOf(DropAt(d, p)) \union {At(d, p)}
  <1> DEFINE c == DropAt(d, p)
             e == At(d, p)
  <1>3. p \in Places(d) /\ At(d, p) = e
    OBVIOUS
  <1>4. /\ \A x \in Places(c) : /\ Before(p, x) \in Places(d) \ {p}
                                /\ Before(p, x)[1] = x[1]
                                /\ At(c, x) = At(d, Before(p, x))
        /\ \A y \in Places(d) \ {p} : \E x \in Places(c) : y = Before(p, x)
    BY DropPlaces
  <1>5. Keyed(c, len, base) /\ p[1] = Home(e.key, len, base)
        /\ \A b \in BucketsOf(c) : b.key # e.key
    BY DEF Lacks
  <1> HIDE DEF c, e
  <1>6. BucketsOf(d) = BucketsOf(c) \union {e}
    <2>1. ASSUME NEW b \in BucketsOf(d) PROVE b \in BucketsOf(c) \union {e}
      <3>1. PICK y \in Places(d) : b = At(d, y)
        BY <2>1 DEF BucketsOf
      <3>2. CASE y = p
        BY <1>3, <3>1, <3>2
      <3>3. CASE y # p
        <4>1. PICK x \in Places(c) : y = Before(p, x)
          BY <1>4, <3>3
        <4> QED
          BY <1>4, <3>1, <4>1 DEF BucketsOf
      <3> QED
        BY <3>2, <3>3
    <2>2. ASSUME NEW b \in BucketsOf(c) \union {e} PROVE b \in BucketsOf(d)
      BY <1>3, <1>4, <2>2 DEF BucketsOf
    <2> QED
      BY <2>1, <2>2
  <1>7. ASSUME NEW y \in Places(d)
        PROVE  y[1] = Home(At(d, y).key, len, base)
    <2>1. CASE y = p
      BY <1>3, <1>5, <2>1
    <2>2. CASE y # p
      <3>1. PICK x \in Places(c) : y = Before(p, x)
        BY <1>4, <2>2
      <3> QED
        BY <1>4, <1>5, <3>1 DEF Keyed
    <2> QED
      BY <2>1, <2>2
  <1>8. ASSUME NEW y \in Places(d), NEW z \in Places(d), At(d, y).key = At(d, z).key
        PROVE  y = z
    <2>1. \A w \in Places(d) : w # p => At(d, w).key # e.key
                                        /\ \E x \in Places(c) : w = Before(p, x)
      BY <1>4, <1>5 DEF BucketsOf
    <2>2. CASE y = p \/ z = p
      BY <1>3, <1>8, <2>1, <2>2
    <2>3. CASE y # p /\ z # p
      <3>1. PICK u \in Places(c) : y = Before(p, u)
        BY <2>1, <2>3
      <3>2. PICK w \in Places(c) : z = Before(p, w)
        BY <2>1, <2>3
      <3>3. u = w
        BY <1>4, <1>5, <1>8, <3>1, <3>2 DEF Keyed
      <3> QED
        BY <3>1, <3>2, <3>3
    <2> QED
      BY <2>2, <2>3
  <1>9. Keyed(d, len, base)
    BY <1>7, <1>8 DEF Keyed
  <1> QED
    BY <1>6, <1>9 DEF c, e

\* The chains with a bucket put in front of one.
Link(c, j, e) == [c EXCEPT ![j] = <<e>> \o c[j]]

(* A bucket with a key that has none goes in front of the chain for it.    *)
LEMMA FrontKeyed ==
  ASSUME NEW D, NEW c \in [D -> Seq(Bucket)], NEW j \in D, NEW e \in Bucket,
         NEW len, NEW base, Keyed(c, len, base),
         j = Home(e.key, len, base), Lacks(c, e.key)
  PROVE  Keyed(Link(c, j, e), len, base) /\ BucketsOf(Link(c, j, e)) = BucketsOf(c) \union {e}
  <1> DEFINE d == Link(c, j, e)
             s == <<e>> \o c[j]
             p == <<j, 1>>
  <1>1. s \in Seq(Bucket) /\ 1 \in 1 .. Len(s) /\ s[1] = e /\ Drop(s, 1) = c[j]
    <2>1. c[j] \in Seq(Bucket)
      OBVIOUS
    <2> QED
      BY <2>1, FrontFacts, FrontDrops
  <1>d. d = [c EXCEPT ![j] = s]
    BY DEF Link
  <1> HIDE DEF d, s
  <1>2. d \in [D -> Seq(Bucket)] /\ d[j] = s /\ 1 \in 1 .. Len(d[j])
        /\ c = [d EXCEPT ![j] = Drop(d[j], 1)]
    BY <1>1, <1>d
  <1>t. d \in [D -> Seq(Bucket)]
    BY <1>2
  <1>3. p \in Places(d) /\ At(d, p) = e
    <2>1. ASSUME NEW m \in 1 .. Len(d[j])
          PROVE  <<j, m>> \in Places(d) /\ At(d, <<j, m>>) = d[j][m]
      BY ONLY <1>t, <2>1, j \in D, HasPlace
    <2> QED
      BY <1>1, <1>2, <2>1
  <1>c. c = DropAt(d, p)
    BY <1>2 DEF DropAt
  <1>4. p[1] = j
    OBVIOUS
  <1> HIDE DEF p
  <1>5. Keyed(d, len, base) /\ BucketsOf(d) = BucketsOf(DropAt(d, p)) \union {At(d, p)}
    <2>1. Keyed(DropAt(d, p), len, base)
      BY <1>c
    <2>2. p[1] = Home(At(d, p).key, len, base)
      BY <1>3, <1>4
    <2>3. Lacks(DropAt(d, p), At(d, p).key)
      BY <1>c, <1>3
    <2>4. p \in Places(d)
      BY <1>3
    <2> QED
      BY ONLY <1>t, <2>1, <2>2, <2>3, <2>4, AddKeyed
  <1> QED
    BY <1>3, <1>5, <1>c DEF d

(* Setting the value of a key's bucket changes no key.                     *)
LEMMA RewriteKeyed ==
  ASSUME NEW c, NEW d, NEW k, NEW v, NEW len, NEW base, Keyed(c, len, base),
         Revalued(c, d, k, v)
  PROVE  /\ Keyed(d, len, base)
         /\ \A b : b \in BucketsOf(d) <=>
              \/ b \in BucketsOf(c) /\ b.key # k
              \/ b = [key |-> k, val |-> v] /\ \E a \in BucketsOf(c) : a.key = k
  <1>1. \A x \in Places(c) : At(d, x).key = At(c, x).key
    BY DEF Revalued
  <1>2. Keyed(d, len, base)
    BY <1>1 DEF Keyed, Revalued
  <1>3. ASSUME NEW b \in BucketsOf(d)
        PROVE  \/ b \in BucketsOf(c) /\ b.key # k
               \/ b = [key |-> k, val |-> v] /\ \E a \in BucketsOf(c) : a.key = k
    BY DEF BucketsOf, Revalued
  <1>4. ASSUME NEW b \in BucketsOf(c), b.key # k PROVE b \in BucketsOf(d)
    BY <1>4 DEF BucketsOf, Revalued
  <1>5. ASSUME NEW a \in BucketsOf(c), a.key = k
        PROVE  [key |-> k, val |-> v] \in BucketsOf(d)
    <2>1. PICK x \in Places(c) : a = At(c, x)
      BY DEF BucketsOf
    <2>2. At(d, x) = [key |-> k, val |-> v]
      BY <1>5, <2>1 DEF Revalued
    <2> QED
      BY <2>2 DEF BucketsOf, Revalued
  <1> QED
    BY <1>2, <1>3, <1>4, <1>5

-----------------------------------------------------------------------------
(* The same, for the operations                                            *)

(* get_bucket finds the key's bucket wherever it is in the table.          *)
LEMMA FoundPlace ==
  ASSUME TypeOK, WellPlaced, NEW k \in Keys
  PROVE  /\ Found(k) => /\ <<Index(k), First(k)>> \in Places(table)
                        /\ At(table, <<Index(k), First(k)>>) = Chain(k)[First(k)]
                        /\ Chain(k)[First(k)].key = k /\ Chain(k)[First(k)].val = Value(k)
         /\ ~Found(k) => \A x \in Places(table) : At(table, x).key # k
         /\ \A x \in Places(table) : At(table, x).key = k => x[1] = Index(k)
  <1>1. table \in [0 .. length - 1 -> Seq(Bucket)]
    BY DEF TypeOK
  <1>2. ASSUME Found(k)
        PROVE  /\ <<Index(k), First(k)>> \in Places(table)
               /\ At(table, <<Index(k), First(k)>>) = Chain(k)[First(k)]
               /\ Chain(k)[First(k)].key = k /\ Chain(k)[First(k)].val = Value(k)
    <2>1. /\ Index(k) \in 0 .. length - 1 /\ Chain(k) = table[Index(k)]
          /\ First(k) \in 1 .. Len(table[Index(k)]) /\ Chain(k)[First(k)].key = k
      BY <1>2, FoundFacts
    <2>2. /\ <<Index(k), First(k)>> \in Places(table)
          /\ At(table, <<Index(k), First(k)>>) = table[Index(k)][First(k)]
      <3>1. ASSUME NEW i \in 0 .. length - 1, NEW n \in 1 .. Len(table[i])
            PROVE  <<i, n>> \in Places(table) /\ At(table, <<i, n>>) = table[i][n]
        BY ONLY ZenonT(40), <1>1, <3>1, HasPlace
      <3> QED
        BY <2>1, <3>1
    <2> QED
      BY <1>2, <2>1, <2>2 DEF Value
  <1>3. ASSUME NEW x \in Places(table), At(table, x).key = k
        PROVE  x[1] = Index(k) /\ Found(k)
    <2>1. x[1] = Index(k) + 0 /\ Index(k) \in 0 .. length - 1
      BY <1>3, FoundFacts DEF WellPlaced, Keyed, Index, Home
    <2>2. x[1] = Index(k)
      BY <2>1
    <2>3. x[2] \in 1 .. Len(table[x[1]])
      BY <1>1, PlaceFacts
    <2>4. x[2] \in 1 .. Len(Chain(k)) /\ Chain(k)[x[2]].key = k
      BY <1>3, <2>2, <2>3, FoundFacts DEF At
    <2> QED
      BY <2>2, <2>4, FoundFacts
  <1> QED
    BY <1>2, <1>3

(* The buckets are those of the table and those still to be moved.         *)
LEMMA BucketsFacts ==
  /\ Buckets = BucketsOf(table) \union BucketsOf(old)
  /\ old = <<>> => Places(old) = {} /\ Buckets = BucketsOf(table)
  <1>1. Buckets = BucketsOf(table) \union BucketsOf(old)
    BY DEF Buckets, BucketsOf, At
  <1>2. old = <<>> => Places(old) = {}
    BY PlacesEmpty
  <1>3. Places(old) = {} => BucketsOf(old) = {}
    BY DEF BucketsOf
  <1> QED
    BY <1>1, <1>2, <1>3

(* What get_bucket finds is the key's bucket, unless the table is growing. *)
LEMMA FoundBucket ==
  ASSUME TypeOK, WellPlaced, old = <<>>, NEW k \in Keys
  PROVE  /\ Found(k) <=> \E b \in Buckets : b.key = k
         /\ \A b \in Buckets : b.key = k => b.val = Value(k)
  <1>1. Buckets = BucketsOf(table)
    BY BucketsFacts
  <1>2. ASSUME NEW b \in Buckets, b.key = k PROVE Found(k) /\ b.val = Value(k)
    <2>1. PICK x \in Places(table) : b = At(table, x)
      BY <1>1 DEF BucketsOf
    <2>2. Found(k)
      BY <1>2, <2>1, FoundPlace
    <2>3. PICK p \in Places(table) : At(table, p) = Chain(k)[First(k)]
      BY <2>2, FoundPlace
    <2>4. At(table, p).key = k /\ At(table, p).val = Value(k)
      BY <2>2, <2>3, FoundPlace
    <2>5. x = p
      BY <1>2, <2>1, <2>4 DEF WellPlaced, Keyed
    <2> QED
      BY <2>1, <2>2, <2>4, <2>5
  <1>3. ASSUME Found(k) PROVE \E b \in Buckets : b.key = k
    <2>1. PICK p \in Places(table) : At(table, p).key = k
      BY <1>3, FoundPlace
    <2> QED
      BY <1>1, <2>1 DEF BucketsOf
  <1> QED
    BY <1>2, <1>3

(* Between expansions the table's own buckets are all there is to be in    *)
(* order.                                                                  *)
LEMMA Alone ==
  old = <<>> =>
    /\ Chains <=> Keyed(table, length, 0)
    /\ \A bias \in {-1, 0, 1} :
         Short(bias) <=> /\ IsFiniteSet(Places(table))
                         /\ capacity + bias = Cardinality(Places(table))
  <1> SUFFICES ASSUME old = <<>>
               PROVE  /\ Chains <=> Keyed(table, length, 0)
                      /\ \A bias \in {-1, 0, 1} :
                           Short(bias) <=> /\ IsFiniteSet(Places(table))
                                           /\ capacity + bias = Cardinality(Places(table))
    OBVIOUS
  <1>1. Places(old) = {}
    BY BucketsFacts
  <1>2. OldWellPlaced /\ Apart
    BY <1>1 DEF OldWellPlaced, Apart, Keyed
  <1>3. IsFiniteSet({}) /\ Cardinality({}) = 0
    BY FS_EmptySet
  <1>4. IsFiniteSet(Places(table)) => Cardinality(Places(table)) \in Nat
    BY FS_CardinalityType
  <1>5. ASSUME NEW bias \in {-1, 0, 1}
        PROVE  Short(bias) <=> /\ IsFiniteSet(Places(table))
                               /\ capacity + bias = Cardinality(Places(table))
    <2>1. IsFiniteSet(Places(old)) /\ Cardinality(Places(old)) = 0
      BY <1>1, <1>3
    <2>2. IsFiniteSet(Places(table)) =>
            Cardinality(Places(table)) + Cardinality(Places(old)) = Cardinality(Places(table))
      BY <1>4, <2>1
    <2> QED
      BY <2>1, <2>2 DEF Short
  <1> QED
    BY <1>2, <1>5 DEF Chains, WellPlaced

-----------------------------------------------------------------------------
(* Each operation, in terms of the buckets                                 *)

(* A writer that is not expanding the table finds no chains to be moved.   *)
LEMMA NothingOld ==
  ASSUME IInv, NEW t \in Threads, t = writer, pc[t] # "expand"
  PROVE  old = <<>>
  BY DEF IInv, Growing, Expanding

(* A writer that is not about to count changes nothing about the lag.      *)
LEMMA SameLag ==
  ASSUME TypeOK, NEW t \in Threads, NEW q \in PcPlaces, pc' = [pc EXCEPT ![t] = q],
         pc[t] \notin {"count", "uncount"}, q \notin {"count", "uncount"}
  PROVE  Lag' = Lag
  <1>1. pc'[t] = q /\ \A u \in Threads \ {t} : pc'[u] = pc[u]
    BY DEF TypeOK
  <1> QED
    BY <1>1 DEF Lag

(* What a writer that is not expanding the table has to keep.              *)
LEMMA AloneStep ==
  ASSUME IInv, old = <<>>, old' = <<>>
  PROVE  /\ Buckets = BucketsOf(table) /\ Buckets' = BucketsOf(table')
         /\ Keyed(table, length, 0)
         /\ IsFiniteSet(Places(table)) /\ capacity + Lag = Cardinality(Places(table))
         /\ Keyed(table', length', 0) => Chains'
         /\ /\ IsFiniteSet(Places(table')) /\ capacity' + Lag' = Cardinality(Places(table'))
            => Counted'
  <1>1. (old = <<>> => Places(old) = {} /\ Buckets = BucketsOf(table))'
    BY BucketsFacts, PTL
  <1>2. (old = <<>> => /\ Chains <=> Keyed(table, length, 0)
                       /\ \A bias \in {-1, 0, 1} :
                            Short(bias) <=> /\ IsFiniteSet(Places(table))
                                            /\ capacity + bias = Cardinality(Places(table)))'
    BY Alone, PTL
  <1>3. Lag \in {-1, 0, 1} /\ Lag' \in {-1, 0, 1}
    BY DEF Lag
  <1>4. Keyed(table', length', 0) => Chains'
    BY <1>2
  <1>5. IsFiniteSet(Places(table')) /\ capacity' + Lag' = Cardinality(Places(table'))
          => Counted'
    BY <1>2, <1>3 DEF Counted
  <1>6. /\ Keyed(table, length, 0) /\ IsFiniteSet(Places(table))
        /\ capacity + Lag = Cardinality(Places(table))
    BY <1>3, Alone DEF IInv, Counted
  <1> QED
    BY <1>1, <1>4, <1>5, <1>6, BucketsFacts

(* remove and steal                                                        *)
LEMMA TakeStep ==
  ASSUME IInv, NEW t \in Threads, Take(t)
  PROVE  /\ op[t] \in Takes /\ op[t].key \in Keys /\ old = <<>> /\ old' = <<>>
         /\ Chains' /\ Counted'
         /\ \A b : b \in Buckets' <=> b \in Buckets /\ b.key # op[t].key
  <1>1. op[t] \in Takes /\ t = writer /\ pc[t] = "body"
    BY OpFacts DEF IInv, Take, In, Puts, Reads
  <1> DEFINE k == op[t].key
  <1>2. k \in Keys
    BY <1>1 DEF Takes
  <1>3. old = <<>> /\ old' = <<>> /\ length' = length
    BY <1>1, NothingOld DEF Take
  <1>4. Lag = 0 /\ Lag' = IF Found(k) THEN -1 ELSE 0
    <2>1. /\ pc'[t] = IF Found(k) THEN "uncount" ELSE "release"
          /\ \A u \in Threads \ {t} : pc'[u] = pc[u]
      BY <1>1 DEF Take, IInv, TypeOK
    <2>2. \A u \in Threads : pc[u] \notin {"count", "uncount"}
      BY <1>1 DEF IInv, Locked, Adding
    <2>3. \A u \in Threads : pc'[u] # "count" /\ (u # t => pc'[u] # "uncount")
      BY <2>1, <2>2
    <2> QED
      BY <2>1, <2>2, <2>3 DEF Lag
  <1>5. /\ table \in [0 .. length - 1 -> Seq(Bucket)] /\ capacity \in Int
        /\ TypeOK /\ WellPlaced /\ Keyed(table, length, 0)
        /\ IsFiniteSet(Places(table)) /\ capacity + Lag = Cardinality(Places(table))
    BY <1>3, AloneStep DEF IInv, TypeOK, Chains
  <1>6. Buckets' = BucketsOf(table') /\ Buckets = BucketsOf(table)
    BY <1>3, AloneStep
  <1>7. SUFFICES /\ Keyed(table', length, 0) /\ IsFiniteSet(Places(table'))
                 /\ capacity' + Lag' = Cardinality(Places(table'))
                 /\ \A b : b \in BucketsOf(table') <=> b \in BucketsOf(table) /\ b.key # k
    <2>1. Chains' /\ Counted'
      BY <1>3, <1>7, AloneStep
    <2> QED
      BY <1>1, <1>2, <1>3, <1>6, <1>7, <2>1
  <1>8. CASE Found(k)
    <2> DEFINE i == Index(k)
               n == First(k)
               p == <<i, n>>
    <2>1. /\ p \in Places(table) /\ At(table, p).key = k
          /\ i \in 0 .. length - 1 /\ table[i] \in Seq(Bucket) /\ n \in 1 .. Len(table[i])
      <3>1. p \in Places(table) /\ At(table, p).key = k
        BY <1>2, <1>5, <1>8, FoundPlace
      <3>2. i \in 0 .. length - 1 /\ Chain(k) \in Seq(Bucket) /\ Chain(k) = table[i]
            /\ n \in 1 .. Len(Chain(k))
        BY <1>2, <1>5, <1>8, FoundFacts
      <3> QED
        BY <3>1, <3>2
    <2>2. table' = [table EXCEPT ![i] = Drop(table[i], n)] /\ capacity' = capacity
      BY <1>8 DEF Take, SetChain, Chain
    <2> HIDE DEF i, n
    <2>3. table' = DropAt(table, p)
      BY <2>2 DEF DropAt
    <2>4. Drop(table[i], n) \in Seq(Bucket) /\ Len(Drop(table[i], n)) = Len(table[i]) - 1
      BY <2>1, DropFacts
    <2>5. IsFiniteSet(Places(table')) /\ Cardinality(Places(table')) = Cardinality(Places(table)) - 1
      BY <1>5, <2>1, <2>2, <2>4, PlacesShrink
    <2> HIDE DEF p
    <2>6. /\ Keyed(table', length, 0)
          /\ \A b : b \in BucketsOf(table') <=> b \in BucketsOf(table) /\ b.key # At(table, p).key
      BY <1>5, <2>1, <2>3, DropKeyed
    <2>7. capacity' + Lag' = Cardinality(Places(table'))
      BY <1>4, <1>5, <1>8, <2>2, <2>5
    <2> QED
      BY <2>1, <2>5, <2>6, <2>7
  <1>9. CASE ~Found(k)
    <2>1. table' = table /\ capacity' = capacity
      BY <1>9 DEF Take
    <2>2. \A b \in BucketsOf(table) : b.key # k
      BY <1>2, <1>3, <1>5, <1>6, <1>9, FoundBucket
    <2> QED
      BY <1>4, <1>5, <1>9, <2>1, <2>2
  <1> QED
    BY <1>8, <1>9

(* What remove and steal have deleted is counted no longer.                *)
LEMMA UncountStep ==
  ASSUME IInv, NEW t \in Threads, Uncount(t)
  PROVE  Chains' /\ Counted' /\ Buckets' = Buckets
  <1>1. t = writer /\ pc[t] = "uncount" /\ TypeOK
    BY DEF IInv, Uncount, Locked
  <1>2. old = <<>> /\ UNCHANGED <<table, old, length>> /\ capacity' = capacity - 1
    BY <1>1, NothingOld DEF Uncount
  <1>3. Lag = -1 /\ Lag' = 0
    <2>1. pc'[t] = "release" /\ \A u \in Threads \ {t} : pc'[u] = pc[u]
      BY <1>1 DEF Uncount, TypeOK
    <2>2. \A u \in Threads \ {t} : pc[u] \notin {"count", "uncount"}
      BY <1>1 DEF IInv, Locked, Adding
    <2> QED
      BY <1>1, <2>1, <2>2 DEF Lag
  <1>4. Chains' /\ Buckets' = Buckets
    BY <1>2, AloneStep
  <1>5. Counted'
    BY <1>1, <1>2, <1>3, AloneStep DEF TypeOK
  <1> QED
    BY <1>4, <1>5

(* Setting the value of the buckets with a key, as replace and add do.     *)
LEMMA RewriteStep ==
  ASSUME IInv, old = <<>>, old' = <<>>, length' = length, capacity' = capacity,
         Lag' = Lag, NEW k \in Keys, NEW v \in Values,
         NEW r, Rewritten(Chain(k), r, k, v), table' = [table EXCEPT ![Index(k)] = r]
  PROVE  /\ Chains' /\ Counted'
         /\ \A b : b \in Buckets' <=> \/ b \in Buckets /\ b.key # k
                                      \/ b = [key |-> k, val |-> v] /\ \E a \in Buckets : a.key = k
  <1> DEFINE j == Index(k)
  <1>1. /\ table \in [0 .. length - 1 -> Seq(Bucket)] /\ j \in 0 .. length - 1
        /\ Chain(k) = table[j]
    BY FoundFacts DEF IInv, TypeOK, Chains
  <1>2. j \in Nat /\ j = get_place(length, Hash[k])
    BY <1>1 DEF Index, IInv, TypeOK
  <1> HIDE DEF j
  <1>3. table' = [table EXCEPT ![j] = r]
    BY DEF j
  <1>4. Revalued(table, table', k, v)
    <2>1. Rewritten(table[j], r, k, v) /\ j = Home(k, length, 0)
      BY <1>1, <1>2 DEF Home
    <2>2. Keyed(table, length, 0)
      BY AloneStep
    <2> QED
      BY ONLY <1>1, <1>3, <2>1, <2>2, k \in Keys, v \in Values, RewriteFacts
  <1>5. Keyed(table, length, 0)
    BY AloneStep
  <1>6. /\ Keyed(table', length, 0)
        /\ \A b : b \in BucketsOf(table') <=>
             \/ b \in BucketsOf(table) /\ b.key # k
             \/ b = [key |-> k, val |-> v] /\ \E a \in BucketsOf(table) : a.key = k
    BY ONLY <1>4, <1>5, RewriteKeyed
  <1>7. Buckets = BucketsOf(table) /\ Buckets' = BucketsOf(table')
    BY AloneStep
  <1>8. Chains'
    BY <1>6, AloneStep
  <1>9. Counted'
    BY <1>4, AloneStep DEF Revalued
  <1> QED
    BY <1>6, <1>7, <1>8, <1>9

(* replace                                                                 *)
LEMMA ReplaceStep ==
  ASSUME IInv, NEW t \in Threads, Replace(t)
  PROVE  /\ op[t] \in Puts /\ op[t].key \in Keys /\ op[t].val \in Values
         /\ old = <<>> /\ old' = <<>> /\ Chains' /\ Counted'
         /\ \A b : b \in Buckets' <=>
              \/ b \in Buckets /\ b.key # op[t].key
              \/ b = [key |-> op[t].key, val |-> op[t].val] /\ \E a \in Buckets : a.key = op[t].key
  <1>1. op[t] \in Puts /\ t = writer /\ pc[t] = "body"
    BY OpFacts DEF IInv, Replace, In, Takes, Reads
  <1> DEFINE k == op[t].key
             v == op[t].val
  <1>2. k \in Keys /\ v \in Values
    BY <1>1 DEF Puts
  <1>3. old = <<>> /\ old' = <<>> /\ length' = length /\ capacity' = capacity
    BY <1>1, NothingOld DEF Replace
  <1>4. Lag' = Lag
    <2>1. pc' = [pc EXCEPT ![t] = "release"]
      BY DEF Replace, Return
    <2> QED
      BY <1>1, <2>1, SameLag DEF IInv, PcPlaces
  <1>5. TypeOK /\ WellPlaced
    BY DEF IInv, Chains
  <1>6. CASE Found(k)
    <2> DEFINE s == Chain(k)
               r == [s EXCEPT ![First(k)].val = v]
    <2>1. /\ s \in Seq(Bucket) /\ First(k) \in 1 .. Len(s)
          /\ \A m \in 1 .. Len(s) : s[m].key = k <=> m = First(k)
      BY <1>2, <1>5, <1>6, FoundFacts
    <2>2. /\ r \in Seq(Bucket) /\ Len(r) = Len(s)
          /\ \A m \in 1 .. Len(s) :
               r[m] = [key |-> s[m].key, val |-> IF m = First(k) THEN v ELSE s[m].val]
      BY <1>2, <2>1, ReplaceFacts
    <2>3. table' = [table EXCEPT ![Index(k)] = r]
      BY <1>6 DEF Replace, SetChain
    <2> HIDE DEF r
    <2>4. Rewritten(s, r, k, v)
      BY <2>1, <2>2 DEF Rewritten
    <2>5. /\ Chains' /\ Counted'
          /\ \A b : b \in Buckets' <=> \/ b \in Buckets /\ b.key # k
                                       \/ b = [key |-> k, val |-> v] /\ \E a \in Buckets : a.key = k
      BY <1>2, <1>3, <1>4, <2>3, <2>4, RewriteStep
    <2> QED
      BY <1>1, <1>2, <1>3, <2>5
  <1>7. CASE ~Found(k)
    <2>1. table' = table
      BY <1>7 DEF Replace
    <2>2. \A b \in Buckets : b.key # k
      BY <1>2, <1>3, <1>5, <1>7, FoundBucket
    <2>3. Buckets' = Buckets /\ Chains' /\ Counted'
      BY <1>3, <1>4, <2>1, AloneStep
    <2> QED
      BY <1>1, <1>2, <1>3, <2>2, <2>3
  <1> QED
    BY <1>6, <1>7

(* add, in the table that has the room                                     *)
LEMMA PutStep ==
  ASSUME IInv, NEW t \in Threads, Put(t)
  PROVE  /\ op[t] \in Puts /\ op[t].key \in Keys /\ op[t].val \in Values
         /\ op[t].name = "add" /\ old = <<>> /\ old' = <<>> /\ Chains' /\ Counted'
         /\ \A b : b \in Buckets' <=> \/ b \in Buckets /\ b.key # op[t].key
                                      \/ b = [key |-> op[t].key, val |-> op[t].val]
  <1>1. op[t] \in Puts /\ t = writer /\ pc[t] \in {"put", "body"} /\ op[t].name = "add"
    BY OpFacts DEF IInv, Put, In, Locked, Adding, Takes, Reads
  <1> DEFINE k == op[t].key
             v == op[t].val
  <1>2. k \in Keys /\ v \in Values
    BY <1>1 DEF Puts
  <1>3. old = <<>> /\ old' = <<>> /\ length' = length /\ capacity' = capacity
    BY <1>1, NothingOld DEF Put
  <1>5. TypeOK /\ WellPlaced
    BY DEF IInv, Chains
  <1>6. CASE Found(k)
    <2> DEFINE r == [n \in 1 .. Len(Chain(k)) |->
                       IF n \in Matches(Chain(k), k) THEN [Chain(k)[n] EXCEPT !.val = v]
                                                     ELSE Chain(k)[n]]
    <2>1. Chain(k) \in Seq(Bucket)
      BY <1>2, <1>5, FoundFacts
    <2>2. Rewritten(Chain(k), r, k, v)
      BY <1>2, <2>1, PutFacts DEF Rewritten
    <2>3. table' = [table EXCEPT ![Index(k)] = r]
      BY <1>6 DEF Put, SetChain
    <2> HIDE DEF r
    <2>4. Lag' = Lag
      <3>1. pc' = [pc EXCEPT ![t] = "release"]
        BY <1>6 DEF Put
      <3> QED
        BY <1>1, <1>5, <3>1, SameLag DEF PcPlaces
    <2>5. /\ Chains' /\ Counted'
          /\ \A b : b \in Buckets' <=> \/ b \in Buckets /\ b.key # k
                                       \/ b = [key |-> k, val |-> v] /\ \E a \in Buckets : a.key = k
      BY <1>2, <1>3, <2>2, <2>3, <2>4, RewriteStep
    <2>6. \E a \in Buckets : a.key = k
      BY <1>2, <1>3, <1>5, <1>6, FoundBucket
    <2> QED
      BY <1>1, <1>2, <1>3, <2>5, <2>6
  <1>7. CASE ~Found(k)
    <2> DEFINE e == [key |-> k, val |-> v]
               j == Index(k)
    <2>1. e \in Bucket /\ e.key = k
      BY <1>2 DEF Bucket
    <2>2. /\ table \in [0 .. length - 1 -> Seq(Bucket)] /\ j \in 0 .. length - 1
          /\ Chain(k) = table[j] /\ table[j] \in Seq(Bucket) /\ length \in Nat
      BY <1>2, <1>5, FoundFacts DEF TypeOK
    <2>3. table' = [table EXCEPT ![j] = <<e>> \o table[j]]
      BY <1>7, <2>2 DEF Put, SetChain
    <2>4. j = Home(e.key, length, 0)
      BY <2>1, <2>2 DEF Index, Home
    <2>5. Lacks(table, e.key)
      BY <1>2, <1>3, <1>5, <1>7, <2>1, AloneStep, FoundBucket DEF Lacks
    <2>6. /\ Keyed(table, length, 0) /\ IsFiniteSet(Places(table))
          /\ capacity + Lag = Cardinality(Places(table))
      BY <1>3, AloneStep
    <2>7. /\ <<e>> \o table[j] \in Seq(Bucket)
          /\ Len(<<e>> \o table[j]) = Len(table[j]) + 1
      BY <2>1, <2>2, FrontFacts
    <2> HIDE DEF e, j
    <2>8. Keyed(table', length, 0) /\ BucketsOf(table') = BucketsOf(table) \union {e}
      <3>1. table \in [0 .. length - 1 -> Seq(Bucket)] /\ j \in 0 .. length - 1 /\ e \in Bucket
        BY <2>1, <2>2
      <3>2. Keyed(table, length, 0)
        BY <2>6
      <3>3. /\ Keyed(Link(table, j, e), length, 0)
            /\ BucketsOf(Link(table, j, e)) = BucketsOf(table) \union {e}
        <4> DEFINE D == 0 .. length - 1
        <4>1. table \in [D -> Seq(Bucket)] /\ j \in D /\ e \in Bucket
          BY <3>1
        <4> HIDE DEF D
        <4> QED
          BY ONLY <2>4, <2>5, <3>2, <4>1, FrontKeyed
      <3> QED
        BY <2>3, <3>3 DEF Link
    <2>9. /\ IsFiniteSet(Places(table'))
          /\ Cardinality(Places(table')) = Cardinality(Places(table)) + 1
      BY ONLY <2>2, <2>3, <2>6, <2>7, PlacesGrow
    <2>10. Lag = 0 /\ Lag' = 1
      <3>1. pc' = [pc EXCEPT ![t] = "count"]
        BY <1>7 DEF Put
      <3>2. pc'[t] = "count" /\ \A u \in Threads : pc[u] \notin {"count", "uncount"}
        BY <1>1, <1>5, <3>1 DEF TypeOK, IInv, Locked, Adding
      <3> QED
        BY <3>2 DEF Lag
    <2>11. Chains'
      BY <1>3, <2>8, AloneStep
    <2>12. Counted'
      BY <1>3, <1>5, <2>6, <2>9, <2>10, AloneStep DEF TypeOK
    <2>13. \A b : b \in Buckets' <=> (b \in Buckets /\ b.key # k) \/ b = e
      BY <1>3, <2>1, <2>5, <2>8, AloneStep DEF Lacks
    <2> QED
      BY <1>1, <1>2, <1>3, <2>11, <2>12, <2>13 DEF e
  <1> QED
    BY <1>6, <1>7

(* The count that an add makes up for what it has linked.                  *)
LEMMA CountStep ==
  ASSUME IInv, NEW t \in Threads, Count(t)
  PROVE  Chains' /\ Counted' /\ Buckets' = Buckets
  <1>1. t = writer /\ pc[t] = "count" /\ TypeOK
    BY DEF IInv, Count, Locked, Adding
  <1>2. old = <<>> /\ UNCHANGED <<table, old, length>> /\ capacity' = capacity + 1
    BY <1>1, NothingOld DEF Count
  <1>3. Lag = 1 /\ Lag' = 0
    <2>1. pc'[t] = "release" /\ \A u \in Threads \ {t} : pc'[u] = pc[u]
      BY <1>1 DEF Count, TypeOK
    <2>2. \A u \in Threads \ {t} : pc[u] \notin {"count", "uncount"}
      BY <1>1 DEF IInv, Locked, Adding
    <2> QED
      BY <1>1, <2>1, <2>2 DEF Lag
  <1>4. Chains' /\ Buckets' = Buckets
    BY <1>2, AloneStep
  <1>5. Counted'
    BY <1>1, <1>2, <1>3, AloneStep DEF TypeOK
  <1> QED
    BY <1>4, <1>5

(* expand_map puts the chains aside, with their buckets as they are.       *)
LEMMA ExpandStep ==
  ASSUME IInv, NEW t \in Threads, Expand(t)
  PROVE  Chains' /\ Counted' /\ \A b : b \in Buckets' <=> b \in Buckets
  <1>1. t = writer /\ pc[t] = "body" /\ TypeOK
    BY OpFacts DEF IInv, Expand, In, Locked, Reads
  <1>2. old = <<>>
    BY <1>1, NothingOld
  <1>3. /\ table \in [0 .. length - 1 -> Seq(Bucket)] /\ length \in Nat \ {0}
        /\ capacity \in Int
    BY <1>1 DEF TypeOK
  <1>4. /\ old' \in [1 .. length -> Seq(Bucket)] /\ Len(old') = length
        /\ \A i \in 0 .. length - 1 : i + 1 \in 1 .. length /\ old'[i + 1] = table[i]
        /\ \A i \in 1 .. length : i - 1 \in 0 .. length - 1 /\ old'[i] = table[i - 1]
    <2>1. old' = [i \in 1 .. length |-> table[i - 1]]
      BY DEF Expand
    <2>2. \A i \in 1 .. length : i - 1 \in 0 .. length - 1 /\ table[i - 1] \in Seq(Bucket)
      BY <1>3
    <2>3. \A i \in 0 .. length - 1 : i + 1 \in 1 .. length /\ (i + 1) - 1 = i
      BY <1>3
    <2>4. \A i \in 0 .. length - 1 : old'[i + 1] = table[i]
      BY <2>1, <2>3
    <2>5. old' \in [1 .. length -> Seq(Bucket)]
      BY <2>1, <2>2
    <2>6. Len(old') = length
      BY <1>3, <2>1
    <2> QED
      BY <2>1, <2>2, <2>3, <2>4, <2>5, <2>6
  <1>5. Places(table') = {}
    <2>1. table' = [i \in 0 .. length' - 1 |-> <<>>]
      BY DEF Expand
    <2> QED
      BY <2>1, PlacesEmpty
  <1> DEFINE D == 0 .. length - 1
             E == 1 .. length
             up(x) == <<x[1] + 1, x[2]>>
             down(y) == <<y[1] - 1, y[2]>>
  <1>6. table \in [D -> Seq(Bucket)] /\ old' \in [E -> Seq(Bucket)]
    BY <1>3, <1>4
  <1>7. ASSUME NEW x \in Places(table)
        PROVE  /\ up(x) \in Places(old') /\ At(old', up(x)) = At(table, x)
               /\ down(up(x)) = x /\ x[1] \in Nat
    <2>1. x[1] \in D /\ x[2] \in 1 .. Len(table[x[1]]) /\ x = <<x[1], x[2]>>
      BY <1>6, PlaceFacts
    <2>2. x[1] + 1 \in E /\ old'[x[1] + 1] = table[x[1]] /\ x[1] \in Nat /\ (x[1] + 1) - 1 = x[1]
      BY <1>3, <1>4, <2>1
    <2>3. <<x[1] + 1, x[2]>> \in Places(old')
          /\ At(old', <<x[1] + 1, x[2]>>) = old'[x[1] + 1][x[2]]
      <3>1. ASSUME NEW i \in E, NEW n \in 1 .. Len(old'[i])
            PROVE  <<i, n>> \in Places(old') /\ At(old', <<i, n>>) = old'[i][n]
        BY ONLY ZenonT(40), <1>6, <3>1, HasPlace
      <3> QED
        BY <2>1, <2>2, <3>1
    <2> QED
      BY <2>1, <2>2, <2>3 DEF At
  <1>8. ASSUME NEW y \in Places(old')
        PROVE  down(y) \in Places(table) /\ up(down(y)) = y
    <2>1. y[1] \in E /\ y[2] \in 1 .. Len(old'[y[1]]) /\ y = <<y[1], y[2]>>
      BY <1>6, PlaceFacts
    <2>2. y[1] - 1 \in D /\ old'[y[1]] = table[y[1] - 1] /\ (y[1] - 1) + 1 = y[1]
      BY <1>3, <1>4, <2>1
    <2>3. <<y[1] - 1, y[2]>> \in Places(table)
      <3>1. ASSUME NEW i \in D, NEW n \in 1 .. Len(table[i])
            PROVE  <<i, n>> \in Places(table)
        BY ONLY <1>6, <3>1, HasPlace
      <3> QED
        BY <2>1, <2>2, <3>1
    <2> QED
      BY <2>1, <2>2, <2>3
  <1>9. /\ IsFiniteSet(Places(table)) /\ capacity + Lag = Cardinality(Places(table))
        /\ Keyed(table, length, 0)
    <2>1. (old = <<>> => /\ Chains <=> Keyed(table, length, 0)
                         /\ \A bias \in {-1, 0, 1} :
                              Short(bias) <=> /\ IsFiniteSet(Places(table))
                                              /\ capacity + bias = Cardinality(Places(table)))
      BY Alone
    <2>2. Lag \in {-1, 0, 1}
      BY DEF Lag
    <2> QED
      BY <1>2, <2>1, <2>2 DEF IInv, Counted
  <1> HIDE DEF D, E, up, down
  <1>10. IsFiniteSet(Places(old')) /\ Cardinality(Places(old')) = Cardinality(Places(table))
    <2> DEFINE f == [x \in Places(table) |-> up(x)]
    <2>1. f \in [Places(table) -> Places(old')]
      BY <1>7
    <2>2. \A x, y \in Places(table) : f[x] = f[y] => x = y
      BY <1>7
    <2>3. \A y \in Places(old') : \E x \in Places(table) : f[x] = y
      BY <1>8
    <2> HIDE DEF f
    <2>4. f \in Bijection(Places(table), Places(old'))
      BY <2>1, <2>2, <2>3, Fun_IsBij
    <2>5. ExistsBijection(Places(table), Places(old'))
      BY <2>4, Fun_ExistsBij
    <2> QED
      BY <1>9, <2>5, FS_Bijection
  <1>11. Keyed(old', Len(old'), 1)
    <2>1. ASSUME NEW y \in Places(old')
          PROVE  y[1] = Home(At(old', y).key, Len(old'), 1)
      <3>1. PICK x \in Places(table) : y = up(x)
        BY <1>8
      <3>2. x[1] = Home(At(table, x).key, length, 0) /\ At(old', y) = At(table, x)
        BY <1>7, <1>9, <3>1 DEF Keyed
      <3>3. y[1] = x[1] + 1 /\ x[1] \in Nat
        BY <1>7, <3>1 DEF up
      <3>4. At(table, x).key \in Keys
        <4>1. At(table, x) \in Bucket
          BY <1>6, PlaceFacts
        <4> QED
          BY <4>1, BucketFacts
      <3>5. get_place(length, Hash[At(table, x).key]) \in 0 .. length - 1
        BY <1>3, <3>4, IndexFacts
      <3> QED
        BY <1>3, <1>4, <3>2, <3>3, <3>5 DEF Home
    <2>2. ASSUME NEW y \in Places(old'), NEW z \in Places(old'), At(old', y).key = At(old', z).key
          PROVE  y = z
      <3>1. PICK x \in Places(table) : y = up(x)
        BY <1>8
      <3>2. PICK w \in Places(table) : z = up(w)
        BY <1>8
      <3>3. At(table, x).key = At(table, w).key
        BY <1>7, <2>2, <3>1, <3>2
      <3>4. x = w
        BY <1>9, <3>3 DEF Keyed
      <3> QED
        BY <3>1, <3>2, <3>4
    <2> QED
      BY <2>1, <2>2 DEF Keyed
  <1>12. Chains'
    BY <1>5, <1>11 DEF Chains, WellPlaced, OldWellPlaced, Apart, Keyed
  <1>13. Counted'
    <2>1. Lag' = Lag
      <3>1. pc' = [pc EXCEPT ![t] = "expand"]
        BY DEF Expand
      <3> QED
        BY <1>1, <3>1, SameLag DEF PcPlaces
    <2>2. capacity' = capacity
      BY DEF Expand
    <2>3. IsFiniteSet(Places(table')) /\ Cardinality(Places(table')) = 0
      BY <1>5, FS_EmptySet
    <2>4. Cardinality(Places(table)) \in Nat
      BY <1>9, FS_CardinalityType
    <2> QED
      BY <1>9, <1>10, <2>1, <2>2, <2>3, <2>4 DEF Counted, Short
  <1>14. ASSUME NEW b PROVE b \in Buckets' <=> b \in Buckets
    <2>1. Buckets = BucketsOf(table)
      BY <1>2, BucketsFacts
    <2>2. Buckets' = BucketsOf(table') \union BucketsOf(old')
      BY DEF Buckets, BucketsOf, At
    <2>3. BucketsOf(table') = {}
      BY <1>5 DEF BucketsOf
    <2>4. b \in BucketsOf(table) => b \in BucketsOf(old')
      BY <1>7 DEF BucketsOf
    <2>5. b \in BucketsOf(old') => b \in BucketsOf(table)
      <3>1. SUFFICES ASSUME b \in BucketsOf(old') PROVE b \in BucketsOf(table)
        OBVIOUS
      <3>2. PICK y \in Places(old') : b = At(old', y)
        BY <3>1 DEF BucketsOf
      <3>3. PICK x \in Places(table) : y = up(x)
        BY <1>8
      <3>4. b = At(table, x)
        BY <1>7, <3>2, <3>3
      <3> QED
        BY <3>4 DEF BucketsOf
    <2> QED
      BY <2>1, <2>2, <2>3, <2>4, <2>5
  <1> QED
    BY <1>12, <1>13, <1>14

(* expand_map moves one bucket, from one set of chains to the other.       *)
LEMMA MoveStep ==
  ASSUME IInv, Move
  PROVE  Chains' /\ Counted' /\ \A b : b \in Buckets' <=> b \in Buckets
  <1> DEFINE D == 0 .. length - 1
             E == 1 .. Len(old)
             i == place + 1
             p == <<i, 1>>
             e == Head(old[i])
             j == Index(e.key)
  <1>1. /\ table \in [D -> Seq(Bucket)] /\ old \in [E -> Seq(Bucket)]
        /\ length \in Nat \ {0} /\ capacity \in Int /\ i \in E /\ old[i] \in Seq(Bucket)
    BY DEF IInv, TypeOK, Move
  <1>2. /\ 1 \in 1 .. Len(old[i]) /\ old[i][1] = e /\ e \in Bucket
        /\ Tail(old[i]) = Drop(old[i], 1)
    BY <1>1, TailDrops DEF Move
  <1>3. /\ table' = [table EXCEPT ![j] = <<e>> \o table[j]]
        /\ old' = [old EXCEPT ![i] = Drop(old[i], 1)]
        /\ UNCHANGED <<length, capacity, pc>>
    BY <1>2 DEF Move, locals
  <1>4. j \in D /\ j = Home(e.key, length, 0)
    <2>1. e.key \in Keys
      BY <1>2, BucketFacts
    <2>2. get_place(length, Hash[e.key]) \in 0 .. length - 1
      BY <1>1, <2>1, IndexFacts
    <2> QED
      BY <2>2 DEF Index, Home
  <1>5. p \in Places(old) /\ At(old, p) = e
    <2>1. old \in [E -> Seq(Bucket)] /\ i \in E
      BY <1>1
    <2>2. ASSUME NEW n \in 1 .. Len(old[i])
          PROVE  <<i, n>> \in Places(old) /\ At(old, <<i, n>>) = old[i][n]
      <3> HIDE DEF E, i
      <3> QED
        BY ONLY <2>1, <2>2, HasPlace
    <2> QED
      BY <1>2, <2>2
  <1>6. /\ Keyed(table, length, 0) /\ Keyed(old, Len(old), 1) /\ Apart
        /\ IsFiniteSet(Places(table)) /\ IsFiniteSet(Places(old))
        /\ capacity + Lag = Cardinality(Places(table)) + Cardinality(Places(old))
    BY DEF IInv, Chains, WellPlaced, OldWellPlaced, Counted, Short
  <1>7. \A a \in BucketsOf(table), b \in BucketsOf(old) : a.key # b.key
    BY <1>6 DEF Apart, BucketsOf
  <1>8. Lacks(table, e.key) /\ e \in BucketsOf(old)
    BY <1>5, <1>7 DEF Lacks, BucketsOf
  <1>9. old' = DropAt(old, p) /\ table' = Link(table, j, e)
    BY <1>3 DEF DropAt, Link
  <1>10. /\ IsFiniteSet(Places(table'))
         /\ Cardinality(Places(table')) = Cardinality(Places(table)) + 1
    <2> DEFINE s == <<e>> \o table[j]
    <2>1. table[j] \in Seq(Bucket)
      BY <1>1, <1>4
    <2>2. s \in Seq(Bucket) /\ Len(s) = Len(table[j]) + 1
      BY <1>2, <2>1, FrontFacts
    <2>3. table' = [table EXCEPT ![j] = s]
      BY <1>3
    <2> HIDE DEF D, e, j, s
    <2> QED
      BY ONLY <1>1, <1>4, <1>6, <2>2, <2>3, PlacesGrow
  <1>11. /\ IsFiniteSet(Places(old'))
         /\ Cardinality(Places(old')) = Cardinality(Places(old)) - 1
    <2> DEFINE s == Drop(old[i], 1)
    <2>1. s \in Seq(Bucket) /\ Len(s) = Len(old[i]) - 1
      BY <1>1, <1>2, DropFacts
    <2>2. old' = [old EXCEPT ![i] = s]
      BY <1>3
    <2> HIDE DEF E, i, s
    <2> QED
      BY ONLY <1>1, <1>6, <2>1, <2>2, PlacesShrink
  <1>12. Counted'
    <2>1. Lag' = Lag
      BY <1>3 DEF Lag
    <2>2. Cardinality(Places(table)) \in Nat /\ Cardinality(Places(old)) \in Nat
      BY <1>6, FS_CardinalityType
    <2> QED
      BY <1>3, <1>6, <1>10, <1>11, <2>1, <2>2 DEF Counted, Short
  <1> HIDE DEF D, E, i, p, e, j
  <1>13. Keyed(table', length, 0) /\ BucketsOf(table') = BucketsOf(table) \union {e}
    <2>1. table \in [D -> Seq(Bucket)] /\ e \in Bucket /\ Keyed(table, length, 0)
      BY <1>1, <1>2, <1>6
    <2>2. /\ Keyed(Link(table, j, e), length, 0)
          /\ BucketsOf(Link(table, j, e)) = BucketsOf(table) \union {e}
      BY ONLY <1>4, <1>8, <2>1, FrontKeyed
    <2> QED
      BY <1>9, <2>2
  <1>14. /\ Keyed(old', Len(old), 1)
         /\ \A b : b \in BucketsOf(old') <=> b \in BucketsOf(old) /\ b.key # e.key
    <2>1. /\ Keyed(DropAt(old, p), Len(old), 1)
          /\ \A b : b \in BucketsOf(DropAt(old, p)) <=> b \in BucketsOf(old) /\ b.key # At(old, p).key
      <3>1. old \in [E -> Seq(Bucket)] /\ p \in Places(old) /\ Keyed(old, Len(old), 1)
        BY <1>1, <1>5, <1>6
      <3> QED
        BY ONLY <3>1, DropKeyed
    <2> QED
      BY <1>5, <1>9, <2>1
  <1>15. Len(old') = Len(old)
    BY <1>3 DEF IInv, TypeOK
  <1>16. \A a \in BucketsOf(table'), b \in BucketsOf(old') : a.key # b.key
    BY <1>7, <1>13, <1>14
  <1>17. Apart'
    BY <1>16 DEF Apart, BucketsOf
  <1>18. Chains'
    BY <1>3, <1>13, <1>14, <1>15, <1>17 DEF Chains, WellPlaced, OldWellPlaced
  <1>19. ASSUME NEW b PROVE b \in Buckets' <=> b \in Buckets
    <2>1. Buckets' = BucketsOf(table') \union BucketsOf(old')
          /\ Buckets = BucketsOf(table) \union BucketsOf(old)
      BY DEF Buckets, BucketsOf, At
    <2>2. b \in BucketsOf(old) /\ b.key = e.key => b = e
      <3>1. SUFFICES ASSUME b \in BucketsOf(old), b.key = e.key PROVE b = e
        OBVIOUS
      <3>2. PICK y \in Places(old) : b = At(old, y)
        BY <3>1 DEF BucketsOf
      <3>3. y = p
        BY <1>5, <1>6, <3>1, <3>2 DEF Keyed
      <3> QED
        BY <1>5, <3>2, <3>3
    <2> QED
      BY <1>8, <1>13, <1>14, <2>1, <2>2
  <1> QED
    BY <1>12, <1>18, <1>19

(* What leaves the table, what is to be moved and the count alone.         *)
LEMMA QuietStep ==
  ASSUME IInv, UNCHANGED <<table, old, length, capacity>>, Lag' = Lag
  PROVE  Chains' /\ Counted' /\ Buckets' = Buckets
  <1>1. Chains'
    BY DEF IInv, Chains, WellPlaced, OldWellPlaced, Apart
  <1>2. Counted'
    BY DEF IInv, Counted, Short
  <1> QED
    BY <1>1, <1>2 DEF Buckets

(* expand_map goes on to the next chain or, after the last, lets go of the *)
(* old chains, which are empty.                                            *)
LEMMA MoveOnStep ==
  ASSUME IInv, MoveOn
  PROVE  Chains' /\ Counted' /\ \A b : b \in Buckets' <=> b \in Buckets
  <1>1. TypeOK /\ writer \in Threads /\ pc[writer] = "expand"
    BY DEF IInv, TypeOK, MoveOn
  <1>2. CASE place < Len(old)
    <2>1. UNCHANGED <<table, old, length, capacity, pc>>
      BY <1>2 DEF MoveOn
    <2>2. Lag' = Lag
      BY <2>1 DEF Lag
    <2>3. Chains' /\ Counted' /\ Buckets' = Buckets
      BY <2>1, <2>2, QuietStep
    <2> QED
      BY <2>3
  <1>3. CASE ~(place < Len(old))
    <2>1. old' = <<>> /\ pc' = [pc EXCEPT ![writer] = "put"]
          /\ UNCHANGED <<table, length, capacity>>
      BY <1>3 DEF MoveOn
    <2>2. Places(old) = {}
      <3>1. \A i \in 1 .. Len(old) : old[i] = <<>>
        BY <1>1, <1>3 DEF IInv, Growing, Expanding, MoveOn, TypeOK
      <3>2. DOMAIN old = 1 .. Len(old)
        BY <1>1 DEF TypeOK
      <3> QED
        BY <3>1, <3>2, PlacesEmpty
    <2>3. Places(old') = {} /\ Places(table') = Places(table)
      BY <2>1, PlacesEmpty
    <2>4. Lag' = Lag
      BY <1>1, <2>1, SameLag DEF PcPlaces
    <2>5. Counted'
      BY <2>1, <2>2, <2>3, <2>4 DEF IInv, Counted, Short
    <2>6. Chains'
      BY <2>1, <2>3 DEF IInv, Chains, WellPlaced, OldWellPlaced, Apart, Keyed
    <2>7. \A b : b \in Buckets' <=> b \in Buckets
      BY <2>1, <2>2, <2>3 DEF Buckets
    <2> QED
      BY <2>5, <2>6, <2>7
  <1> QED
    BY <1>2, <1>3

(* The destructor deletes every bucket before it stops.                    *)
LEMMA DestroyStep ==
  ASSUME IInv, Destroy
  PROVE  Chains' /\ Counted' /\ NoLeak' /\ Buckets' = {} /\ old = <<>>
  <1>1. old = <<>> /\ old' = <<>>
    BY DEF IInv, TypeOK, Growing, Expanding, Destroy
  <1>2. Lag = 0 /\ Lag' = 0
    BY DEF Destroy, Lag, locals
  <1>3. IsFiniteSet(Places(table)) /\ capacity = Cardinality(Places(table))
    BY <1>1, <1>2, Alone DEF IInv, TypeOK, Counted
  <1>4. Places(table') = {}
    <2>1. table' = [i \in 0 .. length - 1 |-> <<>>]
      BY DEF Destroy
    <2> QED
      BY <2>1, PlacesEmpty
  <1>5. leaked' = {}
    <2>1. ASSUME NEW y \in Places(table), NEW i \in 0 .. y[1], Deleted(i) = capacity
          PROVE  FALSE
      <3> DEFINE before == {x \in Places(table) : x[1] < i}
      <3>1. before = Places(table)
        BY <1>3, <2>1, FS_Subset DEF Deleted
      <3>2. y[1] \in Nat
        <4>1. table \in [0 .. length - 1 -> Seq(Bucket)] /\ length \in Nat
          BY DEF IInv, TypeOK
        <4>2. y[1] \in 0 .. length - 1
          BY <4>1, PlaceFacts
        <4> QED
          BY <4>1, <4>2
      <3>3. y[1] < i
        BY <2>1, <3>1
      <3> QED
        BY <3>2, <3>3
    <2> DEFINE left == {y \in Places(table) : \E i \in 0 .. y[1] : Deleted(i) = capacity}
    <2>2. left = {}
      BY <2>1
    <2>3. leaked' = {table[x[1]][x[2]] : x \in left}
      BY DEF Destroy
    <2> HIDE DEF left
    <2> QED
      BY <2>2, <2>3
  <1>6. IsFiniteSet(Places(table')) /\ capacity' + Lag' = Cardinality(Places(table'))
    <2>1. capacity' = 0
      BY DEF Destroy
    <2> QED
      BY <1>2, <1>4, <2>1, FS_EmptySet
  <1>7. Keyed(table', length', 0)
    BY <1>4 DEF Keyed
  <1>8. Chains' /\ Counted' /\ Buckets' = BucketsOf(table')
    BY <1>1, <1>6, <1>7, AloneStep
  <1> QED
    BY <1>1, <1>4, <1>5, <1>8 DEF NoLeak, BucketsOf

-----------------------------------------------------------------------------
(* The invariants of every execution                                       *)

(* Every step of the program keeps the inductive invariant.                *)
LEMMA StepInvariant ==
  ASSUME IInv, [Next]_vars
  PROVE  IInv'
  <1>1. TypeOK' /\ Locked' /\ Growing'
    BY TypeStep, LockedStep, GrowingStep
  <1>2. Chains' /\ Counted'
    <2>1. ASSUME NEW t \in Threads, LockRead(t) \/ LockWrite(t) \/ Release(t) \/ Read(t)
          PROVE  Chains' /\ Counted'
      <3>1. UNCHANGED <<table, old, length, capacity>>
        BY <2>1 DEF LockRead, LockWrite, Release, Read
      <3>2. PICK q \in PcPlaces : q \notin {"count", "uncount"} /\ pc[t] \notin {"count", "uncount"}
                             /\ pc' = [pc EXCEPT ![t] = q]
        BY <2>1 DEF LockRead, LockWrite, Release, Read, In, Return, PcPlaces
      <3>3. Lag' = Lag
        BY <3>2, SameLag DEF IInv
      <3> QED
        BY <3>1, <3>3, QuietStep
    <2>2. ASSUME NEW t \in Threads,
                 Take(t) \/ Uncount(t) \/ Replace(t) \/ Expand(t) \/ Put(t) \/ Count(t)
          PROVE  Chains' /\ Counted'
      BY <2>2, TakeStep, UncountStep, ReplaceStep, ExpandStep, PutStep, CountStep
    <2>3. CASE Move \/ MoveOn \/ Destroy
      BY <2>3, MoveStep, MoveOnStep, DestroyStep
    <2>4. CASE UNCHANGED vars
      <3>1. UNCHANGED <<table, old, length, capacity>> /\ Lag' = Lag
        BY <2>4 DEF vars, locals, Lag
      <3> QED
        BY <3>1, QuietStep
    <2> QED
      BY <2>1, <2>2, <2>3, <2>4 DEF Next
  <1>3. NoLeak'
    <2>1. CASE Destroy
      BY <2>1, DestroyStep
    <2>2. CASE ~Destroy
      <3>1. leaked' = leaked
        BY <2>2 DEF Next, vars, LockRead, LockWrite, Release, Read, Take, Uncount, Replace,
                    Expand, Put, Count, Move, MoveOn
      <3> QED
        BY <3>1 DEF IInv, NoLeak
    <2> QED
      BY <2>1, <2>2
  <1> QED
    BY <1>1, <1>2, <1>3 DEF IInv

(* The inductive invariant holds throughout: whoever is in an operation    *)
(* has the lock that it needs, every bucket is in the chain that its key's *)
(* hash names and is the only one with its key, also while add doubles the *)
(* table, and the count is the number of buckets, but for the one that an  *)
(* add is about to count or a remove or steal is about to count no longer. *)
THEOREM Invariant == Spec => []IInv
  <1>1. Init => IInv
    BY InitInvariant
  <1>2. IInv /\ [Next]_vars => IInv'
    BY StepInvariant
  <1> QED
    BY <1>1, <1>2, PTL DEF Spec

(* getSize, which takes no lock, answers the number of buckets there are,  *)
(* short of the one that an add has linked and not counted, or over by the *)
(* one that a remove or steal has deleted and still counts.                *)
THEOREM SizeIsHonestHolds == Spec => []SizeIsHonest
  <1>1. IInv => SizeIsHonest
    <2> SUFFICES ASSUME IInv PROVE SizeIsHonest
      OBVIOUS
    <2> DEFINE at(where) == {t \in Threads : pc[t] = where}
    <2>1. ASSUME NEW where \in {"count", "uncount"}
          PROVE  Cardinality(at(where)) = IF \E t \in Threads : pc[t] = where THEN 1 ELSE 0
      <3>1. CASE \E t \in Threads : pc[t] = where
        <4>1. PICK t \in Threads : pc[t] = where
          BY <3>1
        <4>2. at(where) = {t}
          BY <4>1 DEF IInv, Locked, Adding
        <4> QED
          BY <3>1, <4>2, FS_Singleton
      <3>2. CASE ~ \E t \in Threads : pc[t] = where
        <4>1. at(where) = {}
          BY <3>2
        <4> QED
          BY <3>2, <4>1, FS_EmptySet
      <3> QED
        BY <3>1, <3>2
    <2>2. ~((\E t \in Threads : pc[t] = "count") /\ \E t \in Threads : pc[t] = "uncount")
      BY DEF IInv, Locked, Adding
    <2>3. /\ capacity + Lag = Cardinality(Places(table)) + Cardinality(Places(old))
          /\ Cardinality(Places(table)) \in Nat /\ Cardinality(Places(old)) \in Nat
          /\ capacity \in Int
      BY FS_CardinalityType DEF IInv, Counted, Short, TypeOK
    <2>4. Lag = Cardinality(at("count")) - Cardinality(at("uncount"))
      BY <2>1, <2>2 DEF Lag
    <2>5. Cardinality(at("count")) \in {0, 1} /\ Cardinality(at("uncount")) \in {0, 1}
      BY <2>1
    <2> HIDE DEF at
    <2>6. capacity + Cardinality(at("count"))
            = Cardinality(Places(table)) + Cardinality(Places(old)) + Cardinality(at("uncount"))
      BY <2>3, <2>4, <2>5
    <2> QED
      BY <2>6 DEF SizeIsHonest, getSize, at
  <1> QED
    BY <1>1, Invariant, PTL

(* The destructor, which counts down from the count to find its end,       *)
(* deletes every bucket.                                                   *)
THEOREM NoLeakHolds == Spec => []NoLeak
  <1>1. IInv => NoLeak
    BY DEF IInv
  <1> QED
    BY <1>1, Invariant, PTL

-----------------------------------------------------------------------------
(* The refinement                                                          *)

MapsBuckets ==
  /\ Abstract \in [Keys -> Values \union {NoValue}]
  /\ \A b \in Buckets : b.key \in Keys /\ b.val \in Values /\ Abstract[b.key] = b.val
  /\ \A k \in Keys : (\A b \in Buckets : b.key # k) => Abstract[k] = NoValue

(* A key is mapped to the value of its one bucket, wherever that waits.    *)
LEMMA AbstractFacts == IInv => MapsBuckets
  <1> SUFFICES ASSUME IInv PROVE MapsBuckets
    OBVIOUS
  <1>1. ASSUME NEW b \in Buckets PROVE b \in Bucket
    <2>1. table \in [0 .. length - 1 -> Seq(Bucket)] /\ old \in [1 .. Len(old) -> Seq(Bucket)]
      BY DEF IInv, TypeOK
    <2>2. (\A x \in Places(table) : At(table, x) \in Bucket)
      BY <2>1, PlaceFacts
    <2>3. (\A x \in Places(old) : At(old, x) \in Bucket)
      BY <2>1, PlaceFacts
    <2> QED
      BY <2>2, <2>3 DEF Buckets, At
  <1>2. ASSUME NEW a \in Buckets, NEW b \in Buckets, a.key = b.key PROVE a = b
    <2>1. Buckets = BucketsOf(table) \union BucketsOf(old)
      BY BucketsFacts
    <2>2. \A x, y \in Places(table) : At(table, x).key = At(table, y).key => x = y
      BY DEF IInv, Chains, WellPlaced, Keyed
    <2>3. \A x, y \in Places(old) : At(old, x).key = At(old, y).key => x = y
      BY DEF IInv, Chains, OldWellPlaced, Keyed
    <2>4. \A x \in Places(table), y \in Places(old) : At(table, x).key # At(old, y).key
      BY DEF IInv, Chains, Apart
    <2> QED
      BY <1>2, <2>1, <2>2, <2>3, <2>4 DEF BucketsOf
  <1>3. \A k \in Keys :
          Abstract[k] = IF \E b \in Buckets : b.key = k
                          THEN (CHOOSE b \in Buckets : b.key = k).val ELSE NoValue
    BY DEF Abstract
  <1>4. ASSUME NEW b \in Buckets
        PROVE  b.key \in Keys /\ b.val \in Values /\ Abstract[b.key] = b.val
    <2>1. b.key \in Keys /\ b.val \in Values
      BY <1>1, BucketFacts
    <2>2. (CHOOSE a \in Buckets : a.key = b.key) = b
      BY <1>2
    <2> QED
      BY <1>3, <2>1, <2>2
  <1>5. ASSUME NEW k \in Keys, \A b \in Buckets : b.key # k PROVE Abstract[k] = NoValue
    BY <1>3, <1>5
  <1>6. DOMAIN Abstract = Keys /\ Abstract = [k \in Keys |-> Abstract[k]]
    BY DEF Abstract
  <1>7. ASSUME NEW k \in Keys PROVE Abstract[k] \in Values \union {NoValue}
    <2>1. CASE \E b \in Buckets : b.key = k
      BY <1>4, <2>1
    <2>2. CASE ~ \E b \in Buckets : b.key = k
      BY <1>5, <2>2
    <2> QED
      BY <2>1, <2>2
  <1> QED
    BY <1>4, <1>5, <1>6, <1>7 DEF MapsBuckets

(* Outside of an expansion get_bucket answers what the map holds.          *)
LEMMA LookupFacts ==
  ASSUME IInv, old = <<>>, NEW k \in Keys
  PROVE  Found(k) = (Abstract[k] # NoValue) /\ Value(k) = Abstract[k]
  <1>1. /\ Found(k) <=> \E b \in Buckets : b.key = k
        /\ \A b \in Buckets : b.key = k => b.val = Value(k)
    BY FoundBucket DEF IInv, Chains
  <1>2. CASE Found(k)
    <2>1. PICK b \in Buckets : b.key = k
      BY <1>1, <1>2
    <2>2. b.val \in Values /\ Abstract[k] = b.val
      BY <2>1, AbstractFacts DEF MapsBuckets
    <2> QED
      BY <1>1, <1>2, <2>1, <2>2, TsHashTableAssumption DEF Found
  <1>3. CASE ~Found(k)
    <2>1. Abstract[k] = NoValue
      BY <1>1, <1>3, AbstractFacts DEF MapsBuckets
    <2> QED
      BY <1>3, <2>1 DEF Value, Found
  <1> QED
    BY <1>2, <1>3

(* The map is what its buckets make it.                                    *)
LEMMA SameMap ==
  ASSUME \A b : b \in Buckets' <=> b \in Buckets
  PROVE  Abstract' = Abstract
  <1>1. Buckets' = Buckets
    OBVIOUS
  <1> QED
    BY <1>1 DEF Abstract

(* A bucket for a key, in place of the one it had, maps the key.           *)
LEMMA SetMap ==
  ASSUME IInv, IInv', NEW k \in Keys, NEW v \in Values,
         \A b : b \in Buckets' <=> (b \in Buckets /\ b.key # k) \/ b = [key |-> k, val |-> v]
  PROVE  Abstract' = [Abstract EXCEPT ![k] = v]
  <1>1. (IInv => MapsBuckets)'
    BY AbstractFacts, PTL
  <1>2. ASSUME NEW h \in Keys PROVE Abstract'[h] = IF h = k THEN v ELSE Abstract[h]
    <2>1. CASE h = k
      <3>1. [key |-> k, val |-> v] \in Buckets'
        OBVIOUS
      <3> QED
        BY <1>1, <2>1, <3>1 DEF MapsBuckets
    <2>2. CASE h # k
      <3>1. CASE \E b \in Buckets : b.key = h
        <4>1. PICK b \in Buckets : b.key = h
          BY <3>1
        <4>2. b \in Buckets'
          BY <2>2, <4>1
        <4> QED
          BY <1>1, <2>2, <4>1, <4>2, AbstractFacts DEF MapsBuckets
      <3>2. CASE \A b \in Buckets : b.key # h
        <4>1. \A b \in Buckets' : b.key # h
          BY <2>2, <3>2
        <4> QED
          BY <1>1, <2>2, <3>2, <4>1, AbstractFacts DEF MapsBuckets
      <3> QED
        BY <3>1, <3>2
    <2> QED
      BY <2>1, <2>2
  <1> QED
    BY <1>1, <1>2, AbstractFacts DEF MapsBuckets

(* And without its bucket it is mapped to nothing.                         *)
LEMMA ClearMap ==
  ASSUME IInv, IInv', NEW k \in Keys,
         \A b : b \in Buckets' <=> b \in Buckets /\ b.key # k
  PROVE  Abstract' = [Abstract EXCEPT ![k] = NoValue]
  <1>1. (IInv => MapsBuckets)'
    BY AbstractFacts, PTL
  <1>2. ASSUME NEW h \in Keys PROVE Abstract'[h] = IF h = k THEN NoValue ELSE Abstract[h]
    <2>1. CASE h # k /\ \E b \in Buckets : b.key = h
      <3>1. PICK b \in Buckets : b.key = h
        BY <2>1
      <3>2. b \in Buckets'
        BY <2>1, <3>1
      <3> QED
        BY <1>1, <2>1, <3>1, <3>2, AbstractFacts DEF MapsBuckets
    <2>2. CASE h = k \/ \A b \in Buckets : b.key # h
      <3>1. \A b \in Buckets' : b.key # h
        BY <2>2
      <3> QED
        BY <1>1, <2>2, <3>1, AbstractFacts DEF MapsBuckets
    <2> QED
      BY <2>1, <2>2
  <1> QED
    BY <1>1, <1>2, AbstractFacts DEF MapsBuckets

-----------------------------------------------------------------------------
(* The steps of the map                                                    *)

(* Each step of the table is a step of the map or leaves it alone.         *)
LEMMA RefinesStep ==
  ASSUME IInv, IInv', [Next]_vars
  PROVE  [Map!Next]_<<Abstract, ret>>
  <1>1. ASSUME NEW t \in Threads, LockRead(t) \/ LockWrite(t) \/ Release(t) \/ Count(t) \/ Uncount(t)
        PROVE  UNCHANGED <<Abstract, ret>>
    <2>1. UNCHANGED <<table, old, ret>>
      BY <1>1 DEF LockRead, LockWrite, Release, Count, Uncount
    <2>2. Buckets' = Buckets
      BY <2>1 DEF Buckets, Places
    <2> QED
      BY <2>1, <2>2, SameMap
  <1>2. ASSUME NEW t \in Threads, Expand(t)
        PROVE  UNCHANGED <<Abstract, ret>>
    BY <1>2, ExpandStep, SameMap DEF Expand
  <1>3. ASSUME Move \/ MoveOn
        PROVE  UNCHANGED <<Abstract, ret>>
    BY <1>3, MoveStep, MoveOnStep, SameMap DEF Move, MoveOn, locals
  <1>4. ASSUME NEW t \in Threads, Read(t)
        PROVE  Map!Next
    <2> DEFINE k == op[t].key
    <2>1. op[t] \in Reads /\ writer = Nobody /\ pc[t] = "body"
      BY <1>4, OpFacts DEF IInv, Read, In, Puts, Takes, Locked
    <2>2. k \in Keys /\ op[t].name \in {"get", "contains"}
      BY <2>1 DEF Reads
    <2>3. old = <<>>
      BY <2>1 DEF IInv, Growing, Expanding
    <2>4. Found(k) = (Abstract[k] # NoValue) /\ Value(k) = Abstract[k]
      BY <2>2, <2>3, LookupFacts
    <2>5. Abstract' = Abstract
      <3>1. UNCHANGED <<table, old>>
        BY <1>4 DEF Read
      <3>2. Buckets' = Buckets
        BY <3>1 DEF Buckets, Places
      <3> QED
        BY <3>2, SameMap
    <2>6. ret' = [ret EXCEPT ![t] = [found |-> Found(k),
                                     val |-> IF op[t].name = "get" THEN Value(k) ELSE NoValue]]
      BY <1>4 DEF Read, Return, Answer
    <2> HIDE DEF k
    <2>7. Map!get(t, k) \/ Map!contains(t, k)
      BY <2>2, <2>4, <2>5, <2>6 DEF Map!get, Map!contains, Map!Answer, Map!Found
    <2> QED
      BY <2>2, <2>7 DEF Map!Next
  <1>5. ASSUME NEW t \in Threads, Take(t)
        PROVE  Map!Next
    <2> DEFINE k == op[t].key
    <2>1. /\ op[t] \in Takes /\ k \in Keys /\ old = <<>>
          /\ \A b : b \in Buckets' <=> b \in Buckets /\ b.key # k
      BY <1>5, TakeStep
    <2>2. op[t].name \in {"remove", "steal"}
      BY <2>1 DEF Takes
    <2>3. Found(k) = (Abstract[k] # NoValue) /\ Value(k) = Abstract[k]
      BY <2>1, LookupFacts
    <2>4. ret' = [ret EXCEPT ![t] = [found |-> Found(k),
                                     val |-> IF op[t].name = "steal" THEN Value(k) ELSE NoValue]]
      BY <1>5 DEF Take, Answer
    <2> HIDE DEF k
    <2>5. Abstract' = [Abstract EXCEPT ![k] = NoValue]
      BY <2>1, ClearMap
    <2>6. Map!remove(t, k) \/ Map!steal(t, k)
      BY <2>2, <2>3, <2>4, <2>5 DEF Map!remove, Map!steal, Map!Answer, Map!Found
    <2> QED
      BY <2>1, <2>6 DEF Map!Next
  <1>6. ASSUME NEW t \in Threads, Replace(t)
        PROVE  Map!Next
    <2> DEFINE k == op[t].key
               v == op[t].val
    <2>1. /\ k \in Keys /\ v \in Values /\ old = <<>>
          /\ \A b : b \in Buckets' <=> \/ b \in Buckets /\ b.key # k
                                       \/ b = [key |-> k, val |-> v] /\ \E a \in Buckets : a.key = k
      BY <1>6, ReplaceStep
    <2>2. Found(k) = (Abstract[k] # NoValue) /\ Value(k) = Abstract[k]
      BY <2>1, LookupFacts
    <2>3. ret' = [ret EXCEPT ![t] = [found |-> Found(k), val |-> NoValue]]
      BY <1>6 DEF Replace, Return, Answer
    <2>4. Found(k) <=> \E a \in Buckets : a.key = k
      BY <2>1, FoundBucket DEF IInv, Chains
    <2> HIDE DEF k, v
    <2>5. Abstract' = IF Found(k) THEN [Abstract EXCEPT ![k] = v] ELSE Abstract
      <3>1. CASE Found(k)
        BY <2>1, <2>4, <3>1, SetMap
      <3>2. CASE ~Found(k)
        <4>1. \A b : b \in Buckets' <=> b \in Buckets
          BY <2>1, <2>4, <3>2
        <4> QED
          BY <3>2, <4>1, SameMap
      <3> QED
        BY <3>1, <3>2
    <2>6. Map!replace(t, k, v)
      BY <2>2, <2>3, <2>5 DEF Map!replace, Map!Answer, Map!Found
    <2> QED
      BY <2>1, <2>6 DEF Map!Next
  <1>7. ASSUME NEW t \in Threads, Put(t)
        PROVE  Map!Next
    <2> DEFINE k == op[t].key
               v == op[t].val
    <2>1. /\ k \in Keys /\ v \in Values /\ old = <<>>
          /\ \A b : b \in Buckets' <=> (b \in Buckets /\ b.key # k) \/ b = [key |-> k, val |-> v]
      BY <1>7, PutStep
    <2>2. Found(k) = (Abstract[k] # NoValue)
      BY <2>1, LookupFacts
    <2>3. ret' = [ret EXCEPT ![t] = [found |-> Found(k), val |-> NoValue]]
      BY <1>7 DEF Put
    <2> HIDE DEF k, v
    <2>4. Abstract' = [Abstract EXCEPT ![k] = v]
      BY <2>1, SetMap
    <2>5. Map!add(t, k, v)
      BY <2>2, <2>3, <2>4 DEF Map!add, Map!Answer, Map!Found
    <2> QED
      BY <2>1, <2>5 DEF Map!Next
  <1>8. ASSUME Destroy
        PROVE  Map!Next
    <2>1. Buckets' = {} /\ ret' = ret
      BY <1>8, DestroyStep DEF Destroy, locals
    <2>2. Abstract' = [k \in Keys |-> NoValue]
      BY <2>1 DEF Abstract
    <2> QED
      BY <2>1, <2>2 DEF Map!Next, Map!Destroy, Map!Empty
  <1>9. CASE UNCHANGED vars
    <2>1. UNCHANGED <<table, old, ret>>
      BY <1>9 DEF vars, locals
    <2>2. Buckets' = Buckets
      BY <2>1 DEF Buckets, Places
    <2> QED
      BY <2>1, <2>2, SameMap
  <1> QED
    BY <1>1, <1>2, <1>3, <1>4, <1>5, <1>6, <1>7, <1>8, <1>9 DEF Next

(* The table implements the map: each operation takes effect, and gets its *)
(* answer, in one instant between its call and its return, and no step of  *)
(* an expansion shows, whatever keys the hash puts into one chain.         *)
THEOREM Refinement == Spec => ImplementsMap
  <1>1. Init => Map!Init
    <2> SUFFICES ASSUME Init PROVE Map!Init
      OBVIOUS
    <2>1. old = <<>> /\ table = [i \in 0 .. length - 1 |-> <<>>]
      BY DEF Init
    <2>2. Places(table) = {} /\ Places(old) = {}
      <3>1. Places(table) = {}
        BY <2>1, PlacesEmpty
      <3>2. Places(old) = {}
        BY <2>1, PlacesEmpty
      <3> QED
        BY <3>1, <3>2
    <2>3. Buckets = {}
      BY <2>2 DEF Buckets
    <2>4. Abstract = [k \in Keys |-> NoValue]
      BY <2>3 DEF Abstract
    <2> QED
      BY <2>4 DEF Init, Map!Init, Map!Empty
  <1>2. IInv /\ IInv' /\ [Next]_vars => [Map!Next]_<<Abstract, ret>>
    BY RefinesStep
  <1> QED
    BY <1>1, <1>2, Invariant, PTL DEF Spec, ImplementsMap, Map!Spec

=============================================================================
