----------------------------- MODULE TsHashTable -----------------------------
(***************************************************************************)
(* TsHashTable (libsensor/source/base/ts_hash_table.hpp): chained buckets  *)
(* behind a read-write lock (threading.hpp).  A chain is the sequence of   *)
(* its buckets; Hash stands for spread_hash(times33(key)).                 *)
(*                                                                         *)
(* Everything but getSize happens under the lock.  An operation is one     *)
(* step, except where getSize can look into it: remove and steal take a    *)
(* bucket off the count after they have unlinked and deleted it, add may   *)
(* double the table first, bucket by bucket, and counts a new bucket after *)
(* it has linked it.                                                       *)
(***************************************************************************)
EXTENDS Integers, Sequences, FiniteSets

CONSTANTS
  Threads, Keys, Values, NoValue, Nobody,
  Hash,           \* [Keys -> Nat]
  InitialLength   \* 16 in the code

ASSUME TsHashTableAssumption ==
  /\ Hash \in [Keys -> Nat]
  /\ InitialLength \in Nat \ {0}
  \* A power of two, and it is doubled: so get_place's `&` with a mask is a `%`.
  /\ \E n \in 0 .. InitialLength : InitialLength = 2 ^ n
  /\ NoValue \notin Values /\ Nobody \notin Threads

VARIABLES
  table, length,
  capacity,       \* the number of buckets (this is the code's name for it)
  readers, writer,            \* the lock: who holds it
  pc, op,         \* thread t: its place in an operation, and its arguments
  ret,            \* thread t: `found` or `result`, and the value it was given
  old, place,     \* expand_map: the chains it moves and the index it has reached
  alive, leaked   \* the destructor has run, and what it did not delete

locals == <<pc, op, ret>>
vars == <<table, length, capacity, readers, writer, locals, old, place, alive, leaked>>

get_place(len, hash) == hash % len
Index(k) == get_place(length, Hash[k])

Bucket == [key : Keys, val : Values]
Matches(chain, k) == {n \in 1 .. Len(chain) : chain[n].key = k}
Drop(chain, n) == SubSeq(chain, 1, n - 1) \o SubSeq(chain, n + 1, Len(chain))

Reads == [name : {"get", "contains"}, key : Keys]
Takes == [name : {"remove", "steal"}, key : Keys]
Puts  == [name : {"add", "replace"}, key : Keys, val : Values]

Init ==
  /\ length = InitialLength
  /\ table = [i \in 0 .. length - 1 |-> <<>>]
  /\ capacity = 0
  /\ readers = {} /\ writer = Nobody
  /\ pc = [t \in Threads |-> "idle"]
  /\ op = [t \in Threads |-> NoValue]
  /\ ret = [t \in Threads |-> [found |-> FALSE, val |-> NoValue]]
  /\ old = <<>> /\ place = 0
  /\ alive = TRUE /\ leaked = {}

-----------------------------------------------------------------------------
(* get_bucket: the first bucket of the chain with the key *)

Chain(k) == table[Index(k)]
Found(k) == Matches(Chain(k), k) # {}
First(k) == CHOOSE n \in Matches(Chain(k), k) : \A m \in Matches(Chain(k), k) : n <= m
Value(k) == IF Found(k) THEN Chain(k)[First(k)].val ELSE NoValue

\* A thread is in the body of an operation, under the lock.
In(t, names) == pc[t] = "body" /\ op[t].name \in names
Answer(t, value) == ret' = [ret EXCEPT ![t] = [found |-> Found(op[t].key), val |-> value]]
Return(t, value) == Answer(t, value) /\ pc' = [pc EXCEPT ![t] = "release"]

SetChain(k, chain) == table' = [table EXCEPT ![Index(k)] = chain]

-----------------------------------------------------------------------------
(* Bugs the properties are sensitive to; none of these is an action of Next *)

\* steal_bucket that makes the successor the first of its chain.
TakeDropsPrevious(t) ==
  /\ In(t, {"remove", "steal"})
  /\ LET k == op[t].key IN
       /\ IF Found(k)
            THEN SetChain(k, SubSeq(Chain(k), First(k) + 1, Len(Chain(k))))
            ELSE UNCHANGED table
       /\ Answer(t, IF op[t].name = "steal" THEN Value(k) ELSE NoValue)
       /\ pc' = [pc EXCEPT ![t] = IF Found(k) THEN "uncount" ELSE "release"]
  /\ UNCHANGED <<length, capacity, readers, writer, op, old, place, alive, leaked>>

\* remove and steal that count down whether or not they found the key.
UncountUnasked(t) ==
  /\ In(t, {"remove", "steal"})
  /\ LET k == op[t].key IN
       /\ IF Found(k) THEN SetChain(k, Drop(Chain(k), First(k))) ELSE UNCHANGED table
       /\ Answer(t, IF op[t].name = "steal" THEN Value(k) ELSE NoValue)
       /\ pc' = [pc EXCEPT ![t] = "uncount"]
  /\ UNCHANGED <<length, capacity, readers, writer, op, old, place, alive, leaked>>

\* add without `capacity++`.
CountForgotten(t) ==
  /\ pc[t] = "count"
  /\ pc' = [pc EXCEPT ![t] = "release"]
  /\ UNCHANGED <<table, length, capacity, readers, writer, op, ret, old, place,
                 alive, leaked>>

-----------------------------------------------------------------------------
(* The lock *)

LockRead(t) ==
  /\ alive /\ pc[t] = "idle" /\ writer = Nobody
  /\ \E o \in Reads : op' = [op EXCEPT ![t] = o]
  /\ readers' = readers \union {t}
  /\ pc' = [pc EXCEPT ![t] = "body"]
  /\ UNCHANGED <<table, length, capacity, writer, ret, old, place, alive, leaked>>

LockWrite(t) ==
  /\ alive /\ pc[t] = "idle" /\ writer = Nobody /\ readers = {}
  /\ \E o \in Puts \union Takes : op' = [op EXCEPT ![t] = o]
  /\ writer' = t
  /\ pc' = [pc EXCEPT ![t] = "body"]
  /\ UNCHANGED <<table, length, capacity, readers, ret, old, place, alive, leaked>>

Release(t) ==
  /\ pc[t] = "release"
  /\ IF writer = t
       THEN writer' = Nobody /\ UNCHANGED readers
       ELSE readers' = readers \ {t} /\ UNCHANGED writer
  /\ pc' = [pc EXCEPT ![t] = "idle"] /\ op' = [op EXCEPT ![t] = NoValue]
  /\ UNCHANGED <<table, length, capacity, ret, old, place, alive, leaked>>

-----------------------------------------------------------------------------
(* The operations *)

\* get and contains
Read(t) ==
  /\ In(t, {"get", "contains"})
  /\ Return(t, IF op[t].name = "get" THEN Value(op[t].key) ELSE NoValue)
  /\ UNCHANGED <<table, length, capacity, readers, writer, op, old, place, alive, leaked>>

\* remove and steal: the bucket is unlinked and deleted, and then not counted.
Take(t) ==
  /\ In(t, {"remove", "steal"})
  /\ LET k == op[t].key IN
       /\ IF Found(k) THEN SetChain(k, Drop(Chain(k), First(k))) ELSE UNCHANGED table
       /\ Answer(t, IF op[t].name = "steal" THEN Value(k) ELSE NoValue)
       /\ pc' = [pc EXCEPT ![t] = IF Found(k) THEN "uncount" ELSE "release"]
  /\ UNCHANGED <<length, capacity, readers, writer, op, old, place, alive, leaked>>

Uncount(t) ==
  /\ pc[t] = "uncount"
  /\ capacity' = capacity - 1
  /\ pc' = [pc EXCEPT ![t] = "release"]
  /\ UNCHANGED <<table, length, readers, writer, op, ret, old, place, alive, leaked>>

\* replace
Replace(t) ==
  /\ In(t, {"replace"})
  /\ LET k == op[t].key IN
       /\ IF Found(k)
            THEN SetChain(k, [Chain(k) EXCEPT ![First(k)].val = op[t].val])
            ELSE UNCHANGED table
       /\ Return(t, NoValue)
  /\ UNCHANGED <<length, capacity, readers, writer, op, old, place, alive, leaked>>

\* add: the table is doubled when it is three quarters full, whatever the key.
Crowded == 4 * capacity >= 3 * length

Expand(t) ==
  /\ In(t, {"add"}) /\ Crowded
  /\ old' = [i \in 1 .. length |-> table[i - 1]] /\ place' = 0
  /\ length' = 2 * length
  /\ table' = [i \in 0 .. length' - 1 |-> <<>>]
  /\ pc' = [pc EXCEPT ![t] = "expand"]
  /\ UNCHANGED <<capacity, readers, writer, op, ret, alive, leaked>>

\* The next bucket goes in front of its new chain.
Move ==
  /\ writer # Nobody /\ pc[writer] = "expand" /\ place < Len(old) /\ old[place + 1] # <<>>
  /\ LET b == Head(old[place + 1])
         j == Index(b.key)
     IN  /\ table' = [table EXCEPT ![j] = <<b>> \o @]
         /\ old' = [old EXCEPT ![place + 1] = Tail(@)]
  /\ UNCHANGED <<length, capacity, readers, writer, locals, place, alive, leaked>>

MoveOn ==
  /\ writer # Nobody /\ pc[writer] = "expand"
  /\ IF place < Len(old)
       THEN old[place + 1] = <<>> /\ place' = place + 1 /\ UNCHANGED <<pc, old>>
       ELSE old' = <<>> /\ place' = 0 /\ pc' = [pc EXCEPT ![writer] = "put"]
  /\ UNCHANGED <<table, length, capacity, readers, writer, op, ret, alive, leaked>>

\* Every bucket with the key gets the value; there being none, a new one does.
Put(t) ==
  /\ pc[t] = "put" \/ (In(t, {"add"}) /\ ~Crowded)
  /\ LET k == op[t].key  chain == Chain(k) IN
       /\ SetChain(k, IF Found(k)
                        THEN [n \in 1 .. Len(chain) |->
                               IF n \in Matches(chain, k)
                                 THEN [chain[n] EXCEPT !.val = op[t].val]
                                 ELSE chain[n]]
                        ELSE <<[key |-> k, val |-> op[t].val]>> \o chain)
       /\ ret' = [ret EXCEPT ![t] = [found |-> Found(k), val |-> NoValue]]
       /\ pc' = [pc EXCEPT ![t] = IF Found(k) THEN "release" ELSE "count"]
  /\ UNCHANGED <<length, capacity, readers, writer, op, old, place, alive, leaked>>

Count(t) ==
  /\ pc[t] = "count"
  /\ capacity' = capacity + 1
  /\ pc' = [pc EXCEPT ![t] = "release"]
  /\ UNCHANGED <<table, length, readers, writer, op, ret, old, place, alive, leaked>>

\* The buckets: their places in a table, or in the chains still to be moved.
Places(chains) == UNION {{i} \X (1 .. Len(chains[i])) : i \in DOMAIN chains}

(* The destructor goes from chain to chain until it has deleted `capacity`  *)
(* buckets.                                                                 *)
Deleted(i) == Cardinality({x \in Places(table) : x[1] < i})

Destroy ==
  /\ alive /\ \A t \in Threads : pc[t] = "idle"
  /\ alive' = FALSE
  /\ leaked' = {table[x[1]][x[2]] :
                 x \in {y \in Places(table) : \E i \in 0 .. y[1] : Deleted(i) = capacity}}
  /\ table' = [i \in 0 .. length - 1 |-> <<>>] /\ capacity' = 0
  /\ UNCHANGED <<length, readers, writer, locals, old, place>>

-----------------------------------------------------------------------------
Next ==
  \/ \E t \in Threads :
       \/ LockRead(t) \/ LockWrite(t) \/ Release(t)
       \/ Read(t) \/ Take(t) \/ Uncount(t) \/ Replace(t)
       \/ Expand(t) \/ Put(t) \/ Count(t)
  \/ Move \/ MoveOn \/ Destroy

Spec == Init /\ [][Next]_vars

-----------------------------------------------------------------------------
(* Properties *)

(* getSize reads the count without the lock: it is the number of buckets,   *)
(* short of the one that an add has linked and not yet counted, or over by  *)
(* the one that a remove or steal has deleted and still counts.  So it is   *)
(* right whenever nobody is inside one of these three, also while a table   *)
(* is being expanded, and never wrong by more than one.                     *)
getSize == capacity

SizeIsHonest ==
  LET at(where) == Cardinality({t \in Threads : pc[t] = where})
      buckets   == Cardinality(Places(table)) + Cardinality(Places(old))
  IN  getSize + at("count") = buckets + at("uncount")

\* The destructor, which stops when it has counted down, deletes every bucket.
NoLeak == leaked = {}

(* The table implements the map, in which each call takes effect at once:   *)
(* a key has the value of its bucket, also while that waits to be moved.    *)
Buckets == {table[x[1]][x[2]] : x \in Places(table)} \union {old[x[1]][x[2]] : x \in Places(old)}

Abstract ==
  [k \in Keys |-> IF \E b \in Buckets : b.key = k
                    THEN (CHOOSE b \in Buckets : b.key = k).val ELSE NoValue]

Map == INSTANCE ConcurrentMap WITH map <- Abstract
ImplementsMap == Map!Spec

=============================================================================
