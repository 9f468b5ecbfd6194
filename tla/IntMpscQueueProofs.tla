-------------------------- MODULE IntMpscQueueProofs --------------------------
(***************************************************************************)
(* Proofs about IntMpscQueue, for every number of producers, nodes and     *)
(* sends.  IInv is the inductive invariant; the safety properties and the  *)
(* refinement of MpscFifo follow from it.                                  *)
(*                                                                         *)
(* The second half is about the two receivers that are built on the queue, *)
(* SignaledQueue and AsyncQueue: what the steps of the queue look like to  *)
(* them, and their invariants SignaledInv and AsyncInv.                    *)
(***************************************************************************)
EXTENDS Receivers, TLAPS, FiniteSetTheorems

IInv == TypeOK /\ Chain

-----------------------------------------------------------------------------
(* Facts about Append and Tail *)

\* Append puts its element behind the others.
LEMMA AppendFacts ==
  ASSUME NEW S, NEW s \in Seq(S), NEW e \in S
  PROVE  /\ Append(s, e) \in Seq(S)
         /\ Len(Append(s, e)) = Len(s) + 1
         /\ \A i \in 1 .. Len(s) : Append(s, e)[i] = s[i]
         /\ Append(s, e)[Len(s) + 1] = e
  OBVIOUS

\* Tail drops the first element and moves the others up by one place.
LEMMA TailFacts ==
  ASSUME NEW S, NEW s \in Seq(S), Len(s) >= 1
  PROVE  /\ Tail(s) \in Seq(S)
         /\ Len(Tail(s)) = Len(s) - 1
         /\ \A i \in 1 .. (Len(s) - 1) : Tail(s)[i] = s[i + 1]
  OBVIOUS

\* The elements of a sequence belong to its set.
LEMMA ElementFacts ==
  ASSUME NEW S, NEW s \in Seq(S)
  PROVE  /\ Len(s) \in Nat
         /\ \A i \in 1 .. Len(s) : s[i] \in S
  OBVIOUS

-----------------------------------------------------------------------------
(* Type correctness *)

\* The initial state has the types.
LEMMA InitTypeOK == Init => TypeOK
<1> SUFFICES ASSUME Init PROVE TypeOK
  OBVIOUS
<1>1. order \in Seq(Pointers)
  BY DEF Init, Pointers
<1>2. log \in Seq(Messages)
  BY DEF Init
<1>3. count \in [Producers -> 0 .. MaxSends]
  BY QueueAssumption DEF Init
<1>4. body \in [Nodes -> Messages \union {<<>>}] /\ out \in Messages \union {<<>>}
  BY DEF Init
<1> QED
  BY <1>1, <1>2, <1>3, <1>4 DEF Init, TypeOK, Pointers

\* When the head has a successor, that is the second node, and nobody owes the
\* link to it.
LEMMA HeadFacts ==
  ASSUME IInv, next[head] # NULL
  PROVE  /\ Len(order) >= 2
         /\ next[head] = order[2]
         /\ ~Owed(1)
<1>1. Len(order) \in Nat /\ Len(order) >= 1 /\ order[1] = head
      /\ order[Len(order)] = tail /\ next[tail] = NULL
  BY DEF IInv, TypeOK, Chain, Ends
<1>2. Len(order) >= 2
  BY <1>1
<1>3. 1 \in 1 .. (Len(order) - 1)
  BY <1>1, <1>2
<1> QED
  BY <1>1, <1>2, <1>3 DEF IInv, Chain, Links

-----------------------------------------------------------------------------
(* The actions of push *)

\* push on a node no other thread can reach yet.
LEMMA PushBeginKeeps ==
  ASSUME IInv, NEW p \in Producers, PushBegin(p)
  PROVE  IInv'
<1>1. PICK n \in Nodes \ heap :
        /\ heap' = heap \union {n}
        /\ body' = [body EXCEPT ![n] = <<p, count[p] + 1>>]
        /\ next' = [next EXCEPT ![n] = NULL]
        /\ mine' = [mine EXCEPT ![p] = n]
  BY DEF PushBegin
<1>2. UNCHANGED <<head, tail, prev, cpc, h, cprev, order, log, deq, out, overlap>>
      /\ ppc[p] = "idle" /\ count[p] < MaxSends
      /\ ppc' = [ppc EXCEPT ![p] = "swap"] /\ count' = [count EXCEPT ![p] = @ + 1]
  BY DEF PushBegin, consumer, history
<1>3. TypeOK /\ Ends /\ Links /\ Debts /\ Owners /\ PopState /\ Contents
  BY DEF IInv, Chain
<1>4. \A i \in 1 .. Len(order) : order[i] # n
  BY <1>1, <1>3 DEF TypeOK, Owners, InQueue
<1>5. <<p, count[p] + 1>> \in Messages
  BY <1>2, <1>3, QueueAssumption DEF TypeOK, Messages
<1>6. TypeOK'
  <2>1. count' \in [Producers -> 0 .. MaxSends]
    BY <1>2, <1>3, QueueAssumption DEF TypeOK
  <2>2. next' \in [Pointers -> Pointers \union {NULL}] /\ heap' \subseteq Nodes
    BY <1>1, <1>3 DEF TypeOK, Pointers
  <2>3. body' \in [Nodes -> Messages \union {<<>>}]
    BY <1>1, <1>3, <1>5 DEF TypeOK
  <2>4. mine' \in [Producers -> Nodes \union {NULL}]
        /\ ppc' \in [Producers -> {"idle", "swap", "link"}]
    BY <1>1, <1>2, <1>3 DEF TypeOK
  <2> QED
    BY <1>2, <1>3, <2>1, <2>2, <2>3, <2>4 DEF TypeOK
<1>7. Ends'
  BY <1>1, <1>2, <1>3, <1>4 DEF TypeOK, Ends, Pointers
<1>8. Links'
  BY <1>1, <1>2, <1>3, <1>4
  DEF TypeOK, Links, Owed, OwedByProducer, OwedByConsumer, Linking, Restubbing, Pointers
<1>9. Debts'
  BY <1>1, <1>2, <1>3
  DEF TypeOK, Debts, OwedByProducer, OwedByConsumer, Linking, Restubbing
<1>10. Owners'
  BY <1>1, <1>2, <1>3, <1>4, <1>5 DEF TypeOK, Owners, InQueue, Before, Held, Pointers
<1>11. PopState'
  BY <1>1, <1>2, <1>3, QueueAssumption
  DEF TypeOK, PopState, InQueue, Restubbing, Popping, Linking, Pointers
<1>12. Contents'
  <2>1. \A i \in 1 .. Len(order) : Rank(i)' = Rank(i)
    BY <1>2 DEF Rank
  <2>2. \A i \in 1 .. Len(order) : order[i] # Stub => body'[order[i]] = body[order[i]]
    BY <1>1, <1>3, <1>4, ElementFacts DEF TypeOK, Pointers
  <2>3. Len(order) \in 1 .. Len(order)
    BY <1>3, ElementFacts DEF TypeOK, Ends
  <2> QED
    BY <1>2, <1>3, <2>1, <2>2, <2>3 DEF Contents
<1> QED
  BY <1>6, <1>7, <1>8, <1>9, <1>10, <1>11, <1>12 DEF IInv, Chain

\* push displaces the tail.
LEMMA PushSwapKeeps ==
  ASSUME IInv, NEW p \in Producers, PushSwap(p)
  PROVE  IInv'
<1>a. PICK L \in Nat : L = Len(order)
  BY ElementFacts DEF IInv, TypeOK
<1>b. PICK m \in Nodes \union {NULL} : m = mine[p]
  BY DEF IInv, TypeOK
<1> USE <1>a, <1>b
<1>1. /\ ppc[p] = "swap" /\ ppc' = [ppc EXCEPT ![p] = "link"]
      /\ prev' = [prev EXCEPT ![p] = tail] /\ tail' = m
      /\ order' = Append(order, m) /\ log' = Append(log, body[m])
      /\ overlap' = (overlap \/ Popping)
      /\ UNCHANGED <<head, next, heap, body, mine, count, cpc, h, cprev, deq, out>>
  BY DEF PushSwap, consumer
<1>2. TypeOK /\ Ends /\ Links /\ Debts /\ Owners /\ PopState /\ Contents
  BY DEF IInv, Chain
<1>3. /\ m \in heap /\ m \in Nodes /\ ~InQueue(m) /\ ~Held(m)
      /\ next[m] = NULL /\ body[m] \in Messages
      /\ m \in Pointers /\ m # Stub
  BY <1>1, <1>2, QueueAssumption DEF TypeOK, Owners, Before, Pointers
<1>4. /\ L \in Nat /\ L >= 1
      /\ Len(order') = L + 1
      /\ \A i \in 1 .. L : order'[i] = order[i]
      /\ order'[L + 1] = m
      /\ order' \in Seq(Pointers)
  BY <1>1, <1>2, <1>3, AppendFacts, ElementFacts DEF TypeOK, Ends
<1>5. /\ Len(log) \in Nat
      /\ Len(log') = Len(log) + 1
      /\ \A i \in 1 .. Len(log) : log'[i] = log[i]
      /\ log'[Len(log) + 1] = body[m]
      /\ log' \in Seq(Messages)
  BY <1>1, <1>2, <1>3, AppendFacts, ElementFacts DEF TypeOK
<1>6. \A i \in 1 .. L : order[i] # m
  BY <1>3 DEF InQueue
<1>7. TypeOK'
  BY <1>1, <1>2, <1>3, <1>4, <1>5 DEF TypeOK
<1>8. Ends'
  BY <1>1, <1>2, <1>3, <1>4, <1>6 DEF TypeOK, Ends
<1>9. Links'
  <2> SUFFICES ASSUME NEW i \in 1 .. L
               PROVE  \/ next'[order'[i]] = order'[i + 1] /\ ~(Owed(i)')
                      \/ next'[order'[i]] = NULL /\ Owed(i)'
    BY <1>4 DEF Links
  <2>1. CASE i = L
    <3>1. OwedByProducer(p, i)'
      BY <1>1, <1>2, <1>4, <2>1 DEF TypeOK, OwedByProducer, Linking, Ends
    <3>2. next'[order'[i]] = NULL
      BY <1>1, <1>2, <1>4, <2>1 DEF Ends
    <3> QED
      BY <3>1, <3>2 DEF Owed
  <2>2. CASE i # L
    <3>1. i \in 1 .. (L - 1) /\ order'[i] = order[i] /\ order'[i + 1] = order[i + 1]
          /\ order[i + 1] # m
      BY <1>4, <1>6, <2>2
    <3>2. Owed(i)' <=> Owed(i)
      BY <1>1, <1>2, <3>1
      DEF TypeOK, Owed, OwedByProducer, OwedByConsumer, Linking, Restubbing
    <3> QED
      BY <1>1, <1>2, <3>1, <3>2 DEF Links
  <2> QED
    BY <2>1, <2>2
<1>10. Debts'
  <2>1. \A q \in Producers : Linking(q)' =>
          \E i \in 1 .. L : OwedByProducer(q, i)'
    <3> SUFFICES ASSUME NEW q \in Producers, Linking(q)'
                 PROVE  \E i \in 1 .. L : OwedByProducer(q, i)'
      OBVIOUS
    <3>1. CASE q = p
      <4>1. OwedByProducer(q, L)'
        BY <1>1, <1>2, <1>4, <3>1 DEF TypeOK, OwedByProducer, Linking, Ends
      <4> QED
        BY <1>4, <4>1
    <3>2. CASE q # p
      <4>1. PICK i \in 1 .. (L - 1) : OwedByProducer(q, i)
        BY <1>1, <1>2, <3>2 DEF TypeOK, Debts, Linking
      <4>2. OwedByProducer(q, i)' /\ i \in 1 .. L
        BY <1>1, <1>2, <1>4, <3>2, <4>1 DEF TypeOK, OwedByProducer, Linking
      <4> QED
        BY <4>2
    <3> QED
      BY <3>1, <3>2
  <2>2. \A q \in Producers : Linking(q) => mine[q] # m
    BY <1>2, <1>4, <1>6 DEF Debts, OwedByProducer
  <2>3. \A q, r \in Producers : Linking(q)' /\ Linking(r)' /\ mine'[q] = mine'[r] => q = r
    BY <1>1, <1>2, <2>2 DEF TypeOK, Debts, Linking
  <2>4. Restubbing' => \E i \in 1 .. L : OwedByConsumer(i)'
    BY <1>1, <1>2, <1>4 DEF Debts, OwedByConsumer, Restubbing
  <2> QED
    BY <1>4, <2>1, <2>3, <2>4 DEF Debts
<1>11. Owners'
  <2>1. \A n : InQueue(n)' <=> InQueue(n) \/ n = m
    BY <1>4 DEF InQueue
  <2> QED
    BY <1>1, <1>2, <1>3, <2>1 DEF TypeOK, Owners, Before, Held
<1>12. PopState'
  <2>1. InQueue(Stub)' <=> InQueue(Stub)
    BY <1>3, <1>4 DEF InQueue
  <2> QED
    BY <1>1, <1>2, <2>1 DEF TypeOK, PopState, Popping, Linking
<1>13. Contents'
  <2>1. \A i \in 1 .. L : Rank(i)' = Rank(i)
    BY <1>1, <1>4 DEF Rank
  <2>2. Rank(L + 1)' = Rank(L) + 1
    <3>1. (\E j \in 1 .. (L + 1) : order'[j] = Stub) <=> (\E j \in 1 .. L : order[j] = Stub)
      BY <1>3, <1>4
    <3>2. deq \in Nat /\ deq' = deq
      BY <1>1, <1>2 DEF TypeOK
    <3>3. CASE \E j \in 1 .. L : order[j] = Stub
      BY <3>1, <3>2, <3>3 DEF Rank
    <3>4. CASE ~(\E j \in 1 .. L : order[j] = Stub)
      BY <3>1, <3>2, <3>4 DEF Rank
    <3> QED
      BY <3>3, <3>4
  <2>3. Rank(L) = Len(log)
    BY <1>2 DEF Contents
  <2>4. \A i \in 1 .. L : order[i] # Stub =>
          Rank(i) \in 1 .. Len(log) /\ body[order[i]] = log[Rank(i)]
    BY <1>2 DEF Contents
  <2>5. ASSUME NEW i \in 1 .. (L + 1), order'[i] # Stub
        PROVE  Rank(i)' \in 1 .. Len(log') /\ body'[order'[i]] = log'[Rank(i)']
    <3>1. CASE i = L + 1
      BY <1>1, <1>4, <1>5, <2>2, <2>3, <3>1
    <3>2. CASE i \in 1 .. L
      <4>1. Rank(i)' = Rank(i) /\ order'[i] = order[i]
        BY <1>4, <2>1, <3>2
      <4> QED
        BY <1>1, <1>5, <2>4, <2>5, <3>2, <4>1
    <3> QED
      BY <3>1, <3>2
  <2> QED
    BY <1>4, <1>5, <2>2, <2>3, <2>5 DEF Contents
<1> QED
  BY <1>7, <1>8, <1>9, <1>10, <1>11, <1>12, <1>13 DEF IInv, Chain

\* push pays its debt.
LEMMA PushLinkKeeps ==
  ASSUME IInv, NEW p \in Producers, PushLink(p)
  PROVE  IInv'
<1>a. PICK L \in Nat : L = Len(order)
  BY ElementFacts DEF IInv, TypeOK
<1>b. PICK m \in Nodes \union {NULL} : m = mine[p]
  BY DEF IInv, TypeOK
<1> USE <1>a, <1>b
<1>1. /\ ppc[p] = "link" /\ ppc' = [ppc EXCEPT ![p] = "idle"]
      /\ next' = [next EXCEPT ![prev[p]] = m]
      /\ mine' = [mine EXCEPT ![p] = NULL] /\ prev' = [prev EXCEPT ![p] = NULL]
      /\ UNCHANGED <<head, tail, heap, body, count, cpc, h, cprev>>
      /\ UNCHANGED <<order, log, deq, out, overlap>>
  BY DEF PushLink, consumer, history
<1>2. TypeOK /\ Ends /\ Links /\ Debts /\ Owners /\ PopState /\ Contents
  BY DEF IInv, Chain
<1>3. PICK k \in 1 .. (L - 1) : OwedByProducer(p, k)
  BY <1>1, <1>2 DEF Debts, Linking
<1>4. /\ order[k] = prev[p] /\ order[k + 1] = m
      /\ L >= 1 /\ order[L] = tail
      /\ \A i, j \in 1 .. L : order[i] = order[j] => i = j
      /\ \A i \in 1 .. L : order[i] \in Pointers
  BY <1>2, <1>3, ElementFacts DEF OwedByProducer, Ends, TypeOK
<1>5. m \in Nodes /\ m # Stub
  BY <1>4, <1>3, QueueAssumption DEF Pointers
<1>6. /\ next'[order[k]] = m
      /\ \A n \in Pointers : n # order[k] => next'[n] = next[n]
  BY <1>1, <1>2, <1>3, <1>4 DEF TypeOK
<1>7. TypeOK'
  <2>1. next' \in [Pointers -> Pointers \union {NULL}]
    BY ONLY <1>1, <1>2, <1>5 DEF TypeOK, Pointers
  <2>2. /\ mine' \in [Producers -> Nodes \union {NULL}]
        /\ prev' \in [Producers -> Pointers \union {NULL}]
        /\ ppc' \in [Producers -> {"idle", "swap", "link"}]
    BY ONLY <1>1, <1>2 DEF TypeOK
  <2> QED
    BY ONLY <1>1, <1>2, <2>1, <2>2 DEF TypeOK
<1>8. Ends'
  BY <1>1, <1>2, <1>3, <1>4, <1>6 DEF TypeOK, Ends
<1>9. \A q \in Producers : Linking(q)' <=> Linking(q) /\ q # p
  BY <1>1, <1>2 DEF TypeOK, Linking
<1>10. \A q \in Producers : \A i : q # p =>
         (OwedByProducer(q, i)' <=> OwedByProducer(q, i))
  BY <1>1, <1>2, <1>9 DEF TypeOK, OwedByProducer
<1>11. \A i : OwedByConsumer(i)' <=> OwedByConsumer(i)
  BY <1>1 DEF OwedByConsumer, Restubbing
<1>12. Links'
  <2> SUFFICES ASSUME NEW i \in 1 .. (L - 1)
               PROVE  \/ next'[order[i]] = order[i + 1] /\ ~(Owed(i)')
                      \/ next'[order[i]] = NULL /\ Owed(i)'
    BY <1>1 DEF Links
  <2>1. CASE i = k
    <3>1. \A q \in Producers : ~(OwedByProducer(q, i)')
      <4> SUFFICES ASSUME NEW q \in Producers, OwedByProducer(q, i)'
                   PROVE  FALSE
        OBVIOUS
      <4>1. Linking(q) /\ q # p
        BY <1>9 DEF OwedByProducer
      <4>2. mine[q] = m
        <5>1. OwedByProducer(q, i)
          BY ONLY <1>10, <4>1, OwedByProducer(q, i)', q \in Producers
        <5> QED
          BY ONLY <1>4, <2>1, <5>1 DEF OwedByProducer
      <4>3. Linking(p)
        BY <1>1 DEF Linking
      <4> QED
        BY <1>2, <4>1, <4>2, <4>3 DEF Debts
    <3>2. ~(OwedByConsumer(i)')
      BY <1>11, <1>4, <1>5, <2>1 DEF OwedByConsumer
    <3> QED
      BY <3>1, <3>2, <1>4, <1>6, <2>1 DEF Owed
  <2>2. CASE i # k
    <3>1. ~OwedByProducer(p, i)
      BY <1>3, <1>4, <2>2 DEF OwedByProducer
    <3>2. ~(OwedByProducer(p, i)')
      BY <1>9 DEF OwedByProducer
    <3>3. Owed(i)' <=> Owed(i)
      BY <1>10, <1>11, <3>1, <3>2 DEF Owed
    <3>4. next'[order[i]] = next[order[i]]
      BY <1>4, <1>6, <2>2
    <3> QED
      BY <1>2, <3>3, <3>4 DEF Links
  <2> QED
    BY <2>1, <2>2
<1>13. Debts'
  <2>1. \A q \in Producers : Linking(q)' =>
          \E i \in 1 .. (L - 1) : OwedByProducer(q, i)'
    BY <1>2, <1>9, <1>10 DEF Debts
  <2>2. \A q, r \in Producers : Linking(q)' /\ Linking(r)' /\ mine'[q] = mine'[r] => q = r
    BY <1>1, <1>2, <1>9 DEF TypeOK, Debts
  <2>3. Restubbing' => \E i \in 1 .. (L - 1) : OwedByConsumer(i)'
    BY <1>1, <1>2, <1>11 DEF Debts, Restubbing
  <2> QED
    BY <1>1, <2>1, <2>2, <2>3 DEF Debts
<1>14. Owners'
  <2>1. \A n : InQueue(n)' <=> InQueue(n)
    BY <1>1 DEF InQueue
  <2>2. \A q \in Producers : Before(q)' <=> Before(q)
    BY <1>1, <1>2 DEF TypeOK, Before
  <2>3. \A q \in Producers : Before(q) =>
          mine'[q] = mine[q] /\ next'[mine[q]] = next[mine[q]] /\ mine[q] # order[k]
    <3> SUFFICES ASSUME NEW q \in Producers, Before(q)
                 PROVE  mine'[q] = mine[q] /\ next'[mine[q]] = next[mine[q]]
                        /\ mine[q] # order[k]
      OBVIOUS
    <3>1. mine'[q] = mine[q]
      BY <1>1, <1>2 DEF TypeOK, Before
    <3>2. mine[q] # order[k] /\ mine[q] \in Pointers
      BY <1>2, <1>3 DEF Owners, InQueue, TypeOK, Pointers
    <3> QED
      BY <1>6, <3>1, <3>2
  <2>4. \A n : Held(n)' <=> Held(n)
    BY <1>1 DEF Held
  <2>5. UNCHANGED <<heap, body, cpc, h>>
    BY <1>1
  <2> QED
    BY <1>2, <2>1, <2>2, <2>3, <2>4, <2>5 DEF Owners
<1>15. PopState'
  <2>1. \A n : InQueue(n)' <=> InQueue(n)
    BY <1>1 DEF InQueue
  <2>2. cpc = "restub" => next'[Stub] = next[Stub]
    BY <1>2, <1>3, <1>6 DEF PopState, InQueue, Pointers
  <2>3. Popping /\ ~overlap => FALSE
    BY <1>1, <1>2 DEF PopState, Linking
  <2> QED
    BY <1>1, <1>2, <2>1, <2>2, <2>3 DEF PopState, Popping
<1>16. Contents'
  <2>1. \A i : Rank(i)' = Rank(i)
    BY <1>1 DEF Rank
  <2> QED
    BY <1>1, <1>2, <2>1 DEF Contents
<1> QED
  BY <1>7, <1>8, <1>12, <1>13, <1>14, <1>15, <1>16 DEF IInv, Chain

-----------------------------------------------------------------------------
(* The actions of pop *)

\* Moving head to its successor takes the first node out of the queue, and
\* leaves the rest of it as it was.
LEMMA AdvanceKeeps ==
  ASSUME IInv, next[head] # NULL, cpc # "relink", cpc' # "relink",
         head' = next[head], order' = Tail(order),
         UNCHANGED <<tail, next, ppc, mine, prev, cprev>>
  PROVE  /\ order' \in Seq(Pointers) /\ Len(order') = Len(order) - 1
         /\ Len(order) \in Nat /\ Len(order) >= 2
         /\ \A i \in 1 .. Len(order') : order'[i] = order[i + 1]
         /\ \A n : InQueue(n)' <=> InQueue(n) /\ n # head
         /\ Ends' /\ Links' /\ Debts'
<1>a. PICK L \in Nat : L = Len(order)
  BY ElementFacts DEF IInv, TypeOK
<1> USE <1>a
<1>1. TypeOK /\ Ends /\ Links /\ Debts
  BY DEF IInv, Chain
<1>2. L >= 2 /\ next[head] = order[2] /\ ~Owed(1)
  BY HeadFacts
<1>3. /\ order' \in Seq(Pointers) /\ Len(order') = L - 1
      /\ \A i \in 1 .. (L - 1) : order'[i] = order[i + 1]
  BY <1>1, <1>2, TailFacts DEF TypeOK
<1>4. \A i, j \in 1 .. L : order[i] = order[j] => i = j
  BY <1>1 DEF Ends
<1>5. order[1] = head /\ order[L] = tail /\ next[tail] = NULL
  BY <1>1 DEF Ends
<1>6. ASSUME NEW n PROVE InQueue(n)' <=> InQueue(n) /\ n # head
  <2>1. CASE n = head
    BY <1>2, <1>3, <1>4, <1>5, <2>1 DEF InQueue
  <2>2. ASSUME n # head, InQueue(n) PROVE InQueue(n)'
    <3>1. PICK i \in 1 .. L : order[i] = n
      BY <2>2 DEF InQueue
    <3>2. i # 1
      BY <1>5, <2>2, <3>1
    <3>3. i - 1 \in 1 .. (L - 1) /\ order'[i - 1] = n
      BY <1>3, <3>1, <3>2
    <3> QED
      BY <1>3, <3>3 DEF InQueue
  <2>3. InQueue(n)' => InQueue(n)
    BY <1>2, <1>3 DEF InQueue
  <2> QED
    BY <2>1, <2>2, <2>3
<1>7. Ends'
  BY <1>2, <1>3, <1>4, <1>5 DEF Ends
<1>8. \A p \in Producers : \A i \in 1 .. (L - 2) :
        OwedByProducer(p, i)' <=> OwedByProducer(p, i + 1)
  BY <1>2, <1>3 DEF OwedByProducer, Linking
<1>9. \A i : ~OwedByConsumer(i) /\ ~(OwedByConsumer(i)')
  BY DEF OwedByConsumer, Restubbing
<1>10. Links'
  <2> SUFFICES ASSUME NEW i \in 1 .. (L - 2)
               PROVE  \/ next'[order'[i]] = order'[i + 1] /\ ~(Owed(i)')
                      \/ next'[order'[i]] = NULL /\ Owed(i)'
    BY <1>3 DEF Links
  <2>1. order'[i] = order[i + 1] /\ order'[i + 1] = order[(i + 1) + 1]
        /\ i + 1 \in 1 .. (L - 1)
    BY <1>2, <1>3
  <2>2. Owed(i)' <=> Owed(i + 1)
    BY <1>8, <1>9 DEF Owed
  <2> QED
    BY <1>1, <2>1, <2>2 DEF Links
<1>11. Debts'
  <2>1. ASSUME NEW p \in Producers, Linking(p)
        PROVE  \E i \in 1 .. (L - 2) : OwedByProducer(p, i)'
    <3>1. PICK i \in 1 .. (L - 1) : OwedByProducer(p, i)
      BY <1>1, <2>1 DEF Debts
    <3>2. i # 1
      BY <1>2, <3>1 DEF Owed
    <3>3. i - 1 \in 1 .. (L - 2) /\ (i - 1) + 1 = i
      BY <1>2, <3>1, <3>2
    <3>4. OwedByProducer(p, i - 1)'
      BY <1>8, <3>1, <3>3
    <3> QED
      BY <3>3, <3>4
  <2> QED
    BY <1>1, <1>3, <2>1 DEF Debts, Linking, Restubbing
<1> QED
  BY <1>2, <1>3, <1>6, <1>7, <1>10, <1>11

\* pop returns the node at the head: the invariant is kept, and the node is the
\* one of the oldest message not received yet.
LEMMA ReturnKeeps ==
  ASSUME IInv, head # Stub, next[head] # NULL,
         cpc \in {"idle", "second", "last"},
         Return(head, next[head]),
         UNCHANGED <<tail, next, heap, body, producer, cprev>>
  PROVE  IInv' /\ deq < Len(log) /\ out' = log[deq + 1]
<1>a. PICK L \in Nat : L = Len(order)
  BY ElementFacts DEF IInv, TypeOK
<1> USE <1>a
<1>1. /\ head' = next[head] /\ cpc' = "got" /\ h' = head
      /\ order' = Tail(order) /\ deq' = deq + 1 /\ out' = body[head]
      /\ overlap' = FALSE /\ log' = log
      /\ UNCHANGED <<tail, next, heap, body, ppc, mine, prev, count, cprev>>
  BY DEF Return, producer
<1>2. TypeOK /\ Ends /\ Links /\ Debts /\ Owners /\ PopState /\ Contents
  BY DEF IInv, Chain
<1>3. /\ order' \in Seq(Pointers) /\ Len(order') = L - 1 /\ L >= 2
      /\ \A i \in 1 .. (L - 1) : order'[i] = order[i + 1]
      /\ \A n : InQueue(n)' <=> InQueue(n) /\ n # head
      /\ Ends' /\ Links' /\ Debts'
  BY <1>1, AdvanceKeeps
<1>4. order[1] = head /\ 1 \in 1 .. L
  BY <1>2, <1>3 DEF Ends
<1>5. head \in Nodes /\ InQueue(head) /\ head \in heap /\ head \in Pointers
  BY <1>2, <1>4 DEF TypeOK, Pointers, InQueue, Owners
<1>6. deq \in Nat /\ Len(log) \in Nat
  BY <1>2, ElementFacts DEF TypeOK
<1>7. Rank(1) = deq + 1
  <2>1. ~(\E j \in 1 .. 1 : order[j] = Stub)
    BY <1>4
  <2> QED
    BY <1>6, <2>1 DEF Rank
<1>8. deq + 1 \in 1 .. Len(log) /\ body[head] = log[deq + 1]
  BY <1>2, <1>4, <1>7 DEF Contents
<1>9. TypeOK'
  <2>1. head' \in Pointers /\ h' \in Pointers
    BY <1>1, <1>5, <1>3, <1>2, HeadFacts, ElementFacts DEF TypeOK
  <2> QED
    <3>1. out' \in Messages \union {<<>>}
      BY <1>1, <1>2, <1>5 DEF TypeOK
    <3>2. cpc' \in {"idle", "second", "tail", "restub", "relink", "last", "got", "null"}
          /\ deq' \in Nat
      BY <1>1, <1>6
    <3>4. overlap' \in BOOLEAN
      BY <1>1, Zenon
    <3>3. UNCHANGED <<tail, next, heap, body, ppc, mine, prev, count, cprev, log>>
      BY <1>1
    <3> QED
      BY <1>2, <1>3, <2>1, <3>1, <3>2, <3>3, <3>4 DEF TypeOK
<1>10. Owners'
  <2>1. \A n : Held(n)' <=> n = head
    BY <1>1 DEF Held
  <2>2. \A n : ~Held(n)
    BY DEF Held
  <2> QED
    BY <1>1, <1>2, <1>3, <1>5, <2>1, <2>2 DEF Owners, Before
<1>11. PopState'
  BY <1>1 DEF PopState, Restubbing, Popping
<1>12. Contents'
  <2>1. ASSUME NEW i \in 1 .. (L - 1) PROVE Rank(i)' = Rank(i + 1) /\ Rank(i)' \in Int
    <3>1. (\E j \in 1 .. i : order'[j] = Stub) <=> (\E j \in 1 .. (i + 1) : order[j] = Stub)
      <4>1. ASSUME NEW j \in 1 .. (i + 1), order[j] = Stub
            PROVE  \E k \in 1 .. i : order'[k] = Stub
        <5>1. j # 1
          BY <1>4, <4>1
        <5>2. j - 1 \in 1 .. i /\ order'[j - 1] = Stub
          BY <1>3, <4>1, <5>1
        <5> QED
          BY <5>2
      <4>2. \A j \in 1 .. i : order'[j] = order[j + 1] /\ j + 1 \in 1 .. (i + 1)
        BY <1>3
      <4> QED
        BY <4>1, <4>2
    <3>2. CASE \E j \in 1 .. i : order'[j] = Stub
      BY <1>1, <1>6, <3>1, <3>2 DEF Rank
    <3>3. CASE ~(\E j \in 1 .. i : order'[j] = Stub)
      BY <1>1, <1>6, <3>1, <3>3 DEF Rank
    <3> QED
      BY <3>2, <3>3
  <2>2. \A i \in 1 .. (L - 1) : i + 1 \in 1 .. L /\ order'[i] = order[i + 1]
    BY <1>3
  <2>3. Rank(L - 1)' = Len(log)
    <3>1. L - 1 \in 1 .. (L - 1) /\ (L - 1) + 1 = L
      BY <1>3
    <3> QED
      BY <1>2, <2>1, <3>1 DEF Contents
  <2>4. \A i \in 1 .. (L - 1) : order'[i] # Stub =>
          Rank(i)' \in 1 .. Len(log) /\ body[order'[i]] = log[Rank(i)']
    BY <1>2, <2>1, <2>2 DEF Contents
  <2> QED
    BY <1>1, <1>3, <2>3, <2>4 DEF Contents
<1> QED
  BY <1>1, <1>3, <1>6, <1>8, <1>9, <1>10, <1>11, <1>12 DEF IInv, Chain

\* pop does something that neither delivers a message nor touches the queue's
\* nodes and links: only its own position changes.
LEMMA LocalKeeps ==
  ASSUME IInv, UNCHANGED <<head, tail, next, body, ppc, mine, prev, count>>,
         UNCHANGED <<cprev, order, log, deq, out>>, heap' = heap, overlap' \in BOOLEAN,
         cpc \notin {"relink"}, h' \in Pointers \union {NULL},
         cpc' \in {"idle", "tail", "null"},
         cpc' = "tail" => /\ h' = head /\ head # Stub
                          /\ ~overlap' => /\ \A p \in Producers : ~Linking(p)
                                          /\ next[h'] = NULL
  PROVE  IInv'
<1>1. TypeOK /\ Ends /\ Links /\ Debts /\ Owners /\ PopState /\ Contents
  BY DEF IInv, Chain
<1>2. TypeOK'
  BY <1>1 DEF TypeOK
<1>3. Ends'
  BY <1>1 DEF Ends
<1>4. \A i : Owed(i)' <=> Owed(i)
  BY DEF Owed, OwedByProducer, OwedByConsumer, Linking, Restubbing
<1>5. Links'
  BY <1>1, <1>4 DEF Links
<1>6. Debts'
  BY <1>1 DEF Debts, OwedByProducer, Linking, Restubbing
<1>7. Owners'
  BY <1>1 DEF Owners, InQueue, Before, Held
<1>8. PopState'
  <2>1. \A p \in Producers : Linking(p)' <=> Linking(p)
    BY DEF Linking
  <2> QED
    BY <2>1 DEF PopState, InQueue, Restubbing, Popping
<1>9. \A i : Rank(i)' = Rank(i)
  BY DEF Rank
<1>10. Contents'
  BY <1>1, <1>9 DEF Contents
<1> QED
  BY <1>2, <1>3, <1>5, <1>6, <1>7, <1>8, <1>10 DEF IInv, Chain

\* pop steps over the stub at the head.
LEMMA StepOverKeeps ==
  ASSUME IInv, head = Stub, next[Stub] # NULL, cpc = "idle",
         head' = next[Stub], h' = next[Stub], cpc' = "second", order' = Tail(order),
         overlap' = (\E p \in Producers : Linking(p)),
         UNCHANGED <<log, deq, out>>,
         UNCHANGED <<tail, next, heap, body, producer, cprev>>
  PROVE  IInv'
<1>a. PICK L \in Nat : L = Len(order)
  BY ElementFacts DEF IInv, TypeOK
<1> USE <1>a
<1>1. UNCHANGED <<ppc, mine, prev, count>>
  BY DEF producer
<1>2. TypeOK /\ Ends /\ Links /\ Debts /\ Owners /\ PopState /\ Contents
  BY DEF IInv, Chain
<1>3. /\ order' \in Seq(Pointers) /\ Len(order') = L - 1 /\ L >= 2
      /\ \A i \in 1 .. (L - 1) : order'[i] = order[i + 1]
      /\ \A n : InQueue(n)' <=> InQueue(n) /\ n # Stub
      /\ Ends' /\ Links' /\ Debts'
  BY <1>1, AdvanceKeeps
<1>4. order[1] = Stub /\ 1 \in 1 .. L
  BY <1>2, <1>3 DEF Ends
<1>5. next[Stub] \in Pointers
  BY <1>2 DEF TypeOK
<1>6. deq \in Nat
  BY <1>2 DEF TypeOK
<1>7. TypeOK'
  <2>1. overlap' \in BOOLEAN
    BY Zenon
  <2> QED
    BY <1>1, <1>2, <1>3, <1>5, <2>1 DEF TypeOK
<1>8. Owners'
  BY <1>1, <1>2, <1>3, QueueAssumption DEF Owners, Held, Before
<1>9. PopState'
  <2>1. head' # Stub /\ ~(InQueue(Stub)')
    <3>1. head' = order'[1] /\ 1 \in 1 .. (L - 1)
      BY <1>3 DEF Ends
    <3> QED
      BY <1>3, <3>1 DEF InQueue
  <2>2. \A p \in Producers : Linking(p)' <=> Linking(p)
    BY <1>1 DEF Linking
  <2> QED
    BY <2>1, <2>2 DEF PopState, Restubbing, Popping
<1>10. Contents'
  <2>1. ASSUME NEW i \in 1 .. (L - 1) PROVE Rank(i)' = Rank(i + 1)
    <3>1. ~(\E j \in 1 .. i : order'[j] = Stub)
      <4>1. ~(\E j \in 1 .. (L - 1) : order'[j] = Stub)
        BY <1>3 DEF InQueue
      <4>2. \A j \in 1 .. i : j \in 1 .. (L - 1)
        BY <1>3
      <4> QED
        BY <4>1, <4>2
    <3>2. \E j \in 1 .. (i + 1) : order[j] = Stub
      BY <1>4
    <3> QED
      BY <1>6, <3>1, <3>2 DEF Rank
  <2>2. \A i \in 1 .. (L - 1) : i + 1 \in 1 .. L /\ order'[i] = order[i + 1]
    BY <1>3
  <2>3. L - 1 \in 1 .. (L - 1) /\ (L - 1) + 1 = L
    BY <1>3
  <2>4. UNCHANGED <<log, body>>
    OBVIOUS
  <2> QED
    BY <1>2, <1>3, <2>1, <2>2, <2>3, <2>4 DEF Contents
<1> QED
  BY <1>3, <1>7, <1>8, <1>9, <1>10 DEF IInv, Chain

\* The first decision of pop.
LEMMA PopStartKeeps ==
  ASSUME IInv, PopStart
  PROVE  IInv' /\ (Fifo!Dequeue \/ UNCHANGED <<log, deq, out>>)
<1>1. cpc = "idle" /\ UNCHANGED <<tail, next, heap, body, producer, cprev>>
      /\ UNCHANGED <<ppc, mine, prev, count>>
  BY DEF PopStart, producer
<1>2. head \in Pointers /\ NULL \in {NULL}
  BY DEF IInv, TypeOK
<1>3. CASE head = Stub /\ next[Stub] = NULL
  <2>1. overlap' = (\E p \in Producers : Linking(p)) /\ ReturnNull
    BY <1>3, QueueAssumption DEF PopStart
  <2>2. overlap' \in BOOLEAN
    BY <2>1, Zenon
  <2> QED
    BY <1>1, <2>1, <2>2, LocalKeeps DEF ReturnNull
<1>4. CASE head = Stub /\ next[Stub] # NULL
  <2>1. /\ overlap' = (\E p \in Producers : Linking(p))
        /\ head' = next[Stub] /\ h' = next[Stub] /\ cpc' = "second"
        /\ order' = Tail(order) /\ UNCHANGED <<log, deq, out>>
    BY <1>4 DEF PopStart
  <2> QED
    BY <1>1, <1>4, <2>1, StepOverKeeps
<1>5. CASE head # Stub /\ next[head] # NULL
  <2>1. Return(head, next[head])
    BY <1>5 DEF PopStart
  <2>2. IInv' /\ deq < Len(log) /\ out' = log[deq + 1]
    BY <1>1, <1>5, <2>1, ReturnKeeps
  <2> QED
    BY <2>1, <2>2 DEF Fifo!Dequeue, Return
<1>6. CASE head # Stub /\ next[head] = NULL
  <2>1. /\ cpc' = "tail" /\ h' = head /\ overlap' = (\E p \in Producers : Linking(p))
        /\ UNCHANGED <<head, order, log, deq, out>>
    BY <1>6 DEF PopStart
  <2>2. overlap' \in BOOLEAN
    BY <2>1, Zenon
  <2>3. ~overlap' => \A p \in Producers : ~Linking(p)
    BY <2>1, Zenon
  <2> QED
    BY <1>1, <1>2, <1>6, <2>1, <2>2, <2>3, LocalKeeps
<1> QED
  BY <1>3, <1>4, <1>5, <1>6

\* The second decision of pop.
LEMMA PopSecondKeeps ==
  ASSUME IInv, PopSecond
  PROVE  IInv' /\ (Fifo!Dequeue \/ UNCHANGED <<log, deq, out>>)
<1>1. cpc = "second" /\ UNCHANGED <<tail, next, heap, body, producer, cprev>>
      /\ UNCHANGED <<ppc, mine, prev, count>>
  BY DEF PopSecond, producer
<1>2. h = head /\ head # Stub /\ head \in Pointers /\ overlap \in BOOLEAN
  BY <1>1 DEF IInv, Chain, PopState, TypeOK
<1>3. CASE next[h] # NULL
  <2>1. Return(head, next[head])
    BY <1>2, <1>3 DEF PopSecond
  <2>2. IInv' /\ deq < Len(log) /\ out' = log[deq + 1]
    BY <1>1, <1>2, <1>3, <2>1, ReturnKeeps
  <2> QED
    BY <2>1, <2>2 DEF Fifo!Dequeue, Return
<1>4. CASE next[h] = NULL
  <2>1. cpc' = "tail" /\ UNCHANGED <<head, h, order, log, deq, out, overlap>>
    BY <1>4 DEF PopSecond, history
  <2>2. ~overlap => \A p \in Producers : ~Linking(p)
    BY <1>1 DEF IInv, Chain, PopState, Popping
  <2> QED
    BY <1>1, <1>2, <1>4, <2>1, <2>2, LocalKeeps
<1> QED
  BY <1>3, <1>4

\* pop gives up, or gets the stub ready to go back into the queue.
LEMMA PopTailKeeps ==
  ASSUME IInv, PopTail
  PROVE  IInv' /\ UNCHANGED <<log, deq, out>>
<1>a. PICK L \in Nat : L = Len(order)
  BY ElementFacts DEF IInv, TypeOK
<1> USE <1>a
<1>1. cpc = "tail" /\ UNCHANGED <<tail, heap, body, cprev>>
      /\ UNCHANGED <<ppc, mine, prev, count>>
  BY DEF PopTail, producer
<1>2. TypeOK /\ Ends /\ Links /\ Debts /\ Owners /\ PopState /\ Contents
  BY DEF IInv, Chain
<1>3. h = head /\ head # Stub /\ overlap \in BOOLEAN
  BY <1>1, <1>2 DEF PopState, TypeOK
<1>4. CASE tail # h
  BY <1>1, <1>3, <1>4, LocalKeeps DEF PopTail, ReturnNull
<1>5. CASE tail = h
  <2>1. /\ next' = [next EXCEPT ![Stub] = NULL] /\ cpc' = "restub"
        /\ UNCHANGED <<head, h, order, log, deq, out, overlap>>
    BY <1>5 DEF PopTail, history
  <2>2. L = 1 /\ order[1] = head
    BY <1>2, <1>3, <1>5 DEF Ends
  <2>3. ~InQueue(Stub)
    BY <1>3, <2>2 DEF InQueue
  <2>4. next'[Stub] = NULL /\ \A n \in Pointers : n # Stub => next'[n] = next[n]
    BY <1>2, <2>1 DEF TypeOK, Pointers
  <2>5. TypeOK'
    BY <1>1, <1>2, <2>1 DEF TypeOK
  <2>6. Ends'
    BY <1>1, <1>2, <1>3, <1>5, <2>1, <2>4 DEF Ends, TypeOK
  <2>7. Links' /\ Debts'
    BY <1>1, <1>2, <2>1, <2>2 DEF Links, Debts, Linking, Restubbing
  <2>8. Owners'
    BY <1>1, <1>2, <2>1, <2>4, QueueAssumption
    DEF Owners, InQueue, Before, Held, TypeOK, Pointers
  <2>9. PopState'
    BY <1>1, <1>2, <1>3, <2>1, <2>3, <2>4
    DEF PopState, InQueue, Restubbing, Popping, Linking
  <2>10. \A i : Rank(i)' = Rank(i)
    BY <2>1 DEF Rank
  <2>11. Contents'
    BY <1>1, <1>2, <2>1, <2>10 DEF Contents
  <2> QED
    BY <2>1, <2>5, <2>6, <2>7, <2>8, <2>9, <2>11 DEF IInv, Chain
<1> QED
  BY <1>4, <1>5

\* The stub displaces the tail.
LEMMA PopRestubKeeps ==
  ASSUME IInv, PopRestub
  PROVE  IInv' /\ UNCHANGED <<log, deq, out>>
<1>a. PICK L \in Nat : L = Len(order)
  BY ElementFacts DEF IInv, TypeOK
<1> USE <1>a
<1>1. /\ cpc = "restub" /\ cpc' = "relink" /\ cprev' = tail /\ tail' = Stub
      /\ order' = Append(order, Stub)
      /\ UNCHANGED <<head, next, heap, body, ppc, mine, prev, count, h>>
      /\ UNCHANGED <<log, deq, out, overlap>>
  BY DEF PopRestub, producer
<1>2. TypeOK /\ Ends /\ Links /\ Debts /\ Owners /\ PopState /\ Contents
  BY DEF IInv, Chain
<1>3. /\ L >= 1 /\ Len(order') = L + 1 /\ order'[L + 1] = Stub
      /\ \A i \in 1 .. L : order'[i] = order[i]
      /\ order' \in Seq(Pointers)
  BY <1>1, <1>2, AppendFacts DEF TypeOK, Pointers, Ends
<1>4. \A i \in 1 .. L : order[i] # Stub
  BY <1>1, <1>2 DEF PopState, InQueue
<1>5. next[Stub] = NULL /\ h = head /\ h # Stub
  BY <1>1, <1>2 DEF PopState
<1>6. TypeOK'
  BY <1>1, <1>2, <1>3 DEF TypeOK, Pointers
<1>7. Ends'
  BY <1>1, <1>2, <1>3, <1>4, <1>5 DEF Ends
<1>8. OwedByConsumer(L)'
  BY <1>1, <1>2, <1>3 DEF OwedByConsumer, Restubbing, Ends
<1>9. \A i \in 1 .. (L - 1) : i \in 1 .. L /\ i + 1 \in 1 .. L
  OBVIOUS
<1>10. \A i \in 1 .. (L - 1) : ~(OwedByConsumer(i)') /\ ~OwedByConsumer(i)
  BY <1>3, <1>4, <1>9 DEF OwedByConsumer
<1>11. \A p \in Producers : \A i \in 1 .. (L - 1) :
         OwedByProducer(p, i)' <=> OwedByProducer(p, i)
  BY <1>1, <1>3, <1>9 DEF OwedByProducer, Linking
<1>12. Links'
  <2> SUFFICES ASSUME NEW i \in 1 .. L
               PROVE  \/ next'[order'[i]] = order'[i + 1] /\ ~(Owed(i)')
                      \/ next'[order'[i]] = NULL /\ Owed(i)'
    BY <1>3 DEF Links
  <2>1. CASE i = L
    BY <1>1, <1>2, <1>3, <1>8, <2>1 DEF Owed, Ends
  <2>2. CASE i # L
    <3>1. i \in 1 .. (L - 1)
      BY <2>2
    <3>2. Owed(i)' <=> Owed(i)
      BY <1>10, <1>11, <3>1 DEF Owed
    <3> QED
      BY <1>1, <1>2, <1>3, <1>9, <3>1, <3>2 DEF Links
  <2> QED
    BY <2>1, <2>2
<1>13. Debts'
  <2>1. \A p \in Producers : Linking(p)' =>
          \E i \in 1 .. L : OwedByProducer(p, i)'
    BY <1>1, <1>2, <1>9, <1>11 DEF Debts, Linking
  <2>2. L \in 1 .. L
    BY <1>3
  <2> QED
    BY <1>1, <1>2, <1>3, <1>8, <2>1, <2>2 DEF Debts, Linking
<1>14. \A n : InQueue(n)' <=> InQueue(n) \/ n = Stub
  BY <1>3 DEF InQueue
<1>15. Owners'
  BY <1>1, <1>2, <1>14, QueueAssumption DEF Owners, Before, Held, TypeOK
<1>16. PopState'
  <2>1. Popping /\ \A p \in Producers : Linking(p)' <=> Linking(p)
    BY <1>1 DEF Popping, Linking
  <2> QED
    BY <1>1, <1>2, <1>5, <1>14, <2>1 DEF PopState
<1>17. Contents'
  <2>1. deq \in Nat /\ L \in 1 .. L
    BY <1>2, <1>3 DEF TypeOK
  <2>2. ASSUME NEW i \in 1 .. L PROVE Rank(i)' = Rank(i) /\ Rank(i) = deq + i
    <3>1. \A j \in 1 .. i : j \in 1 .. L
      OBVIOUS
    <3>2. ~(\E j \in 1 .. i : order[j] = Stub) /\ ~(\E j \in 1 .. i : order'[j] = Stub)
      BY <1>3, <1>4, <3>1
    <3> QED
      BY <1>1, <2>1, <3>2 DEF Rank
  <2>3. \E j \in 1 .. (L + 1) : order'[j] = Stub
    BY <1>3
  <2>4. Rank(L + 1)' = deq + L
    BY <1>1, <2>1, <2>3 DEF Rank
  <2>5. ASSUME NEW i \in 1 .. L + 1, order'[i] # Stub
        PROVE  Rank(i)' \in 1 .. Len(log') /\ body'[order'[i]] = log'[Rank(i)']
    <3>1. i \in 1 .. L /\ order'[i] = order[i]
      BY <1>3, <2>5
    <3>2. Rank(i) \in 1 .. Len(log) /\ body[order[i]] = log[Rank(i)]
      BY <1>2, <2>5, <3>1 DEF Contents
    <3> QED
      BY <1>1, <2>2, <3>1, <3>2
  <2>6. Rank(L)' = Rank(L) /\ Rank(L) = deq + L /\ Rank(L) = Len(log)
    BY <1>2, <2>1, <2>2 DEF Contents
  <2>7. Rank(L + 1)' = Len(log') /\ Len(order') = L + 1
    BY <1>1, <1>3, <2>4, <2>6
  <2> QED
    BY ONLY <2>5, <2>7 DEF Contents
<1> QED
  BY <1>1, <1>6, <1>7, <1>12, <1>13, <1>15, <1>16, <1>17 DEF IInv, Chain

\* The consumer pays its debt.
LEMMA PopRelinkKeeps ==
  ASSUME IInv, PopRelink
  PROVE  IInv' /\ UNCHANGED <<log, deq, out>>
<1>a. PICK L \in Nat : L = Len(order)
  BY ElementFacts DEF IInv, TypeOK
<1> USE <1>a
<1>1. /\ cpc = "relink" /\ cpc' = "last" /\ next' = [next EXCEPT ![cprev] = Stub]
      /\ cprev' = NULL
      /\ UNCHANGED <<head, tail, heap, body, ppc, mine, prev, count, h>>
      /\ UNCHANGED <<order, log, deq, out, overlap>>
  BY DEF PopRelink, producer, history
<1>2. TypeOK /\ Ends /\ Links /\ Debts /\ Owners /\ PopState /\ Contents
  BY DEF IInv, Chain
<1>3. PICK k \in 1 .. (L - 1) : OwedByConsumer(k)
  BY <1>1, <1>2 DEF Debts, Restubbing
<1>4. /\ order[k] = cprev /\ order[k + 1] = Stub
      /\ L >= 1 /\ order[L] = tail
      /\ \A i, j \in 1 .. L : order[i] = order[j] => i = j
      /\ \A i \in 1 .. L : order[i] \in Pointers
  BY <1>2, <1>3, ElementFacts DEF OwedByConsumer, Ends, TypeOK
<1>5. /\ next'[order[k]] = Stub
      /\ \A n \in Pointers : n # order[k] => next'[n] = next[n]
  BY <1>1, <1>2, <1>3, <1>4 DEF TypeOK
<1>6. TypeOK'
  BY <1>1, <1>2 DEF TypeOK, Pointers
<1>7. Ends'
  BY <1>1, <1>2, <1>3, <1>4, <1>5 DEF TypeOK, Ends
<1>8. \A p \in Producers : \A i : OwedByProducer(p, i)' <=> OwedByProducer(p, i)
  BY <1>1 DEF OwedByProducer, Linking
<1>9. \A i : ~(OwedByConsumer(i)')
  BY <1>1 DEF OwedByConsumer, Restubbing
<1>10. Links'
  <2> SUFFICES ASSUME NEW i \in 1 .. (L - 1)
               PROVE  \/ next'[order[i]] = order[i + 1] /\ ~(Owed(i)')
                      \/ next'[order[i]] = NULL /\ Owed(i)'
    BY <1>1 DEF Links
  <2>1. CASE i = k
    <3>1. \A p \in Producers : ~OwedByProducer(p, i)
      <4> SUFFICES ASSUME NEW p \in Producers, OwedByProducer(p, i)
                   PROVE  FALSE
        OBVIOUS
      <4>1. mine[p] = Stub /\ mine[p] \in Nodes \union {NULL}
        BY <1>2, <1>4, <2>1 DEF OwedByProducer, TypeOK
      <4> QED
        BY <4>1, QueueAssumption
    <3> QED
      BY <3>1, <1>4, <1>5, <1>8, <1>9, <2>1 DEF Owed
  <2>2. CASE i # k
    <3>1. ~OwedByConsumer(i)
      BY <1>4, <2>2 DEF OwedByConsumer
    <3>2. Owed(i)' <=> Owed(i)
      BY <1>8, <1>9, <3>1 DEF Owed
    <3>3. i \in 1 .. L /\ k \in 1 .. L
      BY <1>4
    <3>4. order[i] \in Pointers /\ order[i] # order[k]
      BY <1>4, <2>2, <3>3
    <3>5. next'[order[i]] = next[order[i]]
      BY ONLY <1>5, <3>4
    <3> QED
      BY ONLY <1>2, <1>a, <3>2, <3>5, i \in 1 .. (L - 1) DEF Links
  <2> QED
    BY <2>1, <2>2
<1>11. Debts'
  BY <1>1, <1>2, <1>8 DEF Debts, Linking, Restubbing
<1>12. \A n : InQueue(n)' <=> InQueue(n)
  BY <1>1 DEF InQueue
<1>13. Owners'
  <2>1. \A p \in Producers : Before(p) =>
          mine[p] \in Pointers /\ mine[p] # order[k]
    BY <1>2, <1>3 DEF Owners, InQueue, TypeOK, Pointers
  <2> QED
    BY <1>1, <1>2, <1>5, <1>12, <2>1 DEF Owners, Before, Held
<1>14. PopState'
  <2>1. Popping /\ \A p \in Producers : Linking(p)' <=> Linking(p)
    BY <1>1 DEF Popping, Linking
  <2> QED
    BY <1>1, <1>2, <1>12, <2>1 DEF PopState, Restubbing
<1>15. \A i : Rank(i)' = Rank(i)
  BY <1>1 DEF Rank
<1>16. Contents'
  BY <1>1, <1>2, <1>15 DEF Contents
<1> QED
  BY <1>1, <1>6, <1>7, <1>10, <1>11, <1>13, <1>14, <1>16 DEF IInv, Chain

\* The last decision of pop.
LEMMA PopLastKeeps ==
  ASSUME IInv, PopLast
  PROVE  IInv' /\ (Fifo!Dequeue \/ UNCHANGED <<log, deq, out>>)
<1>1. cpc = "last" /\ UNCHANGED <<tail, next, heap, body, producer, cprev>>
      /\ UNCHANGED <<ppc, mine, prev, count>>
  BY DEF PopLast, producer
<1>2. h = head /\ head # Stub /\ overlap \in BOOLEAN
  BY <1>1 DEF IInv, Chain, PopState, TypeOK
<1>3. CASE next[h] # NULL
  <2>1. Return(head, next[head])
    BY <1>2, <1>3 DEF PopLast
  <2>2. IInv' /\ deq < Len(log) /\ out' = log[deq + 1]
    BY <1>1, <1>2, <1>3, <2>1, ReturnKeeps
  <2> QED
    BY <2>1, <2>2 DEF Fifo!Dequeue, Return
<1>4. CASE next[h] = NULL
  BY <1>1, <1>2, <1>4, LocalKeeps DEF PopLast, ReturnNull
<1> QED
  BY <1>3, <1>4

\* The received command is deleted.
LEMMA ConsumeKeeps ==
  ASSUME IInv, Consume
  PROVE  IInv' /\ UNCHANGED <<log, deq, out>>
<1>1. /\ cpc = "got" /\ heap' = heap \ {h} /\ cpc' = "idle" /\ h' = NULL
      /\ UNCHANGED <<head, tail, next, body, ppc, mine, prev, count, cprev>>
      /\ UNCHANGED <<order, log, deq, out, overlap>>
  BY DEF Consume, producer, history
<1>2. TypeOK /\ Ends /\ Links /\ Debts /\ Owners /\ PopState /\ Contents
  BY DEF IInv, Chain
<1>3. TypeOK'
  BY <1>1, <1>2 DEF TypeOK
<1>4. Ends'
  BY <1>1, <1>2 DEF Ends
<1>5. Links' /\ Debts'
  BY <1>1, <1>2
  DEF Links, Debts, Owed, OwedByProducer, OwedByConsumer, Linking, Restubbing
<1>6. Owners'
  BY <1>1, <1>2 DEF Owners, InQueue, Before, Held
<1>7. PopState'
  BY <1>1 DEF PopState, Restubbing, Popping
<1>8. \A i : Rank(i)' = Rank(i)
  BY <1>1 DEF Rank
<1>9. Contents'
  BY <1>1, <1>2, <1>8 DEF Contents
<1> QED
  BY <1>1, <1>3, <1>4, <1>5, <1>6, <1>7, <1>9 DEF IInv, Chain

\* The caller of pop comes back for more.
LEMMA RetryKeeps ==
  ASSUME IInv, Retry
  PROVE  IInv' /\ UNCHANGED <<log, deq, out>>
<1>1. h \in Pointers \union {NULL}
  BY DEF IInv, TypeOK
<1>2. overlap' = FALSE /\ cpc = "null" /\ cpc' = "idle"
  BY DEF Retry
<1>3. overlap' \in BOOLEAN
  BY <1>2, Zenon
<1> QED
  BY <1>1, <1>2, <1>3, LocalKeeps DEF Retry, memory, producer

\* A stuttering step changes nothing the invariant speaks of.
LEMMA StutterKeeps ==
  ASSUME IInv, UNCHANGED vars
  PROVE  IInv' /\ UNCHANGED <<log, deq, out>>
<1>1. UNCHANGED <<head, tail, next, heap, body, ppc, mine, prev, count>>
      /\ UNCHANGED <<cpc, h, cprev, order, log, deq, out, overlap>>
  BY DEF vars, memory, producer, consumer, history
<1>2. TypeOK' /\ Ends'
  BY <1>1 DEF IInv, Chain, TypeOK, Ends
<1>3. Links' /\ Debts'
  BY <1>1
  DEF IInv, Chain, Links, Debts, Owed, OwedByProducer, OwedByConsumer, Linking, Restubbing
<1>4. Owners' /\ PopState'
  BY <1>1
  DEF IInv, Chain, Owners, PopState, InQueue, Before, Held, Restubbing, Popping, Linking
<1>5. \A i : Rank(i)' = Rank(i)
  BY <1>1 DEF Rank
<1>6. Contents'
  BY <1>1, <1>5 DEF IInv, Chain, Contents
<1> QED
  BY <1>1, <1>2, <1>3, <1>4, <1>6 DEF IInv, Chain

-----------------------------------------------------------------------------
(* The theorems *)

\* The initial state is one of the empty queue.
LEMMA InitIInv == Init => IInv
<1> SUFFICES ASSUME Init PROVE IInv
  OBVIOUS
<1>1. Len(order) = 1 /\ order[1] = Stub
  BY DEF Init
<1>2. Ends /\ Links /\ Debts /\ PopState
  BY <1>1, QueueAssumption
  DEF Init, Ends, Links, Debts, PopState, Linking, Restubbing, Popping, Pointers
<1>3. Owners
  BY <1>1, QueueAssumption DEF Init, Owners, InQueue, Before, Held
<1>4. Contents
  <2>1. \E j \in 1 .. 1 : order[j] = Stub
    BY <1>1
  <2>2. Rank(1) = 0
    BY <2>1 DEF Rank, Init
  <2>3. Len(log) = 0
    BY DEF Init
  <2> QED
    BY <1>1, <2>2, <2>3 DEF Contents
<1> QED
  BY InitTypeOK, <1>2, <1>3, <1>4 DEF IInv, Chain

\* Every step keeps the invariant, and is a step of the abstract queue or leaves
\* it alone.
LEMMA StepKeeps ==
  ASSUME IInv, [Next]_vars
  PROVE  IInv' /\ [Fifo!Next]_<<log, deq, out>>
<1>1. CASE UNCHANGED vars
  BY <1>1, StutterKeeps
<1>2. ASSUME NEW p \in Producers, PushBegin(p) \/ PushSwap(p) \/ PushLink(p)
      PROVE  IInv' /\ [Fifo!Next]_<<log, deq, out>>
  <2>1. CASE PushBegin(p)
    BY <2>1, PushBeginKeeps DEF PushBegin, history
  <2>2. CASE PushSwap(p)
    <3>1. body[mine[p]] \in Messages /\ UNCHANGED <<deq, out>>
          /\ log' = Append(log, body[mine[p]])
      BY <2>2 DEF PushSwap, IInv, Chain, Owners, Before
    <3>2. Fifo!Enqueue(body[mine[p]])
      BY <3>1 DEF Fifo!Enqueue
    <3> QED
      BY <2>2, <3>1, <3>2, PushSwapKeeps DEF Fifo!Next
  <2>3. CASE PushLink(p)
    BY <2>3, PushLinkKeeps DEF PushLink, history
  <2> QED
    BY <1>2, <2>1, <2>2, <2>3
<1>3. ASSUME PopStep PROVE IInv' /\ [Fifo!Next]_<<log, deq, out>>
  BY <1>3, PopStartKeeps, PopSecondKeeps, PopTailKeeps, PopRestubKeeps,
     PopRelinkKeeps, PopLastKeeps, ConsumeKeeps, RetryKeeps DEF PopStep, Fifo!Next
<1> QED
  BY <1>1, <1>2, <1>3 DEF Next

\* A pop that gives up without any push at work has emptied the queue.
LEMMA StepHonest ==
  ASSUME IInv, [Next]_vars, cpc' = "null", cpc # "null", ~overlap'
  PROVE  deq' = Len(log')
<1>a. PICK L \in Nat : L = Len(order)
  BY ElementFacts DEF IInv, TypeOK
<1> USE <1>a
<1>1. TypeOK /\ Ends /\ Links /\ Debts /\ PopState /\ Contents
  BY DEF IInv, Chain
<1>2. L >= 1 /\ order[1] = head /\ order[L] = tail /\ deq \in Nat
  BY <1>1 DEF Ends, TypeOK
<1>3. PopStart \/ PopTail \/ PopLast
  BY DEF Next, PopStep, PushBegin, PushSwap, PushLink, PopSecond, PopRestub,
         PopRelink, Consume, Retry, Return, vars, consumer
<1>4. ASSUME \A p \in Producers : ~Linking(p), cpc # "relink", L >= 2
      PROVE  next[head] # NULL
  <2>1. ~Owed(1) /\ 1 \in 1 .. (L - 1)
    BY <1>4 DEF Owed, OwedByProducer, OwedByConsumer, Restubbing
  <2>2. next[head] = order[2]
    BY <1>1, <1>2, <2>1 DEF Links
  <2>3. order[2] \in Pointers
    BY <1>1, <1>4, ElementFacts DEF TypeOK
  <2> QED
    BY <2>2, <2>3, QueueAssumption DEF Pointers
<1>5. CASE PopStart
  <2>1. head = Stub /\ next[Stub] = NULL /\ ReturnNull /\ cpc = "idle"
        /\ overlap' = (\E p \in Producers : Linking(p))
    BY <1>5 DEF PopStart, Return
  <2>2. \A p \in Producers : ~Linking(p)
    BY <2>1, Zenon
  <2>3. L = 1
    BY <1>2, <1>4, <2>1, <2>2
  <2>4. \E j \in 1 .. 1 : order[j] = Stub
    BY <1>2, <2>1
  <2>5. Rank(1) = deq
    BY <1>2, <2>4 DEF Rank
  <2> QED
    BY <1>1, <2>1, <2>3, <2>5 DEF Contents, ReturnNull
<1>6. CASE PopTail
  <2>1. tail # h /\ cpc = "tail" /\ overlap' = overlap
    BY <1>6 DEF PopTail
  <2>2. h = head /\ next[h] = NULL /\ \A p \in Producers : ~Linking(p)
    BY <1>1, <2>1 DEF PopState, Popping
  <2> QED
    BY <1>2, <1>4, <2>1, <2>2
<1>7. CASE PopLast
  <2>1. next[h] = NULL /\ cpc = "last" /\ overlap' = overlap
    BY <1>7 DEF PopLast, Return
  <2>2. h = head /\ head # Stub /\ InQueue(Stub) /\ \A p \in Producers : ~Linking(p)
    BY <1>1, <2>1 DEF PopState, Popping
  <2>3. L >= 2
    BY <1>2, <2>2 DEF InQueue
  <2> QED
    BY <1>4, <2>1, <2>2, <2>3
<1> QED
  BY <1>3, <1>5, <1>6, <1>7

\* The inductive invariant, and with it the type invariant.
THEOREM ChainInvariant == SafeSpec => [](TypeOK /\ Chain)
<1>1. IInv /\ [Next]_vars => IInv'
  BY StepKeeps
<1>2. IInv => TypeOK /\ Chain
  BY DEF IInv
<1> QED
  BY InitIInv, <1>1, <1>2, PTL DEF SafeSpec

\* push never stores into a node that was deleted, received or handed out again
\* while it was about to link (int_mpsc_queue.hpp:28).
THEOREM NoDanglingWriteHolds == SafeSpec => []NoDanglingWrite
<1>1. TypeOK /\ Chain => NoDanglingWrite
  <2> SUFFICES ASSUME TypeOK, Chain, NEW p \in Producers, Linking(p)
               PROVE  /\ prev[p] \in heap \union {Stub}
                      /\ \A q \in Producers : Before(q) => mine[q] # prev[p]
                      /\ ~Held(prev[p])
    BY DEF NoDanglingWrite
  <2>1. PICK i \in 1 .. (Len(order) - 1) : prev[p] = order[i]
    BY DEF Chain, Debts, OwedByProducer
  <2>2. i \in 1 .. Len(order)
    BY <2>1, ElementFacts DEF TypeOK
  <2>3. InQueue(prev[p]) /\ prev[p] \in Nodes \union {Stub}
    BY <2>1, <2>2, ElementFacts DEF TypeOK, InQueue, Pointers
  <2>4. Held(Stub) => FALSE
    BY QueueAssumption DEF Chain, Owners, Held, TypeOK
  <2> QED
    BY <2>3, <2>4 DEF Chain, Owners
<1> QED
  BY ChainInvariant, <1>1, PTL

\* The pointer structure implements the first-in first-out queue of MpscFifo.
THEOREM Refinement == SafeSpec => ImplementsFifo
<1>1. Init => Fifo!Init
  BY DEF Init, Fifo!Init
<1>2. IInv /\ [Next]_vars => IInv' /\ [Fifo!Next]_<<log, deq, out>>
  BY StepKeeps
<1>3. IInv /\ [Next]_vars => IInv' /\ [Fifo!Next]_Fifo!vars
  BY <1>2 DEF Fifo!vars
<1> QED
  BY InitIInv, <1>1, <1>3, PTL DEF SafeSpec, ImplementsFifo, Fifo!SafeSpec

\* pop answers nullptr to a consumer that is alone with the queue only when the
\* queue is empty (int_mpsc_queue.hpp:37-38, 50-51, 61).
THEOREM NullIsHonestHolds == SafeSpec => NullIsHonest
<1>1. IInv /\ [Next]_vars => IInv'
  BY StepKeeps
<1>2. IInv /\ [Next]_vars =>
        [cpc' = "null" /\ cpc # "null" /\ ~overlap' => deq' = Len(log')]_vars
  BY StepHonest
<1> QED
  BY InitIInv, <1>1, <1>2, PTL DEF SafeSpec, NullIsHonest

-----------------------------------------------------------------------------
(* What a receiver knows of its queue *)

\* The nodes in the queue whose push is over.
Arrived == {n \in Nodes : InQueue(n) /\ \A p \in Producers : Linking(p) => mine[p] # n}

\* A message that p has put into the queue.
Entered(m) ==
  \E p \in Producers : \E k \in 1 .. count[p] : m = <<p, k>> /\ (Before(p) => k < count[p])

\* Every message enters once, and the consumer has in hand the one it received last.
Told ==
  /\ \A p \in Producers : Before(p) => count[p] >= 1 /\ body[mine[p]] = <<p, count[p]>>
  /\ \A i \in 1 .. Len(log) : Entered(log[i])
  /\ \A i, j \in 1 .. Len(log) : log[i] = log[j] => i = j
  /\ deq <= Len(log)
  /\ cpc = "got" => deq >= 1 /\ body[h] = log[deq]

\* What a step of pop does to the queue as its caller sees it.
Keeps == UNCHANGED <<log, deq, Arrived>>
Takes ==
  /\ cpc # "got" /\ cpc' = "got"
  /\ h' \in Arrived /\ Arrived' = Arrived \ {h'}
  /\ deq < Len(log) /\ deq' = deq + 1 /\ body[h'] = log[deq + 1]
  /\ UNCHANGED <<log, body>>

\* A node leaves the queue.
LEMMA InQueueOfTail ==
  ASSUME IInv, order' = Tail(order)
  PROVE  \A n : InQueue(n)' <=> InQueue(n) /\ n # head
<1>1. PICK L \in Nat : L = Len(order)
  BY ElementFacts DEF IInv, TypeOK
<1>2. /\ L >= 1 /\ order[1] = head
      /\ \A i, j \in 1 .. L : order[i] = order[j] => i = j
  BY <1>1 DEF IInv, Chain, Ends
<1>3. Len(order') = L - 1 /\ \A i \in 1 .. L - 1 : order'[i] = order[i + 1]
  BY <1>1, <1>2, TailFacts DEF IInv, TypeOK
<1>4. ASSUME NEW n, NEW i \in 1 .. L - 1, order'[i] = n
      PROVE  InQueue(n) /\ n # head
  <2>1. i + 1 \in 1 .. L /\ i + 1 # 1 /\ 1 \in 1 .. L
    BY <1>2
  <2>2. order[i + 1] = n
    BY <1>3, <1>4
  <2> QED
    BY <1>1, <1>2, <2>1, <2>2 DEF InQueue
<1>5. ASSUME NEW n, n # head, NEW i \in 1 .. L, order[i] = n
      PROVE  \E j \in 1 .. L - 1 : order'[j] = n
  <2>1. i # 1
    BY <1>2, <1>5
  <2>2. i - 1 \in 1 .. L - 1 /\ (i - 1) + 1 = i
    BY <2>1
  <2> QED
    BY <1>3, <1>5, <2>2
<1> QED
  BY <1>1, <1>3, <1>4, <1>5 DEF InQueue

\* A node joins the queue.
LEMMA InQueueOfAppend ==
  ASSUME IInv, NEW e \in Pointers, order' = Append(order, e)
  PROVE  \A n : InQueue(n)' <=> InQueue(n) \/ n = e
<1>1. PICK L \in Nat : L = Len(order)
  BY ElementFacts DEF IInv, TypeOK
<1>2. /\ Len(order') = L + 1 /\ order'[L + 1] = e
      /\ \A i \in 1 .. L : order'[i] = order[i]
  BY <1>1, AppendFacts DEF IInv, TypeOK
<1>3. 1 .. L + 1 = (1 .. L) \union {L + 1}
  BY <1>1
<1> QED
  BY <1>1, <1>2, <1>3 DEF InQueue

\* Who is about to link its node has it in the queue, behind the head.
LEMMA LinkingFacts ==
  ASSUME IInv, NEW p \in Producers, Linking(p)
  PROVE  mine[p] \in Nodes /\ InQueue(mine[p]) /\ mine[p] # head
<1>1. PICK L \in Nat : L = Len(order)
  BY ElementFacts DEF IInv, TypeOK
<1>2. /\ L >= 1 /\ order[1] = head
      /\ \A i, j \in 1 .. L : order[i] = order[j] => i = j
  BY <1>1 DEF IInv, Chain, Ends
<1>3. PICK i \in 1 .. L - 1 : mine[p] = order[i + 1]
  BY <1>1 DEF IInv, Chain, Debts, OwedByProducer
<1>4. i + 1 \in 1 .. L /\ i + 1 # 1 /\ 1 \in 1 .. L
  BY <1>2
<1>5. order[i + 1] \in Pointers
  BY <1>1, <1>4, ElementFacts DEF IInv, TypeOK
<1>6. mine[p] \in Nodes
  BY <1>3, <1>5, QueueAssumption DEF IInv, TypeOK, Pointers
<1> QED
  BY <1>1, <1>2, <1>3, <1>4, <1>6 DEF InQueue

\* What a push does to the nodes that have arrived.
LEMMA PushEffect ==
  ASSUME IInv, NEW p \in Producers
  PROVE  /\ PushBegin(p) => UNCHANGED Arrived
         /\ PushSwap(p) => UNCHANGED Arrived
         /\ PushLink(p) => mine[p] \in Nodes \ Arrived /\ Arrived' = Arrived \union {mine[p]}
<1>1. TypeOK /\ Owners /\ Debts
  BY DEF IInv, Chain
<1>2. ASSUME PushBegin(p) PROVE UNCHANGED Arrived
  <2>1. order' = order /\ \A q \in Producers : Linking(q)' <=> Linking(q)
    BY <1>1, <1>2 DEF PushBegin, history, Linking, TypeOK
  <2>2. \A q \in Producers : Linking(q) => mine'[q] = mine[q]
    BY <1>1, <1>2 DEF PushBegin, Linking, TypeOK
  <2>3. \A n : InQueue(n)' <=> InQueue(n)
    BY <2>1 DEF InQueue
  <2> QED
    BY <2>1, <2>2, <2>3 DEF Arrived
<1>3. ASSUME PushSwap(p) PROVE UNCHANGED Arrived
  <2>1. mine[p] \in Nodes /\ ~InQueue(mine[p]) /\ order' = Append(order, mine[p])
    BY <1>1, <1>3 DEF PushSwap, Owners, Before, TypeOK
  <2>2. mine' = mine /\ \A q \in Producers : Linking(q)' <=> Linking(q) \/ q = p
    BY <1>1, <1>3 DEF PushSwap, Linking, TypeOK
  <2>3. \A n : InQueue(n)' <=> InQueue(n) \/ n = mine[p]
    BY <2>1, InQueueOfAppend DEF Pointers
  <2> QED
    BY <2>1, <2>2, <2>3 DEF Arrived
<1>4. ASSUME PushLink(p) PROVE mine[p] \in Nodes \ Arrived /\ Arrived' = Arrived \union {mine[p]}
  <2>1. Linking(p) /\ mine[p] \in Nodes /\ InQueue(mine[p])
    BY <1>4, LinkingFacts DEF PushLink, Linking
  <2>2. order' = order /\ \A q \in Producers : Linking(q)' <=> Linking(q) /\ q # p
    BY <1>1, <1>4 DEF PushLink, Linking, TypeOK, history
  <2>3. \A q \in Producers : q # p => mine'[q] = mine[q]
    BY <1>1, <1>4 DEF PushLink, TypeOK
  <2>4. \A n : InQueue(n)' <=> InQueue(n)
    BY <2>2 DEF InQueue
  <2>5. \A q \in Producers : Linking(q) /\ q # p => mine[q] # mine[p]
    BY <1>1, <2>1 DEF Debts
  <2> QED
    BY <2>1, <2>2, <2>3, <2>4, <2>5 DEF Arrived
<1> QED
  BY <1>2, <1>3, <1>4

\* pop hands out the node at the head.
LEMMA ReturnEffect ==
  ASSUME IInv, head # Stub, cpc # "got", Return(head, next[head]),
         UNCHANGED <<next, body, mine, ppc>>
  PROVE  Takes
<1>1. PICK L \in Nat : L = Len(order)
  BY ElementFacts DEF IInv, TypeOK
<1>2. /\ L >= 1 /\ order[1] = head /\ deq \in Nat /\ Len(log) \in Nat
      /\ head \in Pointers /\ Contents
  BY <1>1, ElementFacts DEF IInv, TypeOK, Chain, Ends
<1>3. head \in Nodes
  BY <1>2 DEF Pointers
<1>4. order' = Tail(order) /\ cpc' = "got" /\ h' = head /\ deq' = deq + 1 /\ log' = log
  BY DEF Return
<1>5. deq < Len(log) /\ body[head] = log[deq + 1]
  <2>1. 1 \in 1 .. L /\ ~ \E j \in 1 .. 1 : order[j] = Stub
    BY <1>2
  <2>2. Rank(1) = deq + 1
    BY <1>2, <2>1 DEF Rank
  <2> QED
    BY <1>1, <1>2, <2>1, <2>2 DEF Contents
<1>6. head \in Arrived
  <2>1. InQueue(head)
    BY <1>1, <1>2 DEF InQueue
  <2> QED
    BY <1>3, <2>1, LinkingFacts DEF Arrived
<1>7. Arrived' = Arrived \ {head}
  <2>1. \A n : InQueue(n)' <=> InQueue(n) /\ n # head
    BY <1>4, InQueueOfTail
  <2>2. mine' = mine /\ \A q \in Producers : Linking(q)' <=> Linking(q)
    BY DEF Linking
  <2> QED
    BY <2>1, <2>2 DEF Arrived
<1> QED
  BY <1>4, <1>5, <1>6, <1>7 DEF Takes

\* Every step of pop takes the oldest node or keeps the queue as it is.
LEMMA PopEffect ==
  ASSUME IInv, PopStart \/ PopSecond \/ PopTail \/ PopRestub \/ PopRelink \/ PopLast
  PROVE  /\ cpc # "got" /\ (cpc' = "got" => Takes) /\ (cpc' # "got" => Keeps)
         /\ UNCHANGED <<body, ppc, mine, count>>
<1>1. TypeOK /\ PopState
  BY DEF IInv, Chain
<1>2. /\ cpc # "got" /\ UNCHANGED <<body, ppc, mine, count>>
      /\ \A q \in Producers : Linking(q)' <=> Linking(q)
  BY DEF PopStart, PopSecond, PopTail, PopRestub, PopRelink, PopLast, producer, Linking
<1> DEFINE A == head # Stub /\ Return(head, next[head]) /\ next' = next
           B == cpc' # "got" /\ UNCHANGED <<order, log, deq>>
           C == cpc' # "got" /\ UNCHANGED <<log, deq>>
                /\ ((head = Stub /\ order' = Tail(order)) \/ order' = Append(order, Stub))
<1>3. A \/ B \/ C
  <2>1. CASE PopStart
    BY <2>1 DEF PopStart, ReturnNull
  <2>2. CASE PopSecond
    BY <1>1, <2>2 DEF PopSecond, PopState, history
  <2>3. CASE PopTail
    BY <2>3 DEF PopTail, ReturnNull, history
  <2>4. CASE PopRestub
    BY <2>4 DEF PopRestub
  <2>5. CASE PopRelink
    BY <2>5 DEF PopRelink, history
  <2>6. CASE PopLast
    BY <1>1, <2>6 DEF PopLast, PopState, ReturnNull
  <2> QED
    BY <2>1, <2>2, <2>3, <2>4, <2>5, <2>6
<1>4. CASE A
  BY <1>2, <1>4, ReturnEffect DEF Return
<1>5. CASE B
  <2>1. \A n : InQueue(n)' <=> InQueue(n)
    BY <1>5 DEF InQueue
  <2> QED
    BY <1>2, <1>5, <2>1 DEF Keeps, Arrived
<1>6. CASE C
  <2>1. \A n \in Nodes : InQueue(n)' <=> InQueue(n)
    BY <1>6, InQueueOfTail, InQueueOfAppend, QueueAssumption DEF Pointers
  <2> QED
    BY <1>2, <1>6, <2>1 DEF Keeps, Arrived
<1> QED
  BY <1>2, <1>3, <1>4, <1>5, <1>6

\* The caller of pop is done with what it got.
LEMMA CallerEffect ==
  ASSUME IInv, Consume \/ Retry
  PROVE  Keeps /\ UNCHANGED <<body, ppc, mine, count>> /\ cpc' = "idle"
<1>1. /\ cpc' = "idle" /\ UNCHANGED <<body, ppc, mine, count, log, deq, order>>
      /\ \A q \in Producers : Linking(q)' <=> Linking(q)
  BY DEF Consume, Retry, producer, history, memory, Linking
<1>2. \A n : InQueue(n)' <=> InQueue(n)
  BY <1>1 DEF InQueue
<1> QED
  BY <1>1, <1>2 DEF Keeps, Arrived

\* No message is in the queue before anyone has pushed.
LEMMA InitTold == Init => Told /\ Arrived = {}
<1> SUFFICES ASSUME Init PROVE Told /\ Arrived = {}
  OBVIOUS
<1>1. Len(log) = 0 /\ deq = 0 /\ cpc = "idle" /\ (\A p \in Producers : ~Before(p))
  BY DEF Init, Before
<1>2. Len(order) = 1 /\ order[1] = Stub
  BY DEF Init
<1>3. \A n \in Nodes : ~InQueue(n)
  BY <1>2, QueueAssumption DEF InQueue
<1> QED
  BY <1>1, <1>3 DEF Told, Arrived

\* A message enters once and leaves once.
LEMMA ToldKeeps ==
  ASSUME IInv, Told, [Next]_vars
  PROVE  Told'
<1>1. TypeOK /\ Owners
  BY DEF IInv, Chain
<1>2. count \in [Producers -> 0 .. MaxSends] /\ deq \in Nat /\ Len(log) \in Nat
      /\ log \in Seq(Messages) /\ MaxSends \in Nat
  BY <1>1, ElementFacts, QueueAssumption DEF TypeOK
<1>a. ASSUME UNCHANGED <<count, log>>, \A p \in Producers : Before(p)' => Before(p)
      PROVE  \A i \in 1 .. Len(log') : Entered(log[i])'
  <2>1. \A i \in 1 .. Len(log) : Entered(log[i])
    BY DEF Told
  <2> QED
    BY <1>a, <2>1 DEF Entered
<1>3. ASSUME NEW p \in Producers, PushBegin(p) PROVE Told'
  <2>1. PICK n \in Nodes \ heap : body' = [body EXCEPT ![n] = <<p, count[p] + 1>>]
                                  /\ mine' = [mine EXCEPT ![p] = n]
    BY <1>3 DEF PushBegin
  <2>2. /\ ppc[p] = "idle" /\ ppc' = [ppc EXCEPT ![p] = "swap"]
        /\ count' = [count EXCEPT ![p] = @ + 1]
        /\ UNCHANGED <<cpc, h, log, deq>>
    BY <1>3 DEF PushBegin, consumer, history
  <2>3. \A q \in Producers : count'[q] = IF q = p THEN count[p] + 1 ELSE count[q]
    BY <1>2, <2>2
  <2>4. \A q \in Producers : Before(q)' <=> Before(q) \/ q = p
    BY <1>1, <2>2 DEF Before, TypeOK
  <2>5. \A q \in Producers : Before(q)' => count'[q] >= 1 /\ body'[mine'[q]] = <<q, count'[q]>>
    <3>1. ASSUME NEW q \in Producers, q # p, Before(q)
          PROVE  count'[q] >= 1 /\ body'[mine'[q]] = <<q, count'[q]>>
      <4>1. mine[q] \in heap /\ mine'[q] = mine[q]
        BY <1>1, <2>1, <3>1 DEF Owners, TypeOK
      <4>2. body'[mine[q]] = body[mine[q]]
        BY <1>1, <2>1, <4>1 DEF TypeOK
      <4> QED
        BY <2>3, <3>1, <4>1, <4>2 DEF Told
    <3>2. count'[p] >= 1 /\ body'[mine'[p]] = <<p, count'[p]>>
      <4>1. mine'[p] = n /\ body'[n] = <<p, count[p] + 1>> /\ count[p] \in Nat
        BY <1>1, <1>2, <2>1 DEF TypeOK
      <4> QED
        BY <2>3, <4>1
    <3> QED
      BY <2>4, <3>1, <3>2
  <2>6. ASSUME NEW m, Entered(m) PROVE Entered(m)'
    <3>1. PICK q \in Producers :
            \E k \in 1 .. count[q] : m = <<q, k>> /\ (Before(q) => k < count[q])
      BY <2>6 DEF Entered
    <3>2. PICK k \in 1 .. count[q] : m = <<q, k>> /\ (Before(q) => k < count[q])
      BY <3>1
    <3>3. k \in 1 .. count'[q] /\ (Before(q)' => k < count'[q])
      BY <1>2, <2>3, <2>4, <3>2
    <3> QED
      BY <3>2, <3>3 DEF Entered
  <2>7. cpc = "got" => body'[h] = body[h]
    BY <1>1, <2>1 DEF Owners, TypeOK
  <2> QED
    BY <2>2, <2>5, <2>6, <2>7 DEF Told
<1>4. ASSUME NEW p \in Producers, PushSwap(p) PROVE Told'
  <2>1. /\ ppc[p] = "swap" /\ ppc' = [ppc EXCEPT ![p] = "link"]
        /\ log' = Append(log, body[mine[p]])
        /\ UNCHANGED <<cpc, h, deq, count, body, mine>>
    BY <1>4 DEF PushSwap, consumer
  <2>2. /\ count[p] \in Nat /\ count[p] >= 1 /\ body[mine[p]] = <<p, count[p]>>
        /\ <<p, count[p]>> \in Messages
    BY <1>2, <2>1 DEF Told, Before, Messages
  <2>3. PICK N \in Nat : N = Len(log)
    BY <1>2
  <2>4. /\ Len(log') = N + 1 /\ log'[N + 1] = <<p, count[p]>>
        /\ \A i \in 1 .. N : log'[i] = log[i]
    BY <1>2, <2>1, <2>2, <2>3, AppendFacts
  <2>5. \A q \in Producers : Before(q)' <=> Before(q) /\ q # p
    BY <1>1, <2>1 DEF Before, TypeOK
  <2>6. ASSUME NEW m, NEW i \in 1 .. N, m = log[i]
        PROVE  m # <<p, count[p]>> /\ Entered(m)'
    <3>1. PICK q \in Producers :
            \E k \in 1 .. count[q] : m = <<q, k>> /\ (Before(q) => k < count[q])
      BY <2>3, <2>6 DEF Told, Entered
    <3>2. PICK k \in 1 .. count[q] : m = <<q, k>> /\ (Before(q) => k < count[q])
      BY <3>1
    <3>3. m # <<p, count[p]>>
      BY <2>1, <2>2, <3>2 DEF Before
    <3> QED
      BY <2>1, <2>5, <3>2, <3>3 DEF Entered
  <2>7. Entered(<<p, count[p]>>)'
    <3>1. count[p] \in 1 .. count'[p] /\ ~Before(p)'
      BY <2>1, <2>2, <2>5
    <3> QED
      BY <2>1, <3>1 DEF Entered
  <2>8. \A m : Entered(m)' <=> \E q \in Producers : \E k \in 1 .. count'[q] :
                                  m = <<q, k>> /\ (Before(q)' => k < count'[q])
    BY DEF Entered
  <2>9. \A i \in 1 .. Len(log') : Entered(log[i])'
    <3>1. ASSUME NEW i \in 1 .. Len(log'), NEW m, m = log'[i] PROVE Entered(m)'
      <4>1. i \in 1 .. N \/ i = N + 1
        BY <2>3, <2>4, <3>1
      <4> QED
        BY <2>1, <2>4, <2>6, <2>7, <3>1, <4>1
    <3> QED
      BY <3>1, <2>8 DEF Entered
  <2>10. \A i, j \in 1 .. Len(log') : log'[i] = log'[j] => i = j
    <3>1. \A i \in 1 .. Len(log') : i \in 1 .. N \/ i = N + 1
      BY <2>3, <2>4
    <3>2. \A i \in 1 .. N : log[i] # <<p, count[p]>>
      BY <2>6
    <3> QED
      BY <2>3, <2>4, <3>1, <3>2 DEF Told
  <2>11. deq <= Len(log') /\ (cpc = "got" => deq >= 1 /\ body[h] = log'[deq])
    BY <1>2, <2>3, <2>4 DEF Told
  <2> QED
    BY <2>1, <2>5, <2>9, <2>10, <2>11 DEF Told
<1>5. ASSUME NEW q \in Producers, PushLink(q) PROVE Told'
  <2>1. /\ ppc' = [ppc EXCEPT ![q] = "idle"] /\ mine' = [mine EXCEPT ![q] = NULL] /\ ppc[q] = "link"
        /\ UNCHANGED <<cpc, h, deq, log, count, body>>
    BY <1>5 DEF PushLink, consumer, history
  <2>2. \A p \in Producers : (Before(p)' <=> Before(p)) /\ (Before(p) => mine'[p] = mine[p])
    BY <1>1, <2>1 DEF Before, TypeOK
  <2> QED
    BY <1>a, <2>1, <2>2 DEF Told
<1>6. CASE PopStart \/ PopSecond \/ PopTail \/ PopRestub \/ PopRelink \/ PopLast
  <2>1. /\ UNCHANGED <<body, ppc, mine, count, log>>
        /\ \/ cpc' # "got" /\ deq' = deq
           \/ cpc' = "got" /\ deq < Len(log) /\ deq' = deq + 1 /\ body[h'] = log[deq + 1]
    BY <1>6, PopEffect DEF Takes, Keeps
  <2>2. \A p \in Producers : Before(p)' <=> Before(p)
    BY <2>1 DEF Before
  <2> QED
    BY <1>2, <1>a, <2>1, <2>2 DEF Told
<1>7. CASE Consume \/ Retry
  <2>1. UNCHANGED <<body, ppc, mine, count, log, deq>> /\ cpc' = "idle"
    BY <1>7, CallerEffect DEF Keeps
  <2>2. \A p \in Producers : Before(p)' <=> Before(p)
    BY <2>1 DEF Before
  <2> QED
    BY <1>a, <2>1, <2>2 DEF Told
<1>8. CASE UNCHANGED vars
  <2>1. UNCHANGED <<body, ppc, mine, count, log, deq, cpc, h>>
    BY <1>8 DEF vars, memory, producer, consumer, history
  <2>2. \A p \in Producers : Before(p)' <=> Before(p)
    BY <2>1 DEF Before
  <2> QED
    BY <1>a, <2>1, <2>2 DEF Told
<1> QED
  BY <1>3, <1>4, <1>5, <1>6, <1>7, <1>8 DEF Next, PopStep

-----------------------------------------------------------------------------
(* Once and in order *)

\* The place of the message l[i] among those of l that are not in z.
Turn(l, z, i) == Cardinality({j \in 1 .. i : l[j] \notin z})

\* done is what was not in z of the first d messages of l.
InOrder(done, l, z, d) ==
  /\ Len(done) = Turn(l, z, d)
  /\ \A i \in 1 .. d : l[i] \notin z => done[Turn(l, z, i)] = l[i]

LEMMA TurnFacts ==
  ASSUME NEW l, NEW z, NEW i \in Nat
  PROVE  /\ Turn(l, z, i) \in Nat /\ Turn(l, z, 0) = 0
         /\ Turn(l, z, i + 1) = IF l[i + 1] \in z THEN Turn(l, z, i) ELSE Turn(l, z, i) + 1
         /\ \A j \in 1 .. i : Turn(l, z, j) \in Nat /\ Turn(l, z, j) <= Turn(l, z, i)
         /\ \A j \in 1 .. i : l[j] \notin z => Turn(l, z, j) >= 1
<1> DEFINE S(n) == {j \in 1 .. n : l[j] \notin z}
<1>1. ASSUME NEW n \in Nat PROVE IsFiniteSet(S(n)) /\ Cardinality(S(n)) \in Nat
  <2>1. IsFiniteSet(1 .. n)
    BY FS_Interval
  <2>2. IsFiniteSet(S(n))
    BY <2>1, FS_Subset
  <2> QED
    BY <2>2, FS_CardinalityType
<1>2. S(0) = {}
  OBVIOUS
<1>3. /\ \A n : Turn(l, z, n) = Cardinality(S(n))
      /\ Turn(l, z, i + 1) = Cardinality(S(i + 1)) /\ Turn(l, z, i) = Cardinality(S(i))
  BY DEF Turn
<1>4. Turn(l, z, 0) = 0
  BY <1>2, <1>3, FS_EmptySet
<1>5. 1 .. i + 1 = (1 .. i) \union {i + 1} /\ i + 1 \notin 1 .. i
  OBVIOUS
<1>6. ASSUME l[i + 1] \in z PROVE Turn(l, z, i + 1) = Turn(l, z, i)
  <2>1. S(i + 1) = S(i)
    BY <1>5, <1>6
  <2> HIDE DEF S
  <2> QED
    BY <1>3, <1>6, <2>1
<1>7. ASSUME l[i + 1] \notin z PROVE Turn(l, z, i + 1) = Turn(l, z, i) + 1
  <2>1. S(i + 1) = S(i) \union {i + 1} /\ i + 1 \notin S(i)
    BY <1>5, <1>7
  <2> HIDE DEF S
  <2>2. Cardinality(S(i) \union {i + 1}) = Cardinality(S(i)) + 1
    BY <1>1, <2>1, FS_AddElement
  <2> QED
    BY <1>3, <1>7, <2>1, <2>2
<1>8. ASSUME NEW j \in 1 .. i PROVE Turn(l, z, j) \in Nat /\ Turn(l, z, j) <= Turn(l, z, i)
  <2>1. S(j) \in SUBSET S(i) /\ j \in Nat
    OBVIOUS
  <2> HIDE DEF S
  <2>2. Cardinality(S(j)) <= Cardinality(S(i))
    BY <1>1, <2>1, FS_Subset
  <2> QED
    BY <1>1, <1>3, <2>1, <2>2
<1>9. ASSUME NEW j \in 1 .. i, l[j] \notin z PROVE Turn(l, z, j) >= 1
  <2>1. j \in S(j) /\ j \in Nat
    BY <1>9
  <2> HIDE DEF S
  <2>2. Cardinality(S(j)) # 0 /\ Cardinality(S(j)) \in Nat
    BY <1>1, <2>1, FS_EmptySet
  <2> QED
    BY <1>3, <2>2
<1>10. Turn(l, z, i) \in Nat
  BY <1>1, <1>3
<1> QED
  BY <1>4, <1>6, <1>7, <1>8, <1>9, <1>10

\* What was done depends on the messages up to there only.
LEMMA InOrderSame ==
  ASSUME NEW done, NEW l, NEW z, NEW d \in Nat, NEW l2, NEW z2, InOrder(done, l, z, d),
         \A j \in 1 .. d : l2[j] = l[j] /\ (l[j] \in z <=> l[j] \in z2)
  PROVE  InOrder(done, l2, z2, d)
<1>1. ASSUME NEW i \in 1 .. d PROVE Turn(l2, z2, i) = Turn(l, z, i)
  <2>1. {j \in 1 .. i : l2[j] \notin z2} = {j \in 1 .. i : l[j] \notin z}
    OBVIOUS
  <2> QED
    BY <2>1 DEF Turn
<1>2. Turn(l2, z2, d) = Turn(l, z, d)
  <2>1. {j \in 1 .. d : l2[j] \notin z2} = {j \in 1 .. d : l[j] \notin z}
    OBVIOUS
  <2> QED
    BY <2>1 DEF Turn
<1> QED
  BY <1>1, <1>2 DEF InOrder

\* One message more is done, if it is not in z.
LEMMA InOrderTake ==
  ASSUME NEW S, NEW done \in Seq(S), NEW l, NEW z, NEW d \in Nat, InOrder(done, l, z, d),
         NEW more \in Seq(S),
         IF l[d + 1] \in z THEN more = done ELSE l[d + 1] \in S /\ more = Append(done, l[d + 1])
  PROVE  InOrder(more, l, z, d + 1)
<1>1. /\ Turn(l, z, d) \in Nat
      /\ Turn(l, z, d + 1) = IF l[d + 1] \in z THEN Turn(l, z, d) ELSE Turn(l, z, d) + 1
      /\ \A j \in 1 .. d : Turn(l, z, j) \in Nat /\ Turn(l, z, j) <= Turn(l, z, d)
      /\ \A j \in 1 .. d : l[j] \notin z => Turn(l, z, j) >= 1
  BY ONLY TurnFacts, d \in Nat
<1>2. 1 .. d + 1 = (1 .. d) \union {d + 1}
  OBVIOUS
<1>3. Len(done) = Turn(l, z, d) /\ \A i \in 1 .. d : l[i] \notin z => done[Turn(l, z, i)] = l[i]
  BY DEF InOrder
<1>4. CASE l[d + 1] \in z
  BY <1>1, <1>2, <1>3, <1>4 DEF InOrder
<1>5. CASE l[d + 1] \notin z
  <2>1. /\ Len(more) = Len(done) + 1 /\ more[Len(done) + 1] = l[d + 1]
        /\ \A i \in 1 .. Len(done) : more[i] = done[i]
    BY <1>5, AppendFacts
  <2>2. ASSUME NEW i \in 1 .. d, l[i] \notin z PROVE more[Turn(l, z, i)] = l[i]
    BY <1>1, <1>3, <2>1, <2>2
  <2>3. Len(more) = Turn(l, z, d + 1) /\ more[Turn(l, z, d + 1)] = l[d + 1]
    BY <1>1, <1>3, <1>5, <2>1
  <2> QED
    BY <1>2, <2>2, <2>3 DEF InOrder
<1> QED
  BY <1>4, <1>5

-----------------------------------------------------------------------------
(* The senders, which are the same in front of both receivers *)

\* A command, or a null node that nobody is told of.
Asks(p) ==
  /\ spc[p] = "idle" /\ PushBegin(p)
  /\ spc' = [spc EXCEPT ![p] = "push"] /\ UNCHANGED nulls
AsksNull(p) ==
  /\ spc[p] = "idle" /\ PushBegin(p)
  /\ nulls' = nulls \union {<<p, count'[p]>>}
  /\ spc' = [spc EXCEPT ![p] = "null"]
Swaps(p) == PushSwap(p) /\ UNCHANGED <<spc, nulls>>
Joins(p) ==
  /\ PushLink(p)
  /\ spc' = [spc EXCEPT ![p] = IF @ = "push" THEN "signal" ELSE "idle"] /\ UNCHANGED nulls
Signals(p) ==
  /\ spc[p] = "signal" /\ spc' = [spc EXCEPT ![p] = "idle"]
  /\ UNCHANGED <<vars, nulls>>

Sends(p) == Asks(p) \/ AsksNull(p) \/ Swaps(p) \/ Joins(p) \/ Signals(p)
Rests == UNCHANGED <<ppc, count, spc, nulls>>

\* Where a sender is, and whose the null nodes are.
Sent ==
  /\ spc \in [Producers -> {"idle", "push", "signal", "null"}]
  /\ \A p \in Producers : ppc[p] # "idle" <=> spc[p] \in {"push", "null"}
  /\ IsFiniteSet(nulls)
  /\ \A m \in nulls : \E p \in Producers : \E k \in 1 .. count[p] : m = <<p, k>>
  /\ \A p \in Producers : spc[p] = "null" => <<p, count[p]>> \in nulls

\* Who has yet to signal, and the null nodes whose push is over.
Signalling == {p \in Producers : spc[p] = "signal"}
Stray == {m \in nulls : \A p \in Producers : ~(spc[p] = "null" /\ m = <<p, count[p]>>)}

LEMMA CountFacts ==
  ASSUME IInv
  PROVE  /\ \A p \in Producers : count[p] \in Nat
         /\ deq \in Nat /\ Len(log) \in Nat /\ log \in Seq(Messages)
  BY QueueAssumption, ElementFacts DEF IInv, TypeOK

\* What a push counts.
LEMMA BeginCounts ==
  ASSUME IInv, NEW p \in Producers, PushBegin(p)
  PROVE  /\ \A q \in Producers : count'[q] = IF q = p THEN count[p] + 1 ELSE count[q]
         /\ \A q \in Producers : ppc'[q] = IF q = p THEN "swap" ELSE ppc[q]
         /\ UNCHANGED <<log, deq, cpc, h>>
         /\ cpc = "got" => body'[h] = body[h]
  BY DEF PushBegin, IInv, TypeOK, Chain, Owners, consumer, history

LEMMA SentKeeps ==
  ASSUME IInv, Sent, Rests \/ \E p \in Producers : Sends(p)
  PROVE  Sent'
<1>1. CASE Rests
  BY <1>1 DEF Rests, Sent
<1>2. ASSUME NEW p \in Producers, Asks(p) PROVE Sent'
  <2>1. /\ \A q \in Producers : count'[q] = IF q = p THEN count[p] + 1 ELSE count[q]
        /\ \A q \in Producers : ppc'[q] = IF q = p THEN "swap" ELSE ppc[q]
        /\ nulls' = nulls /\ \A q \in Producers : count[q] \in Nat
        /\ spc' = [spc EXCEPT ![p] = "push"]
    BY <1>2, BeginCounts, CountFacts DEF Asks
  <2> QED
    BY <2>1 DEF Sent
<1>3. ASSUME NEW p \in Producers, AsksNull(p) PROVE Sent'
  <2>1. /\ \A q \in Producers : count'[q] = IF q = p THEN count[p] + 1 ELSE count[q]
        /\ \A q \in Producers : ppc'[q] = IF q = p THEN "swap" ELSE ppc[q]
        /\ nulls' = nulls \union {<<p, count'[p]>>} /\ \A q \in Producers : count[q] \in Nat
        /\ spc' = [spc EXCEPT ![p] = "null"]
    BY <1>3, BeginCounts, CountFacts DEF AsksNull
  <2>2. IsFiniteSet(nulls')
    BY <2>1, FS_AddElement DEF Sent
  <2>3. count'[p] \in 1 .. count'[p]
    BY <2>1
  <2>4. \A m \in nulls : \E q \in Producers : \E k \in 1 .. count'[q] : m = <<q, k>>
    <3>1. \A q \in Producers : \A k \in 1 .. count[q] : k \in 1 .. count'[q]
      BY <2>1
    <3> QED
      BY <3>1 DEF Sent
  <2> QED
    BY <2>1, <2>2, <2>3, <2>4 DEF Sent
<1>4. ASSUME NEW p \in Producers, Swaps(p) PROVE Sent'
  <2>1. UNCHANGED <<spc, nulls, count>> /\ ppc[p] = "swap" /\ ppc' = [ppc EXCEPT ![p] = "link"]
    BY <1>4 DEF Swaps, PushSwap
  <2> QED
    BY <2>1 DEF Sent, IInv, TypeOK
<1>5. ASSUME NEW p \in Producers, Joins(p) PROVE Sent'
  <2>1. /\ UNCHANGED <<nulls, count>> /\ ppc[p] = "link" /\ ppc' = [ppc EXCEPT ![p] = "idle"]
        /\ spc' = [spc EXCEPT ![p] = IF @ = "push" THEN "signal" ELSE "idle"]
    BY <1>5 DEF Joins, PushLink
  <2> QED
    BY <2>1 DEF Sent, IInv, TypeOK
<1>6. ASSUME NEW p \in Producers, Signals(p) PROVE Sent'
  <2>1. /\ UNCHANGED <<nulls, count, ppc>>
        /\ spc[p] = "signal" /\ spc' = [spc EXCEPT ![p] = "idle"]
    BY <1>6 DEF Signals, vars, producer
  <2> QED
    BY <2>1 DEF Sent
<1> QED
  BY <1>1, <1>2, <1>3, <1>4, <1>5, <1>6 DEF Sends

\* Who has displaced the tail and has yet to link.
Linkers == {p \in Producers : Linking(p)}

\* What a sender's step does to these sets.
LEMMA AskEffect ==
  ASSUME IInv, Sent, NEW p \in Producers, Asks(p) \/ AsksNull(p)
  PROVE  UNCHANGED <<Arrived, Linkers, Signalling, Stray, log, deq>>
<1>1. /\ \A q \in Producers : count'[q] = IF q = p THEN count[p] + 1 ELSE count[q]
      /\ \A q \in Producers : ppc'[q] = IF q = p THEN "swap" ELSE ppc[q]
      /\ UNCHANGED <<log, deq>> /\ \A q \in Producers : count[q] \in Nat
  BY BeginCounts, CountFacts DEF Asks, AsksNull
<1>2. /\ spc[p] = "idle" /\ ppc[p] = "idle"
      /\ \E s \in {"push", "null"} : spc' = [spc EXCEPT ![p] = s]
  BY DEF Asks, AsksNull, PushBegin
<1>3. UNCHANGED Arrived
  BY PushEffect DEF Asks, AsksNull
<1>4. UNCHANGED Linkers
  BY <1>1, <1>2 DEF Linkers, Linking
<1>5. UNCHANGED Signalling
  BY <1>2 DEF Signalling, Sent
<1>6. UNCHANGED Stray
  <2>1. \A m \in nulls : \A k : m = <<p, k>> => k # count'[p]
    BY <1>1 DEF Sent
  <2>2. CASE Asks(p)
    BY <1>1, <1>2, <2>2 DEF Asks, Stray, Sent
  <2>3. CASE AsksNull(p)
    <3>1. nulls' = nulls \union {<<p, count'[p]>>} /\ spc' = [spc EXCEPT ![p] = "null"]
      BY <2>3 DEF AsksNull
    <3>2. spc'[p] = "null" /\ \A q \in Producers : q # p => spc'[q] = spc[q]
      BY <3>1 DEF Sent
    <3>3. \A m \in nulls : (\A q \in Producers : ~(spc'[q] = "null" /\ m = <<q, count'[q]>>))
                            <=> (\A q \in Producers : ~(spc[q] = "null" /\ m = <<q, count[q]>>))
      BY <1>1, <1>2, <2>1, <3>2
    <3> QED
      BY <3>1, <3>2, <3>3 DEF Stray
  <2> QED
    BY <2>2, <2>3
<1> QED
  BY <1>1, <1>3, <1>4, <1>5, <1>6

LEMMA SwapEffect ==
  ASSUME IInv, Sent, NEW p \in Producers, Swaps(p)
  PROVE  /\ UNCHANGED <<Arrived, Signalling, Stray, deq>>
         /\ p \notin Linkers /\ Linkers' = Linkers \union {p}
         /\ Len(log') = Len(log) + 1 /\ \A i \in 1 .. Len(log) : log'[i] = log[i]
<1>1. /\ UNCHANGED <<spc, nulls, count, deq>> /\ ppc[p] = "swap"
      /\ ppc' = [ppc EXCEPT ![p] = "link"] /\ log' = Append(log, body[mine[p]])
  BY DEF Swaps, PushSwap
<1>2. p \notin Linkers /\ Linkers' = Linkers \union {p}
  BY <1>1 DEF Linkers, Linking, IInv, TypeOK
<1>3. UNCHANGED <<Signalling, Stray>>
  BY <1>1 DEF Signalling, Stray
<1>4. body[mine[p]] \in Messages
  BY <1>1 DEF IInv, Chain, Owners, Before
<1>5. UNCHANGED Arrived
  BY PushEffect DEF Swaps
<1>6. Len(log') = Len(log) + 1 /\ \A i \in 1 .. Len(log) : log'[i] = log[i]
  BY <1>1, <1>4, CountFacts, AppendFacts
<1> QED
  BY <1>1, <1>2, <1>3, <1>5, <1>6

LEMMA JoinEffect ==
  ASSUME IInv, Sent, NEW p \in Producers, Joins(p)
  PROVE  /\ p \in Linkers /\ Linkers' = Linkers \ {p}
         /\ mine[p] \notin Arrived /\ Arrived' = Arrived \union {mine[p]}
         /\ \/ /\ p \notin Signalling /\ Signalling' = Signalling \union {p}
               /\ UNCHANGED Stray
            \/ /\ <<p, count[p]>> \notin Stray /\ Stray' = Stray \union {<<p, count[p]>>}
               /\ UNCHANGED Signalling
         /\ UNCHANGED <<log, deq>>
<1>1. /\ UNCHANGED <<nulls, count, log, deq>> /\ ppc[p] = "link"
      /\ ppc' = [ppc EXCEPT ![p] = "idle"]
      /\ spc' = [spc EXCEPT ![p] = IF @ = "push" THEN "signal" ELSE "idle"]
  BY DEF Joins, PushLink, history
<1>2. p \in Linkers /\ Linkers' = Linkers \ {p}
  BY <1>1 DEF Linkers, Linking, IInv, TypeOK
<1>3. mine[p] \notin Arrived /\ Arrived' = Arrived \union {mine[p]}
  BY PushEffect DEF Joins
<1>4. spc[p] \in {"push", "null"}
  BY <1>1 DEF Sent
<1>5. ASSUME spc[p] = "push"
      PROVE  p \notin Signalling /\ Signalling' = Signalling \union {p} /\ UNCHANGED Stray
  <2>1. spc'[p] = "signal" /\ \A q \in Producers : q # p => spc'[q] = spc[q]
    BY <1>1, <1>5 DEF Sent
  <2> QED
    BY <1>1, <1>5, <2>1 DEF Signalling, Stray
<1>6. ASSUME spc[p] = "null"
      PROVE  /\ <<p, count[p]>> \notin Stray /\ Stray' = Stray \union {<<p, count[p]>>}
             /\ UNCHANGED Signalling
  <2>1. spc'[p] = "idle" /\ \A q \in Producers : q # p => spc'[q] = spc[q]
    BY <1>1, <1>6 DEF Sent
  <2>2. <<p, count[p]>> \in nulls
    BY <1>6 DEF Sent
  <2>3. <<p, count[p]>> \notin Stray
    BY <1>6 DEF Stray
  <2>4. \A m : (\A q \in Producers : ~(spc'[q] = "null" /\ m = <<q, count[q]>>))
               <=> \/ m = <<p, count[p]>>
                   \/ \A q \in Producers : ~(spc[q] = "null" /\ m = <<q, count[q]>>)
    BY <1>6, <2>1
  <2>5. Stray' = Stray \union {<<p, count[p]>>}
    BY <1>1, <2>2, <2>4 DEF Stray
  <2> QED
    BY <1>6, <2>1, <2>3, <2>5 DEF Signalling
<1> QED
  BY <1>1, <1>2, <1>3, <1>4, <1>5, <1>6

LEMMA SignalEffect ==
  ASSUME IInv, Sent, NEW p \in Producers, Signals(p)
  PROVE  /\ p \in Signalling /\ Signalling' = Signalling \ {p}
         /\ UNCHANGED <<Arrived, Linkers, Stray, log, deq>>
<1>1. /\ spc[p] = "signal" /\ spc' = [spc EXCEPT ![p] = "idle"]
      /\ UNCHANGED <<nulls, count, ppc, log, deq, order, mine>>
  BY DEF Signals, vars, producer, history
<1>2. p \in Signalling /\ Signalling' = Signalling \ {p}
  BY <1>1 DEF Signalling, Sent
<1>3. UNCHANGED Stray
  BY <1>1 DEF Stray, Sent
<1>4. UNCHANGED <<Arrived, Linkers>>
  BY <1>1 DEF Arrived, Linkers, Linking, InQueue
<1> QED
  BY <1>1, <1>2, <1>3, <1>4

-----------------------------------------------------------------------------
(* Counting the nodes, the signals and the null nodes *)

Finite ==
  /\ IsFiniteSet(Arrived) /\ IsFiniteSet(Linkers)
  /\ IsFiniteSet(Signalling) /\ IsFiniteSet(Stray)

\* A message of the queue is in a node that has arrived or in one to be linked.
Balanced == Cardinality(Arrived) + Cardinality(Linkers) = Len(log) - deq

\* The nodes that somebody was told of, as far as the queue still has them.
Due == Cardinality(Arrived) - Cardinality(Signalling) - Cardinality(Stray)

LEMMA SizeFacts ==
  ASSUME NEW S, IsFiniteSet(S)
  PROVE  /\ Cardinality(S) \in Nat
         /\ \A x : x \notin S => IsFiniteSet(S \union {x})
                                 /\ Cardinality(S \union {x}) = Cardinality(S) + 1
         /\ \A x \in S : IsFiniteSet(S \ {x}) /\ Cardinality(S \ {x}) = Cardinality(S) - 1
  BY FS_CardinalityType, FS_AddElement, FS_RemoveElement

LEMMA SenderCounts ==
  ASSUME IInv, Sent, Finite, Balanced, NEW p \in Producers, Sends(p)
  PROVE  /\ Finite' /\ Balanced'
         /\ ~Signals(p) => Due' = Due
         /\ Signals(p) => Due' = Due + 1
<1>1. /\ Cardinality(Arrived) \in Nat /\ Cardinality(Linkers) \in Nat
      /\ Cardinality(Signalling) \in Nat /\ Cardinality(Stray) \in Nat
      /\ Len(log) \in Nat /\ deq \in Nat
  BY SizeFacts, CountFacts DEF Finite
<1>2. CASE Asks(p) \/ AsksNull(p)
  <2>1. UNCHANGED <<Arrived, Linkers, Signalling, Stray, log, deq>>
    BY <1>2, AskEffect
  <2>2. ~Signals(p)
    BY <1>2 DEF Signals, Asks, AsksNull
  <2> QED
    BY <2>1, <2>2 DEF Finite, Balanced, Due
<1>3. CASE Swaps(p)
  <2>1. /\ UNCHANGED <<Arrived, Signalling, Stray, deq>>
        /\ p \notin Linkers /\ Linkers' = Linkers \union {p} /\ Len(log') = Len(log) + 1
    BY ONLY <1>3, SwapEffect, IInv, Sent, p \in Producers
  <2>2. IsFiniteSet(Linkers') /\ Cardinality(Linkers') = Cardinality(Linkers) + 1
    BY <2>1, SizeFacts DEF Finite
  <2>3. ~Signals(p)
    BY <2>1 DEF Signals, vars, producer, Linkers, Linking
  <2> QED
    BY <1>1, <2>1, <2>2, <2>3 DEF Finite, Balanced, Due
<1>4. CASE Joins(p)
  <2>1. /\ p \in Linkers /\ Linkers' = Linkers \ {p} /\ UNCHANGED <<log, deq>>
        /\ mine[p] \notin Arrived /\ Arrived' = Arrived \union {mine[p]}
        /\ \/ /\ p \notin Signalling /\ Signalling' = Signalling \union {p}
              /\ UNCHANGED Stray
           \/ /\ <<p, count[p]>> \notin Stray /\ Stray' = Stray \union {<<p, count[p]>>}
              /\ UNCHANGED Signalling
    BY <1>4, JoinEffect
  <2>2. /\ IsFiniteSet(Linkers') /\ Cardinality(Linkers') = Cardinality(Linkers) - 1
        /\ IsFiniteSet(Arrived') /\ Cardinality(Arrived') = Cardinality(Arrived) + 1
    BY <2>1, SizeFacts DEF Finite
  <2>3. /\ IsFiniteSet(Signalling') /\ IsFiniteSet(Stray')
        /\ \/ Cardinality(Signalling') = Cardinality(Signalling) + 1 /\ Stray' = Stray
           \/ Cardinality(Stray') = Cardinality(Stray) + 1 /\ Signalling' = Signalling
    BY <2>1, SizeFacts DEF Finite
  <2>4. ~Signals(p)
    BY <1>4 DEF Signals, Joins, PushLink, Sent
  <2>5. UNCHANGED <<log, deq>>
    BY <2>1
  <2>6. Finite'
    BY ONLY <2>2, <2>3 DEF Finite
  <2>7. Balanced'
    BY ONLY Balanced, <1>1, <2>2, <2>5 DEF Balanced
  <2>8. Due' = Due
    BY ONLY <1>1, <2>2, <2>3 DEF Due
  <2> QED
    BY <2>4, <2>6, <2>7, <2>8
<1>5. CASE Signals(p)
  <2>1. /\ p \in Signalling /\ Signalling' = Signalling \ {p}
        /\ UNCHANGED <<Arrived, Linkers, Stray, log, deq>>
    BY <1>5, SignalEffect
  <2>2. IsFiniteSet(Signalling') /\ Cardinality(Signalling') = Cardinality(Signalling) - 1
    BY <2>1, SizeFacts DEF Finite
  <2> QED
    BY <1>1, <1>5, <2>1, <2>2 DEF Finite, Balanced, Due
<1> QED
  BY <1>2, <1>3, <1>4, <1>5 DEF Sends

\* What the consumer's steps do to the same numbers.
LEMMA ConsumerCounts ==
  ASSUME IInv, Finite, Balanced, Rests, Keeps \/ Takes
  PROVE  /\ Finite' /\ Balanced'
         /\ Keeps => Due' = Due
         /\ Takes => Due' = Due - 1
<1>1. /\ Cardinality(Arrived) \in Nat /\ Cardinality(Linkers) \in Nat
      /\ Cardinality(Signalling) \in Nat /\ Cardinality(Stray) \in Nat
      /\ Len(log) \in Nat /\ deq \in Nat
  BY SizeFacts, CountFacts DEF Finite
<1>2. UNCHANGED <<Linkers, Signalling, Stray>>
  BY DEF Rests, Linkers, Linking, Signalling, Stray
<1>3. CASE Keeps
  <2>1. UNCHANGED <<Arrived, log, deq>> /\ ~Takes
    BY <1>1, <1>3 DEF Keeps, Takes
  <2> QED
    BY <1>2, <2>1 DEF Finite, Balanced, Due
<1>4. CASE Takes
  <2>1. h' \in Arrived /\ Arrived' = Arrived \ {h'} /\ deq' = deq + 1 /\ log' = log
    BY <1>4 DEF Takes
  <2>2. IsFiniteSet(Arrived') /\ Cardinality(Arrived') = Cardinality(Arrived) - 1
    BY <2>1, SizeFacts DEF Finite
  <2>3. ~Keeps
    BY <1>1, <2>1 DEF Keeps
  <2>4. Finite'
    BY ONLY Finite, <1>2, <2>2 DEF Finite
  <2>5. Balanced'
    BY ONLY Balanced, <1>1, <1>2, <2>1, <2>2 DEF Balanced
  <2>6. Due' = Due - 1
    BY ONLY <1>1, <1>2, <2>2 DEF Due
  <2> QED
    BY <1>4, <2>3, <2>4, <2>5, <2>6
<1> QED
  BY <1>3, <1>4

\* A sender's step leaves alone what was done and the message in hand.
LEMMA SenderOrder ==
  ASSUME IInv, Told, NEW done, InOrder(done, log, nulls, deq), NEW p \in Producers, Sends(p)
  PROVE  /\ InOrder(done, log', nulls', deq') /\ UNCHANGED <<cpc, h, deq>>
         /\ cpc = "got" => body'[h] = body[h] /\ (body[h] \in nulls' <=> body[h] \in nulls)
<1>1. deq \in Nat /\ Len(log) \in Nat /\ deq <= Len(log) /\ \A q \in Producers : count[q] \in Nat
  BY CountFacts DEF Told
<1>2. UNCHANGED <<cpc, h, deq>> /\ (cpc = "got" => body'[h] = body[h])
  <2>1. CASE Asks(p) \/ AsksNull(p)
    BY <2>1, BeginCounts DEF Asks, AsksNull
  <2>2. CASE Swaps(p)
    BY <2>2 DEF Swaps, PushSwap, consumer
  <2>3. CASE Joins(p)
    BY <2>3 DEF Joins, PushLink, consumer, history
  <2>4. CASE Signals(p)
    BY <2>4 DEF Signals, vars, memory, consumer, history
  <2> QED
    BY <2>1, <2>2, <2>3, <2>4 DEF Sends
<1>3. \A i \in 1 .. Len(log) : log'[i] = log[i]
  <2>1. CASE Asks(p) \/ AsksNull(p)
    BY <2>1, BeginCounts DEF Asks, AsksNull
  <2>2. CASE Swaps(p)
    <3>1. log' = Append(log, body[mine[p]]) /\ body[mine[p]] \in Messages
      BY <2>2 DEF Swaps, PushSwap, IInv, Chain, Owners, Before
    <3> QED
      BY <3>1, CountFacts, AppendFacts
  <2>3. CASE Joins(p)
    BY <2>3 DEF Joins, PushLink, history
  <2>4. CASE Signals(p)
    BY <2>4 DEF Signals, vars, history
  <2> QED
    BY <2>1, <2>2, <2>3, <2>4 DEF Sends
<1>4. \A i \in 1 .. Len(log) : log[i] \in nulls' <=> log[i] \in nulls
  <2>1. CASE AsksNull(p)
    <3>1. nulls' = nulls \union {<<p, count'[p]>>} /\ count'[p] = count[p] + 1
      BY <2>1, BeginCounts DEF AsksNull
    <3>2. \A i \in 1 .. Len(log) : log[i] # <<p, count'[p]>>
      <4>1. ASSUME NEW i \in 1 .. Len(log) PROVE log[i] # <<p, count'[p]>>
        <5>1. PICK q \in Producers : \E k \in 1 .. count[q] : log[i] = <<q, k>>
          BY DEF Told, Entered
        <5> QED
          BY <1>1, <3>1, <5>1
      <4> QED
        BY <4>1
    <3> QED
      BY <3>1, <3>2
  <2>2. CASE ~AsksNull(p)
    BY <2>2 DEF Sends, Asks, Swaps, Joins, Signals
  <2> QED
    BY <2>1, <2>2
<1>5. \A j \in 1 .. deq : log'[j] = log[j] /\ (log[j] \in nulls <=> log[j] \in nulls')
  BY <1>1, <1>3, <1>4
<1>6. InOrder(done, log', nulls', deq)
  BY ONLY <1>1, <1>5, InOrderSame, InOrder(done, log, nulls, deq)
<1>7. cpc = "got" => (body[h] \in nulls' <=> body[h] \in nulls)
  BY <1>1, <1>4 DEF Told
<1> QED
  BY <1>2, <1>6, <1>7

-----------------------------------------------------------------------------
(* The receiver of commands on a signaler *)

\* Who receives has taken some signals, and takes as many nodes.
Receiving ==
  /\ counter \in Nat /\ times \in Nat
  /\ rpc = "poll" => times = 0 /\ cpc = "idle"
  /\ rpc = "receive" => times >= 1
  /\ rpc \in {"poll", "receive"}
Took == IF cpc = "got" THEN 1 ELSE 0
Covered == Due + Took = counter + times

Waits == rpc = "receive" /\ cpc = "null" => overlap

Executed ==
  /\ executed \in Seq(Messages)
  /\ InOrder(Signaled!Done, log, nulls, deq)

SignaledInv ==
  /\ IInv /\ Told /\ Sent /\ Finite /\ Balanced
  /\ Receiving /\ Covered /\ Waits /\ Executed

\* The senders of the model are the senders above.
LEMMA SignaledSender ==
  ASSUME Sent, NEW p \in Producers,
         \/ Signaled!Send(p) \/ Signaled!NullMsg(p) \/ Signaled!Swap(p) \/ Signaled!Link(p)
         \/ Signaled!Signal(p)
  PROVE  /\ Sends(p) /\ UNCHANGED <<times, rpc, executed>>
         /\ ~Signals(p) => counter' = counter
         /\ Signals(p) => counter' = counter + 1
<1>1. CASE Signaled!Send(p)
  BY <1>1 DEF Signaled!Send, Sends, Asks, Signals, Signaled!Queue!PushBegin, PushBegin,
              Signaled!Queue!consumer, Signaled!Queue!history, consumer, history
<1>2. CASE Signaled!NullMsg(p)
  BY <1>2 DEF Signaled!NullMsg, Sends, AsksNull, Signals, Signaled!Queue!PushBegin, PushBegin,
              Signaled!Queue!consumer, Signaled!Queue!history, consumer, history
<1>3. CASE Signaled!Swap(p)
  BY <1>3 DEF Signaled!Swap, Sends, Swaps, Signals, Sent, Signaled!Queue!PushSwap, PushSwap,
              Signaled!Queue!Popping, Popping, Signaled!Queue!consumer, consumer
<1>4. CASE Signaled!Link(p)
  BY <1>4 DEF Signaled!Link, Sends, Joins, Signals, Sent, Signaled!Queue!PushLink, PushLink,
              Signaled!Queue!consumer, consumer, Signaled!Queue!history, history
<1>5. CASE Signaled!Signal(p)
  BY <1>5 DEF Signaled!Signal, Sends, Signals, Signaled!queue, vars, memory, producer,
              consumer, history
<1> QED
  BY <1>1, <1>2, <1>3, <1>4, <1>5

\* The receiver's calls of pop are those of the queue.
LEMMA SignaledPop ==
  ASSUME Signaled!Pop
  PROVE  /\ PopStart \/ PopSecond \/ PopTail \/ PopRestub \/ PopRelink \/ PopLast
         /\ rpc = "receive" /\ UNCHANGED <<spc, nulls, executed, counter, times, rpc>>
  BY DEF Signaled!Pop, Signaled!Queue!PopStart, Signaled!Queue!PopSecond, Signaled!Queue!PopTail,
         Signaled!Queue!PopRestub, Signaled!Queue!PopRelink, Signaled!Queue!PopLast,
         Signaled!Queue!Return, Signaled!Queue!ReturnNull, Signaled!Queue!producer,
         Signaled!Queue!history, Signaled!Queue!Linking,
         PopStart, PopSecond, PopTail, PopRestub, PopRelink, PopLast, Return, ReturnNull,
         producer, history, Linking

\* A sender's step is a step of the queue.
LEMMA SendsQueue ==
  ASSUME NEW p \in Producers, Sends(p)
  PROVE  [Next]_vars
  BY DEF Sends, Asks, AsksNull, Swaps, Joins, Signals, Next

\* Concatenation with at most one element.
LEMMA ConcatFacts ==
  ASSUME NEW S, NEW s \in Seq(S)
  PROVE  s \o <<>> = s /\ \A e \in S : s \o <<e>> = Append(s, e) /\ Append(s, e) \in Seq(S)
  OBVIOUS

\* The message that pop returned is one of the log.
LEMMA HandFacts ==
  ASSUME IInv, Told
  PROVE  cpc = "got" => body[h] \in Messages /\ deq \in 1 .. Len(log) /\ body[h] = log[deq]
  BY CountFacts, ElementFacts DEF Told

\* Taking a node, and being done with it, do what was received next.
LEMMA TakeDone ==
  ASSUME IInv, Told, NEW done \in Seq(Messages), InOrder(done, log, nulls, deq),
         nulls' = nulls, Takes
  PROVE  InOrder(done \o (IF body'[h'] \in nulls THEN <<>> ELSE <<body'[h']>>), log', nulls', deq')
<1>1. /\ deq \in Nat /\ deq < Len(log) /\ deq' = deq + 1 /\ body[h'] = log[deq + 1]
      /\ body' = body /\ log' = log
  BY CountFacts DEF Takes
<1>2. log[deq + 1] \in Messages
  BY <1>1, CountFacts, ElementFacts
<1> DEFINE more == done \o (IF body'[h'] \in nulls THEN <<>> ELSE <<body'[h']>>)
<1>3. more \in Seq(Messages)
      /\ IF log[deq + 1] \in nulls THEN more = done
         ELSE log[deq + 1] \in Messages /\ more = Append(done, log[deq + 1])
  BY <1>1, <1>2, ConcatFacts
<1> HIDE DEF more
<1>4. InOrder(more, log, nulls, deq + 1)
  BY ONLY <1>1, <1>3, InOrderTake, InOrder(done, log, nulls, deq), done \in Seq(Messages)
<1> QED
  BY <1>1, <1>4 DEF more

LEMMA SignaledSenderKeeps ==
  ASSUME SignaledInv, NEW p \in Producers,
         \/ Signaled!Send(p) \/ Signaled!NullMsg(p) \/ Signaled!Swap(p) \/ Signaled!Link(p)
         \/ Signaled!Signal(p)
  PROVE  SignaledInv'
<1>1. /\ Sends(p) /\ UNCHANGED <<times, rpc, executed>>
      /\ ~Signals(p) => counter' = counter
      /\ Signals(p) => counter' = counter + 1
  BY SignaledSender DEF SignaledInv
<1>2. IInv' /\ Told' /\ Sent'
  BY <1>1, SendsQueue, StepKeeps, ToldKeeps, SentKeeps DEF SignaledInv
<1>3. /\ Finite' /\ Balanced' /\ (~Signals(p) => Due' = Due) /\ (Signals(p) => Due' = Due + 1)
  BY <1>1, SenderCounts DEF SignaledInv
<1>4. /\ InOrder(Signaled!Done, log', nulls', deq') /\ UNCHANGED <<cpc, h, deq>>
      /\ cpc = "got" => body'[h] = body[h] /\ (body[h] \in nulls' <=> body[h] \in nulls)
  BY <1>1, SenderOrder DEF SignaledInv, Executed
<1>5. Receiving'
  BY <1>1, <1>4 DEF SignaledInv, Receiving
<1>6. Due \in Int
  BY SizeFacts DEF SignaledInv, Finite, Due
<1>7. Covered'
  BY <1>1, <1>3, <1>4, <1>6 DEF SignaledInv, Covered, Took, Receiving
<1>8. Signaled!Done' = Signaled!Done
  BY <1>1, <1>4 DEF Signaled!Done, Signaled!InHand
<1>9. Executed'
  BY <1>1, <1>4, <1>8 DEF SignaledInv, Executed
<1>10. Waits'
  <2>1. overlap => overlap'
    BY <1>1 DEF Sends, Asks, AsksNull, Swaps, Joins, Signals, PushBegin, PushSwap, PushLink,
                vars, history
  <2> QED
    BY <1>1, <1>4, <2>1 DEF SignaledInv, Waits
<1> QED
  BY <1>2, <1>3, <1>5, <1>7, <1>9, <1>10 DEF SignaledInv

LEMMA SignaledReadKeeps ==
  ASSUME SignaledInv, Signaled!Read
  PROVE  SignaledInv'
<1>1. /\ rpc = "poll" /\ counter > 0 /\ times' = counter /\ counter' = 0 /\ rpc' = "receive"
      /\ UNCHANGED <<vars, spc, nulls, executed>>
  BY DEF Signaled!Read, Signaled!queue, vars, memory, producer, consumer, history
<1>2. UNCHANGED <<body, ppc, mine, count, cpc, h, order, log, deq>>
  BY <1>1 DEF vars, memory, producer, consumer, history
<1>3. IInv' /\ Told' /\ Sent'
  BY <1>1, <1>2, StepKeeps, ToldKeeps, SentKeeps DEF SignaledInv, Rests
<1>4. Keeps /\ Rests
  BY <1>1, <1>2 DEF Keeps, Rests, Arrived, InQueue, Linking
<1>5. Finite' /\ Balanced' /\ Due' = Due
  BY <1>4, ConsumerCounts DEF SignaledInv
<1>6. Receiving' /\ Covered'
  BY <1>1, <1>2, <1>5 DEF SignaledInv, Receiving, Covered, Took
<1>7. Executed'
  BY <1>1, <1>2 DEF SignaledInv, Executed, Signaled!Done, Signaled!InHand
<1>8. Waits'
  BY <1>1, <1>2 DEF SignaledInv, Receiving, Waits
<1> QED
  BY <1>3, <1>5, <1>6, <1>7, <1>8 DEF SignaledInv

LEMMA SignaledPopKeeps ==
  ASSUME SignaledInv, Signaled!Pop
  PROVE  SignaledInv'
<1>1. /\ PopStart \/ PopSecond \/ PopTail \/ PopRestub \/ PopRelink \/ PopLast
      /\ rpc = "receive" /\ UNCHANGED <<spc, nulls, executed, counter, times, rpc>>
  BY SignaledPop
<1>2. /\ cpc # "got" /\ (cpc' = "got" => Takes) /\ (cpc' # "got" => Keeps)
      /\ UNCHANGED <<body, ppc, mine, count>>
  BY <1>1, PopEffect DEF SignaledInv
<1>3. [Next]_vars /\ Rests
  BY <1>1, <1>2 DEF Next, PopStep, Rests
<1>4. IInv' /\ Told' /\ Sent'
  BY <1>3, StepKeeps, ToldKeeps, SentKeeps DEF SignaledInv
<1>5. Finite' /\ Balanced' /\ (Keeps => Due' = Due) /\ (Takes => Due' = Due - 1)
  BY <1>2, <1>3, ConsumerCounts DEF SignaledInv
<1>6. Receiving'
  BY <1>1 DEF SignaledInv, Receiving
<1>7. Due \in Int
  BY SizeFacts DEF SignaledInv, Finite, Due
<1>8. Covered'
  BY <1>1, <1>2, <1>5, <1>7 DEF SignaledInv, Covered, Took, Receiving
<1>w. Waits'
  <2> SUFFICES ASSUME cpc' = "null", ~overlap' PROVE FALSE
    BY DEF Waits
  <2>1. cpc # "null"
    BY <1>1 DEF PopStart, PopSecond, PopTail, PopRestub, PopRelink, PopLast
  <2>2. deq' = Len(log')
    BY <1>3, <2>1, StepHonest DEF SignaledInv
  <2>3. /\ Cardinality(Arrived)' \in Nat /\ Cardinality(Linkers)' \in Nat
        /\ Cardinality(Signalling)' \in Nat /\ Cardinality(Stray)' \in Nat
    BY <1>5, SizeFacts DEF Finite
  <2>4. Len(log') \in Nat
    BY <1>4 DEF IInv, TypeOK
  <2>5. Cardinality(Arrived)' + Cardinality(Linkers)' = 0
    BY <1>5, <2>2, <2>4 DEF Balanced
  <2>6. PICK c \in Nat, n \in Nat : counter' = c /\ times' = n /\ n >= 1
    BY <1>1, <1>6, Zenon DEF Receiving
  <2>7. Took' = 0
    BY DEF Took
  <2>8. Due' + 0 = c + n
    BY <1>8, <2>6, <2>7, Zenon DEF Covered
  <2>9. n >= 1
    BY <2>6, Zenon
  <2> QED
    BY ONLY <2>3, <2>5, <2>8, <2>9 DEF Due
<1>9. executed \in Seq(Messages) /\ InOrder(executed, log, nulls, deq)
  BY <1>2, ConcatFacts DEF SignaledInv, Executed, Signaled!Done, Signaled!InHand
<1>10. CASE cpc' = "got"
  <2>1. InOrder(executed \o (IF body'[h'] \in nulls THEN <<>> ELSE <<body'[h']>>),
                log', nulls', deq')
    BY <1>1, <1>2, <1>9, <1>10, TakeDone DEF SignaledInv
  <2>2. Signaled!Done' = executed \o (IF body'[h'] \in nulls THEN <<>> ELSE <<body'[h']>>)
    BY <1>1, <1>10 DEF Signaled!Done, Signaled!InHand
  <2>3. Executed'
    BY <1>1, <1>9, <2>1, <2>2 DEF Executed
  <2> QED
    BY <1>4, <1>5, <1>6, <1>8, <1>w, <2>3 DEF SignaledInv
<1>11. CASE cpc' # "got"
  <2>1. UNCHANGED <<log, deq>>
    BY <1>2, <1>11 DEF Keeps
  <2>2. Signaled!Done' = executed
    BY <1>1, <1>9, <1>11, ConcatFacts DEF Signaled!Done, Signaled!InHand
  <2>3. Executed'
    BY <1>1, <1>9, <2>1, <2>2 DEF Executed
  <2> QED
    BY <1>4, <1>5, <1>6, <1>8, <1>w, <2>3 DEF SignaledInv
<1> QED
  BY <1>10, <1>11

LEMMA SignaledCallerKeeps ==
  ASSUME SignaledInv, Signaled!Spin \/ Signaled!Receive
  PROVE  SignaledInv'
<1>1. /\ rpc = "receive" /\ UNCHANGED <<spc, nulls, counter>>
      /\ \/ /\ cpc = "null" /\ Retry /\ UNCHANGED <<executed, times, rpc>>
         \/ /\ cpc = "got" /\ Consume /\ times' = times - 1
            /\ rpc' = IF times > 1 THEN "receive" ELSE "poll"
            /\ executed' = IF body[h] \in nulls THEN executed ELSE Append(executed, body[h])
  BY DEF Signaled!Spin, Signaled!Receive, Signaled!Queue!Retry, Signaled!Queue!Consume,
         Signaled!Queue!memory, Signaled!Queue!producer, Signaled!Queue!history,
         Retry, Consume, memory, producer, history
<1>2. Keeps /\ UNCHANGED <<body, ppc, mine, count>> /\ cpc' = "idle"
  BY <1>1, CallerEffect DEF SignaledInv
<1>3. [Next]_vars /\ Rests
  BY <1>1, <1>2 DEF Next, PopStep, Rests
<1>4. IInv' /\ Told' /\ Sent'
  BY <1>3, StepKeeps, ToldKeeps, SentKeeps DEF SignaledInv
<1>5. Finite' /\ Balanced' /\ Due' = Due
  BY <1>2, <1>3, ConsumerCounts DEF SignaledInv
<1>6. Receiving'
  BY <1>1, <1>2 DEF SignaledInv, Receiving
<1>7. Due \in Int
  BY SizeFacts DEF SignaledInv, Finite, Due
<1>8. Covered'
  BY <1>1, <1>2, <1>5, <1>7 DEF SignaledInv, Covered, Took, Receiving
<1>9. executed' \in Seq(Messages) /\ executed' = Signaled!Done
  <2>1. executed \in Seq(Messages) /\ (cpc = "got" => body[h] \in Messages)
    BY HandFacts DEF SignaledInv, Executed
  <2> QED
    BY <1>1, <2>1, ConcatFacts DEF Signaled!Done, Signaled!InHand
<1>10. Signaled!Done' = executed'
  BY <1>2, <1>9, ConcatFacts DEF Signaled!Done, Signaled!InHand
<1>11. Executed'
  BY <1>1, <1>2, <1>9, <1>10 DEF SignaledInv, Executed, Keeps
<1>12. Waits'
  BY <1>2 DEF Waits
<1> QED
  BY <1>4, <1>5, <1>6, <1>8, <1>11, <1>12 DEF SignaledInv

\* The signaler has told nobody of anything before the first command.
LEMMA InitSignaledInv == Signaled!Init => SignaledInv
<1> SUFFICES ASSUME Signaled!Init PROVE SignaledInv
  OBVIOUS
<1>1. Init
  BY DEF Signaled!Init, Signaled!Queue!Init, Init, Signaled!Queue!Pointers, Pointers
<1>2. /\ spc = [p \in Producers |-> "idle"] /\ nulls = {} /\ executed = <<>>
      /\ counter = 0 /\ times = 0 /\ rpc = "poll"
  BY DEF Signaled!Init
<1>3. ppc = [p \in Producers |-> "idle"] /\ cpc = "idle" /\ log = <<>> /\ deq = 0
  BY <1>1 DEF Init
<1>4. IInv /\ Told /\ Arrived = {}
  BY <1>1, InitIInv, InitTold
<1>5. Sent
  BY <1>2, <1>3, FS_EmptySet DEF Sent
<1>6. Linkers = {} /\ Signalling = {} /\ Stray = {}
  BY <1>2, <1>3 DEF Linkers, Linking, Signalling, Stray
<1>7. Finite /\ Balanced /\ Due = 0
  BY <1>3, <1>4, <1>6, FS_EmptySet DEF Finite, Balanced, Due
<1>8. Receiving /\ Covered
  BY <1>2, <1>3, <1>7 DEF Receiving, Covered, Took
<1>9. Executed
  <2>1. Signaled!Done = <<>>
    BY <1>2, <1>3 DEF Signaled!Done, Signaled!InHand
  <2>2. Turn(log, nulls, 0) = 0
    BY TurnFacts
  <2> QED
    BY <1>2, <1>3, <2>1, <2>2 DEF Executed, InOrder
<1> QED
  BY <1>2, <1>4, <1>5, <1>7, <1>8, <1>9 DEF SignaledInv, Waits

LEMMA SignaledKeeps ==
  ASSUME SignaledInv, [Signaled!Next]_(Signaled!vars)
  PROVE  SignaledInv'
<1>1. CASE UNCHANGED Signaled!vars
  <2>1. UNCHANGED <<vars, spc, nulls, executed, counter, times, rpc>>
    BY <1>1 DEF Signaled!vars, Signaled!queue, vars, memory, producer, consumer, history
  <2>2. UNCHANGED <<body, ppc, mine, count, cpc, h, order, log, deq>>
    BY <2>1 DEF vars, memory, producer, consumer, history
  <2>3. IInv' /\ Told' /\ Sent'
    BY <2>1, <2>2, StepKeeps, ToldKeeps, SentKeeps DEF SignaledInv, Rests
  <2>4. Keeps /\ Rests
    BY <2>1, <2>2 DEF Keeps, Rests, Arrived, InQueue, Linking
  <2>5. Finite' /\ Balanced' /\ Due' = Due
    BY <2>4, ConsumerCounts DEF SignaledInv
  <2>6. Receiving' /\ Covered' /\ Executed'
    BY <2>1, <2>2, <2>5
    DEF SignaledInv, Receiving, Covered, Took, Executed, Signaled!Done, Signaled!InHand
  <2>7. Waits'
    BY <2>1 DEF SignaledInv, Waits, vars, consumer, history
  <2> QED
    BY <2>3, <2>5, <2>6, <2>7 DEF SignaledInv
<1>2. CASE Signaled!Next
  BY <1>2, SignaledSenderKeeps, SignaledReadKeeps, SignaledPopKeeps, SignaledCallerKeeps
  DEF Signaled!Next, Signaled!OwnerStep
<1> QED
  BY <1>1, <1>2

\* What the theorems about the receiver of commands follow from.
LEMMA SignaledInvariant == SignaledSpec => []SignaledInv
<1>1. [Signaled!Next /\ UNCHANGED requests]_receivers => [Signaled!Next]_(Signaled!vars)
  BY DEF receivers, commands, vars, memory, producer, consumer, history, Signaled!vars,
         Signaled!queue
<1>2. SignaledInv /\ [Signaled!Next /\ UNCHANGED requests]_receivers => SignaledInv'
  BY <1>1, SignaledKeeps
<1> QED
  BY InitSignaledInv, <1>2, PTL DEF SignaledSpec

\* receive, which spins on nullptr, is answered it only if some push was between
\* its exchange and its link while pop ran: it may wait for that thread to link, and
\* never for a call of send that has yet to come (signaled_queue.hpp:50-54).
THEOREM SpinsBehindAPushHolds == SignaledSpec => []SpinsBehindAPush
<1>1. SignaledInv => SpinsBehindAPush
  BY DEF SignaledInv, Waits, SpinsBehindAPush, Signaled!SpinsBehindAPush
<1> QED
  BY SignaledInvariant, <1>1, PTL

\* The commands are executed once each and in the order in which they were
\* pushed, whatever null nodes are among them (signaled_queue.hpp:50-66).
THEOREM CommandsOnceInOrderHolds == SignaledSpec => []CommandsOnceInOrder
<1>1. SignaledInv => CommandsOnceInOrder
  <2>1. \A i : Signaled!Commands(i) = Turn(log, nulls, i)
    BY DEF Signaled!Commands, Turn, Signaled!Cardinality, Cardinality
  <2> QED
    BY <2>1 DEF SignaledInv, Executed, InOrder, CommandsOnceInOrder, Signaled!ExecutedOnceInOrder
<1> QED
  BY SignaledInvariant, <1>1, PTL

\* When every thread is done, the queue is left with no more nodes than null
\* nodes were sent (signaled_queue.hpp:69-73).
THEOREM NullsStrandNoMoreHolds == SignaledSpec => []NullsStrandNoMore
<1>1. SignaledInv => NullsStrandNoMore
  <2> SUFFICES ASSUME SignaledInv, counter = 0, rpc = "poll", \A p \in Producers : spc[p] = "idle"
               PROVE  Signaled!LeftBehind
    BY DEF NullsStrandNoMore, Signaled!NullsStrandNoMore
  <2>1. Signalling = {} /\ Linkers = {}
    BY DEF Signalling, Linkers, Linking, SignaledInv, Sent
  <2>2. Cardinality(Signalling) = 0 /\ Cardinality(Linkers) = 0
    BY <2>1, FS_EmptySet
  <2>3. /\ Cardinality(Arrived) \in Nat /\ Cardinality(Stray) \in Nat
        /\ Len(log) \in Nat /\ deq \in Nat
    BY SizeFacts, CountFacts DEF SignaledInv, Finite
  <2>4. Cardinality(Stray) <= Cardinality(nulls) /\ Cardinality(nulls) \in Nat
    <3>1. Stray \in SUBSET nulls /\ IsFiniteSet(nulls)
      BY DEF Stray, SignaledInv, Sent
    <3> QED
      BY <3>1, FS_Subset, FS_CardinalityType
  <2>5. Len(log) - deq = Cardinality(Stray)
    BY <2>2, <2>3 DEF SignaledInv, Receiving, Covered, Took, Due, Balanced
  <2>6. Signaled!Cardinality(nulls) = Cardinality(nulls)
    BY DEF Signaled!Cardinality, Cardinality
  <2> QED
    BY <2>3, <2>4, <2>5, <2>6 DEF Signaled!LeftBehind
<1> QED
  BY SignaledInvariant, <1>1, PTL

-----------------------------------------------------------------------------
(* The receiver of requests in the event loop *)

Looping ==
  /\ lpc \in {"idle", "receive", "stop"}
  /\ lpc # "receive" => cpc = "idle"

AnsweredInOrder ==
  /\ answered \in Seq(Messages)
  /\ InOrder(Async!Done, log, nulls, deq)

\* Only what has left the queue is answered, and what is in hand is not.
AnsweredBefore ==
  \A x \in 1 .. Len(answered) :
    \E i \in 1 .. deq : answered[x] = log[i] /\ (cpc = "got" => i < deq)

\* The requests that a thread has yet to get an answer to.
Open(p) == {k \in 1 .. count[p] : <<p, k>> \notin nulls /\ ~Async!IsAnswered(<<p, k>>)}

\* Who waits for its answer has made one request.
OneOpen == Synchronous => \A p \in Producers : \A j, k \in Open(p) : j = k

\* While the watcher is on and nothing happens, somebody can go on.
Pending ==
  Producers # {} /\ Synchronous /\ active /\ ~sent /\ lpc = "idle" =>
    \E p \in Producers : Open(p) = {} \/ spc[p] \in {"push", "signal"}

AsyncInv ==
  IInv /\ Told /\ Sent /\ Looping /\ AnsweredInOrder /\ AnsweredBefore /\ OneOpen /\ Pending

\* The senders of the model are the senders above.
LEMMA AsyncSender ==
  ASSUME NEW p \in Producers,
         \/ Async!Request(p) \/ Async!NullMsg(p) \/ Async!Swap(p) \/ Async!Link(p)
         \/ Async!Signal(p)
  PROVE  /\ UNCHANGED <<answered, active, lpc>>
         /\ \/ Asks(p) /\ (Synchronous => Open(p) = {}) /\ sent' = sent
            \/ AsksNull(p) /\ sent' = sent
            \/ Swaps(p) /\ sent' = sent
            \/ Joins(p) /\ sent' = sent
            \/ Signals(p) /\ sent' = TRUE
<1>1. CASE Async!Request(p)
  BY <1>1 DEF Async!Request, Async!Answered, Open, Asks, Async!Queue!PushBegin, PushBegin,
              Async!Queue!consumer, Async!Queue!history, consumer, history
<1>2. CASE Async!NullMsg(p)
  BY <1>2 DEF Async!NullMsg, AsksNull, Async!Queue!PushBegin, PushBegin,
              Async!Queue!consumer, Async!Queue!history, consumer, history
<1>3. CASE Async!Swap(p)
  BY <1>3 DEF Async!Swap, Swaps, Async!Queue!PushSwap, PushSwap,
              Async!Queue!Popping, Popping, Async!Queue!consumer, consumer
<1>4. CASE Async!Link(p)
  BY <1>4 DEF Async!Link, Joins, Async!Queue!PushLink, PushLink,
              Async!Queue!consumer, consumer, Async!Queue!history, history
<1>5. CASE Async!Signal(p)
  BY <1>5 DEF Async!Signal, Signals, Async!queue, vars, memory, producer,
              consumer, history
<1> QED
  BY <1>1, <1>2, <1>3, <1>4, <1>5

\* The loop's calls of pop are those of the queue.
LEMMA AsyncPop ==
  ASSUME Async!Pop
  PROVE  /\ PopStart \/ PopSecond \/ PopTail \/ PopRestub \/ PopRelink \/ PopLast
         /\ lpc = "receive" /\ UNCHANGED <<spc, nulls, answered, sent, active, lpc>>
  BY DEF Async!Pop, Async!Queue!PopStart, Async!Queue!PopSecond, Async!Queue!PopTail,
         Async!Queue!PopRestub, Async!Queue!PopRelink, Async!Queue!PopLast,
         Async!Queue!Return, Async!Queue!ReturnNull, Async!Queue!producer,
         Async!Queue!history, Async!Queue!Linking,
         PopStart, PopSecond, PopTail, PopRestub, PopRelink, PopLast, Return, ReturnNull,
         producer, history, Linking

\* What a sender's step does to the requests that are open.
LEMMA OpenEffect ==
  ASSUME IInv, Sent, NEW p \in Producers, Sends(p), answered' = answered
  PROVE  /\ \A q \in Producers : q # p => Open(q)' = Open(q)
         /\ ~Asks(p) => Open(p)' = Open(p)
         /\ Asks(p) => Open(p)' \subseteq Open(p) \union {count'[p]}
<1>1. /\ \A q \in Producers : count[q] \in Nat
      /\ \A m : Async!IsAnswered(m)' <=> Async!IsAnswered(m)
  BY CountFacts DEF Async!IsAnswered
<1>2. CASE Asks(p)
  <2>1. /\ \A q \in Producers : count'[q] = IF q = p THEN count[p] + 1 ELSE count[q]
        /\ nulls' = nulls
    BY <1>2, BeginCounts DEF Asks
  <2>2. 1 .. count'[p] = (1 .. count[p]) \union {count'[p]}
    BY <1>1, <2>1
  <2> QED
    BY <1>1, <1>2, <2>1, <2>2 DEF Open
<1>3. CASE AsksNull(p)
  <2>1. /\ \A q \in Producers : count'[q] = IF q = p THEN count[p] + 1 ELSE count[q]
        /\ nulls' = nulls \union {<<p, count'[p]>>}
    BY <1>3, BeginCounts DEF AsksNull
  <2>2. 1 .. count'[p] = (1 .. count[p]) \union {count'[p]} /\ count'[p] \notin 1 .. count[p]
    BY <1>1, <2>1
  <2>3. \A q \in Producers : q # p => Open(q)' = Open(q)
    BY <1>1, <2>1 DEF Open
  <2>4. Open(p)' = Open(p)
    BY <1>1, <2>1, <2>2 DEF Open
  <2>5. ~Asks(p)
    BY <1>3 DEF Asks, AsksNull, Sent
  <2> QED
    BY <2>3, <2>4, <2>5
<1>4. CASE Swaps(p) \/ Joins(p) \/ Signals(p)
  <2>1. UNCHANGED <<count, nulls>>
    BY <1>4 DEF Swaps, Joins, Signals, PushSwap, PushLink, vars, producer
  <2>2. ~Asks(p)
    BY <1>1, <2>1, BeginCounts DEF Asks
  <2> QED
    BY <1>1, <2>1, <2>2 DEF Open
<1> QED
  BY <1>2, <1>3, <1>4 DEF Sends

LEMMA AsyncSenderKeeps ==
  ASSUME AsyncInv, NEW p \in Producers,
         \/ Async!Request(p) \/ Async!NullMsg(p) \/ Async!Swap(p) \/ Async!Link(p)
         \/ Async!Signal(p)
  PROVE  AsyncInv'
<1>1. /\ UNCHANGED <<answered, active, lpc>>
      /\ \/ Asks(p) /\ (Synchronous => Open(p) = {}) /\ sent' = sent
         \/ AsksNull(p) /\ sent' = sent
         \/ Swaps(p) /\ sent' = sent
         \/ Joins(p) /\ sent' = sent
         \/ Signals(p) /\ sent' = TRUE
  BY AsyncSender
<1>2. Sends(p)
  BY <1>1 DEF Sends
<1>3. IInv' /\ Told' /\ Sent'
  BY <1>2, SendsQueue, StepKeeps, ToldKeeps, SentKeeps DEF AsyncInv
<1>4. /\ InOrder(Async!Done, log', nulls', deq') /\ UNCHANGED <<cpc, h, deq>>
      /\ cpc = "got" => body'[h] = body[h] /\ (body[h] \in nulls' <=> body[h] \in nulls)
  BY <1>2, SenderOrder DEF AsyncInv, AnsweredInOrder
<1>5. Async!Done' = Async!Done
  BY <1>1, <1>4 DEF Async!Done, Async!Held
<1>6. Looping' /\ AnsweredInOrder'
  BY <1>1, <1>4, <1>5 DEF AsyncInv, Looping, AnsweredInOrder
<1>7. AnsweredBefore'
  <2>1. deq \in Nat /\ deq <= Len(log)
    BY CountFacts DEF AsyncInv, Told
  <2>2. \A i \in 1 .. Len(log) : log'[i] = log[i]
    <3>1. CASE Swaps(p)
      BY <3>1, SwapEffect DEF AsyncInv
    <3>2. CASE ~Swaps(p)
      BY <1>2, <3>2, AskEffect, JoinEffect, SignalEffect DEF AsyncInv, Sends
    <3> QED
      BY <3>1, <3>2
  <2>3. \A i \in 1 .. deq : log'[i] = log[i]
    BY <2>1, <2>2, CountFacts DEF AsyncInv
  <2> QED
    BY <1>1, <1>4, <2>3 DEF AsyncInv, AnsweredBefore
<1>8. /\ \A q \in Producers : q # p => Open(q)' = Open(q)
      /\ ~Asks(p) => Open(p)' = Open(p)
      /\ Asks(p) => Open(p)' \subseteq Open(p) \union {count'[p]}
  BY <1>1, <1>2, OpenEffect DEF AsyncInv
<1>9. OneOpen'
  <2>1. ASSUME Synchronous, NEW q \in Producers, NEW j \in Open(q)', NEW k \in Open(q)'
        PROVE  j = k
    <3>1. CASE q = p /\ Asks(p)
      <4>1. Open(p) = {}
        <5>1. ~AsksNull(p)
          BY <3>1 DEF Asks, AsksNull, AsyncInv, Sent
        <5>2. ~Swaps(p) /\ ~Joins(p) /\ ~Signals(p)
          BY <3>1 DEF Asks, PushBegin, Swaps, PushSwap, Joins, PushLink, Signals
        <5> QED
          BY <1>1, <2>1, <5>1, <5>2
      <4> QED
        BY <1>8, <2>1, <3>1, <4>1
    <3>2. CASE q # p \/ ~Asks(p)
      BY <1>8, <2>1, <3>2 DEF AsyncInv, OneOpen
    <3> QED
      BY <3>1, <3>2
  <2> QED
    BY <2>1 DEF OneOpen
<1>10. /\ \A q \in Producers : q # p => spc'[q] = spc[q]
       /\ Asks(p) => spc'[p] \in {"push", "signal"}
       /\ ~Asks(p) => sent' = TRUE \/ (spc[p] \in {"push", "signal"} => spc'[p] \in {"push", "signal"})
  <2>1. spc \in [Producers -> {"idle", "push", "signal", "null"}]
    BY DEF AsyncInv, Sent
  <2> QED
    BY <1>1, <2>1 DEF Asks, AsksNull, Swaps, Joins, Signals, Sent, PushLink, AsyncInv
<1>11. Pending'
  BY <1>1, <1>8, <1>10 DEF AsyncInv, Pending
<1> QED
  BY <1>3, <1>6, <1>7, <1>9, <1>11 DEF AsyncInv

\* The loop's own steps.
LEMMA AsyncLoopSteps ==
  ASSUME Async!Callback \/ Async!Stop
  PROVE  /\ UNCHANGED <<vars, spc, nulls, answered>>
         /\ \/ lpc = "idle" /\ lpc' = "receive"
            \/ lpc = "stop" /\ lpc' = "idle" /\ active' = FALSE
  BY DEF Async!Callback, Async!Stop, Async!queue, vars, memory, producer, consumer, history

LEMMA AsyncLoopKeeps ==
  ASSUME AsyncInv, Async!Callback \/ Async!Stop \/ UNCHANGED Async!vars
  PROVE  AsyncInv'
<1>1. /\ UNCHANGED <<vars, spc, nulls, answered>>
      /\ \/ lpc = "idle" /\ lpc' = "receive"
         \/ lpc = "stop" /\ lpc' = "idle" /\ active' = FALSE
         \/ UNCHANGED <<lpc, sent, active>>
  BY AsyncLoopSteps DEF Async!vars, Async!queue, vars, memory, producer, consumer, history
<1>2. UNCHANGED <<body, ppc, mine, count, cpc, h, log, deq>>
  BY <1>1 DEF vars, memory, producer, consumer, history
<1>3. IInv' /\ Told' /\ Sent'
  BY <1>1, <1>2, StepKeeps, ToldKeeps, SentKeeps DEF AsyncInv, Rests
<1>4. Looping' /\ AnsweredInOrder' /\ AnsweredBefore'
  BY <1>1, <1>2
  DEF AsyncInv, Looping, AnsweredInOrder, AnsweredBefore, Async!Done, Async!Held
<1>5. \A q \in Producers : Open(q)' = Open(q)
  BY <1>1, <1>2 DEF Open, Async!IsAnswered
<1>6. OneOpen'
  BY <1>5 DEF AsyncInv, OneOpen
<1>7. Pending'
  BY <1>1, <1>5 DEF AsyncInv, Pending
<1> QED
  BY <1>3, <1>4, <1>6, <1>7 DEF AsyncInv

LEMMA AsyncPopKeeps ==
  ASSUME AsyncInv, Async!Pop
  PROVE  AsyncInv'
<1>1. /\ PopStart \/ PopSecond \/ PopTail \/ PopRestub \/ PopRelink \/ PopLast
      /\ lpc = "receive" /\ UNCHANGED <<spc, nulls, answered, sent, active, lpc>>
  BY AsyncPop
<1>2. /\ cpc # "got" /\ (cpc' = "got" => Takes) /\ (cpc' # "got" => Keeps)
      /\ UNCHANGED <<body, ppc, mine, count>>
  BY <1>1, PopEffect DEF AsyncInv
<1>3. [Next]_vars /\ Rests
  BY <1>1, <1>2 DEF Next, PopStep, Rests
<1>4. IInv' /\ Told' /\ Sent'
  BY <1>3, StepKeeps, ToldKeeps, SentKeeps DEF AsyncInv
<1>5. \A q \in Producers : Open(q)' = Open(q)
  BY <1>1, <1>2 DEF Open, Async!IsAnswered
<1>6. Looping' /\ OneOpen' /\ Pending'
  BY <1>1, <1>5 DEF AsyncInv, Looping, OneOpen, Pending
<1>7. answered \in Seq(Messages) /\ InOrder(answered, log, nulls, deq)
  BY <1>2, ConcatFacts DEF AsyncInv, AnsweredInOrder, Async!Done, Async!Held
<1>8. deq \in Nat
  BY CountFacts DEF AsyncInv
<1>9. CASE cpc' = "got"
  <2>1. InOrder(answered \o (IF body'[h'] \in nulls THEN <<>> ELSE <<body'[h']>>),
                log', nulls', deq')
    BY <1>1, <1>2, <1>7, <1>9, TakeDone DEF AsyncInv
  <2>2. Async!Done' = answered \o (IF body'[h'] \in nulls THEN <<>> ELSE <<body'[h']>>)
    BY <1>1, <1>9 DEF Async!Done, Async!Held
  <2>3. AnsweredInOrder'
    BY <1>1, <1>7, <2>1, <2>2 DEF AnsweredInOrder
  <2>4. deq' = deq + 1 /\ log' = log
    BY <1>2, <1>9 DEF Takes
  <2>5. AnsweredBefore'
    BY <1>1, <1>8, <2>4 DEF AsyncInv, AnsweredBefore
  <2> QED
    BY <1>4, <1>6, <2>3, <2>5 DEF AsyncInv
<1>10. CASE cpc' # "got"
  <2>1. UNCHANGED <<log, deq>>
    BY <1>2, <1>10 DEF Keeps
  <2>2. Async!Done' = answered
    BY <1>1, <1>7, <1>10, ConcatFacts DEF Async!Done, Async!Held
  <2>3. AnsweredInOrder'
    BY <1>1, <1>7, <2>1, <2>2 DEF AnsweredInOrder
  <2>4. AnsweredBefore'
    BY <1>1, <1>10, <2>1 DEF AsyncInv, AnsweredBefore
  <2> QED
    BY <1>4, <1>6, <2>3, <2>4 DEF AsyncInv
<1> QED
  BY <1>9, <1>10

\* receive ends: a command was answered, a null node or nothing was found.
LEMMA AsyncReceive ==
  ASSUME Async!CallCommand \/ Async!ReceiveNullNode \/ Async!ReceiveNothing
  PROVE  /\ lpc = "receive" /\ UNCHANGED <<spc, nulls, sent, active>>
         /\ \/ /\ cpc = "got" /\ Consume /\ body[h] \notin nulls /\ lpc' = "idle"
               /\ answered' = Append(answered, body[h])
            \/ cpc = "got" /\ Consume /\ body[h] \in nulls /\ lpc' = "stop" /\ answered' = answered
            \/ cpc = "null" /\ Retry /\ lpc' = "stop" /\ answered' = answered
  BY DEF Async!CallCommand, Async!ReceiveNullNode, Async!ReceiveNothing,
         Async!Queue!Retry, Async!Queue!Consume,
         Async!Queue!memory, Async!Queue!producer, Async!Queue!history,
         Retry, Consume, memory, producer, history

\* The request in hand is open, and its answer leaves its thread with none.
LEMMA AnswerEffect ==
  ASSUME AsyncInv, cpc = "got", body[h] \notin nulls,
         answered' = Append(answered, body[h]), UNCHANGED <<count, nulls>>
  PROVE  \E p \in Producers : \E k \in Open(p) :
           /\ Open(p)' = Open(p) \ {k}
           /\ \A q \in Producers : q # p => Open(q)' = Open(q)
<1>1. body[h] \in Messages /\ deq \in 1 .. Len(log) /\ body[h] = log[deq]
  BY HandFacts DEF AsyncInv
<1>2. PICK p \in Producers : \E k \in 1 .. count[p] : body[h] = <<p, k>>
  BY <1>1 DEF AsyncInv, Told, Entered
<1>3. PICK k \in 1 .. count[p] : body[h] = <<p, k>>
  BY <1>2
<1>4. answered \in Seq(Messages) /\ deq \in Nat /\ Len(log) \in Nat
  BY CountFacts DEF AsyncInv, AnsweredInOrder
<1>5. ~Async!IsAnswered(body[h])
  <2>1. ASSUME NEW x \in 1 .. Len(answered), answered[x] = body[h] PROVE FALSE
    <3>1. PICK i \in 1 .. deq : answered[x] = log[i] /\ i < deq
      BY DEF AsyncInv, AnsweredBefore
    <3>2. i \in 1 .. Len(log) /\ log[i] = log[deq]
      BY <1>1, <1>4, <2>1, <3>1
    <3>3. i = deq
      BY <1>1, <3>2 DEF AsyncInv, Told
    <3> QED
      BY <1>4, <3>1, <3>3
  <2> QED
    BY <2>1 DEF Async!IsAnswered
<1>6. k \in Open(p)
  BY <1>3, <1>5 DEF Open
<1>7. \A m : Async!IsAnswered(m)' <=> Async!IsAnswered(m) \/ m = body[h]
  <2>1. PICK N \in Nat : N = Len(answered)
    BY <1>4
  <2>2. /\ Len(answered') = N + 1 /\ answered'[N + 1] = body[h]
        /\ \A i \in 1 .. N : answered'[i] = answered[i]
    BY <1>1, <1>4, <2>1, AppendFacts
  <2>3. 1 .. N + 1 = (1 .. N) \union {N + 1}
    BY <2>1
  <2> QED
    BY <2>1, <2>2, <2>3 DEF Async!IsAnswered
<1>8. Open(p)' = Open(p) \ {k}
  BY <1>3, <1>7 DEF Open
<1>9. \A q \in Producers : q # p => Open(q)' = Open(q)
  BY <1>3, <1>7 DEF Open
<1> QED
  BY <1>6, <1>8, <1>9

LEMMA AsyncReceiveKeeps ==
  ASSUME AsyncInv, Async!CallCommand \/ Async!ReceiveNullNode \/ Async!ReceiveNothing
  PROVE  AsyncInv'
<1>1. /\ lpc = "receive" /\ UNCHANGED <<spc, nulls, sent, active>>
      /\ \/ /\ cpc = "got" /\ Consume /\ body[h] \notin nulls /\ lpc' = "idle"
            /\ answered' = Append(answered, body[h])
         \/ cpc = "got" /\ Consume /\ body[h] \in nulls /\ lpc' = "stop" /\ answered' = answered
         \/ cpc = "null" /\ Retry /\ lpc' = "stop" /\ answered' = answered
  BY AsyncReceive
<1>2. Keeps /\ UNCHANGED <<body, ppc, mine, count>> /\ cpc' = "idle"
  BY <1>1, CallerEffect DEF AsyncInv
<1>3. [Next]_vars /\ Rests
  BY <1>1, <1>2 DEF Next, PopStep, Rests
<1>4. IInv' /\ Told' /\ Sent'
  BY <1>3, StepKeeps, ToldKeeps, SentKeeps DEF AsyncInv
<1>5. Looping'
  BY <1>1, <1>2 DEF Looping
<1>6. answered \in Seq(Messages) /\ (cpc = "got" => body[h] \in Messages)
  BY HandFacts DEF AsyncInv, AnsweredInOrder
<1>7. answered' \in Seq(Messages) /\ answered' = Async!Done
  BY <1>1, <1>6, ConcatFacts DEF Async!Done, Async!Held
<1>8. AnsweredInOrder'
  <2>1. Async!Done' = answered'
    BY <1>2, <1>7, ConcatFacts DEF Async!Done, Async!Held
  <2> QED
    BY <1>1, <1>2, <1>7, <2>1 DEF AsyncInv, AnsweredInOrder, Keeps
<1>9. CASE answered' = answered /\ lpc' = "stop"
  <2>1. \A q \in Producers : Open(q)' = Open(q)
    BY <1>1, <1>2, <1>9 DEF Open, Async!IsAnswered
  <2>2. AnsweredBefore'
    BY <1>2, <1>9 DEF AsyncInv, AnsweredBefore, Keeps
  <2>3. OneOpen' /\ Pending'
    BY <1>9, <2>1 DEF AsyncInv, OneOpen, Pending
  <2> QED
    BY <1>4, <1>5, <1>8, <2>2, <2>3 DEF AsyncInv
<1>10. CASE cpc = "got" /\ body[h] \notin nulls /\ answered' = Append(answered, body[h])
  <2>1. PICK p \in Producers : \E k \in Open(p) :
          /\ Open(p)' = Open(p) \ {k}
          /\ \A q \in Producers : q # p => Open(q)' = Open(q)
    BY <1>1, <1>2, <1>10, AnswerEffect
  <2>2. OneOpen'
    BY <2>1 DEF AsyncInv, OneOpen
  <2>3. Synchronous => Open(p)' = {}
    BY <2>1 DEF AsyncInv, OneOpen
  <2>4. Pending'
    BY <2>3 DEF Pending
  <2>5. AnsweredBefore'
    <3>1. PICK N \in Nat : N = Len(answered)
      BY <1>6
    <3>2. /\ Len(answered') = N + 1 /\ answered'[N + 1] = body[h]
          /\ \A i \in 1 .. N : answered'[i] = answered[i]
      BY <1>6, <1>10, <3>1, AppendFacts
    <3>3. 1 .. N + 1 = (1 .. N) \union {N + 1}
      BY <3>1
    <3>4. deq \in 1 .. deq /\ body[h] = log[deq] /\ UNCHANGED <<log, deq>>
      BY <1>2, <1>10, HandFacts DEF AsyncInv, Keeps
    <3> QED
      BY <1>2, <3>1, <3>2, <3>3, <3>4 DEF AsyncInv, AnsweredBefore
  <2> QED
    BY <1>4, <1>5, <1>8, <2>2, <2>4, <2>5 DEF AsyncInv
<1> QED
  BY <1>1, <1>9, <1>10

\* The loop starts its watcher before anyone has asked for anything.
LEMMA InitAsyncInv == Async!Init => AsyncInv
<1> SUFFICES ASSUME Async!Init PROVE AsyncInv
  OBVIOUS
<1>1. Init
  BY DEF Async!Init, Async!Queue!Init, Init, Async!Queue!Pointers, Pointers
<1>2. /\ spc = [p \in Producers |-> "idle"] /\ nulls = {} /\ answered = <<>>
      /\ sent = FALSE /\ active = TRUE /\ lpc = "idle"
  BY DEF Async!Init
<1>3. /\ ppc = [p \in Producers |-> "idle"] /\ cpc = "idle" /\ log = <<>> /\ deq = 0
      /\ count = [p \in Producers |-> 0]
  BY <1>1 DEF Init
<1>4. IInv /\ Told
  BY <1>1, InitIInv, InitTold
<1>5. Sent
  BY <1>2, <1>3, FS_EmptySet DEF Sent
<1>6. Looping /\ AnsweredBefore
  BY <1>2, <1>3 DEF Looping, AnsweredBefore
<1>7. AnsweredInOrder
  <2>1. Async!Done = <<>>
    BY <1>2, <1>3 DEF Async!Done, Async!Held
  <2>2. Turn(log, nulls, 0) = 0
    BY TurnFacts
  <2> QED
    BY <1>2, <1>3, <2>1, <2>2 DEF AnsweredInOrder, InOrder
<1>8. \A p \in Producers : Open(p) = {}
  BY <1>3 DEF Open
<1> QED
  BY <1>4, <1>5, <1>6, <1>7, <1>8 DEF AsyncInv, OneOpen, Pending

\* What the theorems about the receiver of requests follow from.
LEMMA AsyncInvariant == AsyncSpec => []AsyncInv
<1>1. AsyncInv /\ [Async!Next]_(Async!vars) => AsyncInv'
  BY AsyncSenderKeeps, AsyncLoopKeeps, AsyncPopKeeps, AsyncReceiveKeeps
  DEF Async!Next, Async!LoopStep
<1>2. [Async!Next /\ UNCHANGED commands]_receivers => [Async!Next]_(Async!vars)
  BY DEF receivers, requests, vars, memory, producer, consumer, history, Async!vars, Async!queue
<1>3. AsyncInv /\ [Async!Next /\ UNCHANGED commands]_receivers => AsyncInv'
  BY <1>1, <1>2
<1> QED
  BY InitAsyncInv, <1>3, PTL DEF AsyncSpec

\* A request is answered at most once, and the answers come in the order in
\* which the requests entered the queue (async_msgqueue.hpp:112-130).
THEOREM RequestsOnceInOrderHolds == AsyncSpec => []RequestsOnceInOrder
<1>1. AsyncInv => RequestsOnceInOrder
  <2>1. \A i : Async!Requests(i) = Turn(log, nulls, i)
    BY DEF Async!Requests, Turn, Async!Cardinality, Cardinality
  <2> QED
    BY <2>1 DEF AsyncInv, AnsweredInOrder, InOrder, RequestsOnceInOrder, Async!ExecutedOnceInOrder
<1> QED
  BY AsyncInvariant, <1>1, PTL

\* Requesters who wait for their answers are not all left without one while the
\* watcher is on, although signals coalesce (async_msgqueue.hpp:104-130).
THEOREM NotEveryoneStrandedHolds ==
  ASSUME Producers # {}
  PROVE  AsyncSpec => []NotEveryoneStranded
<1>1. AsyncInv => NotEveryoneStranded
  <2> SUFFICES ASSUME AsyncInv, Synchronous, Async!AtRest, active
               PROVE  \E p \in Producers : Async!Answered(p)
    BY DEF NotEveryoneStranded, Async!NotEveryoneStranded
  <2>1. PICK p \in Producers : Open(p) = {} \/ spc[p] \in {"push", "signal"}
    BY DEF AsyncInv, Pending, Async!AtRest
  <2>2. Open(p) = {}
    BY <2>1 DEF Async!AtRest
  <2> QED
    BY <2>2 DEF Open, Async!Answered
<1> QED
  BY AsyncInvariant, <1>1, PTL

=============================================================================
