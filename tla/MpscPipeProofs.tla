--------------------------- MODULE MpscPipeProofs ---------------------------
(***************************************************************************)
(* The safety invariants of MpscPipe and of the queue in it, and that the  *)
(* queue implements MpscFifo, for any number of producers, nodes and       *)
(* messages, whatever the store buffers delay.                             *)
(***************************************************************************)
EXTENDS MpscPipe, WellFoundedInduction, TLAPS

Messages == Queue!Messages

-----------------------------------------------------------------------------
(* The inductive invariant *)

TypeOK ==
  /\ head \in Nodes /\ tail \in Nodes
  /\ next \in [Nodes -> Nodes \union {NULL}]
  /\ heap \subseteq Nodes
  /\ data \in [Nodes -> Messages \union {<<>>}]
  /\ ppc \in [Producers -> {"idle", "swap", "link"}]
  /\ mine \in [Producers -> Nodes \union {NULL}]
  /\ prev \in [Producers -> Nodes \union {NULL}]
  /\ count \in [Producers -> 0 .. MaxSends]
  /\ cpc \in {"ready", "free", "true", "false", "destroyed"}
  /\ order \in Seq(Nodes) /\ log \in Seq(Messages) /\ deq \in Nat

Swapping(p) == ppc[p] = "swap"
Linking(p)  == ppc[p] = "link"

\* The nodes of the queue.
InQueue == {order[i] : i \in 1 .. Len(order)}

(* order goes from head to tail, without a node twice.  The next field of a *)
(* node is the node after it, or null as long as the producer that will     *)
(* link the two has not stored it.                                          *)
Chain ==
  /\ Len(order) >= 1 /\ order[1] = head /\ order[Len(order)] = tail
  /\ \A i, j \in 1 .. Len(order) : order[i] = order[j] => i = j
  /\ next[tail] = NULL
  /\ \A i \in 1 .. Len(order) - 1 :
       \/ /\ next[order[i]] = order[i + 1]
          /\ \A p \in Producers : Linking(p) => prev[p] # order[i]
       \/ /\ next[order[i]] = NULL
          /\ \E p \in Producers :
               Linking(p) /\ prev[p] = order[i] /\ mine[p] = order[i + 1]

\* A producer that has swapped links two neighbours; one that has not holds a
\* node nobody knows; and no two do so for the same node.
Pushing ==
  /\ \A p \in Producers : Linking(p) =>
       \E i \in 1 .. Len(order) - 1 : prev[p] = order[i] /\ mine[p] = order[i + 1]
  /\ \A p \in Producers : Swapping(p) =>
       /\ mine[p] \in Nodes \ InQueue /\ mine[p] # h
       /\ next[mine[p]] = NULL /\ data[mine[p]] \in Messages
  /\ \A p, q \in Producers :
       /\ Swapping(p) /\ Swapping(q) /\ mine[p] = mine[q] => p = q
       /\ Linking(p) /\ Linking(q) /\ prev[p] = prev[q] => p = q

\* While the queue exists its nodes, those of the producers, and the one pop is
\* about to free are what is allocated.
Allocated ==
  /\ cpc # "free" => h = NULL
  /\ cpc = "free" => h \in Nodes \ InQueue
  /\ cpc # "destroyed" =>
       heap = InQueue \union
              {n \in Nodes : n = h \/ \E p \in Producers : Swapping(p) /\ mine[p] = n}

\* The nodes behind the dummy carry what was sent and not received.
Carries ==
  /\ Len(log) = deq + Len(order) - 1
  /\ \A i \in 2 .. Len(order) : data[order[i]] = log[deq + i - 1]

\* What is left when the queue was destroyed.
Nothing ==
  cpc = "destroyed" =>
    /\ \A p \in Producers : ppc[p] = "idle"
    /\ heap = {} /\ dropped = {log[i] : i \in (deq + 1) .. Len(log)}

QInv == TypeOK /\ Chain /\ Pushing /\ Allocated /\ Carries /\ Nothing

(* Who is about to sleep has announced it, or a token is there, or one is   *)
(* on its way: notify clears `waiting` only to post.                        *)
Announced ==
  rpc \in {"second", "commit"} =>
    waiting \/ semaphore > 0 \/ \E p \in Producers : spc[p] = "post"

EventInv ==
  /\ semaphore \in Nat /\ waiting \in BOOLEAN
  /\ spc \in [Producers -> {"idle", "push", "clear", "post"}]
  /\ Announced

-----------------------------------------------------------------------------
(* Facts about sequences, numbers and the invariant                        *)

(* Append puts its element behind the others.                              *)
LEMMA AppendFacts ==
  ASSUME NEW S, NEW s \in Seq(S), NEW e \in S
  PROVE  /\ Append(s, e) \in Seq(S) /\ Len(s) \in Nat
         /\ Len(Append(s, e)) = Len(s) + 1
         /\ \A i \in 1 .. Len(s) : Append(s, e)[i] = s[i]
         /\ Append(s, e)[Len(s) + 1] = e
  OBVIOUS

(* Tail drops the first element and moves the others up by one place.      *)
LEMMA TailFacts ==
  ASSUME NEW S, NEW s \in Seq(S), Len(s) >= 1
  PROVE  /\ Tail(s) \in Seq(S) /\ Len(s) \in Nat
         /\ Len(Tail(s)) = Len(s) - 1
         /\ \A i \in 1 .. (Len(s) - 1) : Tail(s)[i] = s[i + 1]
  OBVIOUS

(* The elements of a sequence belong to its set.                           *)
LEMMA ElementFacts ==
  ASSUME NEW S, NEW s \in Seq(S)
  PROVE  Len(s) \in Nat /\ \A i \in 1 .. Len(s) : s[i] \in S
  OBVIOUS

(* A set of naturals that is not empty has a least element.                *)
LEMMA LeastNat ==
  ASSUME NEW S, S \subseteq Nat, S # {}
  PROVE  \E n \in S : \A m \in S : n <= m
  <1> DEFINE Less == {p \in Nat \X Nat : p[1] < p[2]}
  <1>1. OpToRel(<, Nat) = Less
    BY DEF OpToRel
  <1>2. IsWellFoundedOn(Less, Nat)
    BY <1>1, NatLessThanWellFounded
  <1>3. PICK n \in S : \A m \in S : ~(<<m, n>> \in Less)
    <2> HIDE DEF Less
    <2> QED
      BY <1>2, WFMin
  <1>4. ASSUME NEW m \in S, m < n PROVE FALSE
    <2>1. <<m, n>> \in Nat \X Nat /\ <<m, n>>[1] < <<m, n>>[2]
      BY <1>4
    <2> QED
      BY <1>3, <2>1
  <1> QED
    BY <1>4

(* Head and tail are in the queue, which consists of nodes.                *)
LEMMA QueueFacts ==
  ASSUME TypeOK, Chain
  PROVE  /\ Len(order) \in Nat \ {0} /\ InQueue \subseteq Nodes
         /\ head \in InQueue /\ tail \in InQueue
         /\ \A i \in 1 .. Len(order) : order[i] \in InQueue
  <1>1. Len(order) \in Nat \ {0} /\ \A i \in 1 .. Len(order) : order[i] \in Nodes
    BY ElementFacts DEF TypeOK, Chain
  <1>2. 1 \in 1 .. Len(order) /\ Len(order) \in 1 .. Len(order)
    BY <1>1
  <1> QED
    BY <1>1, <1>2 DEF Chain, InQueue

(* The queue within a pipe that was just constructed.                      *)
LEMMA InitQInv == Queue!Init => QInv
  <1>1. SUFFICES ASSUME Queue!Init PROVE QInv
    OBVIOUS
  <1> USE MpscPipeAssumption
  <1>2. /\ order = <<Dummy>> /\ Len(order) = 1 /\ order[1] = Dummy /\ InQueue = {Dummy}
        /\ order \in Seq(Nodes) /\ log \in Seq(Messages) /\ Len(log) = 0
    BY <1>1 DEF Queue!Init, InQueue
  <1>3. TypeOK
    BY <1>1, <1>2 DEF Queue!Init, TypeOK
  <1>4. Chain
    BY <1>1, <1>2 DEF Queue!Init, Chain
  <1>5. Pushing
    BY <1>1 DEF Queue!Init, Pushing, Swapping, Linking
  <1>6. Allocated
    BY <1>1, <1>2 DEF Queue!Init, Allocated, Swapping
  <1>7. Carries /\ Nothing
    BY <1>1, <1>2 DEF Queue!Init, Carries, Nothing
  <1> QED
    BY <1>3, <1>4, <1>5, <1>6, <1>7 DEF QInv

-----------------------------------------------------------------------------
(* push *)

(* The new node is not in the queue, not another producer's, and not the    *)
(* one pop is about to free.                                                *)
LEMMA PushBeginKeeps ==
  ASSUME QInv, NEW p \in Producers, Queue!PushBegin(p)
  PROVE  QInv' /\ UNCHANGED <<log, deq, out>>
  <1>1. /\ ppc[p] = "idle" /\ count[p] < MaxSends /\ cpc # "destroyed"
        /\ ppc' = [ppc EXCEPT ![p] = "swap"]
        /\ count' = [count EXCEPT ![p] = @ + 1]
        /\ UNCHANGED <<head, tail, prev, cpc, h, dropped, order, log, deq, out>>
    BY DEF Queue!PushBegin, Queue!consumer, Queue!history
  <1>2. PICK n \in Nodes \ heap :
          /\ heap' = heap \union {n}
          /\ data' = [data EXCEPT ![n] = <<p, count[p] + 1>>]
          /\ next' = [next EXCEPT ![n] = NULL]
          /\ mine' = [mine EXCEPT ![p] = n]
    BY DEF Queue!PushBegin
  <1>3. TypeOK /\ Chain /\ Pushing /\ Allocated /\ Carries /\ Nothing
    BY DEF QInv
  <1>4. /\ n \notin InQueue /\ n # h /\ InQueue' = InQueue
        /\ \A q \in Producers : Swapping(q) => mine[q] # n
    BY <1>1, <1>2, <1>3 DEF Allocated, InQueue
  <1>5. \A i \in 1 .. Len(order) : order[i] # n /\ order[i] \in Nodes
    BY <1>3, <1>4, QueueFacts
  <1>6. <<p, count[p] + 1>> \in Messages
    <2>1. count[p] \in 0 .. MaxSends /\ MaxSends \in Nat
      BY <1>3, MpscPipeAssumption DEF TypeOK
    <2>2. count[p] + 1 \in 1 .. MaxSends
      BY <1>1, <2>1
    <2> QED
      BY <2>2 DEF Messages, Queue!Messages
  <1>7. TypeOK'
    <2>1. count' \in [Producers -> 0 .. MaxSends]
      <3>1. count[p] + 1 \in 0 .. MaxSends
        BY <1>1, <1>3, MpscPipeAssumption DEF TypeOK
      <3> QED
        BY <1>1, <1>3, <3>1 DEF TypeOK
    <2> QED
      BY <1>1, <1>2, <1>3, <1>6, <2>1 DEF TypeOK
  <1>8. /\ \A q \in Producers : Linking(q)' <=> Linking(q)
        /\ \A q \in Producers : Swapping(q)' <=> Swapping(q) \/ q = p
        /\ \A q \in Producers : mine'[q] = IF q = p THEN n ELSE mine[q]
        /\ ~Linking(p)
    BY <1>1, <1>2, <1>3 DEF TypeOK, Linking, Swapping
  <1>9. \A m \in Nodes : m # n => next'[m] = next[m] /\ data'[m] = data[m]
    BY <1>2, <1>3 DEF TypeOK
  <1>10. Chain'
    <2>1. next'[tail] = NULL
      BY <1>3, <1>4, <1>9, QueueFacts DEF Chain
    <2>2. ASSUME NEW i \in 1 .. Len(order) - 1
          PROVE  \/ /\ next'[order[i]] = order[i + 1]
                    /\ \A q \in Producers : Linking(q)' => prev[q] # order[i]
                 \/ /\ next'[order[i]] = NULL
                    /\ \E q \in Producers :
                         Linking(q)' /\ prev[q] = order[i] /\ mine'[q] = order[i + 1]
      <3>1. i \in 1 .. Len(order)
        BY <1>3, QueueFacts
      <3>2. next'[order[i]] = next[order[i]]
        BY <1>5, <1>9, <3>1
      <3> QED
        BY <1>3, <1>8, <3>2 DEF Chain
    <2> QED
      BY <1>1, <1>3, <2>1, <2>2 DEF Chain
  <1>11. Pushing'
    <2>1. \A q \in Producers : Linking(q)' =>
            \E i \in 1 .. Len(order') - 1 : prev'[q] = order'[i] /\ mine'[q] = order'[i + 1]
      BY <1>1, <1>3, <1>8 DEF Pushing
    <2>2. ASSUME NEW q \in Producers, Swapping(q)'
          PROVE  /\ mine'[q] \in Nodes \ InQueue' /\ mine'[q] # h'
                 /\ next'[mine'[q]] = NULL /\ data'[mine'[q]] \in Messages
      <3>1. CASE q = p
        BY <1>1, <1>2, <1>3, <1>4, <1>6, <1>8, <3>1 DEF TypeOK
      <3>2. CASE q # p
        BY <1>1, <1>3, <1>4, <1>8, <1>9, <2>2, <3>2 DEF Pushing
      <3> QED
        BY <3>1, <3>2
    <2>3. \A q, r \in Producers :
            /\ Swapping(q)' /\ Swapping(r)' /\ mine'[q] = mine'[r] => q = r
            /\ Linking(q)' /\ Linking(r)' /\ prev'[q] = prev'[r] => q = r
      BY <1>1, <1>3, <1>4, <1>8 DEF Pushing
    <2> QED
      BY <2>1, <2>2, <2>3 DEF Pushing
  <1>12. Allocated'
    <2>1. \A m \in Nodes : (\E q \in Producers : Swapping(q)' /\ mine'[q] = m) <=>
                           m = n \/ \E q \in Producers : Swapping(q) /\ mine[q] = m
      BY <1>1, <1>8 DEF Swapping
    <2> QED
      BY <1>1, <1>2, <1>3, <1>4, <2>1 DEF Allocated
  <1>13. Carries'
    <2>1. \A i \in 2 .. Len(order) : data'[order[i]] = data[order[i]]
      <3>1. \A i \in 2 .. Len(order) : i \in 1 .. Len(order)
        BY <1>3, QueueFacts
      <3> QED
        BY <1>5, <1>9, <3>1
    <2> QED
      BY <1>1, <1>3, <2>1 DEF Carries
  <1> QED
    BY <1>1, <1>7, <1>10, <1>11, <1>12, <1>13 DEF QInv, Nothing

(* The node that was the tail becomes the one the producer has to link; it  *)
(* cannot leave the queue before that.                                      *)
LEMMA PushSwapKeeps ==
  ASSUME QInv, NEW p \in Producers, Queue!PushSwap(p)
  PROVE  /\ QInv' /\ UNCHANGED <<deq, out>>
         /\ \E msg \in Messages : log' = Append(log, msg)
  <1>1. PICK m \in Nodes \union {NULL}, L \in Nat : m = mine[p] /\ L = Len(order)
    BY ElementFacts DEF QInv, TypeOK
  <1>2. /\ ppc[p] = "swap" /\ ppc' = [ppc EXCEPT ![p] = "link"]
        /\ prev' = [prev EXCEPT ![p] = tail] /\ tail' = m
        /\ order' = Append(order, m) /\ log' = Append(log, data[m])
        /\ UNCHANGED <<head, next, heap, data, mine, count, cpc, h, dropped, deq, out>>
    BY <1>1 DEF Queue!PushSwap, Queue!consumer
  <1>3. TypeOK /\ Chain /\ Pushing /\ Allocated /\ Carries /\ Nothing
    BY DEF QInv
  <1>4. /\ m \in Nodes \ InQueue /\ m # h /\ next[m] = NULL /\ data[m] \in Messages
        /\ cpc # "destroyed"
    BY <1>1, <1>2, <1>3 DEF Pushing, Swapping, Nothing
  <1>5. /\ L >= 1 /\ Len(order') = L + 1 /\ order' \in Seq(Nodes)
        /\ \A i \in 1 .. L : order'[i] = order[i]
        /\ order'[L + 1] = m
    BY <1>1, <1>2, <1>3, <1>4, AppendFacts DEF TypeOK, Chain
  <1>6. /\ Len(log) \in Nat /\ Len(log') = Len(log) + 1 /\ log' \in Seq(Messages)
        /\ \A i \in 1 .. Len(log) : log'[i] = log[i]
        /\ log'[Len(log) + 1] = data[m]
    BY <1>2, <1>3, <1>4, AppendFacts DEF TypeOK
  <1>7. InQueue' = InQueue \union {m} /\ \A i \in 1 .. L : order[i] # m
    <2>1. 1 .. Len(order') = (1 .. L) \union {L + 1}
      BY <1>1, <1>5
    <2> QED
      BY <1>1, <1>4, <1>5, <2>1 DEF InQueue
  <1>8. /\ \A q \in Producers : Linking(q)' <=> Linking(q) \/ q = p
        /\ \A q \in Producers : Swapping(q)' <=> Swapping(q) /\ q # p
        /\ \A q \in Producers : prev'[q] = IF q = p THEN tail ELSE prev[q]
        /\ ~Linking(p) /\ Swapping(p)
    BY <1>2, <1>3 DEF TypeOK, Linking, Swapping
  <1>9. TypeOK'
    BY <1>2, <1>3, <1>4, <1>5, <1>6 DEF TypeOK
  <1>10. Chain'
    <2>1. Len(order') >= 1 /\ order'[1] = head' /\ order'[Len(order')] = tail'
      BY <1>1, <1>2, <1>3, <1>5 DEF Chain
    <2>2. \A i, j \in 1 .. Len(order') : order'[i] = order'[j] => i = j
      BY <1>1, <1>3, <1>5, <1>7 DEF Chain
    <2>3. ASSUME NEW i \in 1 .. L
          PROVE  \/ /\ next'[order'[i]] = order'[i + 1]
                    /\ \A q \in Producers : Linking(q)' => prev'[q] # order'[i]
                 \/ /\ next'[order'[i]] = NULL
                    /\ \E q \in Producers :
                         Linking(q)' /\ prev'[q] = order'[i] /\ mine'[q] = order'[i + 1]
      <3>1. CASE i = L
        <4>1. order'[i] = tail /\ next'[tail] = NULL
          BY <1>1, <1>2, <1>3, <1>5, <3>1 DEF Chain
        <4> QED
          BY <1>1, <1>2, <1>5, <1>8, <3>1, <4>1
      <3>2. CASE i # L
        <4>1. /\ i \in 1 .. L - 1 /\ order'[i] = order[i] /\ order'[i + 1] = order[i + 1]
              /\ order[i] # tail
          BY <1>1, <1>3, <1>5, <3>2 DEF Chain
        <4> QED
          BY <1>1, <1>2, <1>3, <1>8, <4>1 DEF Chain
      <3> QED
        BY <3>1, <3>2
    <2>4. next'[tail'] = NULL
      BY <1>2, <1>4
    <2> QED
      BY <1>5, <2>1, <2>2, <2>3, <2>4 DEF Chain
  <1>11. Pushing'
    <2>1. ASSUME NEW q \in Producers, Linking(q)'
          PROVE  \E i \in 1 .. L : prev'[q] = order'[i] /\ mine'[q] = order'[i + 1]
      <3>1. CASE q = p
        <4>1. prev'[q] = order'[L] /\ mine'[q] = order'[L + 1] /\ L \in 1 .. L
          BY <1>1, <1>2, <1>3, <1>5, <1>8, <3>1 DEF Chain
        <4> QED
          BY <4>1
      <3>2. CASE q # p
        <4>1. PICK i \in 1 .. L - 1 : prev[q] = order[i] /\ mine[q] = order[i + 1]
          BY <1>1, <1>3, <1>8, <2>1, <3>2 DEF Pushing
        <4>2. i \in 1 .. L /\ i + 1 \in 1 .. L
          BY <1>1
        <4> QED
          BY <1>2, <1>5, <1>8, <3>2, <4>1, <4>2
      <3> QED
        BY <3>1, <3>2
    <2>2. \A q \in Producers : Swapping(q)' =>
            /\ mine'[q] \in Nodes \ InQueue' /\ mine'[q] # h'
            /\ next'[mine'[q]] = NULL /\ data'[mine'[q]] \in Messages
      BY <1>1, <1>2, <1>3, <1>7, <1>8 DEF Pushing
    <2>3. \A q \in Producers : Linking(q) => prev[q] # tail
      <3>1. ASSUME NEW i \in 1 .. L - 1 PROVE order[i] # tail
        BY <1>1, <1>3 DEF Chain
      <3> QED
        BY <1>1, <1>3, <3>1 DEF Pushing
    <2>4. \A q, r \in Producers :
            /\ Swapping(q)' /\ Swapping(r)' /\ mine'[q] = mine'[r] => q = r
            /\ Linking(q)' /\ Linking(r)' /\ prev'[q] = prev'[r] => q = r
      BY <1>2, <1>3, <1>8, <2>3 DEF Pushing
    <2> QED
      BY <1>5, <2>1, <2>2, <2>4 DEF Pushing
  <1>12. Allocated'
    <2>1. \A n \in Nodes : (\E q \in Producers : Swapping(q)' /\ mine'[q] = n) \/ n = m <=>
                           \E q \in Producers : Swapping(q) /\ mine[q] = n
      BY <1>1, <1>2, <1>3, <1>8 DEF Pushing
    <2> QED
      BY <1>2, <1>3, <1>4, <1>7, <2>1 DEF Allocated
  <1>13. Carries'
    <2>1. ASSUME NEW i \in 2 .. L + 1 PROVE data'[order'[i]] = log'[deq' + i - 1]
      <3>1. deq \in Nat /\ Len(log) = deq + L - 1
        BY <1>1, <1>3 DEF TypeOK, Carries
      <3>2. CASE i = L + 1
        BY <1>1, <1>2, <1>5, <1>6, <3>1, <3>2
      <3>3. CASE i # L + 1
        <4>1. i \in 2 .. L /\ i \in 1 .. L /\ deq + i - 1 \in 1 .. Len(log)
          BY <1>1, <3>1, <3>3
        <4> QED
          BY <1>1, <1>2, <1>3, <1>5, <1>6, <4>1 DEF Carries
      <3> QED
        BY <3>2, <3>3
    <2>2. Len(log') = deq' + Len(order') - 1
      BY <1>1, <1>2, <1>3, <1>5, <1>6 DEF Carries, TypeOK
    <2> QED
      BY <1>5, <2>1, <2>2 DEF Carries
  <1> QED
    BY <1>2, <1>4, <1>9, <1>10, <1>11, <1>12, <1>13 DEF QInv, Nothing

(* The link is stored: the chain has one gap less.                         *)
LEMMA PushLinkKeeps ==
  ASSUME QInv, NEW p \in Producers, Queue!PushLink(p)
  PROVE  QInv' /\ UNCHANGED <<log, deq, out>>
  <1>1. PICK L \in Nat : L = Len(order)
    BY ElementFacts DEF QInv, TypeOK
  <1>2. /\ ppc[p] = "link" /\ ppc' = [ppc EXCEPT ![p] = "idle"]
        /\ next' = [next EXCEPT ![prev[p]] = mine[p]]
        /\ mine' = [mine EXCEPT ![p] = NULL] /\ prev' = [prev EXCEPT ![p] = NULL]
        /\ UNCHANGED <<head, tail, heap, data, count, cpc, h, dropped, order, log, deq, out>>
    BY DEF Queue!PushLink, Queue!consumer, Queue!history
  <1>3. TypeOK /\ Chain /\ Pushing /\ Allocated /\ Carries /\ Nothing
    BY DEF QInv
  <1>4. PICK k \in 1 .. L - 1 : prev[p] = order[k] /\ mine[p] = order[k + 1]
    BY <1>1, <1>2, <1>3 DEF Pushing, Linking
  <1>5. /\ order[k] \in InQueue /\ order[k + 1] \in InQueue /\ order[k] # tail
        /\ InQueue \subseteq Nodes /\ InQueue' = InQueue
    BY <1>1, <1>2, <1>3, QueueFacts DEF Chain, InQueue
  <1>6. next' = [next EXCEPT ![order[k]] = order[k + 1]]
    BY <1>2, <1>4
  <1>7. /\ \A q \in Producers : Linking(q)' <=> Linking(q) /\ q # p
        /\ \A q \in Producers : Swapping(q)' <=> Swapping(q)
        /\ \A q \in Producers : q # p => prev'[q] = prev[q] /\ mine'[q] = mine[q]
        /\ Linking(p) /\ ~Swapping(p)
    BY <1>2, <1>3 DEF TypeOK, Linking, Swapping
  <1>8. \A q \in Producers : Linking(q) /\ q # p => prev[q] # order[k]
    BY <1>3, <1>4, <1>7 DEF Pushing
  <1>9. TypeOK'
    BY <1>2, <1>3, <1>5, <1>6 DEF TypeOK
  <1>10. Chain'
    <2>1. ASSUME NEW i \in 1 .. L - 1
          PROVE  \/ /\ next'[order[i]] = order[i + 1]
                    /\ \A q \in Producers : Linking(q)' => prev'[q] # order[i]
                 \/ /\ next'[order[i]] = NULL
                    /\ \E q \in Producers :
                         Linking(q)' /\ prev'[q] = order[i] /\ mine'[q] = order[i + 1]
      <3>1. CASE i = k
        BY <1>3, <1>5, <1>6, <1>7, <1>8, <3>1 DEF TypeOK
      <3>2. CASE i # k
        <4>1. order[i] # order[k] /\ order[i] \in Nodes
          BY <1>1, <1>3, <3>2, ElementFacts DEF TypeOK, Chain
        <4>2. next'[order[i]] = next[order[i]]
          BY <1>3, <1>6, <4>1 DEF TypeOK
        <4> QED
          BY SMTT(30), <1>1, <1>3, <1>4, <1>7, <4>1, <4>2 DEF Chain
      <3> QED
        BY <3>1, <3>2
    <2>2. next'[tail] = NULL
      BY <1>3, <1>5, <1>6 DEF TypeOK, Chain
    <2> QED
      BY <1>1, <1>2, <1>3, <2>1, <2>2 DEF Chain
  <1>11. Pushing'
    <2>1. \A q \in Producers : Swapping(q)' =>
            /\ mine'[q] \in Nodes \ InQueue' /\ mine'[q] # h'
            /\ next'[mine'[q]] = NULL /\ data'[mine'[q]] \in Messages
      BY <1>2, <1>3, <1>5, <1>6, <1>7 DEF Pushing, TypeOK
    <2>2. \A q \in Producers : Linking(q)' =>
            \E i \in 1 .. Len(order') - 1 : prev'[q] = order'[i] /\ mine'[q] = order'[i + 1]
      BY <1>2, <1>3, <1>7 DEF Pushing
    <2>3. \A q, r \in Producers :
            /\ Swapping(q)' /\ Swapping(r)' /\ mine'[q] = mine'[r] => q = r
            /\ Linking(q)' /\ Linking(r)' /\ prev'[q] = prev'[r] => q = r
      BY <1>3, <1>7 DEF Pushing
    <2> QED
      BY <2>1, <2>2, <2>3 DEF Pushing
  <1>12. Allocated'
    <2>1. \A n : (\E q \in Producers : Swapping(q)' /\ mine'[q] = n) <=>
                 \E q \in Producers : Swapping(q) /\ mine[q] = n
      BY <1>7
    <2> QED
      BY <1>2, <1>3, <1>5, <2>1 DEF Allocated
  <1>13. Carries' /\ Nothing'
    BY <1>2, <1>3 DEF Carries, Nothing
  <1> QED
    BY <1>2, <1>9, <1>10, <1>11, <1>12, <1>13 DEF QInv

-----------------------------------------------------------------------------
(* pop                                                                     *)

(* A successor of the dummy is the second node of the queue, it carries the *)
(* oldest message, and nobody is going to store into the dummy any more.    *)
LEMMA PopKeeps ==
  ASSUME QInv, Queue!Pop
  PROVE  QInv' /\ [Queue!Fifo!Next]_<<log, deq, out>>
  <1>1. PICK L \in Nat : L = Len(order)
    BY ElementFacts DEF QInv, TypeOK
  <1>2. TypeOK /\ Chain /\ Pushing /\ Allocated /\ Carries /\ Nothing
    BY DEF QInv
  <1>3. /\ cpc = "ready" /\ h = NULL
        /\ UNCHANGED <<tail, next, heap, data, ppc, mine, prev, count, dropped, log>>
    BY <1>2 DEF Queue!Pop, Queue!producer, Allocated
  <1>4. CASE next[head] = NULL /\ cpc' = "false" /\ UNCHANGED <<head, h, order, deq, out>>
    <2>1. TypeOK' /\ Chain' /\ Carries' /\ Nothing'
      BY <1>2, <1>3, <1>4 DEF TypeOK, Chain, Carries, Nothing, Linking
    <2>2. Pushing' /\ Allocated'
      BY <1>2, <1>3, <1>4 DEF Pushing, Allocated, Swapping, Linking, InQueue
    <2> QED
      BY <1>3, <1>4, <2>1, <2>2 DEF QInv
  <1>5. CASE /\ next[head] # NULL
             /\ cpc' = "free" /\ h' = head
             /\ head' = next[head] /\ order' = Tail(order)
             /\ deq' = deq + 1 /\ out' = data[next[head]]
    <2>1. /\ L >= 2 /\ head = order[1] /\ next[head] = order[2]
          /\ \A p \in Producers : Linking(p) => prev[p] # head
      <3>1. L >= 1 /\ (L = 1 => next[head] = NULL)
        BY <1>1, <1>2 DEF Chain
      <3>2. L >= 2 /\ 1 \in 1 .. L - 1
        BY <1>1, <1>5, <3>1
      <3> QED
        BY <1>1, <1>2, <1>5, <3>2 DEF Chain
    <2>2. /\ order' \in Seq(Nodes) /\ Len(order') = L - 1
          /\ \A i \in 1 .. L - 1 : order'[i] = order[i + 1]
      BY <1>1, <1>2, <1>5, <2>1, TailFacts DEF TypeOK
    <2>3. /\ InQueue' = InQueue \ {head} /\ head \in InQueue
          /\ head \in Nodes /\ next[head] \in Nodes
      <3>1. \A i \in 1 .. L : order[i] = head <=> i = 1
        BY <1>1, <1>2, <2>1 DEF Chain
      <3>2. \A n \in InQueue' : n \in InQueue /\ n # head
        BY <1>1, <2>2, <3>1 DEF InQueue
      <3>3. ASSUME NEW n \in InQueue, n # head PROVE n \in InQueue'
        <4>1. PICK i \in 2 .. L : n = order[i]
          BY <1>1, <2>1, <3>1, <3>3 DEF InQueue
        <4>2. i - 1 \in 1 .. L - 1 /\ order'[i - 1] = n
          BY <2>2, <4>1
        <4> QED
          BY <2>2, <4>2 DEF InQueue
      <3>4. head \in InQueue
        BY <1>2, QueueFacts
      <3> QED
        BY <1>2, <1>5, <3>2, <3>3, <3>4 DEF TypeOK
    <2>4. /\ \A p \in Producers : Linking(p)' <=> Linking(p)
          /\ \A p \in Producers : Swapping(p)' <=> Swapping(p)
      BY <1>3 DEF Linking, Swapping
    <2>5. TypeOK'
      BY <1>2, <1>3, <1>5, <2>2, <2>3 DEF TypeOK
    <2>6. Chain'
      <3>1. Len(order') >= 1 /\ order'[1] = head' /\ order'[Len(order')] = tail'
        <4>1. 1 \in 1 .. L - 1 /\ L - 1 \in 1 .. L - 1
          BY <2>1
        <4> QED
          BY <1>1, <1>2, <1>3, <1>5, <2>1, <2>2, <4>1 DEF Chain
      <3>2. \A i, j \in 1 .. Len(order') : order'[i] = order'[j] => i = j
        <4>1. \A i \in 1 .. L - 1 : i + 1 \in 1 .. L
          BY <1>1
        <4> QED
          BY <1>1, <1>2, <2>2, <4>1 DEF Chain
      <3>3. ASSUME NEW i \in 1 .. Len(order') - 1
            PROVE  \/ /\ next'[order'[i]] = order'[i + 1]
                      /\ \A q \in Producers : Linking(q)' => prev'[q] # order'[i]
                   \/ /\ next'[order'[i]] = NULL
                      /\ \E q \in Producers :
                           Linking(q)' /\ prev'[q] = order'[i] /\ mine'[q] = order'[i + 1]
        <4>1. i + 1 \in 1 .. L - 1 /\ i \in 1 .. L - 1
          BY <1>1, <2>2
        <4>2. order'[i] = order[i + 1] /\ order'[i + 1] = order[(i + 1) + 1]
          BY <2>2, <4>1
        <4> QED
          BY <1>1, <1>2, <1>3, <2>4, <4>1, <4>2 DEF Chain
      <3>4. next'[tail'] = NULL
        BY <1>2, <1>3 DEF Chain
      <3> QED
        BY <3>1, <3>2, <3>3, <3>4 DEF Chain
    <2>7. Pushing'
      <3>1. ASSUME NEW q \in Producers, Linking(q)'
            PROVE  \E i \in 1 .. Len(order') - 1 : prev'[q] = order'[i] /\ mine'[q] = order'[i + 1]
        <4>1. PICK i \in 1 .. L - 1 : prev[q] = order[i] /\ mine[q] = order[i + 1]
          BY <1>1, <1>2, <2>4, <3>1 DEF Pushing
        <4>2. i # 1
          BY <2>1, <2>4, <3>1, <4>1
        <4>3. i - 1 \in 1 .. Len(order') - 1 /\ i - 1 \in 1 .. L - 1
          BY <2>2, <4>1, <4>2
        <4>4. order'[i - 1] = order[i] /\ order'[(i - 1) + 1] = order[i + 1]
          BY SMTT(30), <2>2, <4>1, <4>2, <4>3
        <4> QED
          BY <1>3, <4>1, <4>3, <4>4
      <3>2. \A q \in Producers : Swapping(q)' =>
              /\ mine'[q] \in Nodes \ InQueue' /\ mine'[q] # h'
              /\ next'[mine'[q]] = NULL /\ data'[mine'[q]] \in Messages
        BY <1>2, <1>3, <1>5, <2>3, <2>4 DEF Pushing
      <3>3. \A q, r \in Producers :
              /\ Swapping(q)' /\ Swapping(r)' /\ mine'[q] = mine'[r] => q = r
              /\ Linking(q)' /\ Linking(r)' /\ prev'[q] = prev'[r] => q = r
        BY <1>2, <1>3, <2>4 DEF Pushing
      <3> QED
        BY <3>1, <3>2, <3>3 DEF Pushing
    <2>8. Allocated'
      <3>1. heap = InQueue \union {n \in Nodes : \E p \in Producers : Swapping(p) /\ mine[p] = n}
        <4>1. \A n \in Nodes : n # h
          BY <1>3, MpscPipeAssumption
        <4> QED
          BY <1>2, <1>3, <4>1 DEF Allocated
      <3> QED
        BY <1>3, <1>5, <2>3, <2>4, <3>1 DEF Allocated
    <2>9. Carries'
      <3>1. Len(log') = deq' + Len(order') - 1
        <4>1. deq \in Nat /\ Len(log) = deq + L - 1
          BY <1>1, <1>2 DEF Carries, TypeOK
        <4>2. log' = log
          BY <1>3
        <4> QED
          BY <1>5, <2>2, <4>1, <4>2
      <3>2. ASSUME NEW i \in 2 .. Len(order') PROVE data'[order'[i]] = log'[deq' + i - 1]
        <4>1. i \in 1 .. L - 1 /\ i + 1 \in 2 .. L
          BY <2>2, <3>2
        <4>2. deq' + i - 1 = deq + (i + 1) - 1
          BY <1>2, <1>5, <4>1 DEF TypeOK
        <4> QED
          BY <1>1, <1>2, <1>3, <2>2, <4>1, <4>2 DEF Carries
      <3> QED
        BY <3>1, <3>2 DEF Carries
    <2>10. Queue!Fifo!Dequeue
      <3>1. deq < Len(log) /\ 2 \in 2 .. L /\ deq + 2 - 1 = deq + 1
        BY <1>1, <1>2, <2>1 DEF Carries, TypeOK
      <3>2. data[order[2]] = log[deq + 1]
        BY <1>1, <1>2, <3>1 DEF Carries
      <3> QED
        BY <1>3, <1>5, <2>1, <3>1, <3>2 DEF Queue!Fifo!Dequeue
    <2> QED
      BY <1>3, <1>5, <2>5, <2>6, <2>7, <2>8, <2>9, <2>10 DEF QInv, Nothing, Queue!Fifo!Next
  <1> QED
    BY <1>4, <1>5 DEF Queue!Pop

(* The freed node was neither in the queue nor a producer's.               *)
LEMMA PopFreeKeeps ==
  ASSUME QInv, Queue!PopFree
  PROVE  QInv' /\ UNCHANGED <<log, deq, out>>
  <1>1. TypeOK /\ Chain /\ Pushing /\ Allocated /\ Carries /\ Nothing
    BY DEF QInv
  <1>2. /\ cpc = "free" /\ cpc' = "true" /\ heap' = heap \ {h} /\ h' = NULL
        /\ UNCHANGED <<head, tail, next, data, ppc, mine, prev, count, dropped,
                       order, log, deq, out>>
    BY DEF Queue!PopFree, Queue!producer, Queue!history
  <1>3. InQueue' = InQueue /\ \A p \in Producers : (Linking(p)' <=> Linking(p))
                                                  /\ (Swapping(p)' <=> Swapping(p))
    BY <1>2 DEF InQueue, Linking, Swapping
  <1>4. TypeOK' /\ Carries' /\ Nothing'
    BY <1>1, <1>2 DEF TypeOK, Carries, Nothing
  <1>7. Chain'
    BY <1>1, <1>2, <1>3 DEF Chain
  <1>5. Pushing'
    BY <1>1, <1>2, <1>3, MpscPipeAssumption DEF Pushing
  <1>6. Allocated'
    <2>1. \A p \in Producers : Swapping(p) => mine[p] # h
      BY <1>1 DEF Pushing
    <2> QED
      BY <1>1, <1>2, <1>3, <2>1, MpscPipeAssumption DEF Allocated
  <1> QED
    BY <1>2, <1>4, <1>7, <1>5, <1>6 DEF QInv

(* The caller of pop goes on.                                              *)
LEMMA CallKeeps ==
  ASSUME QInv, Queue!Call
  PROVE  QInv' /\ UNCHANGED <<log, deq, out>>
  <1>1. TypeOK /\ Chain /\ Pushing /\ Allocated /\ Carries /\ Nothing
    BY DEF QInv
  <1>2. /\ cpc \in {"true", "false"} /\ cpc' = "ready"
        /\ UNCHANGED <<heap, h, head, tail, next, data, ppc, mine, prev, count, dropped,
                       order, log, deq, out>>
    BY DEF Queue!Call, Queue!producer, Queue!memory, Queue!history
  <1>3. InQueue' = InQueue /\ \A p \in Producers : (Linking(p)' <=> Linking(p))
                                                  /\ (Swapping(p)' <=> Swapping(p))
    BY <1>2 DEF InQueue, Linking, Swapping
  <1>4. TypeOK' /\ Carries' /\ Nothing'
    BY <1>1, <1>2 DEF TypeOK, Carries, Nothing
  <1>7. Chain'
    BY <1>1, <1>2, <1>3 DEF Chain
  <1>5. Pushing' /\ Allocated'
    BY <1>1, <1>2, <1>3 DEF Pushing, Allocated
  <1> QED
    BY <1>2, <1>4, <1>7, <1>5 DEF QInv

(* A step that leaves the queue alone.                                     *)
LEMMA IdleKeeps ==
  ASSUME QInv, UNCHANGED queue
  PROVE  QInv' /\ UNCHANGED <<log, deq, out>>
  <1>1. UNCHANGED <<heap, h, head, tail, next, data, ppc, mine, prev, count, cpc, dropped,
                    order, log, deq, out>>
    BY DEF queue
  <1>2. InQueue' = InQueue /\ \A p \in Producers : (Linking(p)' <=> Linking(p))
                                                  /\ (Swapping(p)' <=> Swapping(p))
    BY <1>1 DEF InQueue, Linking, Swapping
  <1>3. TypeOK' /\ Carries' /\ Nothing'
    BY <1>1 DEF QInv, TypeOK, Carries, Nothing
  <1>4. Chain'
    BY <1>1, <1>2 DEF QInv, Chain
  <1>5. Pushing'
    BY <1>1, <1>2 DEF QInv, Pushing
  <1>6. Allocated'
    BY <1>1, <1>2 DEF QInv, Allocated
  <1> QED
    BY <1>1, <1>3, <1>4, <1>5, <1>6 DEF QInv

-----------------------------------------------------------------------------
(* The destructor                                                          *)

(* When no push is under way the chain has no gap, and the destructor comes *)
(* past every node of the queue and no other.                               *)
LEMMA ReachedIsQueue ==
  ASSUME TypeOK, Chain, \A p \in Producers : ~Linking(p)
  PROVE  Queue!Reached = InQueue
  <1>1. PICK L \in Nat \ {0} : L = Len(order)
    BY QueueFacts
  <1>2. /\ order[1] = head /\ order[L] = tail /\ next[tail] = NULL
        /\ \A i \in 1 .. L - 1 : next[order[i]] = order[i + 1]
    BY <1>1 DEF Chain
  <1>3. InQueue \subseteq Nodes /\ head \in InQueue /\ \A i \in 1 .. L : order[i] \in InQueue
    BY <1>1, QueueFacts
  <1>4. Queue!Closed(InQueue)
    <2>1. ASSUME NEW n \in InQueue PROVE next[n] \in InQueue \union {NULL}
      <3>1. PICK i \in 1 .. L : n = order[i]
        BY <1>1 DEF InQueue
      <3>2. CASE i = L
        BY <1>2, <3>1, <3>2
      <3>3. CASE i # L
        <4>1. i \in 1 .. L - 1 /\ i + 1 \in 1 .. L
          BY <3>1, <3>3
        <4> QED
          BY <1>2, <1>3, <3>1, <4>1
      <3> QED
        BY <3>2, <3>3
    <2> QED
      BY <1>3, <2>1 DEF Queue!Closed
  <1>5. ASSUME NEW S \in SUBSET Nodes, Queue!Closed(S) PROVE InQueue \subseteq S
    <2> DEFINE Missing == {i \in 1 .. L : order[i] \notin S}
    <2>1. SUFFICES ASSUME Missing # {} PROVE FALSE
      BY <1>1 DEF InQueue
    <2>2. PICK i \in Missing : \A j \in Missing : i <= j
      <3>1. Missing \subseteq Nat
        OBVIOUS
      <3> HIDE DEF Missing
      <3> QED
        BY <2>1, <3>1, LeastNat
    <2>3. i # 1
      BY <1>2, <1>5, <2>2 DEF Queue!Closed
    <2>4. i - 1 \in 1 .. L - 1 /\ i - 1 \in 1 .. L /\ (i - 1) + 1 = i /\ ~(i <= i - 1)
      BY <2>2, <2>3
    <2>5. order[i - 1] \in S
      BY <2>2, <2>4
    <2>6. next[order[i - 1]] = order[i] /\ order[i] \in Nodes
      BY <1>2, <1>3, <2>2, <2>4
    <2> QED
      BY <1>5, <2>2, <2>5, <2>6, MpscPipeAssumption DEF Queue!Closed
  <1> QED
    BY <1>3, <1>4, <1>5 DEF Queue!Reached

(* The destructor deletes what is allocated, and clears what was sent and   *)
(* not received.                                                            *)
LEMMA DestroyKeeps ==
  ASSUME QInv, Queue!Destroy
  PROVE  QInv' /\ UNCHANGED <<log, deq, out>>
  <1>1. PICK L \in Nat : L = Len(order)
    BY ElementFacts DEF QInv, TypeOK
  <1>2. TypeOK /\ Chain /\ Pushing /\ Allocated /\ Carries /\ Nothing
    BY DEF QInv
  <1>3. /\ cpc \in {"ready", "true", "false"} /\ cpc' = "destroyed"
        /\ \A p \in Producers : ppc[p] = "idle"
        /\ heap' = heap \ Queue!Reached
        /\ dropped' = {data[n] : n \in Queue!Reached \ {head}}
        /\ UNCHANGED <<head, tail, next, data, ppc, mine, prev, count, h,
                       order, log, deq, out>>
    BY DEF Queue!Destroy, Queue!Unused, Queue!producer, Queue!history
  <1>4. \A p \in Producers : ~Linking(p) /\ ~Swapping(p)
    BY <1>3 DEF Linking, Swapping
  <1>5. Queue!Reached = InQueue
    BY <1>2, <1>4, ReachedIsQueue
  <1>6. heap' = {}
    BY <1>2, <1>3, <1>4, <1>5, MpscPipeAssumption DEF Allocated
  <1>7. {data[n] : n \in InQueue \ {head}} = {log[i] : i \in (deq + 1) .. Len(log)}
    <2>1. /\ deq \in Nat /\ L >= 1 /\ Len(log) = deq + L - 1 /\ head = order[1]
          /\ \A i \in 2 .. L : data[order[i]] = log[deq + i - 1]
      BY <1>1, <1>2 DEF TypeOK, Chain, Carries
    <2>2. InQueue \ {head} = {order[i] : i \in 2 .. L}
      <3>1. 1 .. L = {1} \union (2 .. L)
        BY <2>1
      <3>2. \A i \in 2 .. L : order[i] # head
        BY <1>1, <1>2, <2>1, <3>1 DEF Chain
      <3> QED
        BY <1>1, <2>1, <3>1, <3>2 DEF InQueue
    <2>3. ASSUME NEW i \in 2 .. L PROVE deq + i - 1 \in (deq + 1) .. Len(log)
      BY <2>1
    <2>4. ASSUME NEW k \in (deq + 1) .. Len(log)
          PROVE  \E i \in 2 .. L : log[k] = data[order[i]]
      <3>1. PICK i \in 2 .. L : deq + i - 1 = k
        <4>1. k - deq + 1 \in 2 .. L /\ deq + (k - deq + 1) - 1 = k
          BY <2>1
        <4> QED
          BY <4>1
      <3> QED
        BY <2>1, <3>1
    <2>5. \A n \in InQueue \ {head} : \E k \in (deq + 1) .. Len(log) : data[n] = log[k]
      BY <2>1, <2>2, <2>3
    <2>6. \A k \in (deq + 1) .. Len(log) : \E n \in InQueue \ {head} : log[k] = data[n]
      BY <2>2, <2>4
    <2> QED
      BY <2>5, <2>6
  <1>8. TypeOK' /\ Carries'
    BY <1>2, <1>3, <1>6 DEF TypeOK, Carries
  <1>9. Chain'
    BY <1>2, <1>3 DEF Chain, Linking
  <1>10. Nothing'
    BY <1>3, <1>5, <1>6, <1>7 DEF Nothing
  <1>11. Pushing' /\ Allocated'
    BY <1>2, <1>3, <1>6 DEF Pushing, Allocated, InQueue, Linking, Swapping
  <1> QED
    BY <1>3, <1>8, <1>9, <1>10, <1>11 DEF QInv

-----------------------------------------------------------------------------
(* The pipe                                                                *)

(* Every step of the pipe takes a step of its queue, or none.              *)
LEMMA QueueStep ==
  ASSUME QInv, [Next]_vars
  PROVE  QInv' /\ [Queue!Fifo!Next]_<<log, deq, out>>
  <1>1. ASSUME NEW p \in Producers, Send(p) \/ Link(p) \/ SendStep(p)
        PROVE  QInv' /\ [Queue!Fifo!Next]_<<log, deq, out>>
    <2>1. CASE Send(p)
      BY <2>1, PushBeginKeeps DEF Send
    <2>2. CASE Link(p)
      BY <2>2, PushLinkKeeps DEF Link
    <2>3. CASE Swap(p)
      BY <2>3, PushSwapKeeps DEF Swap, Queue!Fifo!Next, Queue!Fifo!Enqueue, Messages
    <2>4. CASE NotifyLoad(p) \/ NotifyClear(p) \/ NotifyPost(p)
      BY <2>4, IdleKeeps DEF NotifyLoad, NotifyClear, NotifyPost
    <2> QED
      BY <1>1, <2>1, <2>2, <2>3, <2>4 DEF SendStep
  <1>2. CASE RecvStep
    BY <1>2, PopKeeps, PopFreeKeeps, CallKeeps, IdleKeeps
       DEF RecvStep, Func, FuncTrue, FuncFalse, Prepare, Cancel, Commit
  <1>3. CASE Destroy
    BY <1>3, DestroyKeeps DEF Destroy
  <1>4. CASE UNCHANGED vars
    BY <1>4, IdleKeeps DEF vars
  <1> QED
    BY <1>1, <1>2, <1>3, <1>4 DEF Next

(* Only the consumer takes a token, when it goes to sleep; only prepare and *)
(* the notifiers, who then post, change the announcement.                   *)
LEMMA EventStep ==
  ASSUME EventInv, [Next]_vars
  PROVE  EventInv'
  <1> USE DEF EventInv, Announced, Event!notify_needed, event
  <1>1. ASSUME NEW p \in Producers, Send(p) \/ Link(p) \/ SendStep(p)
        PROVE  EventInv'
    <2>1. CASE Send(p)
      BY <2>1 DEF Send
    <2>2. CASE Link(p) \/ Swap(p)
      BY <2>2 DEF Link, Swap
    <2>3. CASE NotifyLoad(p)
      BY <2>3 DEF NotifyLoad
    <2>4. CASE NotifyClear(p)
      BY <2>4 DEF NotifyClear, Event!notify_clear, Event!cancel_wait
    <2>5. CASE NotifyPost(p)
      BY <2>5 DEF NotifyPost, Event!notify_post
    <2> QED
      BY <1>1, <2>1, <2>2, <2>3, <2>4, <2>5 DEF SendStep
  <1>2. CASE RecvStep
    <2>1. CASE Func \/ FuncTrue \/ FuncFalse
      BY <2>1 DEF Func, FuncTrue, FuncFalse
    <2>2. CASE Prepare
      BY <2>2 DEF Prepare, Event!prepare_wait
    <2>3. CASE Cancel
      BY <2>3 DEF Cancel, Event!cancel_wait
    <2>4. CASE Commit
      BY <2>4 DEF Commit, Event!commit_wait
    <2> QED
      BY <1>2, <2>1, <2>2, <2>3, <2>4 DEF RecvStep
  <1>3. CASE Destroy
    BY <1>3 DEF Destroy
  <1>4. CASE UNCHANGED vars
    BY <1>4 DEF vars
  <1> QED
    BY <1>1, <1>2, <1>3, <1>4 DEF Next

(* The invariants of the queue in the pipe and of its eventcount.          *)
THEOREM Invariant == Spec => [](QInv /\ EventInv)
  <1>1. Init => QInv
    BY InitQInv DEF Init
  <1>2. Init => EventInv
    <2> SUFFICES ASSUME Init PROVE EventInv
      OBVIOUS
    <2>1. waiting = FALSE /\ semaphore = 0 /\ rpc = "first"
      BY DEF Init, Event!Init
    <2>2. spc \in [Producers -> {"idle", "push", "clear", "post"}]
      BY DEF Init
    <2> QED
      BY <2>1, <2>2 DEF EventInv, Announced
  <1>3. QInv /\ EventInv /\ [Next]_vars => (QInv /\ EventInv)'
    BY QueueStep, EventStep
  <1> QED
    BY <1>1, <1>2, <1>3, PTL DEF Spec

(* pop frees no node that a push may still store into, or that the queue     *)
(* still needs (mpsc_queue.hpp:67).                                         *)
THEOREM NoUseAfterFreeHolds == Spec => []NoUseAfterFree
  <1>1. QInv => NoUseAfterFree
    <2> SUFFICES ASSUME QInv, cpc # "destroyed"
                 PROVE  /\ head \in heap /\ tail \in heap
                        /\ \A p \in Producers : ppc[p] = "link" => prev[p] \in heap \ {h}
                        /\ cpc = "free" => h \in heap
      BY DEF NoUseAfterFree, Queue!NoUseAfterFree
    <2>1. InQueue \subseteq heap /\ h \notin InQueue /\ InQueue \subseteq Nodes
      BY QueueFacts, MpscPipeAssumption DEF QInv, Allocated
    <2>2. \A p \in Producers : ppc[p] = "link" => prev[p] \in InQueue
      BY QueueFacts DEF QInv, Pushing, Linking
    <2>3. head \in InQueue /\ tail \in InQueue
      BY QueueFacts DEF QInv
    <2> QED
      BY <2>1, <2>2, <2>3 DEF QInv, Allocated
  <1> QED
    BY <1>1, Invariant, PTL

(* A destroyed pipe has no node left, and the destructor cleared exactly    *)
(* the messages nobody received (mpsc_queue.hpp:38-50).                     *)
THEOREM NoLeakHolds == Spec => []NoLeak
  <1>1. QInv => NoLeak
    BY DEF QInv, Nothing, NoLeak, Queue!NoLeak
  <1> QED
    BY <1>1, Invariant, PTL

(* A consumer that sleeps without a token is announced, or about to be      *)
(* woken, in spite of every delayed store (eventcount.hpp:31-36).           *)
THEOREM WokenBySendHolds == Spec => []WokenBySend
  <1>1. EventInv => WokenBySend
    BY DEF EventInv, Announced, WokenBySend, Asleep, Event!notify_needed
  <1> QED
    BY <1>1, Invariant, PTL

(* The queue in the pipe implements the first-in first-out queue.          *)
THEOREM Refinement == Spec => ImplementsFifo
  <1>1. Init => Queue!Fifo!Init /\ QInv
    BY InitQInv DEF Init, Queue!Init, Queue!Fifo!Init
  <1>2. QInv /\ [Next]_vars => QInv' /\ [Queue!Fifo!Next]_Queue!Fifo!vars
    BY QueueStep DEF Queue!Fifo!vars
  <1> QED
    BY <1>1, <1>2, PTL DEF Spec, ImplementsFifo, Queue!ImplementsFifo, Queue!Fifo!SafeSpec

=============================================================================
