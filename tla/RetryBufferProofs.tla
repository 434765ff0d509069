--------------------------- MODULE RetryBufferProofs ---------------------------
(* Proofs about RetryBuffer, for every number of writes, of any sizes and keys, *)
(* and every limit of the queue and of a batch: the types, the accounts of the  *)
(* queue, what a returned post may rely on, and that the buffer is a queue per  *)
(* key (WriteQueue).                                                            *)
EXTENDS RetryBuffer, TLAPS, WellFoundedInduction, SequenceTheorems

\* A write is in a batch.
Holds(b, w) == \E j \in 1..Len(b.bufs) : b.bufs[j] = w

\* No batch is empty, and run has one in its hands exactly while it posts it.
BatchInv ==
  /\ \A i \in 1..Len(list) : list[i].bufs # <<>>
  /\ inflight # None <=> rpc \in {"post", "release"}
  /\ inflight # None => inflight.bufs # <<>>

\* The size is what the batches account for: rest[i] is the size of the batches
\* behind the i-th.
Accounts(rest, batches, total) ==
  /\ rest \in [0..Len(batches) -> Nat]
  /\ rest[0] = total /\ rest[Len(batches)] = 0
  /\ \A i \in 1..Len(batches) : rest[i - 1] = rest[i] + batches[i].size

SizeInv == \E rest \in [0..Len(list) -> Nat] : Accounts(rest, list, size)

\* The write of a post that has not returned: only such a write is in a batch.
Busy(w) == wpc[w] \in {"unlocked", "wait", "panic"}

PlaceInv ==
  \A w \in Writers :
    /\ \A i \in 1..Len(list) : Holds(list[i], w) => Busy(w)
    /\ inflight # None /\ Holds(inflight, w) => Busy(w)

\* The batch a post waits for is its own or a later one, never an earlier one.
Handled(w) ==
  /\ wpc[w] = "unlocked" => handle[w] \in Writers \cup {"head"}
  /\ wpc[w] = "wait" => handle[w] \in Writers
  /\ wpc[w] \in {"unlocked", "wait"} =>
       /\ \A i \in 1..Len(list) : Holds(list[i], w) =>
            \/ handle[w] = "head" /\ i = 1
            \/ \E k \in i..Len(list) : handle[w] = Head(list[k].bufs)
       /\ inflight # None /\ Holds(inflight, w) =>
            \/ handle[w] = "head" \/ handle[w] = Head(inflight.bufs)
            \/ \E k \in 1..Len(list) : handle[w] = Head(list[k].bufs)

HandleInv == \A w \in Writers : Handled(w)

\* The batch is named by its first write.
LEMMA HeadFacts ==
  ASSUME NEW b \in Batch, b.bufs # <<>>
  PROVE  /\ Head(b.bufs) \in Writers /\ Head(b.bufs) = b.bufs[1]
         /\ Holds(b, Head(b.bufs)) /\ Len(b.bufs) \in Nat \ {0}
  BY DEF Batch, Holds

\* A batch popped moves each of the others up by one place.
LEMMA TailFacts ==
  ASSUME NEW S, NEW s \in Seq(S), s # <<>>
  PROVE  /\ Len(s) \in Nat \ {0} /\ Head(s) \in S /\ Head(s) = s[1]
         /\ Tail(s) \in Seq(S) /\ Len(Tail(s)) = Len(s) - 1
         /\ \A i \in 1..Len(Tail(s)) : i + 1 \in 1..Len(s) /\ Tail(s)[i] = s[i + 1]
  OBVIOUS

\* A batch add appends to: one write and its size more.
LEMMA JoinedFacts ==
  ASSUME NEW b \in Batch, NEW w \in Writers
  PROVE  /\ Joined(b, w) \in Batch /\ Joined(b, w).bufs # <<>>
         /\ Joined(b, w).size = b.size + Size[w]
         /\ \A v \in Writers : Holds(Joined(b, w), v) => v = w \/ Holds(b, v)
         /\ \A v \in Writers : v = w \/ Holds(b, v) => Holds(Joined(b, w), v)
         /\ b.bufs # <<>> => Head(Joined(b, w).bufs) = Head(b.bufs)
<1>1. b.bufs \in Seq(Writers) /\ b.size \in Nat /\ Size[w] \in Nat
      /\ Append(b.bufs, w) \in Seq(Writers)
  BY SizeAssumption DEF Batch
<1> DEFINE bufs == Append(b.bufs, w)
           total == b.size + Size[w]
<1>2. Joined(b, w) \in Batch /\ Joined(b, w).bufs = bufs /\ Joined(b, w).size = total
  <2> HIDE DEF bufs
  <2>1. Joined(b, w) = [b EXCEPT !.bufs = bufs, !.size = total]
    BY DEF Joined, bufs
  <2>2. bufs \in Seq(Writers) /\ total \in Nat
    BY <1>1 DEF bufs
  <2>3. QED
    BY <2>1, <2>2 DEF Batch
<1>3. /\ Len(Append(b.bufs, w)) = Len(b.bufs) + 1 /\ Len(b.bufs) \in Nat
      /\ \A j \in 1..Len(b.bufs) : Append(b.bufs, w)[j] = b.bufs[j]
      /\ Append(b.bufs, w)[Len(b.bufs) + 1] = w
  BY DEF Batch
<1>4. Joined(b, w).bufs # <<>> /\ Joined(b, w).size = b.size + Size[w]
  BY <1>2, <1>3
<1>5. \A v \in Writers : Holds(Joined(b, w), v) => v = w \/ Holds(b, v)
  BY <1>2, <1>3 DEF Holds
<1>6. \A v \in Writers : v = w \/ Holds(b, v) => Holds(Joined(b, w), v)
  BY <1>2, <1>3 DEF Holds
<1>7. b.bufs # <<>> => Head(Joined(b, w).bufs) = Head(b.bufs)
  BY <1>2, <1>3 DEF Batch
<1>8. QED
  BY <1>2, <1>4, <1>5, <1>6, <1>7

\* A batch add passes on its way keeps its writes and its size.
LEMMA PassedFacts ==
  ASSUME NEW b \in Batch, NEW w \in Writers
  PROVE  Passed(b, w) \in Batch /\ Passed(b, w).bufs = b.bufs /\ Passed(b, w).size = b.size
  BY DEF Passed, Batch

\* A batch add opens holds the one write.
LEMMA NewFacts ==
  ASSUME NEW w \in Writers
  PROVE  /\ NewBatch(w) \in Batch /\ NewBatch(w).bufs = <<w>> /\ NewBatch(w).size = Size[w]
         /\ NewBatch(w).bufs # <<>> /\ Holds(NewBatch(w), w)
         /\ \A v \in Writers : Holds(NewBatch(w), v) => v = w
  BY KeyAssumption, SizeAssumption DEF NewBatch, Batch, Holds

\* What add does to the list, batch by batch.
LEMMA AddFacts ==
  ASSUME TypeOK, NEW w \in Writers, Add(w)
  PROVE  \E t \in 1..Len(list) + 1 :
           /\ Len(list) \in Nat /\ Len(list') \in Nat
           /\ Len(list') = IF t = Len(list) + 1 THEN t ELSE Len(list)
           /\ list' \in Seq(Batch)
           /\ list'[t] = IF t = Len(list) + 1 THEN NewBatch(w) ELSE Joined(list[t], w)
           /\ \A i \in 1..Len(list) \ {t} : list'[i] = list[i] \/ list'[i] = Passed(list[i], w)
           /\ IsTarget(w, t) /\ \A i \in 1..Len(list) : i < t => list'[i] = Passed(list[i], w)
           /\ handle' = [handle EXCEPT ![w] = IF t = 1 THEN "head" ELSE Head(list'[t].bufs)]
<1>1. PICK t \in 1..Len(list) + 1 :
        /\ IsTarget(w, t) /\ list' = WithWrite(w, t)
        /\ handle' = [handle EXCEPT ![w] = IF t = 1 THEN "head" ELSE Head(list'[t].bufs)]
  BY DEF Add
<1> DEFINE n == IF t > Len(list) THEN t ELSE Len(list)
<1>2. Len(list) \in Nat /\ n \in Nat /\ \A i \in 1..Len(list) : list[i] \in Batch
  BY DEF TypeOK
<1>3. \A i \in 1..n :
        list'[i] = IF i < t THEN Passed(list[i], w)
                   ELSE IF i > Len(list) THEN NewBatch(w)
                   ELSE IF i = t THEN Joined(list[i], w) ELSE list[i]
  BY <1>1 DEF WithWrite
<1> HIDE DEF n
<1>4. ASSUME NEW i \in 1..n PROVE list'[i] \in Batch
  <2>1. i \in Nat /\ (i <= Len(list) => i \in 1..Len(list))
    BY <1>2
  <2>2. i < t => i \in 1..Len(list)
    BY <1>2, <2>1
  <2>3. CASE i < t
    BY <1>2, <1>3, <2>2, <2>3, PassedFacts
  <2>4. CASE ~(i < t) /\ i > Len(list)
    BY <1>3, <2>4, NewFacts
  <2>5. CASE ~(i < t) /\ ~(i > Len(list))
    BY <1>2, <1>3, <2>1, <2>5, JoinedFacts
  <2>6. QED
    BY <2>3, <2>4, <2>5
<1>5. list' \in [1..n -> Batch]
  <2>1. list' = [i \in 1..n |-> list'[i]]
    BY <1>1 DEF WithWrite, n
  <2>2. QED
    BY <1>4, <2>1
<1>6. list' \in Seq(Batch) /\ Len(list') = n
  BY <1>2, <1>5
<1>7. QED
  <2>1. /\ t \in 1..n /\ 1..Len(list) \subseteq 1..n
        /\ n = (IF t = Len(list) + 1 THEN t ELSE Len(list))
    BY <1>2 DEF n
  <2>2. list'[t] = IF t = Len(list) + 1 THEN NewBatch(w) ELSE Joined(list[t], w)
    BY <1>2, <1>3, <2>1
  <2>3. \A i \in 1..Len(list) \ {t} : list'[i] = list[i] \/ list'[i] = Passed(list[i], w)
    BY <1>2, <1>3, <2>1
  <2>4. \A i \in 1..Len(list) : i < t => list'[i] = Passed(list[i], w)
    BY <1>2, <1>3, <2>1
  <2>5. QED
    BY <1>1, <1>2, <1>6, <2>1, <2>2, <2>3, <2>4

\* What run's pop takes, and what it leaves.
LEMMA PopFacts ==
  ASSUME TypeOK, BatchInv, SizeInv, Pop
  PROVE  /\ Len(list) \in Nat \ {0} /\ inflight' = list[1] /\ inflight' \in Batch
         /\ list' \in Seq(Batch) /\ Len(list') = Len(list) - 1
         /\ \A i \in 1..Len(list') : i + 1 \in 1..Len(list) /\ list'[i] = list[i + 1]
         /\ size' \in Nat /\ size' <= size /\ SizeInv'
<1>1. size > 0 /\ inflight' = Head(list) /\ list' = Tail(list) /\ size' = size - Head(list).size
  BY DEF Pop
<1>2. PICK rest \in [0..Len(list) -> Nat] : Accounts(rest, list, size)
  BY DEF SizeInv
<1>3. Len(list) \in Nat /\ list \in Seq(Batch)
  BY DEF TypeOK
<1>4. list # <<>>
  <2>1. SUFFICES ASSUME list = <<>> PROVE FALSE
    OBVIOUS
  <2>2. Len(list) = 0
    BY <2>1
  <2>3. size = 0
    BY <1>2, <2>2 DEF Accounts
  <2>4. QED
    BY <1>1, <2>3
<1>5. /\ Len(list) \in Nat \ {0} /\ Head(list) \in Batch /\ Head(list) = list[1]
      /\ Tail(list) \in Seq(Batch) /\ Len(Tail(list)) = Len(list) - 1
      /\ \A i \in 1..Len(Tail(list)) : i + 1 \in 1..Len(list) /\ Tail(list)[i] = list[i + 1]
  BY <1>3, <1>4, TailFacts
<1>6. size = rest[1] + list[1].size /\ rest[1] \in Nat /\ list[1].size \in Nat
  <2>1. 1 \in 1..Len(list) /\ 1 \in 0..Len(list) /\ 1 - 1 = 0
    BY <1>5
  <2>2. rest[1 - 1] = rest[1] + list[1].size /\ rest[0] = size /\ rest[1] \in Nat
    BY <1>2, <2>1 DEF Accounts
  <2>3. QED
    BY <1>5, <2>1, <2>2 DEF Batch
<1>7. size' = rest[1] /\ size' \in Nat /\ size' <= size
  BY <1>1, <1>5, <1>6 DEF TypeOK
<1> DEFINE fewer == [i \in 0..Len(list') |-> rest[i + 1]]
<1>8. fewer \in [0..Len(list') -> Nat]
  <2>1. \A i \in 0..Len(list') : i + 1 \in 0..Len(list)
    BY <1>1, <1>5
  <2>2. QED
    BY <1>2, <2>1
<1>9. Accounts(fewer, list', size')
  <2>1. 0 \in 0..Len(list') /\ Len(list') \in 0..Len(list') /\ Len(list') + 1 = Len(list)
    BY <1>1, <1>5
  <2>2. fewer[0] = size' /\ fewer[Len(list')] = 0
    BY <1>2, <1>7, <2>1 DEF Accounts
  <2>3. ASSUME NEW i \in 1..Len(list')
        PROVE  fewer[i - 1] = fewer[i] + list'[i].size
    <3>1. i - 1 \in 0..Len(list') /\ i \in 0..Len(list') /\ (i - 1) + 1 = (i + 1) - 1
          /\ i + 1 \in 1..Len(list) /\ list'[i] = list[i + 1]
      BY <1>1, <1>5
    <3>2. rest[(i + 1) - 1] = rest[i + 1] + list[i + 1].size
      BY <1>2, <3>1 DEF Accounts
    <3>3. fewer[i - 1] = rest[(i - 1) + 1] /\ fewer[i] = rest[i + 1]
      BY <3>1
    <3>4. QED
      BY <3>1, <3>2, <3>3
  <2>4. QED
    BY <1>8, <2>2, <2>3 DEF Accounts
<1>10. SizeInv'
  BY <1>8, <1>9 DEF SizeInv
<1>11. QED
  BY <1>1, <1>5, <1>7, <1>10

\* Adding a write keeps the account.
LEMMA AddKeepsSize ==
  ASSUME TypeOK, SizeInv, NEW w \in Writers, Add(w)
  PROVE  SizeInv'
<1>1. PICK rest \in [0..Len(list) -> Nat] : Accounts(rest, list, size)
  BY DEF SizeInv
<1>2. PICK t \in 1..Len(list) + 1 :
        /\ Len(list) \in Nat /\ Len(list') \in Nat
        /\ Len(list') = IF t = Len(list) + 1 THEN t ELSE Len(list)
        /\ list'[t] = IF t = Len(list) + 1 THEN NewBatch(w) ELSE Joined(list[t], w)
        /\ \A i \in 1..Len(list) \ {t} : list'[i] = list[i] \/ list'[i] = Passed(list[i], w)
  BY AddFacts
<1>3. Size[w] \in Nat /\ size' = size + Size[w] /\ size \in Nat
      /\ \A i \in 1..Len(list) : list[i] \in Batch /\ list[i].size \in Nat
  <2>1. Size[w] \in Nat /\ size' = size + Size[w] /\ size \in Nat
    <3>1. size' = size + Size[w]
      BY DEF Add
    <3>2. size \in Nat
      BY LimitsAssumption DEF TypeOK
    <3>3. QED
      BY <3>1, <3>2, SizeAssumption
  <2>2. \A i \in 1..Len(list) : list[i] \in Batch
    BY DEF TypeOK
  <2>3. QED
    BY <2>1, <2>2 DEF Batch
<1> DEFINE more == [i \in 0..Len(list') |->
                      IF i > Len(list) THEN 0 ELSE IF i < t THEN rest[i] + Size[w] ELSE rest[i]]
<1>4. more \in [0..Len(list') -> Nat]
  <2>1. \A i \in 0..Len(list') : ~(i > Len(list)) => i \in 0..Len(list)
    BY <1>2
  <2>2. QED
    BY <1>1, <1>3, <2>1
<1>5. more[0] = size' /\ more[Len(list')] = 0
  <2>1. 0 \in 0..Len(list') /\ Len(list') \in 0..Len(list') /\ ~(0 > Len(list)) /\ 0 < t
    BY <1>2
  <2>2. more[0] = size'
    BY <1>1, <1>3, <2>1 DEF Accounts
  <2>3. CASE t = Len(list) + 1
    BY <1>2, <2>1, <2>2, <2>3
  <2>4. CASE t # Len(list) + 1
    <3>1. Len(list') = Len(list) /\ ~(Len(list) < t)
      BY <1>2, <2>4
    <3>2. more[Len(list')] = rest[Len(list)]
      BY <1>2, <2>1, <3>1
    <3>3. QED
      BY <1>1, <2>2, <3>2 DEF Accounts
  <2>5. QED
    BY <2>2, <2>3, <2>4
<1>6. ASSUME NEW i \in 1..Len(list')
      PROVE  more[i - 1] = more[i] + list'[i].size
  <2>1. i \in Nat /\ i - 1 \in 0..Len(list') /\ i \in 0..Len(list')
    BY <1>2
  <2>2. CASE i = Len(list) + 1
    <3>1. t = Len(list) + 1 /\ i = t /\ list'[i].size = Size[w]
      BY <1>2, <2>2, NewFacts
    <3>2. more[i] = 0
      BY <1>2, <2>1, <2>2
    <3>3. i - 1 = Len(list) /\ Len(list) \in 0..Len(list') /\ ~(Len(list) > Len(list))
      BY <1>2, <2>1, <2>2
    <3>4. more[i - 1] = rest[Len(list)] + Size[w]
      BY <1>2, <3>1, <3>3
    <3>5. QED
      BY <1>1, <1>3, <3>1, <3>2, <3>4 DEF Accounts
  <2>3. CASE i # Len(list) + 1
    <3>1. i \in 1..Len(list) /\ i - 1 \in 0..Len(list) /\ i \in 0..Len(list)
      BY <1>2, <2>3
    <3>2. rest[i - 1] = rest[i] + list[i].size
      BY <1>1, <3>1 DEF Accounts
    <3>3. rest[i - 1] \in Nat /\ rest[i] \in Nat /\ list[i].size \in Nat /\ Size[w] \in Nat
      BY <1>1, <1>3, <3>1
    <3>4. /\ more[i - 1] = (IF i - 1 < t THEN rest[i - 1] + Size[w] ELSE rest[i - 1])
          /\ more[i] = (IF i < t THEN rest[i] + Size[w] ELSE rest[i])
      BY <1>2, <2>1, <3>1
    <3>5. i # t => list'[i].size = list[i].size
      BY <1>2, <1>3, <3>1, PassedFacts, SMTT(30)
    <3>6. i = t => list'[i].size = list[i].size + Size[w]
      BY <1>2, <1>3, <2>3, <3>1, JoinedFacts
    <3>7. i - 1 < t <=> i < t \/ i = t
      BY <2>1, <1>2
    <3>8. QED
      <4> HIDE DEF more
      <4>1. CASE i = t
        <5>1. more[i - 1] = rest[i - 1] + Size[w] /\ more[i] = rest[i]
          BY <1>2, <2>1, <3>4, <3>7, <4>1
        <5>2. QED
          BY <3>2, <3>3, <3>6, <4>1, <5>1, SMTT(30)
      <4>2. CASE i < t
        <5>1. more[i - 1] = rest[i - 1] + Size[w] /\ more[i] = rest[i] + Size[w]
          BY <3>4, <3>7, <4>2
        <5>2. i # t
          BY <1>2, <2>1, <4>2
        <5>3. QED
          BY <3>2, <3>3, <3>5, <5>1, <5>2, SMTT(30)
      <4>3. CASE i # t /\ ~(i < t)
        <5>1. more[i - 1] = rest[i - 1] /\ more[i] = rest[i]
          BY <3>4, <3>7, <4>3
        <5>2. QED
          BY <3>2, <3>5, <4>3, <5>1
      <4>4. QED
        BY <4>1, <4>2, <4>3
  <2>4. QED
    BY <2>2, <2>3
<1>7. Accounts(more, list', size')
  BY <1>4, <1>5, <1>6 DEF Accounts
<1>8. QED
  BY <1>4, <1>7 DEF SizeInv

\* Adding a write leaves every batch its place, its name and its writes.
LEMMA AddShape ==
  ASSUME TypeOK, BatchInv, NEW w \in Writers, Add(w)
  PROVE  \E t \in 1..Len(list) + 1 :
           /\ Len(list) \in Nat /\ Len(list') \in Nat /\ list' \in Seq(Batch)
           /\ 1..Len(list) \subseteq 1..Len(list') /\ t \in 1..Len(list')
           /\ \A i \in 1..Len(list') : list'[i].bufs # <<>>
           /\ \A i \in 1..Len(list) : /\ Head(list'[i].bufs) = Head(list[i].bufs)
                                      /\ \A v \in Writers : Holds(list[i], v) => Holds(list'[i], v)
           /\ \A i \in 1..Len(list'), v \in Writers :
                Holds(list'[i], v) => \/ v = w /\ i = t
                                      \/ i \in 1..Len(list) /\ Holds(list[i], v)
           /\ Holds(list'[t], w)
           /\ handle' = [handle EXCEPT ![w] = IF t = 1 THEN "head" ELSE Head(list'[t].bufs)]
<1>1. PICK t \in 1..Len(list) + 1 :
        /\ Len(list) \in Nat /\ Len(list') \in Nat
        /\ Len(list') = IF t = Len(list) + 1 THEN t ELSE Len(list)
        /\ list' \in Seq(Batch)
        /\ list'[t] = IF t = Len(list) + 1 THEN NewBatch(w) ELSE Joined(list[t], w)
        /\ \A i \in 1..Len(list) \ {t} : list'[i] = list[i] \/ list'[i] = Passed(list[i], w)
        /\ handle' = [handle EXCEPT ![w] = IF t = 1 THEN "head" ELSE Head(list'[t].bufs)]
  BY AddFacts
<1>2. \A i \in 1..Len(list) : list[i] \in Batch /\ list[i].bufs # <<>>
  BY DEF TypeOK, BatchInv
<1>3. 1..Len(list) \subseteq 1..Len(list') /\ t \in 1..Len(list')
      /\ \A i \in 1..Len(list') : i = t \/ i \in 1..Len(list) \ {t}
  BY <1>1
<1>4. \A i \in 1..Len(list) \ {t} : list'[i].bufs = list[i].bufs
  BY <1>1, <1>2, PassedFacts
<1>5. t = Len(list) + 1 => list'[t] = NewBatch(w)
  BY <1>1
<1>6. t # Len(list) + 1 => t \in 1..Len(list) /\ list'[t] = Joined(list[t], w)
  BY <1>1
<1>7. \A i \in 1..Len(list') : list'[i].bufs # <<>>
  BY <1>2, <1>3, <1>4, <1>5, <1>6, NewFacts, JoinedFacts
<1>8. \A i \in 1..Len(list) : Head(list'[i].bufs) = Head(list[i].bufs)
  BY <1>1, <1>2, <1>4, <1>6, JoinedFacts
<1>9. \A i \in 1..Len(list), v \in Writers : Holds(list[i], v) => Holds(list'[i], v)
  <2>1. \A i \in 1..Len(list) \ {t}, v \in Writers : Holds(list[i], v) => Holds(list'[i], v)
    BY <1>4 DEF Holds
  <2>2. t # Len(list) + 1 => \A v \in Writers : Holds(list[t], v) => Holds(list'[t], v)
    BY <1>2, <1>6, JoinedFacts
  <2>3. QED
    BY <1>1, <2>1, <2>2
<1>10. \A i \in 1..Len(list'), v \in Writers :
          Holds(list'[i], v) => \/ v = w /\ i = t
                                \/ i \in 1..Len(list) /\ Holds(list[i], v)
  <2>1. \A i \in 1..Len(list) \ {t}, v \in Writers : Holds(list'[i], v) => Holds(list[i], v)
    BY <1>4 DEF Holds
  <2>2. ASSUME NEW v \in Writers, Holds(list'[t], v)
        PROVE  v = w \/ (t \in 1..Len(list) /\ Holds(list[t], v))
    <3>1. CASE t = Len(list) + 1
      BY <1>5, <2>2, <3>1, NewFacts
    <3>2. CASE t # Len(list) + 1
      BY <1>2, <1>6, <2>2, <3>2, JoinedFacts
    <3>3. QED
      BY <3>1, <3>2
  <2>3. QED
    BY <1>3, <2>1, <2>2
<1>11. Holds(list'[t], w)
  BY <1>2, <1>5, <1>6, NewFacts, JoinedFacts
<1>12. QED
  BY <1>1, <1>3, <1>7, <1>8, <1>9, <1>10, <1>11

\* Types, step by step; size stays in its bounds by the account.
LEMMA TypesStep ==
  ASSUME TypeOK, BatchInv, SizeInv, HandleInv, Next
  PROVE  TypeOK'
<1> USE LimitsAssumption, RepliesAssumption
    DEF TypeOK, WriterPC, RunPC, GoW, GoR, listVars, runVars, backendVars, writerVars
<1>1. ASSUME NEW w \in Writers, LoadBuffering(w) PROVE TypeOK'
  BY <1>1 DEF LoadBuffering
<1>2. ASSUME NEW w \in Writers, DirectSucceeds(w) PROVE TypeOK'
  BY <1>2 DEF DirectSucceeds, Accepted
<1>3. ASSUME NEW w \in Writers, DirectFails(w) PROVE TypeOK'
  BY <1>3 DEF DirectFails, Failed
<1>4. ASSUME NEW w \in Writers, StoreBuffering(w) PROVE TypeOK'
  BY <1>4 DEF StoreBuffering
<1>5. ASSUME NEW w \in Writers, Refuse(w) PROVE TypeOK'
  BY <1>5 DEF Refuse
<1>6. ASSUME NEW w \in Writers, Add(w) PROVE TypeOK'
  <2>1. /\ list' \in Seq(Batch)
        /\ handle' \in [Writers -> Writers \cup {"head", None}]
    <3>1. PICK t \in 1..Len(list) + 1 :
            /\ list' \in Seq(Batch) /\ t \in 1..Len(list') /\ list'[t].bufs # <<>>
            /\ handle' = [handle EXCEPT ![w] = IF t = 1 THEN "head" ELSE Head(list'[t].bufs)]
      BY <1>6, AddShape
    <3>2. list'[t] \in Batch
      BY <3>1
    <3>3. Head(list'[t].bufs) \in Writers
      BY <3>1, <3>2, HeadFacts
    <3>4. (IF t = 1 THEN "head" ELSE Head(list'[t].bufs)) \in Writers \cup {"head", None}
      BY <3>3
    <3>5. handle' \in [Writers -> Writers \cup {"head", None}]
      BY <3>1, <3>4
    <3>6. QED
      BY <3>1, <3>5
  <2>2. size' \in Nat /\ size' <= MaxBuffered
    <3>1. size' = size + Size[w] /\ HasRoom(w)
      BY <1>6 DEF Add
    <3>2. QED
      BY <3>1, SizeAssumption DEF HasRoom
  <2>3. wpc' \in [Writers -> WriterPC] /\ rpc' \in RunPC
    BY <1>6 DEF Add, Signal
  <2>4. UNCHANGED <<buffering, answer, inflight, reply, applied, fails>>
    BY <1>6 DEF Add
  <2>5. QED
    BY <2>1, <2>2, <2>3, <2>4
<1>7. ASSUME NEW w \in Writers, ReadHandle(w) PROVE TypeOK'
  <2>1. list # <<>> => Head(Head(list).bufs) \in Writers
    <3>1. list # <<>> => Head(list) \in Batch /\ Head(list) = list[1] /\ 1 \in 1..Len(list)
      BY TailFacts
    <3>2. QED
      BY <3>1, HeadFacts DEF BatchInv
  <2>2. QED
    BY <1>7, <2>1 DEF ReadHandle
<1>8. ASSUME NEW w \in Writers, Wait(w) PROVE TypeOK'
  <2>1. handle[w] \in Writers
    BY <1>8 DEF Wait, HandleInv, Handled
  <2>2. QED
    BY <1>8, <2>1 DEF Wait
<1>9. CASE Sleep
  BY <1>9 DEF Sleep
<1>10. CASE Pop
  BY <1>10, PopFacts DEF Pop
<1>11. CASE RetrySucceeds
  <2>1. inflight \in Batch /\ inflight.bufs # <<>>
    BY <1>11 DEF RetrySucceeds, BatchInv
  <2>2. ToSet(inflight.bufs) \subseteq Writers /\ Head(inflight.bufs) \in Writers
    BY <2>1, HeadFacts DEF ToSet, Batch
  <2>3. QED
    BY <1>11, <2>2 DEF RetrySucceeds, Accepted
<1>12. CASE RetryFails
  BY <1>12 DEF RetryFails, Failed
<1>13. CASE Release
  BY <1>13 DEF Release
<1>14. QED
  BY <1>1, <1>2, <1>3, <1>4, <1>5, <1>6, <1>7, <1>8, <1>9, <1>10, <1>11, <1>12, <1>13
     DEF Next, WriterStep, RunStep

\* No step empties a batch.
LEMMA BatchStep ==
  ASSUME TypeOK, BatchInv, SizeInv, Next
  PROVE  BatchInv' /\ SizeInv'
<1> USE DEF GoW, GoR, listVars, runVars, backendVars, writerVars
<1>1. ASSUME NEW w \in Writers, Add(w) PROVE BatchInv' /\ SizeInv'
  <2>1. \A i \in 1..Len(list') : list'[i].bufs # <<>>
    BY <1>1, AddShape
  <2>2. inflight' = inflight /\ (rpc' \in {"post", "release"} <=> rpc \in {"post", "release"})
    BY <1>1 DEF Add, Signal, TypeOK, RunPC
  <2>3. QED
    BY <1>1, <2>1, <2>2, AddKeepsSize DEF BatchInv
<1>2. CASE Pop
  <2>1. /\ inflight' \in Batch /\ inflight' = list[1] /\ 1 \in 1..Len(list) /\ SizeInv'
        /\ \A i \in 1..Len(list') : i + 1 \in 1..Len(list) /\ list'[i] = list[i + 1]
    BY <1>2, PopFacts
  <2>2. rpc' = "post"
    BY <1>2 DEF Pop
  <2>3. inflight' # None
    BY <2>1, NamesAssumption
  <2>4. QED
    BY <2>1, <2>2, <2>3 DEF BatchInv
<1>3. CASE Release
  BY <1>3 DEF Release, BatchInv, SizeInv
<1>4. ASSUME UNCHANGED <<list, inflight, size>>,
             rpc' \in {"post", "release"} <=> rpc \in {"post", "release"}
      PROVE  BatchInv' /\ SizeInv'
  BY <1>4 DEF BatchInv, SizeInv
<1>5. ASSUME NEW w \in Writers,
             \/ LoadBuffering(w) \/ DirectSucceeds(w) \/ DirectFails(w) \/ StoreBuffering(w)
             \/ Refuse(w) \/ ReadHandle(w) \/ Wait(w)
      PROVE  BatchInv' /\ SizeInv'
  BY <1>4, <1>5 DEF LoadBuffering, DirectSucceeds, DirectFails, StoreBuffering, Refuse,
                    ReadHandle, Wait
<1>6. CASE Sleep \/ RetrySucceeds \/ RetryFails
  BY <1>4, <1>6 DEF Sleep, RetrySucceeds, RetryFails
<1>7. QED
  BY <1>1, <1>2, <1>3, <1>5, <1>6 DEF Next, WriterStep, RunStep

\* A post returns only when no batch holds its write any more: the batch it waited
\* for is the write's own or one behind it.
LEMMA WaitFrees ==
  ASSUME TypeOK, HandleInv, NEW w \in Writers, Wait(w)
  PROVE  /\ \A i \in 1..Len(list) : ~Holds(list[i], w)
         /\ inflight # None => ~Holds(inflight, w)
<1>1. wpc[w] = "wait" /\ Released(handle[w]) /\ handle[w] # "head"
  BY NamesAssumption DEF Wait, GoW, HandleInv, Handled
<1>2. \A i \in 1..Len(list) : ~Holds(list[i], w)
  <2>1. SUFFICES ASSUME NEW i \in 1..Len(list), Holds(list[i], w) PROVE FALSE
    OBVIOUS
  <2>2. PICK k \in i..Len(list) : handle[w] = Head(list[k].bufs)
    BY <1>1, <2>1 DEF HandleInv, Handled
  <2>3. k \in 1..Len(list)
    BY DEF TypeOK
  <2>4. QED
    BY <1>1, <2>2, <2>3 DEF Released
<1>3. inflight # None => ~Holds(inflight, w)
  BY <1>1 DEF HandleInv, Handled, Released
<1>4. QED
  BY <1>2, <1>3

\* No step leaves the write of a returned post in a batch.
LEMMA PlaceStep ==
  ASSUME TypeOK, BatchInv, SizeInv, PlaceInv, HandleInv, Next
  PROVE  PlaceInv'
<1> USE DEF TypeOK, Busy, GoW, GoR, listVars, runVars, backendVars, writerVars
<1>1. ASSUME UNCHANGED <<list, inflight>>,
             \A v \in Writers :
               Busy(v) => \/ Busy(v)'
                          \/ /\ \A i \in 1..Len(list) : ~Holds(list[i], v)
                             /\ inflight # None => ~Holds(inflight, v)
      PROVE  PlaceInv'
  BY <1>1 DEF PlaceInv, Holds
<1>2. ASSUME NEW w \in Writers,
             \/ LoadBuffering(w) \/ DirectSucceeds(w) \/ DirectFails(w) \/ StoreBuffering(w)
             \/ Refuse(w) \/ ReadHandle(w)
      PROVE  PlaceInv'
  <2>1. UNCHANGED <<list, inflight>>
    BY <1>2 DEF LoadBuffering, DirectSucceeds, DirectFails, StoreBuffering, Refuse, ReadHandle
  <2>2. \A v \in Writers : Busy(v) => Busy(v)'
    BY <1>2 DEF LoadBuffering, DirectSucceeds, DirectFails, StoreBuffering, Refuse, ReadHandle
  <2>3. QED
    BY <1>1, <2>1, <2>2
<1>3. ASSUME NEW w \in Writers, Wait(w) PROVE PlaceInv'
  <2>1. UNCHANGED <<list, inflight>>
    BY <1>3 DEF Wait
  <2>2. \A v \in Writers : v # w /\ Busy(v) => Busy(v)'
    BY <1>3 DEF Wait
  <2>3. QED
    BY <1>1, <1>3, <2>1, <2>2, WaitFrees
<1>4. ASSUME NEW w \in Writers, Add(w) PROVE PlaceInv'
  <2>1. wpc' = [wpc EXCEPT ![w] = "unlocked"] /\ UNCHANGED inflight
    BY <1>4 DEF Add
  <2>2. \A v \in Writers : Busy(v) => Busy(v)'
    BY <2>1
  <2>3. Busy(w)'
    BY <2>1
  <2>4. \A i \in 1..Len(list'), v \in Writers :
          Holds(list'[i], v) => v = w \/ (\E k \in 1..Len(list) : Holds(list[k], v))
    BY <1>4, AddShape
  <2>5. QED
    BY <2>1, <2>2, <2>3, <2>4 DEF PlaceInv
<1>5. CASE Pop
  <2>1. /\ inflight' = list[1] /\ 1 \in 1..Len(list) /\ UNCHANGED wpc
        /\ \A i \in 1..Len(list') : i + 1 \in 1..Len(list) /\ list'[i] = list[i + 1]
    BY <1>5, PopFacts DEF Pop
  <2>2. QED
    BY <2>1 DEF PlaceInv
<1>6. CASE Sleep \/ RetrySucceeds \/ RetryFails
  BY <1>1, <1>6 DEF Sleep, RetrySucceeds, RetryFails
<1>7. CASE Release
  BY <1>7 DEF Release, PlaceInv
<1>8. QED
  BY <1>2, <1>3, <1>4, <1>5, <1>6, <1>7 DEF Next, WriterStep, RunStep

\* No step lets a post wait for a batch in front of its own.
LEMMA HandleStep ==
  ASSUME TypeOK, BatchInv, SizeInv, PlaceInv, HandleInv, Next
  PROVE  HandleInv'
<1> USE DEF TypeOK, GoW, GoR, listVars, runVars, backendVars, writerVars
<1>1. ASSUME NEW v \in Writers, UNCHANGED <<list, inflight, wpc[v], handle[v]>>
      PROVE  Handled(v)'
  BY <1>1 DEF HandleInv, Handled, Holds
<1>2. ASSUME NEW w \in Writers,
             \/ LoadBuffering(w) \/ DirectSucceeds(w) \/ DirectFails(w) \/ StoreBuffering(w)
             \/ Refuse(w) \/ Wait(w)
      PROVE  HandleInv'
  <2>1. UNCHANGED <<list, inflight>> /\ wpc'[w] \notin {"unlocked", "wait"}
    BY <1>2 DEF LoadBuffering, DirectSucceeds, DirectFails, StoreBuffering, Refuse, Wait
  <2>2. \A v \in Writers \ {w} : UNCHANGED <<wpc[v], handle[v]>>
    BY <1>2 DEF LoadBuffering, DirectSucceeds, DirectFails, StoreBuffering, Refuse, Wait
  <2>3. Handled(w)'
    BY <2>1 DEF Handled
  <2>4. QED
    BY <1>1, <2>1, <2>2, <2>3 DEF HandleInv
<1>3. ASSUME NEW w \in Writers, ReadHandle(w) PROVE HandleInv'
  <2>1. UNCHANGED <<list, inflight>>
    BY <1>3 DEF ReadHandle
  <2>2. \A v \in Writers \ {w} : UNCHANGED <<wpc[v], handle[v]>>
    BY <1>3 DEF ReadHandle
  <2>3. CASE handle[w] # "head" /\ wpc' = [wpc EXCEPT ![w] = "wait"] /\ UNCHANGED handle
    <3>1. wpc[w] = "unlocked" /\ handle[w] \in Writers
      BY <1>3, <2>3 DEF ReadHandle, HandleInv, Handled
    <3>2. Handled(w)'
      BY <2>1, <2>3, <3>1 DEF HandleInv, Handled, Holds
    <3>3. QED
      BY <1>1, <2>1, <2>2, <3>2 DEF HandleInv
  <2>4. CASE /\ handle[w] = "head" /\ list # <<>> /\ wpc' = [wpc EXCEPT ![w] = "wait"]
             /\ handle' = [handle EXCEPT ![w] = Head(Head(list).bufs)]
    <3>1. wpc[w] = "unlocked"
      BY <1>3, <2>4 DEF ReadHandle
    <3>2. list # <<>> /\ Head(list) = list[1] /\ list[1] \in Batch /\ 1 \in 1..Len(list)
      BY <2>4, TailFacts
    <3>3. handle'[w] = Head(list[1].bufs) /\ handle'[w] \in Writers /\ wpc'[w] = "wait"
      BY <2>4, <3>2, HeadFacts DEF BatchInv
    <3>4. \A i \in 1..Len(list) : Holds(list[i], w) =>
            i = 1 \/ \E k \in i..Len(list) : handle[w] = Head(list[k].bufs)
      BY <2>4, <3>1 DEF HandleInv, Handled
    <3>5. \A i \in 1..Len(list) : Holds(list[i], w) => i = 1
      <4>1. SUFFICES ASSUME NEW i \in 1..Len(list), NEW k \in i..Len(list),
                            handle[w] = Head(list[k].bufs)
                     PROVE  FALSE
        BY <3>4
      <4>2. k \in 1..Len(list)
        OBVIOUS
      <4>3. Head(list[k].bufs) \in Writers
        BY <4>2, HeadFacts DEF BatchInv
      <4>4. QED
        BY <2>4, <4>1, <4>3, NamesAssumption
    <3>6. Handled(w)'
      BY <2>1, <3>2, <3>3, <3>5 DEF Handled, Holds
    <3>7. QED
      BY <1>1, <2>1, <2>2, <3>6 DEF HandleInv
  <2>5. CASE wpc' = [wpc EXCEPT ![w] = "panic"]
    <3>1. Handled(w)'
      BY <2>5 DEF Handled
    <3>2. QED
      BY <1>1, <2>1, <2>2, <3>1 DEF HandleInv
  <2>6. QED
    BY <1>3, <2>3, <2>4, <2>5 DEF ReadHandle
<1>4. ASSUME NEW w \in Writers, Add(w) PROVE HandleInv'
  <2>1. /\ wpc[w] = "add" /\ wpc' = [wpc EXCEPT ![w] = "unlocked"] /\ UNCHANGED inflight
    BY <1>4 DEF Add
  <2>2. PICK t \in 1..Len(list) + 1 :
           /\ Len(list) \in Nat /\ Len(list') \in Nat /\ list' \in Seq(Batch)
           /\ 1..Len(list) \subseteq 1..Len(list') /\ t \in 1..Len(list')
           /\ \A i \in 1..Len(list') : list'[i].bufs # <<>>
           /\ \A i \in 1..Len(list) : Head(list'[i].bufs) = Head(list[i].bufs)
           /\ \A i \in 1..Len(list'), v \in Writers :
                Holds(list'[i], v) => \/ v = w /\ i = t
                                      \/ i \in 1..Len(list) /\ Holds(list[i], v)
           /\ handle' = [handle EXCEPT ![w] = IF t = 1 THEN "head" ELSE Head(list'[t].bufs)]
    BY <1>4, AddShape, SMTT(30)
  <2>3. /\ \A i \in 1..Len(list) : ~Holds(list[i], w)
        /\ inflight # None => ~Holds(inflight, w)
    BY <2>1 DEF PlaceInv, Busy
  <2>4. ASSUME NEW v \in Writers, v # w PROVE Handled(v)'
    <3>1. UNCHANGED <<wpc[v], handle[v]>>
      BY <2>1, <2>2, <2>4
    <3>2. \A i \in 1..Len(list) : \A k \in i..Len(list) :
            k \in i..Len(list') /\ Head(list'[k].bufs) = Head(list[k].bufs)
      BY <2>2, SMTT(30)
    <3>3. \A i \in 1..Len(list') : Holds(list'[i], v) => i \in 1..Len(list) /\ Holds(list[i], v)
      BY <2>2, <2>4
    <3>4. Handled(v)
      BY DEF HandleInv
    <3>5. ASSUME wpc[v] \in {"unlocked", "wait"}, NEW i \in 1..Len(list'), Holds(list'[i], v)
          PROVE  \/ handle[v] = "head" /\ i = 1
                 \/ \E k \in i..Len(list') : handle[v] = Head(list'[k].bufs)
      <4>1. i \in 1..Len(list) /\ Holds(list[i], v)
        BY <3>3, <3>5
      <4>2. CASE handle[v] = "head" /\ i = 1
        BY <4>2
      <4>3. CASE \E k \in i..Len(list) : handle[v] = Head(list[k].bufs)
        BY <3>2, <4>1, <4>3
      <4>4. QED
        BY <3>4, <3>5, <4>1, <4>2, <4>3 DEF Handled
    <3>6. wpc[v] \in {"unlocked", "wait"} /\ inflight # None /\ Holds(inflight, v) =>
            \/ handle[v] = "head" \/ handle[v] = Head(inflight.bufs)
            \/ \E k \in 1..Len(list') : handle[v] = Head(list'[k].bufs)
      BY <2>2, <3>4 DEF Handled
    <3>7. QED
      BY <2>1, <3>1, <3>4, <3>5, <3>6 DEF Handled
  <2>5. Handled(w)'
    <3>1. wpc'[w] = "unlocked" /\ handle'[w] = (IF t = 1 THEN "head" ELSE Head(list'[t].bufs))
      BY <2>1, <2>2
    <3>2. \A i \in 1..Len(list') : Holds(list'[i], w) => i = t
      BY <2>2, <2>3
    <3>3. handle'[w] \in Writers \cup {"head"}
      BY <2>2, <3>1, HeadFacts
    <3>4. t \in t..Len(list')
      BY <2>2
    <3>5. QED
      BY <2>1, <2>3, <3>1, <3>2, <3>3, <3>4 DEF Handled
  <2>6. QED
    BY <2>4, <2>5 DEF HandleInv
<1>5. CASE Pop
  <2>1. /\ Len(list) \in Nat \ {0} /\ inflight' = list[1] /\ Len(list') = Len(list) - 1
        /\ \A i \in 1..Len(list') : i + 1 \in 1..Len(list) /\ list'[i] = list[i + 1]
    BY <1>5, PopFacts
  <2>2. UNCHANGED <<wpc, handle>>
    BY <1>5 DEF Pop
  <2>3. ASSUME NEW v \in Writers PROVE Handled(v)'
    <3>1. Handled(v)
      BY DEF HandleInv
    <3>2. ASSUME wpc[v] \in {"unlocked", "wait"}, NEW i \in 1..Len(list'), Holds(list'[i], v)
          PROVE  \E k \in i..Len(list') : handle[v] = Head(list'[k].bufs)
      <4>1. i + 1 \in 1..Len(list) /\ Holds(list[i + 1], v) /\ i + 1 # 1
        BY <2>1, <3>2
      <4>2. PICK k \in (i + 1)..Len(list) : handle[v] = Head(list[k].bufs)
        BY <3>1, <3>2, <4>1 DEF Handled
      <4>3. k - 1 \in i..Len(list') /\ k - 1 \in 1..Len(list') /\ (k - 1) + 1 = k
        BY <2>1, <4>1
      <4>4. list'[k - 1] = list[k]
        BY <2>1, <4>3
      <4>5. QED
        BY <4>2, <4>3, <4>4
    <3>3. ASSUME wpc[v] \in {"unlocked", "wait"}, Holds(list[1], v)
          PROVE  \/ handle[v] = "head" \/ handle[v] = Head(list[1].bufs)
                 \/ \E k \in 1..Len(list') : handle[v] = Head(list'[k].bufs)
      <4>1. handle[v] = "head" \/ \E k \in 1..Len(list) : handle[v] = Head(list[k].bufs)
        BY <2>1, <3>1, <3>3 DEF Handled
      <4>2. ASSUME NEW k \in 1..Len(list), k # 1
            PROVE  k - 1 \in 1..Len(list') /\ list'[k - 1] = list[k]
        <5>1. k - 1 \in 1..Len(list') /\ (k - 1) + 1 = k
          BY <2>1, <4>2
        <5>2. QED
          BY <2>1, <5>1
      <4>3. QED
        BY <4>1, <4>2
    <3>4. QED
      BY <2>1, <2>2, <3>1, <3>2, <3>3 DEF Handled
  <2>4. QED
    BY <2>3 DEF HandleInv
<1>6. CASE Sleep \/ RetrySucceeds \/ RetryFails
  BY <1>1, <1>6 DEF Sleep, RetrySucceeds, RetryFails, HandleInv
<1>7. CASE Release
  <2>1. UNCHANGED <<list, wpc, handle>> /\ inflight' = None
    BY <1>7 DEF Release
  <2>2. QED
    BY <2>1 DEF HandleInv, Handled
<1>8. QED
  BY <1>2, <1>3, <1>4, <1>5, <1>6, <1>7 DEF Next, WriterStep, RunStep

IInv == TypeOK /\ BatchInv /\ SizeInv /\ PlaceInv /\ HandleInv

LEMMA InitInv == Init => IInv
<1> SUFFICES ASSUME Init PROVE IInv
  OBVIOUS
<1>1. TypeOK
  BY LimitsAssumption DEF Init, TypeOK, WriterPC, RunPC
<1>2. Len(list) = 0
  BY DEF Init
<1>3. SizeInv
  <2>1. Accounts([i \in 0..0 |-> 0], list, size)
    BY <1>2 DEF Init, Accounts
  <2>2. [i \in 0..0 |-> 0] \in [0..Len(list) -> Nat]
    BY <1>2
  <2>3. QED
    BY <2>1, <2>2 DEF SizeInv
<1>4. BatchInv /\ PlaceInv /\ HandleInv
  BY <1>2 DEF Init, BatchInv, PlaceInv, HandleInv, Handled
<1>5. QED
  BY <1>1, <1>3, <1>4 DEF IInv

LEMMA NextInv == IInv /\ [Next]_vars => IInv'
<1> SUFFICES ASSUME IInv, [Next]_vars PROVE IInv'
  OBVIOUS
<1>1. CASE Next
  BY <1>1, TypesStep, BatchStep, PlaceStep, HandleStep DEF IInv
<1>2. CASE UNCHANGED vars
  <2>1. UNCHANGED <<buffering, list, size, wpc, handle, answer, rpc, inflight, reply, applied,
                    fails>>
    BY <1>2 DEF vars, listVars, writerVars, runVars, backendVars
  <2>2. TypeOK' /\ BatchInv' /\ SizeInv'
    BY <2>1 DEF IInv, TypeOK, BatchInv, SizeInv
  <2>3. PlaceInv' /\ HandleInv'
    BY <2>1 DEF IInv, PlaceInv, Busy, Holds, HandleInv, Handled
  <2>4. QED
    BY <2>2, <2>3 DEF IInv
<1>3. QED
  BY <1>1, <1>2

LEMMA Invariant == Spec => []IInv
<1>1. Init => IInv
  BY InitInv
<1>2. IInv /\ [Next]_vars => IInv'
  BY NextInv
<1>3. QED
  BY <1>1, <1>2, PTL DEF Spec

\* The buffer's fields keep their types; in particular its size never goes below
\* zero or above its limit, whatever is added and popped in between.
THEOREM TypeCorrect == Spec => []TypeOK
<1>1. IInv => TypeOK
  BY DEF IInv
<1>2. QED
  BY <1>1, Invariant, PTL

\* The bytes ServeHTTP reuses after post has returned are in no batch that is still
\* queued or being posted, even when the pointer into the list has found another
\* batch than the write's own.
THEOREM BytesAreNotReused == Spec => []BytesNotReused
<1>1. IInv => BytesNotReused
  <2>1. SUFFICES ASSUME IInv, NEW w \in Writers, wpc[w] = "answered"
                 PROVE  /\ \A i \in 1..Len(list) : w \notin ToSet(list[i].bufs)
                        /\ rpc = "post" => w \notin ToSet(inflight.bufs)
    BY DEF BytesNotReused
  <2>2. ~Busy(w)
    BY <2>1 DEF Busy
  <2>3. \A i \in 1..Len(list) : ~Holds(list[i], w)
    BY <2>1, <2>2 DEF IInv, PlaceInv
  <2>4. rpc = "post" => ~Holds(inflight, w)
    BY <2>1, <2>2 DEF IInv, PlaceInv, BatchInv
  <2>5. \A b \in Batch : w \in ToSet(b.bufs) => Holds(b, w)
    BY DEF ToSet, Holds, Batch
  <2>6. QED
    BY <2>1, <2>3, <2>4, <2>5 DEF IInv, TypeOK, BatchInv
<1>2. QED
  BY <1>1, Invariant, PTL

\* Where a write that waits is: queued, being posted, or stored.
Kept(w) ==
  \/ \E i \in 1..Len(list) : Holds(list[i], w)
  \/ rpc = "post" /\ Holds(inflight, w)
  \/ w \in applied

StoredInv ==
  \A w \in Writers : /\ wpc[w] \in {"unlocked", "wait"} => Kept(w)
                     /\ answer[w] = "ok" => w \in applied

\* No step loses a write that is waited for, while nothing is rejected.
LEMMA StoredStep ==
  ASSUME Replies \subseteq {"ok"}, IInv, StoredInv, [Next]_vars
  PROVE  StoredInv'
<1> USE DEF IInv, GoW, GoR, listVars, runVars, backendVars, writerVars
<1>1. ASSUME UNCHANGED <<list, inflight, rpc>>, applied \subseteq applied',
             NEW v \in Writers, Kept(v)
      PROVE  Kept(v)'
  BY <1>1 DEF Kept, Holds
<1>2. ASSUME NEW w \in Writers,
             LoadBuffering(w) \/ DirectFails(w) \/ StoreBuffering(w) \/ Refuse(w) \/ ReadHandle(w)
      PROVE  StoredInv'
  <2>1. UNCHANGED <<list, inflight, rpc, applied, answer>>
    BY <1>2 DEF LoadBuffering, DirectFails, Failed, StoreBuffering, Refuse, ReadHandle
  <2>2. \A v \in Writers : wpc'[v] \in {"unlocked", "wait"} => wpc[v] \in {"unlocked", "wait"}
    BY <1>2 DEF LoadBuffering, DirectFails, StoreBuffering, Refuse, ReadHandle, TypeOK
  <2>3. QED
    BY <1>1, <2>1, <2>2 DEF StoredInv
<1>3. ASSUME NEW w \in Writers, DirectSucceeds(w) PROVE StoredInv'
  <2>1. PICK r \in Replies : Accepted({w}, r) /\ answer' = [answer EXCEPT ![w] = r]
    BY <1>3 DEF DirectSucceeds
  <2>2. applied' = applied \cup {w}
    BY <2>1 DEF Accepted
  <2>3. UNCHANGED <<list, inflight, rpc>> /\ wpc' = [wpc EXCEPT ![w] = "answered"]
    BY <1>3 DEF DirectSucceeds
  <2>4. \A v \in Writers : wpc'[v] \in {"unlocked", "wait"} => wpc[v] \in {"unlocked", "wait"}
    BY <2>3 DEF TypeOK
  <2>5. \A v \in Writers : answer'[v] = "ok" => v = w \/ answer[v] = "ok"
    BY <2>1 DEF TypeOK
  <2>6. QED
    BY <1>1, <2>2, <2>3, <2>4, <2>5 DEF StoredInv
<1>4. ASSUME NEW w \in Writers, Add(w) PROVE StoredInv'
  <2>1. UNCHANGED <<inflight, applied, answer>> /\ wpc' = [wpc EXCEPT ![w] = "unlocked"]
        /\ (rpc = "post" => rpc' = "post")
    BY <1>4 DEF Add, Signal
  <2>2. PICK t \in 1..Len(list) + 1 :
          /\ 1..Len(list) \subseteq 1..Len(list') /\ t \in 1..Len(list') /\ Holds(list'[t], w)
          /\ \A i \in 1..Len(list), v \in Writers : Holds(list[i], v) => Holds(list'[i], v)
    BY <1>4, AddShape
  <2>3. Kept(w)'
    BY <2>2 DEF Kept
  <2>4. ASSUME NEW v \in Writers, Kept(v) PROVE Kept(v)'
    BY <2>1, <2>2, <2>4 DEF Kept, Holds
  <2>5. QED
    BY <2>1, <2>3, <2>4 DEF StoredInv, TypeOK
<1>5. ASSUME NEW w \in Writers, Wait(w) PROVE StoredInv'
  <2>1. UNCHANGED <<list, inflight, rpc, applied>> /\ wpc[w] = "wait"
        /\ wpc' = [wpc EXCEPT ![w] = "answered"]
    BY <1>5 DEF Wait
  <2>2. w \in applied
    BY <1>5, <2>1, WaitFrees DEF StoredInv, Kept, BatchInv
  <2>3. \A v \in Writers \ {w} : answer'[v] = answer[v]
    BY <1>5 DEF Wait
  <2>4. \A v \in Writers : wpc'[v] \in {"unlocked", "wait"} => wpc[v] \in {"unlocked", "wait"}
    BY <2>1 DEF TypeOK
  <2>5. QED
    BY <1>1, <2>1, <2>2, <2>3, <2>4 DEF StoredInv
<1>6. CASE Pop
  <2>1. /\ Len(list) \in Nat \ {0} /\ inflight' = list[1] /\ Len(list') = Len(list) - 1
        /\ \A i \in 1..Len(list') : i + 1 \in 1..Len(list) /\ list'[i] = list[i + 1]
    BY <1>6, PopFacts
  <2>2. UNCHANGED <<wpc, answer, applied>> /\ rpc = "pop" /\ rpc' = "post"
    BY <1>6 DEF Pop
  <2>3. ASSUME NEW v \in Writers, Kept(v) PROVE Kept(v)'
    <3>1. CASE v \in applied
      BY <2>2, <3>1 DEF Kept
    <3>2. CASE \E i \in 1..Len(list) : Holds(list[i], v)
      <4>1. PICK i \in 1..Len(list) : Holds(list[i], v)
        BY <3>2
      <4>2. CASE i = 1
        BY <2>1, <2>2, <4>1, <4>2 DEF Kept
      <4>3. CASE i # 1
        <5>1. i - 1 \in 1..Len(list') /\ (i - 1) + 1 = i
          BY <2>1, <4>3
        <5>2. Holds(list'[i - 1], v)
          BY <2>1, <4>1, <5>1
        <5>3. QED
          BY <5>1, <5>2 DEF Kept
      <4>4. QED
        BY <4>2, <4>3
    <3>3. QED
      BY <2>2, <2>3, <3>1, <3>2 DEF Kept
  <2>4. QED
    BY <2>2, <2>3 DEF StoredInv
<1>7. CASE RetrySucceeds
  <2>1. PICK r \in Replies : Accepted(ToSet(inflight.bufs), r)
    BY <1>7 DEF RetrySucceeds
  <2>2. applied' = applied \cup ToSet(inflight.bufs)
    BY <2>1 DEF Accepted
  <2>3. UNCHANGED <<list, wpc, answer>> /\ rpc = "post" /\ inflight \in Batch
    BY <1>7 DEF RetrySucceeds, TypeOK, BatchInv
  <2>4. \A v \in Writers : Holds(inflight, v) => v \in ToSet(inflight.bufs)
    BY <2>3 DEF Holds, ToSet, Batch
  <2>5. ASSUME NEW v \in Writers, Kept(v) PROVE Kept(v)'
    BY <2>2, <2>3, <2>4, <2>5 DEF Kept
  <2>6. QED
    BY <2>2, <2>3, <2>5 DEF StoredInv
<1>8. CASE Sleep \/ RetryFails \/ Release
  <2>1. UNCHANGED <<list, wpc, answer, applied>>
        /\ (rpc = "post" => rpc' = "post" /\ UNCHANGED inflight)
    BY <1>8 DEF Sleep, RetryFails, Failed, Release
  <2>2. ASSUME NEW v \in Writers, Kept(v) PROVE Kept(v)'
    BY <2>1, <2>2 DEF Kept
  <2>3. QED
    BY <2>1, <2>2 DEF StoredInv
<1>9. CASE UNCHANGED vars
  BY <1>1, <1>9 DEF vars, StoredInv
<1>10. QED
  BY <1>2, <1>3, <1>4, <1>5, <1>6, <1>7, <1>8, <1>9 DEF Next, WriterStep, RunStep

\* As long as the backend rejects nothing, a write answered with success is in the
\* backend, whichever batch's answer its post has read.
THEOREM AckedWritesAreStored ==
  ASSUME Replies \subseteq {"ok"}
  PROVE  Spec => []AckedIsStored
<1>1. Init => StoredInv
  BY NamesAssumption DEF Init, StoredInv
<1>2. IInv /\ StoredInv /\ [Next]_vars => StoredInv'
  BY StoredStep
<1>3. StoredInv => AckedIsStored
  BY DEF StoredInv, AckedIsStored
<1>4. QED
  BY <1>1, <1>2, <1>3, Invariant, PTL DEF Spec

(***************************************************************************)
(* The queue's accounts                                                    *)
(***************************************************************************)

\* Induction over the naturals, about a set of them.
LEMMA SetInduction ==
  ASSUME NEW S, 0 \in S, \A n \in Nat : n \in S => n + 1 \in S
  PROVE  Nat \subseteq S
<1> DEFINE R == {p \in Nat \X Nat : p[1] < p[2]}
           T == {n \in Nat : n \notin S}
<1>1. IsWellFoundedOn(R, Nat)
  BY NatLessThanWellFounded DEF OpToRel
<1>2. SUFFICES ASSUME T # {} PROVE FALSE
  OBVIOUS
<1>3. PICK x \in T : \A y \in T : ~(<<y, x>> \in R)
  <2> HIDE DEF R, T
  <2>1. T \subseteq Nat
    BY DEF T
  <2>2. QED
    BY <1>1, <1>2, <2>1, WFMin, Zenon
<1>4. x \in Nat /\ x - 1 \in Nat /\ x - 1 + 1 = x
  OBVIOUS
<1>5. x - 1 \in T
  BY <1>4
<1>6. <<x - 1, x>> \in Nat \X Nat /\ x - 1 < x
  BY <1>4
<1>7. <<x - 1, x>> \in R
  BY <1>6
<1>8. QED
  BY <1>3, <1>5, <1>7

\* acc adds up ns from its first number on.
Sums(acc, ns) ==
  /\ acc \in [0..Len(ns) -> Nat] /\ acc[0] = 0
  /\ \A i \in 1..Len(ns) : acc[i] = acc[i - 1] + ns[i]

\* The recursive definition of Total defines what it seems to.
LEMMA TotalIs ==
  ASSUME NEW ns \in Seq(Nat), NEW acc, Sums(acc, ns)
  PROVE  Total(ns) = acc[Len(ns)]
<1> DEFINE n == Len(ns)
           IsSum(f) == f = [i \in 0..n |-> IF i = 0 THEN 0 ELSE f[i - 1] + ns[i]]
           sum == CHOOSE f : IsSum(f)
<1>1. Total(ns) = sum[n]
  BY DEF Total
<1>2. n \in Nat
  OBVIOUS
<1>3. IsSum(acc)
  <2>1. acc = [i \in 0..n |-> acc[i]]
    BY DEF Sums
  <2>2. \A i \in 0..n : acc[i] = IF i = 0 THEN 0 ELSE acc[i - 1] + ns[i]
    BY <1>2 DEF Sums
  <2>3. QED
    BY <2>1, <2>2
<1>4. IsSum(sum)
  <2> HIDE DEF IsSum
  <2>1. QED
    BY <1>3
<1> HIDE DEF sum
<1> DEFINE S == {m \in Nat : m <= n => sum[m] = acc[m]}
<1>5. 0 \in S
  BY <1>2, <1>4 DEF Sums
<1>6. ASSUME NEW m \in Nat, m \in S
      PROVE  m + 1 \in S
  <2>1. SUFFICES ASSUME m + 1 <= n PROVE sum[m + 1] = acc[m + 1]
    BY <1>2
  <2>2. m + 1 \in 0..n /\ m + 1 \in 1..n /\ m + 1 # 0 /\ (m + 1) - 1 = m /\ m <= n
    BY <1>2, <2>1
  <2>3. sum[m + 1] = sum[m] + ns[m + 1]
    BY <1>4, <2>2
  <2>4. acc[m + 1] = acc[m] + ns[m + 1]
    BY <2>2 DEF Sums
  <2>5. QED
    BY <1>6, <2>2, <2>3, <2>4
<1>7. Nat \subseteq S
  <2> HIDE DEF S
  <2>1. QED
    BY <1>5, <1>6, SetInduction
<1>8. QED
  BY <1>1, <1>2, <1>7

\* f concatenates ss from its first sequence on.
Flattens(f, ss) ==
  /\ f \in [0..Len(ss) -> Seq(Writers)] /\ f[0] = <<>>
  /\ \A i \in 1..Len(ss) : f[i] = f[i - 1] \o ss[i]

\* The recursive definition of FlattenSeq defines what it seems to.
LEMMA FlattenIs ==
  ASSUME NEW ss \in Seq(Seq(Writers)), NEW f, Flattens(f, ss)
  PROVE  FlattenSeq(ss) = f[Len(ss)]
<1> DEFINE n == Len(ss)
           IsFlat(g) == g = [i \in 1..n |-> IF i = 1 THEN ss[1] ELSE g[i - 1] \o ss[i]]
           flat == CHOOSE g : IsFlat(g)
<1>0. \A i \in 1..n : ss[i] \in Seq(Writers)
  OBVIOUS
<1>1. n \in Nat /\ f \in [0..n -> Seq(Writers)] /\ f[0] = <<>>
      /\ \A i \in 1..n : f[i] = f[i - 1] \o ss[i] /\ f[i] \in Seq(Writers)
  <2>1. n \in Nat /\ \A i \in 1..n : i \in 0..n
    OBVIOUS
  <2>2. /\ f \in [0..n -> Seq(Writers)] /\ f[0] = <<>>
        /\ \A i \in 1..n : f[i] = f[i - 1] \o ss[i]
    BY Zenon DEF Flattens
  <2>3. \A i \in 1..n : f[i] \in Seq(Writers)
    BY <2>1, <2>2, Zenon
  <2>4. QED
    BY <2>1, <2>2, <2>3, Zenon
<1>2. CASE n = 0
  BY <1>1, <1>2 DEF FlattenSeq
<1>3. CASE n # 0
  <2>1. FlattenSeq(ss) = flat[n]
    BY <1>3 DEF FlattenSeq
  <2>2. f[1] = ss[1]
    <3>1. 1 \in 1..n /\ 1 - 1 = 0
      BY <1>1, <1>3
    <3>2. f[1] = <<>> \o ss[1] /\ ss[1] \in Seq(Writers)
      BY <1>0, <1>1, <3>1
    <3>3. QED
      BY <3>2, ConcatEmptySeq
  <2>3. \E g : IsFlat(g)
    <3> DEFINE g == [i \in 1..n |-> f[i]]
    <3>1. ASSUME NEW i \in 1..n, i # 1
          PROVE  g[i] = g[i - 1] \o ss[i]
      <4>1. i - 1 \in 1..n
        BY <1>1, <3>1
      <4>2. g[i] = f[i] /\ g[i - 1] = f[i - 1]
        BY <4>1
      <4>3. QED
        BY <1>1, <4>2
    <3>2. 1 \in 1..n => g[1] = ss[1]
      BY <2>2
    <3>3. \A i \in 1..n : g[i] = IF i = 1 THEN ss[1] ELSE g[i - 1] \o ss[i]
      BY <3>1, <3>2
    <3>4. IsFlat(g)
      BY <3>3
    <3>5. QED
      BY <3>4
  <2>4. IsFlat(flat)
    <3> HIDE DEF IsFlat
    <3>1. QED
      BY <2>3
  <2> HIDE DEF flat
  <2> DEFINE S == {m \in Nat : m + 1 <= n => flat[m + 1] = f[m + 1]}
  <2>5. 0 \in S
    BY <1>1, <2>2, <2>4
  <2>6. ASSUME NEW m \in Nat, m \in S
        PROVE  m + 1 \in S
    <3>1. SUFFICES ASSUME m + 2 <= n PROVE flat[m + 2] = f[m + 2]
      BY <1>1
    <3>2. m + 2 \in 1..n /\ m + 2 # 1 /\ (m + 2) - 1 = m + 1 /\ m + 1 <= n
      BY <1>1, <3>1
    <3>3. flat[m + 2] = flat[m + 1] \o ss[m + 2]
      BY <2>4, <3>2
    <3>4. f[m + 2] = f[m + 1] \o ss[m + 2]
      BY <1>1, <3>2
    <3>5. QED
      BY <2>6, <3>2, <3>3, <3>4
  <2>7. Nat \subseteq S
    <3> HIDE DEF S
    <3>1. QED
      BY <2>5, <2>6, SetInduction
  <2>8. n - 1 \in Nat /\ n - 1 + 1 = n
    BY <1>1, <1>3
  <2>9. n - 1 \in S
    <3> HIDE DEF S
    <3>1. QED
      BY <2>7, <2>8
  <2>10. QED
    BY <2>1, <2>8, <2>9
<1>4. QED
  BY <1>2, <1>3

\* There is such a table for every sequence of sequences.
LEMMA FlattenExists ==
  ASSUME NEW ss \in Seq(Seq(Writers))
  PROVE  \E f : Flattens(f, ss)
<1> DEFINE n == Len(ss)
           Upto(f, m) == /\ f \in [0..m -> Seq(Writers)] /\ f[0] = <<>>
                         /\ \A i \in 1..m : f[i] = f[i - 1] \o ss[i]
           S == {m \in Nat : m <= n => \E f : Upto(f, m)}
<1>1. n \in Nat /\ \A i \in 1..n : ss[i] \in Seq(Writers)
  OBVIOUS
<1>2. 0 \in S
  <2>1. Upto([i \in 0..0 |-> <<>>], 0)
    OBVIOUS
  <2>2. QED
    BY <2>1
<1>3. ASSUME NEW m \in Nat, m \in S
      PROVE  m + 1 \in S
  <2>1. SUFFICES ASSUME m + 1 <= n PROVE \E f : Upto(f, m + 1)
    <3> HIDE DEF Upto
    <3>1. QED
      BY <1>1
  <2>2. PICK f : Upto(f, m)
    <3> HIDE DEF Upto
    <3>1. m <= n
      BY <1>1, <2>1
    <3>2. QED
      BY <1>3, <3>1
  <2> DEFINE g == [i \in 0..(m + 1) |-> IF i = m + 1 THEN f[m] \o ss[m + 1] ELSE f[i]]
  <2>3. ss[m + 1] \in Seq(Writers) /\ f[m] \in Seq(Writers)
    <3>1. m + 1 \in 1..n /\ m \in 0..m
      BY <1>1, <2>1
    <3>2. QED
      BY <2>2, <3>1
  <2>4. g \in [0..(m + 1) -> Seq(Writers)]
    <3>1. f[m] \o ss[m + 1] \in Seq(Writers)
      BY <2>3
    <3>2. \A i \in 0..(m + 1) : i # m + 1 => i \in 0..m
      OBVIOUS
    <3>3. QED
      BY <2>2, <3>1, <3>2
  <2>5. g[0] = <<>>
    BY <2>2
  <2>6. ASSUME NEW i \in 1..(m + 1)
        PROVE  g[i] = g[i - 1] \o ss[i]
    <3>1. CASE i = m + 1
      <4>1. (m + 1) - 1 = m /\ m \in 0..(m + 1) /\ m + 1 \in 0..(m + 1) /\ m # m + 1
        OBVIOUS
      <4>2. g[m + 1] = f[m] \o ss[m + 1] /\ g[m] = f[m]
        BY <4>1
      <4>3. QED
        BY <3>1, <4>1, <4>2
    <3>2. CASE i # m + 1
      <4>1. i \in 1..m /\ i \in 0..(m + 1) /\ i - 1 \in 0..(m + 1) /\ i - 1 # m + 1
        BY <3>2
      <4>2. g[i] = f[i] /\ g[i - 1] = f[i - 1]
        BY <3>2, <4>1
      <4>3. QED
        BY <2>2, <4>1, <4>2
    <3>3. QED
      BY <3>1, <3>2
  <2>7. Upto(g, m + 1)
    BY <2>4, <2>5, <2>6
  <2>8. QED
    BY <2>7
<1>4. Nat \subseteq S
  <2> HIDE DEF S
  <2>1. QED
    BY <1>2, <1>3, SetInduction
<1>5. PICK f : Upto(f, n)
  <2> HIDE DEF Upto
  <2>1. n \in S
    BY <1>1, <1>4
  <2>2. QED
    BY <1>1, <2>1
<1>6. QED
  BY <1>5 DEF Flattens

\* The sizes of the writes of a batch.
Sizes(b) == [j \in 1..Len(b.bufs) |-> Size[b.bufs[j]]]

\* The writes of a batch have its key, add up to its size, and exceed the limit only
\* when there is one.
BatchSound(b) ==
  /\ \A j \in 1..Len(b.bufs) : Key[b.bufs[j]] = b.key
  /\ \E acc : Sums(acc, Sizes(b)) /\ acc[Len(b.bufs)] = b.size
  /\ b.size <= MaxBatch \/ Len(b.bufs) = 1

\* Behind a batch that may still grow there is none of its key.
OrderInv ==
  \A i, j \in 1..Len(list) : i < j /\ list[i].key = list[j].key => list[i].full

SoundInv == (\A i \in 1..Len(list) : BatchSound(list[i])) /\ OrderInv

\* They are numbers, one per write.
LEMMA SizesFacts ==
  ASSUME NEW b \in Batch
  PROVE  /\ Sizes(b) \in Seq(Nat) /\ Len(Sizes(b)) = Len(b.bufs) /\ Len(b.bufs) \in Nat
         /\ \A j \in 1..Len(b.bufs) : Sizes(b)[j] = Size[b.bufs[j]] /\ Size[b.bufs[j]] \in Nat
<1>1. b.bufs \in Seq(Writers) /\ Len(b.bufs) \in Nat
      /\ \A j \in 1..Len(b.bufs) : b.bufs[j] \in Writers
  BY DEF Batch
<1>2. \A j \in 1..Len(b.bufs) : Size[b.bufs[j]] \in Nat
  BY <1>1, SizeAssumption
<1>3. Sizes(b) \in [1..Len(b.bufs) -> Nat]
  BY <1>2 DEF Sizes
<1>4. QED
  BY <1>1, <1>2, <1>3 DEF Sizes

\* Passing a batch over changes nothing but its flag.
LEMMA PassedSound ==
  ASSUME NEW b \in Batch, NEW w \in Writers, BatchSound(b)
  PROVE  BatchSound(Passed(b, w))
<1>1. /\ Passed(b, w).bufs = b.bufs /\ Passed(b, w).size = b.size /\ Passed(b, w).key = b.key
  BY DEF Passed, Batch
<1>2. Sizes(Passed(b, w)) = Sizes(b)
  BY <1>1 DEF Sizes
<1>3. QED
  BY <1>1, <1>2 DEF BatchSound

\* A new batch is sound even when its one write is over the limit.
LEMMA NewSound ==
  ASSUME NEW w \in Writers
  PROVE  BatchSound(NewBatch(w))
<1> DEFINE b == NewBatch(w)
           acc == [i \in 0..1 |-> IF i = 0 THEN 0 ELSE Size[w]]
<1>1. b \in Batch /\ b.bufs = <<w>> /\ b.size = Size[w] /\ b.key = Key[w] /\ Size[w] \in Nat
  BY NewFacts, SizeAssumption DEF NewBatch
<1> HIDE DEF b
<1>2. Len(b.bufs) = 1 /\ b.bufs[1] = w /\ Len(Sizes(b)) = 1 /\ Sizes(b)[1] = Size[w]
  <2>1. Len(b.bufs) = 1 /\ b.bufs[1] = w /\ 1 \in 1..Len(b.bufs)
    BY <1>1
  <2>2. QED
    BY <1>1, <2>1, SizesFacts
<1>3. Sums(acc, Sizes(b)) /\ acc[1] = b.size
  <2>1. acc \in [0..1 -> Nat] /\ acc[0] = 0 /\ acc[1] = Size[w]
    BY <1>1
  <2>2. QED
    BY <1>1, <1>2, <2>1 DEF Sums
<1>4. BatchSound(b)
  BY <1>1, <1>2, <1>3 DEF BatchSound
<1>5. QED
  BY <1>4 DEF b

\* A write that fits keeps its batch within the limit.
LEMMA JoinedSound ==
  ASSUME NEW b \in Batch, NEW w \in Writers, BatchSound(b), Fits(b, w)
  PROVE  BatchSound(Joined(b, w))
<1> DEFINE n == Len(b.bufs)
           c == Joined(b, w)
<1>1. /\ n \in Nat /\ b.bufs \in Seq(Writers) /\ c \in Batch
      /\ c.bufs = Append(b.bufs, w) /\ c.size = b.size + Size[w] /\ c.key = b.key
  <2>1. n \in Nat /\ b.bufs \in Seq(Writers)
    BY DEF Batch
  <2>2. c \in Batch
    BY JoinedFacts
  <2>3. \A s, z : LET d == [b EXCEPT !.bufs = s, !.size = z]
                  IN  d.bufs = s /\ d.size = z /\ d.key = b.key
    BY DEF Batch
  <2>4. QED
    BY <2>1, <2>2, <2>3 DEF Joined
<1>2. /\ Len(c.bufs) = n + 1 /\ c.bufs[n + 1] = w /\ \A j \in 1..n : c.bufs[j] = b.bufs[j]
  BY <1>1
<1>3. /\ Len(Sizes(b)) = n /\ Len(Sizes(c)) = n + 1 /\ Sizes(c)[n + 1] = Size[w]
      /\ Size[w] \in Nat /\ \A j \in 1..n : Sizes(c)[j] = Sizes(b)[j]
  <2>1. n + 1 \in 1..Len(c.bufs) /\ \A j \in 1..n : j \in 1..Len(c.bufs)
    BY <1>1, <1>2
  <2> HIDE DEF c
  <2>2. QED
    BY <1>1, <1>2, <2>1, SizesFacts, SizeAssumption, ZenonT(40)
<1>4. PICK acc : Sums(acc, Sizes(b)) /\ acc[n] = b.size
  BY DEF BatchSound
<1> HIDE DEF c
<1> DEFINE more == [i \in 0..(n + 1) |-> IF i = n + 1 THEN acc[n] + Size[w] ELSE acc[i]]
<1>5. Sums(more, Sizes(c)) /\ more[n + 1] = c.size
  <2>1. acc \in [0..n -> Nat] /\ acc[0] = 0
    BY <1>3, <1>4 DEF Sums
  <2>2. more \in [0..(n + 1) -> Nat] /\ more[0] = 0 /\ more[n + 1] = c.size
    BY <1>1, <1>3, <1>4, <2>1
  <2>3. ASSUME NEW i \in 1..(n + 1) PROVE more[i] = more[i - 1] + Sizes(c)[i]
    <3>1. CASE i = n + 1
      <4>1. i - 1 = n /\ n \in 0..(n + 1) /\ n + 1 \in 0..(n + 1) /\ n # n + 1
        BY <1>1, <3>1
      <4>2. more[n + 1] = acc[n] + Size[w] /\ more[n] = acc[n]
        BY <4>1
      <4>3. QED
        BY <1>3, <3>1, <4>1, <4>2
    <3>2. CASE i # n + 1
      <4>1. i \in 1..n /\ i \in 0..(n + 1) /\ i - 1 \in 0..(n + 1) /\ i - 1 # n + 1
        BY <1>1, <3>2
      <4>2. more[i] = acc[i] /\ more[i - 1] = acc[i - 1]
        BY <3>2, <4>1
      <4>3. acc[i] = acc[i - 1] + Sizes(b)[i]
        BY <1>3, <1>4, <4>1 DEF Sums
      <4>4. QED
        BY <1>3, <4>1, <4>2, <4>3
    <3>3. QED
      BY <3>1, <3>2
  <2>4. QED
    BY <1>3, <2>2, <2>3 DEF Sums
<1>6. \A j \in 1..Len(c.bufs) : Key[c.bufs[j]] = c.key
  <2>1. Key[w] = c.key
    BY <1>1 DEF Fits
  <2>2. \A j \in 1..n : Key[b.bufs[j]] = c.key
    BY <1>1 DEF BatchSound
  <2>3. QED
    BY <1>1, <1>2, <2>1, <2>2
<1>7. c.size <= MaxBatch
  BY <1>1 DEF Fits
<1>8. Len(c.bufs) = n + 1
  BY <1>2
<1>9. BatchSound(c)
  BY <1>5, <1>6, <1>7, <1>8 DEF BatchSound
<1>10. QED
  BY <1>9 DEF c

\* Add is the only step that can disturb the accounts of a batch, or the order.
LEMMA SoundStep ==
  ASSUME IInv, SoundInv, [Next]_vars
  PROVE  SoundInv'
<1>1. ASSUME NEW w \in Writers, Add(w) PROVE SoundInv'
  <2>1. PICK t \in 1..Len(list) + 1 :
           /\ Len(list) \in Nat /\ Len(list') \in Nat
           /\ Len(list') = IF t = Len(list) + 1 THEN t ELSE Len(list)
           /\ list'[t] = IF t = Len(list) + 1 THEN NewBatch(w) ELSE Joined(list[t], w)
           /\ \A i \in 1..Len(list) \ {t} : list'[i] = list[i] \/ list'[i] = Passed(list[i], w)
           /\ IsTarget(w, t) /\ \A i \in 1..Len(list) : i < t => list'[i] = Passed(list[i], w)
    BY <1>1, AddFacts DEF IInv
  <2>2. \A i \in 1..Len(list) : list[i] \in Batch /\ BatchSound(list[i])
    BY DEF IInv, TypeOK, SoundInv
  <2>3. t <= Len(list) => Fits(list[t], w)
    BY <2>1 DEF IsTarget
  <2>4. ASSUME NEW i \in 1..Len(list') PROVE BatchSound(list'[i])
    <3>1. CASE i = t
      BY <2>1, <2>2, <2>3, <3>1, NewSound, JoinedSound
    <3>2. CASE i # t
      BY <2>1, <2>2, <3>2, PassedSound
    <3>3. QED
      BY <3>1, <3>2
  <2>5. ASSUME NEW i \in 1..Len(list)
        PROVE  /\ list'[i].key = list[i].key /\ (list[i].full => list'[i].full)
               /\ i < t /\ list[i].key = Key[w] => list'[i].full
    <3>1. list[i] \in Batch
      BY <2>2
    <3>2. /\ Passed(list[i], w).key = list[i].key /\ Joined(list[i], w).key = list[i].key
          /\ Joined(list[i], w).full = list[i].full
          /\ Passed(list[i], w).full = (list[i].full \/ list[i].key = Key[w])
      BY <3>1 DEF Passed, Joined, Batch
    <3>3. i = t => list'[i] = Joined(list[i], w)
      BY <2>1
    <3>4. QED
      BY <2>1, <3>2, <3>3
  <2>6. ASSUME NEW i \in 1..Len(list'), NEW j \in 1..Len(list'), i < j,
               list'[i].key = list'[j].key
        PROVE  list'[i].full
    <3>1. i \in 1..Len(list)
      BY <2>1, <2>6
    <3>2. CASE j \in 1..Len(list)
      BY <2>5, <2>6, <3>1, <3>2 DEF SoundInv, OrderInv
    <3>3. CASE j \notin 1..Len(list)
      <4>1. j = t /\ t = Len(list) + 1 /\ i < t /\ list'[j].key = Key[w]
        BY <2>1, <2>6, <3>1, <3>3 DEF NewBatch
      <4>2. QED
        BY <2>5, <2>6, <3>1, <4>1
    <3>4. QED
      BY <3>2, <3>3
  <2>7. QED
    BY <2>4, <2>6 DEF SoundInv, OrderInv
<1>2. CASE Pop
  <2>1. /\ Len(list) \in Nat \ {0} /\ Len(list') = Len(list) - 1
        /\ \A i \in 1..Len(list') : i + 1 \in 1..Len(list) /\ list'[i] = list[i + 1]
    BY <1>2, PopFacts DEF IInv
  <2>2. QED
    BY <2>1, SMTT(30) DEF SoundInv, OrderInv
<1>3. ASSUME UNCHANGED list PROVE SoundInv'
  BY <1>3 DEF SoundInv, OrderInv
<1> USE DEF listVars
<1>4. ASSUME NEW w \in Writers,
             \/ LoadBuffering(w) \/ DirectSucceeds(w) \/ DirectFails(w) \/ StoreBuffering(w)
             \/ Refuse(w) \/ ReadHandle(w) \/ Wait(w)
      PROVE  SoundInv'
  BY <1>3, <1>4 DEF LoadBuffering, DirectSucceeds, DirectFails, StoreBuffering, Refuse,
                    ReadHandle, Wait
<1>5. CASE Sleep \/ RetrySucceeds \/ RetryFails \/ Release
  BY <1>3, <1>5 DEF Sleep, RetrySucceeds, RetryFails, Release
<1>6. CASE UNCHANGED vars
  BY <1>3, <1>6 DEF vars
<1>7. QED
  BY <1>1, <1>2, <1>4, <1>5, <1>6 DEF Next, WriterStep, RunStep

\* The accounts, taken together, are what the totals say.
LEMMA SoundIsQueueSound == IInv /\ SoundInv => QueueSound
<1> SUFFICES ASSUME IInv, SoundInv PROVE QueueSound
  OBVIOUS
<1>1. ASSUME NEW i \in 1..Len(list)
      PROVE  /\ \A j \in 1..Len(list[i].bufs) : Key[list[i].bufs[j]] = list[i].key
             /\ list[i].size = Total([j \in 1..Len(list[i].bufs) |-> Size[list[i].bufs[j]]])
             /\ list[i].size <= MaxBatch \/ Len(list[i].bufs) = 1
  <2>1. list[i] \in Batch /\ BatchSound(list[i])
    BY DEF IInv, TypeOK, SoundInv
  <2>2. PICK acc : Sums(acc, Sizes(list[i])) /\ acc[Len(list[i].bufs)] = list[i].size
    BY <2>1 DEF BatchSound
  <2>3. Total(Sizes(list[i])) = list[i].size
    BY <2>1, <2>2, SizesFacts, TotalIs
  <2>4. QED
    BY <2>1, <2>3 DEF BatchSound, Sizes
<1>2. size = Total([i \in 1..Len(list) |-> list[i].size])
  <2> DEFINE ns == [i \in 1..Len(list) |-> list[i].size]
             n == Len(list)
  <2>1. PICK rest \in [0..n -> Nat] : Accounts(rest, list, size)
    BY DEF IInv, SizeInv
  <2>2. n \in Nat /\ \A i \in 1..n : list[i].size \in Nat
    <3>1. \A b \in Batch : b.size \in Nat
      BY DEF Batch
    <3>2. n \in Nat /\ \A i \in 1..n : list[i] \in Batch
      BY DEF IInv, TypeOK
    <3>3. QED
      BY <3>1, <3>2
  <2>3. ns \in Seq(Nat) /\ Len(ns) = n
    <3>1. ns \in [1..n -> Nat]
      BY <2>2
    <3>2. QED
      BY <2>2, <3>1
  <2> DEFINE acc == [i \in 0..n |-> size - rest[i]]
  <2>4. rest[0] = size /\ rest[n] = 0 /\ \A i \in 1..n : rest[i - 1] = rest[i] + ns[i]
    BY <2>1 DEF Accounts
  <2>5. size \in Nat
    BY LimitsAssumption DEF IInv, TypeOK
  <2>6. \A i \in 0..n : rest[i] <= size
    <3> DEFINE S == {m \in Nat : m <= n => rest[m] <= size}
    <3>1. 0 \in S
      BY <2>4, <2>5
    <3>2. ASSUME NEW m \in Nat, m \in S
          PROVE  m + 1 \in S
      <4>1. SUFFICES ASSUME m + 1 <= n PROVE rest[m + 1] <= size
        BY <2>2
      <4>2. m + 1 \in 1..n /\ m + 1 \in 0..n /\ m \in 0..n /\ (m + 1) - 1 = m
        BY <2>2, <4>1
      <4>3. rest[m] = rest[m + 1] + ns[m + 1] /\ ns[m + 1] \in Nat
        BY <2>2, <2>4, <4>2
      <4>4. rest[m] \in Nat /\ rest[m + 1] \in Nat /\ rest[m] <= size
        BY <2>1, <2>2, <3>2, <4>2
      <4>5. QED
        BY <2>5, <4>3, <4>4
    <3>3. Nat \subseteq S
      <4> HIDE DEF S
      <4>1. QED
        BY <3>1, <3>2, SetInduction
    <3>4. QED
      BY <2>2, <3>3
  <2>7. Sums(acc, ns) /\ acc[n] = size
    <3>1. acc \in [0..n -> Nat]
      BY <2>1, <2>5, <2>6
    <3>2. acc[0] = 0 /\ acc[n] = size
      BY <2>2, <2>4, <2>5
    <3>3. ASSUME NEW i \in 1..n PROVE acc[i] = acc[i - 1] + ns[i]
      <4>1. i \in 0..n /\ i - 1 \in 0..n
        BY <2>2
      <4>2. acc[i] = size - rest[i] /\ acc[i - 1] = size - rest[i - 1]
        BY <4>1
      <4>3. rest[i] \in Nat /\ rest[i - 1] \in Nat /\ ns[i] \in Nat
        BY <2>1, <2>2, <4>1
      <4>4. rest[i - 1] = rest[i] + ns[i]
        BY <2>4
      <4> HIDE DEF acc, ns
      <4>5. QED
        BY <2>5, <4>2, <4>3, <4>4
    <3>4. QED
      BY <2>3, <3>1, <3>2, <3>3 DEF Sums
  <2> HIDE DEF acc, ns
  <2>8. QED
    BY <2>3, <2>7, TotalIs DEF ns
<1>3. QED
  BY <1>1, <1>2 DEF QueueSound

\* Whatever is added and popped, each queued batch has writes of one key and the size
\* of their sum, only a single write can exceed the limit of a batch, and the buffer's
\* size is the sum over the batches.
THEOREM QueueIsSound == Spec => []QueueSound
<1>1. Init => SoundInv
  <2>1. Init => Len(list) = 0
    BY DEF Init
  <2>2. QED
    BY <2>1 DEF SoundInv, OrderInv
<1>2. IInv /\ SoundInv /\ [Next]_vars => SoundInv'
  BY SoundStep
<1>3. QED
  BY <1>1, <1>2, SoundIsQueueSound, Invariant, PTL DEF Spec

(***************************************************************************)
(* Concatenating the batches                                               *)
(***************************************************************************)

\* What b adds to the queue of key k, and what a list of batches does.
Part(b, k) == IF b.key = k THEN b.bufs ELSE <<>>
Parts(s, k) == [i \in 1..Len(s) |-> Part(s[i], k)]
Flat(s, k) == FlattenSeq(Parts(s, k))

\* Concatenating and appending, in the two orders.
LEMMA ConcatOrder ==
  ASSUME NEW a \in Seq(Writers), NEW b \in Seq(Writers), NEW c \in Seq(Writers)
  PROVE  a \o (b \o c) = (a \o b) \o c
OBVIOUS

LEMMA AppendOne ==
  ASSUME NEW a \in Seq(Writers), NEW w \in Writers
  PROVE  Append(a, w) = a \o <<w>>
OBVIOUS

LEMMA AppendOrder ==
  ASSUME NEW a \in Seq(Writers), NEW b \in Seq(Writers), NEW w \in Writers
  PROVE  a \o Append(b, w) = Append(a \o b, w)
<1>1. <<w>> \in Seq(Writers) /\ a \o b \in Seq(Writers)
  OBVIOUS
<1>2. a \o (b \o <<w>>) = (a \o b) \o <<w>>
  BY <1>1, ConcatOrder
<1>3. Append(b, w) = b \o <<w>> /\ Append(a \o b, w) = (a \o b) \o <<w>>
  BY <1>1, AppendOne
<1>4. QED
  BY <1>2, <1>3

\* The table of what the first sequences of ss concatenate to.
LEMMA FlattenTable ==
  ASSUME NEW ss \in Seq(Seq(Writers))
  PROVE  \E f \in [0..Len(ss) -> Seq(Writers)] :
           /\ FlattenSeq(ss) = f[Len(ss)] /\ f[0] = <<>>
           /\ \A i \in 1..Len(ss) : f[i] = f[i - 1] \o ss[i]
           /\ \A i \in 0..Len(ss) : f[i] \in Seq(Writers)
           /\ f[Len(ss)] \in Seq(Writers)
<1>1. PICK f : Flattens(f, ss)
  BY FlattenExists
<1>2. FlattenSeq(ss) = f[Len(ss)]
  BY <1>1, FlattenIs
<1>3. f \in [0..Len(ss) -> Seq(Writers)] /\ f[0] = <<>>
      /\ \A i \in 1..Len(ss) : f[i] = f[i - 1] \o ss[i]
  BY <1>1 DEF Flattens
<1>4. Len(ss) \in Nat /\ \A i \in 1..Len(ss) : ss[i] \in Seq(Writers)
  OBVIOUS
<1>5. (\A i \in 0..Len(ss) : f[i] \in Seq(Writers)) /\ Len(ss) \in 0..Len(ss)
  BY <1>3, <1>4
<1>6. f[Len(ss)] \in Seq(Writers)
  BY <1>5
<1>7. QED
  BY <1>2, <1>3, <1>5, <1>6

\* The first sequence comes first.
LEMMA FlattenCons ==
  ASSUME NEW x \in Seq(Writers), NEW ss \in Seq(Seq(Writers)), NEW tt \in Seq(Seq(Writers)),
         Len(tt) = Len(ss) + 1, tt[1] = x, \A i \in 1..Len(ss) : tt[i + 1] = ss[i]
  PROVE  FlattenSeq(tt) = x \o FlattenSeq(ss) /\ FlattenSeq(ss) \in Seq(Writers)
<1> DEFINE n == Len(ss)
<1>1. n \in Nat /\ \A i \in 1..n : ss[i] \in Seq(Writers)
  OBVIOUS
<1>2. PICK f \in [0..n -> Seq(Writers)] :
        /\ FlattenSeq(ss) = f[n] /\ f[0] = <<>>
        /\ \A i \in 1..n : f[i] = f[i - 1] \o ss[i]
        /\ \A i \in 0..n : f[i] \in Seq(Writers)
        /\ f[n] \in Seq(Writers)
  BY FlattenTable
<1>3. FlattenSeq(ss) = f[n]
  BY <1>2
<1>4. /\ f \in [0..n -> Seq(Writers)] /\ f[0] = <<>> /\ f[n] \in Seq(Writers)
      /\ \A i \in 1..n : f[i] = f[i - 1] \o ss[i]
      /\ \A i \in 0..n : f[i] \in Seq(Writers)
  BY <1>1, <1>2
<1> DEFINE g == [i \in 0..(n + 1) |-> IF i = 0 THEN <<>> ELSE x \o f[i - 1]]
<1>5. g \in [0..(n + 1) -> Seq(Writers)]
  <2>1. \A i \in 0..(n + 1) : i # 0 => i - 1 \in 0..n
    BY <1>1
  <2>2. \A i \in 0..n : x \o f[i] \in Seq(Writers)
    BY <1>4
  <2>3. <<>> \in Seq(Writers)
    OBVIOUS
  <2>4. QED
    BY <2>1, <2>2, <2>3
<1>6. ASSUME NEW i \in 1..(n + 1) PROVE g[i] = g[i - 1] \o tt[i]
  <2>1. i \in 0..(n + 1) /\ i - 1 \in 0..(n + 1) /\ i # 0 /\ i - 1 \in 0..n
    BY <1>1
  <2>2. g[i] = x \o f[i - 1]
    BY <2>1
  <2>3. CASE i = 1
    <3>1. g[i - 1] = <<>> /\ f[i - 1] = <<>> /\ tt[i] = x
      BY <1>1, <1>4, <2>1, <2>3
    <3>2. x \o <<>> = x /\ <<>> \o x = x
      BY ConcatEmptySeq
    <3>3. QED
      BY <2>2, <3>1, <3>2
  <2>4. CASE i # 1
    <3>1. i - 1 \in 1..n /\ i - 1 # 0 /\ (i - 1) - 1 \in 0..n /\ (i - 1) + 1 = i
      BY <1>1, <2>1, <2>4
    <3>2. g[i - 1] = x \o f[(i - 1) - 1] /\ tt[i] = ss[i - 1]
      BY <2>1, <3>1
    <3>3. f[i - 1] = f[(i - 1) - 1] \o ss[i - 1]
      BY <1>4, <3>1
    <3>4. f[(i - 1) - 1] \in Seq(Writers) /\ ss[i - 1] \in Seq(Writers)
      BY <1>1, <1>4, <3>1
    <3>5. x \o (f[(i - 1) - 1] \o ss[i - 1]) = (x \o f[(i - 1) - 1]) \o ss[i - 1]
      <4> DEFINE a == f[(i - 1) - 1]
                 b == ss[i - 1]
      <4>1. a \in Seq(Writers) /\ b \in Seq(Writers)
        BY <3>4
      <4> HIDE DEF g, a, b
      <4>2. x \o (a \o b) = (x \o a) \o b
        BY <4>1, ConcatOrder
      <4>3. QED
        BY <4>2 DEF a, b
    <3> HIDE DEF g
    <3>6. QED
      BY <2>2, <3>2, <3>3, <3>5
  <2>5. QED
    BY <2>3, <2>4
<1>7. Flattens(g, tt)
  <2>1. g[0] = <<>>
    BY <1>1
  <2>2. QED
    BY <1>5, <1>6, <2>1 DEF Flattens
<1>8. FlattenSeq(tt) = g[n + 1]
  <2> HIDE DEF g
  <2>1. QED
    BY <1>7, FlattenIs
<1>9. g[n + 1] = x \o f[n]
  <2>1. n + 1 \in 0..(n + 1) /\ n + 1 # 0 /\ (n + 1) - 1 = n
    BY <1>1
  <2>2. QED
    BY <2>1
<1>10. QED
  BY <1>3, <1>4, <1>8, <1>9

\* What is added at the end, or to the last sequence that is not empty, is added last.
LEMMA FlattenAdds ==
  ASSUME NEW ss \in Seq(Seq(Writers)), NEW tt \in Seq(Seq(Writers)), NEW w \in Writers,
         NEW t \in 1..Len(tt),
         t <= Len(ss) => Len(tt) = Len(ss) /\ tt[t] = Append(ss[t], w),
         t > Len(ss) => Len(tt) = Len(ss) + 1 /\ tt[t] = <<w>>,
         \A i \in 1..Len(ss) : i # t => tt[i] = ss[i],
         \A i \in 1..Len(ss) : i > t => ss[i] = <<>>
  PROVE  FlattenSeq(tt) = Append(FlattenSeq(ss), w)
<1> DEFINE n == Len(ss)
           m == Len(tt)
<1>1. n \in Nat /\ m \in Nat /\ t \in Nat /\ \A i \in 1..n : ss[i] \in Seq(Writers)
  BY SMTT(30)
<1>2. PICK f \in [0..n -> Seq(Writers)] :
        /\ FlattenSeq(ss) = f[n] /\ f[0] = <<>>
        /\ \A i \in 1..n : f[i] = f[i - 1] \o ss[i]
        /\ \A i \in 0..n : f[i] \in Seq(Writers)
        /\ f[n] \in Seq(Writers)
  BY FlattenTable
<1>3. FlattenSeq(ss) = f[n]
  BY <1>2
<1>4. /\ f \in [0..n -> Seq(Writers)] /\ f[0] = <<>> /\ f[n] \in Seq(Writers)
      /\ \A i \in 1..n : f[i] = f[i - 1] \o ss[i]
      /\ \A i \in 0..n : f[i] \in Seq(Writers)
  BY <1>1, <1>2
<1>5. m = (IF t <= n THEN n ELSE n + 1) /\ (t > n => t = n + 1)
  BY <1>1
<1> DEFINE low(i) == IF i <= n THEN f[i] ELSE f[n]
           g == [i \in 0..m |-> IF i < t THEN f[i] ELSE Append(low(i), w)]
<1>6. \A i \in 0..m : low(i) \in Seq(Writers) /\ (i < t => f[i] \in Seq(Writers))
  <2>1. \A i \in 0..m : (i <= n => i \in 0..n) /\ (i < t => i \in 0..n)
    BY <1>1, <1>5
  <2>2. QED
    BY <1>4, <2>1
<1>7. g \in [0..m -> Seq(Writers)]
  <2>1. \A i \in 0..m : Append(low(i), w) \in Seq(Writers)
    <3> HIDE DEF low
    <3>1. QED
      BY <1>6
  <2> HIDE DEF low
  <2>2. QED
    BY <1>6, <2>1
<1>8. \A a, b \in Seq(Writers) : Append(a, w) = a \o <<w>> /\ a \o Append(b, w) = Append(a \o b, w)
                                 /\ a \o <<>> = a
  <2> HIDE DEF g, low
  <2>1. QED
    BY AppendOne, AppendOrder, ConcatEmptySeq
<1>9. ASSUME NEW i \in 1..m PROVE g[i] = g[i - 1] \o tt[i]
  <2>1. i \in Nat /\ i - 1 \in Nat /\ i \in 0..m /\ i - 1 \in 0..m /\ i - 1 < i
    BY <1>1
  <2>2. CASE i < t
    <3>1. i \in 1..n /\ i # t /\ i - 1 < t
      BY <1>1, <1>5, <2>1, <2>2
    <3>2. g[i] = f[i] /\ g[i - 1] = f[i - 1] /\ tt[i] = ss[i]
      BY <2>1, <2>2, <3>1
    <3>3. QED
      BY <1>4, <3>1, <3>2
  <2>3. CASE i = t
    <3>1. i - 1 < t /\ ~(i < t) /\ i - 1 \in 0..n
      BY <1>1, <1>5, <2>1, <2>3
    <3>2. g[i] = Append(low(i), w) /\ g[i - 1] = f[i - 1]
      BY <2>1, <3>1
    <3>3. CASE t <= n
      <4>1. i \in 1..n /\ low(i) = f[i] /\ tt[i] = Append(ss[i], w)
        BY <1>1, <2>3, <3>3
      <4>2. f[i] = f[i - 1] \o ss[i] /\ f[i - 1] \in Seq(Writers) /\ ss[i] \in Seq(Writers)
        BY <1>1, <1>4, <3>1, <4>1
      <4>3. f[i - 1] \o Append(ss[i], w) = Append(f[i - 1] \o ss[i], w)
        BY <1>8, <4>2
      <4> HIDE DEF g, low
      <4>4. QED
        BY <3>2, <4>1, <4>2, <4>3
    <3>4. CASE t > n
      <4>1. i = n + 1 /\ i - 1 = n /\ low(i) = f[n] /\ tt[i] = <<w>>
        BY <1>1, <1>5, <2>3, <3>4
      <4>2. Append(f[n], w) = f[n] \o <<w>>
        BY <1>4, <1>8
      <4> HIDE DEF g, low
      <4>3. QED
        BY <3>2, <4>1, <4>2
    <3> HIDE DEF g, low
    <3>5. t <= n \/ t > n
      BY <1>1
    <3>6. QED
      BY <3>3, <3>4, <3>5
  <2>4. CASE i > t
    <3>1. i \in 1..n /\ i # t /\ ~(i < t) /\ ~(i - 1 < t) /\ i - 1 \in 0..n /\ i <= n /\ i - 1 <= n
      BY <1>1, <1>5, <2>1, <2>4
    <3>2. g[i] = Append(f[i], w) /\ g[i - 1] = Append(f[i - 1], w) /\ tt[i] = <<>>
      BY <2>1, <2>4, <3>1
    <3>3. f[i] = f[i - 1] \o <<>> /\ f[i - 1] \in Seq(Writers)
      BY <1>4, <2>4, <3>1
    <3>4. f[i] = f[i - 1] /\ Append(f[i - 1], w) \in Seq(Writers)
      BY <1>8, <3>3
    <3>5. Append(f[i - 1], w) \o <<>> = Append(f[i - 1], w)
      BY <1>8, <3>4
    <3> HIDE DEF g, low
    <3>6. QED
      BY <3>2, <3>4, <3>5
  <2> HIDE DEF g, low
  <2>5. i < t \/ i = t \/ i > t
    BY <1>1, <2>1
  <2>6. QED
    BY <2>2, <2>3, <2>4, <2>5
<1>10. Flattens(g, tt)
  <2>1. g[0] = <<>>
    BY <1>1, <1>4
  <2> HIDE DEF g
  <2>2. QED
    BY <1>7, <1>9, <2>1 DEF Flattens
<1>11. FlattenSeq(tt) = g[m]
  <2> HIDE DEF g
  <2>1. QED
    BY <1>10, FlattenIs
<1>12. g[m] = Append(f[n], w)
  <2>1. m \in 0..m /\ ~(m < t) /\ (m <= n => m = n)
    BY <1>1, <1>5
  <2>2. g[m] = Append(low(m), w) /\ low(m) = f[n]
    BY <2>1
  <2> HIDE DEF g, low
  <2>3. QED
    BY <2>2
<1>13. QED
  BY <1>3, <1>11, <1>12

\* Empty sequences add nothing.
LEMMA FlattenSame ==
  ASSUME NEW ss \in Seq(Seq(Writers)), NEW tt \in Seq(Seq(Writers)),
         Len(tt) \in {Len(ss), Len(ss) + 1},
         \A i \in 1..Len(ss) : tt[i] = ss[i],
         \A i \in 1..Len(tt) : i > Len(ss) => tt[i] = <<>>
  PROVE  FlattenSeq(tt) = FlattenSeq(ss)
<1> DEFINE n == Len(ss)
           m == Len(tt)
<1>1. n \in Nat /\ m \in {n, n + 1} /\ \A i \in 1..n : ss[i] \in Seq(Writers)
  OBVIOUS
<1>2. PICK f \in [0..n -> Seq(Writers)] :
        /\ FlattenSeq(ss) = f[n] /\ f[0] = <<>>
        /\ \A i \in 1..n : f[i] = f[i - 1] \o ss[i]
        /\ \A i \in 0..n : f[i] \in Seq(Writers)
        /\ f[n] \in Seq(Writers)
  BY FlattenTable
<1>3. FlattenSeq(ss) = f[n]
  BY <1>2
<1>4. /\ f \in [0..n -> Seq(Writers)] /\ f[0] = <<>> /\ f[n] \in Seq(Writers)
      /\ \A i \in 1..n : f[i] = f[i - 1] \o ss[i]
      /\ \A i \in 0..n : f[i] \in Seq(Writers)
  BY <1>1, <1>2
<1> DEFINE g == [i \in 0..m |-> IF i <= n THEN f[i] ELSE f[n]]
<1>5. g \in [0..m -> Seq(Writers)]
  BY <1>1, <1>4
<1>6. ASSUME NEW i \in 1..m PROVE g[i] = g[i - 1] \o tt[i]
  <2>1. i \in 0..m /\ i - 1 \in 0..m /\ i - 1 <= n
    BY <1>1
  <2>2. CASE i <= n
    <3>1. i \in 1..n
      BY <1>1, <2>2
    <3>2. g[i] = f[i] /\ g[i - 1] = f[i - 1] /\ tt[i] = ss[i]
      BY <2>1, <2>2, <3>1
    <3> HIDE DEF g
    <3>3. QED
      BY <1>4, <3>1, <3>2
  <2>3. CASE i > n
    <3>1. i - 1 = n /\ g[i] = f[n] /\ g[i - 1] = f[n] /\ tt[i] = <<>>
      BY <1>1, <2>1, <2>3
    <3>2. f[n] \o <<>> = f[n]
      BY <1>4, ConcatEmptySeq
    <3> HIDE DEF g
    <3>3. QED
      BY <3>1, <3>2
  <2> HIDE DEF g
  <2>4. i <= n \/ i > n
    BY <1>1, <2>1
  <2>5. QED
    BY <2>2, <2>3, <2>4
<1>7. Flattens(g, tt)
  <2>1. g[0] = <<>>
    BY <1>1, <1>4
  <2> HIDE DEF g
  <2>2. QED
    BY <1>5, <1>6, <2>1 DEF Flattens
<1>8. FlattenSeq(tt) = g[m]
  <2> HIDE DEF g
  <2>1. QED
    BY <1>7, FlattenIs
<1>9. g[m] = f[n]
  BY <1>1
<1>10. QED
  BY <1>3, <1>8, <1>9

\* Everything comes from one of the sequences.
LEMMA FlattenElements ==
  ASSUME NEW ss \in Seq(Seq(Writers)), NEW w \in Writers,
         \A i \in 1..Len(ss) : \A j \in 1..Len(ss[i]) : ss[i][j] # w
  PROVE  \A j \in 1..Len(FlattenSeq(ss)) : FlattenSeq(ss)[j] # w
<1> DEFINE n == Len(ss)
<1>1. n \in Nat /\ \A i \in 1..n : ss[i] \in Seq(Writers)
  OBVIOUS
<1>2. PICK f \in [0..n -> Seq(Writers)] :
        /\ FlattenSeq(ss) = f[n] /\ f[0] = <<>>
        /\ \A i \in 1..n : f[i] = f[i - 1] \o ss[i]
        /\ \A i \in 0..n : f[i] \in Seq(Writers)
        /\ f[n] \in Seq(Writers)
  BY FlattenTable
<1>3. FlattenSeq(ss) = f[n]
  BY <1>2
<1>4. /\ f \in [0..n -> Seq(Writers)] /\ f[0] = <<>> /\ f[n] \in Seq(Writers)
      /\ \A i \in 1..n : f[i] = f[i - 1] \o ss[i]
      /\ \A i \in 0..n : f[i] \in Seq(Writers)
  BY <1>1, <1>2
<1> DEFINE Free(s) == \A j \in 1..Len(s) : s[j] # w
           S == {i \in Nat : i <= n => Free(f[i])}
<1>5. 0 \in S
  BY <1>4
<1>6. ASSUME NEW i \in Nat, i \in S PROVE i + 1 \in S
  <2>1. SUFFICES ASSUME i + 1 <= n PROVE Free(f[i + 1])
    <3> HIDE DEF Free
    <3>1. QED
      BY <1>1
  <2>2. i + 1 \in 1..n /\ i \in 0..n /\ (i + 1) - 1 = i
    BY <1>1, <2>1
  <2>3. /\ f[i + 1] = f[i] \o ss[i + 1] /\ f[i] \in Seq(Writers) /\ ss[i + 1] \in Seq(Writers)
    BY <1>1, <1>4, <2>2
  <2>4. Free(f[i]) /\ Free(ss[i + 1])
    BY <1>6, <2>1, <2>2
  <2>5. ASSUME NEW a \in Seq(Writers), NEW b \in Seq(Writers), Free(a), Free(b)
        PROVE  Free(a \o b)
    <3>1. SUFFICES ASSUME NEW j \in 1..Len(a \o b) PROVE (a \o b)[j] # w
      OBVIOUS
    <3>2. Len(a) \in Nat /\ Len(b) \in Nat /\ Len(a \o b) = Len(a) + Len(b)
      OBVIOUS
    <3>3. CASE j <= Len(a)
      BY <2>5, <3>2, <3>3
    <3>4. CASE j > Len(a)
      <4>1. j - Len(a) \in 1..Len(b) /\ (a \o b)[j] = b[j - Len(a)]
        BY <3>2, <3>4
      <4>2. QED
        BY <2>5, <4>1
    <3>5. QED
      BY <3>2, <3>3, <3>4
  <2> HIDE DEF Free
  <2>6. QED
    BY <2>3, <2>4, <2>5
<1>7. Nat \subseteq S
  <2> HIDE DEF S
  <2>1. QED
    BY <1>5, <1>6, SetInduction
<1>8. QED
  BY <1>1, <1>3, <1>7, SMTT(30)

(***************************************************************************)
(* The queue of a key                                                      *)
(***************************************************************************)

\* Unfinished and Pending, as functions of what they depend on.
Held(r, b, s) == (IF r = "post" THEN <<b>> ELSE <<>>) \o s
Pend(r, b, s, k) == FlattenSeq(Parts(Held(r, b, s), k))

\* They are sequences of writes, one per batch.
LEMMA PartsFacts ==
  ASSUME NEW s \in Seq(Batch), NEW k
  PROVE  /\ Parts(s, k) \in Seq(Seq(Writers)) /\ Len(Parts(s, k)) = Len(s) /\ Len(s) \in Nat
         /\ \A i \in 1..Len(s) : Parts(s, k)[i] = Part(s[i], k)
<1>1. Len(s) \in Nat /\ \A i \in 1..Len(s) : s[i] \in Batch
  OBVIOUS
<1>2. \A b \in Batch : Part(b, k) \in Seq(Writers)
  BY DEF Part, Batch
<1>3. Parts(s, k) \in [1..Len(s) -> Seq(Writers)]
  BY <1>1, <1>2 DEF Parts
<1>4. QED
  BY <1>1, <1>3 DEF Parts

\* They make up a sequence of writes.
LEMMA FlatFacts ==
  ASSUME NEW s \in Seq(Batch), NEW k
  PROVE  Flat(s, k) \in Seq(Writers)
BY PartsFacts, FlattenTable DEF Flat

\* While run is not posting, only what is queued is unfinished.
LEMMA PendOther ==
  ASSUME NEW r, NEW b, NEW s \in Seq(Batch), NEW k, r # "post"
  PROVE  Pend(r, b, s, k) = Flat(s, k)
<1>1. Held(r, b, s) = s
  BY ConcatEmptySeq DEF Held
<1>2. QED
  BY <1>1 DEF Pend, Flat

\* The batch being posted comes before the queued ones.
LEMMA PendPosting ==
  ASSUME NEW b \in Batch, NEW s \in Seq(Batch), NEW k
  PROVE  Pend("post", b, s, k) = Part(b, k) \o Flat(s, k)
<1> DEFINE u == <<b>> \o s
<1>1. /\ u \in Seq(Batch) /\ Len(u) = Len(s) + 1 /\ u[1] = b /\ Len(s) \in Nat
      /\ \A i \in 1..Len(s) : u[i + 1] = s[i]
  OBVIOUS
<1>2. Held("post", b, s) = u
  BY DEF Held
<1> HIDE DEF u
<1>3. /\ Parts(u, k) \in Seq(Seq(Writers)) /\ Len(Parts(u, k)) = Len(Parts(s, k)) + 1
      /\ Parts(s, k) \in Seq(Seq(Writers)) /\ Len(Parts(s, k)) = Len(s)
  BY <1>1, PartsFacts
<1>4. Parts(u, k)[1] = Part(b, k) /\ Part(b, k) \in Seq(Writers)
  <2>1. 1 \in 1..Len(u)
    BY <1>1
  <2>2. Part(b, k) \in Seq(Writers)
    BY DEF Part, Batch
  <2>3. QED
    BY <1>1, <2>1, <2>2, PartsFacts
<1>5. \A i \in 1..Len(Parts(s, k)) : Parts(u, k)[i + 1] = Parts(s, k)[i]
  <2>1. SUFFICES ASSUME NEW i \in 1..Len(s) PROVE Parts(u, k)[i + 1] = Parts(s, k)[i]
    BY <1>3
  <2>2. i + 1 \in 1..Len(u) /\ u[i + 1] = s[i]
    BY <1>1
  <2>3. Parts(u, k)[i + 1] = Part(u[i + 1], k)
    BY <1>1, <2>2, PartsFacts
  <2>4. Parts(s, k)[i] = Part(s[i], k)
    BY PartsFacts
  <2>5. QED
    BY <2>2, <2>3, <2>4
<1>6. FlattenSeq(Parts(u, k)) = Part(b, k) \o FlattenSeq(Parts(s, k))
  BY <1>3, <1>4, <1>5, FlattenCons
<1>7. QED
  BY <1>1, <1>2, <1>6 DEF Pend, Flat

\* The write add takes is last in the queue of its key.
LEMMA AddFlat ==
  ASSUME TypeOK, OrderInv, NEW w \in Writers, Add(w), NEW k \in Keys
  PROVE  /\ k = Key[w] => Flat(list', k) = Append(Flat(list, k), w)
         /\ k # Key[w] => Flat(list', k) = Flat(list, k)
<1>1. PICK t \in 1..Len(list) + 1 :
        /\ Len(list) \in Nat /\ Len(list') \in Nat
        /\ Len(list') = IF t = Len(list) + 1 THEN t ELSE Len(list)
        /\ list' \in Seq(Batch)
        /\ list'[t] = IF t = Len(list) + 1 THEN NewBatch(w) ELSE Joined(list[t], w)
        /\ \A i \in 1..Len(list) \ {t} : list'[i] = list[i] \/ list'[i] = Passed(list[i], w)
        /\ IsTarget(w, t)
  BY AddFacts
<1> DEFINE ss == Parts(list, k)
           tt == Parts(list', k)
<1>2. /\ ss \in Seq(Seq(Writers)) /\ Len(ss) = Len(list) /\ tt \in Seq(Seq(Writers))
      /\ Len(tt) = Len(list') /\ \A i \in 1..Len(list) : ss[i] = Part(list[i], k)
      /\ \A i \in 1..Len(list') : tt[i] = Part(list'[i], k)
  BY <1>1, PartsFacts DEF TypeOK
<1>3. \A i \in 1..Len(list) : list[i] \in Batch
  BY DEF TypeOK
<1>4. t \in Nat /\ t \in 1..Len(list') /\ 1..Len(list) \subseteq 1..Len(list')
  BY <1>1
<1>5. \A i \in 1..Len(list) : i # t => tt[i] = ss[i]
  <2>1. \A b \in Batch : Part(Passed(b, w), k) = Part(b, k)
    BY DEF Part, Passed, Batch
  <2> HIDE DEF ss, tt
  <2>2. QED
    BY <1>1, <1>2, <1>3, <1>4, <2>1
<1>6. t <= Len(list) => /\ Fits(list[t], w) /\ t \in 1..Len(list) /\ list[t] \in Batch
                        /\ list'[t] = Joined(list[t], w) /\ Len(list') = Len(list)
  BY <1>1, <1>3 DEF IsTarget
<1>7. t > Len(list) => list'[t] = NewBatch(w) /\ Len(list') = Len(list) + 1
  BY <1>1
<1>8. \A b \in Batch : Joined(b, w).bufs = Append(b.bufs, w) /\ Joined(b, w).key = b.key
  <2>1. ASSUME NEW b \in Batch, NEW s, NEW z
        PROVE  LET d == [b EXCEPT !.bufs = s, !.size = z] IN d.bufs = s /\ d.key = b.key
    BY DEF Batch
  <2>2. QED
    BY <2>1 DEF Joined
<1>9. CASE k = Key[w]
  <2>1. t <= Len(list) => tt[t] = Append(ss[t], w)
    <3>1. SUFFICES ASSUME t <= Len(list) PROVE Part(list'[t], k) = Append(Part(list[t], k), w)
      BY <1>2, <1>4, <1>6
    <3>2. list[t].key = k /\ list'[t].key = k /\ list'[t].bufs = Append(list[t].bufs, w)
      BY <1>6, <1>8, <1>9, <3>1 DEF Fits
    <3>3. QED
      BY <3>2 DEF Part
  <2>2. t > Len(list) => tt[t] = <<w>>
    BY <1>2, <1>4, <1>7, <1>9 DEF Part, NewBatch
  <2>3. \A i \in 1..Len(list) : i > t => ss[i] = <<>>
    <3>1. SUFFICES ASSUME NEW i \in 1..Len(list), i > t PROVE list[i].key # k
      BY <1>2 DEF Part
    <3>2. t \in 1..Len(list) /\ t < i /\ t <= Len(list)
      BY <1>1, <1>4, <3>1
    <3>3. list[t].key = k /\ ~list[t].full
      BY <1>6, <1>9, <3>2 DEF Fits
    <3>4. QED
      BY <3>2, <3>3 DEF OrderInv
  <2>4. FlattenSeq(tt) = Append(FlattenSeq(ss), w)
    <3> HIDE DEF ss, tt
    <3>1. /\ t <= Len(ss) => Len(tt) = Len(ss) /\ tt[t] = Append(ss[t], w)
          /\ t > Len(ss) => Len(tt) = Len(ss) + 1 /\ tt[t] = <<w>>
      BY <1>2, <1>6, <1>7, <2>1, <2>2
    <3>2. /\ ss \in Seq(Seq(Writers)) /\ tt \in Seq(Seq(Writers)) /\ t \in 1..Len(tt)
          /\ \A i \in 1..Len(ss) : i # t => tt[i] = ss[i]
          /\ \A i \in 1..Len(ss) : i > t => ss[i] = <<>>
      BY <1>2, <1>4, <1>5, <2>3
    <3>3. QED
      BY <3>1, <3>2, FlattenAdds
  <2>5. QED
    BY <1>9, <2>4 DEF Flat
<1>10. CASE k # Key[w]
  <2>1. t <= Len(list) => tt[t] = ss[t]
    <3>1. SUFFICES ASSUME t <= Len(list) PROVE Part(list'[t], k) = Part(list[t], k)
      BY <1>2, <1>4, <1>6
    <3>2. list[t].key # k /\ list'[t].key # k
      BY <1>6, <1>8, <1>10, <3>1 DEF Fits
    <3>3. QED
      BY <3>2 DEF Part
  <2>2. t > Len(list) => tt[t] = <<>>
    BY <1>2, <1>4, <1>7, <1>10 DEF Part, NewBatch
  <2>3. FlattenSeq(tt) = FlattenSeq(ss)
    <3> HIDE DEF ss, tt
    <3>1. Len(tt) \in {Len(ss), Len(ss) + 1}
      BY <1>1, <1>2
    <3>2. \A i \in 1..Len(ss) : tt[i] = ss[i]
      BY <1>2, <1>5, <2>1
    <3>3. \A i \in 1..Len(tt) : i > Len(ss) => tt[i] = <<>>
      BY <1>1, <1>2, <2>2
    <3>4. QED
      BY <1>2, <3>1, <3>2, <3>3, FlattenSame
  <2>4. QED
    BY <1>10, <2>3 DEF Flat
<1>11. QED
  BY <1>9, <1>10

\* What pop takes from the list is first in the queue of its key.
LEMMA PopFlat ==
  ASSUME TypeOK, BatchInv, SizeInv, Pop, NEW k \in Keys
  PROVE  /\ inflight' \in Batch /\ list' \in Seq(Batch)
         /\ Flat(list, k) = Part(inflight', k) \o Flat(list', k)
<1>1. /\ Len(list) \in Nat \ {0} /\ inflight' = list[1] /\ inflight' \in Batch
      /\ list' \in Seq(Batch) /\ Len(list') = Len(list) - 1
      /\ \A i \in 1..Len(list') : i + 1 \in 1..Len(list) /\ list'[i] = list[i + 1]
  BY PopFacts
<1> DEFINE ss == Parts(list', k)
           tt == Parts(list, k)
<1>2. /\ ss \in Seq(Seq(Writers)) /\ Len(ss) = Len(list') /\ tt \in Seq(Seq(Writers))
      /\ Len(tt) = Len(list) /\ \A i \in 1..Len(list) : tt[i] = Part(list[i], k)
      /\ \A i \in 1..Len(list') : ss[i] = Part(list'[i], k)
  BY <1>1, PartsFacts DEF TypeOK
<1>3. Part(inflight', k) \in Seq(Writers)
  BY <1>1 DEF Part, Batch
<1>4. FlattenSeq(tt) = Part(inflight', k) \o FlattenSeq(ss)
  <2>1. Len(tt) = Len(ss) + 1 /\ tt[1] = Part(inflight', k)
    BY <1>1, <1>2
  <2>2. \A i \in 1..Len(ss) : tt[i + 1] = ss[i]
    BY <1>1, <1>2
  <2> HIDE DEF ss, tt
  <2>3. QED
    BY <1>2, <1>3, <2>1, <2>2, FlattenCons
<1>5. QED
  BY <1>1, <1>4 DEF Flat

\* A write in no batch is in no queue.
LEMMA NotPending ==
  ASSUME NEW r, NEW b, NEW s \in Seq(Batch), NEW k, r = "post" => b \in Batch,
         NEW w \in Writers,
         \A i \in 1..Len(s) : ~Holds(s[i], w), r = "post" => ~Holds(b, w)
  PROVE  w \notin ToSet(Pend(r, b, s, k))
<1> DEFINE u == Held(r, b, s)
<1>1. u \in Seq(Batch) /\ Len(u) \in Nat /\ \A i \in 1..Len(u) : ~Holds(u[i], w)
  <2>1. CASE r = "post"
    <3>1. u = <<b>> \o s
      BY <2>1 DEF Held
    <3>2. u \in Seq(Batch) /\ Len(u) = Len(s) + 1 /\ Len(s) \in Nat
      BY <2>1, <3>1, SMTT(30)
    <3>3. \A i \in 1..Len(u) : u[i] = IF i = 1 THEN b ELSE s[i - 1]
      BY <3>1, <3>2
    <3>4. \A i \in 1..Len(u) : i # 1 => i - 1 \in 1..Len(s)
      BY <3>2
    <3> HIDE DEF u
    <3>5. ASSUME NEW i \in 1..Len(u) PROVE ~Holds(u[i], w)
      <4>1. CASE i = 1
        BY <2>1, <3>3, <4>1
      <4>2. CASE i # 1
        BY <3>3, <3>4, <4>2
      <4>3. QED
        BY <4>1, <4>2
    <3>6. QED
      BY <3>2, <3>5
  <2>2. CASE r # "post"
    <3>1. u = s
      BY <2>2, ConcatEmptySeq DEF Held
    <3>2. QED
      BY <3>1
  <2>3. QED
    BY <2>1, <2>2
<1> HIDE DEF u
<1> DEFINE ss == Parts(u, k)
<1>2. ss \in Seq(Seq(Writers)) /\ Len(ss) = Len(u) /\ \A i \in 1..Len(u) : ss[i] = Part(u[i], k)
  BY <1>1, PartsFacts
<1>3. ASSUME NEW i \in 1..Len(ss), NEW j \in 1..Len(ss[i]) PROVE ss[i][j] # w
  <2>1. ss[i] = Part(u[i], k) /\ ~Holds(u[i], w)
    BY <1>1, <1>2
  <2> HIDE DEF ss
  <2>2. ss[i] = u[i].bufs \/ ss[i] = <<>>
    BY <2>1 DEF Part
  <2>3. CASE ss[i] = u[i].bufs
    BY <2>1, <2>3 DEF Holds
  <2>4. CASE ss[i] = <<>>
    BY <2>4
  <2>5. QED
    BY <2>2, <2>3, <2>4
<1> HIDE DEF ss
<1>4. \A j \in 1..Len(FlattenSeq(ss)) : FlattenSeq(ss)[j] # w
  BY <1>2, <1>3, FlattenElements
<1>5. FlattenSeq(ss) \in Seq(Writers)
  BY <1>2, FlattenTable
<1>6. Pend(r, b, s, k) = FlattenSeq(ss)
  BY DEF Pend, ss, u
<1>7. QED
  BY <1>4, <1>5, <1>6 DEF ToSet

\* Where a concatenation is cut.
LEMMA SplitConcat ==
  ASSUME NEW a \in Seq(Writers), NEW b \in Seq(Writers), NEW q, q = a \o b, Len(a) # 0
  PROVE  /\ SubSeq(q, 1, Len(a)) = a /\ SubSeq(q, Len(a) + 1, Len(q)) = b
         /\ Len(a) \in 1..Len(q)
<1>1. q \in Seq(Writers) /\ Len(q) = Len(a) + Len(b) /\ Len(a) \in Nat /\ Len(b) \in Nat
  OBVIOUS
<1>2. \A i \in 1..Len(a) : q[i] = a[i]
  OBVIOUS
<1>3. \A i \in 1..Len(b) : q[Len(a) + i] = b[i]
  OBVIOUS
<1>4. SubSeq(q, 1, Len(a)) = a
  <2> DEFINE s == SubSeq(q, 1, Len(a))
  <2>1. s \in Seq(Writers) /\ Len(s) = Len(a) /\ \A i \in 1..Len(s) : s[i] = a[i]
    BY <1>1, <1>2
  <2> HIDE DEF s
  <2>2. s = a
    BY <2>1, SeqEqual
  <2>3. QED
    BY <2>2 DEF s
<1>5. SubSeq(q, Len(a) + 1, Len(q)) = b
  <2> DEFINE s == SubSeq(q, Len(a) + 1, Len(q))
  <2>1. s \in Seq(Writers) /\ Len(s) = Len(b) /\ \A i \in 1..Len(s) : s[i] = b[i]
    BY <1>1, <1>3
  <2> HIDE DEF s
  <2>2. s = b
    BY <2>1, SeqEqual
  <2>3. QED
    BY <2>2 DEF s
<1>6. QED
  BY <1>1, <1>4, <1>5

(***************************************************************************)
(* The buffer implements the queues                                        *)
(***************************************************************************)

\* The batch named h is queued, being posted, or has its answer.
Posted(h) ==
  \/ \E i \in 1..Len(list) : Head(list[i].bufs) = h
  \/ rpc = "post" /\ Head(inflight.bufs) = h
  \/ reply[h] # None

\* A post has no answer before it returns, and waits for a batch that will have one.
NoAnswer(w) == wpc[w] # "answered" => answer[w] = None
Awaits(w) == wpc[w] \in {"unlocked", "wait"} /\ handle[w] \in Writers => Posted(handle[w])

ReplyInv == \A w \in Writers : NoAnswer(w) /\ Awaits(w)

\* A step that takes no batch its answer leaves the posts it does not move as they are.
LEMMA AwaitsKept ==
  ASSUME NEW v \in Writers, Awaits(v), \A h \in Writers : Posted(h) => Posted(h)',
         wpc'[v] \in {"unlocked", "wait"} =>
           wpc[v] \in {"unlocked", "wait"} /\ handle'[v] = handle[v]
  PROVE  Awaits(v)'
<1>1. SUFFICES ASSUME wpc'[v] \in {"unlocked", "wait"}, handle'[v] \in Writers
               PROVE  Posted(handle[v])'
  BY DEF Awaits
<1>2. PICK h \in Writers : h = handle[v]
  BY <1>1
<1>3. Posted(h) /\ handle'[v] = h
  BY <1>1, <1>2 DEF Awaits
<1>4. Posted(h)'
  BY <1>3
<1>5. QED
  BY <1>3, <1>4 DEF Posted

\* No step leaves a post waiting for a batch that is gone without an answer.
LEMMA ReplyStep ==
  ASSUME Replies \subseteq {"ok"}, IInv, ReplyInv, [Next]_vars
  PROVE  ReplyInv'
<1> USE DEF IInv, GoW, GoR, listVars, runVars, backendVars, writerVars
<1>1. \A v \in Writers : NoAnswer(v) /\ Awaits(v)
  BY DEF ReplyInv
<1>2. ASSUME UNCHANGED <<list, inflight, reply>>, rpc = "post" => rpc' = "post"
      PROVE  \A h \in Writers : Posted(h) => Posted(h)'
  BY <1>2 DEF Posted
<1>3. ASSUME \A h \in Writers : Posted(h) => Posted(h)',
             NEW w,
             \A v \in Writers \ {w} : UNCHANGED <<wpc[v], handle[v], answer[v]>>,
             w \in Writers => NoAnswer(w)' /\ Awaits(w)'
      PROVE  ReplyInv'
  <2>1. ASSUME NEW v \in Writers, v # w PROVE NoAnswer(v)' /\ Awaits(v)'
    BY <1>1, <1>3, <2>1, AwaitsKept DEF NoAnswer
  <2>2. QED
    BY <1>3, <2>1 DEF ReplyInv
<1>4. ASSUME NEW w \in Writers,
             LoadBuffering(w) \/ DirectFails(w) \/ StoreBuffering(w) \/ Refuse(w)
      PROVE  ReplyInv'
  <2>1. UNCHANGED <<list, inflight, reply, rpc, answer, handle>>
        /\ wpc[w] # "answered" /\ wpc'[w] \notin {"unlocked", "wait"}
        /\ \A v \in Writers \ {w} : wpc'[v] = wpc[v]
    BY <1>4 DEF LoadBuffering, DirectFails, StoreBuffering, Refuse, TypeOK
  <2>2. NoAnswer(w)' /\ Awaits(w)'
    BY <1>1, <2>1 DEF NoAnswer, Awaits
  <2>3. QED
    BY <1>2, <1>3, <2>1, <2>2
<1>5. ASSUME NEW w \in Writers, DirectSucceeds(w) \/ Wait(w) PROVE ReplyInv'
  <2>1. UNCHANGED <<list, inflight, reply, rpc>> /\ wpc'[w] = "answered"
        /\ \A v \in Writers \ {w} : UNCHANGED <<wpc[v], handle[v], answer[v]>>
    BY <1>5 DEF DirectSucceeds, Wait, TypeOK
  <2>2. NoAnswer(w)' /\ Awaits(w)'
    BY <2>1 DEF NoAnswer, Awaits
  <2>3. QED
    BY <1>2, <1>3, <2>1, <2>2
<1>6. ASSUME NEW w \in Writers, Add(w) PROVE ReplyInv'
  <2>1. UNCHANGED <<inflight, reply, answer>> /\ wpc' = [wpc EXCEPT ![w] = "unlocked"]
        /\ wpc[w] = "add" /\ (rpc = "post" => rpc' = "post")
    BY <1>6 DEF Add, Signal
  <2>2. PICK t \in 1..Len(list) + 1 :
          /\ 1..Len(list) \subseteq 1..Len(list') /\ t \in 1..Len(list')
          /\ \A i \in 1..Len(list) : Head(list'[i].bufs) = Head(list[i].bufs)
          /\ handle' = [handle EXCEPT ![w] = IF t = 1 THEN "head" ELSE Head(list'[t].bufs)]
    BY <1>6, AddShape
  <2>3. \A h \in Writers : Posted(h) => Posted(h)'
    BY <2>1, <2>2 DEF Posted
  <2>4. handle'[w] = "head" \/ handle'[w] = Head(list'[t].bufs)
    BY <2>2 DEF TypeOK
  <2>5. Awaits(w)'
    BY <2>2, <2>4, NamesAssumption DEF Awaits, Posted
  <2>6. NoAnswer(w)'
    BY <1>1, <2>1 DEF NoAnswer
  <2>7. \A v \in Writers \ {w} : UNCHANGED <<wpc[v], handle[v], answer[v]>>
    BY <2>1, <2>2 DEF TypeOK
  <2>8. QED
    BY <1>3, <2>3, <2>5, <2>6, <2>7
<1>7. ASSUME NEW w \in Writers, ReadHandle(w) PROVE ReplyInv'
  <2>1. UNCHANGED <<list, inflight, reply, rpc, answer>> /\ wpc[w] = "unlocked"
        /\ \A v \in Writers \ {w} : UNCHANGED <<wpc[v], handle[v], answer[v]>>
    BY <1>7 DEF ReadHandle, TypeOK
  <2>2. \A h \in Writers : Posted(h) => Posted(h)'
    BY <1>2, <2>1
  <2>3. NoAnswer(w)'
    BY <1>1, <2>1 DEF NoAnswer
  <2>4. Awaits(w)'
    <3>1. CASE handle'[w] = handle[w]
      BY <1>1, <2>1, <2>2, <3>1, AwaitsKept
    <3>2. CASE list # <<>> /\ handle' = [handle EXCEPT ![w] = Head(Head(list).bufs)]
      <4>1. 1 \in 1..Len(list') /\ handle'[w] = Head(list'[1].bufs)
        BY <2>1, <3>2, TailFacts DEF TypeOK
      <4>2. QED
        BY <4>1 DEF Awaits, Posted
    <3>3. QED
      BY <1>7, <3>1, <3>2 DEF ReadHandle
  <2>5. QED
    BY <1>3, <2>1, <2>2, <2>3, <2>4
<1>8. ASSUME UNCHANGED <<wpc, handle, answer>>, \A h \in Writers : Posted(h) => Posted(h)'
      PROVE  ReplyInv'
  BY <1>1, <1>8, AwaitsKept DEF ReplyInv, NoAnswer
<1>9. CASE Pop
  <2>1. /\ Len(list) \in Nat \ {0} /\ inflight' = list[1] /\ Len(list') = Len(list) - 1
        /\ \A i \in 1..Len(list') : i + 1 \in 1..Len(list) /\ list'[i] = list[i + 1]
    BY <1>9, PopFacts
  <2>2. UNCHANGED <<wpc, answer, handle, reply>> /\ rpc = "pop" /\ rpc' = "post"
    BY <1>9 DEF Pop
  <2>3. ASSUME NEW h \in Writers, Posted(h) PROVE Posted(h)'
    <3>1. CASE reply[h] # None
      BY <2>2, <3>1 DEF Posted
    <3>2. CASE \E i \in 1..Len(list) : Head(list[i].bufs) = h
      <4>1. PICK i \in 1..Len(list) : Head(list[i].bufs) = h
        BY <3>2
      <4>2. CASE i = 1
        BY <2>1, <2>2, <4>1, <4>2 DEF Posted
      <4>3. CASE i # 1
        <5>1. i - 1 \in 1..Len(list') /\ (i - 1) + 1 = i
          BY <2>1, <4>3
        <5>2. Head(list'[i - 1].bufs) = h
          BY <2>1, <4>1, <5>1
        <5>3. QED
          BY <5>1, <5>2 DEF Posted
      <4>4. QED
        BY <4>2, <4>3
    <3>3. QED
      BY <2>2, <2>3, <3>1, <3>2 DEF Posted
  <2>4. QED
    BY <1>8, <2>2, <2>3
<1>10. CASE RetrySucceeds
  <2>1. PICK r \in Replies : reply' = [reply EXCEPT ![Head(inflight.bufs)] = r]
    BY <1>10 DEF RetrySucceeds
  <2>2. UNCHANGED <<list, wpc, answer, handle, inflight>> /\ rpc = "post" /\ r # None
    BY <1>10, NamesAssumption DEF RetrySucceeds
  <2>3. Head(inflight.bufs) \in Writers
    BY <2>2, HeadFacts DEF TypeOK, BatchInv
  <2>4. ASSUME NEW h \in Writers, Posted(h) PROVE Posted(h)'
    <3>1. reply'[h] = IF h = Head(inflight.bufs) THEN r ELSE reply[h]
      BY <2>1, <2>3 DEF TypeOK
    <3>2. QED
      BY <2>2, <2>4, <3>1 DEF Posted
  <2>5. QED
    BY <1>8, <2>2, <2>4
<1>11. CASE Sleep \/ RetryFails \/ Release
  <2>1. UNCHANGED <<list, wpc, answer, handle, reply>>
        /\ (rpc = "post" => rpc' = "post" /\ UNCHANGED inflight)
    BY <1>11 DEF Sleep, RetryFails, Release
  <2>2. \A h \in Writers : Posted(h) => Posted(h)'
    BY <2>1 DEF Posted
  <2>3. QED
    BY <1>8, <2>1, <2>2
<1>12. CASE UNCHANGED vars
  BY <1>2, <1>8, <1>12 DEF vars
<1>13. QED
  BY <1>4, <1>5, <1>6, <1>7, <1>9, <1>10, <1>11, <1>12 DEF Next, WriterStep, RunStep

\* The state of the queue of writes the buffer stands for.
Queued == [k \in Keys |-> Pending(k)]
Taken == {w \in Writers : wpc[w] \in {"unlocked", "wait", "answered", "panic"}}

\* They depend on run, the batch in its hands and the list.
LEMMA QueuedIs ==
  /\ Queued = [k \in Keys |-> Pend(rpc, inflight, list, k)]
  /\ Queued' = [k \in Keys |-> Pend(rpc', inflight', list', k)]
BY DEF Queued, Pending, Unfinished, Pend, Held, Parts, Part

\* A step that leaves the batches where they are leaves the queues.
LEMMA QueuedSame ==
  ASSUME IInv, UNCHANGED <<list, inflight>>, rpc' = "post" <=> rpc = "post"
  PROVE  Queued' = Queued
BY QueuedIs DEF Pend, Held

\* Every step of the buffer is a step of the queues, or changes nothing of them.
LEMMA QueueStep ==
  ASSUME Replies \subseteq {"ok"}, IInv, OrderInv, StoredInv, ReplyInv, [Next]_vars
  PROVE  Queue!Next \/ UNCHANGED Queue!vars
<1> USE DEF IInv, GoW, GoR, listVars, runVars, backendVars, writerVars
<1>1. ASSUME UNCHANGED <<Queued, Taken, applied, answer>>
      PROVE  UNCHANGED Queue!vars
  BY <1>1 DEF Queue!vars, Queued, Taken
<1>2. ASSUME NEW w \in Writers,
             LoadBuffering(w) \/ DirectFails(w) \/ StoreBuffering(w) \/ Refuse(w) \/ ReadHandle(w)
      PROVE  UNCHANGED Queue!vars
  <2>1. UNCHANGED <<list, inflight, rpc, applied, answer>>
    BY <1>2 DEF LoadBuffering, DirectFails, Failed, StoreBuffering, Refuse, ReadHandle
  <2>2. Taken' = Taken
    BY <1>2 DEF LoadBuffering, DirectFails, StoreBuffering, Refuse, ReadHandle, TypeOK, Taken
  <2>3. QED
    BY <1>1, <2>1, <2>2, QueuedSame
<1>3. ASSUME NEW w \in Writers, DirectSucceeds(w) PROVE Queue!Next
  <2>1. PICK r \in Replies : Accepted({w}, r) /\ answer' = [answer EXCEPT ![w] = r]
    BY <1>3 DEF DirectSucceeds
  <2>2. /\ UNCHANGED <<list, inflight, rpc>>
        /\ wpc[w] = "direct" /\ wpc' = [wpc EXCEPT ![w] = "answered"]
    BY <1>3 DEF DirectSucceeds
  <2>3. w \notin Taken /\ Taken' = Taken \cup {w}
    BY <2>2 DEF TypeOK, Taken
  <2>4. Queued' = Queued
    BY <2>2, QueuedSame
  <2>5. Queue!Outcome({w}, r) /\ r \in {"ok", "rejected"}
    BY <2>1 DEF Accepted, Queue!Outcome
  <2>6. Queue!GoThrough(w)
    BY <2>1, <2>3, <2>4, <2>5 DEF Queue!GoThrough, Queue!Take, Queued, Taken
  <2>7. QED
    BY <2>6 DEF Queue!Next
<1>4. ASSUME NEW w \in Writers, Add(w) PROVE Queue!Next
  <2>1. /\ UNCHANGED <<inflight, applied, answer>> /\ (rpc' = "post" <=> rpc = "post")
        /\ wpc[w] = "add" /\ wpc' = [wpc EXCEPT ![w] = "unlocked"]
    BY <1>4 DEF Add, Signal
  <2>2. w \notin Taken /\ Taken' = Taken \cup {w}
    BY <2>1 DEF TypeOK, Taken
  <2>3. /\ Key[w] \in Keys /\ list \in Seq(Batch) /\ list' \in Seq(Batch)
        /\ rpc = "post" => inflight \in Batch
    BY <1>4, AddFacts, KeyAssumption DEF TypeOK, BatchInv
  <2>4. ASSUME NEW k \in Keys
        PROVE  /\ k = Key[w] =>
                    Pend(rpc', inflight', list', k) = Append(Pend(rpc, inflight, list, k), w)
               /\ k # Key[w] =>
                    Pend(rpc', inflight', list', k) = Pend(rpc, inflight, list, k)
    <3>1. /\ k = Key[w] => Flat(list', k) = Append(Flat(list, k), w)
          /\ k # Key[w] => Flat(list', k) = Flat(list, k)
      BY <1>4, AddFlat
    <3>2. Flat(list, k) \in Seq(Writers)
      BY <2>3, FlatFacts
    <3>3. CASE rpc # "post"
      <4>1. rpc' # "post"
        BY <2>1, <3>3
      <4>2. /\ Pend(rpc, inflight, list, k) = Flat(list, k)
            /\ Pend(rpc', inflight', list', k) = Flat(list', k)
        BY <2>3, <3>3, <4>1, PendOther
      <4>3. QED
        BY <3>1, <4>2
    <3>4. CASE rpc = "post"
      <4>1. Pend(rpc, inflight, list, k) = Part(inflight, k) \o Flat(list, k)
        BY <2>3, <3>4, PendPosting
      <4>2. Pend(rpc', inflight', list', k) = Part(inflight, k) \o Flat(list', k)
        <5>1. rpc' = "post" /\ inflight' = inflight /\ inflight \in Batch
          BY <2>1, <2>3, <3>4
        <5>2. QED
          BY <2>3, <5>1, PendPosting
      <4>3. Part(inflight, k) \in Seq(Writers)
        BY <2>3, <3>4 DEF Part, Batch
      <4>4. Part(inflight, k) \o Append(Flat(list, k), w)
              = Append(Part(inflight, k) \o Flat(list, k), w)
        BY <3>2, <4>3, AppendOrder
      <4>5. QED
        BY <3>1, <4>1, <4>2, <4>4
    <3>5. QED
      BY <3>3, <3>4
  <2>5. Queued' = [Queued EXCEPT ![Key[w]] = Append(@, w)]
    BY <2>3, <2>4, QueuedIs
  <2>6. Queue!Accept(w)
    BY <2>1, <2>2, <2>5 DEF Queue!Accept, Queue!Take, Queued, Taken
  <2>7. QED
    BY <2>6 DEF Queue!Next
<1>5. ASSUME NEW w \in Writers, Wait(w) PROVE Queue!Next
  <2>1. /\ UNCHANGED <<list, inflight, rpc, applied>>
        /\ wpc[w] = "wait" /\ wpc' = [wpc EXCEPT ![w] = "answered"]
        /\ Released(handle[w]) /\ answer' = [answer EXCEPT ![w] = reply[handle[w]]]
    BY <1>5 DEF Wait
  <2>2. w \in Taken /\ Taken' = Taken
    BY <2>1 DEF TypeOK, Taken
  <2>3. Queued' = Queued
    BY <2>1, QueuedSame
  <2>4. answer[w] = None
    BY <2>1 DEF ReplyInv, NoAnswer
  <2>5. handle[w] \in Writers /\ reply[handle[w]] # None
    <3>1. handle[w] \in Writers
      BY <2>1 DEF HandleInv, Handled
    <3>2. Posted(handle[w])
      BY <2>1, <3>1 DEF ReplyInv, Awaits
    <3>3. QED
      BY <2>1, <3>1, <3>2 DEF Posted, Released, BatchInv
  <2>6. reply[handle[w]] \in {"ok", "rejected"}
    BY <2>5 DEF TypeOK
  <2>7. reply[handle[w]] = "ok" => w \in applied
    <3>1. Kept(w)
      BY <2>1 DEF StoredInv
    <3>2. QED
      BY <1>5, <3>1, WaitFrees DEF Kept, BatchInv
  <2>8. Key[w] \in Keys /\ w \notin ToSet(Queued[Key[w]])
    <3>1. Key[w] \in Keys /\ list \in Seq(Batch) /\ (rpc = "post" => inflight \in Batch)
      BY KeyAssumption DEF TypeOK, BatchInv
    <3>2. w \notin ToSet(Pend(rpc, inflight, list, Key[w]))
      BY <1>5, <3>1, WaitFrees, NotPending DEF BatchInv
    <3>3. QED
      BY <3>1, <3>2, QueuedIs
  <2>9. \E r \in {"ok", "rejected"} : /\ r = "ok" => w \in applied
                                      /\ answer' = [answer EXCEPT ![w] = r]
    BY <2>1, <2>6, <2>7
  <2>10. Queue!Answer(w)
    <3>1. UNCHANGED <<Queued, Taken, applied>>
      BY <2>1, <2>2, <2>3
    <3>2. w \in Taken /\ answer[w] = None /\ w \notin ToSet(Queued[Key[w]])
      BY <2>2, <2>4, <2>8
    <3>3. QED
      BY <2>9, <3>1, <3>2, Zenon DEF Queue!Answer, Queue!ToSet, ToSet, Queued, Taken
  <2>11. QED
    BY <2>10 DEF Queue!Next
<1>6. CASE Pop
  <2>1. UNCHANGED <<wpc, answer, applied>> /\ rpc = "pop" /\ rpc' = "post"
    BY <1>6 DEF Pop
  <2>2. ASSUME NEW k \in Keys
        PROVE  Pend(rpc', inflight', list', k) = Pend(rpc, inflight, list, k)
    <3>1. /\ inflight' \in Batch /\ list' \in Seq(Batch) /\ list \in Seq(Batch)
          /\ Flat(list, k) = Part(inflight', k) \o Flat(list', k)
      BY <1>6, PopFlat DEF TypeOK
    <3>2. Pend(rpc, inflight, list, k) = Flat(list, k)
      <4>1. rpc # "post"
        BY <2>1
      <4>2. QED
        BY <3>1, <4>1, PendOther
    <3>3. Pend(rpc', inflight', list', k) = Part(inflight', k) \o Flat(list', k)
      BY <2>1, <3>1, PendPosting
    <3>4. QED
      BY <3>1, <3>2, <3>3
  <2>3. Queued' = Queued
    BY <2>2, QueuedIs
  <2>4. Taken' = Taken
    BY <2>1 DEF Taken
  <2>5. QED
    BY <1>1, <2>1, <2>3, <2>4
<1>7. CASE RetrySucceeds
  <2>1. PICK r \in Replies : Accepted(ToSet(inflight.bufs), r)
    BY <1>7 DEF RetrySucceeds
  <2>2. UNCHANGED <<list, wpc, answer, inflight>> /\ rpc = "post" /\ rpc' = "release"
    BY <1>7 DEF RetrySucceeds
  <2> DEFINE key == inflight.key
             a == inflight.bufs
             q == Queued[key]
             b == Flat(list, key)
             n == Len(a)
  <2>3. inflight \in Batch /\ key \in Keys /\ a \in Seq(Writers) /\ n \in Nat \ {0}
        /\ list \in Seq(Batch)
    <3>1. inflight \in Batch /\ a # <<>> /\ list \in Seq(Batch)
      BY <2>2 DEF TypeOK, BatchInv
    <3>2. QED
      BY <3>1, HeadFacts DEF Batch
  <2>4. ASSUME NEW k \in Keys
        PROVE  /\ Pend(rpc, inflight, list, k) = Part(inflight, k) \o Flat(list, k)
               /\ Pend(rpc', inflight', list', k) = Flat(list, k)
               /\ Flat(list, k) \in Seq(Writers)
    <3>1. rpc' # "post" /\ list' = list
      BY <2>2
    <3>2. Pend(rpc', inflight', list', k) = Flat(list', k)
      BY <2>3, <3>1, PendOther
    <3>3. QED
      BY <2>2, <2>3, <3>1, <3>2, PendPosting, FlatFacts
  <2>5. q = a \o b /\ b \in Seq(Writers)
    BY <2>3, <2>4, QueuedIs DEF Part
  <2> HIDE DEF a, b, q
  <2>6. SubSeq(q, 1, n) = a /\ SubSeq(q, n + 1, Len(q)) = b /\ n \in 1..Len(q)
    BY <2>3, <2>5, SplitConcat
  <2>7. Queued' = [Queued EXCEPT ![key] = SubSeq(@, n + 1, Len(@))]
    <3>1. ASSUME NEW k \in Keys, k # key
          PROVE  Pend(rpc', inflight', list', k) = Pend(rpc, inflight, list, k)
      <4>1. Part(inflight, k) = <<>>
        BY <3>1 DEF Part
      <4>2. QED
        BY <2>4, <4>1, ConcatEmptySeq
    <3>2. Pend(rpc', inflight', list', key) = SubSeq(q, n + 1, Len(q))
      BY <2>3, <2>4, <2>6 DEF b
    <3>3. QED
      BY <2>3, <3>1, <3>2, QueuedIs DEF q
  <2>8. Taken' = Taken
    BY <2>2 DEF Taken
  <2>9. Queue!Outcome(ToSet(SubSeq(q, 1, n)), r) /\ r \in {"ok", "rejected"}
    BY <2>1, <2>6 DEF Accepted, Queue!Outcome, a
  <2>10. Queue!Finish(key)
    <3> HIDE DEF n
    <3>1. \E m \in 1..Len(Queued[key]), z \in {"ok", "rejected"} :
            /\ Queue!Outcome(ToSet(SubSeq(Queued[key], 1, m)), z)
            /\ Queued' = [Queued EXCEPT ![key] = SubSeq(@, m + 1, Len(@))]
      BY <2>6, <2>7, <2>9 DEF q
    <3>2. UNCHANGED <<Taken, answer>>
      BY <2>2, <2>8
    <3> HIDE DEF key
    <3>3. QED
      BY <3>1, <3>2, Zenon DEF Queue!Finish, Queue!ToSet, ToSet, Queued, Taken
  <2>11. QED
    BY <2>3, <2>10 DEF Queue!Next
<1>8. CASE Sleep \/ RetryFails \/ Release
  <2>1. UNCHANGED <<list, wpc, answer, applied>> /\ (rpc' = "post" <=> rpc = "post")
        /\ (rpc = "post" => UNCHANGED inflight)
    BY <1>8 DEF Sleep, RetryFails, Failed, Release
  <2>2. Queued' = Queued
    BY <2>1, QueuedIs DEF Pend, Held
  <2>3. QED
    BY <1>1, <2>1, <2>2 DEF Taken
<1>9. CASE UNCHANGED vars
  BY <1>1, <1>9, QueuedSame DEF vars, Taken
<1>10. QED
  BY <1>2, <1>3, <1>4, <1>5, <1>6, <1>7, <1>8, <1>9 DEF Next, WriterStep, RunStep

\* As long as the backend rejects nothing, the buffer is a queue per key: whatever the
\* sizes of the writes, the batches they share, the flags and the pointers say.
THEOREM ImplementsWriteQueue ==
  ASSUME Replies \subseteq {"ok"}
  PROVE  Spec => KeyedQueue
<1>1. Init => SoundInv /\ StoredInv /\ ReplyInv
  <2>1. Init => Len(list) = 0
    BY DEF Init
  <2>2. Init => SoundInv
    BY <2>1 DEF SoundInv, OrderInv
  <2>3. Init => StoredInv
    BY NamesAssumption DEF Init, StoredInv
  <2>4. Init => ReplyInv
    BY DEF Init, ReplyInv, NoAnswer, Awaits
  <2>5. QED
    BY <2>2, <2>3, <2>4
<1>2. IInv /\ SoundInv /\ StoredInv /\ ReplyInv /\ [Next]_vars
        => SoundInv' /\ StoredInv' /\ ReplyInv'
  BY SoundStep, StoredStep, ReplyStep
<1>3. Init => Queue!Init
  <2>1. SUFFICES ASSUME Init PROVE Queue!Init
    OBVIOUS
  <2>2. list = <<>> /\ rpc = "pop"
    BY <2>1 DEF Init
  <2>3. ASSUME NEW k \in Keys PROVE Pend(rpc, inflight, list, k) = <<>>
    <3>1. Held(rpc, inflight, list) = <<>>
      BY <2>2 DEF Held
    <3>2. Len(Parts(<<>>, k)) = 0
      BY DEF Parts
    <3>3. FlattenSeq(Parts(<<>>, k)) = <<>>
      BY <3>2 DEF FlattenSeq
    <3>4. QED
      BY <3>1, <3>3 DEF Pend
  <2>4. Queued = [k \in Keys |-> <<>>]
    BY <2>3, QueuedIs
  <2>5. Taken = {}
    BY <2>1 DEF Init, Taken
  <2>6. QED
    BY <2>1, <2>4, <2>5 DEF Init, Queue!Init, Queued, Taken
<1>4. IInv /\ SoundInv /\ StoredInv /\ ReplyInv /\ [Next]_vars => [Queue!Next]_(Queue!vars)
  BY QueueStep DEF SoundInv
<1>5. QED
  BY <1>1, <1>2, <1>3, <1>4, Invariant, PTL DEF Spec, KeyedQueue, Queue!Spec
=============================================================================
