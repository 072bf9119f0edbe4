------------------------- MODULE EventQueue_proofs -------------------------
(***************************************************************************)
(* The queue reports nothing as persisted that is not concluded, for every *)
(* capacity and every sequence of operations; and it implements            *)
(* AckContract, which is sound.  QueueInv is inductive: each operation has *)
(* a lemma of its own, which the proofs about modules that use the queue   *)
(* cite again.                                                             *)
(***************************************************************************)
EXTENDS EventQueue, FiniteSetTheorems, FunctionTheorems, TLAPS

-----------------------------------------------------------------------------
(* Counting *)

\* The entries of a batch are as many as its count.
LEMMA EntriesCount ==
  ASSUME NEW b \in WrappedBatch
  PROVE  /\ IsFiniteSet(Entries(b))
         /\ Cardinality(Entries(b)) = b.count
<1> DEFINE last == b.first + b.count - 1
<1>1. b.first \in Int /\ b.count \in Int /\ last \in Int /\ b.first <= last
  BY DEF WrappedBatch
<1> HIDE DEF last
<1>2. /\ IsFiniteSet(b.first..last)
      /\ Cardinality(b.first..last) = last - b.first + 1
  BY <1>1, FS_Interval
<1>3. last - b.first + 1 = b.count
  BY <1>1 DEF last
<1> QED
  BY <1>2, <1>3 DEF Entries, last

\* Any set of entries of a batch is finite and its size a natural number.
LEMMA PartCount ==
  ASSUME NEW b \in WrappedBatch, NEW S
  PROVE  /\ IsFiniteSet(S \cap Entries(b))
         /\ Cardinality(S \cap Entries(b)) \in Nat
         /\ Cardinality(S \cap Entries(b)) <= b.count
<1>1. S \cap Entries(b) \in SUBSET Entries(b)
  OBVIOUS
<1>2. IsFiniteSet(S \cap Entries(b)) /\ Cardinality(S \cap Entries(b)) <= b.count
  BY <1>1, EntriesCount, FS_Subset
<1> QED
  BY <1>2, FS_CardinalityType

\* WrappedBatch's counting: as many concluded entries as the batch has means
\* that all of them are concluded.
LEMMA FullCount ==
  ASSUME NEW b \in WrappedBatch, NEW S,
         b.count <= Cardinality(S \cap Entries(b))
  PROVE  Entries(b) \subseteq S
<1>1. S \cap Entries(b) \in SUBSET Entries(b)
  OBVIOUS
<1>2. b.count \in Nat
  BY DEF WrappedBatch
<1>3. Cardinality(S \cap Entries(b)) = Cardinality(Entries(b))
  BY <1>2, EntriesCount, PartCount
<1> QED
  BY <1>1, <1>3, EntriesCount, FS_Subset

\* Concluding more entries never lowers the count of a batch.
LEMMA CountGrows ==
  ASSUME NEW b \in WrappedBatch, NEW S, NEW T, S \subseteq T
  PROVE  Cardinality(S \cap Entries(b)) <= Cardinality(T \cap Entries(b))
<1>1. S \cap Entries(b) \in SUBSET (T \cap Entries(b))
  OBVIOUS
<1> QED
  BY <1>1, PartCount, FS_Subset

-----------------------------------------------------------------------------
(* The operations keep QueueInv *)

LEMMA NewKeeps ==
  ASSUME QueueInv, New
  PROVE  QueueInv'
<1>0. epoch + 1 \in Nat /\ <<>> \in Seq(WrappedBatch)
  BY DEF QueueInv, QueueTypeOK
<1>1. QueueTypeOK'
  BY <1>0, Zenon DEF QueueTypeOK, New
<1> QED
  BY <1>1, QueueAssumption
  DEF New, QueueInv, PersistedIsConcluded, PersistedIndex, BatchesAreContiguous,
      WithinCapacity, DoneIsConcluded, ReadBeforeConcluded, BatchesCoverRead

LEMMA InitKeeps ==
  ASSUME QueueInit
  PROVE  QueueInv
<1>1. QueueTypeOK
  BY DEF QueueInit, QueueTypeOK
<1> QED
  BY <1>1, QueueAssumption
  DEF QueueInit, QueueInv, PersistedIsConcluded, PersistedIndex,
      BatchesAreContiguous, WithinCapacity, DoneIsConcluded, ReadBeforeConcluded,
      BatchesCoverRead

LEMMA EnqueueKeeps ==
  ASSUME QueueInv, Enqueue
  PROVE  QueueInv'
<1> USE QueueAssumption DEF QueueInv, Enqueue
<1>1. QueueTypeOK'
  BY DEF QueueTypeOK
<1>2. PersistedIsConcluded'
  BY DEF PersistedIsConcluded, PersistedIndex
<1>3. BatchesAreContiguous'
  BY DEF BatchesAreContiguous, QueueTypeOK
<1>4. WithinCapacity'
  BY DEF WithinCapacity, IsFull, QueueTypeOK
<1>5. DoneIsConcluded'
  BY DEF DoneIsConcluded, Entries
<1>6. ReadBeforeConcluded'
  BY DEF ReadBeforeConcluded
<1>7. BatchesCoverRead'
  BY DEF BatchesCoverRead, Entries
<1> QED
  BY <1>1, <1>2, <1>3, <1>4, <1>5, <1>6, <1>7

LEMMA CloseKeeps ==
  ASSUME QueueInv, Close
  PROVE  QueueInv'
BY DEF QueueInv, Close, QueueTypeOK, PersistedIsConcluded, PersistedIndex,
       BatchesAreContiguous, WithinCapacity, DoneIsConcluded, Entries,
       ReadBeforeConcluded, BatchesCoverRead

LEMMA GetKeeps ==
  ASSUME QueueInv, NEW n, Get(n)
  PROVE  QueueInv'
<1> DEFINE b == [first |-> unread, count |-> n, doneCount |-> 0]
<1>1. /\ n \in Nat \ {0}
      /\ n <= nextID - unread
      /\ unread' = unread + n
  BY DEF QueueInv, QueueTypeOK, Get
<1>2. b \in WrappedBatch
  BY <1>1 DEF WrappedBatch, QueueInv, QueueTypeOK
<1>3. /\ batches \in Seq(WrappedBatch)
      /\ batches' = Append(batches, b)
  BY DEF QueueInv, QueueTypeOK, Get
<1>4. /\ batches' \in Seq(WrappedBatch)
      /\ Len(batches') = Len(batches) + 1
      /\ Len(batches) \in Nat
      /\ DOMAIN batches = 1..Len(batches)
      /\ DOMAIN batches' = 1..(Len(batches) + 1)
      /\ batches'[Len(batches) + 1] = b
      /\ \A i \in 1..Len(batches) : batches'[i] = batches[i]
      /\ batches' # <<>>
  BY <1>2, <1>3
<1> HIDE DEF b
<1>b. b.first = unread /\ b.count = n /\ b.doneCount = 0
  BY DEF b
<1>5. QueueTypeOK'
  BY <1>1, <1>4 DEF QueueInv, QueueTypeOK, Get
<1>6. PersistedIsConcluded'
  BY DEF QueueInv, Get, PersistedIsConcluded, PersistedIndex
<1>7. BatchesAreContiguous'
  <2>1. oldest' <= unread' /\ unread' <= nextID'
    BY <1>1 DEF QueueInv, QueueTypeOK, BatchesAreContiguous, Get
  <2>2. batches'[1].first = oldest'
    <3>1. CASE batches = <<>>
      BY <3>1, <1>4, <1>b DEF QueueInv, BatchesAreContiguous, Get
    <3>2. CASE batches # <<>>
      <4>1. 1 \in 1..Len(batches)
        BY <3>2, <1>3, <1>4
      <4> QED
        BY <3>2, <4>1, <1>4 DEF QueueInv, BatchesAreContiguous, Get
    <3> QED
      BY <3>1, <3>2
  <2>3. batches'[Len(batches')].first + batches'[Len(batches')].count = unread'
    BY <1>1, <1>4, <1>b
  <2>4. ASSUME NEW i \in 1..(Len(batches') - 1)
        PROVE  batches'[i].first + batches'[i].count = batches'[i + 1].first
    <3>1. i \in 1..Len(batches) /\ batches'[i] = batches[i]
      BY <1>4
    <3>2. CASE i = Len(batches)
      <4>1. batches # <<>>
        BY <3>1, <1>4
      <4>2. batches[i].first + batches[i].count = unread
        BY <3>2, <4>1 DEF QueueInv, BatchesAreContiguous
      <4>3. batches'[i + 1] = b
        BY <3>2, <1>4
      <4> QED
        BY <3>1, <4>2, <4>3, <1>b
    <3>3. CASE i # Len(batches)
      <4>0. Len(batches) \in Nat /\ i \in 1..Len(batches)
        BY <3>1, <1>4
      <4>1. i \in 1..(Len(batches) - 1) /\ i + 1 \in 1..Len(batches)
        BY <4>0, <3>3
      <4>2. batches[i].first + batches[i].count = batches[i + 1].first
        BY <4>1 DEF QueueInv, BatchesAreContiguous
      <4> QED
        BY <3>1, <4>1, <4>2, <1>4
    <3> QED
      BY <3>2, <3>3
  <2> QED
    BY <2>1, <2>2, <2>3, <2>4, <1>4 DEF BatchesAreContiguous
<1>8. WithinCapacity'
  BY DEF QueueInv, WithinCapacity, Get
<1>9. DoneIsConcluded'
  <2> SUFFICES ASSUME NEW i \in 1..(Len(batches) + 1)
               PROVE  batches'[i].doneCount
                        <= Cardinality(concluded \cap Entries(batches'[i]))
    BY <1>4 DEF DoneIsConcluded, Entries, Get
  <2>1. CASE i = Len(batches) + 1
    <3>1. Cardinality(concluded \cap Entries(b)) \in Nat
      BY <1>2, PartCount DEF b
    <3> QED
      BY <2>1, <3>1, <1>4, <1>b
  <2>2. CASE i \in 1..Len(batches)
    BY <2>2, <1>4 DEF QueueInv, DoneIsConcluded
  <2> QED
    BY <2>1, <2>2, <1>4
<1>10. ReadBeforeConcluded'
  <2>1. concluded' \subseteq 0..(unread' - 1)
    BY <1>1 DEF QueueInv, QueueTypeOK, ReadBeforeConcluded, Get
  <2>2. ASSUME NEW i \in 1..(Len(batches) + 1)
        PROVE  batches'[i].first + batches'[i].count <= unread'
    <3>1. CASE i = Len(batches) + 1
      BY <3>1, <1>1, <1>4, <1>b DEF QueueInv, QueueTypeOK
    <3>2. CASE i \in 1..Len(batches)
      <4>1. batches[i] \in WrappedBatch
        BY <3>2, <1>3
      <4>2. batches[i].first + batches[i].count <= unread
        BY <3>2, <1>4 DEF QueueInv, ReadBeforeConcluded
      <4>3. /\ batches[i].first \in Nat
            /\ batches[i].count \in Nat
            /\ unread \in Nat
        BY <4>1 DEF WrappedBatch, QueueInv, QueueTypeOK
      <4> QED
        BY <3>2, <4>2, <4>3, <1>1, <1>4
    <3> QED
      BY <3>1, <3>2, <1>4
  <2> QED
    BY <2>1, <2>2, <1>4 DEF ReadBeforeConcluded
<1>11. BatchesCoverRead'
  <2>0. /\ oldest \in Nat /\ unread \in Nat /\ Len(batches) \in Nat
        /\ oldest' = oldest /\ unread' = unread + n
    BY <1>4 DEF QueueInv, QueueTypeOK, Get
  <2> SUFFICES ASSUME NEW id \in oldest'..(unread' - 1)
               PROVE  \E i \in DOMAIN batches' : id \in Entries(batches'[i])
    BY Zenon DEF BatchesCoverRead, Entries
  <2>1. CASE id \in oldest..(unread - 1)
    <3>1. PICK i \in DOMAIN batches : id \in Entries(batches[i])
      BY <2>1 DEF QueueInv, BatchesCoverRead
    <3>2. i \in 1..Len(batches) /\ i \in 1..(Len(batches) + 1)
      BY <1>4, <2>0
    <3> QED
      BY <3>1, <3>2, <1>4
  <2>2. CASE id \notin oldest..(unread - 1)
    <3>1. id \in Entries(b)
      BY <2>0, <2>2, <1>1, <1>b DEF Entries
    <3>2. Len(batches) + 1 \in 1..(Len(batches) + 1)
      BY <2>0
    <3> QED
      BY <3>1, <3>2, <1>4
  <2> QED
    BY <2>1, <2>2
<1> QED
  BY <1>5, <1>6, <1>7, <1>8, <1>9, <1>10, <1>11 DEF QueueInv

LEMMA DoneKeeps ==
  ASSUME QueueInv, NEW i \in DOMAIN batches, NEW n, ReportDone(i, n)
  PROVE  QueueInv'
<1> DEFINE c(j) == Cardinality(concluded \cap Entries(batches[j]))
           b == [batches[i] EXCEPT !.doneCount = @ + n]
<1>1. /\ batches \in Seq(WrappedBatch)
      /\ Len(batches) \in Nat
      /\ DOMAIN batches = 1..Len(batches)
      /\ \A j \in 1..Len(batches) : batches[j] \in WrappedBatch
  BY DEF QueueInv, QueueTypeOK
<1>2. /\ batches[i].doneCount \in Nat
      /\ batches[i].count \in Nat \ {0}
      /\ batches[i].first \in Nat
  BY <1>1 DEF WrappedBatch
<1>3. c(i) \in Nat
  BY <1>1, PartCount
<1>4. n \in Nat \ {0} /\ batches[i].doneCount + n <= c(i)
  <2>1. n \in 1..(c(i) - batches[i].doneCount)
    BY DEF ReportDone, Unreported
  <2> HIDE DEF c
  <2> QED
    BY <2>1, <1>2, <1>3
<1> HIDE DEF c
<1>5. /\ b \in WrappedBatch
      /\ b.first = batches[i].first
      /\ b.count = batches[i].count
      /\ b.doneCount = batches[i].doneCount + n
  <2>1. batches[i] \in [first : Nat, count : Nat \ {0}, doneCount : Nat]
    BY <1>1 DEF WrappedBatch
  <2>2. batches[i].doneCount + n \in Nat
    BY <1>2, <1>4
  <2> QED
    BY <2>1, <2>2 DEF WrappedBatch
<1>6. batches' = [batches EXCEPT ![i] = b]
  <2>1. batches' = [batches EXCEPT ![i].doneCount = @ + n]
    BY Zenon DEF ReportDone, Done
  <2> QED
    BY <2>1
<1> HIDE DEF b
<1>7. /\ batches' \in Seq(WrappedBatch)
      /\ Len(batches') = Len(batches)
      /\ DOMAIN batches' = 1..Len(batches)
      /\ batches'[i] = b
      /\ \A j \in 1..Len(batches) : j # i => batches'[j] = batches[j]
  BY <1>1, <1>5, <1>6
<1>8. \A j \in 1..Len(batches) :
        batches'[j].first = batches[j].first /\ batches'[j].count = batches[j].count
  BY <1>1, <1>5, <1>7
<1>9. UNCHANGED <<epoch, closed, nextID, unread, oldest, concluded>>
  BY DEF ReportDone, Done
<1>10. QueueTypeOK' /\ PersistedIsConcluded' /\ WithinCapacity'
  BY <1>7, <1>9
  DEF QueueInv, QueueTypeOK, PersistedIsConcluded, PersistedIndex, WithinCapacity
<1>11. BatchesAreContiguous'
  <2>1. batches # <<>> /\ batches' # <<>> /\ 1 \in 1..Len(batches)
        /\ Len(batches) \in 1..Len(batches)
    BY <1>1, <1>7
  <2>2. /\ batches'[1].first = oldest'
        /\ batches'[Len(batches)].first + batches'[Len(batches)].count = unread'
    BY <2>1, <1>8, <1>9 DEF QueueInv, BatchesAreContiguous
  <2>3. ASSUME NEW j \in 1..(Len(batches) - 1)
        PROVE  batches'[j].first + batches'[j].count = batches'[j + 1].first
    <3>1. j \in 1..Len(batches) /\ j + 1 \in 1..Len(batches)
      BY <1>1
    <3>2. batches[j].first + batches[j].count = batches[j + 1].first
      BY DEF QueueInv, BatchesAreContiguous
    <3> QED
      BY <3>1, <3>2, <1>8
  <2>4. oldest' <= unread' /\ unread' <= nextID'
    BY <1>9 DEF QueueInv, BatchesAreContiguous
  <2> QED
    BY <2>1, <2>2, <2>3, <2>4, <1>7 DEF BatchesAreContiguous
<1>12. DoneIsConcluded'
  <2> SUFFICES ASSUME NEW j \in 1..Len(batches)
               PROVE  batches'[j].doneCount
                        <= Cardinality(concluded' \cap Entries(batches'[j]))
    BY <1>7 DEF DoneIsConcluded, Entries
  <2>1. concluded' \cap Entries(batches'[j]) = concluded \cap Entries(batches[j])
    BY <1>8, <1>9 DEF Entries
  <2>2. CASE j = i
    <3>1. batches'[j].doneCount <= c(j)
      BY <2>2, <1>4, <1>5, <1>7
    <3> QED
      BY <3>1, <2>1 DEF c
  <2>3. CASE j # i
    <3>1. batches'[j].doneCount <= Cardinality(concluded \cap Entries(batches[j]))
      BY <2>3, <1>1, <1>7 DEF QueueInv, DoneIsConcluded
    <3> QED
      BY <3>1, <2>1
  <2> QED
    BY <2>2, <2>3
<1>13. ReadBeforeConcluded'
  BY <1>1, <1>7, <1>8, <1>9 DEF QueueInv, ReadBeforeConcluded
<1>14. BatchesCoverRead'
  <2> SUFFICES ASSUME NEW id \in oldest..(unread - 1)
               PROVE  \E j \in 1..Len(batches) : id \in Entries(batches'[j])
    BY <1>7, <1>9 DEF BatchesCoverRead, Entries
  <2>1. PICK j \in 1..Len(batches) : id \in Entries(batches[j])
    BY <1>1 DEF QueueInv, BatchesCoverRead
  <2> QED
    BY <2>1, <1>8 DEF Entries
<1> QED
  BY <1>10, <1>11, <1>12, <1>13, <1>14 DEF QueueInv

LEMMA ConcludeKeeps ==
  ASSUME QueueInv, NEW id, Conclude(id)
  PROVE  QueueInv'
<1>1. PICK k \in DOMAIN batches : id \in Entries(batches[k])
  BY DEF Conclude
<1>2. /\ batches \in Seq(WrappedBatch)
      /\ DOMAIN batches = 1..Len(batches)
      /\ \A j \in DOMAIN batches : batches[j] \in WrappedBatch
  BY DEF QueueInv, QueueTypeOK
<1>3. id \in Nat /\ id \in 0..(unread - 1)
  <2>1. /\ batches[k].first \in Nat
        /\ batches[k].count \in Nat
        /\ unread \in Nat
    BY <1>2 DEF WrappedBatch, QueueInv, QueueTypeOK
  <2>2. batches[k].first + batches[k].count <= unread
    BY DEF QueueInv, ReadBeforeConcluded
  <2> QED
    BY <1>1, <2>1, <2>2 DEF Entries
<1>4. /\ concluded' = concluded \cup {id}
      /\ UNCHANGED <<epoch, closed, nextID, unread, oldest, batches>>
  BY DEF Conclude
<1>5. QueueTypeOK' /\ PersistedIsConcluded' /\ WithinCapacity'
  BY <1>3, <1>4
  DEF QueueInv, QueueTypeOK, PersistedIsConcluded, PersistedIndex, WithinCapacity
<1>6. BatchesAreContiguous'
  BY <1>4 DEF QueueInv, BatchesAreContiguous
<1>7. DoneIsConcluded'
  <2> SUFFICES ASSUME NEW j \in DOMAIN batches
               PROVE  batches[j].doneCount
                        <= Cardinality(concluded' \cap Entries(batches[j]))
    BY <1>4 DEF DoneIsConcluded, Entries
  <2>1. batches[j].doneCount <= Cardinality(concluded \cap Entries(batches[j]))
    BY DEF QueueInv, DoneIsConcluded
  <2>2. Cardinality(concluded \cap Entries(batches[j]))
          <= Cardinality(concluded' \cap Entries(batches[j]))
    BY <1>2, <1>4, CountGrows
  <2>3. /\ batches[j].doneCount \in Nat
        /\ Cardinality(concluded \cap Entries(batches[j])) \in Nat
        /\ Cardinality(concluded' \cap Entries(batches[j])) \in Nat
    BY <1>2, PartCount DEF WrappedBatch
  <2> QED
    BY <2>1, <2>2, <2>3
<1>8. ReadBeforeConcluded'
  BY <1>3, <1>4 DEF QueueInv, ReadBeforeConcluded
<1>9. BatchesCoverRead'
  BY <1>4 DEF QueueInv, BatchesCoverRead, Entries
<1> QED
  BY <1>5, <1>6, <1>7, <1>8, <1>9 DEF QueueInv

LEMMA AcknowledgeKeeps ==
  ASSUME QueueInv, Acknowledge
  PROVE  QueueInv'
<1> DEFINE h == batches[1]
           end == h.first + h.count
<1>1. /\ batches \in Seq(WrappedBatch)
      /\ batches # <<>>
      /\ Len(batches) \in Nat \ {0}
      /\ DOMAIN batches = 1..Len(batches)
      /\ \A j \in 1..Len(batches) : batches[j] \in WrappedBatch
      /\ Head(batches) = h
  BY DEF QueueInv, QueueTypeOK, Acknowledge
<1>2. /\ batches' = Tail(batches)
      /\ oldest' = end
      /\ UNCHANGED <<epoch, closed, nextID, unread, concluded>>
  BY <1>1 DEF Acknowledge
<1>3. /\ batches' \in Seq(WrappedBatch)
      /\ Len(batches') = Len(batches) - 1
      /\ DOMAIN batches' = 1..(Len(batches) - 1)
      /\ \A j \in 1..(Len(batches) - 1) : batches'[j] = batches[j + 1]
      /\ batches' = <<>> <=> Len(batches) = 1
  BY <1>1, <1>2
<1>4. /\ h \in WrappedBatch
      /\ h.first \in Nat /\ h.count \in Nat \ {0} /\ h.doneCount \in Nat
      /\ end \in Nat
      /\ h.first = oldest
      /\ end <= unread
      /\ unread \in Nat /\ oldest \in Nat /\ nextID \in Nat
  <2>1. 1 \in DOMAIN batches /\ h = batches[1] /\ h \in WrappedBatch
    BY <1>1
  <2>2. h.first \in Nat /\ h.count \in Nat \ {0} /\ h.doneCount \in Nat
    BY <2>1 DEF WrappedBatch
  <2>3. h.first = oldest /\ h.first + h.count <= unread
    BY <1>1, <2>1 DEF QueueInv, BatchesAreContiguous, ReadBeforeConcluded
  <2>4. unread \in Nat /\ oldest \in Nat /\ nextID \in Nat
    BY DEF QueueInv, QueueTypeOK
  <2> QED
    BY <1>1, <2>1, <2>2, <2>3, <2>4
<1>5. Entries(h) \subseteq concluded
  <2>1. h.count <= h.doneCount
    BY <1>1, <1>4 DEF Acknowledge, Completed
  <2>2. h.doneCount <= Cardinality(concluded \cap Entries(h))
    BY <1>1 DEF QueueInv, DoneIsConcluded
  <2>3. h.count <= Cardinality(concluded \cap Entries(h))
    <3>1. Cardinality(concluded \cap Entries(h)) \in Nat /\ h.count \in Nat /\ h.doneCount \in Nat
      BY <1>4, PartCount
    <3> QED
      BY <2>1, <2>2, <3>1
  <2> QED
    BY <2>3, <1>4, FullCount
<1>6. QueueTypeOK'
  BY <1>2, <1>3, <1>4 DEF QueueInv, QueueTypeOK
<1>7. PersistedIsConcluded'
  <2> SUFFICES ASSUME NEW id \in 0..(end - 1)
               PROVE  id \in concluded
    BY <1>2 DEF PersistedIsConcluded, PersistedIndex
  <2>1. CASE id < oldest
    <3>1. id \in 0..(oldest - 1)
      BY <2>1, <1>4
    <3> QED
      BY <3>1 DEF QueueInv, PersistedIsConcluded, PersistedIndex
  <2>2. CASE ~(id < oldest)
    BY <2>2, <1>4, <1>5 DEF Entries
  <2> QED
    BY <2>1, <2>2
<1> HIDE DEF h, end
<1>8. BatchesAreContiguous'
  <2>1. oldest' <= unread' /\ unread' <= nextID'
    BY <1>2, <1>4 DEF QueueInv, BatchesAreContiguous
  <2>2. CASE Len(batches) = 1
    <3>1. end = unread
      BY <2>2, <1>1 DEF QueueInv, BatchesAreContiguous, h, end
    <3> QED
      BY <2>1, <2>2, <3>1, <1>2, <1>3 DEF BatchesAreContiguous
  <2>3. CASE Len(batches) # 1
    <3>1. /\ 1 \in 1..(Len(batches) - 1)
          /\ Len(batches) - 1 \in 1..(Len(batches) - 1)
          /\ 1 + 1 = 2
          /\ (Len(batches) - 1) + 1 = Len(batches)
      BY <2>3, <1>1
    <3>2. batches'[1].first = end
      <4>1. batches[1].first + batches[1].count = batches[2].first
        BY <3>1 DEF QueueInv, BatchesAreContiguous
      <4> QED
        BY <4>1, <3>1, <1>3 DEF h, end
    <3>3. batches'[Len(batches')].first + batches'[Len(batches')].count = unread
      <4>1. batches'[Len(batches')] = batches[Len(batches)]
        BY <3>1, <1>3
      <4> QED
        BY <4>1, <1>1 DEF QueueInv, BatchesAreContiguous
    <3>4. ASSUME NEW j \in 1..(Len(batches') - 1)
          PROVE  batches'[j].first + batches'[j].count = batches'[j + 1].first
      <4>1. /\ j \in 1..(Len(batches) - 1)
            /\ j + 1 \in 1..(Len(batches) - 1)
        BY <1>1, <1>3
      <4>2. batches[j + 1].first + batches[j + 1].count = batches[(j + 1) + 1].first
        BY <4>1 DEF QueueInv, BatchesAreContiguous
      <4> QED
        BY <4>1, <4>2, <1>3
    <3> QED
      BY <2>1, <2>3, <3>2, <3>3, <3>4, <1>2, <1>3 DEF BatchesAreContiguous
  <2> QED
    BY <2>2, <2>3
<1>9. WithinCapacity'
  <2>1. oldest <= end
    BY <1>4 DEF end
  <2> QED
    BY <2>1, <1>2, <1>4, QueueAssumption DEF QueueInv, WithinCapacity
<1>10. DoneIsConcluded'
  <2> SUFFICES ASSUME NEW j \in 1..(Len(batches) - 1)
               PROVE  batches'[j].doneCount
                        <= Cardinality(concluded \cap Entries(batches'[j]))
    BY <1>2, <1>3 DEF DoneIsConcluded, Entries
  <2>1. j + 1 \in DOMAIN batches /\ batches'[j] = batches[j + 1]
    BY <1>1, <1>3
  <2> QED
    BY <2>1 DEF QueueInv, DoneIsConcluded
<1>11. ReadBeforeConcluded'
  <2> SUFFICES ASSUME NEW j \in 1..(Len(batches) - 1)
               PROVE  batches'[j].first + batches'[j].count <= unread
    BY <1>2, <1>3 DEF QueueInv, ReadBeforeConcluded
  <2>1. j + 1 \in DOMAIN batches /\ batches'[j] = batches[j + 1]
    BY <1>1, <1>3
  <2> QED
    BY <2>1 DEF QueueInv, ReadBeforeConcluded
<1>12. BatchesCoverRead'
  <2> SUFFICES ASSUME NEW id \in end..(unread - 1)
               PROVE  \E j \in 1..(Len(batches) - 1) : id \in Entries(batches'[j])
    BY <1>2, <1>3 DEF BatchesCoverRead, Entries
  <2>1. id \in oldest..(unread - 1) /\ ~(id < end)
    BY <1>4 DEF end
  <2>2. PICK i \in 1..Len(batches) : id \in Entries(batches[i])
    BY <2>1, <1>1 DEF QueueInv, BatchesCoverRead
  <2>3. i # 1
    BY <2>1, <2>2, <1>4 DEF Entries, h, end
  <2>4. i - 1 \in 1..(Len(batches) - 1) /\ (i - 1) + 1 = i
    BY <2>2, <2>3, <1>1
  <2> QED
    BY <2>2, <2>4, <1>3
<1> QED
  BY <1>6, <1>7, <1>8, <1>9, <1>10, <1>11, <1>12 DEF QueueInv

-----------------------------------------------------------------------------
(* The specification keeps QueueInv *)

\* A step of an output that keeps the contract keeps the invariant.
LEMMA OutputKeeps ==
  ASSUME QueueInv, OutputStep
  PROVE  QueueInv'
BY GetKeeps, ConcludeKeeps, DoneKeeps DEF OutputStep

LEMMA UnchangedKeeps ==
  ASSUME QueueInv, UNCHANGED queueVars
  PROVE  QueueInv'
BY DEF queueVars, QueueInv, QueueTypeOK, PersistedIsConcluded, PersistedIndex,
       BatchesAreContiguous, WithinCapacity, DoneIsConcluded, Entries,
       ReadBeforeConcluded, BatchesCoverRead

LEMMA StepKeeps ==
  ASSUME QueueInv, [QueueNext]_queueVars
  PROVE  QueueInv'
<1>1. CASE OpenQueue
  BY <1>1, NewKeeps DEF OpenQueue
<1>2. CASE Publish
  BY <1>2, EnqueueKeeps DEF Publish
<1>3. CASE OutputStep
  BY <1>3, OutputKeeps
<1>4. CASE Acknowledge
  BY <1>4, AcknowledgeKeeps
<1>5. CASE CloseQueue
  BY <1>5, CloseKeeps DEF CloseQueue
<1>6. CASE UNCHANGED queueVars
  BY <1>6, UnchangedKeeps
<1> QED
  BY <1>1, <1>2, <1>3, <1>4, <1>5, <1>6 DEF QueueNext

\* QueueInv holds in every state of the queue (queue.go: New, Publish, Get,
\* WrappedBatch.Done, Close), for every capacity.
THEOREM QueueInvariant == QueueSpec => []QueueInv
<1>1. QueueInit => QueueInv
  BY InitKeeps
<1>2. QueueInv /\ [QueueNext]_queueVars => QueueInv'
  BY StepKeeps
<1> QED
  BY <1>1, <1>2, PTL DEF QueueSpec

\* Type correctness of the queue.
THEOREM QueueTypeCorrect == QueueSpec => []QueueTypeOK
<1>1. QueueInv => QueueTypeOK
  BY DEF QueueInv
<1> QED
  BY <1>1, QueueInvariant, PTL

\* What PersistedIndex reports has been sent or discarded.
THEOREM PersistedSound == QueueSpec => []PersistedIsConcluded
<1>1. QueueInv => PersistedIsConcluded
  BY DEF QueueInv
<1> QED
  BY <1>1, QueueInvariant, PTL

\* The queue never holds more entries than configured.
THEOREM CapacitySound == QueueSpec => []WithinCapacity
<1>1. QueueInv => WithinCapacity
  BY DEF QueueInv
<1> QED
  BY <1>1, QueueInvariant, PTL

-----------------------------------------------------------------------------
(* Action property and refinement *)

\* The head batch ends above the oldest entry and below the first unread one.
LEMMA HeadRange ==
  ASSUME QueueInv, Acknowledge
  PROVE  oldest < oldest' /\ oldest' <= nextID
<1>1. /\ batches \in Seq(WrappedBatch)
      /\ batches # <<>>
      /\ 1 \in DOMAIN batches
      /\ batches[1] \in WrappedBatch
      /\ Head(batches) = batches[1]
  BY DEF QueueInv, QueueTypeOK, Acknowledge
<1>2. /\ batches[1].first = oldest
      /\ batches[1].count \in Nat \ {0}
      /\ batches[1].first + batches[1].count <= unread
      /\ unread <= nextID
      /\ oldest \in Nat /\ unread \in Nat /\ nextID \in Nat
  BY <1>1 DEF QueueInv, QueueTypeOK, WrappedBatch, BatchesAreContiguous,
              ReadBeforeConcluded
<1>3. oldest' = batches[1].first + batches[1].count
  BY <1>1 DEF Acknowledge
<1> QED
  BY <1>2, <1>3

\* No operation of the queue moves the persisted index of one queue back or
\* takes a conclusion back.
LEMMA OperationsAdvance ==
  ASSUME QueueInv,
         New \/ Enqueue \/ OutputStep \/ Acknowledge \/ Close \/ UNCHANGED queueVars,
         epoch' = epoch
  PROVE  PersistedIndex' >= PersistedIndex /\ concluded \subseteq concluded'
<1> USE DEF PersistedIndex
<1>0. epoch \in Nat /\ oldest \in Nat /\ nextID \in Nat
  BY DEF QueueInv, QueueTypeOK
<1>1. CASE New
  BY <1>0, <1>1 DEF New
<1>2. CASE Enqueue
  BY <1>0, <1>2 DEF Enqueue
<1>3. CASE OutputStep
  <2>1. ASSUME NEW n, Get(n)
        PROVE  oldest' = oldest /\ concluded' = concluded
    BY <2>1 DEF Get
  <2>2. ASSUME NEW id, Conclude(id)
        PROVE  oldest' = oldest /\ concluded' = concluded \cup {id}
    BY <2>2 DEF Conclude
  <2>3. ASSUME NEW i, NEW n, ReportDone(i, n)
        PROVE  oldest' = oldest /\ concluded' = concluded
    BY <2>3 DEF ReportDone, Done
  <2>4. oldest' = oldest /\ concluded \subseteq concluded'
    BY <1>3, <2>1, <2>2, <2>3 DEF OutputStep
  <2> QED
    BY <1>0, <2>4
<1>4. CASE Acknowledge
  <2>1. oldest' \in Int
    BY <1>4, AcknowledgeKeeps DEF QueueInv, QueueTypeOK
  <2> QED
    BY <1>0, <1>4, <2>1, HeadRange DEF Acknowledge
<1>5. CASE Close
  BY <1>0, <1>5 DEF Close
<1>6. CASE UNCHANGED queueVars
  BY <1>0, <1>6 DEF queueVars
<1> QED
  BY <1>1, <1>2, <1>3, <1>4, <1>5, <1>6

\* While one queue lives its persisted index never moves back.
THEOREM PersistedMonotone == QueueSpec => PersistedNeverRegresses
<1>1. QueueInv /\ [QueueNext]_queueVars
        => [epoch' = epoch => /\ PersistedIndex' >= PersistedIndex
                              /\ concluded \subseteq concluded']_queueVars
  BY OperationsAdvance DEF QueueNext, OpenQueue, Publish, CloseQueue
<1> QED
  BY <1>1, QueueInvariant, PTL DEF QueueSpec, PersistedNeverRegresses

\* Each operation of the queue is a step of AckContract or leaves it unchanged:
\* the persisted index advances over concluded entries only, whole batches
\* at a time.
LEMMA OperationsImplement ==
  ASSUME QueueInv,
         New \/ Enqueue \/ OutputStep \/ Acknowledge \/ Close \/ UNCHANGED queueVars
  PROVE  Contract!Next \/ UNCHANGED Contract!contractVars
<1> USE DEF PersistedIndex
<1>0. oldest \in Nat /\ nextID \in Nat /\ unread \in Nat /\ unread <= nextID
  BY DEF QueueInv, QueueTypeOK, BatchesAreContiguous
<1>1. CASE New
  BY <1>1 DEF New, Contract!Next, Contract!NewGeneration
<1>2. CASE Enqueue
  BY <1>2 DEF Enqueue, Contract!Next, Contract!Accept
<1>3. CASE OutputStep
  <2>1. ASSUME NEW n, Get(n)
        PROVE  UNCHANGED Contract!contractVars
    BY <2>1 DEF Get, Contract!contractVars
  <2>2. ASSUME NEW id \in oldest..(unread - 1), Conclude(id)
        PROVE  Contract!Next
    <3>1. id \in 0..(nextID - 1) /\ id < nextID
      BY <1>0
    <3>2. Contract!Conclude(id)
      BY <2>2, <3>1 DEF Conclude, Contract!Conclude
    <3> QED
      BY <3>1, <3>2 DEF Contract!Next
  <2>3. ASSUME NEW i, NEW n, ReportDone(i, n)
        PROVE  UNCHANGED Contract!contractVars
    BY <2>3 DEF ReportDone, Done, Contract!contractVars
  <2> QED
    BY <1>3, <2>1, <2>2, <2>3 DEF OutputStep
<1>4. CASE Acknowledge
  <2>1. oldest' \in Nat /\ PersistedIsConcluded'
    BY <1>4, AcknowledgeKeeps DEF QueueInv, QueueTypeOK
  <2>2. oldest' \in 1..nextID /\ oldest < oldest'
    BY <1>0, <1>4, <2>1, HeadRange
  <2>3. Contract!Persist(oldest')
    BY <1>4, <2>1, <2>2
    DEF Acknowledge, Contract!Persist, PersistedIsConcluded, PersistedIndex
  <2> QED
    BY <2>2, <2>3 DEF Contract!Next
<1>5. CASE Close
  BY <1>5 DEF Close, Contract!contractVars
<1>6. CASE UNCHANGED queueVars
  BY <1>6 DEF queueVars, Contract!contractVars
<1> QED
  BY <1>1, <1>2, <1>3, <1>4, <1>5, <1>6

\* The queue (queue.go) implements the promise AckContract makes to clients.
THEOREM QueueImplementsContract == QueueSpec => ImplementsContract
<1>1. QueueInit => Contract!Init
  BY DEF QueueInit, PersistedIndex, Contract!Init
<1>2. QueueInv /\ [QueueNext]_queueVars => [Contract!Next]_(Contract!contractVars)
  BY OperationsImplement DEF QueueNext, OpenQueue, Publish, CloseQueue
<1> QED
  BY <1>1, <1>2, QueueInvariant, PTL DEF QueueSpec, ImplementsContract, Contract!Spec

\* The contract is worth having: whatever implements it, be it the queue or the
\* server with any output, reports a persisted index a client can rely on.
THEOREM ContractIsSound == ImplementsContract => []Contract!PersistedIsSound
<1> USE DEF Contract!PersistedIsSound
<1>1. Contract!Init => Contract!PersistedIsSound
  BY DEF Contract!Init
<1>2. ASSUME Contract!PersistedIsSound, [Contract!Next]_(Contract!contractVars)
      PROVE  Contract!PersistedIsSound'
  <2>1. CASE Contract!Accept
    BY <1>2, <2>1 DEF Contract!Accept
  <2>2. ASSUME NEW id \in 0..(nextID - 1), Contract!Conclude(id)
        PROVE  Contract!PersistedIsSound'
    BY <1>2, <2>2 DEF Contract!Conclude
  <2>3. ASSUME NEW index \in 1..nextID, Contract!Persist(index)
        PROVE  Contract!PersistedIsSound'
    BY <1>2, <2>3 DEF Contract!Persist
  <2>4. CASE Contract!NewGeneration
    BY <1>2, <2>4 DEF Contract!NewGeneration
  <2>5. CASE UNCHANGED Contract!contractVars
    BY <1>2, <2>5 DEF Contract!contractVars
  <2> HIDE DEF Contract!PersistedIsSound
  <2> QED
    BY <1>2, <2>1, <2>2, <2>3, <2>4, <2>5 DEF Contract!Next
<1> HIDE DEF Contract!PersistedIsSound
<1>3. Contract!PersistedIsSound /\ [Contract!Next]_(Contract!contractVars)
        => Contract!PersistedIsSound'
  BY <1>2
<1> QED
  BY <1>1, <1>3, PTL DEF ImplementsContract, Contract!Spec

\* And it takes nothing back before the queue is replaced.
THEOREM ContractTakesNothingBack == ImplementsContract => Contract!NothingIsTakenBack
<1>1. ASSUME Contract!PersistedIsSound, Contract!Next, epoch' = epoch
      PROVE  /\ nextID <= nextID'
             /\ PersistedIndex <= PersistedIndex'
             /\ concluded \subseteq concluded'
  <2>1. epoch \in Nat /\ nextID \in Nat /\ PersistedIndex \in Nat
    BY <1>1 DEF Contract!PersistedIsSound
  <2>2. ~Contract!NewGeneration
    BY <1>1, <2>1 DEF Contract!NewGeneration
  <2>3. CASE Contract!Accept
    BY <2>1, <2>3 DEF Contract!Accept
  <2>4. ASSUME NEW id, Contract!Conclude(id)
        PROVE  /\ nextID <= nextID'
               /\ PersistedIndex <= PersistedIndex'
               /\ concluded \subseteq concluded'
    BY <2>1, <2>4 DEF Contract!Conclude
  <2>5. ASSUME NEW index \in 1..nextID, Contract!Persist(index)
        PROVE  /\ nextID <= nextID'
               /\ PersistedIndex <= PersistedIndex'
               /\ concluded \subseteq concluded'
    BY <2>1, <2>5 DEF Contract!Persist
  <2> QED
    BY <1>1, <2>2, <2>3, <2>4, <2>5 DEF Contract!Next
<1>2. Contract!PersistedIsSound /\ [Contract!Next]_(Contract!contractVars)
        => [epoch' = epoch => /\ nextID <= nextID'
                              /\ PersistedIndex <= PersistedIndex'
                              /\ concluded \subseteq concluded']_(Contract!contractVars)
  BY <1>1
<1> QED
  BY <1>2, ContractIsSound, PTL DEF ImplementsContract, Contract!Spec, Contract!NothingIsTakenBack

-----------------------------------------------------------------------------
(* What the operations do to the batches, for the proofs about outputs *)

\* The batches as a sequence of records.
LEMMA BatchFacts ==
  ASSUME QueueInv
  PROVE  /\ batches \in Seq(WrappedBatch)
         /\ Len(batches) \in Nat
         /\ DOMAIN batches = 1..Len(batches)
         /\ batches = <<>> <=> Len(batches) = 0
         /\ \A i \in DOMAIN batches :
              /\ batches[i] \in WrappedBatch
              /\ batches[i].first \in Nat
              /\ batches[i].count \in Nat \ {0}
              /\ batches[i].doneCount \in Nat
              /\ batches[i].doneCount <= batches[i].count
              /\ batches[i].first + batches[i].count <= unread
<1>1. /\ batches \in Seq(WrappedBatch)
      /\ Len(batches) \in Nat
      /\ DOMAIN batches = 1..Len(batches)
      /\ batches = <<>> <=> Len(batches) = 0
      /\ \A i \in DOMAIN batches : batches[i] \in WrappedBatch
  BY DEF QueueInv, QueueTypeOK
<1>2. ASSUME NEW i \in DOMAIN batches
      PROVE  /\ batches[i].first \in Nat
             /\ batches[i].count \in Nat \ {0}
             /\ batches[i].doneCount \in Nat
             /\ batches[i].first + batches[i].count <= unread
  BY <1>1 DEF WrappedBatch, QueueInv, ReadBeforeConcluded
<1>3. ASSUME NEW i \in DOMAIN batches
      PROVE  batches[i].doneCount <= batches[i].count
  <2>1. batches[i].doneCount <= Cardinality(concluded \cap Entries(batches[i]))
    BY DEF QueueInv, DoneIsConcluded
  <2>2. /\ Cardinality(concluded \cap Entries(batches[i])) \in Nat
        /\ Cardinality(concluded \cap Entries(batches[i])) <= batches[i].count
    BY <1>1, PartCount
  <2> QED
    BY <2>1, <2>2, <1>2
<1> QED
  BY <1>1, <1>2, <1>3

\* Get appends a batch of which nothing has been reported.
LEMMA GetBatches ==
  ASSUME QueueInv, NEW n, Get(n)
  PROVE  /\ n \in Nat \ {0}
         /\ Len(batches') = Len(batches) + 1
         /\ DOMAIN batches' = 1..(Len(batches) + 1)
         /\ \A i \in DOMAIN batches : batches'[i] = batches[i]
         /\ batches'[Len(batches) + 1].first = unread
         /\ batches'[Len(batches) + 1].count = n
         /\ batches'[Len(batches) + 1].doneCount = 0
         /\ unread' = unread + n
<1> DEFINE b == [first |-> unread, count |-> n, doneCount |-> 0]
<1>1. /\ batches \in Seq(WrappedBatch)
      /\ batches' = Append(batches, b)
      /\ unread' = unread + n
      /\ n \in Nat \ {0}
  BY DEF QueueInv, QueueTypeOK, Get
<1>2. b.first = unread /\ b.count = n /\ b.doneCount = 0
  OBVIOUS
<1> HIDE DEF b
<1>3. Append(batches, b)[Len(batches) + 1] = b
  BY <1>1
<1> QED
  BY <1>1, <1>2, <1>3

\* Done adds to the count of one batch.
LEMMA DoneBatches ==
  ASSUME QueueInv, NEW i \in DOMAIN batches, NEW n \in Nat, Done(i, n)
  PROVE  /\ Len(batches') = Len(batches)
         /\ DOMAIN batches' = DOMAIN batches
         /\ \A j \in DOMAIN batches : j # i => batches'[j] = batches[j]
         /\ \A j \in DOMAIN batches : /\ batches'[j].first = batches[j].first
                                      /\ batches'[j].count = batches[j].count
         /\ batches'[i].doneCount = batches[i].doneCount + n
<1>1. /\ batches \in Seq(WrappedBatch)
      /\ batches[i] \in [first : Nat, count : Nat \ {0}, doneCount : Nat]
      /\ \A j \in DOMAIN batches : batches[j] \in WrappedBatch
  BY BatchFacts DEF WrappedBatch
<1> DEFINE b == [batches[i] EXCEPT !.doneCount = @ + n]
<1>2. batches' = [batches EXCEPT ![i] = b]
  BY DEF Done
<1>3. /\ b \in WrappedBatch
      /\ b.first = batches[i].first
      /\ b.count = batches[i].count
      /\ b.doneCount = batches[i].doneCount + n
  <2>1. batches[i].doneCount + n \in Nat
    BY <1>1
  <2> QED
    BY <1>1, <2>1 DEF WrappedBatch
<1> HIDE DEF b
<1>4. /\ Len(batches') = Len(batches)
      /\ DOMAIN batches' = DOMAIN batches
      /\ batches'[i] = b
      /\ \A j \in DOMAIN batches : j # i => batches'[j] = batches[j]
  BY <1>1, <1>2, <1>3
<1> QED
  BY <1>3, <1>4

\* Acknowledge takes the first batch away.
LEMMA AcknowledgeBatches ==
  ASSUME QueueInv, Acknowledge
  PROVE  /\ Len(batches) \in Nat \ {0}
         /\ 1 \in DOMAIN batches
         /\ Completed(batches[1])
         /\ Len(batches') = Len(batches) - 1
         /\ DOMAIN batches' = 1..(Len(batches) - 1)
         /\ \A i \in DOMAIN batches' : i + 1 \in DOMAIN batches /\ batches'[i] = batches[i + 1]
<1>1. /\ batches \in Seq(WrappedBatch)
      /\ batches # <<>>
      /\ batches' = Tail(batches)
      /\ Completed(Head(batches))
  BY DEF QueueInv, QueueTypeOK, Acknowledge
<1>2. /\ Len(batches) \in Nat \ {0}
      /\ DOMAIN batches = 1..Len(batches)
      /\ Head(batches) = batches[1]
  BY <1>1
<1>3. /\ Len(batches') = Len(batches) - 1
      /\ DOMAIN batches' = 1..(Len(batches) - 1)
      /\ \A i \in 1..(Len(batches) - 1) : batches'[i] = batches[i + 1]
  BY <1>1, <1>2
<1>4. \A i \in 1..(Len(batches) - 1) : i + 1 \in 1..Len(batches)
  BY <1>2
<1>5. 1 \in 1..Len(batches)
  BY <1>2
<1> QED
  BY <1>1, <1>2, <1>3, <1>4, <1>5, Zenon

-----------------------------------------------------------------------------
(* An output that completes one batch before it takes the next *)

LEMMA SerialGet ==
  ASSUME QueueInv, Drained, NEW n, Get(n)
  PROVE  OnlyLastOpen'
<1>1. /\ Len(batches) \in Nat
      /\ DOMAIN batches = 1..Len(batches)
      /\ Len(batches') = Len(batches) + 1
      /\ DOMAIN batches' = 1..(Len(batches) + 1)
      /\ \A i \in DOMAIN batches : batches'[i] = batches[i]
  BY GetBatches, BatchFacts
<1> SUFFICES ASSUME NEW i \in DOMAIN batches', i < Len(batches')
             PROVE  Completed(batches'[i])
  BY DEF OnlyLastOpen, Completed
<1>2. i \in DOMAIN batches
  BY <1>1
<1> QED
  BY <1>1, <1>2 DEF Drained

\* Done for the last batch, for a part of its events or for all of them.
LEMMA LastDone ==
  ASSUME QueueInv, OnlyLastOpen, batches # <<>>, NEW n \in Nat, Done(Len(batches), n)
  PROVE  /\ OnlyLastOpen'
         /\ batches[Len(batches)].doneCount + n >= batches[Len(batches)].count => Drained'
<1>1. /\ Len(batches) \in DOMAIN batches
      /\ batches[Len(batches)].count \in Nat
      /\ batches[Len(batches)].doneCount \in Nat
  BY BatchFacts
<1>2. \A j \in DOMAIN batches : j # Len(batches) => Completed(batches[j])
  BY BatchFacts DEF OnlyLastOpen
<1>3. /\ Len(batches') = Len(batches)
      /\ DOMAIN batches' = DOMAIN batches
      /\ \A j \in DOMAIN batches : j # Len(batches) => batches'[j] = batches[j]
      /\ batches'[Len(batches)].doneCount = batches[Len(batches)].doneCount + n
      /\ batches'[Len(batches)].count = batches[Len(batches)].count
  BY <1>1, DoneBatches
<1>4. OnlyLastOpen'
  BY <1>2, <1>3, BatchFacts DEF OnlyLastOpen, Completed
<1>5. batches[Len(batches)].doneCount + n >= batches[Len(batches)].count => Drained'
  BY <1>1, <1>2, <1>3 DEF Drained, Completed
<1> QED
  BY <1>4, <1>5

LEMMA SerialDone ==
  ASSUME QueueInv, OnlyLastOpen, batches # <<>>,
         Done(Len(batches), batches[Len(batches)].count)
  PROVE  OnlyLastOpen' /\ Drained'
<1>1. /\ batches[Len(batches)].count \in Nat
      /\ batches[Len(batches)].doneCount \in Nat
  BY BatchFacts
<1> QED
  BY <1>1, LastDone

LEMMA SerialAcknowledge ==
  ASSUME QueueInv, OnlyLastOpen, Acknowledge
  PROVE  /\ OnlyLastOpen'
         /\ Drained => Drained'
         /\ ~Drained => /\ batches' # <<>>
                        /\ batches'[Len(batches')] = batches[Len(batches)]
<1>1. OnlyLastOpen' /\ (Drained => Drained')
  BY AcknowledgeBatches DEF OnlyLastOpen, Drained, Completed
<1>2. ASSUME ~Drained
      PROVE  /\ batches' # <<>>
             /\ batches'[Len(batches')] = batches[Len(batches)]
  <2>1. PICK i \in DOMAIN batches : ~Completed(batches[i])
    BY <1>2 DEF Drained
  <2>2. i = Len(batches) /\ i # 1
    BY <2>1, BatchFacts, AcknowledgeBatches DEF OnlyLastOpen
  <2>3. Len(batches') \in DOMAIN batches' /\ Len(batches') + 1 = Len(batches)
    BY <2>1, <2>2, BatchFacts, AcknowledgeBatches
  <2> QED
    BY <2>3, AcknowledgeBatches
<1> QED
  BY <1>1, <1>2

\* Whether there is an open batch, as a number.
LEMMA SerialCount ==
  ASSUME QueueInv, OnlyLastOpen
  PROVE  /\ Drained => Cardinality(OpenBatches) = 0
         /\ ~Drained => /\ Cardinality(OpenBatches) = 1
                        /\ batches # <<>>
                        /\ ~Completed(batches[Len(batches)])
<1>1. ASSUME Drained
      PROVE  Cardinality(OpenBatches) = 0
  <2>1. OpenBatches = {}
    BY <1>1 DEF Drained, OpenBatches
  <2> QED
    BY <2>1, FS_EmptySet
<1>2. ASSUME ~Drained
      PROVE  /\ Cardinality(OpenBatches) = 1
             /\ batches # <<>>
             /\ ~Completed(batches[Len(batches)])
  <2>1. PICK i \in DOMAIN batches : ~Completed(batches[i])
    BY <1>2 DEF Drained
  <2>2. i = Len(batches) /\ batches # <<>>
    BY <2>1, BatchFacts DEF OnlyLastOpen
  <2>3. OpenBatches = {i}
    BY <2>1, <2>2, BatchFacts DEF OnlyLastOpen, OpenBatches
  <2> QED
    BY <2>1, <2>2, <2>3, FS_Singleton
<1> QED
  BY <1>1, <1>2

-----------------------------------------------------------------------------
(* An output with any number of open batches *)

LEMMA OpenFinite ==
  ASSUME QueueInv
  PROVE  /\ IsFiniteSet(OpenBatches)
         /\ Cardinality(OpenBatches) \in Nat
         /\ Drained <=> Cardinality(OpenBatches) = 0
<1>1. IsFiniteSet(1..Len(batches)) /\ OpenBatches \in SUBSET (1..Len(batches))
  BY BatchFacts, FS_Interval DEF OpenBatches
<1>2. IsFiniteSet(OpenBatches)
  BY <1>1, FS_Subset
<1>3. Drained <=> OpenBatches = {}
  BY DEF Drained, OpenBatches
<1> QED
  BY <1>2, <1>3, FS_CardinalityType, FS_EmptySet

\* The batch that Get hands out is open.
LEMMA OpenGet ==
  ASSUME QueueInv, NEW n, Get(n)
  PROVE  Cardinality(OpenBatches') = Cardinality(OpenBatches) + 1
<1>1. /\ Len(batches) \in Nat
      /\ DOMAIN batches = 1..Len(batches)
      /\ DOMAIN batches' = 1..(Len(batches) + 1)
      /\ \A i \in DOMAIN batches : batches'[i] = batches[i]
      /\ ~Completed(batches'[Len(batches) + 1])
  BY GetBatches, BatchFacts DEF Completed
<1>2. OpenBatches' = OpenBatches \cup {Len(batches) + 1}
  BY <1>1 DEF OpenBatches, Completed
<1>3. Len(batches) + 1 \notin OpenBatches
  BY <1>1 DEF OpenBatches
<1> QED
  BY <1>2, <1>3, OpenFinite, FS_AddElement

\* Done closes the batch it completes.
LEMMA OpenDone ==
  ASSUME QueueInv, NEW i \in DOMAIN batches, NEW n \in Nat, Done(i, n), ~Completed(batches[i])
  PROVE  Cardinality(OpenBatches') =
           IF Completed(batches'[i]) THEN Cardinality(OpenBatches) - 1
                                     ELSE Cardinality(OpenBatches)
<1>1. /\ DOMAIN batches' = DOMAIN batches
      /\ \A j \in DOMAIN batches : j # i => batches'[j] = batches[j]
  BY DoneBatches
<1>2. i \in OpenBatches
  BY DEF OpenBatches
<1>3. CASE Completed(batches'[i])
  <2>1. OpenBatches' = OpenBatches \ {i}
    BY <1>1, <1>2, <1>3 DEF OpenBatches, Completed
  <2> QED
    BY <1>2, <1>3, <2>1, OpenFinite, FS_RemoveElement
<1>4. CASE ~Completed(batches'[i])
  <2>1. OpenBatches' = OpenBatches
    BY <1>1, <1>2, <1>4 DEF OpenBatches, Completed
  <2> QED
    BY <1>4, <2>1
<1> QED
  BY <1>3, <1>4

\* Acknowledge takes away a batch that is not open, and moves the others up.
LEMMA OpenAcknowledge ==
  ASSUME QueueInv, Acknowledge
  PROVE  Cardinality(OpenBatches') = Cardinality(OpenBatches)
<1>1. /\ Len(batches) \in Nat
      /\ DOMAIN batches = 1..Len(batches)
      /\ Completed(batches[1])
      /\ DOMAIN batches' = 1..(Len(batches) - 1)
      /\ \A i \in DOMAIN batches' : batches'[i] = batches[i + 1]
  BY AcknowledgeBatches, BatchFacts
<1> DEFINE up == [i \in OpenBatches |-> i - 1]
<1>2. \A i \in OpenBatches : i \in 2..Len(batches) /\ i - 1 \in OpenBatches'
  <2> SUFFICES ASSUME NEW i \in OpenBatches
               PROVE  i \in 2..Len(batches) /\ i - 1 \in OpenBatches'
    OBVIOUS
  <2>1. i \in 1..Len(batches) /\ i # 1
    BY <1>1 DEF OpenBatches
  <2>2. i \in 2..Len(batches) /\ i - 1 \in DOMAIN batches' /\ (i - 1) + 1 = i
    BY <1>1, <2>1
  <2> QED
    BY <1>1, <2>2 DEF OpenBatches, Completed
<1>3. \A j \in OpenBatches' : j \in Int /\ j + 1 \in OpenBatches /\ (j + 1) - 1 = j
  <2> SUFFICES ASSUME NEW j \in OpenBatches'
               PROVE  j \in Int /\ j + 1 \in OpenBatches /\ (j + 1) - 1 = j
    OBVIOUS
  <2>1. j \in DOMAIN batches' /\ ~Completed(batches'[j])
    BY DEF OpenBatches, Completed
  <2>2. j \in Int /\ j + 1 \in DOMAIN batches /\ (j + 1) - 1 = j
    BY <1>1, <2>1
  <2> QED
    BY <1>1, <2>1, <2>2 DEF OpenBatches
<1>4. /\ up \in [OpenBatches -> OpenBatches']
      /\ \A i, j \in OpenBatches : up[i] = up[j] => i = j
      /\ \A j \in OpenBatches' : \E i \in OpenBatches : up[i] = j
  <2> HIDE DEF OpenBatches
  <2> QED
    BY <1>2, <1>3
<1>5. ExistsBijection(OpenBatches, OpenBatches')
  BY <1>4, Fun_IsBij, Fun_ExistsBij
<1> QED
  BY <1>5, OpenFinite, FS_Bijection

\* An entry belongs to one batch.
LEMMA OneBatch ==
  ASSUME QueueInv, BatchesOrdered,
         NEW i \in DOMAIN batches, NEW j \in DOMAIN batches, NEW id,
         id \in Entries(batches[i]), id \in Entries(batches[j])
  PROVE  i = j
<1>1. /\ i \in Int /\ j \in Int /\ id \in Int
      /\ batches[i].first \in Int /\ batches[i].count \in Int
      /\ batches[j].first \in Int /\ batches[j].count \in Int
  BY BatchFacts DEF Entries
<1> QED
  BY <1>1 DEF BatchesOrdered, Entries

\* The order is kept by every operation that keeps the contract.
LEMMA OrderKept ==
  ASSUME QueueInv, BatchesOrdered, [QueueNext]_queueVars
  PROVE  BatchesOrdered'
<1>1. CASE OpenQueue
  BY <1>1 DEF OpenQueue, New, BatchesOrdered
<1>2. ASSUME NEW n, Get(n)
      PROVE  BatchesOrdered'
  <2>1. /\ Len(batches) \in Nat
        /\ DOMAIN batches = 1..Len(batches)
        /\ DOMAIN batches' = 1..(Len(batches) + 1)
        /\ \A i \in DOMAIN batches : batches'[i] = batches[i]
        /\ batches'[Len(batches) + 1].first = unread
        /\ \A i \in DOMAIN batches : batches[i].first + batches[i].count <= unread
    BY <1>2, GetBatches, BatchFacts
  <2> SUFFICES ASSUME NEW i \in DOMAIN batches', NEW j \in DOMAIN batches', i < j
               PROVE  batches'[i].first + batches'[i].count <= batches'[j].first
    BY DEF BatchesOrdered
  <2>2. i \in DOMAIN batches
    BY <2>1
  <2>3. CASE j \in DOMAIN batches
    BY <2>1, <2>2, <2>3 DEF BatchesOrdered
  <2>4. CASE j \notin DOMAIN batches
    <3>1. j = Len(batches) + 1
      BY <2>1, <2>4
    <3> QED
      BY <2>1, <2>2, <3>1
  <2> QED
    BY <2>3, <2>4
<1>3. ASSUME NEW id, Conclude(id)
      PROVE  BatchesOrdered'
  BY <1>3 DEF Conclude, BatchesOrdered
<1>4. ASSUME NEW i \in DOMAIN batches, NEW n \in 1..batches[i].count, ReportDone(i, n)
      PROVE  BatchesOrdered'
  <2>1. n \in Nat /\ Done(i, n)
    BY <1>4 DEF ReportDone
  <2> QED
    BY <2>1, DoneBatches DEF BatchesOrdered
<1>5. CASE Acknowledge
  <2>1. /\ DOMAIN batches' \subseteq Int
        /\ \A i \in DOMAIN batches' : i + 1 \in DOMAIN batches /\ batches'[i] = batches[i + 1]
    BY <1>5, AcknowledgeBatches
  <2> QED
    BY <2>1 DEF BatchesOrdered
<1>6. CASE Publish \/ CloseQueue \/ UNCHANGED queueVars
  BY <1>6 DEF Publish, Enqueue, CloseQueue, Close, queueVars, BatchesOrdered
<1> QED
  BY <1>1, <1>2, <1>3, <1>4, <1>5, <1>6 DEF QueueNext, OutputStep
=============================================================================
