-------------------- MODULE ElasticsearchOutput_proofs --------------------
(***************************************************************************)
(* For every queue, size of batches and order of answers, whatever cannot  *)
(* be serialized or added: every event is in one place and counted once,   *)
(* the WaitGroup counts the open batches exactly, and the output keeps the *)
(* contract of the queue.  An event that was skipped, and nothing else,    *)
(* keeps Wait from returning.  ESInv is inductive.                         *)
(***************************************************************************)
EXTENDS ElasticsearchOutput, EventQueue_proofs

\* Events whose Done has still to be called although they are concluded.
ToReport == answered \cup (IF loop = "report" THEN {cursor} ELSE {})

\* The events of a batch that Done has been told of, and their count.
Counted(i) == (concluded \cap Entries(batches[i])) \ ToReport
CountsInv == \A i \in DOMAIN batches : batches[i].doneCount = Cardinality(Counted(i))

\* The numbers of ESInv.
LEMMA Numbers ==
  ASSUME ESInv
  PROVE  /\ cursor \in Nat /\ unread \in Nat /\ oldest \in Nat /\ wg \in Nat
         /\ cursor <= unread
         /\ concluded \in SUBSET Nat /\ added \in SUBSET Nat /\ answered \in SUBSET Nat
BY DEF ESInv, ESTypeOK, LoopTypeOK, QueueTypeOK, ProgressInv

\* The batch of an event that is still in the queue.
LEMMA BatchOfEvent ==
  ASSUME ESInv, NEW id \in oldest..(unread - 1)
  PROVE  /\ BatchOf(id) \in DOMAIN batches
         /\ id \in Entries(batches[BatchOf(id)])
         /\ \A j \in DOMAIN batches : id \in Entries(batches[j]) => j = BatchOf(id)
<1>1. \E i \in DOMAIN batches : id \in Entries(batches[i])
  BY DEF ESInv, QueueInv, BatchesCoverRead
<1>2. /\ BatchOf(id) \in DOMAIN batches
      /\ id \in Entries(batches[BatchOf(id)])
  BY <1>1 DEF BatchOf
<1> QED
  BY <1>2, OneBatch DEF ESInv

\* Done may be called for an event that is to be reported: it has not been
\* counted, so that its batch is open.
LEMMA MayReport ==
  ASSUME ESInv, NEW id \in ToReport
  PROVE  /\ id \in concluded
         /\ BatchOf(id) \in DOMAIN batches
         /\ id \in Entries(batches[BatchOf(id)])
         /\ \A j \in DOMAIN batches : id \in Entries(batches[j]) => j = BatchOf(id)
         /\ 1 \in 1..Unreported(batches[BatchOf(id)])
         /\ ~Completed(batches[BatchOf(id)])
<1> DEFINE i == BatchOf(id)
           all == concluded \cap Entries(batches[i])
<1>1. id \in oldest..(unread - 1) /\ id \in concluded
  BY DEF ToReport, ESInv, ProgressInv, EventsAccounted
<1>2. /\ i \in DOMAIN batches
      /\ id \in Entries(batches[i])
      /\ \A j \in DOMAIN batches : id \in Entries(batches[j]) => j = i
  BY <1>1, BatchOfEvent
<1> HIDE DEF i
<1>3. /\ IsFiniteSet(all)
      /\ Cardinality(all) \in Nat
      /\ Cardinality(all) <= batches[i].count
      /\ batches[i].count \in Nat /\ batches[i].doneCount \in Nat
  BY <1>2, BatchFacts, PartCount DEF ESInv
<1>4. batches[i].doneCount = Cardinality(all \ ToReport)
  BY <1>2 DEF ESInv, EventsAccounted, ToReport
<1>5. Cardinality(all \ ToReport) <= Cardinality(all) - 1
  <2>1. all \ ToReport \in SUBSET (all \ {id})
    OBVIOUS
  <2>2. IsFiniteSet(all \ {id}) /\ Cardinality(all \ {id}) = Cardinality(all) - 1
    BY <1>1, <1>2, <1>3, FS_RemoveElement
  <2> HIDE DEF all
  <2> QED
    BY <2>1, <2>2, FS_Subset
<1>6. Unreported(batches[i]) = Cardinality(all) - batches[i].doneCount
  BY DEF Unreported
<1> HIDE DEF all
<1>7. 1 \in 1..Unreported(batches[i]) /\ ~Completed(batches[i])
  BY <1>3, <1>4, <1>5, <1>6 DEF Completed
<1> QED
  BY <1>1, <1>2, <1>7 DEF i

\* The steps of the output, seen from the queue.
LEMMA StepsKeepContract ==
  ASSUME ESInv, [Next]_vars
  PROVE  [QueueNext]_queueVars
<1> USE DEF ESInv
<1>1. CASE Start
  BY <1>1 DEF Start, StartLoop, WaitFlushes, ProgressInv, OpenQueue, QueueNext
<1>2. CASE Receive
  <2>1. PICK n : Get(n)
    BY <1>2 DEF Receive, GetBatch
  <2>2. n \in 1..(nextID - unread)
    BY <2>1 DEF Get
  <2> QED
    BY <2>1, <2>2 DEF OutputStep, QueueNext
<1>3. ASSUME NEW id \in 0..(unread - 1), Conclude(id)
      PROVE  QueueNext
  <2>1. oldest \in Nat /\ unread \in Nat /\ ~(id < oldest)
    BY <1>3, Numbers DEF QueueInv, PersistedIsConcluded, PersistedIndex, Conclude
  <2>2. id \in oldest..(unread - 1)
    BY <2>1
  <2> QED
    BY <1>3, <2>2 DEF OutputStep, QueueNext
<1>4. CASE AddFails
  BY <1>3, <1>4, Numbers DEF AddFails
<1>5. ASSUME NEW id \in ToReport, Done(BatchOf(id), 1)
      PROVE  QueueNext
  <2>1. ReportDone(BatchOf(id), 1)
    BY <1>5, MayReport DEF ReportDone
  <2>2. BatchOf(id) \in DOMAIN batches /\ 1 \in 1..batches[BatchOf(id)].count
    BY <1>5, MayReport, BatchFacts
  <2> QED
    BY <2>1, <2>2 DEF OutputStep, QueueNext
<1>6. CASE Report
  BY <1>5, <1>6 DEF Report, ToReport
<1>7. CASE Worker
  BY <1>3, <1>5, <1>7 DEF Worker, Answer, Callback, ToReport
<1>8. CASE SerializeFails \/ Add \/ QueueClosed \/ IndexerClosed
  BY <1>8 DEF SerializeFails, Add, QueueClosed, GetFails, IndexerClosed
<1>9. CASE Rest
  BY <1>9 DEF Rest, Wait, Acknowledges, Environment, QueueNext
<1>10. CASE UNCHANGED vars
  BY <1>10 DEF vars
<1> QED
  BY <1>1, <1>2, <1>4, <1>6, <1>7, <1>8, <1>9, <1>10 DEF Next, Loop

LEMMA QueueKept ==
  ASSUME ESInv, [Next]_vars
  PROVE  QueueInv' /\ BatchesOrdered'
BY StepsKeepContract, StepKeeps, OrderKept DEF ESInv

\* Done for an event that is to be reported, and its CompletionCallback.
LEMMA ReportCounts ==
  ASSUME ESInv, NEW id \in ToReport, Done(BatchOf(id), 1), Completion(BatchOf(id))
  PROVE  wg' - wg = Cardinality(OpenBatches') - Cardinality(OpenBatches)
<1>1. Cardinality(OpenBatches') =
        IF Completed(batches'[BatchOf(id)]) THEN Cardinality(OpenBatches) - 1
                                            ELSE Cardinality(OpenBatches)
  BY MayReport, OpenDone DEF ESInv
<1>2. wg' = IF Completed(batches'[BatchOf(id)]) THEN wg - 1 ELSE wg
  BY DEF Completion
<1> QED
  BY <1>1, <1>2, Numbers, OpenFinite DEF ESInv

\* When there is nothing left in the WaitGroup, everything is concluded.
LEMMA Flushed ==
  (QueueInv /\ ProgressInv /\ WaitGroupCounts) =>
    (WaitFlushes /\ Cardinality(OpenBatches) \in Nat)
<1> SUFFICES ASSUME QueueInv, ProgressInv, WaitGroupCounts, waited
             PROVE  concluded = 0..(unread - 1) /\ Drained
  BY OpenFinite DEF WaitFlushes
<1>1. Drained
  BY OpenFinite DEF ProgressInv, WaitGroupCounts
<1>2. ASSUME NEW id \in 0..(unread - 1)
      PROVE  id \in concluded
  <2>1. CASE id < oldest
    <3>1. id \in 0..(oldest - 1)
      BY <2>1 DEF QueueInv, QueueTypeOK
    <3> QED
      BY <3>1 DEF QueueInv, PersistedIsConcluded, PersistedIndex
  <2>2. CASE ~(id < oldest)
    <3>1. id \in oldest..(unread - 1)
      BY <2>2 DEF QueueInv, QueueTypeOK
    <3>2. PICK i \in DOMAIN batches : id \in Entries(batches[i])
      BY <3>1 DEF QueueInv, BatchesCoverRead
    <3>3. /\ batches[i] \in WrappedBatch
          /\ batches[i].count \in Nat /\ batches[i].doneCount \in Nat
          /\ Cardinality(concluded \cap Entries(batches[i])) \in Nat
      BY BatchFacts, PartCount
    <3>4. batches[i].count <= Cardinality(concluded \cap Entries(batches[i]))
      BY <1>1, <3>3 DEF Drained, Completed, QueueInv, DoneIsConcluded
    <3> QED
      BY <3>2, <3>3, <3>4, FullCount
  <2> QED
    BY <2>1, <2>2
<1>3. concluded \subseteq 0..(unread - 1)
  BY DEF QueueInv, ReadBeforeConcluded
<1> QED
  BY <1>1, <1>2, <1>3

LEMMA FlushedNext ==
  (QueueInv /\ ProgressInv /\ WaitGroupCounts)' =>
    (WaitFlushes /\ Cardinality(OpenBatches) \in Nat)'
BY Flushed, PTL

\* The WaitGroup is released once per batch, whoever completes it.
LEMMA WaitGroupKept ==
  ASSUME ESInv, [Next]_vars
  PROVE  WaitGroupCounts'
<1>0. /\ wg \in Nat /\ Cardinality(OpenBatches) \in Nat
      /\ wg = Cardinality(OpenBatches) + (IF loop = "ended" THEN 0 ELSE 1)
  BY Numbers, OpenFinite DEF ESInv, WaitGroupCounts
<1> SUFFICES wg' = Cardinality(OpenBatches') + (IF loop' = "ended" THEN 0 ELSE 1)
  BY DEF WaitGroupCounts
<1>1. CASE Start
  <2>1. OpenBatches' = {} /\ wg' = 1 /\ loop' = "run"
    BY <1>1 DEF Start, StartLoop, New, OpenBatches
  <2> QED
    BY <2>1, FS_EmptySet
<1>2. CASE Receive
  <2>1. PICK n : Get(n)
    BY <1>2 DEF Receive, GetBatch
  <2>2. wg' = wg + 1 /\ loop = "run" /\ loop' = "run"
    BY <1>2 DEF Receive, GetBatch
  <2> QED
    BY <1>0, <2>1, <2>2, OpenGet DEF ESInv
<1>3. CASE Report
  <2>1. /\ cursor \in ToReport
        /\ Done(BatchOf(cursor), 1)
        /\ Completion(BatchOf(cursor))
        /\ loop # "ended" /\ loop' # "ended"
    BY <1>3 DEF Report, ToReport
  <2>2. wg' - wg = Cardinality(OpenBatches') - Cardinality(OpenBatches)
    BY <2>1, ReportCounts
  <2>3. wg' \in Int /\ Cardinality(OpenBatches') \in Int
    BY <1>0, <2>1, OpenDone, MayReport DEF Completion, ESInv
  <2> QED
    BY <1>0, <2>1, <2>2, <2>3
<1>4. ASSUME NEW id, Callback(id)
      PROVE  wg' = Cardinality(OpenBatches') + (IF loop' = "ended" THEN 0 ELSE 1)
  <2>1. /\ id \in ToReport
        /\ Done(BatchOf(id), 1)
        /\ Completion(BatchOf(id))
        /\ loop' = loop
    BY <1>4 DEF Callback, ToReport
  <2>2. wg' - wg = Cardinality(OpenBatches') - Cardinality(OpenBatches)
    BY <2>1, ReportCounts
  <2>3. wg' \in Int /\ Cardinality(OpenBatches') \in Int
    BY <1>0, <2>1, OpenDone, MayReport DEF Completion, ESInv
  <2> QED
    BY <1>0, <2>1, <2>2, <2>3
<1>5. CASE Acknowledges
  <2>1. Cardinality(OpenBatches') = Cardinality(OpenBatches)
    BY <1>5, OpenAcknowledge DEF Acknowledges, ESInv
  <2> QED
    BY <1>0, <1>5, <2>1 DEF Acknowledges, loopVars
<1>6. ASSUME batches' = batches, wg' = wg, loop' = "ended" <=> loop = "ended"
      PROVE  wg' = Cardinality(OpenBatches') + (IF loop' = "ended" THEN 0 ELSE 1)
  <2>1. OpenBatches' = OpenBatches
    BY <1>6 DEF OpenBatches
  <2> QED
    BY <1>0, <1>6, <2>1
<1>7. CASE IndexerClosed
  <2>1. OpenBatches' = OpenBatches /\ wg' = wg - 1 /\ loop = "closing" /\ loop' = "ended"
    BY <1>7 DEF IndexerClosed, OpenBatches, queueVars
  <2> QED
    BY <1>0, <2>1
<1>8. CASE SerializeFails \/ Add \/ AddFails \/ QueueClosed \/ Wait \/ Environment \/ UNCHANGED vars
  BY <1>6, <1>8 DEF SerializeFails, Add, AddFails, Conclude, QueueClosed, GetFails, Wait,
     Environment, Publish, Enqueue, CloseQueue, Close, vars, loopVars, queueVars
<1>9. ASSUME NEW id, Answer(id)
      PROVE  wg' = Cardinality(OpenBatches') + (IF loop' = "ended" THEN 0 ELSE 1)
  BY <1>6, <1>9 DEF Answer, Conclude, loopVars
<1> QED
  BY <1>1, <1>2, <1>3, <1>4, <1>5, <1>7, <1>8, <1>9 DEF Next, Loop, Worker, Rest

\* What the workers still have to report stays in the queue.
LEMMA ProgressKept ==
  ASSUME ESInv, [Next]_vars
  PROVE  ProgressInv'
<1> USE Numbers DEF ESInv, ProgressInv
<1>1. CASE Start
  BY <1>1 DEF Start, StartLoop, New, indexerVars
<1>2. CASE Receive
  <2>1. PICK n : Get(n)
    BY <1>2 DEF Receive, GetBatch
  <2>2. n \in Nat /\ unread' = unread + n
    BY <2>1, GetBatches
  <2>3. /\ UNCHANGED <<loop, cursor, waited, added, answered, oldest, concluded, closed>>
        /\ loop = "run"
    BY <1>2, <2>1 DEF Receive, GetBatch, Get, indexerVars
  <2>4. answered \subseteq oldest..(unread' - 1)
    BY <2>2
  <2> QED
    BY <2>2, <2>3, <2>4
<1>3. CASE SerializeFails \/ Add
  <2>1. /\ loop = "run" /\ loop' = "run" /\ waited' = waited
        /\ cursor < unread /\ cursor' = cursor + 1
        /\ UNCHANGED <<oldest, unread, concluded, closed, answered, wg>>
        /\ added' \subseteq added \cup {cursor}
    BY <1>3 DEF SerializeFails, Add, queueVars, indexerVars
  <2>2. added' \subseteq 0..(cursor' - 1) /\ concluded' \subseteq 0..(cursor' - 1)
    BY <2>1
  <2> QED
    BY <2>1, <2>2
<1>4. ASSUME NEW id, Conclude(id), id \in Nat
      PROVE  id \notin concluded /\ ~(id < oldest)
  BY <1>4 DEF Conclude, QueueInv, PersistedIsConcluded, PersistedIndex
<1>5. CASE AddFails
  BY <1>4, <1>5 DEF AddFails, Conclude, indexerVars, EventsAccounted
<1>6. CASE Report
  <2>1. /\ loop = "report" /\ loop' = "run" /\ waited' = waited
        /\ cursor' = cursor + 1
        /\ UNCHANGED <<oldest, unread, concluded, closed, answered, added>>
    BY <1>6 DEF Report, Done, indexerVars
  <2>2. cursor' <= unread' /\ added' \subseteq 0..(cursor' - 1) /\ concluded' \subseteq 0..(cursor' - 1)
    BY <2>1
  <2> QED
    BY <2>1, <2>2
<1>7. CASE QueueClosed \/ IndexerClosed
  <2>1. /\ UNCHANGED <<oldest, unread, concluded, closed, cursor, waited, added, answered>>
        /\ closed /\ cursor = unread /\ loop # "report" /\ loop # "ended"
        /\ loop' \in {"closing", "ended"}
        /\ loop' = "ended" => added = {} /\ answered = {}
    BY <1>7 DEF QueueClosed, GetFails, IndexerClosed, queueVars, indexerVars
  <2> QED
    BY <2>1
<1>8. ASSUME NEW id \in 0..(unread - 1), Answer(id)
      PROVE  ProgressInv'
  BY <1>4, <1>8 DEF Answer, Conclude, loopVars
<1>9. ASSUME NEW id \in 0..(unread - 1), Callback(id)
      PROVE  ProgressInv'
  BY <1>9 DEF Callback, Done
<1>10. CASE Wait /\ UNCHANGED indexerVars
  BY <1>10, OpenFinite DEF Wait, WaitGroupCounts, queueVars, indexerVars
<1>11. CASE Acknowledges /\ UNCHANGED indexerVars
  <2>1. /\ 1 \in DOMAIN batches /\ Completed(batches[1])
        /\ batches[1].first = oldest
        /\ batches[1].count \in Nat
        /\ oldest' = batches[1].first + batches[1].count
    <3>1. batches # <<>> /\ Head(batches) = batches[1]
      BY <1>11 DEF Acknowledges, Acknowledge, QueueInv, QueueTypeOK
    <3> QED
      BY <1>11, <3>1, BatchFacts, AcknowledgeBatches
      DEF Acknowledges, Acknowledge, QueueInv, BatchesAreContiguous
  <2>2. ASSUME NEW id \in ToReport
        PROVE  id \in oldest'..(unread - 1)
    <3>1. id \in oldest..(unread - 1)
      BY DEF ToReport
    <3>2. id \notin Entries(batches[1])
      BY <2>1, MayReport
    <3> QED
      BY <2>1, <3>1, <3>2 DEF Entries
  <2>3. /\ UNCHANGED <<loop, cursor, unread, concluded, added, answered, closed, wg, waited>>
        /\ answered \subseteq ToReport /\ (loop = "report" => cursor \in ToReport)
    BY <1>11 DEF Acknowledges, Acknowledge, loopVars, indexerVars, ToReport
  <2> QED
    BY <2>2, <2>3
<1>12. CASE Environment /\ UNCHANGED indexerVars
  BY <1>12 DEF Environment, Publish, Enqueue, CloseQueue, Close, loopVars, indexerVars
<1>13. CASE UNCHANGED vars
  BY <1>13 DEF vars, queueVars, loopVars, indexerVars
<1> QED
  BY <1>1, <1>2, <1>3, <1>5, <1>6, <1>7, <1>8, <1>9, <1>10, <1>11, <1>12, <1>13
     DEF Next, Loop, Worker, Rest

\* An event moves from one place to the next.
LEMMA PlacesKept ==
  ASSUME ESInv, [Next]_vars
  PROVE  /\ (concluded \cap added = {})'
         /\ (answered \subseteq concluded)'
         /\ ((0..(unread - 1)) \ Unserializable
               = concluded \cup added \cup ((cursor..(unread - 1)) \ Unserializable))'
<1> USE Numbers, ESAssumption DEF ESInv, ProgressInv, EventsAccounted
<1>1. CASE Start
  BY <1>1 DEF Start, StartLoop, New, indexerVars
<1>2. CASE Receive
  <2>1. PICK n : Get(n)
    BY <1>2 DEF Receive, GetBatch
  <2>2. n \in Nat /\ unread' = unread + n /\ cursor = unread
    BY <1>2, <2>1, GetBatches DEF Receive, GetBatch
  <2>3. UNCHANGED <<cursor, added, answered, concluded>>
    BY <1>2, <2>1 DEF Receive, GetBatch, Get, indexerVars
  <2>4. 0..(unread' - 1) = (0..(unread - 1)) \cup (cursor..(unread' - 1))
    BY <2>2
  <2>5. (cursor..(unread - 1)) = {}
    BY <2>2
  <2> QED
    BY <2>3, <2>4, <2>5
<1>3. ASSUME cursor < unread, cursor' = cursor + 1, unread' = unread
      PROVE  cursor..(unread - 1) = {cursor} \cup (cursor'..(unread' - 1))
  BY <1>3
<1>10. CASE SerializeFails
  BY <1>3, <1>10 DEF SerializeFails, Serializable, queueVars, indexerVars
<1>11. CASE Add
  <2>1. /\ cursor \notin Unserializable /\ cursor \notin concluded
        /\ added' = added \cup {cursor}
        /\ UNCHANGED <<concluded, answered, unread>>
    BY <1>11 DEF Add, Serializable, queueVars
  <2> QED
    BY <1>3, <1>11, <2>1 DEF Add
<1>4. CASE AddFails
  BY <1>4 DEF AddFails, Serializable, Conclude, indexerVars
<1>5. CASE Report
  BY <1>5 DEF Report, Done, indexerVars
<1>6. CASE QueueClosed \/ IndexerClosed
  BY <1>6 DEF QueueClosed, GetFails, IndexerClosed, queueVars, indexerVars
<1>7. ASSUME NEW id \in 0..(unread - 1), Answer(id) \/ Callback(id)
      PROVE  /\ (concluded \cap added = {})'
             /\ (answered \subseteq concluded)'
             /\ ((0..(unread - 1)) \ Unserializable
                   = concluded \cup added \cup ((cursor..(unread - 1)) \ Unserializable))'
  BY <1>7 DEF Answer, Conclude, Callback, Done, loopVars
<1>8. CASE Rest
  BY <1>8 DEF Rest, Wait, Acknowledges, Acknowledge, Environment, Publish, Enqueue, CloseQueue,
     Close, queueVars, loopVars, indexerVars
<1>9. CASE UNCHANGED vars
  BY <1>9 DEF vars, queueVars, loopVars, indexerVars
<1> QED
  BY <1>1, <1>2, <1>10, <1>11, <1>4, <1>5, <1>6, <1>7, <1>8, <1>9 DEF Next, Loop, Worker

\* Done counts an event once, whatever the order of the callbacks.
LEMMA CountsKept ==
  ASSUME ESInv, [Next]_vars
  PROVE  CountsInv'
<1>0. CountsInv
  BY DEF ESInv, EventsAccounted, CountsInv, Counted, ToReport
<1>1. CASE Start
  <2>1. batches' = <<>>
    BY <1>1 DEF Start, StartLoop, New
  <2> QED
    BY <2>1 DEF CountsInv
<1>2. CASE Receive
  <2>1. PICK n : Get(n)
    BY <1>2 DEF Receive, GetBatch
  <2>0. PICK last : last = Len(batches) + 1
    OBVIOUS
  <2>2. /\ n \in Nat \ {0}
        /\ DOMAIN batches' = 1..last
        /\ \A i \in DOMAIN batches : batches'[i] = batches[i]
        /\ batches'[last].first = unread
        /\ batches'[last].count = n
        /\ batches'[last].doneCount = 0
    BY <2>0, <2>1, GetBatches DEF ESInv
  <2>3. concluded' = concluded /\ ToReport' = ToReport
    BY <1>2, <2>1 DEF Receive, GetBatch, Get, ToReport, indexerVars
  <2>4. ASSUME NEW i \in DOMAIN batches
        PROVE  batches'[i].doneCount = Cardinality(Counted(i)')
    <3>1. Counted(i)' = Counted(i)
      BY <2>2, <2>3 DEF Counted
    <3> QED
      BY <1>0, <2>2, <3>1 DEF CountsInv
  <2>5. Counted(last)' = {}
    <3>1. concluded \subseteq 0..(unread - 1) /\ unread \in Nat
      BY Numbers DEF ESInv, QueueInv, ReadBeforeConcluded
    <3> QED
      BY <2>2, <2>3, <3>1 DEF Counted, Entries
  <2>6. DOMAIN batches = 1..Len(batches) /\ Len(batches) \in Nat
    BY BatchFacts DEF ESInv
  <2>7. \A i \in DOMAIN batches' : i \in DOMAIN batches \/ i = last
    BY <2>0, <2>2, <2>6
  <2> QED
    BY <2>2, <2>4, <2>5, <2>7, FS_EmptySet DEF CountsInv
<1>3. ASSUME batches' = batches, concluded' = concluded, ToReport' = ToReport
      PROVE  CountsInv'
  BY <1>0, <1>3 DEF CountsInv, Counted
<1>4. ASSUME NEW id, Conclude(id), ToReport' = ToReport \cup {id}
      PROVE  CountsInv'
  <2>1. batches' = batches /\ concluded' = concluded \cup {id} /\ id \notin concluded
    BY <1>4 DEF Conclude
  <2>2. ASSUME NEW i \in DOMAIN batches
        PROVE  Counted(i)' = Counted(i)
    BY <1>4, <2>1 DEF Counted
  <2> QED
    BY <1>0, <2>1, <2>2 DEF CountsInv
<1>5. ASSUME NEW id \in ToReport, Done(BatchOf(id), 1), ToReport' = ToReport \ {id}
      PROVE  CountsInv'
  <2>0. PICK k : k = BatchOf(id)
    OBVIOUS
  <2>1. /\ id \in concluded
        /\ k \in DOMAIN batches
        /\ id \in Entries(batches[k])
        /\ \A j \in DOMAIN batches : id \in Entries(batches[j]) => j = k
        /\ Done(k, 1)
    BY <1>5, <2>0, MayReport
  <2>2. /\ DOMAIN batches' = DOMAIN batches
        /\ \A j \in DOMAIN batches : j # k => batches'[j] = batches[j]
        /\ \A j \in DOMAIN batches : /\ batches'[j].first = batches[j].first
                                     /\ batches'[j].count = batches[j].count
        /\ batches'[k].doneCount = batches[k].doneCount + 1
    BY <2>1, DoneBatches DEF ESInv
  <2>3. concluded' = concluded
    BY <2>1 DEF Done
  <2>4. \A j \in DOMAIN batches : Entries(batches'[j]) = Entries(batches[j])
    BY <2>2 DEF Entries
  <2>5. ASSUME NEW j \in DOMAIN batches, j # k
        PROVE  batches'[j].doneCount = Cardinality(Counted(j)')
    <3>1. Counted(j)' = Counted(j)
      BY <1>5, <2>1, <2>3, <2>4, <2>5 DEF Counted
    <3> QED
      BY <1>0, <2>2, <2>5, <3>1 DEF CountsInv
  <2>6. batches'[k].doneCount = Cardinality(Counted(k)')
    <3>1. Counted(k)' = Counted(k) \cup {id} /\ id \notin Counted(k)
      BY <1>5, <2>1, <2>3, <2>4 DEF Counted
    <3>2. IsFiniteSet(Counted(k))
      <4>1. IsFiniteSet(concluded \cap Entries(batches[k]))
        BY <2>1, BatchFacts, PartCount DEF ESInv
      <4>2. Counted(k) \in SUBSET (concluded \cap Entries(batches[k]))
        BY DEF Counted
      <4> QED
        BY <4>1, <4>2, FS_Subset
    <3>3. Cardinality(Counted(k) \cup {id}) = Cardinality(Counted(k)) + 1
      BY <3>1, <3>2, FS_AddElement
    <3> QED
      BY <1>0, <2>1, <2>2, <3>1, <3>3 DEF CountsInv
  <2> QED
    BY <2>2, <2>5, <2>6 DEF CountsInv
<1>6. /\ loop = "report" => cursor \notin answered
      /\ answered \subseteq concluded
  BY DEF ESInv, ProgressInv, EventsAccounted
<1>7. CASE AddFails
  BY <1>4, <1>7 DEF AddFails, ToReport, indexerVars
<1>8. CASE Report
  <2>1. cursor \in ToReport /\ ToReport' = ToReport \ {cursor}
    BY <1>6, <1>8 DEF Report, ToReport, indexerVars
  <2> QED
    BY <1>5, <1>8, <2>1 DEF Report
<1>9. ASSUME NEW id, Answer(id)
      PROVE  CountsInv'
  BY <1>4, <1>9 DEF Answer, ToReport, loopVars
<1>10. ASSUME NEW id, Callback(id)
       PROVE  CountsInv'
  <2>1. id \in ToReport /\ ToReport' = ToReport \ {id}
    BY <1>6, <1>10 DEF Callback, ToReport
  <2> QED
    BY <1>5, <1>10, <2>1 DEF Callback
<1>11. CASE Acknowledges /\ UNCHANGED indexerVars
  <2>1. \A i \in DOMAIN batches' : i + 1 \in DOMAIN batches /\ batches'[i] = batches[i + 1]
    BY <1>11, AcknowledgeBatches DEF Acknowledges, ESInv
  <2>2. concluded' = concluded /\ ToReport' = ToReport
    BY <1>11 DEF Acknowledges, Acknowledge, ToReport, loopVars, indexerVars
  <2>3. \A i \in DOMAIN batches' : Counted(i)' = Counted(i + 1)
    BY <2>1, <2>2 DEF Counted
  <2> QED
    BY <1>0, <2>1, <2>3 DEF CountsInv
<1>12. CASE SerializeFails \/ Add \/ QueueClosed \/ IndexerClosed
  BY <1>3, <1>12 DEF SerializeFails, Add, QueueClosed, GetFails, IndexerClosed, ToReport,
     queueVars, indexerVars
<1>13. CASE (Wait \/ Environment) /\ UNCHANGED indexerVars
  BY <1>3, <1>13 DEF Wait, Environment, Publish, Enqueue, CloseQueue, Close, ToReport,
     queueVars, loopVars, indexerVars
<1>14. CASE UNCHANGED vars
  BY <1>3, <1>14 DEF vars, queueVars, loopVars, indexerVars, ToReport
<1> QED
  BY <1>1, <1>2, <1>7, <1>8, <1>9, <1>10, <1>11, <1>12, <1>13, <1>14
     DEF Next, Loop, Worker, Rest

LEMMA TypeKept ==
  ASSUME ESInv, [Next]_vars
  PROVE  ESTypeOK'
<1>1. QueueTypeOK'
  BY QueueKept DEF QueueInv
<1>2. wg' \in Nat
  BY QueueKept, ProgressKept, WaitGroupKept, FlushedNext DEF WaitGroupCounts
<1>3. /\ loop' \in {"run", "report", "closing", "ended"}
      /\ cursor' \in Nat
  <2> USE DEF ESInv, ESTypeOK, LoopTypeOK, loopVars
  <2>1. CASE Start \/ Loop
    BY <2>1 DEF Loop, Start, StartLoop, Receive, GetBatch, SerializeFails, Add, AddFails,
       Report, QueueClosed, GetFails, IndexerClosed
  <2>2. CASE Worker
    BY <2>2 DEF Worker, Answer, Callback
  <2>3. CASE Rest \/ UNCHANGED vars
    BY <2>3 DEF Rest, Wait, Acknowledges, Environment, vars
  <2> QED
    BY <2>1, <2>2, <2>3 DEF Next
<1>4. waited' \in BOOLEAN
  BY Zenon DEF ESInv, ESTypeOK, LoopTypeOK, Next, Loop, Worker, Rest, Start, StartLoop, Receive,
     GetBatch, SerializeFails, Add, AddFails, Report, QueueClosed, GetFails, IndexerClosed,
     Answer, Callback, Wait, Acknowledges, Environment, vars, loopVars
<1>5. added' \in SUBSET Nat /\ answered' \in SUBSET Nat
  <2> USE Numbers
  <2>1. CASE Start \/ Loop
    BY <2>1 DEF Loop, Start, Receive, SerializeFails, Add, AddFails, Report, QueueClosed,
       IndexerClosed, indexerVars
  <2>2. CASE Worker
    BY <2>2 DEF Worker, Answer, Callback
  <2>3. CASE Rest \/ UNCHANGED vars
    BY <2>3 DEF Rest, vars, indexerVars
  <2> QED
    BY <2>1, <2>2, <2>3 DEF Next
<1> QED
  BY <1>1, <1>2, <1>3, <1>4, <1>5 DEF ESTypeOK, LoopTypeOK

\* What the rest of ESInv follows from.
InductivePart ==
  /\ ESTypeOK
  /\ QueueInv
  /\ BatchesOrdered
  /\ ProgressInv
  /\ WaitGroupCounts
  /\ EventsAccounted

\* An event that is read and not concluded is in a batch that is open.
LEMMA NotConcludedOpen ==
  ASSUME QueueInv, NEW id \in 0..(unread - 1), id \notin concluded
  PROVE  \E i \in DOMAIN batches : id \in Entries(batches[i]) /\ i \in OpenBatches
<1>1. oldest \in Nat /\ unread \in Nat
  BY DEF QueueInv, QueueTypeOK
<1>2. ~(id < oldest)
  BY <1>1 DEF QueueInv, PersistedIsConcluded, PersistedIndex
<1>3. id \in oldest..(unread - 1)
  BY <1>1, <1>2
<1>4. PICK i \in DOMAIN batches : id \in Entries(batches[i])
  BY <1>3 DEF QueueInv, BatchesCoverRead
<1>5. /\ batches[i] \in WrappedBatch
      /\ batches[i].count \in Nat /\ batches[i].doneCount \in Nat
      /\ Cardinality(concluded \cap Entries(batches[i])) \in Nat
      /\ batches[i].doneCount <= Cardinality(concluded \cap Entries(batches[i]))
  BY BatchFacts, PartCount DEF QueueInv, DoneIsConcluded
<1>6. ~(batches[i].count <= Cardinality(concluded \cap Entries(batches[i])))
  BY <1>4, <1>5, FullCount
<1>7. ~Completed(batches[i])
  BY <1>5, <1>6 DEF Completed
<1> QED
  BY <1>4, <1>7 DEF OpenBatches

\* Nobody counts the event that was skipped.
LEMMA SkippedFollows == InductivePart => SkippedHoldsWait
<1> SUFFICES ASSUME InductivePart, NEW id \in Unserializable, id < cursor
             PROVE  wg > 0 /\ ~waited
  BY DEF SkippedHoldsWait, Skipped
<1>1. /\ cursor \in Nat /\ unread \in Nat /\ wg \in Nat /\ cursor <= unread /\ id \in Nat
      /\ QueueInv
      /\ waited => wg = 0
  BY ESAssumption DEF InductivePart, ESTypeOK, LoopTypeOK, QueueTypeOK, ProgressInv
<1>2. id \in 0..(unread - 1)
  BY <1>1
<1>3. concluded \subseteq (0..(unread - 1)) \ Unserializable
  BY DEF InductivePart, EventsAccounted
<1>4. OpenBatches # {}
  BY <1>1, <1>2, <1>3, NotConcludedOpen
<1>5. Cardinality(OpenBatches) \in Nat /\ Cardinality(OpenBatches) # 0
  BY <1>1, <1>4, OpenFinite, FS_EmptySet
<1>6. wg > 0
  BY <1>1, <1>5 DEF InductivePart, WaitGroupCounts
<1> QED
  BY <1>1, <1>6

\* Only the goroutine, the workers and a skipped event keep a batch open.
LEMMA HangFollows == InductivePart => OnlySkippedHangs
<1> SUFFICES ASSUME InductivePart, wg # 0, ~LoopCanStep, ~WorkerCanStep
             PROVE  Skipped
  BY DEF OnlySkippedHangs
<1>0. /\ cursor \in Nat /\ unread \in Nat /\ wg \in Nat
      /\ QueueInv
      /\ loop \in {"run", "report", "closing", "ended"}
  BY DEF InductivePart, ESTypeOK, LoopTypeOK, QueueTypeOK
<1>1. added = {} /\ answered = {}
  <2>1. answered = {}
    BY DEF WorkerCanStep
  <2>2. ASSUME NEW id \in added
        PROVE  FALSE
    <3>1. id \notin concluded
      BY <2>2 DEF InductivePart, EventsAccounted
    <3>2. id \in 0..(unread - 1)
      BY <1>0, <2>2 DEF InductivePart, EventsAccounted
    <3> QED
      BY <1>0, <2>2, <3>1, <3>2, NotConcludedOpen DEF WorkerCanStep
  <2> QED
    BY <2>1, <2>2
<1>2. loop = "ended" /\ cursor = unread
  BY <1>0, <1>1 DEF LoopCanStep, InductivePart, ProgressInv
<1>3. PICK i \in DOMAIN batches : ~Completed(batches[i])
  <2>1. wg = Cardinality(OpenBatches)
    BY <1>0, <1>2, OpenFinite DEF InductivePart, WaitGroupCounts
  <2> QED
    BY <1>0, <2>1, OpenFinite DEF Drained
<1>4. /\ batches[i] \in WrappedBatch
      /\ IsFiniteSet(Entries(batches[i])) /\ Cardinality(Entries(batches[i])) = batches[i].count
      /\ batches[i].count \in Nat /\ batches[i].doneCount \in Nat
  BY <1>0, BatchFacts, EntriesCount
<1>5. batches[i].doneCount = Cardinality(concluded \cap Entries(batches[i]))
  <2>1. batches[i].doneCount
          = Cardinality((concluded \cap Entries(batches[i]))
              \ (answered \cup (IF loop = "report" THEN {cursor} ELSE {})))
    BY DEF InductivePart, EventsAccounted
  <2>2. (concluded \cap Entries(batches[i]))
          \ (answered \cup (IF loop = "report" THEN {cursor} ELSE {}))
          = concluded \cap Entries(batches[i])
    BY <1>1, <1>2
  <2> QED
    BY <2>1, <2>2
<1>6. PICK id \in Entries(batches[i]) : id \notin concluded
  <2>1. SUFFICES ASSUME Entries(batches[i]) \subseteq concluded
                 PROVE  FALSE
    OBVIOUS
  <2>2. concluded \cap Entries(batches[i]) = Entries(batches[i])
    BY <2>1
  <2> QED
    BY <1>3, <1>4, <1>5, <2>2 DEF Completed
<1>7. id \in 0..(unread - 1)
  BY <1>0, <1>4, <1>6 DEF QueueInv, ReadBeforeConcluded, Entries, WrappedBatch
<1>8. (cursor..(unread - 1)) = {}
  BY <1>0, <1>2
<1>9. id \in Unserializable
  BY <1>1, <1>6, <1>7, <1>8 DEF InductivePart, EventsAccounted
<1> QED
  BY <1>0, <1>2, <1>7, <1>9 DEF Skipped

\* The same in the next state.
LEMMA Follows == InductivePart => SkippedHoldsWait /\ OnlySkippedHangs
BY SkippedFollows, HangFollows

LEMMA FollowsNext == InductivePart' => (SkippedHoldsWait /\ OnlySkippedHangs)'
BY Follows, PTL

-----------------------------------------------------------------------------
(* Theorems *)

\* The inductive invariant: whatever the workers answer and in whatever order,
\* every event is in one place and counted by Done once, and the WaitGroup is
\* the goroutine and the batches that are not completed.
THEOREM ESInvariant == Spec => []ESInv
<1>1. Init => ESInv
  <2> SUFFICES ASSUME Init
               PROVE  ESInv
    OBVIOUS
  <2> USE DEF Init, LoopInit
  <2>1. QueueInv
    BY InitKeeps
  <2>2. ESTypeOK
    <3>1. waited \in BOOLEAN
      BY Zenon
    <3> QED
      BY <2>1, <3>1 DEF ESTypeOK, LoopTypeOK, QueueInv
  <2>3. BatchesOrdered /\ ProgressInv /\ EventsAccounted
    BY DEF QueueInit, BatchesOrdered, ProgressInv, EventsAccounted
  <2>4. WaitGroupCounts
    <3>1. OpenBatches = {}
      BY DEF QueueInit, OpenBatches
    <3> QED
      BY <3>1, FS_EmptySet DEF WaitGroupCounts
  <2> QED
    BY <2>1, <2>2, <2>3, <2>4, Flushed, Follows DEF ESInv, InductivePart
<1>2. ESInv /\ [Next]_vars => ESInv'
  <2> SUFFICES ASSUME ESInv, [Next]_vars
               PROVE  ESInv'
    OBVIOUS
  <2>1. EventsAccounted'
    BY PlacesKept, CountsKept DEF EventsAccounted, CountsInv, Counted, ToReport
  <2>2. WaitFlushes'
    BY QueueKept, ProgressKept, WaitGroupKept, FlushedNext
  <2>3. InductivePart'
    BY <2>1, TypeKept, QueueKept, ProgressKept, WaitGroupKept DEF InductivePart
  <2> QED
    BY <2>2, <2>3, FollowsNext DEF ESInv, InductivePart
<1> QED
  BY <1>1, <1>2, PTL DEF Spec

\* Wait returns with every event that was read sent or given up, and counted:
\* an event that could not be serialized is not concluded, so that Wait cannot
\* have returned.
THEOREM ESFlushes == Spec => []WaitFlushes
<1>1. ESInv => WaitFlushes
  BY DEF ESInv
<1> QED
  BY <1>1, ESInvariant, PTL

\* The output does with the queue what the queue and the server rely on: the
\* callbacks of the workers report an event once, after it was answered, and
\* before the batch it belongs to has left the queue.
THEOREM ESKeepsContract == Spec => KeepsContract
<1>1. Init => QueueInit
  BY DEF Init, LoopInit
<1>2. ESInv /\ [Next]_vars => [QueueNext]_queueVars
  BY StepsKeepContract
<1> QED
  BY <1>1, <1>2, ESInvariant, PTL DEF Spec, KeepsContract, QueueSpec
\* An event that cannot be serialized holds Wait up, and nothing else does:
\* while it is outstanding the WaitGroup is above zero, and without it there
\* is always a step of the goroutine or of a worker left.
THEOREM OnlySkippedHoldsWait == Spec => [](SkippedHoldsWait /\ OnlySkippedHangs)
<1>1. ESInv => SkippedHoldsWait /\ OnlySkippedHangs
  BY DEF ESInv
<1> QED
  BY <1>1, ESInvariant, PTL

\* A step never takes the goroutine back over an event, except to start anew,
\* for which Wait must have returned: a skipped event holds Wait up for good.
THEOREM SkippedHangs == Spec => SkippedForGood
<1>1. ESInv /\ ESInv' /\ [Next]_vars => [Skipped => Skipped' /\ ~waited']_vars
  <2> SUFFICES ASSUME ESInv, ESInv', [Next]_vars, Skipped
               PROVE  Skipped' /\ ~waited'
    OBVIOUS
  <2>1. ~waited /\ cursor \in Nat
    BY Numbers DEF ESInv, SkippedHoldsWait
  <2>2. cursor' = cursor \/ cursor' = cursor + 1
    <3>1. CASE Start \/ Loop
      BY <2>1, <3>1 DEF Loop, Start, StartLoop, Receive, GetBatch, SerializeFails, Add, AddFails,
         Report, QueueClosed, GetFails, IndexerClosed
    <3>2. CASE Worker
      BY <3>2 DEF Worker, Answer, Callback, loopVars
    <3>3. CASE Rest \/ UNCHANGED vars
      BY <3>3 DEF Rest, Wait, Acknowledges, Environment, vars, loopVars
    <3> QED
      BY <3>1, <3>2, <3>3 DEF Next
  <2>3. Skipped'
    BY <2>1, <2>2, ESAssumption DEF Skipped
  <2> QED
    BY <2>3 DEF ESInv, SkippedHoldsWait
<1> QED
  BY <1>1, ESInvariant, PTL DEF Spec, SkippedForGood

\* The sets of the indexer are finite, so that their events can be counted.
LEMMA IndexerFinite ==
  ASSUME ESInv
  PROVE  /\ IsFiniteSet(added) /\ Cardinality(added) \in Nat
         /\ IsFiniteSet(answered) /\ Cardinality(answered) \in Nat
<1>1. /\ added \in SUBSET (0..(cursor - 1))
      /\ answered \in SUBSET (oldest..(unread - 1))
  BY DEF ESInv, ProgressInv
<1>2. cursor - 1 \in Int /\ oldest \in Int /\ unread - 1 \in Int /\ 0 \in Int
  BY Numbers
<1>3. IsFiniteSet(0..(cursor - 1)) /\ IsFiniteSet(oldest..(unread - 1))
  BY <1>2, FS_Interval
<1>4. IsFiniteSet(added) /\ IsFiniteSet(answered)
  BY <1>1, <1>3, FS_Subset
<1> QED
  BY <1>4, FS_CardinalityType

LEMMA Countable == ESInv => Cardinality(added) \in Nat /\ Cardinality(answered) \in Nat
BY IndexerFinite

LEMMA CountableNext == ESInv' => (Cardinality(added) \in Nat /\ Cardinality(answered) \in Nat)'
BY Countable, PTL

\* Once the queue is closed, every step uses up one of the steps left.
THEOREM ESWindsDown == Spec => WindsDown
<1> DEFINE ToDo(l) == CASE l = "run" -> 2 [] l \in {"report", "closing"} -> 1 [] OTHER -> 0
<1>1. ASSUME ESInv, ESInv', [Next]_vars, vars' # vars, closed, ~waited, ~waited'
      PROVE  Left' \in Nat /\ Left' < Left
  <2>0. /\ cursor \in Nat /\ unread \in Nat /\ cursor <= unread
        /\ cursor' \in Nat /\ unread' \in Nat /\ cursor' <= unread'
    BY <1>1 DEF ESInv, ESTypeOK, LoopTypeOK, QueueTypeOK, ProgressInv
  <2>1. PICK a, b, c, d \in Nat : a = Cardinality(added) /\ b = Cardinality(answered)
                                 /\ c = unread - cursor /\ d = ToDo(loop)
    BY <1>1, <2>0, IndexerFinite
  <2>2. Left = 3 * c + 2 * a + b + d
    BY <2>1 DEF Left
  <2>3. ASSUME NEW a1 \in Nat, NEW b1 \in Nat, NEW c1 \in Nat, NEW d1 \in Nat,
               a1 = Cardinality(added'), b1 = Cardinality(answered'),
               c1 = unread' - cursor', d1 = ToDo(loop'),
               3 * c1 + 2 * a1 + b1 + d1 < 3 * c + 2 * a + b + d
        PROVE  Left' \in Nat /\ Left' < Left
    <3>1. Left' = 3 * c1 + 2 * a1 + b1 + d1
      BY <2>3 DEF Left
    <3> QED
      BY <2>2, <2>3, <3>1
  <2> HIDE DEF ToDo
  <2>4. /\ ToDo("run") = 2 /\ ToDo("report") = 1
        /\ ToDo("closing") = 1 /\ ToDo("ended") = 0
    BY DEF ToDo
  <2>5. CASE Add
    <3>1. /\ loop = "run" /\ loop' = "run" /\ cursor < unread
          /\ cursor' = cursor + 1 /\ unread' = unread
          /\ answered' = answered /\ added' = added \cup {cursor} /\ cursor \notin added
      BY <1>1, <2>0, <2>5 DEF Add, queueVars, ESInv, ProgressInv
    <3>2. Cardinality(added') = a + 1
      BY <1>1, <2>1, <3>1, IndexerFinite, FS_AddElement
    <3>3. unread' - cursor' = c - 1 /\ c - 1 \in Nat
      BY <2>0, <2>1, <3>1
    <3> QED
      BY <2>1, <2>3, <2>4, <3>1, <3>2, <3>3
  <2>6. CASE SerializeFails \/ Report
    <3>1. /\ loop \in {"run", "report"} /\ loop' = "run" /\ cursor < unread
          /\ cursor' = cursor + 1 /\ unread' = unread
          /\ answered' = answered /\ added' = added
      <4>1. CASE SerializeFails
        BY <4>1 DEF SerializeFails, queueVars, indexerVars
      <4>2. CASE Report
        <5>1. loop = "report" /\ cursor < unread
          BY <1>1, <2>0, <4>2 DEF Report, ESInv, ProgressInv
        <5> QED
          BY <4>2, <5>1 DEF Report, Done, indexerVars
      <4> QED
        BY <2>6, <4>1, <4>2
    <3>2. unread' - cursor' = c - 1 /\ c - 1 \in Nat
      BY <2>0, <2>1, <3>1
    <3>3. Cardinality(added') = a /\ Cardinality(answered') = b
      BY <2>1, <3>1
    <3>4. ToDo(loop') = 2 /\ d \in {1, 2}
      BY <2>1, <2>4, <3>1
    <3>5. 3 * (c - 1) + 2 * a + b + 2 < 3 * c + 2 * a + b + d
      BY <3>2, <3>4
    <3> QED
      BY <2>3, <3>2, <3>3, <3>4, <3>5
  <2>7. CASE AddFails \/ QueueClosed \/ IndexerClosed
    <3>1. /\ \/ loop = "run" /\ loop' \in {"report", "closing"}
             \/ loop = "closing" /\ loop' = "ended"
          /\ cursor' = cursor /\ unread' = unread /\ answered' = answered /\ added' = added
      BY <2>7 DEF AddFails, Conclude, QueueClosed, GetFails, IndexerClosed, queueVars, indexerVars
    <3>2. /\ Cardinality(added') = a /\ Cardinality(answered') = b
          /\ unread' - cursor' = c /\ ToDo(loop') = d - 1 /\ d - 1 \in Nat
      BY <2>1, <2>4, <3>1
    <3>3. 3 * c + 2 * a + b + (d - 1) < 3 * c + 2 * a + b + d
      BY <3>2
    <3> QED
      BY <2>3, <3>2, <3>3
  <2>8. ASSUME NEW id, Answer(id)
        PROVE  Left' \in Nat /\ Left' < Left
    <3>1. /\ loop' = loop /\ cursor' = cursor /\ unread' = unread
          /\ id \in added /\ added' = added \ {id}
          /\ answered' = answered \cup {id} /\ id \notin answered
      BY <1>1, <2>8 DEF Answer, Conclude, loopVars, ESInv, EventsAccounted
    <3>2. Cardinality(added') = a - 1 /\ a - 1 \in Nat /\ Cardinality(answered') = b + 1
      <4>1. Cardinality(added \ {id}) = a - 1 /\ IsFiniteSet(added \ {id})
        BY <1>1, <2>1, <3>1, IndexerFinite, FS_RemoveElement
      <4>2. Cardinality(answered') = b + 1
        BY <1>1, <2>1, <3>1, IndexerFinite, FS_AddElement
      <4> QED
        BY <3>1, <4>1, <4>2, FS_CardinalityType
    <3>3. unread' - cursor' = c /\ ToDo(loop') = d
      BY <2>1, <3>1
    <3>4. 3 * c + 2 * (a - 1) + (b + 1) + d < 3 * c + 2 * a + b + d
      BY <3>2
    <3> QED
      BY <2>3, <3>2, <3>3, <3>4
  <2>9. ASSUME NEW id, Callback(id)
        PROVE  Left' \in Nat /\ Left' < Left
    <3>1. /\ loop' = loop /\ cursor' = cursor /\ unread' = unread /\ added' = added
          /\ id \in answered /\ answered' = answered \ {id}
      BY <2>9 DEF Callback, Done
    <3>2. Cardinality(answered') = b - 1 /\ b - 1 \in Nat
      <4>1. Cardinality(answered \ {id}) = b - 1 /\ IsFiniteSet(answered \ {id})
        BY <1>1, <2>1, <3>1, IndexerFinite, FS_RemoveElement
      <4> QED
        BY <3>1, <4>1, FS_CardinalityType
    <3>3. unread' - cursor' = c /\ ToDo(loop') = d /\ Cardinality(added') = a
      BY <2>1, <3>1
    <3>4. 3 * c + 2 * a + (b - 1) + d < 3 * c + 2 * a + b + d
      BY <3>2
    <3> QED
      BY <2>3, <3>2, <3>3, <3>4
  <2>10. ~(Start \/ Receive \/ Rest)
    BY <1>1 DEF Start, StartLoop, Receive, GetBatch, Get, Rest, Wait, Acknowledges, Acknowledge,
       Environment, Publish, Enqueue, CloseQueue
  <2> QED
    BY <1>1, <2>5, <2>6, <2>7, <2>8, <2>9, <2>10 DEF Next, Loop, Worker
<1>2. ASSUME ESInv'
      PROVE  Left' \in Nat
  <2>1. /\ cursor' \in Nat /\ unread' \in Nat /\ cursor' <= unread'
    BY <1>2 DEF ESInv, ESTypeOK, LoopTypeOK, QueueTypeOK, ProgressInv
  <2>2. Cardinality(added') \in Nat /\ Cardinality(answered') \in Nat
    BY <1>2, CountableNext
  <2> QED
    BY <2>1, <2>2 DEF Left
<1>3. ESInv /\ ESInv' /\ [Next]_vars
        => [closed /\ ~waited => Left' \in Nat /\ (Left' < Left \/ waited')]_vars
  BY <1>1, <1>2
<1> QED
  BY <1>3, ESInvariant, PTL DEF Spec, WindsDown
=============================================================================
