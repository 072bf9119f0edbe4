------------------------- MODULE KafkaOutput_proofs -------------------------
(***************************************************************************)
(* For every queue, size of batches and sequence of failed attempts: no    *)
(* retry loses an event or sends one that was accepted, the WaitGroup of   *)
(* an attempt counts what the producer still has, and the output keeps the *)
(* contract of the queue.  An attempt can always go on, and every step     *)
(* brings it nearer to its end.  KafkaInv is inductive.                    *)
(*                                                                         *)
(* For every number of partitions, size of groups and range of an int32,   *)
(* the partitioner of the same package returns a partition there is but    *)
(* for two cases, keeps keys together and is even.  PartitionerInv is      *)
(* inductive.                                                              *)
(***************************************************************************)
EXTENDS KafkaOutput, Partitioner, EventQueue_proofs

\* The part of KafkaInv that is about attempts.
ClientInv == PlacesDisjoint /\ AttemptInv /\ AttemptsConserveEvents

-----------------------------------------------------------------------------
(* Sequences without repetition: data and failed *)

LEMMA RangeEmpty ==
  /\ Range(<<>>) = {}
  /\ Len(<<>>) = 0
  /\ IsInjective(<<>>)
  /\ <<>> \in Seq(Nat)
BY DEF Range, IsInjective

LEMMA SequenceFacts ==
  ASSUME NEW s \in Seq(Nat)
  PROVE  /\ Len(s) \in Nat
         /\ Range(s) \subseteq Nat
         /\ s = <<>> <=> Len(s) = 0
         /\ s = <<>> <=> Range(s) = {}
<1>1. /\ Len(s) \in Nat /\ DOMAIN s = 1..Len(s)
      /\ \A k \in 1..Len(s) : s[k] \in Nat
  OBVIOUS
<1>2. s = <<>> <=> Len(s) = 0
  OBVIOUS
<1>3. Len(s) # 0 => s[1] \in Range(s)
  BY <1>1 DEF Range
<1>4. Range(s) \subseteq Nat
  BY <1>1 DEF Range
<1> QED
  BY <1>1, <1>2, <1>3, <1>4, RangeEmpty

\* asyncSend takes the first event off.
LEMMA TakeFirst ==
  ASSUME NEW s \in Seq(Nat), s # <<>>, IsInjective(s)
  PROVE  /\ Head(s) \in Range(s)
         /\ Tail(s) \in Seq(Nat)
         /\ Len(Tail(s)) = Len(s) - 1
         /\ Range(Tail(s)) = Range(s) \ {Head(s)}
         /\ IsInjective(Tail(s))
<1>1. /\ Len(s) \in Nat \ {0}
      /\ Head(s) = s[1]
      /\ Tail(s) \in Seq(Nat)
      /\ Len(Tail(s)) = Len(s) - 1
      /\ DOMAIN s = 1..Len(s)
      /\ DOMAIN Tail(s) = 1..(Len(s) - 1)
      /\ \A k \in 1..(Len(s) - 1) : Tail(s)[k] = s[k + 1]
  OBVIOUS
<1> DEFINE t == Tail(s)
<1>2. /\ DOMAIN t = 1..(Len(s) - 1)
      /\ \A k \in 1..(Len(s) - 1) : t[k] = s[k + 1]
  BY <1>1
<1> HIDE DEF t
<1>3. ASSUME NEW x \in Range(t)
      PROVE  x \in Range(s) \ {s[1]}
  <2>1. PICK k \in 1..(Len(s) - 1) : x = s[k + 1]
    BY <1>2 DEF Range
  <2>2. k + 1 \in DOMAIN s /\ 1 \in DOMAIN s /\ k + 1 # 1
    BY <1>1, <2>1
  <2> QED
    BY <2>1, <2>2 DEF Range, IsInjective
<1>4. ASSUME NEW x \in Range(s) \ {s[1]}
      PROVE  x \in Range(t)
  <2>1. PICK k \in 1..Len(s) : x = s[k]
    BY <1>1 DEF Range
  <2>2. k - 1 \in 1..(Len(s) - 1) /\ t[k - 1] = s[k]
    BY <1>1, <1>2, <2>1
  <2> QED
    BY <1>2, <2>1, <2>2 DEF Range
<1>5. IsInjective(t)
  <2> SUFFICES ASSUME NEW i \in 1..(Len(s) - 1), NEW j \in 1..(Len(s) - 1), t[i] = t[j]
               PROVE  i = j
    BY <1>2 DEF IsInjective
  <2>1. i + 1 \in DOMAIN s /\ j + 1 \in DOMAIN s /\ s[i + 1] = s[j + 1]
    BY <1>1, <1>2
  <2>2. i + 1 = j + 1
    BY <2>1 DEF IsInjective
  <2> QED
    BY <2>2
<1>6. s[1] \in Range(s)
  BY <1>1 DEF Range
<1> QED
  BY <1>1, <1>3, <1>4, <1>5, <1>6 DEF t

\* MsgRef.fail keeps an event for the next attempt.
LEMMA KeepLast ==
  ASSUME NEW s \in Seq(Nat), NEW x \in Nat, x \notin Range(s), IsInjective(s)
  PROVE  /\ Append(s, x) \in Seq(Nat)
         /\ Len(Append(s, x)) = Len(s) + 1
         /\ Range(Append(s, x)) = Range(s) \cup {x}
         /\ IsInjective(Append(s, x))
<1> DEFINE t == Append(s, x)
<1>1. /\ Len(s) \in Nat
      /\ DOMAIN s = 1..Len(s)
      /\ t \in Seq(Nat)
      /\ Len(t) = Len(s) + 1
      /\ DOMAIN t = 1..(Len(s) + 1)
      /\ \A k \in 1..Len(s) : t[k] = s[k]
      /\ t[Len(s) + 1] = x
  OBVIOUS
<1> HIDE DEF t
<1>2. \A k \in DOMAIN t : k \in DOMAIN s \/ k = Len(s) + 1
  BY <1>1
<1>3. \A k \in DOMAIN s : k \in DOMAIN t /\ t[k] = s[k] /\ t[k] \in Range(s)
  BY <1>1 DEF Range
<1>4. Range(t) = Range(s) \cup {x}
  <2>1. ASSUME NEW y \in Range(t)
        PROVE  y \in Range(s) \cup {x}
    <3>1. PICK k \in DOMAIN t : y = t[k]
      BY DEF Range
    <3> QED
      BY <1>1, <1>2, <1>3, <3>1
  <2>2. x \in Range(t)
    BY <1>1 DEF Range
  <2>3. ASSUME NEW y \in Range(s)
        PROVE  y \in Range(t)
    <3>1. PICK k \in DOMAIN s : y = s[k]
      BY DEF Range
    <3>2. k \in DOMAIN t /\ y = t[k]
      BY <1>3, <3>1
    <3> QED
      BY <3>2 DEF Range
  <2> QED
    BY <2>1, <2>2, <2>3
<1>5. IsInjective(t)
  BY <1>1, <1>2, <1>3 DEF IsInjective
<1> QED
  BY <1>1, <1>4, <1>5 DEF t

-----------------------------------------------------------------------------
(* The batch in hand *)

LEMMA Numbers ==
  ASSUME KafkaInv
  PROVE  /\ cursor \in Nat /\ unread \in Nat /\ oldest \in Nat
         /\ remaining \in Nat /\ batchWaiter \in Nat
         /\ cursor <= unread
         /\ concluded \in SUBSET Nat /\ sarama \in SUBSET Nat
         /\ data \in Seq(Nat) /\ failed \in Seq(Nat)
         /\ Open = Range(data) \cup sarama \cup Range(failed)
BY DEF KafkaInv, KafkaTypeOK, LoopTypeOK, QueueTypeOK, AttemptInv, AttemptsConserveEvents

\* Finite sets: what is open, and what the producer has.
LEMMA OpenIsFinite ==
  ASSUME KafkaInv
  PROVE  /\ IsFiniteSet(Open) /\ Cardinality(Open) \in Nat
         /\ IsFiniteSet(sarama) /\ Cardinality(sarama) \in Nat
<1>1. IsFiniteSet(0..(cursor - 1))
  BY Numbers, FS_Interval
<1>2. Open \in SUBSET (0..(cursor - 1)) /\ sarama \in SUBSET Open
  BY Numbers DEF Open
<1> HIDE DEF Open
<1>3. IsFiniteSet(Open) /\ IsFiniteSet(sarama)
  BY <1>1, <1>2, FS_Subset
<1> QED
  BY <1>3, FS_CardinalityType

\* While a batch is in hand, its entries are concluded or open.
LEMMA BatchInHand ==
  ASSUME KafkaInv, loop \in {"send", "wait"}
  PROVE  /\ Current \in DOMAIN batches
         /\ batches[Current] \in WrappedBatch
         /\ batches[Current].count \in Nat \ {0}
         /\ batches[Current].doneCount \in Nat
         /\ batches[Current].doneCount <= Cardinality(concluded \cap Entries(batches[Current]))
         /\ Cardinality(concluded \cap Entries(batches[Current]))
              = batches[Current].count - Cardinality(Open)
         /\ Unreported(batches[Current]) = remaining - Cardinality(Open)
         /\ remaining = batches[Current].count - batches[Current].doneCount
         /\ Cardinality(Open) = Len(data) + Cardinality(sarama) + Len(failed)
<1>0. PICK b : b = batches[Current]
  OBVIOUS
<1>1. /\ Current \in DOMAIN batches
      /\ b \in WrappedBatch
      /\ b.first \in Nat /\ b.count \in Nat \ {0} /\ b.doneCount \in Nat
      /\ b.first + b.count <= unread
  BY <1>0, BatchFacts DEF KafkaInv, AttemptInv, Current
<1>2. b.doneCount <= Cardinality(concluded \cap Entries(b))
  BY <1>0, <1>1 DEF KafkaInv, QueueInv, DoneIsConcluded
<1>3. Entries(b) \ concluded = Open
  <2>1. Entries(b) \subseteq 0..(cursor - 1)
    <3>1. cursor = unread /\ unread \in Nat
      BY Numbers DEF KafkaInv, AttemptInv
    <3> QED
      BY <1>1, <3>1 DEF Entries
  <2>2. Open \subseteq Entries(b)
    BY <1>0, Numbers DEF KafkaInv, AttemptInv
  <2> QED
    BY <2>1, <2>2 DEF Open
<1>4. /\ IsFiniteSet(Entries(b)) /\ Cardinality(Entries(b)) = b.count
      /\ Cardinality(concluded \cap Entries(b)) \in Nat
  BY <1>1, EntriesCount, PartCount
<1>5. Cardinality(Entries(b) \ concluded) = b.count - Cardinality(Entries(b) \cap concluded)
  BY <1>4, FS_Difference
<1>6. Entries(b) \cap concluded = concluded \cap Entries(b)
  OBVIOUS
<1>7. Cardinality(Open) = b.count - Cardinality(concluded \cap Entries(b))
  BY <1>3, <1>5, <1>6
<1>8. remaining = b.count - b.doneCount
  BY <1>0 DEF KafkaInv, AttemptsConserveEvents
<1>9. Cardinality(Open) = Len(data) + Cardinality(sarama) + Len(failed)
  BY DEF KafkaInv, AttemptsConserveEvents
<1> HIDE DEF Open
<1>10. Unreported(b) = remaining - Cardinality(Open)
  BY <1>1, <1>4, <1>7, <1>8 DEF Unreported
<1>11. Cardinality(concluded \cap Entries(b)) = b.count - Cardinality(Open)
  BY <1>1, <1>4, <1>7, OpenIsFinite
<1> QED
  BY <1>0, <1>1, <1>2, <1>8, <1>9, <1>10, <1>11

\* When the WaitGroup of an attempt is down to zero, nothing of it is with the
\* producer, and what is not reported yet is what failed or was just concluded.
LEMMA AttemptIsOver ==
  ASSUME KafkaInv, loop = "wait", batchWaiter = 0
  PROVE  /\ data = <<>> /\ sarama = {}
         /\ Open = Range(failed)
         /\ Cardinality(Open) = Len(failed)
         /\ remaining - Len(failed) \in Nat
         /\ remaining - Len(failed) = Unreported(batches[Current])
<1>1. data = <<>> /\ batchWaiter = Len(data) + Cardinality(sarama)
  BY DEF KafkaInv, AttemptInv, AttemptsConserveEvents
<1>2. /\ Len(data) = 0 /\ Cardinality(sarama) = 0 /\ Len(failed) \in Nat
  BY <1>1, OpenIsFinite, Numbers, SequenceFacts
<1>3. sarama = {}
  BY <1>2, OpenIsFinite, FS_EmptySet
<1>4. Open = Range(failed)
  BY <1>1, <1>3, Numbers, RangeEmpty
<1> HIDE DEF Open
<1>5. Cardinality(Open) = Len(failed)
  BY <1>2, BatchInHand
<1>6. /\ Unreported(batches[Current]) = remaining - Len(failed)
      /\ Cardinality(concluded \cap Entries(batches[Current])) = batches[Current].count - Len(failed)
      /\ batches[Current].doneCount <= Cardinality(concluded \cap Entries(batches[Current]))
      /\ remaining = batches[Current].count - batches[Current].doneCount
      /\ batches[Current].count \in Nat /\ batches[Current].doneCount \in Nat
  BY <1>5, BatchInHand
<1>7. remaining - Len(failed) \in Nat
  BY <1>2, <1>6
<1> QED
  BY <1>1, <1>3, <1>4, <1>5, <1>6, <1>7

\* Done for no event is no step of the queue.
LEMMA DoneNothing ==
  ASSUME QueueInv, NEW i \in DOMAIN batches, Done(i, 0)
  PROVE  UNCHANGED queueVars
<1>1. /\ batches \in Seq(WrappedBatch)
      /\ batches[i] \in [first : Nat, count : Nat \ {0}, doneCount : Nat]
  BY BatchFacts DEF WrappedBatch
<1>2. [batches[i] EXCEPT !.doneCount = @ + 0] = batches[i]
  BY <1>1
<1>3. batches' = [batches EXCEPT ![i] = [batches[i] EXCEPT !.doneCount = @ + 0]]
  BY DEF Done
<1>4. batches' = batches
  BY <1>1, <1>2, <1>3
<1> QED
  BY <1>4 DEF Done, queueVars

\* The steps of the output, seen from the queue.
LEMMA StepsKeepContract ==
  ASSUME KafkaInv, [Next]_vars
  PROVE  [QueueNext]_queueVars
<1>1. CASE Start
  BY <1>1 DEF Start, StartLoop, KafkaInv, AttemptInv, WaitFlushes, OpenQueue, QueueNext
<1>2. CASE Receive
  <2>1. PICK n : Get(n)
    BY <1>2 DEF Receive, GetBatch
  <2>2. n \in 1..(nextID - unread)
    BY <2>1 DEF Get
  <2> QED
    BY <2>1, <2>2 DEF OutputStep, QueueNext
<1>3. ASSUME NEW id, Conclude(id)
      PROVE  QueueNext
  <2>1. PICK i \in DOMAIN batches : id \in Entries(batches[i])
    BY <1>3 DEF Conclude
  <2>2. id \in 0..(unread - 1)
    <3>1. PICK b : b = batches[i]
      OBVIOUS
    <3>2. b.first \in Nat /\ b.count \in Nat /\ b.first + b.count <= unread /\ unread \in Nat
      BY <2>1, <3>1, BatchFacts, Numbers DEF KafkaInv
    <3> QED
      BY <2>1, <3>1, <3>2 DEF Entries
  <2>3. ~(id < oldest)
    BY <1>3, <2>2, Numbers
       DEF KafkaInv, QueueInv, PersistedIsConcluded, PersistedIndex, Conclude
  <2>4. id \in oldest..(unread - 1)
    BY <2>2, <2>3, Numbers
  <2> QED
    BY <1>3, <2>4 DEF OutputStep, QueueNext
<1>4. CASE AsyncSend
  BY <1>3, <1>4 DEF AsyncSend
<1>5. CASE AttemptEnds
  <2>1. /\ loop = "wait" /\ batchWaiter = 0
        /\ Done(Current, remaining - Len(failed))
    BY <1>5 DEF AttemptEnds
  <2>2. /\ Current \in DOMAIN batches
        /\ remaining - Len(failed) \in Nat
        /\ remaining - Len(failed) = Unreported(batches[Current])
        /\ remaining - Len(failed) <= batches[Current].count
    <3>1. /\ remaining \in Nat /\ remaining <= batches[Current].count /\ Len(failed) \in Nat
          /\ batches[Current].count \in Nat
      BY <2>1, BatchInHand, Numbers, SequenceFacts
    <3> QED
      BY <2>1, <3>1, AttemptIsOver, BatchInHand
  <2>3. CASE remaining - Len(failed) = 0
    BY <2>1, <2>2, <2>3, DoneNothing DEF KafkaInv
  <2>4. CASE remaining - Len(failed) # 0
    <3>1. PICK n : n = remaining - Len(failed)
      OBVIOUS
    <3>2. n \in 1..Unreported(batches[Current]) /\ n \in 1..batches[Current].count
      BY <2>2, <2>4, <3>1, BatchInHand, <2>1
    <3>3. ReportDone(Current, n)
      BY <2>1, <3>1, <3>2 DEF ReportDone
    <3> QED
      BY <2>2, <3>2, <3>3 DEF OutputStep, QueueNext
  <2> QED
    BY <2>3, <2>4
<1>6. CASE Answers
  BY <1>3, <1>6 DEF Answers, Errors, Error, Success, Reject
<1>7. CASE FirstAttempt \/ QueueClosed \/ Wake
  BY <1>7 DEF FirstAttempt, QueueClosed, GetFails, Wake
<1>8. CASE Rest
  BY <1>8 DEF Rest, Wait, Acknowledges, Environment, QueueNext
<1>9. CASE UNCHANGED vars
  BY <1>9 DEF vars
<1> QED
  BY <1>1, <1>2, <1>4, <1>5, <1>6, <1>7, <1>8, <1>9 DEF Next, Loop

LEMMA QueueKept ==
  ASSUME KafkaInv, [Next]_vars
  PROVE  QueueInv'
BY StepsKeepContract, StepKeeps DEF KafkaInv

-----------------------------------------------------------------------------
(* The actions keep ClientInv *)

\* Between batches nothing is open.
LEMMA NothingOpen ==
  ASSUME KafkaInv, loop \notin {"send", "wait"}
  PROVE  /\ data = <<>> /\ sarama = {} /\ failed = <<>>
         /\ Open = {} /\ concluded = 0..(cursor - 1)
<1>1. data = <<>> /\ sarama = {} /\ failed = <<>> /\ concluded \subseteq 0..(cursor - 1)
  BY DEF KafkaInv, AttemptInv
<1>2. Open = {}
  BY <1>1, Numbers, RangeEmpty
<1> QED
  BY <1>1, <1>2 DEF Open

\* Nothing is open in the next state either.
LEMMA NothingOpenNext ==
  ASSUME data' = <<>>, sarama' = {}, failed' = <<>>, loop' \notin {"send", "wait"},
         concluded' = 0..(cursor' - 1)
  PROVE  PlacesDisjoint' /\ AttemptsConserveEvents'
<1>1. PlacesDisjoint'
  BY RangeEmpty DEF PlacesDisjoint
<1>2. Open' = {}
  BY DEF Open
<1>3. Cardinality({}) = 0 /\ Range(data') = {} /\ Range(failed') = {} /\ Len(data') = 0 /\ Len(failed') = 0
  BY RangeEmpty, FS_EmptySet
<1>4. AttemptsConserveEvents'
  BY <1>2, <1>3 DEF AttemptsConserveEvents
<1> QED
  BY <1>1, <1>4

LEMMA StartKeeps ==
  ASSUME KafkaInv, Start
  PROVE  ClientInv'
<1>1. loop \notin {"send", "wait"}
  BY DEF Start, StartLoop, KafkaInv, AttemptInv
<1>2. /\ data' = <<>> /\ sarama' = {} /\ failed' = <<>>
      /\ loop' = "run" /\ concluded' = {} /\ cursor' = 0 /\ unread' = 0 /\ batches' = <<>>
      /\ wg' = 1 /\ waited' = FALSE
  BY <1>1, NothingOpen DEF Start, StartLoop, New
<1>3. PlacesDisjoint' /\ AttemptsConserveEvents'
  BY <1>2, NothingOpenNext
<1>4. OnlyLastOpen' /\ Drained'
  BY <1>2 DEF OnlyLastOpen, Drained
<1>5. AttemptInv'
  BY <1>2, <1>4 DEF AttemptInv
<1> QED
  BY <1>3, <1>5 DEF ClientInv

LEMMA ReceiveKeeps ==
  ASSUME KafkaInv, Receive
  PROVE  ClientInv'
<1>1. PICK n : Get(n)
  BY DEF Receive, GetBatch
<1>2. /\ loop = "run" /\ cursor = unread
      /\ UNCHANGED <<loop, cursor, wg, waited, data, sarama, failed, concluded, closed>>
  <2>1. wg \in Nat
    BY DEF KafkaInv, KafkaTypeOK, LoopTypeOK
  <2> QED
    BY <1>1, <2>1 DEF Receive, GetBatch, Get, clientVars
<1>3. /\ n \in Nat \ {0}
      /\ Len(batches') = Len(batches) + 1 /\ Len(batches) \in Nat
      /\ batches'[Len(batches')].first = unread
      /\ batches'[Len(batches')].doneCount = 0
      /\ unread' = unread + n
      /\ batches' # <<>>
  BY <1>1, GetBatches, BatchFacts DEF KafkaInv, Get
<1>4. PlacesDisjoint' /\ AttemptsConserveEvents'
  BY <1>2, NothingOpen, NothingOpenNext
<1>5. OnlyLastOpen'
  BY <1>1, <1>2, Numbers, SerialGet DEF KafkaInv, AttemptInv
<1>6. cursor' < unread' /\ cursor' <= unread'
  BY <1>2, <1>3, Numbers
<1>7. AttemptInv'
  BY <1>2, <1>3, <1>5, <1>6, NothingOpen DEF KafkaInv, AttemptInv, Current
<1> QED
  BY <1>4, <1>7 DEF ClientInv

\* The sequence the first attempt is made of.
LEMMA FirstEvents ==
  ASSUME NEW a \in Nat, NEW z \in Nat, a < z
  PROVE  LET s == [k \in 1..(z - a) |-> a + k - 1]
         IN  /\ s \in Seq(Nat)
             /\ Len(s) = z - a
             /\ Range(s) = a..(z - 1)
             /\ IsInjective(s)
             /\ s # <<>>
<1> DEFINE s == [k \in 1..(z - a) |-> a + k - 1]
<1>1. /\ s \in Seq(Nat) /\ Len(s) = z - a
      /\ DOMAIN s = 1..(z - a)
      /\ \A k \in 1..(z - a) : s[k] = a + k - 1
  OBVIOUS
<1> HIDE DEF s
<1>2. ASSUME NEW x \in a..(z - 1)
      PROVE  x \in Range(s)
  <2>1. x - a + 1 \in 1..(z - a) /\ a + (x - a + 1) - 1 = x
    OBVIOUS
  <2> QED
    BY <1>1, <2>1 DEF Range
<1>3. Range(s) \subseteq a..(z - 1)
  BY <1>1 DEF Range
<1>4. IsInjective(s)
  BY <1>1 DEF IsInjective
<1>5. s # <<>>
  BY <1>1
<1> QED
  BY <1>1, <1>2, <1>3, <1>4, <1>5 DEF s

LEMMA FirstAttemptKeeps ==
  ASSUME KafkaInv, FirstAttempt
  PROVE  ClientInv'
<1>1. /\ loop = "run" /\ loop' = "send" /\ cursor < unread /\ cursor' = unread
      /\ data' = [k \in 1..(unread - cursor) |-> cursor + k - 1]
      /\ failed' = <<>> /\ batchWaiter' = Len(data') /\ remaining' = unread - cursor
      /\ UNCHANGED <<wg, waited, sarama, batches, unread, concluded, closed>>
  BY DEF FirstAttempt, Attempt, queueVars
<1>2. /\ Range(data') = cursor..(unread - 1)
      /\ Len(data') = unread - cursor
      /\ IsInjective(data') /\ data' # <<>>
  BY <1>1, FirstEvents, Numbers
<1>3. sarama = {} /\ concluded = 0..(cursor - 1)
  BY <1>1, NothingOpen
<1>4. PlacesDisjoint'
  BY <1>1, <1>2, <1>3, RangeEmpty DEF PlacesDisjoint
<1>5. /\ batches # <<>>
      /\ batches[Current].first = cursor /\ batches[Current].doneCount = 0
  BY <1>1 DEF KafkaInv, AttemptInv
<1>6. batches[Current].count = unread - cursor
  <2>1. batches[Current].first + batches[Current].count = unread
    BY <1>5 DEF KafkaInv, QueueInv, BatchesAreContiguous, Current
  <2>2. batches[Current].count \in Nat
    BY <1>5, BatchFacts DEF KafkaInv, Current
  <2> QED
    BY <1>5, <2>1, <2>2, Numbers
<1>7. Current' = Current
  BY <1>1 DEF Current
<1>8. AttemptInv'
  <2>1. OnlyLastOpen'
    BY <1>1 DEF KafkaInv, AttemptInv, OnlyLastOpen
  <2>2. ~Completed(batches'[Current'])
    BY <1>1, <1>5, <1>6, <1>7, Numbers DEF Completed
  <2>3. (Range(data) \cup sarama \cup Range(failed))' \subseteq Entries(batches'[Current'])
    <3>1. Entries(batches[Current]) = cursor..(unread - 1)
      BY <1>5, <1>6, Numbers DEF Entries
    <3> QED
      BY <1>1, <1>2, <1>3, <1>7, <3>1, RangeEmpty
  <2>4. concluded' \subseteq 0..(cursor' - 1) /\ cursor' <= unread'
    BY <1>1, <1>3, Numbers
  <2> QED
    BY <1>1, <1>2, <1>5, <2>1, <2>2, <2>3, <2>4 DEF KafkaInv, AttemptInv
<1>9. AttemptsConserveEvents'
  <2>1. Open' = cursor..(unread - 1)
    BY <1>1, <1>3, Numbers DEF Open
  <2>2. Cardinality(cursor..(unread - 1)) = unread - cursor
    BY <1>1, FS_Interval, Numbers
  <2>3. Cardinality(sarama') = 0 /\ Range(failed') = {} /\ Len(failed') = 0
    BY <1>1, <1>3, RangeEmpty, FS_EmptySet
  <2>4. remaining' = batches'[Current'].count - batches'[Current'].doneCount
    BY <1>1, <1>5, <1>6, <1>7, Numbers
  <2>5. Open' = (Range(data) \cup sarama \cup Range(failed))'
    BY <1>1, <1>2, <1>3, <2>1, <2>3
  <2>6. /\ Cardinality(Open') = Len(data') + Cardinality(sarama') + Len(failed')
        /\ batchWaiter' = Len(data') + Cardinality(sarama')
    BY <1>1, <1>2, <2>1, <2>2, <2>3, Numbers
  <2> QED
    BY <2>4, <2>5, <2>6 DEF AttemptsConserveEvents
<1> QED
  BY <1>4, <1>8, <1>9 DEF ClientInv

\* An event is concluded while a batch is in hand: it was open, and Open loses
\* just that event.
LEMMA OpenLoses ==
  ASSUME KafkaInv, NEW id \in Open, Conclude(id), cursor' = cursor
  PROVE  /\ Open' = Open \ {id}
         /\ Cardinality(Open') = Cardinality(Open) - 1
         /\ concluded' \subseteq 0..(cursor - 1)
<1>1. Open' = Open \ {id}
  BY DEF Open, Conclude
<1>2. Cardinality(Open \ {id}) = Cardinality(Open) - 1
  BY OpenIsFinite, FS_RemoveElement
<1>3. concluded' \subseteq 0..(cursor - 1)
  BY DEF Open, Conclude, KafkaInv, AttemptInv
<1> QED
  BY <1>1, <1>2, <1>3

\* What an action has to show when it leaves the batches and the goroutine where
\* they are, in a batch.
LEMMA StaysInBatch ==
  ASSUME KafkaInv, loop \in {"send", "wait"}, loop' \in {"send", "wait"},
         UNCHANGED <<batches, unread, cursor, wg, waited>>,
         concluded' \subseteq 0..(cursor - 1),
         (Range(data) \cup sarama \cup Range(failed))' \subseteq Range(data) \cup sarama \cup Range(failed),
         data' = <<>> <=> loop' = "wait"
  PROVE  AttemptInv'
<1>1. Current' = Current /\ OnlyLastOpen'
  BY DEF Current, KafkaInv, AttemptInv, OnlyLastOpen
<1>2. cursor' <= unread'
  BY DEF KafkaInv, AttemptInv
<1> QED
  BY <1>1, <1>2 DEF KafkaInv, AttemptInv

LEMMA AsyncSendKeeps ==
  ASSUME KafkaInv, AsyncSend
  PROVE  ClientInv'
<1>0. PICK id : id = Head(data)
  OBVIOUS
<1>1. /\ loop = "send" /\ loop' = (IF Len(data) = 1 THEN "wait" ELSE loop)
      /\ data' = Tail(data)
      /\ UNCHANGED <<cursor, wg, waited, failed, remaining>>
      /\ UNCHANGED <<batches, unread, closed>>
  BY DEF AsyncSend, Conclude, queueVars
<1>2. /\ id \in Range(data) /\ data # <<>>
      /\ Len(data) \in Nat \ {0}
      /\ data' \in Seq(Nat) /\ Len(data') = Len(data) - 1
      /\ Range(data') = Range(data) \ {id}
      /\ IsInjective(data')
  BY <1>0, <1>1, TakeFirst, Numbers, SequenceFacts DEF KafkaInv, AttemptInv, PlacesDisjoint
<1>3. id \in Open /\ id \notin sarama /\ id \notin Range(failed)
  BY <1>2, Numbers DEF KafkaInv, PlacesDisjoint
<1>4. loop' \in {"send", "wait"} /\ (data' = <<>> <=> loop' = "wait")
  <2>1. data' = <<>> <=> Len(data') = 0
    BY <1>2, SequenceFacts
  <2>2. Len(data') = 0 <=> Len(data) = 1
    BY <1>2
  <2> QED
    BY <1>1, <2>1, <2>2
<1>5. /\ IsFiniteSet(sarama) /\ Cardinality(sarama) \in Nat /\ Cardinality(Open) \in Nat
      /\ Len(failed) \in Nat
      /\ batchWaiter = Len(data) + Cardinality(sarama)
      /\ Cardinality(Open) = Len(data) + Cardinality(sarama) + Len(failed)
      /\ remaining = batches[Current].count - batches[Current].doneCount
      /\ Open = Range(data) \cup sarama \cup Range(failed)
  BY <1>1, OpenIsFinite, Numbers, SequenceFacts DEF KafkaInv, AttemptsConserveEvents
<1>6. Current' = Current /\ concluded \subseteq 0..(cursor - 1)
  BY <1>1 DEF Current, KafkaInv, AttemptInv
<1>7. CASE id \in Unencodable
  <2>1. Conclude(id) /\ batchWaiter' = batchWaiter - 1 /\ sarama' = sarama
    BY <1>0, <1>7 DEF AsyncSend
  <2>2. /\ Open' = Open \ {id}
        /\ Cardinality(Open') = Cardinality(Open) - 1
        /\ concluded' \subseteq 0..(cursor - 1)
    BY <1>1, <1>3, <2>1, OpenLoses
  <2> HIDE DEF Open
  <2>3. PlacesDisjoint'
    BY <1>1, <1>2, <2>1 DEF KafkaInv, PlacesDisjoint
  <2>4. AttemptInv'
    BY <1>1, <1>2, <1>4, <2>1, <2>2, StaysInBatch
  <2>5. AttemptsConserveEvents'
    <3>1. Open' = (Range(data) \cup sarama \cup Range(failed))'
      BY <1>1, <1>2, <1>3, <1>5, <2>1, <2>2
    <3>2. /\ Cardinality(Open') = Len(data') + Cardinality(sarama') + Len(failed')
          /\ batchWaiter' = Len(data') + Cardinality(sarama')
      <4>1. PICK l, d, s, f : /\ l = Len(data) /\ d = Len(data')
                              /\ s = Cardinality(sarama) /\ f = Len(failed)
        OBVIOUS
      <4>2. l \in Nat /\ d \in Nat /\ s \in Nat /\ f \in Nat /\ d = l - 1
        BY <1>1, <1>2, <1>5, <4>1
      <4>3. Cardinality(Open') = d + s + f /\ batchWaiter' = d + s
        BY <1>5, <2>1, <2>2, <4>1, <4>2
      <4> QED
        BY <1>1, <2>1, <4>1, <4>3
    <3> QED
      BY <1>1, <1>5, <1>6, <3>1, <3>2 DEF AttemptsConserveEvents
  <2> QED
    BY <2>3, <2>4, <2>5 DEF ClientInv
<1>8. CASE id \notin Unencodable
  <2>1. sarama' = sarama \cup {id} /\ batchWaiter' = batchWaiter /\ concluded' = concluded
    BY <1>0, <1>8 DEF AsyncSend, queueVars
  <2>2. Open' = Open /\ Cardinality(sarama') = Cardinality(sarama) + 1
    BY <1>1, <1>3, <1>5, <2>1, FS_AddElement DEF Open
  <2> HIDE DEF Open
  <2>3. PlacesDisjoint'
    BY <1>1, <1>2, <1>3, <2>1 DEF KafkaInv, PlacesDisjoint
  <2>4. AttemptInv'
    BY <1>1, <1>2, <1>4, <1>6, <2>1, StaysInBatch
  <2>5. AttemptsConserveEvents'
    <3>1. Open' = (Range(data) \cup sarama \cup Range(failed))'
      BY <1>1, <1>2, <1>5, <2>1, <2>2
    <3>2. /\ Cardinality(Open') = Len(data') + Cardinality(sarama') + Len(failed')
          /\ batchWaiter' = Len(data') + Cardinality(sarama')
      <4>1. /\ Cardinality(Open') = Cardinality(Open) /\ Len(failed') = Len(failed)
            /\ Len(data') + Cardinality(sarama') = Len(data) + Cardinality(sarama)
        BY <1>1, <1>2, <1>5, <2>2
      <4> QED
        BY <1>5, <2>1, <4>1
    <3> QED
      BY <1>1, <1>5, <1>6, <3>1, <3>2 DEF AttemptsConserveEvents
  <2> QED
    BY <2>3, <2>4, <2>5 DEF ClientInv
<1> QED
  BY <1>7, <1>8

\* An answer takes an event off the producer: it was concluded, or is kept for
\* the next attempt.
LEMMA AnswerKeeps ==
  ASSUME KafkaInv, NEW id \in sarama,
         sarama' = sarama \ {id}, batchWaiter' = batchWaiter - 1,
         UNCHANGED <<loopVars, data, remaining>>,
         \/ Conclude(id) /\ failed' = failed
         \/ failed' = Append(failed, id) /\ UNCHANGED queueVars
  PROVE  ClientInv'
<1>1. loop \in {"send", "wait"}
  BY NothingOpen
<1>2. /\ UNCHANGED <<loop, cursor, wg, waited, data, remaining>>
      /\ UNCHANGED <<batches, unread, closed>>
  BY DEF loopVars, Conclude, queueVars
<1>3. id \in Open /\ id \notin Range(data) /\ id \notin Range(failed) /\ id \in Nat
  BY Numbers DEF KafkaInv, PlacesDisjoint
<1>4. /\ IsFiniteSet(sarama) /\ Cardinality(sarama) \in Nat /\ Cardinality(Open) \in Nat
      /\ Len(failed) \in Nat /\ Len(data) \in Nat
      /\ batchWaiter = Len(data) + Cardinality(sarama)
      /\ Cardinality(Open) = Len(data) + Cardinality(sarama) + Len(failed)
      /\ remaining = batches[Current].count - batches[Current].doneCount
      /\ Open = Range(data) \cup sarama \cup Range(failed)
  BY <1>1, OpenIsFinite, Numbers, SequenceFacts DEF KafkaInv, AttemptsConserveEvents
<1>5. Cardinality(sarama') = Cardinality(sarama) - 1
  BY <1>4, FS_RemoveElement
<1>6. /\ Current' = Current /\ concluded \subseteq 0..(cursor - 1)
      /\ data' = <<>> <=> loop' = "wait"
  BY <1>1, <1>2 DEF Current, KafkaInv, AttemptInv
<1>7. ASSUME PlacesDisjoint',
             Open' = Range(data) \cup (sarama \ {id}) \cup Range(failed'),
             Range(failed') \subseteq Range(failed) \cup {id},
             Cardinality(Open') = Len(data) + Cardinality(sarama) - 1 + Len(failed'),
             concluded' \subseteq 0..(cursor - 1)
      PROVE  ClientInv'
  <2>1. AttemptInv'
    BY <1>1, <1>2, <1>6, <1>7, StaysInBatch
  <2>2. AttemptsConserveEvents'
    BY <1>2, <1>4, <1>5, <1>6, <1>7 DEF AttemptsConserveEvents
  <2> QED
    BY <1>7, <2>1, <2>2 DEF ClientInv
<1>8. CASE Conclude(id) /\ failed' = failed
  <2>1. /\ Open' = Open \ {id}
        /\ Cardinality(Open') = Cardinality(Open) - 1
        /\ concluded' \subseteq 0..(cursor - 1)
    BY <1>2, <1>3, <1>8, OpenLoses
  <2> HIDE DEF Open
  <2>2. PlacesDisjoint'
    BY <1>2, <1>8 DEF KafkaInv, PlacesDisjoint
  <2>3. Open' = Range(data) \cup (sarama \ {id}) \cup Range(failed')
    BY <1>3, <1>4, <1>8, <2>1
  <2>4. Cardinality(Open') = Len(data) + Cardinality(sarama) - 1 + Len(failed')
    BY <1>4, <1>8, <2>1
  <2> QED
    BY <1>7, <1>8, <2>1, <2>2, <2>3, <2>4
<1>9. CASE failed' = Append(failed, id) /\ UNCHANGED queueVars
  <2>1. /\ Len(failed') = Len(failed) + 1
        /\ Range(failed') = Range(failed) \cup {id}
        /\ IsInjective(failed')
    BY <1>3, <1>9, Numbers, KeepLast DEF KafkaInv, PlacesDisjoint
  <2>2. Open' = Open /\ concluded' = concluded
    BY <1>2, <1>9 DEF Open, queueVars
  <2> HIDE DEF Open
  <2>3. PlacesDisjoint'
    BY <1>2, <1>3, <2>1 DEF KafkaInv, PlacesDisjoint
  <2>4. Open' = Range(data) \cup (sarama \ {id}) \cup Range(failed')
    BY <1>3, <1>4, <2>1, <2>2
  <2>5. Cardinality(Open') = Len(data) + Cardinality(sarama) - 1 + Len(failed')
    BY <1>4, <2>1, <2>2
  <2> QED
    BY <1>6, <1>7, <2>1, <2>2, <2>3, <2>4, <2>5
<1> QED
  BY <1>8, <1>9

LEMMA AttemptEndsKeeps ==
  ASSUME KafkaInv, AttemptEnds
  PROVE  ClientInv'
<1>0. PICK n, c : n = remaining - Len(failed) /\ c = Current
  OBVIOUS
<1>1. /\ loop = "wait" /\ batchWaiter = 0 /\ Done(c, n)
      /\ remaining' = Len(failed) /\ data' = failed /\ batchWaiter' = Len(failed) /\ failed' = <<>>
      /\ loop' = (IF failed = <<>> THEN "run" ELSE "send")
      /\ UNCHANGED <<cursor, wg, waited, sarama, unread, concluded, closed>>
  BY <1>0 DEF AttemptEnds, Attempt, Done
<1>2. /\ sarama = {} /\ Open = Range(failed) /\ Cardinality(Open) = Len(failed)
      /\ n \in Nat
  BY <1>0, <1>1, AttemptIsOver
<1>3. /\ c \in DOMAIN batches /\ batches # <<>> /\ c = Len(batches)
      /\ batches[c].count \in Nat \ {0} /\ batches[c].doneCount \in Nat
      /\ remaining = batches[c].count - batches[c].doneCount
      /\ cursor = unread /\ OnlyLastOpen
      /\ Open \subseteq Entries(batches[c])
  BY <1>0, <1>1, BatchInHand, Numbers DEF Current, KafkaInv, AttemptInv
<1>4. /\ Len(batches') = Len(batches) /\ Current' = c /\ DOMAIN batches' = DOMAIN batches
      /\ batches'[c].first = batches[c].first
      /\ batches'[c].count = batches[c].count
      /\ batches'[c].doneCount = batches[c].doneCount + n
  BY <1>1, <1>2, <1>3, DoneBatches DEF KafkaInv, Current
<1>5. /\ OnlyLastOpen'
      /\ batches[c].doneCount + n >= batches[c].count => Drained'
  BY <1>1, <1>2, <1>3, LastDone DEF KafkaInv
<1>6. /\ Len(failed) \in Nat /\ failed = <<>> <=> Len(failed) = 0
      /\ remaining \in Nat /\ cursor \in Nat
  BY Numbers, SequenceFacts
<1>7. /\ Open' = Open /\ concluded \subseteq 0..(cursor - 1)
      /\ waited => loop = "ended"
      /\ wg = 1
  BY <1>1 DEF Open, KafkaInv, AttemptInv
<1>8. CASE failed = <<>>
  <2>1. concluded' = 0..(cursor' - 1)
    BY <1>1, <1>2, <1>7, <1>8, RangeEmpty DEF Open
  <2>2. PlacesDisjoint' /\ AttemptsConserveEvents'
    BY <1>1, <1>2, <1>8, <2>1, NothingOpenNext
  <2>3. Drained'
    BY <1>0, <1>3, <1>5, <1>6, <1>8
  <2>4. ~(cursor' < unread') /\ cursor' <= unread'
    BY <1>1, <1>3, <1>6
  <2>5. AttemptInv'
    BY <1>1, <1>2, <1>5, <1>7, <1>8, <2>1, <2>3, <2>4 DEF AttemptInv
  <2> QED
    BY <2>2, <2>5 DEF ClientInv
<1>9. CASE failed # <<>>
  <2> HIDE DEF Open
  <2>1. PlacesDisjoint'
    BY <1>1, <1>2, RangeEmpty DEF KafkaInv, PlacesDisjoint
  <2>2. batches'[c].count - batches'[c].doneCount = Len(failed)
    <3>1. PICK all, done, l : /\ all = batches[c].count
                              /\ done = batches[c].doneCount
                              /\ l = Len(failed)
      OBVIOUS
    <3>2. all \in Nat /\ done \in Nat /\ l \in Nat /\ n = (all - done) - l
      BY <1>0, <1>3, <1>6, <3>1
    <3>3. all - (done + n) = l
      BY <3>2
    <3> QED
      BY <1>4, <3>1, <3>3
  <2>3. ~Completed(batches'[Current'])
    <3>1. batches'[c].count \in Nat /\ batches'[c].doneCount \in Nat /\ Len(failed) > 0
      BY <1>2, <1>3, <1>4, <1>6, <1>9
    <3> QED
      BY <1>4, <2>2, <3>1 DEF Completed
  <2>4. (Range(data) \cup sarama \cup Range(failed))' = Open
    BY <1>1, <1>2, RangeEmpty
  <2>5. Entries(batches'[c]) = Entries(batches[c])
    BY <1>4 DEF Entries
  <2>6. cursor' = unread' /\ cursor' <= unread' /\ batches' # <<>>
    <3>1. c \in DOMAIN batches'
      BY <1>3, <1>4
    <3> QED
      BY <1>1, <1>3, <1>6, <3>1
  <2>7. AttemptInv'
    BY <1>1, <1>3, <1>4, <1>5, <1>7, <1>9, <2>3, <2>4, <2>5, <2>6 DEF AttemptInv
  <2>8. AttemptsConserveEvents'
    <3>1. Cardinality(sarama') = 0 /\ Len(failed') = 0
      BY <1>1, <1>2, RangeEmpty, FS_EmptySet
    <3>2. /\ Cardinality(Open') = Len(data') + Cardinality(sarama') + Len(failed')
          /\ batchWaiter' = Len(data') + Cardinality(sarama')
      BY <1>1, <1>2, <1>6, <1>7, <3>1
    <3>3. remaining' = batches'[Current'].count - batches'[Current'].doneCount
      BY <1>1, <1>4, <2>2
    <3> QED
      BY <1>7, <2>4, <3>2, <3>3 DEF AttemptsConserveEvents
  <2> QED
    BY <2>1, <2>7, <2>8 DEF ClientInv
<1> QED
  BY <1>8, <1>9

\* The queue closes, an entry is published, the worker wakes up, the goroutine
\* ends, Wait returns: nothing changes about the attempt.
LEMMA QuietKeeps ==
  ASSUME KafkaInv,
         UNCHANGED <<batches, unread, concluded, cursor, data, sarama, failed, batchWaiter, remaining>>,
         closed => closed',
         \/ UNCHANGED <<loop, wg>> /\ (waited' => waited \/ wg = 0)
         \/ loop = "run" /\ cursor = unread /\ closed /\ loop' = "ended" /\ wg' = wg - 1 /\ waited' = waited
  PROVE  ClientInv'
<1>1. PlacesDisjoint'
  BY DEF KafkaInv, PlacesDisjoint
<1>2. Current' = Current /\ OnlyLastOpen' = OnlyLastOpen /\ Drained' = Drained /\ Open' = Open
  BY DEF Current, OnlyLastOpen, Drained, Open
<1>3. loop' = "ended" \/ loop' = loop
  OBVIOUS
<1>4. AttemptInv'
  <2>1. CASE UNCHANGED <<loop, wg>> /\ (waited' => waited \/ wg = 0)
    BY <1>2, <2>1 DEF KafkaInv, AttemptInv
  <2>2. CASE loop = "run" /\ cursor = unread /\ closed /\ loop' = "ended" /\ wg' = wg - 1 /\ waited' = waited
    BY <1>2, <2>2 DEF KafkaInv, AttemptInv
  <2> QED
    BY <2>1, <2>2
<1>5. AttemptsConserveEvents'
  BY <1>2, <1>3 DEF KafkaInv, AttemptsConserveEvents
<1> QED
  BY <1>1, <1>4, <1>5 DEF ClientInv

\* The batch in hand is not the one that leaves the queue.
LEMMA AcknowledgesKeeps ==
  ASSUME KafkaInv, Acknowledges, UNCHANGED clientVars
  PROVE  ClientInv'
<1>1. /\ Acknowledge
      /\ UNCHANGED <<unread, concluded, closed, loop, cursor, wg, waited, data, sarama, failed, batchWaiter, remaining>>
  BY DEF Acknowledges, Acknowledge, loopVars, clientVars
<1>2. /\ OnlyLastOpen'
      /\ Drained => Drained'
      /\ ~Drained => /\ batches' # <<>>
                     /\ batches'[Len(batches')] = batches[Len(batches)]
  BY <1>1, SerialAcknowledge DEF KafkaInv, AttemptInv
<1>3. ASSUME loop \in {"send", "wait"} \/ cursor < unread
      PROVE  /\ batches' # <<>>
             /\ batches'[Current'] = batches[Current]
  <2>1. batches # <<>> /\ ~Completed(batches[Current])
    <3>1. CASE loop \in {"send", "wait"}
      BY <3>1 DEF KafkaInv, AttemptInv
    <3>2. CASE loop \notin {"send", "wait"} /\ cursor < unread
      <4>1. batches # <<>> /\ batches[Current].doneCount = 0
        BY <3>2 DEF KafkaInv, AttemptInv
      <4>2. batches[Current].count \in Nat \ {0}
        BY <4>1, BatchFacts DEF KafkaInv, Current
      <4> QED
        BY <4>1, <4>2 DEF Completed
    <3> QED
      BY <1>3, <3>1, <3>2
  <2>2. ~Drained
    BY <2>1, BatchFacts DEF Drained, Current, KafkaInv
  <2> QED
    BY <1>2, <2>2 DEF Current
<1>4. PlacesDisjoint'
  BY <1>1 DEF KafkaInv, PlacesDisjoint
<1>5. AttemptInv'
  BY <1>1, <1>2, <1>3 DEF KafkaInv, AttemptInv
<1>6. AttemptsConserveEvents'
  <2>1. Open' = Open
    BY <1>1 DEF Open
  <2> QED
    BY <1>1, <1>3, <2>1 DEF KafkaInv, AttemptsConserveEvents
<1> QED
  BY <1>4, <1>5, <1>6 DEF ClientInv

LEMMA ClientKept ==
  ASSUME KafkaInv, [Next]_vars
  PROVE  ClientInv'
<1>1. CASE Answers
  <2>1. ASSUME NEW id, Success(id) \/ Reject(id) \/ \E breaker \in BOOLEAN : Error(id, breaker)
        PROVE  ClientInv'
    <3>1. /\ id \in sarama
          /\ sarama' = sarama \ {id} /\ batchWaiter' = batchWaiter - 1
          /\ UNCHANGED <<loopVars, data, remaining>>
          /\ \/ Conclude(id) /\ failed' = failed
             \/ failed' = Append(failed, id) /\ UNCHANGED queueVars
      BY <2>1 DEF Success, Reject, Error
    <3> QED
      BY <3>1, AnswerKeeps
  <2> QED
    BY <1>1, <2>1 DEF Answers, Errors
<1>2. CASE QueueClosed
  BY <1>2, QuietKeeps DEF QueueClosed, GetFails, queueVars, clientVars
<1>3. CASE Wake
  BY <1>3, QuietKeeps DEF Wake, queueVars, loopVars
<1>4. CASE Rest
  <2>1. CASE Wait /\ UNCHANGED clientVars
    BY <2>1, QuietKeeps DEF Wait, queueVars, clientVars
  <2>2. CASE Acknowledges /\ UNCHANGED clientVars
    BY <2>2, AcknowledgesKeeps
  <2>3. CASE Environment /\ UNCHANGED clientVars
    BY <2>3, QuietKeeps DEF Environment, Publish, Enqueue, CloseQueue, Close, loopVars, clientVars
  <2> QED
    BY <1>4, <2>1, <2>2, <2>3 DEF Rest
<1>5. CASE UNCHANGED vars
  BY <1>5, QuietKeeps DEF vars, queueVars, loopVars, clientVars
<1> QED
  BY <1>1, <1>2, <1>3, <1>4, <1>5, StartKeeps, ReceiveKeeps, FirstAttemptKeeps, AsyncSendKeeps,
     AttemptEndsKeeps DEF Next, Loop

LEMMA TypeKept ==
  ASSUME KafkaInv, [Next]_vars
  PROVE  KafkaTypeOK'
<1>1. QueueTypeOK'
  BY QueueKept DEF QueueInv
<1>2. loop' \in {"run", "send", "wait", "settle", "report", "closing", "ended"} /\ wg' \in Nat
  BY ClientKept DEF ClientInv, AttemptInv
<1>3. cursor' \in Nat
  BY Numbers DEF Next, Loop, Answers, Errors, Rest, Start, StartLoop, Receive, GetBatch, FirstAttempt,
     AsyncSend, AttemptEnds, QueueClosed, GetFails, Success, Reject, Error, Wake, Wait, Acknowledges,
     Environment, vars, loopVars
<1>4. waited' \in BOOLEAN
  BY Zenon DEF KafkaInv, KafkaTypeOK, LoopTypeOK, Next, Loop, Answers, Errors, Rest, Start,
     StartLoop, Receive, GetBatch, FirstAttempt, AsyncSend, AttemptEnds, QueueClosed, GetFails,
     Success, Reject, Error, Wake, Wait, Acknowledges, Environment, vars, loopVars
<1>5. breakerOpen' \in BOOLEAN /\ asleep' \in BOOLEAN
  <2>1. ASSUME NEW id, NEW breaker \in BOOLEAN, Error(id, breaker)
        PROVE  breakerOpen' \in BOOLEAN /\ asleep' \in BOOLEAN
    <3>1. breakerOpen' = (breakerOpen \/ breaker) /\ asleep' = (breaker /\ breakerOpen)
      BY <2>1, Zenon DEF Error
    <3>2. (breakerOpen \/ breaker) \in BOOLEAN /\ (breaker /\ breakerOpen) \in BOOLEAN
      BY Zenon
    <3> QED
      BY <3>1, <3>2, Zenon
  <2> QED
    BY <2>1, Zenon DEF KafkaInv, KafkaTypeOK, Next, Loop, Answers, Errors, Rest, Start, Receive,
       FirstAttempt, AsyncSend, AttemptEnds, QueueClosed, Success, Reject, Wake, vars, clientVars
<1>6. /\ data' \in Seq(Nat) /\ sarama' \in SUBSET Nat /\ failed' \in Seq(Nat)
      /\ batchWaiter' \in Int /\ remaining' \in Nat
  <2> USE Numbers
  <2>1. CASE FirstAttempt
    <3>1. cursor < unread /\ data' = [k \in 1..(unread - cursor) |-> cursor + k - 1]
      BY <2>1 DEF FirstAttempt, Attempt
    <3>2. unread - cursor \in Nat /\ cursor \in Nat /\ unread \in Nat
      BY <3>1
    <3>3. data' \in Seq(Nat) /\ Len(data') = unread - cursor
      BY <3>1, <3>2, FirstEvents
    <3> QED
      BY <2>1, <3>2, <3>3 DEF FirstAttempt, Attempt
  <2>2. CASE AsyncSend
    <3>1. data \in Seq(Nat) /\ data # <<>> /\ Tail(data) \in Seq(Nat) /\ Head(data) \in Nat
      BY <2>2 DEF AsyncSend, KafkaInv, AttemptInv
    <3> QED
      BY <2>2, <3>1 DEF AsyncSend
  <2>3. CASE AttemptEnds
    BY <2>3 DEF AttemptEnds, Attempt
  <2>4. CASE Answers
    <3>1. PICK id \in 0..(unread - 1) :
            \/ Success(id) \/ Reject(id)
            \/ \E breaker \in BOOLEAN : Error(id, breaker)
      BY <2>4 DEF Answers, Errors
    <3>2. /\ data' = data /\ sarama' = sarama \ {id} /\ remaining' = remaining
          /\ batchWaiter' = batchWaiter - 1
          /\ failed' = failed \/ failed' = Append(failed, id)
      BY <3>1 DEF Error, Success, Reject
    <3>3. failed \in Seq(Nat) /\ id \in Nat
      OBVIOUS
    <3>4. Append(failed, id) \in Seq(Nat)
      BY <3>3
    <3>5. sarama' \in SUBSET Nat /\ batchWaiter' \in Int
      BY <3>2
    <3>6. failed' \in Seq(Nat)
      BY <3>2, <3>3, <3>4
    <3> QED
      BY <3>2, <3>5, <3>6
  <2>5. CASE UNCHANGED <<data, sarama, failed, batchWaiter, remaining>>
    BY <2>5
  <2> QED
    BY <2>1, <2>2, <2>3, <2>4, <2>5 DEF Next, Loop, Rest, Start, Receive, QueueClosed, Wake, vars, clientVars
<1>7. batchWaiter' \in Nat
  <2>1. CASE loop' \in {"send", "wait"}
    <3>1. /\ batchWaiter' = Len(data') + Cardinality(sarama')
          /\ sarama' \subseteq Open'
      BY <2>1, ClientKept DEF ClientInv, AttemptsConserveEvents
    <3>2. IsFiniteSet(0..(cursor' - 1)) /\ Open' \subseteq 0..(cursor' - 1)
      <4>1. cursor' - 1 \in Int /\ 0 \in Int
        BY <1>3
      <4>2. IsFiniteSet(0..(cursor' - 1))
        BY <4>1, FS_Interval
      <4> QED
        BY <4>2 DEF Open
    <3>3. sarama' \in SUBSET (0..(cursor' - 1))
      BY <3>1, <3>2
    <3>4. Cardinality(sarama') \in Nat
      BY <3>2, <3>3, FS_Subset, FS_CardinalityType
    <3> QED
      BY <1>6, <3>1, <3>4
  <2>2. CASE loop' \notin {"send", "wait"}
    <3>1. batchWaiter' = batchWaiter \/ AttemptEnds
      <4>1. Answers => loop \in {"send", "wait"} /\ loop' = loop
        BY NothingOpen DEF Answers, Errors, Error, Success, Reject, loopVars
      <4>2. FirstAttempt \/ AsyncSend => loop' \in {"send", "wait"}
        BY DEF FirstAttempt, AsyncSend
      <4> QED
        BY <2>2, <4>1, <4>2 DEF Next, Loop, Rest, Start, Receive, QueueClosed, Wake, vars, clientVars
    <3>2. AttemptEnds => batchWaiter' \in Nat
      BY Numbers, SequenceFacts DEF AttemptEnds, Attempt
    <3> QED
      BY <3>1, <3>2, Numbers
  <2> QED
    BY <2>1, <2>2
<1> QED
  BY <1>1, <1>2, <1>3, <1>4, <1>5, <1>6, <1>7 DEF KafkaTypeOK, LoopTypeOK

\* When Wait has returned, nothing is open.
LEMMA Flushed == KafkaTypeOK /\ ClientInv => WaitFlushes
<1> SUFFICES ASSUME KafkaTypeOK, ClientInv, waited
             PROVE  concluded = 0..(unread - 1) /\ Drained
  BY DEF WaitFlushes
<1>1. /\ loop = "ended" /\ cursor = unread /\ ~(cursor < unread)
      /\ data = <<>> /\ sarama = {} /\ failed = <<>> /\ Drained
      /\ concluded \subseteq 0..(cursor - 1)
  BY DEF KafkaTypeOK, LoopTypeOK, ClientInv, AttemptInv
<1>2. Open = {}
  BY <1>1, RangeEmpty DEF ClientInv, AttemptsConserveEvents
<1> QED
  BY <1>1, <1>2 DEF Open

LEMMA FlushedNext == (KafkaTypeOK /\ ClientInv)' => WaitFlushes'
BY Flushed, PTL

\* What batchWaiter counts is still to be sent or with the producer.
LEMMA HangFollows == (KafkaTypeOK /\ QueueInv /\ ClientInv) => NothingHangs
<1> SUFFICES ASSUME KafkaTypeOK, QueueInv, ClientInv, wg # 0
             PROVE  AttemptCanStep
  BY DEF NothingHangs
<1>1. loop \in {"run", "send", "wait"} /\ data \in Seq(Nat)
  BY DEF KafkaTypeOK, ClientInv, AttemptInv
<1>2. CASE loop = "send"
  <2>1. data # <<>> /\ batches # <<>>
    BY <1>2 DEF ClientInv, AttemptInv
  <2>2. Head(data) \in Range(data)
    BY <1>1, <2>1, TakeFirst DEF ClientInv, PlacesDisjoint
  <2>3. Head(data) \notin concluded
    BY <2>2 DEF ClientInv, AttemptsConserveEvents, Open
  <2>4. Head(data) \in Entries(batches[Current])
    BY <1>2, <2>2 DEF ClientInv, AttemptInv
  <2>5. Current \in DOMAIN batches
    BY <2>1, BatchFacts DEF Current
  <2> QED
    BY <1>2, <2>1, <2>3, <2>4, <2>5 DEF AttemptCanStep
<1>3. CASE loop = "wait"
  <2>1. data = <<>> /\ batchWaiter = Len(data) + Cardinality(sarama)
    BY <1>3 DEF ClientInv, AttemptInv, AttemptsConserveEvents
  <2>2. sarama = {} => batchWaiter = 0
    BY <2>1, FS_EmptySet, RangeEmpty
  <2> QED
    BY <1>3, <2>2 DEF AttemptCanStep
<1> QED
  BY <1>1, <1>2, <1>3 DEF AttemptCanStep

LEMMA HangFollowsNext == (KafkaTypeOK /\ QueueInv /\ ClientInv)' => NothingHangs'
BY HangFollows, PTL

-----------------------------------------------------------------------------
(* Theorems *)

\* The inductive invariant: whatever fails, and however often, an event of the
\* batch in hand is concluded or in one place, and the counters of the attempt
\* agree with these places.
THEOREM KafkaInvariant == Spec => []KafkaInv
<1>1. Init => KafkaInv
  <2> SUFFICES ASSUME Init
               PROVE  KafkaInv
    OBVIOUS
  <2> USE DEF Init, LoopInit
  <2>1. QueueInv
    BY InitKeeps
  <2>2. KafkaTypeOK
    <3>1. waited \in BOOLEAN /\ breakerOpen \in BOOLEAN /\ asleep \in BOOLEAN
      BY Zenon
    <3> QED
      BY <2>1, <3>1, RangeEmpty DEF KafkaTypeOK, LoopTypeOK, QueueInv
  <2>3. PlacesDisjoint
    BY RangeEmpty DEF PlacesDisjoint
  <2>4. AttemptInv
    BY DEF QueueInit, AttemptInv, OnlyLastOpen, Drained
  <2>5. AttemptsConserveEvents
    <3>1. Open = {}
      BY DEF QueueInit, Open
    <3> QED
      BY <3>1, RangeEmpty, FS_EmptySet DEF AttemptsConserveEvents
  <2> QED
    BY <2>1, <2>2, <2>3, <2>4, <2>5, Flushed, HangFollows DEF KafkaInv, ClientInv
<1>2. KafkaInv /\ [Next]_vars => KafkaInv'
  BY TypeKept, QueueKept, ClientKept, FlushedNext, HangFollowsNext DEF KafkaInv, ClientInv
<1> QED
  BY <1>1, <1>2, PTL DEF Spec

\* Wait returns with every event that was read sent or given up, and counted.
THEOREM KafkaFlushes == Spec => []WaitFlushes
<1>1. KafkaInv => WaitFlushes
  BY DEF KafkaInv
<1> QED
  BY <1>1, KafkaInvariant, PTL

\* The output does with the queue what the queue and the server rely on: at the
\* end of an attempt it reports what was concluded in it, no more and no less.
THEOREM KafkaKeepsContract == Spec => KeepsContract
<1>1. Init => QueueInit
  BY DEF Init, LoopInit
<1>2. KafkaInv /\ [Next]_vars => [QueueNext]_queueVars
  BY StepsKeepContract
<1> QED
  BY <1>1, <1>2, KafkaInvariant, PTL DEF Spec, KeepsContract, QueueSpec

\* Once the queue is closed, Wait can return or the batch in hand goes on.
THEOREM KafkaNeverHangs == Spec => []NothingHangs
<1>1. KafkaInv => NothingHangs
  BY DEF KafkaInv
<1> QED
  BY <1>1, KafkaInvariant, PTL

\* An answer brings the attempt nearer to its end, even if it puts the error
\* worker to sleep.
LEMMA AnswerCounts ==
  ASSUME KafkaInv, NEW id \in sarama, sarama' = sarama \ {id}, data' = data,
         asleep' = asleep \/ ~asleep
  PROVE  AttemptLeft' \in Nat /\ AttemptLeft' < AttemptLeft
<1>1. PICK c : c = Cardinality(sarama)
  OBVIOUS
<1>2. c \in Nat /\ Cardinality(sarama \ {id}) = c - 1 /\ IsFiniteSet(sarama \ {id})
  BY <1>1, OpenIsFinite, FS_RemoveElement
<1>3. Cardinality(sarama') = c - 1 /\ c - 1 \in Nat
  BY <1>2, FS_CardinalityType
<1>4. PICK l \in Nat : l = Len(data)
  BY Numbers, SequenceFacts
<1>5. PICK x \in {0, 1}, y \in {0, 1} : AttemptLeft = 3 * l + 2 * c + x
                                      /\ AttemptLeft' = 3 * l + 2 * (c - 1) + y
  BY <1>1, <1>3, <1>4 DEF AttemptLeft
<1> QED
  BY <1>2, <1>3, <1>5

\* The retries of a batch: events only leave it, every attempt comes to its end,
\* and the next one is about exactly the events that are left.
THEOREM KafkaAttemptsProgress == Spec => AttemptsProgress
<1> DEFINE Kept == UNCHANGED <<loopVars, clientVars>>
           Nearer == AttemptLeft' \in Nat /\ AttemptLeft' < AttemptLeft
           Again == sarama = {} /\ Range(data') = Open /\ remaining' = Cardinality(Open)
<1>1. ASSUME KafkaInv, [Next]_vars, loop \in {"send", "wait"}
      PROVE  Progress
  <2> USE DEF Progress
  <2>1. /\ data \in Seq(Nat) /\ Len(data) \in Nat /\ ~waited
        /\ IsFiniteSet(sarama) /\ Cardinality(sarama) \in Nat
    BY <1>1, Numbers, SequenceFacts, OpenIsFinite DEF KafkaInv, AttemptInv
  <2>2. CASE AsyncSend
    <3>1. loop = "send" /\ data # <<>> /\ data' = Tail(data) /\ asleep' = asleep /\ cursor' = cursor
      BY <1>1, <2>2 DEF AsyncSend, KafkaInv, AttemptInv
    <3>2. /\ Head(data) \in Range(data) /\ Len(data') = Len(data) - 1
          /\ Len(data') \in Nat
      BY <1>1, <2>1, <3>1, TakeFirst, SequenceFacts DEF KafkaInv, PlacesDisjoint
    <3>3. concluded \subseteq concluded'
      BY <2>2 DEF AsyncSend, Conclude, queueVars
    <3>4. Open' \subseteq Open
      BY <3>1, <3>3 DEF Open
    <3>5. /\ Cardinality(sarama') \in Nat
          /\ Cardinality(sarama') <= Cardinality(sarama) + 1
      <4>1. sarama' = sarama \/ sarama' = sarama \cup {Head(data)}
        BY <2>2 DEF AsyncSend
      <4>2. Head(data) \notin sarama
        BY <1>1, <3>2 DEF KafkaInv, PlacesDisjoint
      <4>3. Cardinality(sarama \cup {Head(data)}) = Cardinality(sarama) + 1
        BY <2>1, <4>2, FS_AddElement
      <4>4. PICK c \in Nat : c = Cardinality(sarama)
        BY <2>1
      <4>5. Cardinality(sarama') = c \/ Cardinality(sarama') = c + 1
        BY <4>1, <4>3, <4>4
      <4> QED
        BY <4>4, <4>5
    <3>6. Nearer
      <4>1. PICK l \in Nat, c \in Nat, k \in Nat :
              l = Len(data) /\ c = Cardinality(sarama) /\ k = Cardinality(sarama')
        BY <2>1, <3>5
      <4>2. PICK x \in {0, 1} : AttemptLeft = 3 * l + 2 * c + x
                               /\ AttemptLeft' = 3 * (l - 1) + 2 * k + x
        BY <3>1, <3>2, <4>1 DEF AttemptLeft
      <4>3. l - 1 \in Nat /\ k <= c + 1
        BY <3>2, <3>5, <4>1
      <4> QED
        BY <4>2, <4>3
    <3> QED
      BY <3>4, <3>6
  <2>3. CASE AttemptEnds
    <3>1. /\ loop = "wait" /\ batchWaiter = 0 /\ cursor' = cursor /\ concluded' = concluded
          /\ data' = failed /\ remaining' = Len(failed)
      BY <2>3 DEF AttemptEnds, Attempt, Done
    <3>2. Open' = Open
      BY <3>1 DEF Open
    <3> QED
      BY <1>1, <3>1, <3>2, AttemptIsOver
  <2>4. CASE Answers
    <3>1. PICK id \in 0..(unread - 1) :
            Success(id) \/ Reject(id) \/ \E breaker \in BOOLEAN : Error(id, breaker)
      BY <2>4 DEF Answers, Errors
    <3>2. /\ id \in sarama /\ sarama' = sarama \ {id} /\ data' = data /\ cursor' = cursor
          /\ concluded \subseteq concluded'
      BY <3>1 DEF Success, Reject, Error, Conclude, loopVars, queueVars
    <3>3. asleep' = asleep \/ ~asleep
      BY <3>1, Zenon DEF Success, Reject, Error
    <3>4. Nearer
      BY <1>1, <3>2, <3>3, AnswerCounts
    <3>5. Open' \subseteq Open
      BY <3>2 DEF Open
    <3> QED
      BY <3>4, <3>5
  <2>5. CASE Wake
    <3>1. /\ asleep /\ ~asleep' /\ data' = data /\ sarama' = sarama
          /\ cursor' = cursor /\ concluded' = concluded
      BY <2>5 DEF Wake, queueVars, loopVars
    <3>2. Open' = Open
      BY <3>1 DEF Open
    <3>3. Nearer
      BY <2>1, <3>1 DEF AttemptLeft
    <3> QED
      BY <3>2, <3>3
  <2>6. CASE Rest \/ UNCHANGED vars
    <3>1. ~Wait
      BY <1>1 DEF Wait, KafkaInv, AttemptInv
    <3>2. Kept /\ concluded' = concluded
      BY <2>6, <3>1 DEF Rest, Acknowledges, Acknowledge, Environment, Publish, Enqueue,
         CloseQueue, Close, vars, queueVars
    <3>3. Open' = Open
      BY <3>2 DEF Open, loopVars
    <3> QED
      BY <3>2, <3>3
  <2>7. ~(Start \/ Receive \/ FirstAttempt \/ QueueClosed)
    BY <1>1, <2>1 DEF Start, StartLoop, Receive, GetBatch, FirstAttempt, QueueClosed, GetFails
  <2> HIDE DEF Progress
  <2> QED
    BY <1>1, <2>2, <2>3, <2>4, <2>5, <2>6, <2>7 DEF Next, Loop
<1>2. KafkaInv /\ [Next]_vars => [(loop \in {"send", "wait"}) => Progress]_vars
  BY <1>1
<1> QED
  BY <1>2, KafkaInvariant, PTL DEF Spec, AttemptsProgress

-----------------------------------------------------------------------------
(* The partitioner: int32 and the mask *)

\* The int32 after x: one more, unless x is the largest.
LEMMA NextInt32 ==
  ASSUME NEW x \in (-MaxInt32 - 1)..MaxInt32
  PROVE  Int32(x + 1) = IF x = MaxInt32 THEN -MaxInt32 - 1 ELSE x + 1
<1>1. PICK size : size = 2 * (MaxInt32 + 1)
  OBVIOUS
<1>2. MaxInt32 \in Nat /\ size \in Nat \ {0}
  BY <1>1, PartitionerAssumption
<1>3. CASE x = MaxInt32
  <2>1. (x + 1) % size = x + 1
    BY <1>1, <1>2, <1>3
  <2> QED
    BY <1>1, <1>2, <1>3, <2>1 DEF Int32
<1>4. CASE x # MaxInt32 /\ x + 1 >= 0
  <2>1. (x + 1) % size = x + 1
    BY <1>1, <1>2, <1>4
  <2> QED
    BY <1>1, <1>2, <1>4, <2>1 DEF Int32
<1>5. CASE x + 1 < 0
  <2>1. (x + 1) % size = x + 1 + size
    BY <1>1, <1>2, <1>5
  <2> QED
    BY <1>1, <1>2, <1>5, <2>1 DEF Int32
<1> QED
  BY <1>2, <1>3, <1>4, <1>5

\* The mask and the remainder give one of the n partitions.
LEMMA HashInRange ==
  ASSUME NEW h \in Nat, NEW n \in 1..MaxPartitions
  PROVE  Hash2Partition(h, n) \in 0..(n - 1)
<1>1. MaxInt32 + 1 \in Nat \ {0} /\ n \in Nat \ {0}
  BY PartitionerAssumption
<1>2. h % (MaxInt32 + 1) \in Nat
  BY <1>1
<1> QED
  BY <1>1, <1>2 DEF Hash2Partition

LEMMA PartitionerConstants ==
  /\ MaxInt32 \in Nat
  /\ MaxPartitions \in Nat \ {0}
  /\ MaxPartitions <= MaxInt32
  /\ HashValues \cup {0} \subseteq Nat
  /\ Nil \notin Keys
BY PartitionerAssumption

\* The fields of a strategy; with keys there are no groups.
LEMMA StrategyFacts ==
  ASSUME strategy \in Strategies
  PROVE  /\ strategy.name \in {"random", "round_robin", "hash", "fields"}
         /\ strategy.group \in Nat \ {0}
<1>1. MaxGroup \in Nat \ {0}
  BY PartitionerAssumption
<1>2. CASE strategy \in [name : {"random", "round_robin"}, group : 1..MaxGroup,
                         dropFail : {FALSE}, reachable : BOOLEAN]
  <2>1. strategy.name \in {"random", "round_robin"} /\ strategy.group \in 1..MaxGroup
    BY <1>2
  <2> QED
    BY <1>1, <2>1
<1>3. CASE strategy \in [name : {"hash", "fields"}, group : {1}, dropFail : BOOLEAN,
                         reachable : BOOLEAN]
  <2>1. strategy.name \in {"hash", "fields"} /\ strategy.group = 1
    BY <1>3
  <2> QED
    BY <2>1
<1> QED
  BY <1>2, <1>3 DEF Strategies

\* What the numbers of a state are, for the provers.
LEMMA PartitionerNumbers ==
  ASSUME PartitionerTypeOK
  PROVE  /\ strategy.name \in {"random", "round_robin", "hash", "fields"}
         /\ strategy.group \in Nat \ {0}
         /\ count \in Nat /\ count > 0 /\ count <= strategy.group
         /\ partition \in Int /\ -MaxInt32 - 1 <= partition /\ partition <= MaxInt32
         /\ numPartitions \in Nat \ {0} /\ numPartitions <= MaxPartitions
         /\ begun \in Nat /\ begun <= MaxPartitions
         /\ start \in Nat /\ start <= MaxInt32
         /\ \A p \in 0..(MaxPartitions - 1) : tally[p] \in Nat
         /\ 0..(numPartitions - 1) \subseteq 0..(MaxPartitions - 1)
<1>1. /\ strategy.name \in {"random", "round_robin", "hash", "fields"}
      /\ strategy.group \in Nat \ {0}
      /\ count \in Nat /\ count > 0 /\ count <= strategy.group
  BY StrategyFacts DEF PartitionerTypeOK
<1>2. /\ partition \in Int /\ -MaxInt32 - 1 <= partition /\ partition <= MaxInt32
      /\ start \in Nat /\ start <= MaxInt32
  BY PartitionerConstants DEF PartitionerTypeOK
<1>3. /\ numPartitions \in Nat \ {0} /\ numPartitions <= MaxPartitions
      /\ begun \in Nat /\ begun <= MaxPartitions
      /\ \A p \in 0..(MaxPartitions - 1) : tally[p] \in Nat
      /\ 0..(numPartitions - 1) \subseteq 0..(MaxPartitions - 1)
  BY PartitionerConstants DEF PartitionerTypeOK
<1> QED
  BY <1>1, <1>2, <1>3

-----------------------------------------------------------------------------
(* The partitioner: its steps *)

LEMMA PartitionerInitInv ==
  PartitionerInit => PartitionerInv
<1> SUFFICES ASSUME PartitionerInit
             PROVE  PartitionerInv
  OBVIOUS
<1>1. strategy.name \in {"random", "round_robin", "hash", "fields"} /\ strategy.group \in Nat \ {0}
  BY StrategyFacts DEF PartitionerInit
<1>2. start \in 0..MaxInt32 /\ (start > 0 => strategy.name = "round_robin")
  BY PartitionerConstants DEF PartitionerInit
<1>3. sum32 \in [Keys -> HashValues \cup {0}]
  BY DEF PartitionerInit, Hashing
<1>4. tally \in [0..(MaxPartitions - 1) -> Nat] /\ \A p \in 0..(MaxPartitions - 1) : tally[p] = 0
  BY DEF PartitionerInit, NoTally
<1>5. PartitionerTypeOK
  BY <1>1, <1>2, <1>3, <1>4, PartitionerConstants DEF PartitionerInit, PartitionerTypeOK
<1>6. GroupInv
  BY <1>2, <1>5, PartitionerNumbers DEF PartitionerInit, GroupInv
<1>7. HashInv
  BY DEF PartitionerInit, HashInv
<1>8. RoundInv
  BY <1>1, <1>4, <1>5, PartitionerNumbers DEF PartitionerInit, RoundInv
<1>9. PartitionExists
  BY DEF PartitionerInit, PartitionExists
<1> QED
  BY <1>5, <1>6, <1>7, <1>8, <1>9 DEF PartitionerInv

\* A round in which nothing has been sent.
LEMMA EmptyRound ==
  ASSUME PartitionerTypeOK, tally = NoTally
  PROVE  RoundInv
<1>1. \A p \in 0..(numPartitions - 1) : tally[p] = 0
  BY PartitionerNumbers DEF NoTally
<1> QED
  BY <1>1, PartitionerNumbers DEF RoundInv

LEMMA EmptyRoundNext == PartitionerTypeOK' /\ (tally = NoTally)' => RoundInv'
BY EmptyRound, PTL

LEMMA RepartitionKeeps ==
  ASSUME PartitionerInv, Repartition
  PROVE  PartitionerInv'
<1>1. /\ numPartitions' \in 1..MaxPartitions
      /\ strategy.reachable \/ numPartitions' > numPartitions
      /\ tally' = NoTally
      /\ UNCHANGED <<config, groupVars, partitions, msg, answer, placed>>
  BY DEF Repartition
<1>2. NoTally \in [0..(MaxPartitions - 1) -> Nat] /\ NoTally' = NoTally
  BY DEF NoTally
<1>3. PartitionerTypeOK'
  BY <1>1, <1>2 DEF PartitionerInv, PartitionerTypeOK, config, groupVars, Strategies
<1>4. GroupInv'
  BY <1>1, PartitionerNumbers, PartitionerConstants
  DEF PartitionerInv, GroupInv, config, groupVars
<1>5. HashInv'
  BY <1>1 DEF PartitionerInv, HashInv, config, Hashing, Hash2Partition
<1>6. RoundInv'
  BY <1>1, <1>2, <1>3, EmptyRoundNext
<1>7. PartitionExists'
  BY <1>1 DEF PartitionerInv, PartitionExists, config, groupVars
<1> QED
  BY <1>3, <1>4, <1>5, <1>6, <1>7 DEF PartitionerInv

\* Steps that leave the groups and the counts of messages alone.
LEMMA SameRound ==
  ASSUME PartitionerInv, UNCHANGED <<config, groupVars, numPartitions, tally>>
  PROVE  GroupInv' /\ RoundInv'
<1>1. GroupInv'
  BY DEF PartitionerInv, GroupInv, config, groupVars
<1>2. RoundInv'
  BY DEF PartitionerInv, RoundInv, Sooner, NoTally, config, groupVars
<1> QED
  BY <1>1, <1>2

LEMMA GetEventMessageKeeps ==
  ASSUME PartitionerInv, NEW k \in Keys \cup {Nil}, GetEventMessage(k)
  PROVE  PartitionerInv'
<1>1. /\ msg' = [key |-> k, hash |-> 0, partition |-> -1]
      /\ UNCHANGED <<config, groupVars, partitions, numPartitions, history>>
  BY DEF GetEventMessage
<1>2. PartitionerTypeOK'
  <2>1. -1 \in (-MaxInt32 - 1)..MaxInt32
    BY PartitionerConstants
  <2>2. msg' \in [key : Keys \cup {Nil}, hash : HashValues \cup {0},
                 partition : (-MaxInt32 - 1)..MaxInt32]
    BY <1>1, <2>1
  <2> QED
    BY <1>1, <2>2 DEF PartitionerInv, PartitionerTypeOK, config, groupVars, history, Strategies
<1>3. HashInv'
  BY <1>1 DEF PartitionerInv, HashInv, config, history, Hashing, Hash2Partition
<1>4. PartitionExists'
  BY <1>1 DEF PartitionerInv, PartitionExists, config, groupVars, history
<1> QED
  BY <1>1, <1>2, <1>3, <1>4, SameRound DEF PartitionerInv, history

\* An answer that is one of the partitions there are.
LEMMA GoodAnswer ==
  ASSUME PartitionerInv, NEW p \in 0..(numPartitions - 1), Return(p)
  PROVE  /\ answer' \in [partition : (-MaxInt32 - 1)..MaxInt32, of : 0..MaxPartitions]
         /\ PartitionExists'
<1>1. numPartitions \in 1..MaxPartitions /\ p \in Nat /\ p < numPartitions
  BY PartitionerNumbers DEF PartitionerInv, PartitionerTypeOK
<1>2. answer' = [partition |-> p, of |-> numPartitions]
  BY DEF Return
<1>3. answer'.partition = p /\ answer'.of = numPartitions
  BY <1>2
<1>4. p \in (-MaxInt32 - 1)..MaxInt32 /\ numPartitions \in 0..MaxPartitions
  BY <1>1, PartitionerConstants
<1> QED
  BY <1>1, <1>2, <1>3, <1>4 DEF PartitionExists

LEMMA ReuseKeeps ==
  ASSUME PartitionerInv, Reuse
  PROVE  PartitionerInv'
<1>1. /\ msg.partition \in 0..(numPartitions - 1)
      /\ Return(msg.partition)
      /\ UNCHANGED <<config, groupVars, partitions, numPartitions, msg, tally, placed>>
  BY DEF Reuse, Settled
<1>2. PartitionerTypeOK'
  BY <1>1, GoodAnswer
  DEF PartitionerInv, PartitionerTypeOK, config, groupVars, Strategies
<1>3. HashInv'
  BY <1>1 DEF PartitionerInv, HashInv, config, Hashing, Hash2Partition
<1> QED
  BY <1>1, <1>2, <1>3, SameRound, GoodAnswer DEF PartitionerInv

LEMMA HashingFailsKeeps ==
  ASSUME PartitionerInv, HashingFails
  PROVE  PartitionerInv'
<1>1. /\ 0 \in 0..(numPartitions - 1)
      /\ Return(0)
      /\ UNCHANGED <<config, groupVars, partitions, numPartitions, msg, tally, placed>>
  BY PartitionerNumbers DEF PartitionerInv, HashingFails
<1>2. PartitionerTypeOK'
  BY <1>1, GoodAnswer
  DEF PartitionerInv, PartitionerTypeOK, config, groupVars, Strategies
<1>3. HashInv'
  BY <1>1 DEF PartitionerInv, HashInv, config, Hashing, Hash2Partition
<1> QED
  BY <1>1, <1>2, <1>3, SameRound, GoodAnswer DEF PartitionerInv

\* A message is given one of the partitions there are, and keeps its hash or
\* gets that of its key; keys go where their hash says.
LEMMA AssignKeeps ==
  ASSUME PartitionerInv, NEW p \in 0..(numPartitions - 1), NEW h \in HashValues \cup {0},
         Assign(p, h),
         Hashing /\ msg.key # Nil => h \in {0, sum32[msg.key]},
         UNCHANGED <<config, groupVars, numPartitions, tally>>,
         placed' \in [Keys -> [1..MaxPartitions -> Int]],
         \A k \in Keys : \A n \in 1..MaxPartitions :
           placed'[k][n] # -1 => placed'[k][n] = Hash2Partition(sum32[k], n)
  PROVE  PartitionerInv'
<1>1. msg' = [msg EXCEPT !.partition = p, !.hash = h] /\ partitions' = numPartitions /\ Return(p)
  BY DEF Assign
<1>2. p \in (-MaxInt32 - 1)..MaxInt32 /\ numPartitions \in 0..MaxPartitions
  BY PartitionerNumbers, PartitionerConstants DEF PartitionerInv
<1>3. /\ msg' \in [key : Keys \cup {Nil}, hash : HashValues \cup {0},
                   partition : (-MaxInt32 - 1)..MaxInt32]
      /\ msg'.key = msg.key /\ msg'.hash = h
  BY <1>1, <1>2 DEF PartitionerInv, PartitionerTypeOK
<1>4. PartitionerTypeOK'
  BY <1>1, <1>2, <1>3, GoodAnswer
  DEF PartitionerInv, PartitionerTypeOK, config, groupVars, Strategies
<1>5. HashInv'
  BY <1>3 DEF HashInv, config, Hashing, Hash2Partition
<1> QED
  BY <1>1, <1>4, <1>5, SameRound, GoodAnswer DEF PartitionerInv
LEMMA ByHashKeeps ==
  ASSUME PartitionerInv, PartitionByHash
  PROVE  PartitionerInv'
<1>1. PICK k, h, p : /\ k = msg.key
                     /\ h = HashOf(msg.key)
                     /\ p = Hash2Partition(HashOf(msg.key), numPartitions)
  OBVIOUS
<1>2. /\ Hashing
      /\ msg.key # Nil
      /\ Assign(p, h)
      /\ placed' = [placed EXCEPT ![k][numPartitions] = p]
      /\ UNCHANGED <<config, groupVars, numPartitions, tally>>
  BY <1>1 DEF PartitionByHash, Hashing, HashFieldValue
<1>3. k \in Keys /\ sum32[k] \in HashValues \cup {0} /\ numPartitions \in 1..MaxPartitions
  BY <1>1, <1>2 DEF PartitionerInv, PartitionerTypeOK
<1>4. h = sum32[k]
  BY <1>1, <1>2 DEF HashOf, PartitionerInv, HashInv
<1>5. h \in Nat
  BY <1>3, <1>4, PartitionerConstants
<1>6. p \in 0..(numPartitions - 1) /\ p = Hash2Partition(sum32[k], numPartitions)
  BY <1>1, <1>3, <1>4, <1>5, HashInRange
<1>7. placed' \in [Keys -> [1..MaxPartitions -> Int]]
  BY <1>2, <1>3, <1>6 DEF PartitionerInv, PartitionerTypeOK
<1>8. \A l \in Keys : \A n \in 1..MaxPartitions :
        placed'[l][n] = IF l = k /\ n = numPartitions THEN p ELSE placed[l][n]
  BY <1>2, <1>3 DEF PartitionerInv, PartitionerTypeOK
<1>9. \A l \in Keys : \A n \in 1..MaxPartitions :
        placed'[l][n] # -1 => placed'[l][n] = Hash2Partition(sum32[l], n)
  BY <1>6, <1>8 DEF PartitionerInv, HashInv
<1> QED
  BY <1>1, <1>2, <1>3, <1>4, <1>6, <1>7, <1>9, AssignKeeps

LEMMA WithoutKeyKeeps ==
  ASSUME PartitionerInv, PartitionWithoutKey
  PROVE  PartitionerInv'
<1>1. PICK p \in 0..(numPartitions - 1) : Assign(p, msg.hash)
  BY DEF PartitionWithoutKey
<1>2. PICK h : h = msg.hash
  OBVIOUS
<1>3. /\ msg.key = Nil
      /\ h \in HashValues \cup {0}
      /\ placed' = placed
      /\ UNCHANGED <<config, groupVars, numPartitions, tally>>
  BY <1>2 DEF PartitionWithoutKey, PartitionerInv, PartitionerTypeOK
<1> QED
  BY <1>1, <1>2, <1>3, AssignKeeps DEF PartitionerInv, PartitionerTypeOK, HashInv

LEMMA WithoutFieldKeeps ==
  ASSUME PartitionerInv, PartitionWithoutField
  PROVE  PartitionerInv'
<1>1. PICK h \in IF msg.hash = 0 THEN HashValues ELSE {msg.hash} :
        Assign(Hash2Partition(h, numPartitions), h)
  BY DEF PartitionWithoutField
<1>2. PICK p : p = Hash2Partition(h, numPartitions)
  OBVIOUS
<1>3. /\ msg.key = Nil
      /\ h \in HashValues \cup {0}
      /\ numPartitions \in 1..MaxPartitions
      /\ placed' = placed
      /\ UNCHANGED <<config, groupVars, numPartitions, tally>>
  BY <1>1 DEF PartitionWithoutField, HashFieldValue, PartitionerInv, PartitionerTypeOK
<1>4. p \in 0..(numPartitions - 1)
  BY <1>2, <1>3, HashInRange, PartitionerConstants
<1> QED
  BY <1>1, <1>2, <1>3, <1>4, AssignKeeps DEF PartitionerInv, PartitionerTypeOK, HashInv

\* The next message of a group, or of the next one: what becomes of the group.
LEMMA GroupStep ==
  ASSUME PartitionerInv, PartitionByGroup
  PROVE  /\ strategy.name \in {"random", "round_robin"}
         /\ UNCHANGED <<config, numPartitions, placed>>
         /\ \/ /\ count = strategy.group
               /\ count' = 1
               /\ begun' = numPartitions
               /\ partition' \in (-MaxInt32 - 1)..MaxInt32
               /\ partition' < numPartitions
            \/ /\ count # strategy.group
               /\ count' = count + 1
               /\ begun' = begun
               /\ partition' = partition
         /\ strategy.name = "random" /\ count = strategy.group => partition' >= 0
         /\ strategy.name = "round_robin" /\ count = strategy.group =>
              partition' = IF partition = MaxInt32 THEN -MaxInt32 - 1
                           ELSE IF partition + 1 >= numPartitions THEN 0 ELSE partition + 1
<1>1. UNCHANGED <<config, numPartitions, placed>> /\ NextOfGroup
  BY DEF PartitionByGroup, Random, RoundRobin
<1>2. CASE strategy.name = "random" /\ Random
  BY <1>1, <1>2, PartitionerNumbers, PartitionerConstants
  DEF PartitionerInv, Random, NextOfGroup
<1>3. CASE strategy.name = "round_robin" /\ RoundRobin
  <2>1. PICK next : next = Int32(partition + 1)
    OBVIOUS
  <2>2. next = IF partition = MaxInt32 THEN -MaxInt32 - 1 ELSE partition + 1
    BY <2>1, NextInt32 DEF PartitionerInv, PartitionerTypeOK
  <2>3. partition' = IF count # strategy.group THEN partition
                     ELSE IF next >= numPartitions THEN 0 ELSE next
    BY <1>3, <2>1 DEF RoundRobin
  <2> QED
    BY <1>1, <1>3, <2>2, <2>3, PartitionerNumbers, PartitionerConstants
    DEF PartitionerInv, NextOfGroup
<1> QED
  BY <1>2, <1>3 DEF PartitionByGroup
\* The messages counted after that.
LEMMA TallyStep ==
  ASSUME PartitionerInv, PartitionByGroup
  PROVE  /\ tally' \in [0..(MaxPartitions - 1) -> Nat]
         /\ strategy.name # "round_robin" => tally' = tally
         /\ strategy.name = "round_robin" =>
              \A p \in 0..(MaxPartitions - 1) :
                tally'[p] = IF p = partition' THEN tally[p] + 1 ELSE tally[p]
<1>1. PICK new : new = partition'
  OBVIOUS
<1>2. tally' = IF strategy.name = "round_robin" /\ new \in DOMAIN tally
                 THEN [tally EXCEPT ![new] = @ + 1] ELSE tally
  BY <1>1 DEF PartitionByGroup
<1>3. tally \in [0..(MaxPartitions - 1) -> Nat]
  BY DEF PartitionerInv, PartitionerTypeOK
<1> QED
  BY <1>1, <1>2, <1>3

\* The order in which round robin comes to the partitions, once more: the one
\* it comes to next is before all others, and the one it leaves after them.
LEMMA RoundStep ==
  ASSUME PartitionerInv, PartitionByGroup, strategy.name = "round_robin",
         count = strategy.group, partition \in 0..(numPartitions - 1),
         NEW p \in 0..(numPartitions - 1), p # partition'
  PROVE  /\ tally[partition'] <= tally[p]
         /\ tally[p] <= tally[partition'] + strategy.group
         /\ \A q \in (0..(numPartitions - 1)) \ {partition'} :
              Sooner(p, q)' => tally[p] <= tally[q] /\ tally[q] <= tally[p] + strategy.group
<1>1. PICK next : next = partition'
  OBVIOUS
<1>2. /\ next = IF partition + 1 >= numPartitions THEN 0 ELSE partition + 1
      /\ next \in 0..(numPartitions - 1)
      /\ MaxInt32 > partition
  BY <1>1, GroupStep, PartitionerNumbers, PartitionerConstants DEF PartitionerInv
<1>3. \A q \in 0..(numPartitions - 1) : tally[q] \in Nat
  BY PartitionerNumbers DEF PartitionerInv
<1>4. \A q \in (0..(numPartitions - 1)) \ {partition} :
        /\ tally[partition] - strategy.group <= tally[q]
        /\ tally[q] <= tally[partition]
        /\ \A o \in (0..(numPartitions - 1)) \ {partition} :
             Sooner(q, o) => tally[q] <= tally[o] /\ tally[o] <= tally[q] + strategy.group
  BY <1>3, PartitionerNumbers DEF PartitionerInv, RoundInv
<1>5. /\ tally[next] <= tally[p]
      /\ tally[p] <= tally[next] + strategy.group
  <2>1. CASE p = partition
    BY <1>1, <1>2, <1>3, <1>4, <2>1, PartitionerNumbers DEF PartitionerInv
  <2>2. CASE p # partition
    <3>1. next # partition /\ Sooner(next, p)
      BY <1>1, <1>2, <2>2, PartitionerNumbers DEF PartitionerInv, Sooner
    <3> QED
      BY <1>2, <1>4, <2>2, <3>1
  <2> QED
    BY <2>1, <2>2
<1>6. ASSUME NEW q \in 0..(numPartitions - 1), q # next, Sooner(p, q)'
      PROVE  tally[p] <= tally[q] /\ tally[q] <= tally[p] + strategy.group
  <2>1. \/ p < q /\ (next < p \/ q < next)
        \/ q < next /\ next < p
    BY <1>1, <1>6 DEF Sooner
  <2>2. CASE p # partition /\ q # partition
    <3>1. Sooner(p, q)
      BY <1>1, <1>2, <1>6, <2>1, <2>2, PartitionerNumbers DEF PartitionerInv, Sooner
    <3> QED
      BY <1>4, <2>2, <3>1
  <2>3. CASE q = partition
    <3>1. p # partition
      BY <1>2, <2>1, <2>3, PartitionerNumbers DEF PartitionerInv
    <3> QED
      BY <1>3, <1>4, <2>3, <3>1, PartitionerNumbers DEF PartitionerInv
  <2>4. p # partition
    BY <1>1, <1>2, <1>6, <2>1, PartitionerNumbers DEF PartitionerInv
  <2> QED
    BY <2>2, <2>3, <2>4
<1> QED
  BY <1>1, <1>5, <1>6

LEMMA ByGroupKeepsRound ==
  ASSUME PartitionerInv, PartitionByGroup
  PROVE  RoundInv'
<1>1. strategy' = strategy /\ numPartitions' = numPartitions
  BY GroupStep DEF config
<1>2. CASE strategy.name # "round_robin"
  BY <1>1, <1>2, TallyStep DEF PartitionerInv, RoundInv, NoTally
<1>3. CASE strategy.name = "round_robin"
  <2>1. PICK new, c : new = partition' /\ c = count'
    OBVIOUS
  <2>2. \A p \in 0..(numPartitions - 1) :
          /\ tally[p] \in Nat
          /\ tally'[p] = IF p = new THEN tally[p] + 1 ELSE tally[p]
    BY <1>3, <2>1, TallyStep, PartitionerNumbers DEF PartitionerInv
  <2>3. CASE new \notin 0..(numPartitions - 1)
    <3>1. partition \notin 0..(numPartitions - 1)
      BY <1>3, <2>1, <2>3, GroupStep, PartitionerNumbers, PartitionerConstants DEF PartitionerInv
    <3>2. \A p \in 0..(numPartitions - 1) : tally[p] = 0
      BY <1>3, <3>1 DEF PartitionerInv, RoundInv
    <3> QED
      BY <1>1, <1>3, <2>1, <2>2, <2>3, <3>2 DEF RoundInv
  <2>4. CASE new \in 0..(numPartitions - 1)
    <3> SUFFICES ASSUME NEW p \in 0..(numPartitions - 1), p # new
                 PROVE  /\ tally'[new] - c <= tally'[p]
                        /\ tally'[p] <= tally'[new] - c + strategy.group
                        /\ \A q \in (0..(numPartitions - 1)) \ {new} :
                             Sooner(p, q)' => /\ tally'[p] <= tally'[q]
                                              /\ tally'[q] <= tally'[p] + strategy.group
      BY <1>1, <1>3, <2>1, <2>4 DEF RoundInv
    <3>1. tally'[new] = tally[new] + 1 /\ tally'[p] = tally[p] /\ tally[new] \in Nat /\ tally[p] \in Nat
      BY <2>2, <2>4
    <3>2. CASE count # strategy.group
      <4>1. new = partition /\ c = count + 1
        BY <2>1, <3>2, GroupStep
      <4>2. \A q : Sooner(p, q)' <=> Sooner(p, q)
        BY <2>1, <4>1 DEF Sooner
      <4>3. /\ tally[new] - count <= tally[p]
            /\ tally[p] <= tally[new] - count + strategy.group
            /\ \A q \in (0..(numPartitions - 1)) \ {new} :
                 Sooner(p, q) => tally[p] <= tally[q] /\ tally[q] <= tally[p] + strategy.group
        BY <1>3, <2>4, <4>1 DEF PartitionerInv, RoundInv
      <4>4. tally'[new] - c = tally[new] - count
        BY <3>1, <4>1, PartitionerNumbers DEF PartitionerInv
      <4> QED
        BY <2>2, <3>1, <4>2, <4>3, <4>4
    <3>3. CASE count = strategy.group /\ partition \in 0..(numPartitions - 1)
      <4>1. c = 1
        BY <2>1, <3>3, GroupStep
      <4>2. /\ tally[new] <= tally[p]
            /\ tally[p] <= tally[new] + strategy.group
            /\ \A q \in (0..(numPartitions - 1)) \ {new} :
                 Sooner(p, q)' => tally[p] <= tally[q] /\ tally[q] <= tally[p] + strategy.group
        BY <1>3, <2>1, <3>3, RoundStep
      <4>3. tally'[new] - c = tally[new]
        BY <3>1, <4>1
      <4> QED
        BY <2>2, <3>1, <4>2, <4>3
    <3>4. CASE count = strategy.group /\ partition \notin 0..(numPartitions - 1)
      <4>1. c = 1
        BY <2>1, <3>4, GroupStep
      <4>2. \A q \in 0..(numPartitions - 1) : tally[q] = 0
        BY <1>3, <3>4 DEF PartitionerInv, RoundInv
      <4>3. tally'[new] - c = 0
        BY <2>4, <3>1, <4>1, <4>2
      <4> QED
        BY <2>2, <3>1, <4>2, <4>3, PartitionerNumbers DEF PartitionerInv
    <3> QED
      BY <3>2, <3>3, <3>4
  <2> QED
    BY <2>3, <2>4
<1> QED
  BY <1>2, <1>3

LEMMA ByGroupKeeps ==
  ASSUME PartitionerInv, PartitionByGroup
  PROVE  PartitionerInv'
<1>1. PICK new, h : new = partition' /\ h = msg.hash
  OBVIOUS
<1>2. /\ msg' = [msg EXCEPT !.partition = new, !.hash = h]
      /\ partitions' = numPartitions
      /\ answer' = [partition |-> new, of |-> numPartitions]
      /\ UNCHANGED <<config, numPartitions, placed>>
  BY <1>1 DEF PartitionByGroup, Assign, Return
<1>3. new \in (-MaxInt32 - 1)..MaxInt32 /\ numPartitions \in 0..MaxPartitions
  BY <1>1, GroupStep, PartitionerNumbers DEF PartitionerInv, PartitionerTypeOK
<1>4. count' \in 1..strategy.group /\ begun' \in 0..MaxPartitions
  BY GroupStep, PartitionerNumbers DEF PartitionerInv
<1>5. /\ msg' \in [key : Keys \cup {Nil}, hash : HashValues \cup {0},
                   partition : (-MaxInt32 - 1)..MaxInt32]
      /\ msg'.key = msg.key /\ msg'.hash = msg.hash
  BY <1>1, <1>2, <1>3 DEF PartitionerInv, PartitionerTypeOK
<1>6. PartitionerTypeOK'
  BY <1>1, <1>2, <1>3, <1>4, <1>5, TallyStep DEF PartitionerInv, PartitionerTypeOK, config, Strategies
<1>7. GroupInv'
  BY <1>2, GroupStep, PartitionerNumbers, PartitionerConstants DEF PartitionerInv, GroupInv, config
<1>8. HashInv'
  BY <1>2, <1>5 DEF PartitionerInv, HashInv, config, Hashing, Hash2Partition
<1>9. PartitionExists'
  <2>1. answer'.partition = new /\ answer'.of = numPartitions
    BY <1>2
  <2>2. new < 0 => strategy.name = "round_robin" /\ start = MaxInt32
    BY <1>1, GroupStep, PartitionerNumbers, PartitionerConstants DEF PartitionerInv, GroupInv
  <2>3. new >= numPartitions => strategy.reachable /\ strategy.group > 1 /\ begun' > numPartitions
    BY <1>1, GroupStep, PartitionerNumbers, PartitionerConstants DEF PartitionerInv, GroupInv
  <2> QED
    BY <1>2, <2>1, <2>2, <2>3 DEF PartitionExists, config
<1> QED
  BY <1>6, <1>7, <1>8, <1>9, ByGroupKeepsRound DEF PartitionerInv

LEMMA PartitionerStep ==
  ASSUME PartitionerInv, [PartitionerNext]_partitionerVars
  PROVE  PartitionerInv'
<1>1. CASE UNCHANGED partitionerVars
  <2>1. UNCHANGED <<config, groupVars, partitions, numPartitions, msg, history>>
    BY <1>1 DEF partitionerVars
  <2>2. PartitionerTypeOK' /\ HashInv' /\ PartitionExists'
    BY <2>1 DEF PartitionerInv, PartitionerTypeOK, HashInv, PartitionExists, Hashing,
                Hash2Partition, Strategies, config, groupVars, history
  <2> QED
    BY <2>1, <2>2, SameRound DEF PartitionerInv, history
<1>2. CASE PartitionerNext
  BY <1>2, RepartitionKeeps, GetEventMessageKeeps, ReuseKeeps, ByGroupKeeps, ByHashKeeps,
     WithoutKeyKeeps, WithoutFieldKeeps, HashingFailsKeeps
  DEF PartitionerNext, Partition
<1> QED
  BY <1>1, <1>2

\* The partition MessagePartitioner.Partition returns exists, but for the two cases PartitionExists names,
\* for every range of an int32, number of partitions and size of groups.
THEOREM PartitionerInvariant == PartitionerSpec => []PartitionerInv
<1> QED
  BY PartitionerInitInv, PartitionerStep, PTL DEF PartitionerSpec

LEMMA RoundsAreEven ==
  PartitionerInv => RoundRobinIsEven
<1> SUFFICES ASSUME PartitionerInv,
                    NEW p \in 0..(numPartitions - 1), NEW q \in 0..(numPartitions - 1)
             PROVE  tally[p] - tally[q] <= strategy.group
  BY DEF RoundRobinIsEven
<1>1. tally[p] \in Nat /\ tally[q] \in Nat /\ strategy.group \in Nat
  BY PartitionerNumbers DEF PartitionerInv
<1>2. CASE strategy.name # "round_robin"
  <2>1. tally[p] = 0 /\ tally[q] = 0
    BY <1>2, PartitionerNumbers DEF PartitionerInv, RoundInv, NoTally
  <2> QED
    BY <1>1, <2>1
<1>3. CASE strategy.name = "round_robin" /\ partition \notin 0..(numPartitions - 1)
  <2>1. tally[p] = 0 /\ tally[q] = 0
    BY <1>3 DEF PartitionerInv, RoundInv
  <2> QED
    BY <1>1, <2>1
<1>4. CASE strategy.name = "round_robin" /\ partition \in 0..(numPartitions - 1)
  <2>1. \A o \in (0..(numPartitions - 1)) \ {partition} :
          /\ tally[partition] - count <= tally[o]
          /\ tally[o] <= tally[partition] - count + strategy.group
    BY <1>4 DEF PartitionerInv, RoundInv
  <2>2. CASE p = partition \/ q = partition \/ p = q
    BY <1>1, <2>1, <2>2, PartitionerNumbers DEF PartitionerInv
  <2>3. CASE p # partition /\ q # partition /\ p # q
    <3>1. Sooner(p, q) \/ Sooner(q, p)
      BY <1>4, <2>3, PartitionerNumbers DEF PartitionerInv, Sooner
    <3>2. \/ tally[p] <= tally[q]
          \/ tally[p] <= tally[q] + strategy.group
      BY <1>4, <2>3, <3>1 DEF PartitionerInv, RoundInv
    <3> QED
      BY <1>1, <3>2
  <2> QED
    BY <2>2, <2>3
<1> QED
  BY <1>2, <1>3, <1>4

\* cfgRoundRobinPartitioner spreads messages evenly, wherever it begins and
\* however the number of partitions has changed before.
THEOREM RoundRobinEven == PartitionerSpec => []RoundRobinIsEven
<1> QED
  BY PartitionerInvariant, RoundsAreEven, PTL

\* Messages with the same key go to the same partition, by hash2Partition of a
\* hash that is that of the key whether computed now or before.
THEOREM SameKeySamePartition == PartitionerSpec => KeysStayTogether
<1>1. ASSUME PartitionerInv, PartitionerInv', [PartitionerNext]_partitionerVars,
             NEW k \in Keys, NEW n \in 1..MaxPartitions, placed[k][n] # -1
      PROVE  placed'[k][n] = placed[k][n]
  <2>1. CASE placed' = placed
    BY <2>1
  <2>2. CASE PartitionByHash
    <3>1. PICK p : p = Hash2Partition(HashOf(msg.key), numPartitions)
      OBVIOUS
    <3>2. placed' = [placed EXCEPT ![msg.key][numPartitions] = p] /\ sum32' = sum32
      BY <2>2, <3>1 DEF PartitionByHash, config
    <3>3. placed[k][n] = Hash2Partition(sum32[k], n)
      BY <1>1 DEF PartitionerInv, HashInv
    <3>4. n \in Nat /\ MaxInt32 + 1 \in Nat \ {0}
      BY PartitionerConstants
    <3>5. placed'[k][n] # -1
      <4>1. CASE msg.key = k /\ numPartitions = n
        <5>1. p = Hash2Partition(sum32[k], n)
          BY <2>2, <3>1, <4>1, <1>1
          DEF HashOf, PartitionByHash, HashFieldValue, PartitionerInv, HashInv, Hashing
        <5> QED
          BY <1>1, <3>2, <3>3, <4>1, <5>1 DEF PartitionerInv, PartitionerTypeOK
      <4>2. CASE ~(msg.key = k /\ numPartitions = n)
        BY <1>1, <3>2, <4>2 DEF PartitionerInv, PartitionerTypeOK
      <4> QED
        BY <4>1, <4>2
    <3>6. placed'[k][n] = Hash2Partition(sum32'[k], n)
      BY <1>1, <3>5 DEF PartitionerInv, HashInv, Hash2Partition
    <3> QED
      BY <3>2, <3>3, <3>6
  <2> QED
    BY <1>1, <2>1, <2>2
    DEF PartitionerNext, Partition, Repartition, GetEventMessage, Reuse, PartitionByGroup,
        PartitionWithoutKey, PartitionWithoutField, HashingFails, partitionerVars, history
<1>2. PartitionerInv /\ PartitionerInv' /\ [PartitionerNext]_partitionerVars =>
        [\A k \in Keys : \A n \in 1..MaxPartitions :
           placed[k][n] # -1 => placed'[k][n] = placed[k][n]]_partitionerVars
  BY <1>1
<1> QED
  BY <1>2, PartitionerInvariant, PTL DEF PartitionerSpec, KeysStayTogether
=============================================================================
