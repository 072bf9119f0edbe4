----------------------- MODULE ShipperProcess_proofs -----------------------
(***************************************************************************)
(* A configured shipper, for every set of configurations, queue, size of   *)
(* batches and number of readers: its console output keeps the contract of *)
(* the queue and flushes it, the counter of full queues errs on one side   *)
(* only, what is started is what was accepted, and the two backoffs are    *)
(* the same exponential.  ConsoleInv, MonitorInv and ConfigurationInv are  *)
(* inductive, the second with the other two.                               *)
(***************************************************************************)
EXTENDS ShipperProcess, EventQueue_proofs

-----------------------------------------------------------------------------
(* The console output *)

\* The batch in hand, in numbers.
LEMMA BatchInHand ==
  ASSUME ConsoleInv
  PROVE  /\ cursor \in Nat /\ unread \in Nat /\ oldest \in Nat /\ wg \in Nat
         /\ cursor <= unread
         /\ ~InHand => Drained /\ cursor = unread
         /\ InHand => /\ Current \in DOMAIN batches /\ batches # <<>>
                      /\ batches[Current] \in WrappedBatch
                      /\ batches[Current].first \in Nat
                      /\ batches[Current].first + batches[Current].count = unread
                      /\ batches[Current].count \in Nat \ {0}
                      /\ batches[Current].doneCount = 0
                      /\ ~Drained
<1>1. cursor \in Nat /\ unread \in Nat /\ oldest \in Nat /\ wg \in Nat /\ cursor <= unread
  BY DEF ConsoleInv, LoopTypeOK, QueueTypeOK, SerialInv
<1>2. ~InHand => Drained /\ cursor = unread
  BY <1>1 DEF ConsoleInv, SerialInv, InHand
<1>3. ASSUME InHand
      PROVE  /\ Current \in DOMAIN batches /\ batches # <<>>
             /\ batches[Current] \in WrappedBatch
             /\ batches[Current].first \in Nat
             /\ batches[Current].first + batches[Current].count = unread
             /\ batches[Current].count \in Nat \ {0}
             /\ batches[Current].doneCount = 0
             /\ ~Drained
  <2>1. batches # <<>> /\ batches[Current].doneCount = 0
    BY <1>3 DEF ConsoleInv, SerialInv
  <2>2. /\ Current \in DOMAIN batches /\ batches[Current].count \in Nat \ {0}
        /\ batches[Current] \in WrappedBatch /\ batches[Current].first \in Nat
    BY <2>1, BatchFacts DEF ConsoleInv, Current
  <2>3. batches[Current].first + batches[Current].count = unread
    BY <2>1 DEF Current, ConsoleInv, QueueInv, BatchesAreContiguous
  <2>4. ~Completed(batches[Current])
    BY <2>1, <2>2 DEF Completed
  <2> QED
    BY <2>1, <2>2, <2>3, <2>4 DEF Drained
<1> QED
  BY <1>1, <1>2, <1>3

\* The steps of the console output, seen from the queue.
LEMMA StepsKeepContract ==
  ASSUME ConsoleInv, [Next]_vars
  PROVE  [QueueNext]_queueVars
<1>1. CASE Start
  <2>1. closed /\ Drained
    BY <1>1, BatchInHand DEF Start, StartLoop, ConsoleInv, SerialInv, InHand
  <2> QED
    BY <1>1, <2>1 DEF Start, StartLoop, OpenQueue, QueueNext
<1>2. CASE GetBatch(0)
  <2>1. PICK n : Get(n)
    BY <1>2 DEF GetBatch
  <2>2. n \in 1..(nextID - unread)
    BY <2>1 DEF Get
  <2> QED
    BY <2>1, <2>2 DEF OutputStep, QueueNext
<1>3. CASE Send
  <2>1. Conclude(cursor) /\ cursor < unread /\ cursor \notin concluded
    BY <1>3 DEF Send, Conclude
  <2>2. ~(cursor < oldest)
    BY <2>1, BatchInHand DEF ConsoleInv, QueueInv, PersistedIsConcluded, PersistedIndex
  <2>3. cursor \in oldest..(unread - 1)
    BY <2>1, <2>2, BatchInHand
  <2> QED
    BY <2>1, <2>3 DEF OutputStep, QueueNext
<1>4. CASE Report
  <2>0. PICK b : b = batches[Current]
    OBVIOUS
  <2>1. InHand /\ cursor = unread /\ concluded = 0..(unread - 1)
    BY <1>4 DEF Report, InHand, ConsoleInv, SerialInv
  <2>2. /\ b \in WrappedBatch /\ b.first \in Nat /\ b.count \in Nat \ {0}
        /\ b.first + b.count = unread /\ b.doneCount = 0
        /\ Current \in DOMAIN batches
    BY <2>0, <2>1, BatchInHand
  <2>3. concluded \cap Entries(b) = Entries(b)
    BY <2>1, <2>2 DEF Entries
  <2>4. Unreported(b) = b.count
    <3>1. Cardinality(Entries(b)) = b.count
      BY <2>2, EntriesCount
    <3>2. Cardinality(concluded \cap Entries(b)) = b.count
      BY <2>3, <3>1
    <3>3. b.count \in Nat /\ b.doneCount = 0
      BY <2>2
    <3> QED
      BY <3>2, <3>3 DEF Unreported
  <2>5. ReportDone(Current, b.count) /\ b.count \in 1..b.count
    BY <1>4, <2>0, <2>2, <2>4 DEF Report, ReportDone
  <2> QED
    BY <2>0, <2>2, <2>5 DEF OutputStep, QueueNext
<1>5. CASE GetFails("ended") \/ Wait \/ Acknowledges \/ Environment
  BY <1>5 DEF GetFails, Wait, Acknowledges, Environment, QueueNext
<1>6. CASE UNCHANGED vars
  BY <1>6 DEF vars
<1> QED
  BY <1>1, <1>2, <1>3, <1>4, <1>5, <1>6 DEF Next, Loop

\* What holds Wait up: nothing.
SerialPart ==
  /\ LoopTypeOK
  /\ QueueInv
  /\ SerialInv
  /\ loop \in {"run", "report", "ended"}
  /\ wg = IF loop = "ended" THEN 0 ELSE 1

LEMMA HangFollows == SerialPart => NothingHangs
<1> SUFFICES ASSUME SerialPart, wg # 0
             PROVE  LoopCanStep
  BY DEF NothingHangs
<1>1. /\ cursor \in Nat /\ unread \in Nat /\ cursor <= unread
      /\ loop \in {"run", "report"}
      /\ QueueInv
  BY DEF SerialPart, LoopTypeOK, QueueTypeOK, SerialInv
<1>2. CASE loop = "run" /\ cursor # unread
  <2>1. cursor < unread /\ InHand
    BY <1>1, <1>2 DEF InHand
  <2>2. cursor \notin concluded /\ batches # <<>> /\ batches[Current].first <= cursor
    BY <1>1, <2>1 DEF SerialPart, SerialInv
  <2>3. /\ Current \in DOMAIN batches
        /\ batches[Current].first + batches[Current].count = unread
        /\ batches[Current].first \in Nat /\ batches[Current].count \in Nat
    BY <1>1, <2>2, BatchFacts DEF Current, QueueInv, BatchesAreContiguous
  <2>4. cursor \in Entries(batches[Current])
    BY <1>1, <2>1, <2>2, <2>3 DEF Entries
  <2> QED
    BY <1>2, <2>2, <2>3, <2>4 DEF LoopCanStep
<1> QED
  BY <1>1, <1>2 DEF LoopCanStep

LEMMA HangFollowsNext == SerialPart' => NothingHangs'
BY HangFollows, PTL

\* The inductive invariant of the console output.
LEMMA ConsoleKept ==
  ASSUME ConsoleInv, [Next]_vars
  PROVE  ConsoleInv'
<1>1. QueueInv' /\ QueueTypeOK' /\ unread' \in Nat
  BY StepsKeepContract, StepKeeps DEF ConsoleInv, QueueInv, QueueTypeOK
<1>2. waited' \in BOOLEAN
  BY Zenon DEF ConsoleInv, LoopTypeOK, Next, Loop, Start, StartLoop, GetBatch, Send, Report, GetFails,
     Wait, Acknowledges, Environment, vars, loopVars
<1> DEFINE Kept == /\ cursor' \in Nat
                   /\ loop' \in {"run", "report", "ended"}
                   /\ wg' = IF loop' = "ended" THEN 0 ELSE 1
                   /\ SerialInv'
<1> SUFFICES Kept
  BY <1>1, <1>2, HangFollowsNext DEF ConsoleInv, SerialPart, LoopTypeOK
<1> USE BatchInHand DEF ConsoleInv
<1>3. CASE Start
  BY <1>3 DEF Start, StartLoop, New, OnlyLastOpen, Drained, SerialInv, InHand, Current
<1>4. CASE GetBatch(0)
  <2>1. PICK n : Get(n)
    BY <1>4 DEF GetBatch
  <2>2. /\ Drained /\ cursor = unread /\ loop = "run" /\ OnlyLastOpen /\ concluded = 0..(cursor - 1)
        /\ UNCHANGED <<loop, cursor, waited, concluded, closed, wg>>
        /\ waited => loop = "ended"
    BY <1>4, <2>1 DEF GetBatch, Get, SerialInv, InHand
  <2>3. /\ OnlyLastOpen'
        /\ unread' > cursor
        /\ batches' # <<>>
        /\ batches'[Len(batches')].doneCount = 0
        /\ batches'[Len(batches')].first = cursor
    BY <2>1, <2>2, GetBatches, SerialGet
  <2> QED
    BY <1>1, <2>2, <2>3 DEF SerialInv, InHand, Current
<1>5. CASE Send
  <2>1. /\ cursor < unread /\ cursor' = cursor + 1 /\ loop = "run"
        /\ concluded' = concluded \cup {cursor} /\ concluded = 0..(cursor - 1)
        /\ UNCHANGED <<closed, unread, batches, waited, wg>>
        /\ loop' = IF cursor' = unread THEN "report" ELSE "run"
        /\ waited => loop = "ended"
    BY <1>5 DEF Send, Conclude, SerialInv
  <2>2. concluded' = 0..(cursor' - 1) /\ cursor' \in Nat /\ cursor' <= unread'
    BY <2>1
  <2>3. OnlyLastOpen' /\ InHand' /\ InHand /\ Current' = Current
    BY <2>1, <2>2 DEF OnlyLastOpen, SerialInv, InHand, Current
  <2>4. batches[Current].first <= cursor /\ batches[Current].first \in Nat
    BY <2>3 DEF SerialInv
  <2>5. batches'[Current'].first <= cursor'
    BY <2>1, <2>3, <2>4
  <2> QED
    BY <2>1, <2>2, <2>3, <2>5 DEF SerialInv
<1>6. CASE Report
  <2>1. /\ batches # <<>> /\ cursor = unread /\ OnlyLastOpen
        /\ Done(Len(batches), batches[Len(batches)].count)
        /\ loop' = "run" /\ UNCHANGED <<cursor, wg, waited, unread, concluded, closed>>
        /\ loop = "report" /\ ~waited
    BY <1>6 DEF Report, SerialInv, InHand, Current, Done
  <2>2. OnlyLastOpen' /\ Drained'
    BY <2>1, SerialDone
  <2>3. ~InHand' /\ concluded' = 0..(cursor' - 1)
    BY <2>1 DEF InHand, SerialInv
  <2> QED
    BY <2>1, <2>2, <2>3 DEF SerialInv
<1>7. CASE GetFails("ended") \/ Wait \/ Environment \/ UNCHANGED vars
  <2>1. /\ UNCHANGED <<unread, cursor, batches, concluded>>
        /\ closed => closed'
        /\ \/ UNCHANGED <<loop, wg>> /\ (waited' => waited \/ wg = 0)
           \/ /\ loop = "run" /\ cursor = unread /\ closed
              /\ loop' = "ended" /\ wg' = wg - 1 /\ waited' = waited
    BY <1>7 DEF GetFails, Wait, Environment, Publish, Enqueue, CloseQueue, Close, vars, queueVars, loopVars
  <2>2. Current' = Current /\ OnlyLastOpen' = OnlyLastOpen /\ Drained' = Drained
    BY <2>1 DEF Current, OnlyLastOpen, Drained
  <2>3. InHand' = InHand
    BY <2>1 DEF InHand
  <2> QED
    BY <2>1, <2>2, <2>3 DEF SerialInv
<1>8. CASE Acknowledges
  <2>1. Acknowledge /\ UNCHANGED <<unread, cursor, concluded, closed, loop, wg, waited>>
    BY <1>8 DEF Acknowledges, Acknowledge, loopVars
  <2>2. /\ OnlyLastOpen'
        /\ Drained => Drained'
        /\ ~Drained => /\ batches' # <<>>
                       /\ batches'[Len(batches')] = batches[Len(batches)]
    BY <2>1, SerialAcknowledge DEF SerialInv
  <2>3. InHand' = InHand
    BY <2>1 DEF InHand
  <2> QED
    BY <2>1, <2>2, <2>3 DEF SerialInv, Current
<1> QED
  BY <1>3, <1>4, <1>5, <1>6, <1>7, <1>8 DEF Next, Loop

-----------------------------------------------------------------------------
(* The configuration *)

\* The output that is chosen is one of those there are.
LEMMA OutputFound ==
  ASSUME NEW r
  PROVE  /\ Output(r) # NoOutput => Output(r) \in Outputs(r)
         /\ Output(r) = "kafka" => "kafka" \in Outputs(r)
         /\ (r.source = "unit" /\ r.sections = {} /\ Output(r) # NoOutput) => Output(r) = r.type
BY DEF Output, NoOutput, Outputs

\* A valid configuration panics in the ways that are known.
LEMMA PanicsKnown ==
  ASSUME NEW r, Accepted(r), StartOutcome(r) = "panicked"
  PROVE  \/ r.disk.maxRetry # 0 /\ r.disk.retry = 0
         \/ Output(r) = "kafka" /\ (r.enabled => r.faults \cap KafkaUnchecked # {})
<1>1. DiskSettingsPanic(r) \/ KafkaStartPanics(r)
  BY DEF StartOutcome
<1>2. CASE DiskSettingsPanic(r)
  BY <1>2 DEF DiskSettingsPanic
<1>3. CASE KafkaStartPanics(r)
  <2>1. Output(r) = "kafka"
    BY <1>3 DEF KafkaStartPanics
  <2>2. PICK f : f \in r.faults /\ f \in (KafkaChecked \ {"hosts"}) \cup KafkaUnchecked
    BY <1>3 DEF KafkaStartPanics, BuildTopicSelectorFails, NewSaramaConfigFails,
       KafkaChecked, KafkaUnchecked
  <2>3. r.enabled => f \notin KafkaChecked
    BY <2>1, <2>2, OutputFound DEF Accepted, KafkaValid
  <2> QED
    BY <2>1, <2>2, <2>3
<1> QED
  BY <1>1, <1>2, <1>3

\* The settings made of a valid disk configuration fit together.
LEMMA SettingsFit ==
  ASSUME NEW r \in Raw, Accepted(r), StartOutcome(r) = "started", UseDiskQueue(r)
  PROVE  LET s == DiskSettings(r.disk) IN
         /\ s.max # 0 => 2 * s.segment <= s.max
         /\ s.retry > s.maxRetry => r.disk.maxRetry = 0
<1>0. PICK d : d = r.disk
  OBVIOUS
<1>1. /\ d.max \in Nat /\ d.segment \in Nat /\ d.retry \in Nat /\ d.maxRetry \in Nat
      /\ DiskValid(d)
  BY <1>0 DEF Raw, DiskConfig, UseDiskQueue, Accepted
<1>2. ~(d.maxRetry # 0 /\ d.retry = 0)
  BY <1>0 DEF StartOutcome, DiskSettingsPanic
<1>3. ASSUME d.max # 0
      PROVE  2 * DiskSettings(d).segment <= d.max
  <2>1. CASE d.segment # 0
    BY <1>1, <1>3, <2>1 DEF DiskSettings, DiskValid
  <2>2. CASE d.segment = 0
    <3>1. 2 * (d.max \div 10) <= d.max
      BY <1>1
    <3> QED
      BY <2>2, <3>1 DEF DiskSettings
  <2> QED
    BY <2>1, <2>2
<1>4. ASSUME d.maxRetry # 0
      PROVE  DiskSettings(d).retry = DiskSettings(d).maxRetry /\ DiskSettings(d).retry \in Nat
  BY <1>1, <1>2, <1>4 DEF DiskSettings
<1>5. DiskSettings(d).retry > DiskSettings(d).maxRetry => d.maxRetry = 0
  BY <1>4
<1> QED
  BY <1>0, <1>3, <1>5 DEF DiskSettings

\* What is started has an output.
LEMMA StartedHasOutput ==
  ASSUME NEW r, StartOutcome(r) = "started"
  PROVE  Output(r) # NoOutput
BY DEF StartOutcome

\* How a configuration may change its stage, in any step of the process.
LEMMA ConfigSteps ==
  ASSUME [ProcessNext]_processVars
  PROVE  ReadConfig \/ Reconfigure \/ StartConfigured \/ RetryRequest \/ UNCHANGED configVars
BY DEF ProcessNext, Load, StartConsole, StartOther, Pipeline, CloseOutput, Restart, Monitoring,
   Retries, processVars

LEMMA StageKept ==
  ASSUME ConfigurationInv, [ProcessNext]_processVars
  PROVE  ConfigTypeOK' /\ StageInv'
<1> USE DEF ConfigurationInv, ConfigTypeOK, StageInv
<1>0. \A r : StartOutcome(r) \in {"started", "failed", "panicked"}
  BY DEF StartOutcome
<1>1. CASE ReadConfig
  BY <1>1 DEF ReadConfig, Stages
<1>2. CASE Reconfigure
  BY <1>2, ConfigurationAssumption DEF Reconfigure, Stages
<1>3. CASE StartConfigured
  BY <1>0, <1>3 DEF StartConfigured, Stages
<1>4. CASE RetryRequest
  BY <1>4, ConfigurationAssumption DEF RetryRequest
<1>5. CASE UNCHANGED configVars
  BY <1>5 DEF configVars
<1> QED
  BY <1>1, <1>2, <1>3, <1>4, <1>5, ConfigSteps

\* What the stage says implies the rest.
LEMMA StageSays ==
  ConfigTypeOK /\ StageInv => PanicsAreKnown /\ DiskSettingsFit /\ UnitGetsItsOutput
<1> SUFFICES ASSUME ConfigTypeOK, StageInv
             PROVE  PanicsAreKnown /\ DiskSettingsFit /\ UnitGetsItsOutput
  OBVIOUS
<1>1. PanicsAreKnown
  BY PanicsKnown DEF PanicsAreKnown, StageInv
<1>2. DiskSettingsFit
  BY SettingsFit DEF DiskSettingsFit, ConfigTypeOK, StageInv
<1>3. UnitGetsItsOutput
  BY StartedHasOutput, OutputFound DEF UnitGetsItsOutput, StageInv
<1> QED
  BY <1>1, <1>2, <1>3

LEMMA StageSaysNext ==
  (ConfigTypeOK /\ StageInv)' => (PanicsAreKnown /\ DiskSettingsFit /\ UnitGetsItsOutput)'
BY StageSays, PTL

\* What a validated configuration leads to: it starts or fails with an error,
\* but for the panics that are known; disk settings fit together; and a unit
\* gets the output of its type.
THEOREM ConfigurationInvariant == ProcessSpec => []ConfigurationInv
<1>1. ProcessInit => ConfigurationInv
  <2> SUFFICES ASSUME ProcessInit
               PROVE  ConfigurationInv
    OBVIOUS
  <2>1. ConfigTypeOK /\ StageInv
    BY ConfigurationAssumption DEF ProcessInit, ConfigInit, ConfigTypeOK, StageInv, Stages
  <2> QED
    BY <2>1, StageSays DEF ConfigurationInv
<1>2. ConfigurationInv /\ [ProcessNext]_processVars => ConfigurationInv'
  BY StageKept, StageSaysNext DEF ConfigurationInv
<1> QED
  BY <1>1, <1>2, PTL DEF ProcessSpec

-----------------------------------------------------------------------------
(* The pauses between retries *)

\* One more element doubles the number of subsets.
LEMMA TwiceTheSubsets ==
  ASSUME NEW S, IsFiniteSet(S), NEW x, x \notin S
  PROVE  /\ Cardinality(SUBSET S) \in Nat
         /\ Cardinality(SUBSET (S \cup {x})) = 2 * Cardinality(SUBSET S)
<1> DEFINE Without == SUBSET S
           With == {A \cup {x} : A \in Without}
           All == SUBSET (S \cup {x})
           f == [A \in Without |-> A \cup {x}]
<1>1. IsFiniteSet(Without) /\ Cardinality(Without) \in Nat
  BY FS_SUBSET, FS_CardinalityType
<1>2. All = Without \cup With
  <2>1. ASSUME NEW A \in All, A \notin Without
        PROVE  A \in With
    <3>1. A \ {x} \in Without
      OBVIOUS
    <3>2. A = (A \ {x}) \cup {x}
      BY <2>1, Zenon
    <3> QED
      BY <3>1, <3>2
  <2>2. ASSUME NEW A \in With
        PROVE  A \in All
    OBVIOUS
  <2>3. ASSUME NEW A \in Without
        PROVE  A \in All
    OBVIOUS
  <2> HIDE DEF Without, With, All
  <2> QED
    BY <2>1, <2>2, <2>3
<1>3. Without \cap With = {}
  <2>1. ASSUME NEW A \in With
        PROVE  x \in A
    OBVIOUS
  <2>2. ASSUME NEW A \in Without
        PROVE  x \notin A
    OBVIOUS
  <2> HIDE DEF Without, With
  <2> QED
    BY <2>1, <2>2
<1>4. f \in Bijection(Without, With)
  <2>1. f \in [Without -> With]
    OBVIOUS
  <2>2. ASSUME NEW A \in Without, NEW B \in Without, f[A] = f[B]
        PROVE  A = B
    <3>1. A \cup {x} = B \cup {x}
      BY <2>2
    <3>2. x \notin A /\ x \notin B
      OBVIOUS
    <3> HIDE DEF f, With, Without
    <3> QED
      BY <3>1, <3>2
  <2>3. \A W \in With : \E A \in Without : f[A] = W
    OBVIOUS
  <2> HIDE DEF f, With, Without
  <2>4. f \in Injection(Without, With)
    BY <2>1, <2>2 DEF Injection, IsInjective
  <2>5. f \in Surjection(Without, With)
    BY <2>1, <2>3 DEF Surjection
  <2> QED
    BY <2>4, <2>5 DEF Bijection
<1> HIDE DEF Without, With, All, f
<1>5. IsFiniteSet(With) /\ Cardinality(With) = Cardinality(Without)
  <2>1. ExistsBijection(Without, With)
    BY <1>4 DEF ExistsBijection
  <2> QED
    BY <2>1, <1>1, FS_Bijection
<1>6. Cardinality(All) = Cardinality(Without) + Cardinality(With) - Cardinality({})
  BY <1>1, <1>2, <1>3, <1>5, FS_Union
<1>7. Cardinality({}) = 0
  BY FS_EmptySet
<1>8. Cardinality(All) = 2 * Cardinality(Without)
  BY <1>1, <1>5, <1>6, <1>7
<1> QED
  BY <1>1, <1>8 DEF Without, All

\* The powers of two, which no backend knows: the number of subsets of 1..n.
LEMMA Powers ==
  /\ 2^0 = 1
  /\ \A n \in Nat : 2^n \in Nat /\ 2^(n + 1) = 2 * 2^n
<1>1. ASSUME NEW n \in Nat
      PROVE  2^n \in Nat /\ 2^(n + 1) = 2 * 2^n
  <2>1. IsFiniteSet(1..n) /\ Cardinality(1..n) = n
    BY FS_Interval
  <2>2. IsFiniteSet(1..(n + 1)) /\ Cardinality(1..(n + 1)) = n + 1
    BY FS_Interval
  <2>3. 1..(n + 1) = (1..n) \cup {n + 1} /\ n + 1 \notin 1..n
    OBVIOUS
  <2>4. Cardinality(SUBSET (1..n)) = 2^n /\ Cardinality(SUBSET (1..(n + 1))) = 2^(n + 1)
    BY <2>1, <2>2, FS_SUBSET
  <2>5. /\ Cardinality(SUBSET (1..n)) \in Nat
        /\ Cardinality(SUBSET ((1..n) \cup {n + 1})) = 2 * Cardinality(SUBSET (1..n))
    BY <2>1, <2>3, TwiceTheSubsets
  <2> QED
    BY <2>3, <2>4, <2>5
<1> QED
  BY <1>1

\* A set of numbers has a least one.
LEMMA Least ==
  ASSUME NEW S \in SUBSET Nat, S # {}
  PROVE  \E m \in S : \A k \in S : m <= k
<1>1. PICK m \in S : \A k \in S : ~ (<<k, m>> \in OpToRel(<, Nat))
  BY NatLessThanWellFounded, WFMin
<1>2. ASSUME NEW k \in S
      PROVE  m <= k
  <2>1. ~(k < m)
    BY <1>1 DEF OpToRel
  <2> QED
    BY <2>1
<1> QED
  BY <1>2

\* Induction, with a set in the place of a predicate.
LEMMA Induction ==
  ASSUME NEW S \in SUBSET Nat, 0 \in S, \A n \in S : n + 1 \in S
  PROVE  S = Nat
<1> SUFFICES ASSUME Nat \ S # {}
             PROVE  FALSE
  OBVIOUS
<1>1. PICK m \in Nat \ S : \A k \in Nat \ S : m <= k
  BY Least
<1>2. m - 1 \in S
  BY <1>1
<1> QED
  BY <1>1, <1>2

\* Powers exceed their exponents and grow with them.
LEMMA PowersGrow ==
  /\ \A n \in Nat : 2^n > n
  /\ \A m, n \in Nat : m <= n => 2^m <= 2^n
<1> DEFINE G == {n \in Nat : 2^n > n}
           H == {n \in Nat : \A m \in Nat : m <= n => 2^m <= 2^n}
<1>1. G = Nat
  <2>1. 0 \in G
    BY Powers
  <2>2. ASSUME NEW n \in G
        PROVE  n + 1 \in G
    <3>1. 2^n \in Nat /\ 2^n > n /\ 2^(n + 1) = 2 * 2^n
      BY Powers
    <3> QED
      BY <3>1
  <2> HIDE DEF G
  <2>3. G \in SUBSET Nat
    BY DEF G
  <2> QED
    BY <2>1, <2>2, <2>3, Induction
<1>2. H = Nat
  <2>1. 0 \in H
    <3>1. ASSUME NEW m \in Nat, m <= 0
          PROVE  2^m <= 2^0
      <4>1. m = 0
        BY <3>1
      <4> QED
        BY <4>1, Powers
    <3> QED
      BY <3>1
  <2>2. ASSUME NEW n \in H
        PROVE  n + 1 \in H
    <3>1. 2^n \in Nat /\ 2^(n + 1) = 2 * 2^n
      BY Powers
    <3>2. ASSUME NEW m \in Nat, m <= n + 1
          PROVE  2^m <= 2^(n + 1)
      <4>1. CASE m = n + 1
        BY <3>1, <4>1
      <4>2. CASE m <= n
        <5>1. 2^m \in Nat /\ 2^m <= 2^n
          BY <4>2, Powers
        <5> QED
          BY <3>1, <5>1
      <4> QED
        BY <3>2, <4>1, <4>2
    <3> QED
      BY <3>2
  <2> HIDE DEF H
  <2>3. H \in SUBSET Nat
    BY DEF H
  <2> QED
    BY <2>1, <2>2, <2>3, Induction
<1>3. ASSUME NEW n \in Nat
      PROVE  2^n > n
  <2>1. n \in G
    BY <1>1
  <2> QED
    BY <2>1
<1>4. ASSUME NEW m \in Nat, NEW n \in Nat, m <= n
      PROVE  2^m <= 2^n
  <2>1. n \in H
    BY <1>2
  <2> QED
    BY <1>4, <2>1
<1> QED
  BY <1>3, <1>4

\* Multiplication, where the provers need it.
LEMMA Multiples ==
  ASSUME NEW a \in Nat, NEW b \in Nat, NEW c \in Nat
  PROVE  a * b \in Nat /\ a * (2 * b) = 2 * (a * b) /\ (b <= c => a * b <= a * c)
OBVIOUS

\* The loop of delayTime computes min(max, init * 2^n).  Its recursive function
\* is the one function that satisfies its equation: the closed form does, and
\* another would differ from it at a least argument.
LEMMA DelayTimeIs ==
  ASSUME NEW init \in Nat, NEW max \in Nat, NEW n \in Nat, n > 0
  PROVE  DelayTime(init, max, n) = Exponential(init, max, n)
<1> DEFINE Eq(f) == f = [i \in 0..n |-> IF i = 0 THEN init
                            ELSE IF 2 * f[i - 1] >= max THEN max ELSE 2 * f[i - 1]]
           formula == [i \in 0..n |-> IF i = 0 THEN init ELSE Exponential(init, max, i)]
<1>0. ASSUME NEW i \in 1..n
      PROVE  Exponential(init, max, i) = IF 2 * formula[i - 1] >= max THEN max ELSE 2 * formula[i - 1]
  <2> DEFINE j == i - 1
  <2>1. j \in Nat /\ i = j + 1 /\ j \in 0..n
    OBVIOUS
  <2>2. 2^j \in Nat /\ 2^i = 2 * 2^j
    BY <2>1, Powers
  <2>3. PICK q \in Nat : q = init * 2^j
    BY <2>2, Multiples
  <2>4. init * 2^i = 2 * q
    BY <2>2, <2>3, Multiples
  <2>5. Exponential(init, max, i) = IF 2 * q >= max THEN max ELSE 2 * q
    BY <2>4 DEF Exponential
  <2>6. CASE j = 0
    <3>1. formula[j] = init
      BY <2>1, <2>6
    <3>2. 2^j = 1
      BY <2>6, Powers
    <3>3. q = init
      BY <2>3, <3>2
    <3> HIDE DEF formula
    <3> QED
      BY <2>5, <3>1, <3>3
  <2>7. CASE j # 0
    <3>1. formula[j] = IF q >= max THEN max ELSE q
      BY <2>1, <2>3, <2>7 DEF Exponential
    <3> HIDE DEF formula
    <3> QED
      BY <2>3, <2>5, <3>1
  <2> QED
    BY <2>6, <2>7
<1>1. Eq(formula)
  BY <1>0
<1>2. ASSUME NEW f, Eq(f), f[n] # Exponential(init, max, n)
      PROVE  FALSE
  <2> DEFINE D == {i \in 0..n : f[i] # formula[i]}
  <2>1. n \in D
    BY <1>2
  <2>2. PICK m \in D : \A k \in D : m <= k
    <3>1. D \in SUBSET Nat /\ D # {}
      BY <2>1
    <3> HIDE DEF D
    <3> QED
      BY <3>1, Least
  <2>3. m # 0
    <3>1. f[0] = init
      BY <1>2
    <3> QED
      BY <2>2, <3>1
  <2>4. m \in 1..n /\ m - 1 \in 0..n /\ m - 1 \notin D
    BY <2>2, <2>3
  <2>5. f[m - 1] = formula[m - 1]
    BY <2>4
  <2>6. f[m] = IF 2 * f[m - 1] >= max THEN max ELSE 2 * f[m - 1]
    BY <1>2, <2>4
  <2>7. formula[m] = Exponential(init, max, m)
    BY <2>4
  <2>8. f[m] = formula[m]
    BY <1>0, <2>4, <2>5, <2>6, <2>7
  <2> QED
    BY <2>2, <2>8
<1> DEFINE result == CHOOSE f : Eq(f)
<1>3. Eq(result)
  <2> HIDE DEF formula, Eq
  <2> QED
    BY <1>1 
<1>4. DelayTime(init, max, n) = result[n]
  BY DEF DelayTime
<1>5. result[n] = Exponential(init, max, n)
  <2> HIDE DEF result, Eq
  <2> QED
    BY <1>2, <1>3
<1> QED
  BY <1>4, <1>5

\* The logarithm exists, and splits the attempts into those whose pause is
\* still below the maximum and those that wait for the maximum.
LEMMA RetriesToMaximum ==
  ASSUME NEW init \in Nat, init > 0, NEW max \in Nat, NEW n \in Nat
  PROVE  (IF n < MaxBackoffRetries(init, max) THEN init * 2^n ELSE max) = Exponential(init, max, n)
<1> DEFINE Log(m) == init * 2^m >= max /\ (m = 0 \/ init * 2^(m - 1) < max)
<1>1. \E m \in 0..max : Log(m)
  <2> DEFINE S == {m \in Nat : init * 2^m >= max}
  <2>1. max \in S
    <3>1. 2^max \in Nat /\ 2^max > max
      BY Powers, PowersGrow
    <3>2. PICK p \in Nat : p = 2^max
      BY <3>1
    <3>3. init * p >= p
      BY <3>2
    <3>4. init * p \in Nat
      BY <3>2, Multiples
    <3> QED
      BY <3>1, <3>2, <3>3, <3>4
  <2>2. PICK m \in S : \A k \in S : m <= k
    <3>1. S \in SUBSET Nat /\ S # {}
      BY <2>1
    <3> HIDE DEF S
    <3> QED
      BY <3>1, Least
  <2>3. m \in Nat /\ m <= max /\ init * 2^m >= max
    BY <2>1, <2>2
  <2>4. ASSUME m # 0
        PROVE  init * 2^(m - 1) < max
    <3>1. m - 1 \in Nat /\ m - 1 \notin S
      BY <2>2, <2>3, <2>4
    <3>2. init * 2^(m - 1) \in Nat
      BY <3>1, Powers, Multiples
    <3> QED
      BY <3>1, <3>2
  <2> HIDE DEF S
  <2>5. Log(m)
    BY <2>3, <2>4
  <2> QED
    BY <2>3, <2>5
<1>2. PICK m : m = MaxBackoffRetries(init, max)
  OBVIOUS
<1>3. m \in 0..max /\ Log(m)
  BY <1>1, <1>2 DEF MaxBackoffRetries
<1>4. 2^n \in Nat /\ init * 2^n \in Nat /\ 2^m \in Nat /\ init * 2^m \in Nat
  BY <1>3, Powers, Multiples
<1>5. CASE n < m
  <2>1. /\ m - 1 \in Nat /\ n <= m - 1
    BY <1>3, <1>5
  <2>2. 2^(m - 1) \in Nat /\ 2^n <= 2^(m - 1)
    BY <2>1, Powers, PowersGrow
  <2>3. init * 2^(m - 1) \in Nat /\ init * 2^n <= init * 2^(m - 1)
    BY <1>4, <2>2, Multiples
  <2>4. init * 2^(m - 1) < max
    BY <1>3, <1>5
  <2>5. ~(init * 2^n >= max)
    BY <1>4, <2>3, <2>4
  <2> QED
    BY <1>2, <1>5, <2>5 DEF Exponential
<1>6. CASE ~(n < m)
  <2>1. 2^m <= 2^n
    BY <1>3, <1>6, PowersGrow
  <2>2. init * 2^m <= init * 2^n
    BY <1>4, <2>1, Multiples
  <2>3. init * 2^n >= max
    BY <1>3, <1>4, <2>2
  <2> QED
    BY <1>2, <1>6, <2>3 DEF Exponential
<1> QED
  BY <1>5, <1>6

\* The jitter stays in the upper half of the pause.
LEMMA KafkaDelayWithin ==
  ASSUME NEW init \in Nat, NEW max \in Nat, NEW n \in Nat, NEW w \in KafkaDelay(init, max, n)
  PROVE  /\ w \in Nat
         /\ init > 0 => LET pause == Exponential(init, max, n) IN w \in (pause \div 2)..pause
<1>1. PICK base \in BaseDelay(init, max, n) : w \in (base \div 2)..(2 * (base \div 2))
  BY DEF KafkaDelay
<1>2. init > 0 => base = Exponential(init, max, n)
  BY <1>1, RetriesToMaximum DEF BaseDelay
<1>3. base \in Nat
  <2>1. CASE init = 0
    BY <1>1, <2>1 DEF BaseDelay
  <2>2. CASE init > 0
    <3>1. init * 2^n \in Nat
      BY Powers, Multiples
    <3> QED
      BY <1>2, <2>2, <3>1 DEF Exponential
  <2> QED
    BY <2>1, <2>2
<1>4. base \div 2 \in Nat /\ 2 * (base \div 2) <= base
  BY <1>3
<1>5. w \in Nat /\ w \in (base \div 2)..base
  BY <1>1, <1>3, <1>4
<1> QED
  BY <1>2, <1>5

\* Retries are made by the outputs that have a backoff, and their number is of
\* the configuration there is: with this, BackoffsAgree is inductive.
BackoffInv ==
  /\ attempt > 0 => Output(raw) \in {"elasticsearch", "kafka"}
  /\ BackoffsAgree

\* What BackoffsAgree says of one output and one pause.
LEMMA PauseAgrees ==
  ASSUME NEW r \in Raw, NEW n \in Nat, n > 0,
         NEW w \in IF Output(r) = "elasticsearch"
                     THEN {DelayTime(BackoffInit(r), BackoffMax(r), n)}
                     ELSE KafkaDelay(BackoffInit(r), BackoffMax(r), n)
  PROVE  LET pause == Exponential(BackoffInit(r), BackoffMax(r), n) IN
         /\ w \in Nat
         /\ Output(r) = "elasticsearch" => w = pause
         /\ Output(r) # "elasticsearch" /\ BackoffInit(r) > 0 => w \in (pause \div 2)..pause
<1>1. /\ BackoffInit(r) \in Nat /\ BackoffMax(r) \in Nat
  BY DEF Raw, BackoffInit, BackoffMax
<1>2. PICK init \in Nat, max \in Nat : init = BackoffInit(r) /\ max = BackoffMax(r)
  BY <1>1
<1>3. Exponential(init, max, n) \in Nat
  <2>1. init * 2^n \in Nat
    BY Powers, Multiples
  <2> QED
    BY <2>1 DEF Exponential
<1>4. CASE Output(r) = "elasticsearch"
  BY <1>2, <1>3, <1>4, DelayTimeIs
<1>5. CASE Output(r) # "elasticsearch"
  BY <1>2, <1>5, KafkaDelayWithin
<1> QED
  BY <1>4, <1>5

\* The two implementations of exponential backoff agree: the loop of the
\* Elasticsearch output and the logarithm of the Kafka output compute the
\* pause min(max, init * 2^n), for every init, max and number of attempts.
THEOREM BackoffsAgreeAlways == ProcessSpec => []BackoffsAgree
<1>1. ProcessInit => BackoffInv
  BY DEF ProcessInit, ConfigInit, BackoffInv, BackoffsAgree
<1>2. ConfigurationInv /\ BackoffInv /\ [ProcessNext]_processVars => BackoffInv'
  <2> SUFFICES ASSUME ConfigurationInv, BackoffInv, [ProcessNext]_processVars
               PROVE  BackoffInv'
    OBVIOUS
  <2>1. raw \in Raw /\ attempt \in Nat
    BY ConfigurationAssumption DEF ConfigurationInv, ConfigTypeOK
  <2>2. CASE Reconfigure
    BY <2>2 DEF Reconfigure, BackoffInv, BackoffsAgree
  <2>3. CASE RetryRequest
    <3>1. /\ Output(raw) \in {"elasticsearch", "kafka"} /\ raw' = raw /\ attempt' = attempt + 1
          /\ wait' \in IF Output(raw) = "elasticsearch"
                         THEN {DelayTime(BackoffInit(raw), BackoffMax(raw), attempt + 1)}
                         ELSE KafkaDelay(BackoffInit(raw), BackoffMax(raw), attempt + 1)
      BY <2>3 DEF RetryRequest
    <3>0. PICK w : w = wait'
      OBVIOUS
    <3>2. PICK r \in Raw, n \in Nat : r = raw /\ n = attempt + 1 /\ n > 0 /\ w = wait'
      BY <2>1, <3>0
    <3>3. LET pause == Exponential(BackoffInit(r), BackoffMax(r), n) IN
          /\ w \in Nat
          /\ Output(r) = "elasticsearch" => w = pause
          /\ Output(r) # "elasticsearch" /\ BackoffInit(r) > 0 => w \in (pause \div 2)..pause
      BY <3>1, <3>2, PauseAgrees
    <3>4. raw' = r /\ attempt' = n /\ wait' = w
      BY <3>1, <3>2
    <3> QED
      BY <3>1, <3>2, <3>3, <3>4 DEF BackoffInv, BackoffsAgree
  <2>4. CASE ReadConfig \/ StartConfigured \/ UNCHANGED configVars
    <3>1. UNCHANGED <<raw, attempt, wait>>
      BY <2>4 DEF ReadConfig, StartConfigured, configVars
    <3> QED
      BY <3>1 DEF BackoffInv, BackoffsAgree
  <2> QED
    BY <2>2, <2>3, <2>4, ConfigSteps
<1>3. BackoffInv => BackoffsAgree
  BY DEF BackoffInv
<1> QED
  BY <1>1, <1>2, <1>3, ConfigurationInvariant, PTL DEF ProcessSpec

-----------------------------------------------------------------------------
(* Theorems about the console output *)

\* A process restricted to queue and goroutine is a console output: neither
\* the monitor nor the configuration gets in its way.
THEOREM ProcessRunsConsole == ProcessSpec => Spec
<1>1. ProcessInit => Init
  BY DEF ProcessInit
<1>2. [ProcessNext]_processVars => [Next]_vars
  BY DEF ProcessNext, Load, StartConsole, StartOther, Pipeline, CloseOutput, Restart, Monitoring,
     Retries, processVars, Next, Environment
<1> QED
  BY <1>1, <1>2, PTL DEF ProcessSpec, Spec

\* The inductive invariant: one batch after the other, reported when printed.
THEOREM ConsoleInvariant == ProcessSpec => []ConsoleInv
<1>1. Init => ConsoleInv
  <2> SUFFICES ASSUME Init
               PROVE  ConsoleInv
    OBVIOUS
  <2> USE DEF Init, LoopInit
  <2>1. QueueInv
    BY InitKeeps
  <2>2. SerialInv
    BY DEF QueueInit, SerialInv, InHand, Drained, OnlyLastOpen
  <2>3. waited \in BOOLEAN
    BY Zenon
  <2>4. SerialPart
    BY <2>1, <2>2, <2>3 DEF SerialPart, LoopTypeOK, QueueInv
  <2> QED
    BY <2>4, HangFollows DEF ConsoleInv, SerialPart
<1>2. ConsoleInv /\ [Next]_vars => ConsoleInv'
  BY ConsoleKept
<1>3. Spec => []ConsoleInv
  BY <1>1, <1>2, PTL DEF Spec
<1> QED
  BY <1>3, ProcessRunsConsole, PTL

\* Wait returns with every event that was read printed and counted.
THEOREM ConsoleFlushes == ProcessSpec => []WaitFlushes
<1>1. ConsoleInv => WaitFlushes
  BY BatchInHand DEF ConsoleInv, SerialInv, InHand, WaitFlushes
<1> QED
  BY <1>1, ConsoleInvariant, PTL

\* The console output does with the queue what the queue and the server rely
\* on, over restarts and whatever the configuration.
THEOREM ConsoleKeepsContract == ProcessSpec => KeepsContract
<1>1. Init => QueueInit
  BY DEF Init, LoopInit
<1>2. ConsoleInv /\ [Next]_vars => [QueueNext]_queueVars
  BY StepsKeepContract
<1> QED
  BY <1>1, <1>2, ConsoleInvariant, ProcessRunsConsole, PTL DEF Spec, KeepsContract, QueueSpec

\* Once the queue is closed, Wait can return or the goroutine can go on.
THEOREM ConsoleNeverHangs == ProcessSpec => []NothingHangs
<1>1. ConsoleInv => NothingHangs
  BY DEF ConsoleInv
<1> QED
  BY <1>1, ConsoleInvariant, PTL

\* Once the queue is closed, every step of the output uses up one of the steps
\* left: with ConsoleNeverHangs, a goroutine that is scheduled ends after the
\* batch it has in hand.
THEOREM ConsoleWindsDown == ProcessSpec => WindsDown
<1>1. ASSUME ConsoleInv, [Next]_vars, vars' # vars, closed, ~waited
      PROVE  Left' \in Nat /\ (Left' < Left \/ waited')
  <2>1. cursor \in Nat /\ unread \in Nat /\ cursor <= unread
    BY <1>1, BatchInHand
  <2>2. CASE Send
    <3>1. /\ loop = "run" /\ cursor < unread /\ cursor' = cursor + 1 /\ unread' = unread
          /\ loop' = IF cursor' = unread THEN "report" ELSE "run"
      BY <2>2 DEF Send, Conclude
    <3> QED
      BY <2>1, <3>1 DEF Left
  <2>3. CASE Report
    <3>1. loop = "report" /\ loop' = "run" /\ cursor = unread /\ cursor' = cursor /\ unread' = unread
      BY <1>1, <2>3 DEF Report, Done, ConsoleInv, SerialInv
    <3> QED
      BY <2>1, <3>1 DEF Left
  <2>4. CASE GetFails("ended")
    <3>1. loop = "run" /\ loop' = "ended" /\ cursor = unread /\ cursor' = cursor /\ unread' = unread
      BY <2>4 DEF GetFails, queueVars
    <3> QED
      BY <2>1, <3>1 DEF Left
  <2>5. CASE Wait
    <3>1. waited' /\ UNCHANGED <<loop, cursor, unread>>
      BY <2>5 DEF Wait, queueVars
    <3>2. Left' \in Nat
      BY <2>1, <3>1 DEF Left
    <3> QED
      BY <3>1, <3>2
  <2>6. ~(Start \/ GetBatch(0) \/ Acknowledges \/ Environment)
    BY <1>1 DEF Start, StartLoop, GetBatch, Get, Acknowledges, Acknowledge, Environment, Publish,
       Enqueue, CloseQueue
  <2> QED
    BY <1>1, <2>2, <2>3, <2>4, <2>5, <2>6 DEF Next, Loop
<1>2. ConsoleInv /\ [Next]_vars
        => [closed /\ ~waited => Left' \in Nat /\ (Left' < Left \/ waited')]_vars
  BY <1>1
<1> QED
  BY <1>2, ConsoleInvariant, ProcessRunsConsole, PTL DEF Spec, WindsDown

-----------------------------------------------------------------------------
(* The monitor *)

Reader ==
  [pc : {"idle", "load", "store", "reply"}, of : 0..MaxEpochs, loaded : Nat, data : QueueData]

\* The state of one reader.
LEMMA ReaderFacts ==
  ASSUME MonitorTypeOK, NEW r \in Readers
  PROVE  /\ read[r] \in Reader
         /\ read[r].pc \in {"idle", "load", "store", "reply"}
         /\ read[r].of \in 0..MaxEpochs
         /\ read[r].loaded \in Nat
         /\ read[r].data \in QueueData
BY DEF MonitorTypeOK, Reader

LEMMA CountingFinite ==
  ASSUME NEW m
  PROVE  IsFiniteSet(Counting(m)) /\ Cardinality(Counting(m)) \in Nat
<1>1. Counting(m) \in SUBSET Readers
  BY DEF Counting
<1> QED
  BY <1>1, MonitorAssumption, FS_Subset, FS_CardinalityType

\* The data of a level: getLimits and the queue agree on what full is.
LEMMA DataFacts ==
  ASSUME ConfigTypeOK, QueueTypeOK, NEW level \in RawMetrics, NEW c \in Nat
  PROVE  /\ Data(level, c) \in QueueData
         /\ Data(level, c).count = c
         /\ Data(level, c).isFull <=> FullByLimits(level)
         /\ Truthful(Data(level, c))
<1>0. SUFFICES /\ FullByLimits(level) \in BOOLEAN
               /\ Room(level) \in {"none", "little", "ample"}
               /\ Room(level) = "none" => FullByLimits(level)
               /\ Room(level) = "ample" => ~FullByLimits(level)
  BY DEF Data, QueueData, Truthful
<1>1. CASE ~UseDiskQueue(raw)
  <2>1. level.bytes = FALSE /\ level.count = nextID - oldest /\ level.limit = MaxEvents
    BY <1>1 DEF RawMetrics, EventMetrics
  <2>2. FullByLimits(level) = IsFull /\ IsFull \in BOOLEAN
    BY <2>1 DEF FullByLimits, IsFull
  <2>3. Room(level) = IF IsFull THEN "none" ELSE "ample"
    BY <2>1 DEF Room
  <2> QED
    BY <2>2, <2>3
<1>2. CASE UseDiskQueue(raw)
  <2>1. raw.disk.max \in Nat
    BY <1>2 DEF ConfigTypeOK, Raw, UseDiskQueue, DiskConfig
  <2>2. level \in [bytes : {TRUE}, count : 0..(raw.disk.max + 1), limit : {raw.disk.max}]
    BY <1>2 DEF RawMetrics, ByteMetrics
  <2>3. level.bytes = TRUE
    BY <2>2
  <2>4. level.count \in 0..(raw.disk.max + 1) /\ level.limit = raw.disk.max
    BY <2>2
  <2>5. level.count \in Nat /\ level.limit \in Nat
    BY <2>1, <2>4
  <2>6. FullByLimits(level) <=> level.limit # 0 /\ 10 * level.count > 9 * level.limit
    BY <2>3 DEF FullByLimits
  <2>7. FullByLimits(level) \in BOOLEAN
    BY <2>3 DEF FullByLimits
  <2>8. CASE level.limit = 0 \/ 10 * level.count < 9 * level.limit
    <3>0. ~(level.limit # 0 /\ level.count >= level.limit)
      BY <2>5, <2>8
    <3>1. Room(level) = "ample"
      BY <2>3, <2>8, <3>0 DEF Room
    <3>2. ~FullByLimits(level)
      BY <2>5, <2>6, <2>8
    <3> QED
      BY <2>7, <3>1, <3>2
  <2>9. CASE level.limit # 0 /\ level.count >= level.limit
    <3>1. 10 * level.count > 9 * level.limit /\ ~(10 * level.count < 9 * level.limit)
      BY <2>5, <2>9
    <3>2. Room(level) = "none"
      BY <2>3, <2>9, <3>1 DEF Room
    <3>3. FullByLimits(level)
      BY <2>6, <2>9, <3>1
    <3> QED
      BY <2>7, <3>2, <3>3
  <2>10. CASE /\ ~(level.limit = 0 \/ 10 * level.count < 9 * level.limit)
              /\ ~(level.limit # 0 /\ level.count >= level.limit)
    <3>1. Room(level) = "little"
      BY <2>3, <2>10 DEF Room
    <3> QED
      BY <2>7, <3>1
  <2> QED
    BY <2>8, <2>9, <2>10
<1> QED
  BY <1>1, <1>2

\* One reader changes: what it becomes, and that the others stay.
LEMMA OneReader ==
  ASSUME MonitorTypeOK, NEW r \in Readers, NEW x \in Reader, read' = [read EXCEPT ![r] = x]
  PROVE  /\ read' \in [Readers -> Reader]
         /\ read'[r] = x
         /\ \A q \in Readers : q # r => read'[q] = read[q]
BY DEF MonitorTypeOK, Reader

\* A reader has its reply, or an error.
LEMMA BecomesIdle ==
  ASSUME MonitorInv, NEW r \in Readers, NEW d \in QueueData,
         read[r].pc \in {"idle", "reply"},
         read' = [read EXCEPT ![r] = Reading("idle", 0, d)],
         asked' \in Nat,
         UNCHANGED <<monitor, hook, queueLimitCount, seenFull, overlapped>>,
         d.isFull => d.count > 0,
         Truthful(d)
  PROVE  MonitorInv'
<1>1. PICK x : x = Reading("idle", 0, d)
  OBVIOUS
<1>2. x \in Reader /\ x.pc = "idle" /\ x.data = d
  BY <1>1, QueueAssumption DEF Reading, Reader
<1>3. /\ read' \in [Readers -> Reader]
      /\ read'[r] = x
      /\ \A q \in Readers : q # r => read'[q] = read[q]
  BY <1>1, <1>2, OneReader DEF MonitorInv
<1>4. MonitorTypeOK'
  BY <1>3 DEF MonitorInv, MonitorTypeOK, Reader
<1>5. ASSUME NEW m
      PROVE  Counting(m)' = Counting(m)
  BY <1>2, <1>3 DEF Counting
<1>6. LimitCountIsExact'
  BY <1>5 DEF MonitorInv, LimitCountIsExact
<1>7. CountsLag'
  BY <1>2, <1>3, <1>5 DEF MonitorInv, CountsLag
<1>8. OneAtATime'
  <2>1. \A m : r \notin Counting(m)
    BY DEF Counting
  <2> QED
    BY <1>3, <1>5, <2>1 DEF MonitorInv, OneAtATime, Counting
<1>9. FullIsCounted'
  BY <1>2, <1>3 DEF MonitorInv, FullIsCounted
<1>10. FullMeansNoRoom'
  BY <1>2, <1>3 DEF MonitorInv, FullMeansNoRoom
<1> QED
  BY <1>4, <1>6, <1>7, <1>8, <1>9, <1>10 DEF MonitorInv

\* A reader sees a full queue.
LEMMA SeesFull ==
  ASSUME MonitorInv, NEW r \in Readers, NEW m \in Monitors, NEW d \in QueueData,
         read[r].pc = "idle",
         read' = [read EXCEPT ![r] = Reading("load", m, d)],
         seenFull' = [seenFull EXCEPT ![m] = @ + 1],
         overlapped' = overlapped \cup (IF Counting(m) = {} THEN {} ELSE {m}),
         asked' \in Nat,
         UNCHANGED <<monitor, hook, queueLimitCount>>,
         Truthful(d)
  PROVE  MonitorInv'
<1>1. PICK x : x = Reading("load", m, d)
  OBVIOUS
<1>2. x \in Reader /\ x.pc = "load" /\ x.of = m /\ x.data = d
  BY <1>1 DEF Reading, Reader, Monitors
<1>3. /\ read' \in [Readers -> Reader]
      /\ read'[r] = x
      /\ \A q \in Readers : q # r => read'[q] = read[q]
  BY <1>1, <1>2, OneReader DEF MonitorInv
<1>4. /\ seenFull' \in [Monitors -> Nat] /\ seenFull'[m] = seenFull[m] + 1 /\ seenFull[m] \in Nat
      /\ \A k \in Monitors : k # m => seenFull'[k] = seenFull[k]
      /\ \A k \in Monitors : queueLimitCount[k] \in Nat /\ seenFull[k] \in Nat
  BY DEF MonitorInv, MonitorTypeOK
<1>5. MonitorTypeOK'
  BY <1>3, <1>4 DEF MonitorInv, MonitorTypeOK, Reader
<1>6. /\ Counting(m)' = Counting(m) \cup {r} /\ r \notin Counting(m)
      /\ \A k \in Monitors : k # m => Counting(k)' = Counting(k)
  BY <1>2, <1>3 DEF Counting
<1>7. /\ Cardinality(Counting(m)') = Cardinality(Counting(m)) + 1
      /\ \A k \in Monitors : k # m => Cardinality(Counting(k)') = Cardinality(Counting(k))
      /\ \A k \in Monitors : Cardinality(Counting(k)) \in Nat
  BY <1>6, CountingFinite, FS_AddElement
<1>8. \A q \in Readers : read[q].pc # "idle" => q # r /\ read[q].of \in Monitors
  BY DEF MonitorInv, CountsLag
<1>9. LimitCountIsExact'
  <2> SUFFICES ASSUME NEW k \in Monitors
               PROVE  /\ queueLimitCount[k] <= seenFull'[k]
                      /\ k \notin overlapped' =>
                           queueLimitCount[k] = seenFull'[k] - Cardinality(Counting(k)')
    BY DEF LimitCountIsExact
  <2>1. /\ queueLimitCount[k] <= seenFull[k]
        /\ k \notin overlapped' => queueLimitCount[k] = seenFull[k] - Cardinality(Counting(k))
    BY DEF MonitorInv, LimitCountIsExact
  <2>2. CASE k = m
    BY <1>4, <1>7, <2>1, <2>2
  <2>3. CASE k # m
    BY <1>4, <1>7, <2>1, <2>3
  <2> QED
    BY <2>2, <2>3
<1>10. CountsLag'
  <2>1. ASSUME NEW k \in Monitors, NEW n \in Nat, n + Cardinality(Counting(k)) <= seenFull[k]
        PROVE  n + Cardinality(Counting(k)') <= seenFull'[k]
    BY <1>4, <1>7, <2>1
  <2>2. \A k \in Monitors : queueLimitCount'[k] + Cardinality(Counting(k)') <= seenFull'[k]
    BY <1>4, <2>1 DEF MonitorInv, CountsLag
  <2>3. ASSUME NEW q \in Readers, read'[q].pc = "store"
        PROVE  (read[q].loaded + Cardinality(Counting(read[q].of)) <= seenFull[read[q].of])'
    <3>1. q # r /\ read'[q] = read[q] /\ read[q].pc = "store"
      BY <1>2, <1>3, <2>3
    <3>2. PICK k \in Monitors : k = read[q].of
      BY <1>8, <3>1
    <3>3. read[q].loaded \in Nat /\ read[q].loaded + Cardinality(Counting(k)) <= seenFull[k]
      BY <3>1, <3>2, ReaderFacts DEF MonitorInv, CountsLag
    <3>4. read[q].loaded + Cardinality(Counting(k)') <= seenFull'[k]
      BY <2>1, <3>3
    <3>5. Counting(read[q].of)' = Counting(k)'
      BY <3>1, <3>2
    <3> QED
      BY <3>1, <3>2, <3>4, <3>5
  <2>4. \A q \in Readers : read'[q].pc # "idle" => read'[q].of \in Monitors
    BY <1>2, <1>3 DEF MonitorInv, CountsLag
  <2> QED
    BY <2>2, <2>3, <2>4 DEF CountsLag
<1>11. OneAtATime'
  <2> SUFFICES ASSUME NEW k \in Monitors, k \notin overlapped', NEW q \in Readers, q \in Counting(k)'
               PROVE  /\ Counting(k)' = {q}
                      /\ read'[q].pc = "store" => read'[q].loaded = queueLimitCount'[k]
    BY DEF OneAtATime, Counting
  <2>1. CASE k = m
    <3>1. Counting(k)' = {r} /\ q = r
      BY <1>6, <2>1
    <3> QED
      BY <1>2, <1>3, <3>1
  <2>2. CASE k # m
    <3>1. q \in Counting(k) /\ k \in Monitors \ overlapped /\ Counting(k)' = Counting(k)
      BY <1>6, <2>2
    <3>2. q # r
      BY <3>1 DEF Counting
    <3> QED
      BY <1>3, <3>1, <3>2 DEF MonitorInv, OneAtATime
  <2> QED
    BY <2>1, <2>2
<1>12. FullIsCounted'
  BY <1>2, <1>3 DEF MonitorInv, FullIsCounted
<1>13. FullMeansNoRoom'
  BY <1>2, <1>3 DEF MonitorInv, FullMeansNoRoom
<1> QED
  BY <1>5, <1>9, <1>10, <1>11, <1>12, <1>13 DEF MonitorInv

\* A reader loads the count.
LEMMA LoadKeeps ==
  ASSUME MonitorInv, NEW r \in Readers, LoadCount(r)
  PROVE  MonitorInv'
<1>1. PICK m, x : /\ m = read[r].of
                  /\ x = [read[r] EXCEPT !.pc = "store", !.loaded = queueLimitCount[read[r].of]]
  OBVIOUS
<1>2. read[r].pc = "load" /\ m \in Monitors /\ queueLimitCount[m] \in Nat /\ read[r] \in Reader
  BY <1>1, ReaderFacts DEF LoadCount, MonitorInv, CountsLag, MonitorTypeOK
<1>3. /\ x \in Reader /\ x.pc = "store" /\ x.of = m /\ x.loaded = queueLimitCount[m]
      /\ x.data = read[r].data
  BY <1>1, <1>2 DEF Reader
<1>4. /\ read' = [read EXCEPT ![r] = x]
      /\ UNCHANGED <<monitor, hook, queueLimitCount, asked, seenFull, overlapped>>
  BY <1>1 DEF LoadCount, MonitorInv, MonitorTypeOK
<1>5. /\ read' \in [Readers -> Reader]
      /\ read'[r] = x
      /\ \A q \in Readers : q # r => read'[q] = read[q]
  BY <1>3, <1>4, OneReader DEF MonitorInv
<1>6. MonitorTypeOK'
  BY <1>4, <1>5 DEF MonitorInv, MonitorTypeOK, Reader
<1>7. ASSUME NEW k
      PROVE  Counting(k)' = Counting(k)
  <2>1. ASSUME NEW q \in Readers
        PROVE  (read'[q].pc \in {"load", "store"} /\ read'[q].of = k)
                 <=> (read[q].pc \in {"load", "store"} /\ read[q].of = k)
    <3>1. CASE q = r
      BY <1>1, <1>2, <1>3, <1>5, <3>1
    <3>2. CASE q # r
      BY <1>5, <3>2
    <3> QED
      BY <3>1, <3>2
  <2> QED
    BY <2>1 DEF Counting
<1>8. LimitCountIsExact'
  BY <1>4, <1>7 DEF MonitorInv, LimitCountIsExact
<1>9. CountsLag'
  BY <1>2, <1>3, <1>4, <1>5, <1>7 DEF MonitorInv, CountsLag
<1>10. OneAtATime'
  <2> SUFFICES ASSUME NEW k \in Monitors, k \notin overlapped', NEW q \in Readers, q \in Counting(k)'
               PROVE  /\ Counting(k)' = {q}
                      /\ read'[q].pc = "store" => read'[q].loaded = queueLimitCount'[k]
    BY DEF OneAtATime, Counting
  <2>1. /\ Counting(k)' = Counting(k) /\ q \in Counting(k) /\ k \in Monitors \ overlapped
        /\ Counting(k) = {q}
        /\ read[q].pc = "store" => read[q].loaded = queueLimitCount[k]
    BY <1>4, <1>7 DEF MonitorInv, OneAtATime
  <2>2. q = r => k = m
    BY <1>1, <2>1 DEF Counting
  <2> QED
    BY <1>3, <1>4, <1>5, <2>1, <2>2
<1>11. FullIsCounted'
  BY <1>3, <1>4, <1>5 DEF MonitorInv, FullIsCounted
<1>12. FullMeansNoRoom'
  BY <1>3, <1>4, <1>5 DEF MonitorInv, FullMeansNoRoom
<1> QED
  BY <1>6, <1>8, <1>9, <1>10, <1>11, <1>12 DEF MonitorInv

\* A reader stores one more than it has loaded.
LEMMA StoreKeeps ==
  ASSUME MonitorInv, NEW r \in Readers, StoreCount(r)
  PROVE  MonitorInv'
<1>1. PICK m, n, x : m = read[r].of /\ n = read[r].loaded + 1 /\ x = [read[r] EXCEPT !.pc = "reply"]
  OBVIOUS
<1>2. /\ read[r].pc = "store" /\ m \in Monitors /\ read[r].loaded \in Nat /\ read[r] \in Reader
      /\ n \in Nat \ {0}
  BY <1>1, ReaderFacts DEF StoreCount, MonitorInv, CountsLag
<1>3. x \in Reader /\ x.pc = "reply" /\ x.of = m /\ x.data = read[r].data
  BY <1>1, <1>2 DEF Reader
<1>4. /\ read' = [read EXCEPT ![r] = x]
      /\ queueLimitCount' = [queueLimitCount EXCEPT ![m] = n]
      /\ UNCHANGED <<monitor, hook, asked, seenFull, overlapped>>
  BY <1>1 DEF StoreCount, MonitorInv, MonitorTypeOK
<1>5. /\ read' \in [Readers -> Reader]
      /\ read'[r] = x
      /\ \A q \in Readers : q # r => read'[q] = read[q]
  BY <1>3, <1>4, OneReader DEF MonitorInv
<1>6. /\ queueLimitCount' \in [Monitors -> Nat] /\ queueLimitCount'[m] = n
      /\ \A k \in Monitors : k # m => queueLimitCount'[k] = queueLimitCount[k]
      /\ \A k \in Monitors : queueLimitCount[k] \in Nat /\ seenFull[k] \in Nat
  BY <1>2, <1>4 DEF MonitorInv, MonitorTypeOK
<1>7. MonitorTypeOK'
  BY <1>4, <1>5, <1>6 DEF MonitorInv, MonitorTypeOK, Reader
<1>8. /\ Counting(m)' = Counting(m) \ {r} /\ r \in Counting(m)
      /\ \A k \in Monitors : k # m => Counting(k)' = Counting(k)
  BY <1>1, <1>2, <1>3, <1>5 DEF Counting
<1>9. /\ Cardinality(Counting(m)') = Cardinality(Counting(m)) - 1
      /\ \A k \in Monitors : k # m => Cardinality(Counting(k)') = Cardinality(Counting(k))
      /\ \A k \in Monitors : Cardinality(Counting(k)) \in Nat
  BY <1>8, CountingFinite, FS_RemoveElement
<1>10. /\ n + Cardinality(Counting(m)) <= seenFull[m] + 1
       /\ m \notin overlapped => n = queueLimitCount[m] + 1 /\ Counting(m) = {r}
  <2>1. read[r].loaded + Cardinality(Counting(m)) <= seenFull[m]
    BY <1>1, <1>2 DEF MonitorInv, CountsLag
  <2>2. m \notin overlapped => read[r].loaded = queueLimitCount[m] /\ Counting(m) = {r}
    BY <1>2, <1>8 DEF MonitorInv, OneAtATime
  <2> QED
    BY <1>1, <1>2, <1>6, <1>9, <2>1, <2>2
<1>11. LimitCountIsExact'
  <2> SUFFICES ASSUME NEW k \in Monitors
               PROVE  /\ queueLimitCount'[k] <= seenFull[k]
                      /\ k \notin overlapped =>
                           queueLimitCount'[k] = seenFull[k] - Cardinality(Counting(k)')
    BY <1>4 DEF LimitCountIsExact
  <2>1. /\ queueLimitCount[k] <= seenFull[k]
        /\ k \notin overlapped => queueLimitCount[k] = seenFull[k] - Cardinality(Counting(k))
    BY DEF MonitorInv, LimitCountIsExact
  <2>2. CASE k = m
    <3>1. Cardinality(Counting(m)) >= 1
      BY <1>8, <1>9, CountingFinite, FS_EmptySet
    <3> QED
      BY <1>2, <1>6, <1>9, <1>10, <2>1, <2>2, <3>1
  <2>3. CASE k # m
    BY <1>6, <1>9, <2>1, <2>3
  <2> QED
    BY <2>2, <2>3
<1>12. CountsLag'
  <2>1. ASSUME NEW k \in Monitors
        PROVE  queueLimitCount'[k] + Cardinality(Counting(k)') <= seenFull'[k]
    <3>1. queueLimitCount[k] + Cardinality(Counting(k)) <= seenFull[k]
      BY DEF MonitorInv, CountsLag
    <3>2. CASE k = m
      BY <1>2, <1>4, <1>6, <1>9, <1>10, <3>2
    <3>3. CASE k # m
      BY <1>4, <1>6, <1>9, <3>1, <3>3
    <3> QED
      BY <3>2, <3>3
  <2>2. ASSUME NEW q \in Readers, read'[q].pc = "store"
        PROVE  (read[q].loaded + Cardinality(Counting(read[q].of)) <= seenFull[read[q].of])'
    <3>1. q # r /\ read'[q] = read[q] /\ read[q].pc = "store"
      BY <1>3, <1>5, <2>2
    <3>2. PICK k \in Monitors : k = read[q].of
      BY <3>1 DEF MonitorInv, CountsLag
    <3>3. read[q].loaded \in Nat /\ read[q].loaded + Cardinality(Counting(k)) <= seenFull[k]
      BY <3>1, <3>2, ReaderFacts DEF MonitorInv, CountsLag
    <3>4. read[q].loaded + Cardinality(Counting(k)') <= seenFull[k]
      BY <1>6, <1>9, <3>3
    <3>5. Counting(read[q].of)' = Counting(k)'
      BY <3>1, <3>2
    <3> QED
      BY <1>4, <3>1, <3>2, <3>4, <3>5
  <2>3. \A q \in Readers : read'[q].pc # "idle" => read'[q].of \in Monitors
    BY <1>2, <1>3, <1>5 DEF MonitorInv, CountsLag
  <2> QED
    BY <2>1, <2>2, <2>3 DEF CountsLag
<1>13. OneAtATime'
  <2> SUFFICES ASSUME NEW k \in Monitors, k \notin overlapped', NEW q \in Readers, q \in Counting(k)'
               PROVE  /\ Counting(k)' = {q}
                      /\ read'[q].pc = "store" => read'[q].loaded = queueLimitCount'[k]
    BY DEF OneAtATime, Counting
  <2>1. k # m
    BY <1>4, <1>8, <1>10
  <2>2. /\ Counting(k)' = Counting(k) /\ q \in Counting(k) /\ k \in Monitors \ overlapped
        /\ Counting(k) = {q}
        /\ read[q].pc = "store" => read[q].loaded = queueLimitCount[k]
    BY <1>4, <1>8, <2>1 DEF MonitorInv, OneAtATime
  <2>3. q # r
    BY <1>1, <2>1, <2>2 DEF Counting
  <2> QED
    BY <1>5, <1>6, <2>1, <2>2, <2>3
<1>14. FullIsCounted'
  <2>1. \A q \in Readers : read'[q].pc = "idle" => q # r
    BY <1>3, <1>5
  <2>2. ASSUME NEW q \in Readers, read'[q].pc = "reply"
        PROVE  queueLimitCount'[read'[q].of] > 0
    <3>1. CASE read'[q].of = m
      BY <1>2, <1>6, <3>1
    <3>2. CASE read'[q].of # m
      <4>1. q # r /\ read'[q] = read[q]
        BY <1>3, <1>5, <3>2
      <4>2. read[q].of \in Monitors /\ queueLimitCount[read[q].of] > 0
        BY <2>2, <4>1 DEF MonitorInv, FullIsCounted, CountsLag
      <4> QED
        BY <1>6, <3>2, <4>1, <4>2
    <3> QED
      BY <3>1, <3>2
  <2>3. ASSUME NEW q \in Readers, read'[q].pc = "idle", read'[q].data.isFull
        PROVE  read'[q].data.count > 0
    BY <1>5, <2>1, <2>3 DEF MonitorInv, FullIsCounted
  <2> QED
    BY <2>2, <2>3 DEF FullIsCounted
<1>15. FullMeansNoRoom'
  BY <1>3, <1>4, <1>5 DEF MonitorInv, FullMeansNoRoom
<1> QED
  BY <1>7, <1>11, <1>12, <1>13, <1>14, <1>15 DEF MonitorInv

\* A monitor begins or ends; the readers go on.
LEMMA MonitorChanges ==
  ASSUME MonitorInv, monitor' \in 0..MaxEpochs, hook' \in NoHook..MaxEpochs,
         UNCHANGED <<queueLimitCount, read, asked, seenFull, overlapped>>
  PROVE  MonitorInv'
<1>1. ASSUME NEW k
      PROVE  Counting(k)' = Counting(k)
  BY DEF Counting
<1>2. MonitorTypeOK' /\ FullIsCounted' /\ FullMeansNoRoom'
  BY DEF MonitorInv, MonitorTypeOK, FullIsCounted, FullMeansNoRoom
<1>3. LimitCountIsExact' /\ CountsLag' /\ OneAtATime'
  BY <1>1 DEF MonitorInv, LimitCountIsExact, CountsLag, OneAtATime
<1> QED
  BY <1>2, <1>3 DEF MonitorInv

LEMMA MetricsKeep ==
  ASSUME MonitorInv, ConfigTypeOK, QueueTypeOK, NEW r \in Readers,
         GetQueueMetrics(r, RawMetrics)
  PROVE  MonitorInv'
<1>1. asked \in Nat
  BY DEF MonitorInv, MonitorTypeOK
<1>2. CASE Observe(r, RawMetrics)
  <2>1. PICK m \in {monitor, hook} \cap Monitors : \E level \in RawMetrics :
          IF FullByLimits(level)
            THEN /\ read' = [read EXCEPT ![r] = Reading("load", m, Data(level, 0))]
                 /\ seenFull' = [seenFull EXCEPT ![m] = @ + 1]
                 /\ overlapped' = overlapped \cup (IF Counting(m) = {} THEN {} ELSE {m})
            ELSE /\ read' = [read EXCEPT ![r] = Reading("idle", 0, Data(level, queueLimitCount[m]))]
                 /\ UNCHANGED <<seenFull, overlapped>>
    BY <1>2 DEF Observe
  <2>2. PICK level \in RawMetrics :
          IF FullByLimits(level)
            THEN /\ read' = [read EXCEPT ![r] = Reading("load", m, Data(level, 0))]
                 /\ seenFull' = [seenFull EXCEPT ![m] = @ + 1]
                 /\ overlapped' = overlapped \cup (IF Counting(m) = {} THEN {} ELSE {m})
            ELSE /\ read' = [read EXCEPT ![r] = Reading("idle", 0, Data(level, queueLimitCount[m]))]
                 /\ UNCHANGED <<seenFull, overlapped>>
    BY <2>1
  <2>3. /\ m \in Monitors /\ read[r].pc = "idle" /\ asked' \in Nat
        /\ UNCHANGED <<monitor, hook, queueLimitCount>>
        /\ queueLimitCount[m] \in Nat
    BY <1>1, <1>2, <2>1 DEF Observe, MonitorInv, MonitorTypeOK
  <2>4. CASE FullByLimits(level)
    <3>1. PICK d : d = Data(level, 0)
      OBVIOUS
    <3>2. d \in QueueData /\ Truthful(d)
      BY <3>1, DataFacts
    <3> QED
      BY <2>2, <2>3, <2>4, <3>1, <3>2, SeesFull
  <2>5. CASE ~FullByLimits(level)
    <3>1. PICK d : d = Data(level, queueLimitCount[m])
      OBVIOUS
    <3>2. d \in QueueData /\ Truthful(d) /\ ~d.isFull
      BY <2>3, <2>5, <3>1, DataFacts
    <3> QED
      BY <2>2, <2>3, <2>5, <3>1, <3>2, BecomesIdle
  <2> QED
    BY <2>4, <2>5
<1>3. CASE ObserveFails(r)
  <2>1. NoData \in QueueData /\ Truthful(NoData) /\ ~NoData.isFull
    BY DEF NoData, QueueData, Truthful
  <2>2. /\ read' = [read EXCEPT ![r] = Reading("idle", 0, NoData)]
        /\ read[r].pc = "idle" /\ asked' \in Nat
        /\ UNCHANGED <<monitor, hook, queueLimitCount, seenFull, overlapped>>
    BY <1>1, <1>3 DEF ObserveFails, NotReading
  <2> QED
    BY <2>1, <2>2, BecomesIdle
<1>4. CASE Reply(r)
  <2>1. PICK d : d = [read[r].data EXCEPT !.count = queueLimitCount[read[r].of]]
    OBVIOUS
  <2>2. /\ read[r].pc = "reply" /\ read[r].of \in Monitors /\ read[r].data \in QueueData
        /\ queueLimitCount[read[r].of] \in Nat /\ queueLimitCount[read[r].of] > 0
        /\ Truthful(read[r].data)
    BY <1>4, ReaderFacts DEF Reply, MonitorInv, CountsLag, FullIsCounted, FullMeansNoRoom, MonitorTypeOK
  <2>3. /\ d \in QueueData /\ d.count > 0
        /\ Truthful(d)
    BY <2>1, <2>2 DEF QueueData, Truthful
  <2>4. /\ read' = [read EXCEPT ![r] = Reading("idle", 0, d)] /\ asked' \in Nat
        /\ UNCHANGED <<monitor, hook, queueLimitCount, seenFull, overlapped>>
    BY <1>1, <1>4, <2>1 DEF Reply
  <2> QED
    BY <2>2, <2>3, <2>4, BecomesIdle
<1> QED
  BY <1>2, <1>3, <1>4, LoadKeeps, StoreKeeps DEF GetQueueMetrics

\* The metrics tell the truth about the queue, and the counter of full queues
\* errs on one side only, for any number of readers that count at a time.
THEOREM MonitorInvariant == ProcessSpec => []MonitorInv
<1>1. ProcessInit => MonitorInv
  <2> SUFFICES ASSUME ProcessInit
               PROVE  MonitorInv
    OBVIOUS
  <2> USE DEF ProcessInit, MonitorInit
  <2>1. /\ NotReading \in Reader /\ NotReading.pc = "idle"
        /\ ~NotReading.data.isFull /\ Truthful(NotReading.data)
    BY QueueAssumption DEF NotReading, Reading, NoData, Reader, QueueData, Truthful
  <2>2. \A r \in Readers : read[r] = NotReading
    OBVIOUS
  <2>3. MonitorTypeOK
    <3>1. monitor \in 0..MaxEpochs /\ hook \in NoHook..MaxEpochs
      BY QueueAssumption DEF NoHook
    <3> QED
      BY <2>1, <3>1 DEF MonitorTypeOK, Reader
  <2>4. \A m : Counting(m) = {}
    BY <2>1, <2>2 DEF Counting
  <2>5. LimitCountIsExact /\ CountsLag /\ OneAtATime
    BY <2>1, <2>2, <2>4, FS_EmptySet DEF LimitCountIsExact, CountsLag, OneAtATime
  <2>6. FullIsCounted /\ FullMeansNoRoom
    BY <2>1, <2>2 DEF FullIsCounted, FullMeansNoRoom
  <2> QED
    BY <2>3, <2>5, <2>6 DEF MonitorInv
<1>2. MonitorInv /\ ConsoleInv /\ ConfigurationInv /\ [ProcessNext]_processVars => MonitorInv'
  <2> SUFFICES ASSUME MonitorInv, ConsoleInv, ConfigurationInv, [ProcessNext]_processVars
               PROVE  MonitorInv'
    OBVIOUS
  <2>1. /\ monitor \in 0..MaxEpochs /\ hook \in NoHook..MaxEpochs
        /\ 0 \in 0..MaxEpochs /\ 0..MaxEpochs \subseteq NoHook..MaxEpochs
    BY QueueAssumption DEF MonitorInv, MonitorTypeOK, NoHook
  <2>2. CASE StartConsole
    <3>1. epoch' \in 0..MaxEpochs
      BY <2>2, QueueAssumption DEF StartConsole, Start, StartLoop, New, ConsoleInv, LoopTypeOK, QueueTypeOK
    <3>2. monitor' \in 0..MaxEpochs
      BY <2>1, <2>2, <3>1 DEF StartConsole, NewFromConfig
    <3>3. hook' \in NoHook..MaxEpochs
      BY <2>1, <2>2, <3>2 DEF StartConsole, RegisterDiagnosticHook
    <3> QED
      BY <2>2, <3>2, <3>3, MonitorChanges DEF StartConsole, NewFromConfig
  <2>3. CASE CloseOutput
    BY <2>1, <2>3, MonitorChanges DEF CloseOutput, End
  <2>4. CASE Monitoring
    BY <2>4, MetricsKeep DEF Monitoring, ConsoleInv, LoopTypeOK, ConfigurationInv
  <2>5. CASE UNCHANGED monitorVars
    BY <2>1, <2>5, MonitorChanges DEF monitorVars
  <2> QED
    BY <2>2, <2>3, <2>4, <2>5 DEF ProcessNext, Load, StartOther, Pipeline, Restart, Retries, processVars
<1> QED
  BY <1>1, <1>2, ConsoleInvariant, ConfigurationInvariant, PTL DEF ProcessSpec
=============================================================================
