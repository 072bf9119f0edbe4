----------------------- MODULE LogstashOutput_proofs -----------------------
(***************************************************************************)
(* For every number of hosts, size of batches and sequence of failures:    *)
(* the Logstash output keeps the contract of the queue, gives a batch up   *)
(* only when every host has refused it, counts its batches in the          *)
(* WaitGroup exactly, and has concluded and reported everything when Wait  *)
(* returns; on a closed queue it can always go on, for a bounded number of *)
(* steps.  LogstashInv is inductive.                                       *)
(***************************************************************************)
EXTENDS LogstashOutput, EventQueue_proofs

\* The rotation wraps after the last host, and meets each host once.
LEMMA RotationArithmetic ==
  ASSUME NEW s \in Hosts
  PROVE  /\ Tried(s, 0) = {} /\ HostAfter(s, 0) = s
         /\ Tried(s, HostCount) = Hosts
         /\ \A n \in 0..(HostCount - 1) :
              /\ HostAfter(s, n) \in Hosts
              /\ Tried(s, n + 1) = Tried(s, n) \cup {HostAfter(s, n)}
              /\ HostAfter(s, n + 1) = (HostAfter(s, n) + 1) % HostCount
<1> USE LogstashAssumption DEF Hosts
<1>1. /\ Tried(s, 0) = {} /\ HostAfter(s, 0) = s
      /\ Tried(s, HostCount) = Hosts
  BY DEF Tried, HostAfter
<1>2. ASSUME NEW n \in 0..(HostCount - 1)
      PROVE  /\ HostAfter(s, n) \in Hosts
             /\ Tried(s, n + 1) = Tried(s, n) \cup {HostAfter(s, n)}
  BY DEF Tried, HostAfter
<1>3. ASSUME NEW n \in 0..(HostCount - 1)
      PROVE  HostAfter(s, n + 1) = (HostAfter(s, n) + 1) % HostCount
  <2>1. \A h \in Hosts : (h + 1) % HostCount = IF h + 1 = HostCount THEN 0 ELSE h + 1
    OBVIOUS
  <2>2. HostAfter(s, n + 1) = IF HostAfter(s, n) + 1 = HostCount THEN 0 ELSE HostAfter(s, n) + 1
    BY DEF HostAfter
  <2> QED
    BY <1>2, <2>1, <2>2
<1> QED
  BY <1>1, <1>2, <1>3

\* The batch in hand is the one that is open.
LEMMA SerialBatch ==
  ASSUME QueueInv, SerialInv
  PROVE  /\ InHand <=> ~Drained
         /\ InHand => /\ Current \in DOMAIN batches
                      /\ batches[Current].first + batches[Current].count = unread
                      /\ batches[Current].count \in Nat \ {0}
                      /\ batches[Current].doneCount = 0
         /\ Cardinality(OpenBatches) = IF InHand THEN 1 ELSE 0
<1>1. ASSUME InHand
      PROVE  /\ Current \in DOMAIN batches
             /\ batches[Current].first + batches[Current].count = unread
             /\ batches[Current].count \in Nat \ {0}
             /\ batches[Current].doneCount = 0
             /\ ~Drained
  <2>1. batches # <<>> /\ batches[Current].doneCount = 0
    BY <1>1 DEF SerialInv
  <2>2. Current \in DOMAIN batches /\ batches[Current].count \in Nat \ {0}
    BY <2>1, BatchFacts DEF Current
  <2>3. batches[Current].first + batches[Current].count = unread
    BY <2>1 DEF Current, QueueInv, BatchesAreContiguous
  <2>4. ~Completed(batches[Current])
    BY <2>1, <2>2 DEF Completed
  <2> QED
    BY <2>1, <2>2, <2>3, <2>4 DEF Drained
<1>2. ~InHand => Drained
  BY DEF SerialInv
<1> QED
  BY <1>1, <1>2, SerialCount DEF SerialInv

\* So the WaitGroup counts one or two.
LEMMA WaitGroupOfSerial ==
  (QueueInv /\ SerialInv) =>
    (WaitGroupCounts <=> wg = (IF InHand THEN 1 ELSE 0) + (IF loop = "ended" THEN 0 ELSE 1))
BY SerialBatch DEF WaitGroupCounts

LEMMA WaitGroupOfSerialNext ==
  (QueueInv /\ SerialInv)' =>
    (WaitGroupCounts <=> wg = (IF InHand THEN 1 ELSE 0) + (IF loop = "ended" THEN 0 ELSE 1))'
BY WaitGroupOfSerial, PTL

\* What LogstashInv says of the batch in hand.
LEMMA InHandFacts ==
  ASSUME LogstashInv
  PROVE  /\ cursor \in Nat /\ unread \in Nat /\ cursor <= unread
         /\ InHand <=> ~Drained
         /\ InHand => /\ Current \in DOMAIN batches
                      /\ batches[Current].first + batches[Current].count = unread
                      /\ batches[Current].count \in Nat \ {0}
                      /\ batches[Current].doneCount = 0
         /\ wg = (IF InHand THEN 1 ELSE 0) + (IF loop = "ended" THEN 0 ELSE 1)
<1>1. cursor \in Nat /\ unread \in Nat /\ cursor <= unread
  BY DEF LogstashInv, LogstashTypeOK, LoopTypeOK, QueueTypeOK, SerialInv
<1> QED
  BY <1>1, SerialBatch, WaitGroupOfSerial DEF LogstashInv

\* The steps of the queue, seen from the queue: the output keeps its contract.
LEMMA StepsKeepContract ==
  ASSUME LogstashInv, [Next]_vars
  PROVE  [QueueNext]_queueVars
<1> USE DEF LogstashInv
<1>1. CASE Start
  <2>1. closed /\ Drained
    BY <1>1, InHandFacts DEF Start, StartLoop, SerialInv, InHand
  <2> QED
    BY <1>1, <2>1 DEF Start, StartLoop, OpenQueue, QueueNext
<1>2. CASE Receive
  <2>1. PICK n : Get(n)
    BY <1>2 DEF Receive, GetBatch
  <2>2. n \in 1..(nextID - unread)
    BY <2>1 DEF Get
  <2> QED
    BY <2>1, <2>2 DEF OutputStep, QueueNext
<1>3. CASE Settle
  <2>1. Conclude(cursor)
    BY <1>3 DEF Settle
  <2>2. cursor < unread /\ cursor \notin concluded
    BY <1>3, <2>1 DEF Settle, SerialInv, Conclude
  <2>3. oldest \in Nat /\ ~(cursor < oldest)
    BY <2>2, InHandFacts DEF QueueInv, QueueTypeOK, PersistedIsConcluded, PersistedIndex
  <2>4. cursor \in oldest..(unread - 1)
    BY <2>2, <2>3, InHandFacts
  <2> QED
    BY <2>1, <2>4 DEF OutputStep, QueueNext
<1>4. CASE Report
  <2>1. InHand /\ cursor = unread
    BY <1>4 DEF Report, InHand, SerialInv
  <2>2. concluded \cap Entries(batches[Current]) = Entries(batches[Current])
    <3>1. batches[Current].first \in Nat
      BY <2>1, InHandFacts, BatchFacts
    <3>2. concluded = 0..(unread - 1)
      BY <2>1 DEF SerialInv
    <3> QED
      BY <2>1, <3>1, <3>2, InHandFacts DEF Entries
  <2>3. Unreported(batches[Current]) = batches[Current].count
    <3>1. batches[Current] \in WrappedBatch
      BY <2>1, InHandFacts, BatchFacts
    <3>2. Cardinality(Entries(batches[Current])) = batches[Current].count
      BY <3>1, EntriesCount
    <3>3. Cardinality(concluded \cap Entries(batches[Current])) = batches[Current].count
      BY <2>2, <3>2
    <3>4. batches[Current].count \in Nat /\ batches[Current].doneCount = 0
      BY <2>1, InHandFacts
    <3> QED
      BY <3>3, <3>4 DEF Unreported
  <2>4. ReportDone(Current, batches[Current].count)
    BY <1>4, <2>1, <2>3, InHandFacts DEF Report, ReportDone
  <2>5. Current \in DOMAIN batches /\ batches[Current].count \in 1..batches[Current].count
    BY <2>1, InHandFacts
  <2> QED
    BY <2>4, <2>5 DEF OutputStep, QueueNext
<1>5. CASE BeginPublish \/ ConnectFails \/ SendFails \/ SendReturns \/ GiveUp \/ QueueClosed
  BY <1>5 DEF BeginPublish, ConnectFails, SendFails, SendReturns, GiveUp, QueueClosed, GetFails
<1>6. CASE Rest
  BY <1>6 DEF Rest, Wait, Acknowledges, Environment, QueueNext
<1>7. CASE UNCHANGED vars
  BY <1>7 DEF vars
<1> QED
  BY <1>1, <1>2, <1>3, <1>4, <1>5, <1>6, <1>7 DEF Next, Loop

\* So the queue keeps its invariant.
LEMMA QueueKept ==
  ASSUME LogstashInv, [Next]_vars
  PROVE  QueueInv'
BY StepsKeepContract, StepKeeps DEF LogstashInv

\* One batch after the other, each concluded before it is reported.
LEMMA SerialKept ==
  ASSUME LogstashInv, [Next]_vars
  PROVE  SerialInv'
<1> USE InHandFacts DEF LogstashInv, SerialInv, InHand, Current
<1>1. CASE Start
  BY <1>1 DEF Start, StartLoop, New, OnlyLastOpen, Drained
<1>2. CASE Receive
  <2>1. PICK n : Get(n)
    BY <1>2 DEF Receive, GetBatch
  <2>2. /\ Drained /\ cursor = unread /\ loop = "run"
        /\ UNCHANGED <<loop, cursor, waited, concluded, closed>>
    BY <1>2, <2>1 DEF Receive, GetBatch, Get
  <2>3. /\ OnlyLastOpen'
        /\ unread' > cursor
        /\ batches' # <<>>
        /\ batches'[Len(batches')].doneCount = 0
        /\ batches'[Len(batches')].first = cursor
    BY <2>1, <2>2, GetBatches, SerialGet
  <2>4. unread' \in Nat
    BY QueueKept DEF QueueInv, QueueTypeOK
  <2> QED
    BY <2>2, <2>3, <2>4
<1>3. CASE Settle
  <2>1. /\ cursor < unread /\ cursor' = cursor + 1
        /\ concluded' = concluded \cup {cursor}
        /\ UNCHANGED <<closed, unread, batches, waited>>
    BY <1>3 DEF Settle, Conclude
  <2>2. concluded' = 0..(cursor' - 1)
    BY <2>1
  <2>3. loop' = IF cursor' = unread THEN "report" ELSE "settle"
    BY <1>3 DEF Settle
  <2>4. OnlyLastOpen' /\ loop # "ended"
    BY <1>3, <2>1 DEF OnlyLastOpen, Settle
  <2>5. batches[Len(batches)].first \in Nat
    BY <2>1, BatchFacts
  <2>6. InHand' /\ cursor' \in Nat /\ cursor' <= unread
    BY <2>1, <2>3
  <2> QED
    BY <2>1, <2>2, <2>3, <2>4, <2>5, <2>6
<1>4. CASE Report
  <2>1. batches # <<>> /\ cursor = unread
    BY <1>4 DEF Report
  <2>2. OnlyLastOpen' /\ Drained'
    BY <1>4, <2>1, SerialDone DEF Report
  <2> QED
    BY <1>4, <2>1, <2>2 DEF Report, Done
<1>5. CASE BeginPublish \/ ConnectFails \/ SendFails \/ SendReturns \/ GiveUp \/ QueueClosed
  BY <1>5 DEF BeginPublish, ConnectFails, SendFails, SendReturns, GiveUp, QueueClosed,
     GetFails, queueVars, OnlyLastOpen, Drained
<1>6. CASE Wait \/ (Environment /\ UNCHANGED clientVars)
  BY <1>6 DEF Wait, Environment, Publish, Enqueue, CloseQueue, Close, queueVars, loopVars,
     OnlyLastOpen, Drained
<1>7. CASE Acknowledges
  BY <1>7, SerialAcknowledge DEF Acknowledges, Acknowledge, loopVars
<1>8. CASE UNCHANGED vars
  BY <1>8 DEF vars, queueVars, loopVars, OnlyLastOpen, Drained
<1> QED
  BY <1>1, <1>2, <1>3, <1>4, <1>5, <1>6, <1>7, <1>8 DEF Next, Loop, Rest

\* The WaitGroup counts the goroutine and the batch in hand.
LEMMA WaitGroupKept ==
  ASSUME LogstashInv, [Next]_vars
  PROVE  WaitGroupCounts'
<1> USE InHandFacts DEF InHand
<1>1. QueueInv' /\ SerialInv'
  BY QueueKept, SerialKept
<1> SUFFICES wg' = (IF InHand' THEN 1 ELSE 0) + (IF loop' = "ended" THEN 0 ELSE 1)
  BY <1>1, WaitGroupOfSerialNext
<1>2. CASE Start
  BY <1>2 DEF Start, StartLoop, New
<1>3. CASE Receive
  BY <1>3, GetBatches DEF Receive, GetBatch, LogstashInv
<1>4. CASE Settle
  BY <1>4 DEF Settle, Conclude
<1>5. CASE Report
  <2>1. Completed(batches'[Current])
    BY <1>5, DoneBatches DEF Report, LogstashInv, Completed
  <2> QED
    BY <1>5, <2>1 DEF Report, Completion, Done, LogstashInv, SerialInv
<1>6. CASE BeginPublish \/ ConnectFails \/ SendFails \/ SendReturns \/ GiveUp \/ QueueClosed
  BY <1>6 DEF BeginPublish, ConnectFails, SendFails, SendReturns, GiveUp, QueueClosed,
     GetFails, queueVars
<1>7. CASE Rest
  BY <1>7 DEF Rest, Wait, Acknowledges, Acknowledge, Environment, Publish, Enqueue,
     CloseQueue, Close, queueVars, loopVars
<1>8. CASE UNCHANGED vars
  BY <1>8 DEF vars, queueVars, loopVars
<1> QED
  BY <1>2, <1>3, <1>4, <1>5, <1>6, <1>7, <1>8 DEF Next, Loop

\* The rotation tries the hosts one after the other, and a batch is given up by
\* all or taken by one.
LEMMA RotationKept ==
  ASSUME LogstashInv, [Next]_vars
  PROVE  RotationInv' /\ GivenUpByAllHosts'
<1> USE LogstashAssumption, InHandFacts DEF LogstashInv, InHand, Current
<1>0. HostCount \in Nat \ {0} /\ host \in Hosts /\ tries \in 0..HostCount
  BY DEF LogstashTypeOK
<1>1. CASE Start
  BY <1>1 DEF Start, StartLoop, New, RotationInv, GivenUpByAllHosts
<1>2. CASE Receive
  <2>1. PICK n : Get(n)
    BY <1>2 DEF Receive, GetBatch
  <2>2. batches'[Len(batches')].first = cursor /\ cursor' = cursor /\ loop' = "run"
    BY <1>2, <2>1, GetBatches DEF Receive, GetBatch
  <2> QED
    BY <2>2 DEF RotationInv, GivenUpByAllHosts
<1>3. CASE BeginPublish
  <2>1. /\ loop' = "send" /\ tries' = 0 /\ host' = current /\ refused' = {}
        /\ UNCHANGED <<cursor, unread, batches>>
    BY <1>3 DEF BeginPublish, queueVars
  <2>2. current \in Hosts /\ refused' = Tried(current, tries') /\ host' = HostAfter(current, tries')
    BY <2>1, RotationArithmetic DEF LogstashTypeOK
  <2>3. batches[Len(batches)].first = cursor
    BY <1>3 DEF BeginPublish, RotationInv
  <2> QED
    BY <2>1, <2>2, <2>3 DEF RotationInv, GivenUpByAllHosts
<1>4. CASE ConnectFails \/ SendFails
  <2>1. /\ loop = "send" /\ loop' = loop /\ tries < HostCount /\ Skip
        /\ UNCHANGED <<cursor, unread, batches>>
    BY <1>4 DEF ConnectFails, SendFails, queueVars
  <2>2. PICK s \in Hosts : refused = Tried(s, tries) /\ host = HostAfter(s, tries)
    BY <2>1 DEF RotationInv
  <2>3. refused' = Tried(s, tries') /\ host' = HostAfter(s, tries')
    BY <1>0, <2>1, <2>2, RotationArithmetic DEF Skip, NextHost
  <2> QED
    BY <2>1, <2>3 DEF RotationInv, GivenUpByAllHosts
<1>5. CASE SendReturns
  <2>1. /\ loop = "send" /\ loop' = "settle" /\ cursor < unread
        /\ UNCHANGED <<cursor, unread, batches, refused>>
    BY <1>5 DEF SendReturns, queueVars, SerialInv
  <2>2. PICK n \in 0..(unread - cursor) :
          /\ received' = received \cup cursor..(cursor + n - 1)
          /\ short' = (n # unread - cursor)
    BY <1>5 DEF SendReturns
  <2>3. Entries(batches[Len(batches)]) = cursor..(unread - 1)
    <3>1. PICK b : b = batches[Len(batches)]
      OBVIOUS
    <3>2. /\ b.first = cursor /\ b.first + b.count = unread
          /\ cursor \in Nat /\ unread \in Nat /\ b.count \in Nat
      BY <2>1, <3>1 DEF RotationInv
    <3>3. (b.first + b.count) - 1 = unread - 1
      BY ONLY <3>2
    <3> QED
      BY ONLY <3>1, <3>2, <3>3 DEF Entries
  <2>4. short' \/ Entries(batches[Len(batches)]) \subseteq received'
    <3>1. CASE n = unread - cursor
      BY <2>1, <2>2, <2>3, <3>1
    <3>2. CASE n # unread - cursor
      BY <2>2, <3>2, Zenon
    <3> QED
      BY <3>1, <3>2
  <2> QED
    BY <2>1, <2>4 DEF RotationInv, GivenUpByAllHosts, Entries
<1>6. CASE GiveUp
  <2>1. loop = "send" /\ loop' = "settle" /\ tries = HostCount /\ refused' = refused
    BY <1>6 DEF GiveUp, clientVars
  <2>2. refused = Hosts
    BY <2>1, RotationArithmetic DEF RotationInv
  <2> QED
    BY <2>1, <2>2 DEF RotationInv, GivenUpByAllHosts
<1>7. CASE Settle
  BY <1>7 DEF Settle, Conclude, clientVars, RotationInv, GivenUpByAllHosts, Entries
<1>8. CASE Report
  BY <1>8 DEF Report, Done, SerialInv, RotationInv, GivenUpByAllHosts
<1>9. CASE QueueClosed
  BY <1>9 DEF QueueClosed, GetFails, RotationInv, GivenUpByAllHosts
<1>10. CASE Wait /\ UNCHANGED clientVars
  BY <1>10 DEF Wait, queueVars, clientVars, RotationInv, GivenUpByAllHosts, Entries
<1>11. CASE Environment /\ UNCHANGED clientVars
  BY <1>11 DEF Environment, Publish, Enqueue, CloseQueue, Close, loopVars, clientVars,
     RotationInv, GivenUpByAllHosts, Entries
<1>12. CASE Acknowledges /\ UNCHANGED clientVars
  <2>1. UNCHANGED <<loop, cursor, unread, refused, host, tries, short, received>>
    BY <1>12 DEF Acknowledges, Acknowledge, loopVars, clientVars
  <2>2. InHand => batches'[Len(batches')] = batches[Len(batches)]
    BY <1>12, SerialAcknowledge DEF Acknowledges, SerialInv
  <2>3. loop = "settle" => InHand
    BY DEF SerialInv
  <2> QED
    BY <2>1, <2>2, <2>3 DEF RotationInv, GivenUpByAllHosts, Entries
<1>13. CASE UNCHANGED vars
  BY <1>13 DEF vars, queueVars, loopVars, clientVars, RotationInv, GivenUpByAllHosts, Entries
<1> QED
  BY <1>1, <1>2, <1>3, <1>4, <1>5, <1>6, <1>7, <1>8, <1>9, <1>10, <1>11, <1>12, <1>13
     DEF Next, Loop, Rest

\* Every variable keeps its type; the WaitGroup does not go below zero.
LEMMA TypeKept ==
  ASSUME LogstashInv, [Next]_vars
  PROVE  LogstashTypeOK'
<1> USE LogstashAssumption DEF LogstashInv, Hosts
<1>1. QueueTypeOK'
  BY QueueKept DEF QueueInv
<1>2. wg' \in Nat
  <2>1. wg' = (IF InHand' THEN 1 ELSE 0) + (IF loop' = "ended" THEN 0 ELSE 1)
    BY QueueKept, SerialKept, WaitGroupKept, WaitGroupOfSerialNext
  <2> QED
    BY <2>1
<1>3. /\ loop' \in {"run", "send", "settle", "report", "ended"}
      /\ cursor' \in Nat
  BY DEF LogstashTypeOK, LoopTypeOK, Next, Loop, Rest, Start, StartLoop, Receive, GetBatch,
     BeginPublish, ConnectFails, SendFails, SendReturns, GiveUp, Settle, Report, QueueClosed,
     GetFails, Wait, Acknowledges, Environment, vars, loopVars
<1>4. waited' \in BOOLEAN
  BY Zenon DEF LogstashTypeOK, LoopTypeOK, Next, Loop, Rest, Start, StartLoop, Receive,
     GetBatch, BeginPublish, ConnectFails, SendFails, SendReturns, GiveUp, Settle, Report,
     QueueClosed, GetFails, Wait, Acknowledges, Environment, vars, loopVars
<1>5. /\ current' \in Hosts
      /\ host' \in Hosts
      /\ tries' \in 0..HostCount
      /\ connected' \subseteq Hosts
      /\ refused' \subseteq Hosts
      /\ received' \in SUBSET Nat
  <2> USE DEF LogstashTypeOK, LoopTypeOK, QueueTypeOK
  <2>1. CASE Start \/ BeginPublish
    <3>1. 0 \in Hosts /\ 0 \in 0..HostCount
      OBVIOUS
    <3> QED
      BY <2>1, <3>1, Zenon DEF Start, BeginPublish
  <2>2. CASE ConnectFails
    BY <2>2 DEF ConnectFails, Skip, NextHost
  <2>3. CASE SendFails
    <3>1. PICK n \in 0..(unread - cursor) : received' = received \cup cursor..(cursor + n - 1)
      BY <2>3 DEF SendFails
    <3>2. received' \in SUBSET Nat
      BY <3>1
    <3>3. NextHost \in Hosts
      BY DEF NextHost
    <3>4. connected' \subseteq Hosts
      BY <2>3 DEF SendFails
    <3> QED
      BY <2>3, <3>2, <3>3, <3>4 DEF SendFails, Skip
  <2>4. CASE SendReturns
    <3>1. PICK n \in 0..(unread - cursor) : received' = received \cup cursor..(cursor + n - 1)
      BY <2>4 DEF SendReturns
    <3>2. received' \in SUBSET Nat
      BY <3>1
    <3> QED
      BY <2>4, <3>2 DEF SendReturns
  <2>5. CASE UNCHANGED clientVars
    BY <2>5 DEF clientVars
  <2> QED
    BY <2>1, <2>2, <2>3, <2>4, <2>5 DEF Next, Loop, Rest, Receive, GiveUp, Settle, Report,
       QueueClosed, vars
<1>6. short' \in BOOLEAN
  BY Zenon DEF LogstashTypeOK, Next, Loop, Rest, Start, Receive, BeginPublish, ConnectFails,
     SendFails, SendReturns, GiveUp, Settle, Report, QueueClosed, vars, clientVars
<1> QED
  BY <1>1, <1>2, <1>3, <1>4, <1>5, <1>6 DEF LogstashTypeOK, LoopTypeOK

\* The event the goroutine is done with next is in the batch in hand.
LEMMA HangFollows ==
  (LogstashTypeOK /\ QueueInv /\ SerialInv /\ WaitGroupCounts) => NothingHangs
<1> SUFFICES ASSUME LogstashTypeOK, QueueInv, SerialInv, WaitGroupCounts, wg # 0
             PROVE  LoopCanStep
  BY DEF NothingHangs
<1>1. /\ cursor \in Nat /\ unread \in Nat
      /\ loop \in {"run", "send", "settle", "report", "ended"}
  BY DEF LogstashTypeOK, LoopTypeOK, QueueTypeOK
<1>2. loop # "ended"
  <2>1. SUFFICES ASSUME loop = "ended"
                 PROVE  wg = 0
    OBVIOUS
  <2>2. ~InHand
    BY <1>1, <2>1 DEF SerialInv, InHand
  <2> QED
    BY <2>1, <2>2, WaitGroupOfSerial
<1>3. CASE loop = "settle"
  <2>1. cursor < unread /\ InHand
    BY <1>3 DEF SerialInv, InHand
  <2>2. cursor \notin concluded
    BY <1>1 DEF SerialInv
  <2>3. /\ Current \in DOMAIN batches
        /\ batches[Current].first + batches[Current].count = unread
        /\ batches[Current].first \in Nat /\ batches[Current].count \in Nat
        /\ batches[Current].first <= cursor
    BY <2>1, SerialBatch, BatchFacts DEF SerialInv
  <2>4. cursor \in Entries(batches[Current])
    BY <1>1, <2>1, <2>3 DEF Entries
  <2> QED
    BY <1>3, <2>2, <2>3, <2>4 DEF LoopCanStep
<1> QED
  BY <1>1, <1>2, <1>3 DEF LoopCanStep

LEMMA HangFollowsNext ==
  (LogstashTypeOK /\ QueueInv /\ SerialInv /\ WaitGroupCounts)' => NothingHangs'
BY HangFollows, PTL

\* The inductive invariant, for every list of hosts and whatever fails.
THEOREM LogstashInvariant == Spec => []LogstashInv
<1>1. Init => LogstashInv
  <2> SUFFICES ASSUME Init
               PROVE  LogstashInv
    OBVIOUS
  <2>1. QueueInv
    BY InitKeeps DEF Init, LoopInit
  <2>2. SerialInv /\ RotationInv /\ GivenUpByAllHosts
    BY DEF Init, LoopInit, QueueInit, SerialInv, InHand, Drained, OnlyLastOpen, RotationInv,
       GivenUpByAllHosts
  <2>3. WaitGroupCounts
    BY <2>1, <2>2, WaitGroupOfSerial DEF Init, LoopInit, QueueInit, InHand
  <2>4. LogstashTypeOK
    <3>1. short \in BOOLEAN /\ waited \in BOOLEAN
      BY Zenon DEF Init, LoopInit
    <3> QED
      BY <2>1, <3>1, LogstashAssumption
      DEF Init, LoopInit, LogstashTypeOK, LoopTypeOK, QueueInv, Hosts
  <2> QED
    BY <2>1, <2>2, <2>3, <2>4, HangFollows DEF LogstashInv
<1>2. LogstashInv /\ [Next]_vars => LogstashInv'
  BY TypeKept, QueueKept, SerialKept, WaitGroupKept, RotationKept, HangFollowsNext DEF LogstashInv
<1> QED
  BY <1>1, <1>2, PTL DEF Spec

\* LogstashClient.Publish gives a batch up only after a whole turn of the
\* rotation, wherever it began.
THEOREM LogstashGivesUpLast == Spec => []GivenUpByAllHosts
<1>1. LogstashInv => GivenUpByAllHosts
  BY DEF LogstashInv
<1> QED
  BY <1>1, LogstashInvariant, PTL

\* Wait returns with every event it has read sent or given up, and counted.
THEOREM LogstashFlushes == Spec => []WaitFlushes
<1>1. LogstashInv => WaitFlushes
  BY InHandFacts DEF LogstashInv, SerialInv, InHand, WaitFlushes
<1> QED
  BY <1>1, LogstashInvariant, PTL

\* The output does with the queue what the queue and the server rely on:
\* batch.Done is called once per batch, after its events are done with.
THEOREM LogstashKeepsContract == Spec => KeepsContract
<1>1. Init => QueueInit
  BY DEF Init, LoopInit
<1>2. LogstashInv /\ [Next]_vars => [QueueNext]_queueVars
  BY StepsKeepContract
<1> QED
  BY <1>1, <1>2, LogstashInvariant, PTL DEF Spec, KeepsContract, QueueSpec

\* Once the queue is closed, Wait can return or the goroutine can go on.
THEOREM LogstashNeverHangs == Spec => []NothingHangs
<1>1. LogstashInv => NothingHangs
  BY DEF LogstashInv
<1> QED
  BY <1>1, LogstashInvariant, PTL

\* Once the queue is closed, every step uses up one of the steps left: with
\* LogstashNeverHangs, a goroutine that is scheduled ends after at most one turn
\* of the rotation.
THEOREM LogstashWindsDown == Spec => WindsDown
<1>1. ASSUME LogstashInv, LogstashInv', [Next]_vars, vars' # vars, closed, ~waited
      PROVE  Left' \in Nat /\ (Left' < Left \/ waited')
  <2>0. /\ cursor \in Nat /\ unread \in Nat /\ cursor <= unread
        /\ HostCount \in Nat /\ tries \in Nat /\ tries <= HostCount
    BY <1>1, InHandFacts, LogstashAssumption DEF LogstashInv, LogstashTypeOK
  <2>1. CASE BeginPublish
    <3>1. /\ loop = "run" /\ loop' = "send" /\ cursor < unread /\ tries' = 0
          /\ cursor' = cursor /\ unread' = unread
      BY <2>1 DEF BeginPublish, queueVars
    <3> QED
      BY <2>0, <3>1 DEF Left
  <2>2. CASE ConnectFails \/ SendFails
    <3>1. /\ loop = "send" /\ loop' = "send" /\ tries < HostCount /\ tries' = tries + 1
          /\ cursor' = cursor /\ unread' = unread
      BY <2>2 DEF ConnectFails, SendFails, Skip, queueVars
    <3> QED
      BY <2>0, <3>1 DEF Left
  <2>3. CASE SendReturns \/ GiveUp
    <3>1. /\ loop = "send" /\ loop' = "settle" /\ cursor' = cursor /\ unread' = unread
      BY <2>3 DEF SendReturns, GiveUp, queueVars
    <3> QED
      BY <2>0, <3>1 DEF Left
  <2>4. CASE Settle
    <3>1. /\ loop = "settle" /\ loop' \in {"settle", "report"} /\ cursor < unread
          /\ cursor' = cursor + 1 /\ unread' = unread
      BY <1>1, <2>4 DEF Settle, Conclude, LogstashInv, SerialInv
    <3> QED
      BY <2>0, <3>1 DEF Left
  <2>5. CASE Report
    <3>1. /\ loop = "report" /\ loop' = "run" /\ cursor = unread
          /\ cursor' = cursor /\ unread' = unread
      BY <1>1, <2>5 DEF Report, Done, LogstashInv, SerialInv
    <3> QED
      BY <2>0, <3>1 DEF Left
  <2>6. CASE QueueClosed
    <3>1. /\ loop = "run" /\ loop' = "ended" /\ cursor = unread
          /\ cursor' = cursor /\ unread' = unread
      BY <2>6 DEF QueueClosed, GetFails, queueVars
    <3> QED
      BY <2>0, <3>1 DEF Left
  <2>7. CASE Wait /\ UNCHANGED clientVars
    <3>1. waited' /\ UNCHANGED <<loop, cursor, unread, tries>>
      BY <2>7 DEF Wait, queueVars, clientVars
    <3>2. Left' \in Nat
      BY <2>0, <3>1 DEF Left
    <3> QED
      BY <3>1, <3>2
  <2>8. ~(Start \/ Receive \/ Acknowledges \/ Environment)
    BY <1>1 DEF Start, StartLoop, Receive, GetBatch, Get, Acknowledges, Acknowledge,
       Environment, Publish, Enqueue, CloseQueue
  <2> QED
    BY <1>1, <2>1, <2>2, <2>3, <2>4, <2>5, <2>6, <2>7, <2>8 DEF Next, Loop, Rest
<1>2. LogstashInv /\ LogstashInv' /\ [Next]_vars
        => [closed /\ ~waited => Left' \in Nat /\ (Left' < Left \/ waited')]_vars
  BY <1>1
<1> QED
  BY <1>2, LogstashInvariant, PTL DEF Spec, WindsDown
=============================================================================
