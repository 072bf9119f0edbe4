---------------------------- MODULE KafkaOutput ----------------------------
(***************************************************************************)
(* output/kafka/output.go and client.go: a batch is published in attempts. *)
(* An attempt hands all its events to the asynchronous producer (sarama)   *)
(* and waits until the success worker and the error worker have answered   *)
(* for each; the events that failed make up the next attempt, with no      *)
(* limit.  The error worker pauses on every other circuit breaker error,   *)
(* and nobody reads errors meanwhile.                                      *)
(*                                                                         *)
(* sarama is external: it answers once for every message it was given.     *)
(***************************************************************************)
EXTENDS OutputLoop, Functions

CONSTANTS
  Unencodable,   \* ids of events no message can be made of
  Rejected       \* ids of events Kafka refuses as invalid or too large

ASSUME KafkaAssumption == Unencodable \subseteq Nat /\ Rejected \subseteq Nat

VARIABLES
  data,          \* events of the attempt asyncSend has not looked at
  sarama,        \* events given to the producer and not answered
  failed,        \* MsgRef.failed
  batchWaiter,   \* MsgRef.batchWaiter
  remaining,     \* events of the batch that Done has not been told of
  breakerOpen,   \* the last breaker error was not paused on
  asleep         \* the error worker pauses

clientVars == <<data, sarama, failed, batchWaiter, remaining, breakerOpen, asleep>>
vars == <<queueVars, loopVars, clientVars>>

Init ==
  /\ LoopInit
  /\ data = <<>>
  /\ sarama = {}
  /\ failed = <<>>
  /\ batchWaiter = 0
  /\ remaining = 0
  /\ breakerOpen = FALSE
  /\ asleep = FALSE

\* publishEvents: the attempt begins.
Attempt(events) ==
  /\ data' = events
  /\ batchWaiter' = Len(events)
  /\ failed' = <<>>

-----------------------------------------------------------------------------
(* The goroutine of the output *)

\* makeKafka and Connect give the output a client of its own.
Start ==
  /\ StartLoop
  /\ breakerOpen' = FALSE
  /\ asleep' = FALSE
  /\ UNCHANGED <<data, sarama, failed, batchWaiter, remaining>>

Receive == GetBatch(0) /\ UNCHANGED clientVars

FirstAttempt ==
  /\ loop = "run"
  /\ cursor < unread
  /\ Attempt([k \in 1..(unread - cursor) |-> cursor + k - 1])
  /\ remaining' = unread - cursor
  /\ cursor' = unread
  /\ loop' = "send"
  /\ UNCHANGED <<wg, waited, sarama, breakerOpen, asleep>>
  /\ UNCHANGED queueVars

\* Mutant: a dropped event is not counted off.
AsyncSendUncounted ==
  /\ loop = "send"
  /\ IF Head(data) \in Unencodable
       THEN Conclude(Head(data)) /\ UNCHANGED sarama
       ELSE sarama' = sarama \cup {Head(data)} /\ UNCHANGED queueVars
  /\ data' = Tail(data)
  /\ loop' = IF Len(data) = 1 THEN "wait" ELSE loop
  /\ UNCHANGED <<cursor, wg, waited, failed, batchWaiter, remaining, breakerOpen, asleep>>

\* asyncSend, one event: it is dropped, or goes to the producer.
AsyncSend ==
  /\ loop = "send"
  /\ IF Head(data) \in Unencodable
       THEN /\ Conclude(Head(data))
            /\ batchWaiter' = batchWaiter - 1
            /\ UNCHANGED sarama
       ELSE /\ sarama' = sarama \cup {Head(data)}
            /\ UNCHANGED batchWaiter
            /\ UNCHANGED queueVars
  /\ data' = Tail(data)
  /\ loop' = IF Len(data) = 1 THEN "wait" ELSE loop
  /\ UNCHANGED <<cursor, wg, waited, failed, remaining, breakerOpen, asleep>>

\* Mutant: all that was tried counts as completed.
AttemptEndsCountingAll ==
  /\ loop = "wait"
  /\ batchWaiter = 0
  /\ Done(Current, remaining)
  /\ remaining' = Len(failed)
  /\ Attempt(failed)
  /\ loop' = IF failed = <<>> THEN "run" ELSE "send"
  /\ UNCHANGED <<cursor, wg, waited, sarama, breakerOpen, asleep>>

\* publishEvents returns what failed; the rest is reported, and what failed is
\* tried again at once.
AttemptEnds ==
  /\ loop = "wait"
  /\ batchWaiter = 0
  /\ Done(Current, remaining - Len(failed))
  /\ remaining' = Len(failed)
  /\ Attempt(failed)
  /\ loop' = IF failed = <<>> THEN "run" ELSE "send"
  /\ UNCHANGED <<cursor, wg, waited, sarama, breakerOpen, asleep>>

QueueClosed == GetFails("ended") /\ UNCHANGED clientVars

-----------------------------------------------------------------------------
(* The workers of the client *)

\* successWorker: ref.done().
Success(id) ==
  /\ id \in sarama \ Rejected
  /\ Conclude(id)
  /\ sarama' = sarama \ {id}
  /\ batchWaiter' = batchWaiter - 1
  /\ UNCHANGED <<data, failed, remaining, breakerOpen, asleep>>
  /\ UNCHANGED loopVars

\* errorWorker: ref.fail drops an event that can never succeed ...
Reject(id) ==
  /\ ~asleep
  /\ id \in sarama \cap Rejected
  /\ Conclude(id)
  /\ sarama' = sarama \ {id}
  /\ batchWaiter' = batchWaiter - 1
  /\ UNCHANGED <<data, failed, remaining, breakerOpen, asleep>>
  /\ UNCHANGED loopVars

\* Mutant: an event that met the open breaker is not kept for a retry.
ErrorForgets(id, breaker) ==
  /\ ~asleep
  /\ id \in sarama
  /\ failed' = IF breaker THEN failed ELSE Append(failed, id)
  /\ sarama' = sarama \ {id}
  /\ batchWaiter' = batchWaiter - 1
  /\ breakerOpen' = (breakerOpen \/ breaker)
  /\ asleep' = (breaker /\ breakerOpen)
  /\ UNCHANGED <<data, remaining>>
  /\ UNCHANGED <<queueVars, loopVars>>

\* ... and keeps any other for the next attempt.  The first breaker error only
\* sets the flag, the next one makes the worker sleep.
Error(id, breaker) ==
  /\ ~asleep
  /\ id \in sarama
  /\ failed' = Append(failed, id)
  /\ sarama' = sarama \ {id}
  /\ batchWaiter' = batchWaiter - 1
  /\ breakerOpen' = (breakerOpen \/ breaker)
  /\ asleep' = (breaker /\ breakerOpen)
  /\ UNCHANGED <<data, remaining>>
  /\ UNCHANGED <<queueVars, loopVars>>

\* The ten seconds are over; client.done is never closed.
Wake ==
  /\ asleep
  /\ asleep' = FALSE
  /\ breakerOpen' = FALSE
  /\ UNCHANGED <<data, sarama, failed, batchWaiter, remaining>>
  /\ UNCHANGED <<queueVars, loopVars>>

-----------------------------------------------------------------------------

Loop == Receive \/ FirstAttempt \/ AsyncSend \/ AttemptEnds \/ QueueClosed

Errors == \E id \in 0..(unread - 1) : \E breaker \in BOOLEAN : Error(id, breaker)

Answers == Errors \/ \E id \in 0..(unread - 1) : Success(id) \/ Reject(id)

Rest == (Wait \/ Acknowledges \/ Environment) /\ UNCHANGED clientVars

Next == Start \/ Loop \/ Answers \/ Wake \/ Rest

Spec == Init /\ [][Next]_vars

\* The goroutines keep running and sarama answers.  The broker is not down for
\* ever: an event that is tried again and again is accepted or refused once.
Fairness ==
  /\ WF_vars(Loop)
  /\ WF_vars(Wake)
  /\ WF_vars(Answers)
  /\ \A id \in 0..(MaxEntries - 1) : SF_vars(Success(id) \/ Reject(id))
  /\ WF_vars(Wait /\ UNCHANGED clientVars)
  /\ WF_vars(Acknowledges /\ UNCHANGED clientVars)

FairSpec == Spec /\ Fairness

-----------------------------------------------------------------------------
(* Properties *)

\* The state has the shape the Go types give it; a negative WaitGroup panics.
KafkaTypeOK ==
  /\ LoopTypeOK
  /\ data \in Seq(Nat)
  /\ sarama \in SUBSET Nat
  /\ failed \in Seq(Nat)
  /\ batchWaiter \in Nat
  /\ remaining \in Nat
  /\ breakerOpen \in BOOLEAN
  /\ asleep \in BOOLEAN

\* Events of the batch in hand that are neither sent nor given up.
Open == (0..(cursor - 1)) \ concluded

\* An event of the batch in hand is concluded, or in exactly one place: to be
\* sent, with the producer, or kept for the next attempt.  No retry loses an
\* event or sends one that has been accepted, and the counts agree with it.
AttemptsConserveEvents ==
  /\ Open = Range(data) \cup sarama \cup Range(failed)
  /\ Cardinality(Open) = Len(data) + Cardinality(sarama) + Len(failed)
  /\ loop \in {"send", "wait"} => batchWaiter = Len(data) + Cardinality(sarama)
  /\ loop \in {"send", "wait"} =>
       remaining = batches[Current].count - batches[Current].doneCount

\* No event is in two places of an attempt, or twice in one of them.
PlacesDisjoint ==
  /\ IsInjective(data)
  /\ IsInjective(failed)
  /\ Range(data) \cap sarama = {}
  /\ Range(data) \cap Range(failed) = {}
  /\ sarama \cap Range(failed) = {}

\* An attempt is about the last batch that was read, which stays in the queue
\* while an event of it is open; between batches nothing is open.
AttemptInv ==
  /\ OnlyLastOpen
  /\ cursor <= unread
  /\ concluded \subseteq 0..(cursor - 1)
  /\ IF loop \in {"send", "wait"}
       THEN /\ cursor = unread
            /\ batches # <<>>
            /\ ~Completed(batches[Current])
            /\ Range(data) \cup sarama \cup Range(failed) \subseteq Entries(batches[Current])
            /\ data = <<>> <=> loop = "wait"
       ELSE /\ data = <<>> /\ sarama = {} /\ failed = <<>>
            /\ IF cursor < unread
                 THEN /\ batches # <<>>
                      /\ batches[Current].first = cursor
                      /\ batches[Current].doneCount = 0
                 ELSE Drained
  /\ loop \in {"run", "send", "wait", "ended"}
  /\ loop = "ended" => closed /\ cursor = unread
  /\ wg = IF loop = "ended" THEN 0 ELSE 1
  /\ waited => loop = "ended"

\* The goroutine can go on, or the attempt it waits for has an event with the
\* producer, whose answer one of the workers will take.
AttemptCanStep ==
  \/ loop = "run"
  \/ /\ loop = "send" /\ data # <<>>
     /\ Head(data) \notin concluded
     /\ \E i \in DOMAIN batches : Head(data) \in Entries(batches[i])
  \/ loop = "wait" /\ (batchWaiter = 0 \/ sarama # {})

\* Once the queue is closed, Wait can return or the batch in hand goes on:
\* batchWaiter never counts an event nobody will answer for.
NothingHangs == closed /\ ~waited => wg = 0 \/ AttemptCanStep

\* What is still to come in an attempt: an event is sent, answered, and may put
\* the error worker to sleep, which then wakes up.
AttemptLeft ==
  3 * Len(data) + 2 * Cardinality(sarama) + (IF asleep THEN 1 ELSE 0)

\* While a batch is in hand no event of it is opened again, and every step of
\* the output brings the attempt nearer to its end or ends it; the next attempt
\* is then made of exactly the events that are open, and counts them all.
Progress ==
  /\ Open' \subseteq Open
  /\ \/ UNCHANGED <<loopVars, clientVars>>
     \/ AttemptLeft' \in Nat /\ AttemptLeft' < AttemptLeft
     \/ sarama = {} /\ Range(data') = Open /\ remaining' = Cardinality(Open)

AttemptsProgress == [][(loop \in {"send", "wait"}) => Progress]_vars

\* What holds in every state of an attempt: the types (a WaitGroup below zero
\* panics), that no event is lost or doubled between attempts, and that Wait
\* returns with nothing outstanding.  Inductive.
KafkaInv ==
  /\ KafkaTypeOK
  /\ QueueInv
  /\ PlacesDisjoint
  /\ AttemptInv
  /\ AttemptsConserveEvents
  /\ WaitFlushes
  /\ NothingHangs
=============================================================================
