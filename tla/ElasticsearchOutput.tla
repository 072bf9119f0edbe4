------------------------ MODULE ElasticsearchOutput ------------------------
(***************************************************************************)
(* output/elasticsearch/output.go: every event of a batch is handed to the *)
(* bulk indexer on its own, whose workers answer for it later, in any      *)
(* order and across batches.  The WaitGroup counts the goroutine and every *)
(* batch whose CompletionCallback has not been called.                     *)
(*                                                                         *)
(* The bulk indexer is external: an event it has taken is answered once,   *)
(* with OnSuccess or OnFailure, and its Close returns after all answers.   *)
(***************************************************************************)
EXTENDS OutputLoop

CONSTANT Unserializable   \* ids of events serializeEvent refuses

ASSUME ESAssumption == Unserializable \subseteq Nat

VARIABLES
  added,     \* events the bulk indexer has taken and not answered
  answered   \* events whose OnSuccess or OnFailure is about to run

indexerVars == <<added, answered>>
vars == <<queueVars, loopVars, indexerVars>>

Init ==
  /\ LoopInit
  /\ added = {}
  /\ answered = {}

-----------------------------------------------------------------------------
(* The goroutine *)

Start ==
  /\ StartLoop
  /\ UNCHANGED indexerVars

\* wg.Add(1) for the batch comes with it.
Receive ==
  /\ GetBatch(1)
  /\ UNCHANGED indexerVars

\* serializeEvent: the fields of the event can be written as JSON.
Serializable(id) == id \notin Unserializable

\* The event is skipped; nothing is said to the batch.
SerializeFails ==
  /\ loop = "run"
  /\ cursor < unread
  /\ ~Serializable(cursor)
  /\ cursor' = cursor + 1
  /\ UNCHANGED <<loop, wg, waited>>
  /\ UNCHANGED <<queueVars, indexerVars>>

\* bi.Add takes the event.
Add ==
  /\ loop = "run"
  /\ cursor < unread
  /\ Serializable(cursor)
  /\ added' = added \cup {cursor}
  /\ cursor' = cursor + 1
  /\ UNCHANGED <<loop, wg, waited, answered>>
  /\ UNCHANGED queueVars

\* bi.Add returns an error: the event is given up.
AddFails ==
  /\ loop = "run"
  /\ cursor < unread
  /\ Serializable(cursor)
  /\ Conclude(cursor)
  /\ loop' = "report"
  /\ UNCHANGED <<cursor, wg, waited, indexerVars>>

\* Mutant: an event that was not added is only logged.
ReportNothing ==
  /\ loop = "report"
  /\ loop' = "run"
  /\ cursor' = cursor + 1
  /\ UNCHANGED <<wg, waited, indexerVars>>
  /\ UNCHANGED queueVars

\* batch.Done(1) for the event that was not added.
Report ==
  /\ loop = "report"
  /\ Done(BatchOf(cursor), 1)
  /\ Completion(BatchOf(cursor))
  /\ loop' = "run"
  /\ cursor' = cursor + 1
  /\ UNCHANGED <<waited, indexerVars>>

QueueClosed ==
  /\ GetFails("closing")
  /\ UNCHANGED indexerVars

\* bi.Close returns when the workers have flushed everything.
IndexerClosed ==
  /\ loop = "closing"
  /\ added = {}
  /\ answered = {}
  /\ loop' = "ended"
  /\ wg' = wg - 1
  /\ UNCHANGED <<cursor, waited, indexerVars>>
  /\ UNCHANGED queueVars

-----------------------------------------------------------------------------
(* The workers of the bulk indexer *)

\* Elasticsearch has answered for the event, or the request has failed.
Answer(id) ==
  /\ id \in added
  /\ Conclude(id)
  /\ added' = added \ {id}
  /\ answered' = answered \cup {id}
  /\ UNCHANGED loopVars

\* Mutant: the callback reports the whole batch.
CallbackForBatch(id) ==
  /\ id \in answered
  /\ Done(BatchOf(id), batches[BatchOf(id)].count)
  /\ Completion(BatchOf(id))
  /\ answered' = answered \ {id}
  /\ UNCHANGED <<loop, cursor, waited, added>>

\* Mutant: CompletionCallback is called for every event.
CallbackCompletes(id) ==
  /\ id \in answered
  /\ Done(BatchOf(id), 1)
  /\ wg' = wg - 1
  /\ answered' = answered \ {id}
  /\ UNCHANGED <<loop, cursor, waited, added>>

\* OnSuccess and OnFailure both end in batch.Done(1).
Callback(id) ==
  /\ id \in answered
  /\ Done(BatchOf(id), 1)
  /\ Completion(BatchOf(id))
  /\ answered' = answered \ {id}
  /\ UNCHANGED <<loop, cursor, waited, added>>

-----------------------------------------------------------------------------

Loop ==
  \/ Receive
  \/ SerializeFails
  \/ Add
  \/ AddFails
  \/ Report
  \/ QueueClosed
  \/ IndexerClosed

Worker == \E id \in 0..(unread - 1) : Answer(id) \/ Callback(id)

Rest == (Wait \/ Acknowledges \/ Environment) /\ UNCHANGED indexerVars

Next == Start \/ Loop \/ Worker \/ Rest

Spec == Init /\ [][Next]_vars

\* The goroutine and the workers keep running, every request to Elasticsearch
\* ends (an attempt has a timeout, and there are max_retries of them; with -1
\* this says that the cluster is not down for ever), and Close is waiting in Wait.
Fairness ==
  /\ WF_vars(Loop)
  /\ WF_vars(Worker)
  /\ WF_vars(Wait /\ UNCHANGED indexerVars)
  /\ WF_vars(Acknowledges /\ UNCHANGED indexerVars)

FairSpec == Spec /\ Fairness

-----------------------------------------------------------------------------
(* Properties *)

\* The state has the shape the Go types give it.
ESTypeOK ==
  /\ LoopTypeOK
  /\ loop \in {"run", "report", "closing", "ended"}
  /\ added \in SUBSET Nat
  /\ answered \in SUBSET Nat

\* The WaitGroup counts the goroutine and the batches that are not completed,
\* no matter in which order the answers come: it is released once per batch,
\* cannot go negative, and cannot reach zero while an event is outstanding.
WaitGroupCounts ==
  wg = Cardinality(OpenBatches) + (IF loop = "ended" THEN 0 ELSE 1)

\* An event that cannot be serialized was read.
Skipped == \E id \in Unserializable : id < cursor

\* Wait returns, unless an event that cannot be serialized was read: as long as
\* requests end, nothing else that goes wrong with an event or an answer holds
\* a restart up.
WaitReturnsUnlessSkipped == closed ~> waited \/ Skipped

\* The event that was skipped is never counted by Done: the WaitGroup stays
\* above zero, and Wait has not returned.
SkippedHoldsWait == Skipped => wg > 0 /\ ~waited

\* The goroutine, or a worker that has an event in hand, is not blocked.
LoopCanStep ==
  \/ loop \in {"run", "report"}
  \/ loop = "closing" /\ added = {} /\ answered = {}

WorkerCanStep ==
  \/ answered # {}
  \/ \E id \in added : /\ id \notin concluded
                       /\ \E i \in DOMAIN batches : id \in Entries(batches[i])

\* Once the queue is closed there is always somebody left to bring the
\* WaitGroup down to zero, unless an event was skipped: no order of answers
\* and failures leaves a batch open with nobody to report the rest of it.
OnlySkippedHangs ==
  closed /\ ~waited => wg = 0 \/ LoopCanStep \/ WorkerCanStep \/ Skipped

\* What the goroutine and the workers have still to do on a closed queue: three
\* steps at most for an event that is not added, two once it is, one once it
\* is answered; and the steps that end the goroutine.
Left ==
  3 * (unread - cursor) + 2 * Cardinality(added) + Cardinality(answered)
    + (CASE loop = "run" -> 2 [] loop \in {"report", "closing"} -> 1 [] OTHER -> 0)

\* Once the queue is closed every step is one of the steps left, until Wait
\* returns: Close does not wait for events that come in meanwhile, and nothing
\* is tried for ever.
WindsDown ==
  [][closed /\ ~waited => Left' \in Nat /\ (Left' < Left \/ waited')]_vars

\* A skipped event cannot be made up for: Wait never returns from then on.
SkippedForGood == [][Skipped => Skipped' /\ ~waited']_vars

\* An event the output has taken and not skipped is in exactly one place:
\* still to be added, with the indexer, or concluded; and it is counted by
\* Done exactly when its callback has run.
EventsAccounted ==
  /\ concluded \cap added = {}
  /\ answered \subseteq concluded
  /\ (0..(unread - 1)) \ Unserializable
       = concluded \cup added \cup ((cursor..(unread - 1)) \ Unserializable)
  /\ \A i \in DOMAIN batches :
       batches[i].doneCount
         = Cardinality((concluded \cap Entries(batches[i]))
             \ (answered \cup (IF loop = "report" THEN {cursor} ELSE {})))

\* How far the goroutine has got, and that a batch is still in the queue while
\* an event of it is to be reported.
ProgressInv ==
  /\ cursor <= unread
  /\ added \subseteq 0..(cursor - 1)
  /\ concluded \subseteq 0..(IF loop = "report" THEN cursor ELSE cursor - 1)
  /\ answered \subseteq oldest..(unread - 1)
  /\ loop = "report" => /\ cursor \in oldest..(unread - 1)
                        /\ cursor \in concluded \ answered
  /\ loop \in {"closing", "ended"} => closed /\ cursor = unread
  /\ loop = "ended" => added = {} /\ answered = {}
  /\ waited => loop = "ended" /\ wg = 0

\* What holds in every state, whatever the workers have answered so far: the
\* types, the count of the WaitGroup, the place of every event, that Wait
\* returns with nothing outstanding, and what can hold it up.  Inductive.
ESInv ==
  /\ ESTypeOK
  /\ QueueInv
  /\ BatchesOrdered
  /\ ProgressInv
  /\ WaitGroupCounts
  /\ EventsAccounted
  /\ WaitFlushes
  /\ SkippedHoldsWait
  /\ OnlySkippedHangs
=============================================================================
