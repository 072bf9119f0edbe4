----------------------------- MODULE OutputLoop -----------------------------
(***************************************************************************)
(* What the outputs of output/ have in common: a goroutine that takes      *)
(* batches from the queue until the queue is closed, a WaitGroup that      *)
(* counts this goroutine (and, in some outputs, every batch that is not    *)
(* completed), and Wait, which ServerRunner.Close calls before it drops    *)
(* the output.  Each output extends this module with what it does with a   *)
(* batch, and must then behave as the contract in EventQueue says.         *)
(***************************************************************************)
EXTENDS EventQueue

CONSTANT GetLimit   \* the number of events an output asks the queue for

ASSUME LoopAssumption == GetLimit \in Nat \ {0}

VARIABLES
  loop,     \* where the goroutine is
  cursor,   \* the event of the batch in hand that comes next
  wg,       \* the counter of the WaitGroup
  waited    \* Wait has returned, the output is gone

loopVars == <<loop, cursor, wg, waited>>

LoopInit ==
  /\ QueueInit
  /\ loop = "ended"
  /\ cursor = 0
  /\ wg = 0
  /\ waited = TRUE

\* A new queue with a new output reading from it.
StartLoop ==
  /\ waited
  /\ epoch < MaxEpochs
  /\ New
  /\ loop' = "run"
  /\ cursor' = 0
  /\ wg' = 1
  /\ waited' = FALSE

\* queue.Get, in an output that adds `counted' to its WaitGroup per batch.
GetBatch(counted) ==
  /\ loop = "run"
  /\ cursor = unread
  /\ \E n \in 1..GetLimit : Get(n)
  /\ wg' = wg + counted
  /\ UNCHANGED <<loop, cursor, waited>>

\* queue.Get fails once the queue is closed; the goroutine goes on to `next'.
GetFails(next) ==
  /\ loop = "run"
  /\ cursor = unread
  /\ closed
  /\ loop' = next
  /\ wg' = IF next = "ended" THEN wg - 1 ELSE wg
  /\ UNCHANGED <<cursor, waited>>
  /\ UNCHANGED queueVars

\* Wait, called by ServerRunner.Close after it has closed the queue.
Wait ==
  /\ closed
  /\ ~waited
  /\ wg = 0
  /\ waited' = TRUE
  /\ UNCHANGED <<loop, cursor, wg>>
  /\ UNCHANGED queueVars

\* The handlers and the controller on the other side of the queue.
Environment == (Publish \/ CloseQueue) /\ UNCHANGED loopVars

\* The acknowledgements of the queue run beside the output.
Acknowledges == Acknowledge /\ UNCHANGED loopVars

\* The batch the goroutine has in hand is the one it got last.
Current == Len(batches)

\* The batch an event belongs to.
BatchOf(id) == CHOOSE i \in DOMAIN batches : id \in Entries(batches[i])

\* CompletionCallback = wg.Done, in the call of Done that completes the batch.
Completion(i) == wg' = IF Completed(batches'[i]) THEN wg - 1 ELSE wg

-----------------------------------------------------------------------------
(* Properties, for every output *)

\* The state of the loop has the shape the Go types give it; a WaitGroup that
\* goes negative panics.
LoopTypeOK ==
  /\ QueueTypeOK
  /\ loop \in {"run", "send", "wait", "settle", "report", "closing", "ended"}
  /\ cursor \in Nat
  /\ wg \in Nat
  /\ waited \in BOOLEAN

\* Wait "gives it a chance to finish with events it has already read": when it
\* has returned, every event that was read is sent or discarded, and counted.
WaitFlushes == waited => concluded = 0..(unread - 1) /\ Drained

\* A batch is in hand until Done was called for it.
InHand == cursor < unread \/ loop = "report"

\* An output that takes one batch after the other: all that was read before the
\* batch in hand is concluded and reported, and of that batch nothing is
\* reported until all of it is concluded.
SerialInv ==
  /\ OnlyLastOpen
  /\ IF InHand
       THEN batches # <<>> /\ batches[Current].doneCount = 0 /\ batches[Current].first <= cursor
       ELSE Drained
  /\ cursor <= unread
  /\ concluded = 0..(cursor - 1)
  /\ loop = "report" => cursor = unread
  /\ loop \in {"send", "settle"} => cursor < unread
  /\ loop = "ended" => closed /\ cursor = unread
  /\ waited => loop = "ended"

\* Once the queue is closed, Wait returns: an output "is responsible for [a
\* batch] until all events have been either successfully sent or discarded
\* after failure", and no longer.
WaitReturnsEventually == closed ~> waited

\* The output keeps the contract the queue and the server rely on.
KeepsContract == QueueSpec
=============================================================================
