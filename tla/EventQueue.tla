----------------------------- MODULE EventQueue -----------------------------
(***************************************************************************)
(* queue/queue.go: the shipper's wrapper of the libbeat memory queue, and  *)
(* the WrappedBatch bookkeeping that turns per-event acknowledgements of   *)
(* an output into acknowledgements of whole queue batches.                 *)
(*                                                                         *)
(* Entries are their ids: libbeat numbers the entries of a queue 0, 1, ... *)
(* so nextID, unread and oldest are the cursors of the ring buffer:        *)
(*                                                                         *)
(*    0 ... oldest ... unread ... nextID                                   *)
(*    acknowledged | read by the output | waiting                          *)
(*                                                                         *)
(* The actions up to Close are the operations; the specification at the    *)
(* end closes the system with a publisher and an output that keeps the     *)
(* contract every output of output/ is meant to keep: an event is reported *)
(* with Done once, after it was sent or discarded.                         *)
(***************************************************************************)
EXTENDS Integers, Sequences, FiniteSets

CONSTANTS
  MaxEvents,   \* capacity of the queue (MemSettings.Events)
  MaxEntries,  \* bound: entries published to one queue
  MaxEpochs    \* bound: queues created

ASSUME QueueAssumption ==
  /\ MaxEvents \in Nat \ {0}
  /\ MaxEntries \in Nat
  /\ MaxEpochs \in Nat

VARIABLES
  epoch,      \* how many queues New has created so far
  closed,     \* Close was called on the current queue
  nextID,     \* id of the next entry
  unread,     \* id of the first entry Get has not handed out
  oldest,     \* id of the oldest entry still in the queue
  batches,    \* WrappedBatches handed out and not yet removed, oldest first
  concluded   \* entries the output has sent or discarded (history)

queueVars == <<epoch, closed, nextID, unread, oldest, batches, concluded>>

WrappedBatch == [first : Nat, count : Nat \ {0}, doneCount : Nat]

\* Ids of the entries of a batch.
Entries(b) == b.first..(b.first + b.count - 1)

\* Mutants: the threshold one too low, one too high.
CompletedEarly(b) == b.doneCount + 1 >= b.count
CompletedLate(b) == b.doneCount > b.count

\* batch.Done() of the libbeat queue has been called for the batch.
Completed(b) == b.doneCount >= b.count

QueueInit ==
  /\ epoch = 0
  /\ closed = TRUE
  /\ nextID = 0
  /\ unread = 0
  /\ oldest = 0
  /\ batches = <<>>
  /\ concluded = {}

-----------------------------------------------------------------------------
(* Operations *)

\* The ids start over: a queue knows nothing of the one it replaces.
New ==
  /\ epoch' = epoch + 1
  /\ closed' = FALSE
  /\ nextID' = 0
  /\ unread' = 0
  /\ oldest' = 0
  /\ batches' = <<>>
  /\ concluded' = {}

IsFull == nextID - oldest >= MaxEvents

\* The producer's Publish, once there is room; until then the caller blocks.
\* TryPublish is the same step, or an error when this one is not enabled.
Enqueue ==
  /\ ~closed
  /\ ~IsFull
  /\ nextID' = nextID + 1
  /\ UNCHANGED <<epoch, closed, unread, oldest, batches, concluded>>

\* Get blocks while there is nothing to read, and fails once closed.
Get(n) ==
  /\ ~closed
  /\ n \in 1..(nextID - unread)
  /\ batches' = Append(batches, [first |-> unread, count |-> n, doneCount |-> 0])
  /\ unread' = unread + n
  /\ UNCHANGED <<epoch, closed, nextID, oldest, concluded>>

\* WrappedBatch.Done: the last of the events completes the batch.
Done(i, n) ==
  /\ batches' = [batches EXCEPT ![i].doneCount = @ + n]
  /\ UNCHANGED <<epoch, closed, nextID, unread, oldest, concluded>>

\* The acknowledgement loop of the libbeat queue: completed batches leave in
\* the order they were read, and it stops when the queue is closed.
Acknowledge ==
  /\ ~closed
  /\ batches # <<>>
  /\ Completed(Head(batches))
  /\ oldest' = Head(batches).first + Head(batches).count
  /\ batches' = Tail(batches)
  /\ UNCHANGED <<epoch, closed, nextID, unread, concluded>>

\* Mutant: closing takes back the ids of the entries it drops.
CloseRewinding ==
  /\ closed' = TRUE
  /\ nextID' = unread
  /\ UNCHANGED <<epoch, unread, oldest, batches, concluded>>

\* Entries nobody has read are dropped with the queue.
Close ==
  /\ closed' = TRUE
  /\ UNCHANGED <<epoch, nextID, unread, oldest, batches, concluded>>

\* Mutant: with no batch outstanding everything counts as persisted.
PersistedIndexOfBatches == IF batches = <<>> THEN nextID ELSE oldest

\* The queue keeps no event that was persisted: its oldest id is the index.
PersistedIndex == oldest

-----------------------------------------------------------------------------
(* The contract of an output *)

\* An event was sent, or given up after a failure.
Conclude(id) ==
  /\ \E i \in DOMAIN batches : id \in Entries(batches[i])
  /\ id \notin concluded
  /\ concluded' = concluded \cup {id}
  /\ UNCHANGED <<epoch, closed, nextID, unread, oldest, batches>>

\* Concluded events of a batch that Done has not been told of.
Unreported(b) == Cardinality(concluded \cap Entries(b)) - b.doneCount

ReportDone(i, n) ==
  /\ n \in 1..Unreported(batches[i])
  /\ Done(i, n)

\* All that was read has been concluded and reported: what Wait waits for.
Drained == \A i \in DOMAIN batches : Completed(batches[i])

OutputStep ==
  \/ \E n \in 1..(nextID - unread) : Get(n)
  \/ \E id \in oldest..(unread - 1) : Conclude(id)
  \/ \E i \in DOMAIN batches : \E n \in 1..batches[i].count : ReportDone(i, n)

-----------------------------------------------------------------------------
(* The queue between a publisher and an output *)

OpenQueue == epoch < MaxEpochs /\ closed /\ Drained /\ New
Publish == nextID < MaxEntries /\ Enqueue
CloseQueue == ~closed /\ Close

QueueNext ==
  \/ OpenQueue
  \/ Publish
  \/ OutputStep
  \/ Acknowledge
  \/ CloseQueue

QueueSpec == QueueInit /\ [][QueueNext]_queueVars

-----------------------------------------------------------------------------
(* Properties *)

\* The state of the queue has the shape the Go types give it.
QueueTypeOK ==
  /\ epoch \in Nat
  /\ closed \in BOOLEAN
  /\ nextID \in Nat
  /\ unread \in Nat
  /\ oldest \in Nat
  /\ batches \in Seq(WrappedBatch)
  /\ concluded \in SUBSET Nat

\* What PersistedIndex reports is true: every entry below the index has been
\* sent or discarded by the output, although WrappedBatch only counts Done
\* calls, the queue only sees whole batches, and batches complete in any order.
PersistedIsConcluded == \A id \in 0..(PersistedIndex - 1) : id \in concluded

\* The batches handed out are exactly the entries between the oldest and the
\* first unread one, in order and without gap or overlap: Get hands out every
\* entry once, and removing a completed batch never skips an entry.
BatchesAreContiguous ==
  /\ oldest <= unread
  /\ unread <= nextID
  /\ IF batches = <<>>
       THEN oldest = unread
       ELSE /\ batches[1].first = oldest
            /\ batches[Len(batches)].first + batches[Len(batches)].count = unread
  /\ \A i \in 1..(Len(batches) - 1) :
       batches[i].first + batches[i].count = batches[i + 1].first

\* Unread, read and unacknowledged entries together never exceed the
\* configured number of events of the memory queue.
WithinCapacity == nextID - oldest <= MaxEvents

\* While one queue lives, the persisted index never moves back, and an entry
\* once concluded stays so.
PersistedNeverRegresses ==
  [][epoch' = epoch => /\ PersistedIndex' >= PersistedIndex
                       /\ concluded \subseteq concluded']_queueVars

\* Done has counted no event of a batch that is not concluded.
DoneIsConcluded ==
  \A i \in DOMAIN batches :
    batches[i].doneCount <= Cardinality(concluded \cap Entries(batches[i]))

\* Only entries that were read can be concluded or belong to a batch.
ReadBeforeConcluded ==
  /\ concluded \subseteq 0..(unread - 1)
  /\ \A i \in DOMAIN batches : batches[i].first + batches[i].count <= unread

\* Every entry that was read and not acknowledged is in some batch.
BatchesCoverRead ==
  \A id \in oldest..(unread - 1) : \E i \in DOMAIN batches : id \in Entries(batches[i])

\* Inductive: the counts of WrappedBatch are tied to the events they stand for.
QueueInv ==
  /\ QueueTypeOK
  /\ PersistedIsConcluded
  /\ BatchesAreContiguous
  /\ WithinCapacity
  /\ DoneIsConcluded
  /\ ReadBeforeConcluded
  /\ BatchesCoverRead

\* The batches Done has not completed, and that there is none but the last.
OpenBatches == {i \in DOMAIN batches : ~Completed(batches[i])}
OnlyLastOpen == \A i \in DOMAIN batches : i < Len(batches) => Completed(batches[i])

\* The batches follow one another: an entry belongs to one of them.
BatchesOrdered ==
  \A i, j \in DOMAIN batches :
    i < j => batches[i].first + batches[i].count <= batches[j].first

\* The queue implements the promise made to clients.
Contract == INSTANCE AckContract WITH
  generation <- epoch,
  accepted <- nextID,
  persisted <- PersistedIndex

ImplementsContract == Contract!Spec
=============================================================================
