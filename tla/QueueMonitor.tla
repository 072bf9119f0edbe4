---------------------------- MODULE QueueMonitor ----------------------------
(***************************************************************************)
(* monitoring/queuemon.go: the monitor of a queue.  Every start of an      *)
(* output makes a monitor of its own, numbered here like its queue, and    *)
(* closing the output ends it.  Requests to the HTTP endpoint and the      *)
(* diagnostics hook run getQueueMetrics at the same time, on the goroutine *)
(* of whoever asks, and count without a lock how often they have seen the  *)
(* queue full: reading queueLimitCount and writing it are two steps.       *)
(*                                                                         *)
(* The memory queue tells how many events it holds, the disk queue how     *)
(* many bytes; the disk queue is external, and its level is any level.     *)
(***************************************************************************)
EXTENDS EventQueue

CONSTANTS
  Readers,     \* goroutines that ask for metrics
  MaxReads     \* bound: questions asked

ASSUME MonitorAssumption == IsFiniteSet(Readers) /\ MaxReads \in Nat

VARIABLES
  monitor,           \* the monitor ServerRunner holds, 0 for none
  hook,              \* the monitor the diagnostics hook was made of, 0 for none,
                     \* or NoHook
  queueLimitCount,   \* of every monitor
  read,              \* what each reader is doing
  asked,             \* questions asked so far
  seenFull,          \* history: full queues seen, by monitor
  overlapped         \* history: monitors two counts of which ran at a time

monitorVars == <<monitor, hook, queueLimitCount, read, asked, seenFull, overlapped>>

Monitors == 1..MaxEpochs

\* No hook has been registered.
NoHook == -1

\* queueData and, as history, the room there was when the level was taken.
QueueData == [isFull : BOOLEAN, count : Nat, room : {"none", "little", "ample"}]
NoData == [isFull |-> FALSE, count |-> 0, room |-> "ample"]

\* A reader: the monitor it asks, what it has loaded of queueLimitCount, and
\* the data it has last returned.
Reading(label, m, data) == [pc |-> label, of |-> m, loaded |-> 0, data |-> data]
NotReading == Reading("idle", 0, NoData)

MonitorInit ==
  /\ monitor = 0
  /\ hook = NoHook
  /\ queueLimitCount = [m \in Monitors |-> 0]
  /\ read = [r \in Readers |-> NotReading]
  /\ asked = 0
  /\ seenFull = [m \in Monitors |-> 0]
  /\ overlapped = {}

-----------------------------------------------------------------------------
(* What ServerRunner and the controller do *)

\* ServerRunner.Start makes a monitor if monitoring is enabled.
NewFromConfig(enabled) ==
  /\ monitor' = IF enabled THEN epoch' ELSE 0
  /\ UNCHANGED <<queueLimitCount, read, asked, seenFull, overlapped>>

\* startShipper registers QueueDiagCallback after it: without a monitor, a hook
\* that knows nothing.
RegisterDiagnosticHook(unit) == hook' = IF unit THEN monitor' ELSE hook

\* The endpoint stops; requests it has taken go on, and the hook stays.
End ==
  /\ monitor' = 0
  /\ UNCHANGED <<hook, queueLimitCount, read, asked, seenFull, overlapped>>

-----------------------------------------------------------------------------
(* getQueueMetrics *)

\* Queue.Metrics: the memory queue counts events, the disk queue bytes.
EventMetrics == {[bytes |-> FALSE, count |-> nextID - oldest, limit |-> MaxEvents]}
ByteMetrics(limit) == [bytes : {TRUE}, count : 0..(limit + 1), limit : {limit}]

\* Mutant: full is when the limit is exceeded.
FullAboveLimit(level) ==
  IF level.bytes THEN level.limit # 0 /\ 10 * level.count > 9 * level.limit
               ELSE level.count > level.limit

\* getLimits: more than nine tenths of the bytes, if there is a limit, or all
\* of the events.
FullByLimits(level) ==
  IF level.bytes THEN level.limit # 0 /\ 10 * level.count > 9 * level.limit
               ELSE level.count >= level.limit

\* The memory queue has room for an event or not.  How many events fit into the
\* bytes that are left is not known: there is none at the limit, and ample room
\* if a tenth is left or there is no limit.
Room(level) ==
  CASE ~level.bytes -> IF IsFull THEN "none" ELSE "ample"
    [] level.bytes /\ (level.limit = 0 \/ 10 * level.count < 9 * level.limit) -> "ample"
    [] level.bytes /\ level.limit # 0 /\ level.count >= level.limit -> "none"
    [] OTHER -> "little"

Data(level, count) ==
  [isFull |-> FullByLimits(level), count |-> count, room |-> Room(level)]

\* Those that have seen a full queue and not written the count.
Counting(m) == {r \in Readers : read[r].pc \in {"load", "store"} /\ read[r].of = m}

\* The level is taken, for the endpoint of the monitor or for the hook.  With
\* a queue that is not full the reply is ready, and has the count as it is.
Observe(r, metrics) ==
  /\ asked < MaxReads
  /\ asked' = asked + 1
  /\ read[r].pc = "idle"
  /\ ~closed
  /\ \E m \in {monitor, hook} \cap Monitors : \E level \in metrics :
       IF FullByLimits(level)
         THEN /\ read' = [read EXCEPT ![r] = Reading("load", m, Data(level, 0))]
              /\ seenFull' = [seenFull EXCEPT ![m] = @ + 1]
              /\ overlapped' = overlapped \cup (IF Counting(m) = {} THEN {} ELSE {m})
         ELSE /\ read' = [read EXCEPT ![r] =
                            Reading("idle", 0, Data(level, queueLimitCount[m]))]
              /\ UNCHANGED <<seenFull, overlapped>>
  /\ UNCHANGED <<monitor, hook, queueLimitCount>>

\* A hook made of no monitor, or a queue that has been closed: the reply is an
\* error.
ObserveFails(r) ==
  /\ asked < MaxReads
  /\ asked' = asked + 1
  /\ read[r].pc = "idle"
  /\ hook = 0 \/ (closed /\ epoch > 0)
  /\ read' = [read EXCEPT ![r] = NotReading]
  /\ UNCHANGED <<monitor, hook, queueLimitCount, seenFull, overlapped>>

\* mon.queueLimitCount + 1 is computed ...
LoadCount(r) ==
  /\ read[r].pc = "load"
  /\ read' = [read EXCEPT ![r].pc = "store", ![r].loaded = queueLimitCount[read[r].of]]
  /\ UNCHANGED <<monitor, hook, queueLimitCount, asked, seenFull, overlapped>>

\* ... and stored, whatever has been stored meanwhile.
StoreCount(r) ==
  /\ read[r].pc = "store"
  /\ queueLimitCount' = [queueLimitCount EXCEPT ![read[r].of] = read[r].loaded + 1]
  /\ read' = [read EXCEPT ![r].pc = "reply"]
  /\ UNCHANGED <<monitor, hook, asked, seenFull, overlapped>>

\* The count is loaded once more for the reply.
Reply(r) ==
  /\ read[r].pc = "reply"
  /\ read' = [read EXCEPT ![r] =
       Reading("idle", 0, [read[r].data EXCEPT !.count = queueLimitCount[read[r].of]])]
  /\ UNCHANGED <<monitor, hook, queueLimitCount, asked, seenFull, overlapped>>

GetQueueMetrics(r, metrics) ==
  \/ Observe(r, metrics)
  \/ ObserveFails(r)
  \/ LoadCount(r)
  \/ StoreCount(r)
  \/ Reply(r)

-----------------------------------------------------------------------------
(* Properties *)

\* The state has the shape the Go types give it.
MonitorTypeOK ==
  /\ monitor \in 0..MaxEpochs
  /\ hook \in NoHook..MaxEpochs
  /\ queueLimitCount \in [Monitors -> Nat]
  /\ read \in [Readers -> [pc : {"idle", "load", "store", "reply"}, of : 0..MaxEpochs,
                           loaded : Nat, data : QueueData]]
  /\ asked \in Nat
  /\ seenFull \in [Monitors -> Nat]
  /\ overlapped \subseteq Monitors

\* A full queue is never counted twice, and is only missed when two counts
\* overlap: without overlap the count is exactly the number of full queues
\* seen, but for the one reader that is about to write.
LimitCountIsExact ==
  \A m \in Monitors :
    /\ queueLimitCount[m] <= seenFull[m]
    /\ m \notin overlapped =>
         queueLimitCount[m] = seenFull[m] - Cardinality(Counting(m))

\* A count in flight is not ahead of what has been seen, nor is the count that
\* will be written with what one reader has loaded.
CountsLag ==
  /\ \A m \in Monitors : queueLimitCount[m] + Cardinality(Counting(m)) <= seenFull[m]
  /\ \A r \in Readers : read[r].pc = "store" =>
       read[r].loaded + Cardinality(Counting(read[r].of)) <= seenFull[read[r].of]
  /\ \A r \in Readers : read[r].pc # "idle" => read[r].of \in Monitors

\* Without overlap one reader counts at a time, with what is stored.
OneAtATime ==
  \A m \in Monitors \ overlapped : \A r \in Counting(m) :
    /\ Counting(m) = {r}
    /\ read[r].pc = "store" => read[r].loaded = queueLimitCount[m]

\* Overlap loses counts, never all of them: who has reported a full queue has
\* reported a count of at least one.
FullIsCounted ==
  \A r \in Readers :
    /\ (read[r].pc = "idle" /\ read[r].data.isFull) => read[r].data.count > 0
    /\ read[r].pc = "reply" => queueLimitCount[read[r].of] > 0

\* A queue without room is reported as full and one with ample room is not.  So
\* a memory queue is full exactly when it would have taken no other event, and
\* a disk queue at its limit, but never without one or below nine tenths of it.
\* (At nine tenths it is full by the comment in getLimits, not by its code.)
Truthful(data) ==
  /\ data.room = "none" => data.isFull
  /\ data.room = "ample" => ~data.isFull

FullMeansNoRoom == \A r \in Readers : Truthful(read[r].data)

\* The metrics tell the truth about the queue, and the counter of full queues
\* errs on one side only, although nothing guards it.  Inductive.
MonitorInv ==
  /\ MonitorTypeOK
  /\ LimitCountIsExact
  /\ CountsLag
  /\ OneAtATime
  /\ FullIsCounted
  /\ FullMeansNoRoom
=============================================================================
