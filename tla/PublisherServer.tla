-------------------------- MODULE PublisherServer --------------------------
(***************************************************************************)
(* publisherserver/server.go: ServerRunner, which owns the queue and the   *)
(* output, is driven by the controller goroutine (Start, Close) and is     *)
(* called by the gRPC handlers (IsInitialized, Publish, TryPublish,        *)
(* PersistedIndex) through queueMutex.                                     *)
(*                                                                         *)
(* Start takes no lock and is taken apart at the points where a handler    *)
(* can see it half done.  Close holds queueMutex from before it closes the *)
(* queue until the output has drained.  Publish holds queueMutex while it  *)
(* waits for room in the queue.  The output is any output that keeps the   *)
(* contract stated in EventQueue.                                          *)
(***************************************************************************)
EXTENDS EventQueue

CONSTANTS
  Clients,      \* gRPC handler goroutines that serve PublishEvents
  StartFaults   \* the stages of starting the output that may fail

ASSUME RunnerAssumption ==
  /\ {"free", "controller"} \cap Clients = {}
  /\ StartFaults \subseteq {"config", "queue", "monitoring", "output", "launch"}

VARIABLES
  attached,     \* ServerRunner.queue is not nil
  out,          \* ServerRunner.out and the state of its loop
  queueMutex,   \* who holds ServerRunner.queueMutex
  ctl,          \* where the controller goroutine is
  afterClose    \* what it does once Close returns

runnerVars == <<attached, out, queueMutex, ctl, afterClose>>

OutStates == {"nil", "created", "running", "stopped"}

CtlStates == {"idle", "starting", "monitoring", "output", "running", "failed",
              "graceful", "closing", "draining", "exited"}

RunnerInit ==
  /\ QueueInit
  /\ attached = FALSE
  /\ out = "nil"
  /\ queueMutex = "free"
  /\ ctl = "idle"
  /\ afterClose = "idle"

-----------------------------------------------------------------------------
(* Start, called by startShipper *)

StartQueue ==
  /\ ctl = "starting"
  /\ New
  /\ attached' = TRUE
  /\ ctl' = "monitoring"
  /\ UNCHANGED <<out, queueMutex, afterClose>>

StartMonitoring ==
  /\ ctl = "monitoring"
  /\ ctl' = "output"
  /\ UNCHANGED <<attached, out, queueMutex, afterClose>>
  /\ UNCHANGED queueVars

StartOutput ==
  /\ ctl = "output"
  /\ out' = "running"
  /\ ctl' = "running"
  /\ UNCHANGED <<attached, queueMutex, afterClose>>
  /\ UNCHANGED queueVars

\* An error return leaves behind whatever was assigned before it: no queue if
\* the configuration or the queue is refused, else a queue that is attached
\* and, if the output was made but did not start, an output with no loop.
StartFails(stage) ==
  /\ stage \in StartFaults
  /\ \/ ctl = "starting" /\ stage \in {"config", "queue"}
     \/ ctl = "monitoring" /\ stage = "monitoring"
     \/ ctl = "output" /\ stage \in {"output", "launch"}
  /\ out' = IF stage = "launch" THEN "created" ELSE out
  /\ ctl' = "failed"
  /\ UNCHANGED <<attached, queueMutex, afterClose>>
  /\ UNCHANGED queueVars

-----------------------------------------------------------------------------
(* Close *)

\* Mutant: Close does its work without taking the lock.
CloseUnlocked ==
  /\ ctl = "closing"
  /\ queueMutex' = "controller"
  /\ IF attached THEN Close ELSE UNCHANGED queueVars
  /\ attached' = FALSE
  /\ ctl' = "draining"
  /\ UNCHANGED <<out, afterClose>>

CloseLocked ==
  /\ ctl = "closing"
  /\ queueMutex = "free"
  /\ queueMutex' = "controller"
  /\ IF attached THEN Close ELSE UNCHANGED queueVars
  /\ attached' = FALSE
  /\ ctl' = "draining"
  /\ UNCHANGED <<out, afterClose>>

\* Mutant: Wait only waits for the loop, not for the batches it has read.
WaitLoopOnly == out \in {"nil", "created"} \/ out = "stopped"

\* Mutant: Wait waits for the entries nobody will read any more.
WaitForEmptyQueue ==
  out \in {"nil", "created"} \/ (out = "stopped" /\ Drained /\ unread = nextID)

\* out.Wait(): an output that never started has nothing to wait for.
WaitReturns == out \in {"nil", "created"} \/ (out = "stopped" /\ Drained)

CloseReturns ==
  /\ ctl = "draining"
  /\ WaitReturns
  /\ out' = "nil"
  /\ queueMutex' = "free"
  /\ ctl' = afterClose
  /\ UNCHANGED <<attached, afterClose>>
  /\ UNCHANGED queueVars

-----------------------------------------------------------------------------
(* The goroutines of the output and of the libbeat queue *)

OutputGets ==
  /\ out = "running"
  /\ \E n \in 1..(nextID - unread) : Get(n)
  /\ UNCHANGED runnerVars

OutputConcludes ==
  /\ out \in {"running", "stopped"}
  /\ \E id \in oldest..(unread - 1) : Conclude(id)
  /\ UNCHANGED runnerVars

OutputReports ==
  /\ out \in {"running", "stopped"}
  /\ \E i \in DOMAIN batches : \E n \in 1..batches[i].count : ReportDone(i, n)
  /\ UNCHANGED runnerVars

\* queue.Get fails: the loop ends, callbacks for what was read still come.
OutputStops ==
  /\ out = "running"
  /\ closed
  /\ out' = "stopped"
  /\ UNCHANGED <<attached, queueMutex, ctl, afterClose>>
  /\ UNCHANGED queueVars

QueueAcknowledges == Acknowledge /\ UNCHANGED runnerVars

-----------------------------------------------------------------------------
(* What the gRPC handlers call; every call takes queueMutex *)

IsInitialized == attached

\* Publish with the lock taken and a queue: from here the caller waits for
\* room, whatever happens to its context.
PublishBegins(c) ==
  /\ queueMutex = "free"
  /\ attached
  /\ queueMutex' = c
  /\ UNCHANGED <<attached, out, ctl, afterClose>>
  /\ UNCHANGED queueVars

\* Mutant: the lock is kept.
PublishEndsLocked(c) ==
  /\ queueMutex = c
  /\ Enqueue
  /\ UNCHANGED <<attached, out, queueMutex, ctl, afterClose>>

PublishEnds(c) ==
  /\ queueMutex = c
  /\ Enqueue
  /\ queueMutex' = "free"
  /\ UNCHANGED <<attached, out, ctl, afterClose>>

TryPublish ==
  /\ queueMutex = "free"
  /\ attached
  /\ Enqueue
  /\ UNCHANGED runnerVars

\* TryPublish returns an error: the queue is full, or there is none.
TryPublishFails ==
  /\ queueMutex = "free"
  /\ ~attached \/ closed \/ IsFull
  /\ UNCHANGED runnerVars
  /\ UNCHANGED queueVars
=============================================================================
