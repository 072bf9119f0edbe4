--------------------------- MODULE ShipperServer ---------------------------
(***************************************************************************)
(* grpcserver/server.go on top of publisherserver: the PublishEvents and   *)
(* PersistedIndex handlers, each a goroutine that takes queueMutex anew    *)
(* for every call it makes, while the controller starts, restarts, stops   *)
(* and shuts down the output underneath them.                              *)
(*                                                                         *)
(* The shipper is managed by an agent (RunManaged) or runs from a file     *)
(* (RunUnmanaged): then the endpoint opens after the output has started,   *)
(* and is left open while the output is closed at the end.                 *)
(*                                                                         *)
(* Events are abstract: what a request carries is how many it has.  A      *)
(* managed endpoint is up from the start and keeps its UUID; its own start *)
(* and stop are the business of grpcserver/inputhandler.go.                *)
(* PublishEvents passes its context to Publish, which does not look at it: *)
(* a client that gives up a call is no step, its handler goes on.          *)
(***************************************************************************)
EXTENDS PublisherServer

CONSTANTS
  Subscribers,   \* PersistedIndex streams
  MaxRequest,    \* bound: events in a request
  MaxRequests    \* bound: requests made

ASSUME ServerAssumption ==
  /\ MaxRequest \in Nat
  /\ MaxRequests \in Nat

VARIABLES
  managed,     \* RunManaged or RunUnmanaged
  pc,          \* where the handler of each client is
  todo,        \* events of the request not yet published
  reply,       \* the reply built so far; the last one while pc is "idle"
  sub,         \* the PersistedIndex streams
  initErr,     \* shipperServer.initErrMsg is set
  stopped,     \* the server context is cancelled, GracefulStop has begun
  requests,    \* requests made so far
  delivered    \* every <<epoch, id>> ever concluded (history)

handlerVars == <<pc, todo, reply>>
serverVars == <<managed, initErr, stopped, requests>>
vars == <<queueVars, runnerVars, handlerVars, sub, serverVars, delivered>>

\* AcceptedIndex, and the events it stands for; AcceptedCount is their number.
Reply == [index : Nat, entries : SUBSET (Nat \X Nat)]
NoReply == [index |-> 0, entries |-> {}]

\* A stream: the last index sent and, as history, the queue it came from.
Stream == [pc : {"idle", "check", "reset", "read", "poll"}, index : Nat, epoch : Nat]

Init ==
  /\ RunnerInit
  /\ managed \in BOOLEAN
  /\ pc = [c \in Clients |-> "idle"]
  /\ todo = [c \in Clients |-> 0]
  /\ reply = [c \in Clients |-> NoReply]
  /\ sub = [s \in Subscribers |-> [pc |-> "idle", index |-> 0, epoch |-> 0]]
  /\ initErr = FALSE
  /\ stopped = FALSE
  /\ requests = 0
  /\ delivered = {}

-----------------------------------------------------------------------------
(* PublishEvents *)

Goto(c, label) == pc' = [pc EXCEPT ![c] = label]

Accept(c) ==
  reply' = [reply EXCEPT ![c] =
              [index |-> nextID, entries |-> @.entries \cup {<<epoch, nextID>>}]]

\* The gRPC endpoint takes calls.  RunUnmanaged opens it after Start.
Serving ==
  /\ ~stopped
  /\ managed \/ ctl \notin {"idle", "starting", "monitoring", "output", "failed"}

\* A client sends a request.
Request(c) ==
  /\ Serving
  /\ pc[c] = "idle"
  /\ requests < MaxRequests
  /\ requests' = requests + 1
  /\ reply' = [reply EXCEPT ![c] = NoReply]
  /\ Goto(c, "check")
  /\ UNCHANGED <<todo, sub, managed, initErr, stopped, delivered>>
  /\ UNCHANGED <<queueVars, runnerVars>>

\* publisher.IsInitialized(), or the Unavailable error.
CheckInitialized(c) ==
  /\ pc[c] = "check"
  /\ queueMutex = "free"
  /\ Goto(c, IF IsInitialized THEN "reset" ELSE "idle")
  /\ UNCHANGED <<todo, reply, sub, serverVars, delivered>>
  /\ UNCHANGED <<queueVars, runnerVars>>

\* A request with another UUID, without events or, in strict mode, with an
\* event validateEvent finds incomplete.
Refuse(c) == Goto(c, "idle") /\ UNCHANGED todo

\* The error message is reset, without a lock, on what was seen before; then
\* the request is refused, or its events are published.
ResetAndValidate(c) ==
  /\ pc[c] = "reset"
  /\ initErr' = FALSE
  /\ \/ Refuse(c)
     \/ /\ \E n \in 1..MaxRequest : todo' = [todo EXCEPT ![c] = n]
        /\ Goto(c, "first")
  /\ UNCHANGED <<reply, sub, managed, stopped, requests, delivered>>
  /\ UNCHANGED <<queueVars, runnerVars>>

\* The first event is published with the call that blocks.
PublishFirst(c) ==
  /\ pc[c] = "first"
  /\ PublishBegins(c)
  /\ Goto(c, "blocked")
  /\ UNCHANGED <<todo, reply, sub, serverVars, delivered>>

PublishFirstFails(c) ==
  /\ pc[c] = "first"
  /\ queueMutex = "free"
  /\ ~attached
  /\ Goto(c, "idle")
  /\ UNCHANGED <<todo, reply, sub, serverVars, delivered>>
  /\ UNCHANGED <<queueVars, runnerVars>>

FirstPublished(c) ==
  /\ pc[c] = "blocked"
  /\ PublishEnds(c)
  /\ Accept(c)
  /\ todo' = [todo EXCEPT ![c] = @ - 1]
  /\ Goto(c, IF todo[c] = 1 THEN "idle" ELSE "rest")
  /\ UNCHANGED <<sub, serverVars, delivered>>

\* Mutant: the index of the reply stays that of the first event.
PublishRestKeepsIndex(c) ==
  /\ pc[c] = "rest"
  /\ TryPublish
  /\ reply' = [reply EXCEPT ![c].entries = @ \cup {<<epoch, nextID>>}]
  /\ todo' = [todo EXCEPT ![c] = @ - 1]
  /\ Goto(c, IF todo[c] = 1 THEN "idle" ELSE "rest")
  /\ UNCHANGED <<sub, serverVars, delivered>>

\* The others are tried one by one until one does not fit.
PublishRest(c) ==
  /\ pc[c] = "rest"
  /\ TryPublish
  /\ Accept(c)
  /\ todo' = [todo EXCEPT ![c] = @ - 1]
  /\ Goto(c, IF todo[c] = 1 THEN "idle" ELSE "rest")
  /\ UNCHANGED <<sub, serverVars, delivered>>

PublishRestFails(c) ==
  /\ pc[c] = "rest"
  /\ TryPublishFails
  /\ Goto(c, "idle")
  /\ UNCHANGED <<todo, reply, sub, serverVars, delivered>>

-----------------------------------------------------------------------------
(* PersistedIndex *)

StreamGoto(s, label) == sub' = [sub EXCEPT ![s].pc = label]

Subscribe(s) ==
  /\ Serving
  /\ sub[s].pc = "idle"
  /\ sub' = [sub EXCEPT ![s] = [pc |-> "check", index |-> 0, epoch |-> 0]]
  /\ UNCHANGED <<handlerVars, serverVars, delivered>>
  /\ UNCHANGED <<queueVars, runnerVars>>

StreamCheck(s) ==
  /\ sub[s].pc = "check"
  /\ queueMutex = "free"
  /\ StreamGoto(s, IF IsInitialized THEN "reset" ELSE "idle")
  /\ UNCHANGED <<handlerVars, serverVars, delivered>>
  /\ UNCHANGED <<queueVars, runnerVars>>

StreamReset(s) ==
  /\ sub[s].pc = "reset"
  /\ initErr' = FALSE
  /\ StreamGoto(s, "read")
  /\ UNCHANGED <<handlerVars, managed, stopped, requests, delivered>>
  /\ UNCHANGED <<queueVars, runnerVars>>

\* The first reply, after which a stream without polling interval, or whose
\* Send fails, is over; an error if the queue has gone since the check.
StreamFirst(s) ==
  /\ sub[s].pc = "read"
  /\ queueMutex = "free"
  /\ IF attached
       THEN \E label \in {"idle", "poll"} :
              sub' = [sub EXCEPT ![s] = [pc |-> label, index |-> PersistedIndex,
                                         epoch |-> epoch]]
       ELSE StreamGoto(s, "idle")
  /\ UNCHANGED <<handlerVars, serverVars, delivered>>
  /\ UNCHANGED <<queueVars, runnerVars>>

\* Mutant: the index is what was read, not what was acknowledged.
StreamTickUnread(s) ==
  /\ sub[s].pc = "poll"
  /\ queueMutex = "free"
  /\ attached
  /\ unread # sub[s].index
  /\ sub' = [sub EXCEPT ![s].index = unread, ![s].epoch = epoch]
  /\ UNCHANGED <<handlerVars, serverVars, delivered>>
  /\ UNCHANGED <<queueVars, runnerVars>>

\* Mutant: an advance by a single entry is taken for no change.
StreamTickByTwo(s) ==
  /\ sub[s].pc = "poll"
  /\ queueMutex = "free"
  /\ attached
  /\ PersistedIndex > sub[s].index + 1
  /\ sub' = [sub EXCEPT ![s].index = PersistedIndex, ![s].epoch = epoch]
  /\ UNCHANGED <<handlerVars, serverVars, delivered>>
  /\ UNCHANGED <<queueVars, runnerVars>>

\* The ticker fires: the index is sent if it differs from the last one.  With
\* no queue, or nothing new, the stream waits for the next tick.
StreamTick(s) ==
  /\ sub[s].pc = "poll"
  /\ queueMutex = "free"
  /\ attached
  /\ PersistedIndex # sub[s].index
  /\ sub' = [sub EXCEPT ![s].index = PersistedIndex, ![s].epoch = epoch]
  /\ UNCHANGED <<handlerVars, serverVars, delivered>>
  /\ UNCHANGED <<queueVars, runnerVars>>

\* The client has gone (its context is done or Send fails), or the server
\* context is done.
StreamEnds(s) ==
  /\ sub[s].pc = "poll"
  /\ StreamGoto(s, "idle")
  /\ UNCHANGED <<handlerVars, serverVars, delivered>>
  /\ UNCHANGED <<queueVars, runnerVars>>

-----------------------------------------------------------------------------
(* The controller *)

\* runController's loop is ready for the next unit change or signal.
Ready == ctl \in {"idle", "running", "failed"}

\* handleUnitAdded for the output unit, or RunUnmanaged.
AddOutput ==
  /\ ctl = "idle"
  /\ epoch < MaxEpochs
  /\ ctl' = "starting"
  /\ UNCHANGED <<attached, out, queueMutex, afterClose>>
  /\ UNCHANGED <<queueVars, handlerVars, sub, serverVars, delivered>>

\* updateShipperOutput: Close, followed by startShipper or by nothing.
UpdateOutput(next) ==
  /\ managed
  /\ Ready
  /\ next = "starting" => epoch < MaxEpochs
  /\ ctl' = "closing"
  /\ afterClose' = next
  /\ UNCHANGED <<attached, out, queueMutex>>
  /\ UNCHANGED <<queueVars, handlerVars, sub, serverVars, delivered>>

\* startShipper's success and its error paths, which tell the gRPC server;
\* RunUnmanaged has none to tell and returns the error.
StartStep ==
  /\ StartQueue \/ StartMonitoring \/ StartOutput
  /\ UNCHANGED <<handlerVars, sub, serverVars, delivered>>

StartFailed ==
  /\ \E stage \in StartFaults : StartFails(stage)
  /\ initErr' = managed
  /\ UNCHANGED <<handlerVars, sub, managed, stopped, requests, delivered>>

\* A signal, or the end of the context: the gRPC server is stopped first.
Shutdown ==
  /\ managed
  /\ Ready
  /\ stopped' = TRUE
  /\ ctl' = "graceful"
  /\ UNCHANGED <<attached, out, queueMutex, afterClose>>
  /\ UNCHANGED <<queueVars, handlerVars, sub, managed, initErr, requests, delivered>>

\* The same in RunUnmanaged: only the output is closed, under the handlers.
UnmanagedShutdown ==
  /\ ~managed
  /\ ctl = "running"
  /\ ctl' = "closing"
  /\ afterClose' = "exited"
  /\ UNCHANGED <<attached, out, queueMutex>>
  /\ UNCHANGED <<queueVars, handlerVars, sub, serverVars, delivered>>

NoHandlers ==
  /\ \A c \in Clients : pc[c] = "idle"
  /\ \A s \in Subscribers : sub[s].pc = "idle"

\* Mutant: Stop instead of GracefulStop, handlers are not waited for.
StopAbruptly ==
  /\ ctl = "graceful"
  /\ ctl' = "closing"
  /\ afterClose' = "exited"
  /\ UNCHANGED <<attached, out, queueMutex>>
  /\ UNCHANGED <<queueVars, handlerVars, sub, serverVars, delivered>>

\* GracefulStop has waited for all handlers; then the output is closed.
GracefulStopReturns ==
  /\ ctl = "graceful"
  /\ NoHandlers
  /\ ctl' = "closing"
  /\ afterClose' = "exited"
  /\ UNCHANGED <<attached, out, queueMutex>>
  /\ UNCHANGED <<queueVars, handlerVars, sub, serverVars, delivered>>

CloseStep ==
  /\ CloseLocked \/ CloseReturns
  /\ UNCHANGED <<handlerVars, sub, serverVars, delivered>>

-----------------------------------------------------------------------------
(* The output and the queue *)

OutputRuns ==
  /\ OutputGets \/ OutputConcludes \/ OutputReports \/ OutputStops \/ QueueAcknowledges
  /\ delivered' = delivered \cup {<<epoch', id>> : id \in concluded'}
  /\ UNCHANGED <<handlerVars, sub, serverVars>>

\* runController, or RunUnmanaged, has returned.
Exited ==
  /\ ctl = "exited" \/ (~managed /\ ctl = "failed")
  /\ UNCHANGED vars

\* The one way to hang with an output that keeps its contract: Start has failed
\* after it made the queue, requests were accepted all the same and filled it,
\* and a handler waits for room with the mutex in its hand.  Nobody reads the
\* queue, and Close, which would end the wait, needs the mutex.  (An output that
\* does not conclude what it has read fills its queue in the same way: see
\* ElasticsearchOutput for one, and Controller for what follows.)
StuckQueue ==
  /\ queueMutex \in Clients
  /\ IsFull
  /\ out \in {"nil", "created"}
  /\ ctl \in {"failed", "graceful", "closing"}

Hung == StuckQueue /\ UNCHANGED vars

-----------------------------------------------------------------------------

PublishEvents(c) ==
  \/ Request(c)
  \/ CheckInitialized(c)
  \/ ResetAndValidate(c)
  \/ PublishFirst(c)
  \/ PublishFirstFails(c)
  \/ FirstPublished(c)
  \/ PublishRest(c)
  \/ PublishRestFails(c)

PersistedIndexStream(s) ==
  \/ Subscribe(s)
  \/ StreamCheck(s)
  \/ StreamReset(s)
  \/ StreamFirst(s)
  \/ StreamTick(s)
  \/ StreamEnds(s)

Controller ==
  \/ AddOutput
  \/ \E next \in {"starting", "idle"} : UpdateOutput(next)
  \/ StartStep
  \/ StartFailed
  \/ Shutdown
  \/ UnmanagedShutdown
  \/ GracefulStopReturns
  \/ CloseStep

Next ==
  \/ \E c \in Clients : PublishEvents(c)
  \/ \E s \in Subscribers : PersistedIndexStream(s)
  \/ Controller
  \/ OutputRuns
  \/ Exited
  \/ Hung

Spec == Init /\ [][Next]_vars

\* A handler keeps running.  queueMutex is a Go mutex, which hands itself to
\* the longest waiter once that one has waited a millisecond: a handler that
\* finds it free again and again gets it (strong fairness).
HandlerStep(c) ==
  \/ CheckInitialized(c)
  \/ ResetAndValidate(c)
  \/ PublishFirst(c)
  \/ PublishFirstFails(c)
  \/ FirstPublished(c)
  \/ PublishRest(c)
  \/ PublishRestFails(c)

StreamStep(s) ==
  \/ StreamCheck(s)
  \/ StreamReset(s)
  \/ StreamFirst(s)
  \/ stopped /\ StreamEnds(s)

Fairness ==
  /\ \A c \in Clients : SF_vars(HandlerStep(c))
  /\ \A s \in Subscribers : SF_vars(StreamStep(s)) /\ SF_vars(StreamTick(s))
  /\ SF_vars(StartStep \/ StartFailed \/ GracefulStopReturns \/ CloseStep)
  /\ WF_vars(OutputRuns)

FairSpec == Spec /\ Fairness

-----------------------------------------------------------------------------
(* Properties *)

\* The state has the shape the Go types give it.
TypeOK ==
  /\ QueueTypeOK
  /\ attached \in BOOLEAN
  /\ out \in OutStates
  /\ queueMutex \in Clients \cup {"free", "controller"}
  /\ ctl \in CtlStates
  /\ afterClose \in {"starting", "idle", "exited"}
  /\ managed \in BOOLEAN
  /\ pc \in [Clients -> {"idle", "check", "reset", "first", "blocked", "rest"}]
  /\ todo \in [Clients -> Nat]
  /\ reply \in [Clients -> Reply]
  /\ sub \in [Subscribers -> Stream]
  /\ initErr \in BOOLEAN
  /\ stopped \in BOOLEAN
  /\ requests \in Nat
  /\ delivered \in SUBSET (Nat \X Nat)

\* No queue is closed, or taken away, under a handler that waits in Publish:
\* Close needs the mutex the handler holds, so ErrQueueIsClosed is an answer
\* no client ever gets.
QueueOpenWhilePublishing ==
  \A c \in Clients :
    pc[c] = "blocked" => queueMutex = c /\ attached /\ ~closed

\* Every index a PersistedIndex stream has sent is true of the queue it was
\* read from, also after that queue was closed and replaced: the output has
\* sent or discarded every event below it.
StreamsAreSound ==
  \A s \in Subscribers :
    \A id \in 0..(sub[s].index - 1) : <<sub[s].epoch, id>> \in delivered

\* AcceptedIndex is the index of the last event of the request that was
\* accepted, and no event of the request has a higher one in the same queue,
\* although other handlers and restarts come between the events.
AcceptedIndexIsLast ==
  \A c \in Clients :
    LET accepted == reply[c].entries IN
    accepted # {} =>
      \E last \in accepted :
        /\ last[2] = reply[c].index
        /\ \A e \in accepted :
             e[1] < last[1] \/ (e[1] = last[1] /\ e[2] <= last[2])

\* When no output is left (Close has returned), everything an output had read
\* was sent or discarded: a restart or a shutdown loses no event that was
\* taken out of the queue.
CloseFlushes == out = "nil" => concluded = 0..(unread - 1)

\* When a managed shipper shuts down, the output is closed only after the last
\* handler has returned, and no handler starts any more: no request is cut off
\* by the shutdown.
NoHandlerOutlivesOutput == managed /\ afterClose = "exited" => NoHandlers

\* A stream that polls one queue only ever sends higher indices.
StreamsAscend ==
  [][\A s \in Subscribers :
       (sub[s].pc = "poll" /\ sub'[s].pc = "poll" /\ sub'[s].epoch = sub[s].epoch)
         => sub'[s].index >= sub[s].index]_vars

\* With an output that concludes all it reads, every PublishEvents call gets an
\* answer, also across restarts, failed starts and the shutdown, unless the
\* queue is stuck behind a failed start.  RunUnmanaged may end the process first.
RequestsAreAnswered ==
  \A c \in Clients :
    pc[c] # "idle" ~> pc[c] = "idle" \/ StuckQueue \/ (~managed /\ ctl = "exited")

\* A restart or shutdown once begun ends: Close gets the mutex in spite of the
\* handlers that hold it while they wait for room, and Wait returns.  While
\* outputs conclude what they read, only a queue stuck behind a failed start
\* keeps it.
CloseCompletes ==
  ctl \in {"graceful", "closing"}
    ~> ctl \in {"idle", "starting", "exited"} \/ StuckQueue

\* A stream learns of progress: one that is behind the persisted index catches
\* up with it, unless it ends or the queue goes away.
ProgressIsReported ==
  \A s \in Subscribers :
    (sub[s].pc = "poll" /\ attached /\ PersistedIndex > sub[s].index)
      ~> (sub[s].pc # "poll" \/ ~attached \/ sub[s].index >= PersistedIndex)

\* Requests being finitely many, the persisted index catches up with the
\* indices handed out for accepted events, unless the queue is closed first or
\* its output has failed to start, or leaves an event it has read behind.
AcceptedIsPersisted ==
  (~closed /\ PersistedIndex < nextID)
    ~> (closed \/ PersistedIndex = nextID \/ ctl = "failed" \/ StuckQueue)

\* What a client may conclude from a reply and a stream together: once the queue
\* that accepted its last event has reported an index above AcceptedIndex, all
\* events of the request that this queue accepted are sent or discarded, also if
\* other requests or a restart came between them.
ConfirmedIsDelivered ==
  \A s \in Subscribers, c \in Clients :
    (/\ \A e \in reply[c].entries : e[1] <= sub[s].epoch
     /\ sub[s].index > reply[c].index)
      => \A e \in reply[c].entries : e[1] = sub[s].epoch => e \in delivered

\* When the goroutines that have something to do are not kept from doing it:
\* each line is the guard of an action.
HandlerCanStep(c) ==
  \/ pc[c] = "reset"
  \/ pc[c] \in {"check", "first", "rest"} /\ queueMutex = "free"
  \/ pc[c] = "blocked" /\ queueMutex = c /\ ~closed /\ ~IsFull

StreamCanStep(s) ==
  \/ sub[s].pc = "reset"
  \/ sub[s].pc \in {"check", "read"} /\ queueMutex = "free"
  \/ sub[s].pc = "poll" /\ stopped

ControllerCanStep ==
  \/ ctl \in {"starting", "monitoring", "output"}
  \/ ctl = "graceful" /\ NoHandlers
  \/ ctl = "closing" /\ queueMutex = "free"
  \/ ctl = "draining" /\ WaitReturns

OutputCanStep ==
  \/ out = "running" /\ (closed \/ unread < nextID)
  \/ /\ out \in {"running", "stopped"}
     /\ \/ \E id \in oldest..(unread - 1) : id \notin concluded
        \/ \E i \in DOMAIN batches : Unreported(batches[i]) > 0
  \/ ~closed /\ batches # <<>> /\ Completed(Head(batches))

\* A call is being answered, a stream begins or has to end, or the controller
\* is between two of the states in which it waits for a change.
Busy ==
  \/ \E c \in Clients : pc[c] # "idle"
  \/ \E s \in Subscribers : sub[s].pc \notin {"idle", "poll"} \/ (sub[s].pc = "poll" /\ stopped)
  \/ ctl \in {"starting", "monitoring", "output", "graceful", "closing", "draining"}

\* Waiting for the mutex, for room in the queue, for the handlers or for the
\* output never closes a circle: while anyone waits, somebody can go on, unless
\* the queue is stuck behind a failed start.  That the output can go on with
\* what it has read is its contract.
NobodyWaitsInVain ==
  Busy =>
    \/ \E c \in Clients : HandlerCanStep(c)
    \/ \E s \in Subscribers : StreamCanStep(s)
    \/ ControllerCanStep
    \/ OutputCanStep
    \/ StuckQueue

\* Nothing frees a queue that is stuck: no handler gets the mutex and no event
\* is accepted any more, no start or shutdown comes to its end.
StuckForever ==
  [][StuckQueue => /\ StuckQueue'
                   /\ UNCHANGED <<queueMutex, attached, nextID>>]_vars

-----------------------------------------------------------------------------
(* The inductive invariant *)

\* The mutex is held by the handler that waits in Publish or by Close, and
\* only while there is a queue to wait for, or after it has been closed.
LockInv ==
  /\ \A c \in Clients : pc[c] = "blocked" <=> queueMutex = c
  /\ queueMutex \in Clients => attached
  /\ queueMutex = "controller" <=> ctl = "draining"
  /\ attached <=> ~closed
  /\ ctl \in {"idle", "starting", "draining", "exited"} => ~attached
  /\ ctl \in {"monitoring", "output", "running"} => attached

\* An output exists from the end of Start until Close returns, entries are only
\* read while it does, and it ends only with its queue.
OutInv ==
  /\ ctl \in {"idle", "starting", "monitoring", "output", "exited"} => out = "nil"
  /\ ctl = "running" => out = "running"
  /\ out = "stopped" => closed
  /\ attached /\ out \in {"nil", "created"} => batches = <<>>
  /\ out \in {"nil", "created"} => concluded = 0..(unread - 1)

\* The shutdown order: first the gRPC server, then the output.
ShutdownInv ==
  /\ ctl = "graceful" => stopped /\ managed
  /\ ctl = "exited" => afterClose = "exited"
  /\ afterClose = "exited" =>
       /\ ctl \in {"closing", "draining", "exited"}
       /\ managed => stopped /\ NoHandlers

\* A handler that publishes has an event to publish.
TodoInv == \A c \in Clients : pc[c] \in {"first", "blocked", "rest"} => todo[c] > 0

\* Streams and replies speak of queues there have been, and of the current
\* queue they say no more than it does.
HistoryInv ==
  /\ \A id \in concluded : <<epoch, id>> \in delivered
  /\ \A s \in Subscribers :
       /\ sub[s].epoch <= epoch
       /\ sub[s].epoch = epoch => sub[s].index <= oldest
  /\ \A c \in Clients : \A e \in reply[c].entries :
       e[1] <= epoch /\ (e[1] = epoch => e[2] < nextID)

\* Inductive; the last two follow from the others.
ServerInv ==
  /\ TypeOK
  /\ QueueInv
  /\ LockInv
  /\ TodoInv
  /\ OutInv
  /\ ShutdownInv
  /\ HistoryInv
  /\ StreamsAreSound
  /\ AcceptedIndexIsLast
  /\ ConfirmedIsDelivered
  /\ NobodyWaitsInVain

-----------------------------------------------------------------------------
(* What a comment in the code says, and the code does not do *)

\* "EntryID is a unique ascending id ... to handle acknowledgments within the
\* shipper and report progress to the client": an index reported as persisted
\* beyond the accepted index of a reply, by the queue that accepted it or a
\* later one, covers the events of that reply.
PersistedCoversReplies ==
  \A s \in Subscribers, c \in Clients :
    (/\ pc[c] = "idle"
     /\ reply[c].entries # {}
     /\ \A e \in reply[c].entries : e[1] <= sub[s].epoch
     /\ sub[s].index > reply[c].index)
      => reply[c].entries \subseteq delivered
=============================================================================
