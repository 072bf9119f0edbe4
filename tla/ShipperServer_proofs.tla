----------------------- MODULE ShipperServer_proofs -----------------------
(***************************************************************************)
(* The safety properties of the composed system, for any number of clients *)
(* and streams, any capacity and any sequence of restarts and failures,    *)
(* and what can keep its goroutines waiting for each other.                *)
(* ServerInv is inductive; its conjuncts are kept one lemma at a time,     *)
(* each by cases on the goroutine that takes the step.                     *)
(***************************************************************************)
EXTENDS ShipperServer, EventQueue_proofs

-----------------------------------------------------------------------------
(* What each goroutine leaves alone *)

LEMMA HandlerFrame ==
  ASSUME NEW c \in Clients, PublishEvents(c)
  PROVE  /\ UNCHANGED <<attached, out, ctl, afterClose, sub, managed, stopped, delivered>>
         /\ Enqueue \/ UNCHANGED queueVars
BY DEF PublishEvents, Request, CheckInitialized, ResetAndValidate, Refuse,
       PublishFirst, PublishFirstFails, FirstPublished, PublishRest,
       PublishRestFails, PublishBegins, PublishEnds, TryPublish, TryPublishFails,
       runnerVars, handlerVars, serverVars

LEMMA StreamFrame ==
  ASSUME NEW s \in Subscribers, PersistedIndexStream(s)
  PROVE  /\ UNCHANGED <<attached, out, queueMutex, ctl, afterClose>>
         /\ UNCHANGED <<pc, todo, reply, managed, stopped, requests, delivered>>
         /\ UNCHANGED queueVars
BY DEF PersistedIndexStream, Subscribe, StreamCheck, StreamReset, StreamFirst,
       StreamTick, StreamEnds, runnerVars, handlerVars, serverVars

LEMMA ControllerFrame ==
  ASSUME Controller
  PROVE  /\ UNCHANGED <<pc, todo, reply, sub, managed, requests, delivered>>
         /\ New \/ Close \/ UNCHANGED queueVars
BY DEF Controller, AddOutput, UpdateOutput, StartStep, StartFailed, Shutdown,
       UnmanagedShutdown, GracefulStopReturns, CloseStep, StartQueue,
       StartMonitoring, StartOutput, StartFails, CloseLocked, CloseReturns,
       handlerVars, serverVars

LEMMA OutputFrame ==
  ASSUME OutputRuns
  PROVE  /\ UNCHANGED <<attached, queueMutex, ctl, afterClose>>
         /\ UNCHANGED <<pc, todo, reply, sub, managed, initErr, stopped, requests>>
         /\ delivered' = delivered \cup {<<epoch', id>> : id \in concluded'}
         /\ OutputStep \/ Acknowledge \/ UNCHANGED queueVars
BY DEF OutputRuns, OutputGets, OutputConcludes, OutputReports, OutputStops,
       QueueAcknowledges, OutputStep, runnerVars, handlerVars, serverVars

\* Whatever happens to the queue is one of its operations.
LEMMA QueueOperations ==
  ASSUME [Next]_vars
  PROVE  New \/ Enqueue \/ OutputStep \/ Acknowledge \/ Close \/ UNCHANGED queueVars
BY HandlerFrame, StreamFrame, ControllerFrame, OutputFrame DEF Next, Exited, Hung, vars

LEMMA QueueInvKept ==
  ASSUME ServerInv, [Next]_vars
  PROVE  QueueInv'
<1>1. QueueInv
  BY DEF ServerInv
<1> QED
  BY <1>1, QueueOperations, NewKeeps, EnqueueKeeps, OutputKeeps, AcknowledgeKeeps,
     CloseKeeps, UnchangedKeeps

-----------------------------------------------------------------------------
(* Types *)

LEMMA TypeKept ==
  ASSUME ServerInv, [Next]_vars
  PROVE  TypeOK'
<1>0. TypeOK
  BY DEF ServerInv
<1>q. QueueTypeOK'
  BY QueueInvKept DEF QueueInv
<1>n. nextID \in Nat /\ epoch \in Nat /\ oldest \in Nat
  BY <1>0 DEF TypeOK, QueueTypeOK
<1>1. ASSUME NEW c \in Clients, PublishEvents(c)
      PROVE  TypeOK'
  <2>f. UNCHANGED <<attached, out, ctl, afterClose, sub, managed, stopped, delivered>>
    BY <1>1, HandlerFrame
  <2>1. queueMutex' \in Clients \cup {"free", "controller"}
    BY <1>0, <1>1
    DEF TypeOK, PublishEvents, Request, CheckInitialized, ResetAndValidate, Refuse,
        PublishFirst, PublishFirstFails, FirstPublished, PublishRest,
        PublishRestFails, PublishBegins, PublishEnds, TryPublish, TryPublishFails,
        runnerVars
  <2>2. pc' \in [Clients -> {"idle", "check", "reset", "first", "blocked", "rest"}]
    BY <1>0, <1>1
    DEF TypeOK, PublishEvents, Request, CheckInitialized, ResetAndValidate, Refuse,
        PublishFirst, PublishFirstFails, FirstPublished, PublishRest,
        PublishRestFails, Goto
  <2>3. todo' \in [Clients -> Nat]
    <3> USE <1>0 DEF TypeOK
    <3>1. CASE ResetAndValidate(c)
      BY <3>1, ServerAssumption DEF ResetAndValidate, Refuse
    <3>2. CASE FirstPublished(c) \/ PublishRest(c)
      <4>1. todo[c] - 1 \in Nat
        BY <3>2 DEF ServerInv, TodoInv, FirstPublished, PublishRest
      <4> QED
        BY <3>2, <4>1 DEF FirstPublished, PublishRest
    <3>3. CASE UNCHANGED todo
      BY <3>3
    <3> QED
      BY <1>1, <3>1, <3>2, <3>3
      DEF PublishEvents, Request, CheckInitialized,
          PublishFirst, PublishFirstFails, PublishRestFails
  <2>4. reply' \in [Clients -> Reply]
    <3>1. NoReply \in Reply
      BY DEF NoReply, Reply
    <3>2. [index |-> nextID, entries |-> reply[c].entries \cup {<<epoch, nextID>>}]
            \in Reply
      BY <1>0, <1>n DEF TypeOK, Reply
    <3>3. reply \in [Clients -> Reply]
      BY <1>0 DEF TypeOK
    <3>4. CASE Request(c)
      BY <3>1, <3>3, <3>4 DEF Request
    <3>5. CASE Accept(c)
      BY <3>2, <3>3, <3>5 DEF Accept
    <3>6. CASE UNCHANGED reply
      BY <3>3, <3>6
    <3> QED
      BY <1>1, <3>4, <3>5, <3>6
      DEF PublishEvents, CheckInitialized, ResetAndValidate, Refuse,
          PublishFirst, PublishFirstFails, FirstPublished, PublishRest,
          PublishRestFails
  <2>5. initErr' \in BOOLEAN /\ requests' \in Nat
    <3>1. initErr' \in {initErr, FALSE} /\ requests' \in {requests, requests + 1}
      BY <1>1
      DEF PublishEvents, Request, CheckInitialized, ResetAndValidate, Refuse,
          PublishFirst, PublishFirstFails, FirstPublished, PublishRest,
          PublishRestFails, serverVars
    <3>2. initErr \in BOOLEAN /\ requests \in Nat
      BY <1>0 DEF TypeOK
    <3>3. initErr' \in BOOLEAN
      BY <3>1, <3>2, Zenon
    <3>4. requests' \in Nat
      BY <3>1, <3>2
    <3> QED
      BY <3>3, <3>4
  <2> QED
    BY <2>f, <2>1, <2>2, <2>3, <2>4, <2>5, <1>0, <1>q DEF TypeOK
<1>2. ASSUME NEW s \in Subscribers, PersistedIndexStream(s)
      PROVE  TypeOK'
  <2>f. /\ UNCHANGED <<attached, out, queueMutex, ctl, afterClose>>
        /\ UNCHANGED <<pc, todo, reply, managed, stopped, requests, delivered>>
    BY <1>2, StreamFrame
  <2>1. sub \in [Subscribers -> Stream] /\ sub[s] \in Stream
    BY <1>0 DEF TypeOK
  <2>2. ASSUME NEW label \in {"idle", "check", "reset", "read", "poll"},
               NEW i \in Nat, NEW e \in Nat
        PROVE  [sub EXCEPT ![s] = [pc |-> label, index |-> i, epoch |-> e]]
                 \in [Subscribers -> Stream]
    <3>1. [pc |-> label, index |-> i, epoch |-> e] \in Stream
      BY DEF Stream
    <3> QED
      BY <2>1, <3>1
  <2>3. ASSUME NEW label \in {"idle", "reset", "read"}, StreamGoto(s, label)
        PROVE  sub' \in [Subscribers -> Stream]
    <3>1. [sub[s] EXCEPT !.pc = label] \in Stream
      BY <2>1 DEF Stream
    <3>2. sub' = [sub EXCEPT ![s] = [sub[s] EXCEPT !.pc = label]]
      BY <2>1, <2>3 DEF StreamGoto
    <3> QED
      BY <2>1, <3>1, <3>2
  <2>5. sub' \in [Subscribers -> Stream]
    <3>1. CASE Subscribe(s)
      BY <3>1, <2>2 DEF Subscribe
    <3>2. CASE \E label \in {"idle", "reset", "read"} : StreamGoto(s, label)
      BY <3>2, <2>3
    <3>3. CASE StreamFirst(s)
      <4>1. CASE attached
        <5>1. PICK label \in {"idle", "poll"} :
                sub' = [sub EXCEPT ![s] = [pc |-> label, index |-> oldest,
                                           epoch |-> epoch]]
          BY <3>3, <4>1 DEF StreamFirst, PersistedIndex
        <5>2. label \in {"idle", "check", "reset", "read", "poll"}
          OBVIOUS
        <5> QED
          BY <5>1, <5>2, <2>2, <1>n
      <4>2. CASE ~attached
        BY <3>3, <4>2, <2>3 DEF StreamFirst
      <4> QED
        BY <4>1, <4>2
    <3>4. CASE StreamTick(s)
      <4>1. [[sub[s] EXCEPT !.index = oldest] EXCEPT !.epoch = epoch] \in Stream
        BY <2>1, <1>n DEF Stream
      <4>2. sub' = [sub EXCEPT ![s] =
                      [[sub[s] EXCEPT !.index = oldest] EXCEPT !.epoch = epoch]]
        BY <2>1, <3>4 DEF StreamTick, PersistedIndex
      <4> QED
        BY <2>1, <4>1, <4>2
    <3> QED
      BY <1>2, <3>1, <3>2, <3>3, <3>4
      DEF PersistedIndexStream, StreamCheck, StreamReset, StreamEnds
  <2>4. initErr' \in BOOLEAN
    BY <1>0, <1>2
    DEF TypeOK, PersistedIndexStream, Subscribe, StreamCheck, StreamReset,
        StreamFirst, StreamTick, StreamEnds, serverVars
  <2> QED
    BY <2>f, <2>4, <2>5, <1>0, <1>q DEF TypeOK
<1>3. CASE Controller
  <2>f. UNCHANGED <<pc, todo, reply, sub, managed, requests, delivered>>
    BY <1>3, ControllerFrame
  <2>1. /\ attached' \in BOOLEAN
        /\ out' \in OutStates
        /\ queueMutex' \in Clients \cup {"free", "controller"}
        /\ ctl' \in CtlStates
        /\ afterClose' \in {"starting", "idle", "exited"}
        /\ initErr' \in BOOLEAN
        /\ stopped' \in BOOLEAN
    <3> USE <1>0 DEF TypeOK, OutStates, CtlStates, serverVars
    <3>1. CASE AddOutput \/ Shutdown \/ UnmanagedShutdown \/ GracefulStopReturns
      BY <3>1 DEF AddOutput, Shutdown, UnmanagedShutdown, GracefulStopReturns
    <3>2. ASSUME NEW next \in {"starting", "idle"}, UpdateOutput(next)
          PROVE  <2>1!:
      BY <3>2 DEF UpdateOutput
    <3>3. CASE StartStep
      BY <3>3 DEF StartStep, StartQueue, StartMonitoring, StartOutput
    <3>4. CASE StartFailed
      BY <3>4 DEF StartFailed, StartFails
    <3>5. CASE CloseStep
      BY <3>5 DEF CloseStep, CloseLocked, CloseReturns
    <3> QED
      BY <1>3, <3>1, <3>2, <3>3, <3>4, <3>5 DEF Controller
  <2> QED
    BY <2>f, <2>1, <1>0, <1>q DEF TypeOK
<1>4. CASE OutputRuns
  <2>f. /\ UNCHANGED <<attached, queueMutex, ctl, afterClose>>
        /\ UNCHANGED <<pc, todo, reply, sub, managed, initErr, stopped, requests>>
        /\ delivered' = delivered \cup {<<epoch', id>> : id \in concluded'}
    BY <1>4, OutputFrame
  <2>1. out' \in OutStates
    BY <1>0, <1>4
    DEF TypeOK, OutStates, OutputRuns, OutputGets, OutputConcludes, OutputReports,
        OutputStops, QueueAcknowledges, runnerVars
  <2>2. delivered' \in SUBSET (Nat \X Nat)
    BY <2>f, <1>0, <1>q DEF TypeOK, QueueTypeOK
  <2> QED
    BY <2>f, <2>1, <2>2, <1>0, <1>q DEF TypeOK
<1>5. CASE UNCHANGED vars
  BY <1>0, <1>5, <1>q
  DEF TypeOK, vars, runnerVars, handlerVars, serverVars
<1> QED
  BY <1>1, <1>2, <1>3, <1>4, <1>5 DEF Next, Exited, Hung

-----------------------------------------------------------------------------
(* The mutex *)

LEMMA LockKept ==
  ASSUME ServerInv, [Next]_vars
  PROVE  LockInv'
<1>0. TypeOK /\ LockInv
  BY DEF ServerInv
<1>1. ASSUME NEW c \in Clients, PublishEvents(c)
      PROVE  LockInv'
  <2>f. UNCHANGED <<attached, out, ctl, afterClose>> /\ closed' = closed
    BY <1>1, HandlerFrame DEF Enqueue, queueVars
  <2>1. CASE PublishFirst(c)
    BY <1>0, <2>f, <2>1, RunnerAssumption
    DEF LockInv, TypeOK, PublishFirst, PublishBegins, Goto
  <2>2. CASE FirstPublished(c)
    BY <1>0, <2>f, <2>2, RunnerAssumption
    DEF LockInv, TypeOK, FirstPublished, PublishEnds, Goto
  <2>3. CASE queueMutex' = queueMutex /\ pc[c] # "blocked"
             /\ \E label \in {"idle", "check", "reset", "first", "rest"} : Goto(c, label)
    BY <1>0, <2>f, <2>3 DEF LockInv, TypeOK, Goto
  <2>4. CASE queueMutex' = queueMutex /\ pc' = pc
    BY <1>0, <2>f, <2>4 DEF LockInv
  <2> QED
    BY <1>0, <1>1, <2>1, <2>2, <2>3, <2>4
    DEF PublishEvents, Request, CheckInitialized, ResetAndValidate, Refuse,
        PublishFirstFails, PublishRest, PublishRestFails, TryPublish,
        TryPublishFails, runnerVars
<1>2. ASSUME NEW s \in Subscribers, PersistedIndexStream(s)
      PROVE  LockInv'
  BY <1>0, <1>2, StreamFrame DEF LockInv, queueVars
<1>3. CASE Controller
  <2>f. pc' = pc
    BY <1>3, ControllerFrame
  <2>1. CASE StartStep
    BY <1>0, <2>f, <2>1
    DEF LockInv, TypeOK, StartStep, StartQueue, StartMonitoring, StartOutput, New,
        queueVars
  <2>2. CASE CloseStep
    BY <1>0, <2>f, <2>2, RunnerAssumption
    DEF LockInv, TypeOK, CloseStep, CloseLocked, CloseReturns, Close, queueVars
  <2>3. CASE AddOutput \/ StartFailed \/ Shutdown \/ UnmanagedShutdown
             \/ GracefulStopReturns
             \/ \E next \in {"starting", "idle"} : UpdateOutput(next)
    BY <1>0, <2>f, <2>3
    DEF LockInv, AddOutput, UpdateOutput, Ready, StartFailed, StartFails, Shutdown,
        UnmanagedShutdown, GracefulStopReturns, queueVars
  <2> QED
    BY <1>3, <2>1, <2>2, <2>3 DEF Controller
<1>4. CASE OutputRuns
  <2>1. closed' = closed
    BY <1>4, OutputFrame
    DEF OutputStep, Get, Conclude, ReportDone, Done, Acknowledge, queueVars
  <2> QED
    BY <1>0, <1>4, <2>1, OutputFrame DEF LockInv
<1>5. CASE UNCHANGED vars
  BY <1>0, <1>5 DEF LockInv, vars, queueVars, runnerVars, handlerVars
<1> QED
  BY <1>1, <1>2, <1>3, <1>4, <1>5 DEF Next, Exited, Hung

LEMMA TodoKept ==
  ASSUME ServerInv, [Next]_vars
  PROVE  TodoInv'
<1>0. TypeOK /\ TodoInv
  BY DEF ServerInv
<1>1. ASSUME NEW c \in Clients, PublishEvents(c)
      PROVE  TodoInv'
  <2>1. CASE FirstPublished(c) \/ PublishRest(c)
    BY <1>0, <2>1 DEF TypeOK, TodoInv, FirstPublished, PublishRest, Goto
  <2>2. CASE Request(c) \/ ResetAndValidate(c)
    BY <1>0, <2>2, ServerAssumption
     DEF TypeOK, TodoInv, Request, ResetAndValidate, Refuse, Goto
  <2>3. CASE PublishFirst(c)
    BY <1>0, <2>3 DEF TypeOK, TodoInv, PublishFirst, Goto
  <2>4. CASE todo' = todo /\ \E label \in {"idle", "reset"} : Goto(c, label)
    BY <1>0, <2>4 DEF TypeOK, TodoInv, Goto
  <2>5. CASE todo' = todo /\ pc' = pc
    BY <1>0, <2>5 DEF TodoInv
  <2> QED
    BY <1>1, <2>1, <2>2, <2>3, <2>4, <2>5
    DEF PublishEvents, CheckInitialized, PublishFirstFails, PublishRestFails
<1>2. CASE pc' = pc /\ todo' = todo
  BY <1>0, <1>2 DEF TodoInv
<1> QED
  BY <1>1, <1>2, StreamFrame, ControllerFrame, OutputFrame
  DEF Next, Exited, Hung, vars, handlerVars

-----------------------------------------------------------------------------
(* The output and the shutdown *)

LEMMA OutKept ==
  ASSUME ServerInv, [Next]_vars
  PROVE  OutInv'
<1>0. TypeOK /\ OutInv /\ QueueInv /\ LockInv
  BY DEF ServerInv
<1>1. CASE UNCHANGED <<ctl, out, attached, closed, batches, concluded, unread>>
  BY <1>0, <1>1 DEF OutInv
<1>2. ASSUME NEW c \in Clients, PublishEvents(c)
      PROVE  OutInv'
  BY <1>1, <1>2, HandlerFrame DEF Enqueue, queueVars
<1>3. ASSUME NEW s \in Subscribers, PersistedIndexStream(s)
      PROVE  OutInv'
  BY <1>1, <1>3, StreamFrame DEF queueVars
<1>4. CASE Controller
  <2>1. CASE StartStep
    <3>1. CASE StartQueue
      <4>1. 0..(0 - 1) = {}
        OBVIOUS
      <4> QED
        BY <1>0, <3>1, <4>1 DEF OutInv, StartQueue, New
    <3>2. CASE StartMonitoring \/ StartOutput
      BY <1>0, <3>2 DEF OutInv, StartMonitoring, StartOutput, queueVars
    <3> QED
      BY <2>1, <3>1, <3>2 DEF StartStep
  <2>2. CASE StartFailed
    BY <1>0, <2>2 DEF OutInv, StartFailed, StartFails, queueVars
  <2>3. CASE AddOutput \/ Shutdown \/ UnmanagedShutdown \/ GracefulStopReturns
             \/ \E next \in {"starting", "idle"} : UpdateOutput(next)
    BY <1>0, <2>3
    DEF OutInv, AddOutput, Shutdown, UnmanagedShutdown, GracefulStopReturns,
        UpdateOutput, Ready, queueVars
  <2>4. CASE CloseLocked
    BY <1>0, <2>4 DEF OutInv, LockInv, CloseLocked, Close, queueVars
  <2>5. CASE CloseReturns
    <3>1. concluded = 0..(unread - 1)
      <4>1. CASE out \in {"nil", "created"}
        BY <1>0, <4>1 DEF OutInv
      <4>2. CASE Drained
        <5>1. concluded \subseteq 0..(unread - 1)
          BY <1>0 DEF QueueInv, ReadBeforeConcluded
        <5>2. ASSUME NEW id \in 0..(unread - 1)
              PROVE  id \in concluded
          <6>0. oldest \in Nat /\ unread \in Nat
            BY <1>0 DEF QueueInv, QueueTypeOK
          <6>1. CASE id < oldest
            <7>1. id \in 0..(oldest - 1)
              BY <6>0, <6>1
            <7> QED
              BY <7>1, <1>0 DEF QueueInv, PersistedIsConcluded, PersistedIndex
          <6>2. CASE ~(id < oldest)
            <7>1. id \in oldest..(unread - 1)
              BY <6>0, <6>2
            <7>2. PICK i \in DOMAIN batches : id \in Entries(batches[i])
              BY <7>1, <1>0 DEF QueueInv, BatchesCoverRead
            <7>3. /\ batches[i] \in WrappedBatch
                  /\ batches[i].count \in Nat
                  /\ batches[i].doneCount \in Nat
              <8>1. batches[i] \in WrappedBatch
                BY <1>0 DEF QueueInv, QueueTypeOK
              <8> QED
                BY <8>1 DEF WrappedBatch
            <7>4. batches[i].count <= batches[i].doneCount
              BY <4>2, <7>3 DEF Drained, Completed
            <7>5. batches[i].doneCount
                    <= Cardinality(concluded \cap Entries(batches[i]))
              BY <1>0 DEF QueueInv, DoneIsConcluded
            <7>6. batches[i].count
                    <= Cardinality(concluded \cap Entries(batches[i]))
              <8>1. Cardinality(concluded \cap Entries(batches[i])) \in Nat
                BY <7>3, PartCount
              <8> QED
                BY <8>1, <7>3, <7>4, <7>5
            <7> QED
              BY <7>2, <7>3, <7>6, FullCount
          <6> QED
            BY <6>1, <6>2
        <5> QED
          BY <5>1, <5>2
      <4> QED
        BY <2>5, <4>1, <4>2 DEF CloseReturns, WaitReturns
    <3> QED
      BY <1>0, <2>5, <3>1 DEF OutInv, LockInv, TypeOK, CloseReturns, queueVars
  <2> QED
    BY <1>4, <2>1, <2>2, <2>3, <2>4, <2>5 DEF Controller, CloseStep
<1>5. CASE OutputRuns
  <2>1. CASE OutputGets \/ OutputConcludes \/ OutputReports
    BY <1>0, <2>1
    DEF OutInv, OutputGets, OutputConcludes, OutputReports, Get, Conclude, ReportDone,
        Done, runnerVars
  <2>2. CASE OutputStops
    BY <1>0, <2>2 DEF OutInv, LockInv, OutputStops, queueVars
  <2>3. CASE QueueAcknowledges
    <3>1. attached /\ out \notin {"nil", "created"}
      BY <1>0, <2>3 DEF LockInv, OutInv, QueueAcknowledges, Acknowledge
    <3> QED
      BY <1>0, <2>3, <3>1 DEF OutInv, QueueAcknowledges, Acknowledge, runnerVars
  <2> QED
    BY <1>5, <2>1, <2>2, <2>3 DEF OutputRuns
<1> QED
  BY <1>1, <1>2, <1>3, <1>4, <1>5 DEF Next, Exited, Hung, vars, queueVars, runnerVars

LEMMA ShutdownKept ==
  ASSUME ServerInv, [Next]_vars
  PROVE  ShutdownInv'
<1>0. TypeOK /\ ShutdownInv
  BY DEF ServerInv
<1>1. CASE UNCHANGED <<ctl, afterClose, managed, stopped, pc, sub>>
  BY <1>0, <1>1 DEF ShutdownInv, NoHandlers
<1>2. ASSUME NEW c \in Clients, PublishEvents(c)
      PROVE  ShutdownInv'
  <2>1. pc[c] # "idle" \/ ~stopped
    BY <1>2
    DEF PublishEvents, Request, CheckInitialized, ResetAndValidate, Refuse,
        PublishFirst, PublishFirstFails, FirstPublished, PublishRest,
        PublishRestFails, Serving
  <2>2. ~(managed /\ afterClose = "exited")
    BY <1>0, <2>1 DEF ShutdownInv, NoHandlers
  <2> QED
    BY <1>0, <1>2, <2>2, HandlerFrame DEF ShutdownInv
<1>3. ASSUME NEW s \in Subscribers, PersistedIndexStream(s)
      PROVE  ShutdownInv'
  <2>1. sub[s].pc # "idle" \/ ~stopped
    BY <1>3
    DEF PersistedIndexStream, Subscribe, StreamCheck, StreamReset, StreamFirst,
        StreamTick, StreamEnds, Serving
  <2>2. ~(managed /\ afterClose = "exited")
    BY <1>0, <2>1 DEF ShutdownInv, NoHandlers
  <2> QED
    BY <1>0, <1>3, <2>2, StreamFrame DEF ShutdownInv
<1>4. CASE Controller
  <2>f. pc' = pc /\ sub' = sub
    BY <1>4, ControllerFrame
  <2>1. CASE StartStep
    BY <1>0, <2>1, <2>f
    DEF ShutdownInv, NoHandlers, StartStep, StartQueue, StartMonitoring,
        StartOutput, serverVars
  <2>2. CASE StartFailed
    BY <1>0, <2>2, <2>f
    DEF ShutdownInv, NoHandlers, StartFailed, StartFails
  <2>3. CASE AddOutput \/ Shutdown \/ UnmanagedShutdown
             \/ \E next \in {"starting", "idle"} : UpdateOutput(next)
    BY <1>0, <2>3, <2>f
    DEF ShutdownInv, NoHandlers, AddOutput, Shutdown, UnmanagedShutdown,
        UpdateOutput, Ready, serverVars
  <2>4. CASE GracefulStopReturns
    BY <1>0, <2>4, <2>f
    DEF ShutdownInv, NoHandlers, GracefulStopReturns, serverVars
  <2>5. CASE CloseStep
    BY <1>0, <2>5, <2>f
    DEF TypeOK, ShutdownInv, NoHandlers, CloseStep, CloseLocked, CloseReturns,
        serverVars
  <2> QED
    BY <1>4, <2>1, <2>2, <2>3, <2>4, <2>5 DEF Controller
<1>5. CASE OutputRuns
  BY <1>1, <1>5, OutputFrame
<1> QED
  BY <1>1, <1>2, <1>3, <1>4, <1>5
  DEF Next, Exited, Hung, vars, runnerVars, handlerVars, serverVars

-----------------------------------------------------------------------------
(* Streams and replies *)

\* What an operation does to the cursors the history is compared with.
LEMMA QueueProgress ==
  ASSUME ServerInv, [Next]_vars
  PROVE  \/ /\ epoch' = epoch
            /\ oldest' >= oldest
            /\ nextID' >= nextID
            /\ concluded \subseteq concluded'
         \/ /\ epoch' = epoch + 1
            /\ concluded' = {}
<1>0. epoch \in Nat /\ oldest \in Nat /\ nextID \in Nat /\ QueueInv
  BY DEF ServerInv, TypeOK, QueueTypeOK
<1>1. CASE New
  BY <1>1 DEF New
<1>2. CASE Enqueue
  BY <1>0, <1>2 DEF Enqueue
<1>3. CASE OutputStep
  <2>1. ASSUME NEW n, Get(n)
        PROVE  UNCHANGED <<epoch, oldest, nextID, concluded>>
    BY <2>1 DEF Get
  <2>2. ASSUME NEW id, Conclude(id)
        PROVE  UNCHANGED <<epoch, oldest, nextID>> /\ concluded \subseteq concluded'
    BY <2>2 DEF Conclude
  <2>3. ASSUME NEW i, NEW n, ReportDone(i, n)
        PROVE  UNCHANGED <<epoch, oldest, nextID, concluded>>
    BY <2>3 DEF ReportDone, Done
  <2>4. UNCHANGED <<epoch, oldest, nextID>> /\ concluded \subseteq concluded'
    BY <1>3, <2>1, <2>2, <2>3 DEF OutputStep
  <2> QED
    BY <1>0, <2>4
<1>4. CASE Acknowledge
  <2>1. oldest' \in Nat
    BY <1>0, <1>4, AcknowledgeKeeps DEF QueueInv, QueueTypeOK
  <2>2. oldest' > oldest
    BY <1>0, <1>4, HeadRange
  <2> QED
    BY <1>0, <1>4, <2>1, <2>2 DEF Acknowledge
<1>5. CASE Close \/ UNCHANGED queueVars
  BY <1>0, <1>5 DEF Close, queueVars
<1> QED
  BY <1>1, <1>2, <1>3, <1>4, <1>5, QueueOperations

\* A stream keeps what it has sent, or sends the index of the current queue.
LEMMA StreamSends ==
  ASSUME ServerInv, [Next]_vars, NEW s \in Subscribers
  PROVE  \/ sub'[s].index = sub[s].index /\ sub'[s].epoch = sub[s].epoch
         \/ /\ sub'[s].index = oldest /\ sub'[s].epoch = epoch
            /\ UNCHANGED queueVars
         \/ /\ sub'[s].index = 0 /\ sub'[s].epoch = 0
            /\ sub[s].pc = "idle"
<1> DEFINE Keeps == sub'[s].index = sub[s].index /\ sub'[s].epoch = sub[s].epoch
           Sends == /\ sub'[s].index = oldest /\ sub'[s].epoch = epoch
                    /\ UNCHANGED queueVars
           Begins == /\ sub'[s].index = 0 /\ sub'[s].epoch = 0
                     /\ sub[s].pc = "idle"
<1>0. sub \in [Subscribers -> Stream] /\ sub[s] \in Stream
  BY DEF ServerInv, TypeOK
<1>1. ASSUME NEW t \in Subscribers, PersistedIndexStream(t)
      PROVE  Keeps \/ Sends \/ Begins
  <2>1. CASE t # s
    <3>1. ASSUME NEW r, sub' = [sub EXCEPT ![t] = r]
          PROVE  sub'[s] = sub[s]
      BY <1>0, <2>1, <3>1
    <3>2. ASSUME NEW label, StreamGoto(t, label)
          PROVE  sub'[s] = sub[s]
      BY <1>0, <2>1, <3>2 DEF StreamGoto
    <3>3. ASSUME StreamTick(t)
          PROVE  sub'[s] = sub[s]
      BY <1>0, <2>1, <3>3 DEF StreamTick
    <3>4. sub'[s] = sub[s]
      BY <1>1, <3>1, <3>2, <3>3
      DEF PersistedIndexStream, Subscribe, StreamCheck, StreamReset, StreamFirst,
          StreamEnds
    <3> QED
      BY <3>4
  <2>2. CASE t = s
    <3>1. CASE Subscribe(s)
      BY <1>0, <3>1 DEF Subscribe
    <3>2. CASE \E label \in {"idle", "reset", "read"} : StreamGoto(s, label)
      BY <1>0, <3>2 DEF StreamGoto, Stream
    <3>3. CASE StreamFirst(s) /\ attached
      BY <1>0, <3>3 DEF StreamFirst, PersistedIndex
    <3>4. CASE StreamTick(s)
      BY <1>0, <3>4 DEF StreamTick, PersistedIndex, Stream
    <3> QED
      BY <1>1, <2>2, <3>1, <3>2, <3>3, <3>4
      DEF PersistedIndexStream, StreamCheck, StreamReset, StreamFirst, StreamEnds
  <2> QED
    BY <2>1, <2>2
<1>2. CASE UNCHANGED sub
  BY <1>2
<1> QED
  BY <1>1, <1>2, HandlerFrame, ControllerFrame, OutputFrame DEF Next, Exited, Hung, vars

LEMMA StreamsKept ==
  ASSUME ServerInv, [Next]_vars
  PROVE  StreamsAreSound'
<1> SUFFICES ASSUME NEW s \in Subscribers, NEW id \in 0..(sub'[s].index - 1)
             PROVE  <<sub'[s].epoch, id>> \in delivered'
  BY DEF StreamsAreSound
<1>1. delivered \subseteq delivered'
  BY HandlerFrame, StreamFrame, ControllerFrame, OutputFrame DEF Next, Exited, Hung, vars
<1>2. CASE sub'[s].index = sub[s].index /\ sub'[s].epoch = sub[s].epoch
  BY <1>1, <1>2 DEF ServerInv, StreamsAreSound
<1>3. CASE sub'[s].index = oldest /\ sub'[s].epoch = epoch
  <2>1. id \in concluded
    BY <1>3 DEF ServerInv, QueueInv, PersistedIsConcluded, PersistedIndex
  <2> QED
    BY <1>1, <1>3, <2>1 DEF ServerInv, HistoryInv
<1>4. CASE sub'[s].index = 0
  BY <1>4
<1> QED
  BY <1>2, <1>3, <1>4, StreamSends

\* A handler keeps its reply, starts a new one, or accepts the next entry.
LEMMA ReplyGrows ==
  ASSUME ServerInv, [Next]_vars, NEW c \in Clients
  PROVE  \/ reply'[c] = reply[c]
         \/ reply'[c].entries = {}
         \/ /\ Enqueue
            /\ reply'[c].index = nextID
            /\ reply'[c].entries = reply[c].entries \cup {<<epoch, nextID>>}
<1> DEFINE Accepts == /\ Enqueue
                      /\ reply'[c].index = nextID
                      /\ reply'[c].entries = reply[c].entries \cup {<<epoch, nextID>>}
<1>0. reply \in [Clients -> Reply]
  BY DEF ServerInv, TypeOK
<1>1. ASSUME NEW d \in Clients, PublishEvents(d)
      PROVE  reply'[c] = reply[c] \/ reply'[c].entries = {} \/ Accepts
  <2>1. CASE Request(d)
    BY <1>0, <2>1 DEF Request, NoReply
  <2>2. CASE Accept(d) /\ Enqueue
    BY <1>0, <2>2 DEF Accept
  <2>3. CASE reply' = reply
    BY <2>3
  <2> QED
    BY <1>1, <2>1, <2>2, <2>3
    DEF PublishEvents, CheckInitialized, ResetAndValidate, Refuse, PublishFirst,
        PublishFirstFails, FirstPublished, PublishRest, PublishRestFails,
        PublishEnds, TryPublish
<1>2. CASE reply' = reply
  BY <1>2
<1> QED
  BY <1>1, <1>2, StreamFrame, ControllerFrame, OutputFrame
  DEF Next, Exited, Hung, vars, handlerVars

LEMMA HistoryKept ==
  ASSUME ServerInv, [Next]_vars
  PROVE  HistoryInv'
<1>0. /\ epoch \in Nat /\ oldest \in Nat /\ nextID \in Nat
      /\ epoch' \in Nat /\ oldest' \in Nat /\ nextID' \in Nat
  BY TypeKept DEF ServerInv, TypeOK, QueueTypeOK
<1>i. HistoryInv
  BY DEF ServerInv
<1>1. \A id \in concluded' : <<epoch', id>> \in delivered'
  <2>1. CASE OutputRuns
    BY <2>1, OutputFrame
  <2>2. CASE delivered' = delivered /\ (UNCHANGED <<epoch, concluded>> \/ concluded' = {})
    BY <2>2, <1>i DEF HistoryInv
  <2> QED
    BY <2>1, <2>2, HandlerFrame, StreamFrame, ControllerFrame
    DEF Next, Exited, Hung, vars, Enqueue, New, Close, queueVars
<1>2. ASSUME NEW s \in Subscribers
      PROVE  /\ sub'[s].epoch <= epoch'
             /\ sub'[s].epoch = epoch' => sub'[s].index <= oldest'
  <2>0. /\ sub[s].epoch \in Nat /\ sub[s].index \in Nat
        /\ sub[s].epoch <= epoch
        /\ sub[s].epoch = epoch => sub[s].index <= oldest
    <3>1. sub[s] \in Stream
      BY DEF ServerInv, TypeOK
    <3> QED
      BY <3>1, <1>i DEF Stream, HistoryInv
  <2>1. CASE sub'[s].index = sub[s].index /\ sub'[s].epoch = sub[s].epoch
    BY <1>0, <2>0, <2>1, QueueProgress
  <2>2. CASE sub'[s].index = oldest /\ sub'[s].epoch = epoch /\ UNCHANGED queueVars
    BY <1>0, <2>2 DEF queueVars
  <2>3. CASE sub'[s].index = 0 /\ sub'[s].epoch = 0
    BY <1>0, <2>3
  <2> QED
    BY <2>1, <2>2, <2>3, StreamSends
<1>3. ASSUME NEW c \in Clients, NEW e \in reply'[c].entries
      PROVE  e[1] <= epoch' /\ (e[1] = epoch' => e[2] < nextID')
  <2>0. reply[c].entries \subseteq Nat \X Nat
    <3>1. reply[c] \in Reply
      BY DEF ServerInv, TypeOK
    <3> QED
      BY <3>1 DEF Reply
  <2>1. CASE e \in reply[c].entries
    <3>1. e[1] \in Nat /\ e[2] \in Nat
      BY <2>0, <2>1
    <3>2. e[1] <= epoch /\ (e[1] = epoch => e[2] < nextID)
      BY <2>1, <1>i DEF HistoryInv
    <3> QED
      BY <1>0, <3>1, <3>2, QueueProgress
  <2>2. CASE e = <<epoch, nextID>> /\ Enqueue
    BY <1>0, <2>2 DEF Enqueue
  <2> QED
    BY <2>1, <2>2, ReplyGrows
<1> QED
  BY <1>1, <1>2, <1>3 DEF HistoryInv

LEMMA RepliesKept ==
  ASSUME ServerInv, [Next]_vars
  PROVE  AcceptedIndexIsLast'
<1> SUFFICES ASSUME NEW c \in Clients, reply'[c].entries # {}
             PROVE  \E last \in reply'[c].entries :
                      /\ last[2] = reply'[c].index
                      /\ \A e \in reply'[c].entries :
                           e[1] < last[1] \/ (e[1] = last[1] /\ e[2] <= last[2])
  BY DEF AcceptedIndexIsLast
<1>1. CASE reply'[c] = reply[c]
  BY <1>1 DEF ServerInv, AcceptedIndexIsLast
<1>2. CASE /\ reply'[c].index = nextID
           /\ reply'[c].entries = reply[c].entries \cup {<<epoch, nextID>>}
  <2>0. epoch \in Nat /\ nextID \in Nat
    BY DEF ServerInv, TypeOK, QueueTypeOK
  <2>1. reply[c].entries \subseteq Nat \X Nat
    <3>1. reply[c] \in Reply
      BY DEF ServerInv, TypeOK
    <3> QED
      BY <3>1 DEF Reply
  <2>2. ASSUME NEW e \in reply'[c].entries
        PROVE  e[1] < epoch \/ (e[1] = epoch /\ e[2] <= nextID)
    <3>1. CASE e \in reply[c].entries
      <4>1. e[1] \in Nat /\ e[2] \in Nat
        BY <2>1, <3>1
      <4>2. e[1] <= epoch /\ (e[1] = epoch => e[2] < nextID)
        BY <3>1 DEF ServerInv, HistoryInv
      <4> QED
        BY <2>0, <4>1, <4>2
    <3>2. CASE e = <<epoch, nextID>>
      BY <2>0, <3>2
    <3> QED
      BY <1>2, <3>1, <3>2
  <2> QED
    BY <1>2, <2>2
<1> QED
  BY <1>1, <1>2, ReplyGrows

-----------------------------------------------------------------------------
(* What follows from the rest *)

\* ServerInv without the conjuncts that follow from the others.
InductivePart ==
  /\ TypeOK
  /\ QueueInv
  /\ LockInv
  /\ TodoInv
  /\ OutInv
  /\ ShutdownInv
  /\ HistoryInv
  /\ StreamsAreSound
  /\ AcceptedIndexIsLast

LEMMA ConfirmedFollows ==
  ASSUME InductivePart
  PROVE  ConfirmedIsDelivered
<1> SUFFICES ASSUME NEW s \in Subscribers, NEW c \in Clients,
                    \A e \in reply[c].entries : e[1] <= sub[s].epoch,
                    sub[s].index > reply[c].index,
                    NEW e \in reply[c].entries, e[1] = sub[s].epoch
             PROVE  e \in delivered
  BY DEF ConfirmedIsDelivered
<1>1. /\ reply[c].entries \subseteq Nat \X Nat /\ reply[c].index \in Nat
      /\ sub[s].index \in Nat /\ sub[s].epoch \in Nat
  <2>1. reply[c] \in Reply /\ sub[s] \in Stream
    BY DEF InductivePart, TypeOK
  <2> QED
    BY <2>1 DEF Reply, Stream
<1>2. PICK last \in reply[c].entries :
        /\ last[2] = reply[c].index
        /\ e[1] < last[1] \/ (e[1] = last[1] /\ e[2] <= last[2])
  BY DEF InductivePart, AcceptedIndexIsLast
<1>3. /\ last[1] \in Nat /\ last[2] \in Nat /\ last[1] <= sub[s].epoch
      /\ e[1] \in Nat /\ e[2] \in Nat /\ e = <<e[1], e[2]>>
  BY <1>1
<1>4. e[2] \in 0..(sub[s].index - 1)
  BY <1>1, <1>2, <1>3
<1>5. <<sub[s].epoch, e[2]>> \in delivered
  BY <1>4 DEF InductivePart, StreamsAreSound
<1> QED
  BY <1>3, <1>5

\* A batch that is not completed has an event that is not concluded, or one
\* that is and that Done has not been told of.
LEMMA OpenHasWork ==
  ASSUME QueueInv, NEW i \in DOMAIN batches, ~Completed(batches[i])
  PROVE  \/ \E id \in oldest..(unread - 1) : id \notin concluded
         \/ Unreported(batches[i]) > 0
<1> SUFFICES ASSUME \A id \in oldest..(unread - 1) : id \in concluded
             PROVE  Unreported(batches[i]) > 0
  OBVIOUS
<1>0. PICK b : b = batches[i]
  OBVIOUS
<1>1. /\ b \in WrappedBatch /\ b.first \in Nat /\ b.count \in Nat \ {0} /\ b.doneCount \in Nat
      /\ b.first + b.count <= unread
  BY <1>0, BatchFacts
<1>2. oldest \in Nat /\ unread \in Nat
  BY DEF QueueInv, QueueTypeOK
<1>3. Entries(b) \subseteq concluded
  <2> SUFFICES ASSUME NEW id \in Entries(b)
               PROVE  id \in concluded
    OBVIOUS
  <2>1. id \in Nat /\ id <= unread - 1
    BY <1>1, <1>2 DEF Entries
  <2>2. CASE id < oldest
    <3>1. id \in 0..(oldest - 1)
      BY <1>2, <2>1, <2>2
    <3> QED
      BY <3>1 DEF QueueInv, PersistedIsConcluded, PersistedIndex
  <2>3. CASE ~(id < oldest)
    BY <1>2, <2>1, <2>3
  <2> QED
    BY <2>2, <2>3
<1>4. concluded \cap Entries(b) = Entries(b)
  BY <1>3
<1>5. Cardinality(concluded \cap Entries(b)) = b.count
  BY <1>1, <1>4, EntriesCount
<1>6. b.doneCount < b.count
  BY <1>0, <1>1 DEF Completed
<1>7. Unreported(b) > 0
  BY <1>1, <1>5, <1>6 DEF Unreported
<1> QED
  BY <1>0, <1>7

\* An output that has not finished can go on.
LEMMA OutputGoesOn ==
  ASSUME QueueInv, out \in {"running", "stopped"}, ~Drained
  PROVE  OutputCanStep
BY OpenHasWork DEF Drained, OutputCanStep

\* An output that runs while its queue is full can go on: there is something
\* to read, to conclude, to report or to acknowledge.
LEMMA FullHasWork ==
  ASSUME QueueInv, ~closed, IsFull, out = "running"
  PROVE  OutputCanStep
<1>1. oldest \in Nat /\ unread \in Nat /\ nextID \in Nat /\ oldest <= unread /\ unread <= nextID
  BY DEF QueueInv, QueueTypeOK, BatchesAreContiguous
<1>2. oldest < nextID
  BY <1>1, QueueAssumption DEF IsFull
<1>3. CASE unread < nextID
  BY <1>3 DEF OutputCanStep
<1>4. CASE unread = nextID
  <2>1. batches # <<>>
    BY <1>1, <1>2, <1>4 DEF QueueInv, BatchesAreContiguous
  <2>2. Len(batches) \in Nat /\ 1 \in DOMAIN batches /\ Head(batches) = batches[1]
    BY <2>1, BatchFacts
  <2>3. CASE Completed(batches[1])
    BY <2>1, <2>2, <2>3 DEF OutputCanStep
  <2>4. CASE ~Completed(batches[1])
    BY <2>2, <2>4, OutputGoesOn DEF Drained
  <2> QED
    BY <2>3, <2>4
<1> QED
  BY <1>1, <1>3, <1>4

LEMMA WaitsFollow ==
  ASSUME InductivePart
  PROVE  NobodyWaitsInVain
<1> SUFFICES ASSUME Busy, ~OutputCanStep, ~StuckQueue, ~ControllerCanStep,
                    \A c \in Clients : ~HandlerCanStep(c),
                    \A s \in Subscribers : ~StreamCanStep(s)
             PROVE  FALSE
  BY DEF NobodyWaitsInVain
<1>0. TypeOK /\ QueueInv /\ LockInv /\ OutInv /\ ShutdownInv
  BY DEF InductivePart
<1>1. CASE queueMutex = "free"
  <2>1. ASSUME NEW c \in Clients, pc[c] # "idle"
        PROVE  FALSE
    <3>1. pc[c] \in {"check", "reset", "first", "blocked", "rest"}
      BY <1>0, <2>1 DEF TypeOK
    <3>2. pc[c] # "blocked"
      BY <1>0, <1>1, RunnerAssumption DEF LockInv
    <3> QED
      BY <1>1, <3>1, <3>2 DEF HandlerCanStep
  <2>2. ASSUME NEW s \in Subscribers, sub[s].pc # "idle"
        PROVE  sub[s].pc = "poll" /\ ~stopped
    <3>1. sub[s].pc \in {"check", "reset", "read", "poll"}
      <4>1. sub[s] \in Stream
        BY <1>0 DEF TypeOK
      <4> QED
        BY <2>2, <4>1 DEF Stream
    <3> QED
      BY <1>1, <3>1 DEF StreamCanStep
  <2>3. ctl # "draining"
    BY <1>0, <1>1 DEF LockInv
  <2>4. ctl # "graceful"
    BY <1>0, <2>1, <2>2 DEF ShutdownInv, NoHandlers, ControllerCanStep
  <2> QED
    BY <1>1, <2>1, <2>2, <2>3, <2>4 DEF Busy, ControllerCanStep
<1>2. CASE queueMutex = "controller"
  <2>1. ctl = "draining" /\ closed /\ ~WaitReturns
    BY <1>0, <1>2 DEF LockInv, ControllerCanStep
  <2>2. out = "running" \/ (out = "stopped" /\ ~Drained)
    BY <1>0, <2>1 DEF WaitReturns, TypeOK, OutStates
  <2> QED
    BY <1>0, <2>1, <2>2, OutputGoesOn DEF OutputCanStep
<1>3. CASE queueMutex \in Clients
  <2>1. pc[queueMutex] = "blocked" /\ attached /\ ~closed
    BY <1>0, <1>3 DEF LockInv
  <2>2. IsFull
    BY <1>3, <2>1 DEF HandlerCanStep
  <2>3. out \in {"nil", "created"}
    <3>1. out # "running"
      BY <1>0, <2>1, <2>2, FullHasWork
    <3>2. out # "stopped"
      BY <1>0, <2>1 DEF OutInv
    <3> QED
      BY <1>0, <3>1, <3>2 DEF TypeOK, OutStates
  <2>4. ctl \in {"failed", "graceful", "closing"}
    BY <1>0, <2>1, <2>3 DEF TypeOK, CtlStates, LockInv, OutInv, ControllerCanStep
  <2> QED
    BY <1>3, <2>2, <2>3, <2>4 DEF StuckQueue
<1> QED
  BY <1>0, <1>1, <1>2, <1>3 DEF TypeOK

LEMMA Follows == InductivePart => ConfirmedIsDelivered /\ NobodyWaitsInVain
BY ConfirmedFollows, WaitsFollow

LEMMA FollowsNext == InductivePart' => (ConfirmedIsDelivered /\ NobodyWaitsInVain)'
BY Follows, PTL

-----------------------------------------------------------------------------
(* The theorems *)

LEMMA InitInv == Init => InductivePart
<1> SUFFICES ASSUME Init
             PROVE  InductivePart
  OBVIOUS
<1>1. QueueInv
  BY InitKeeps DEF Init, RunnerInit
<1>2. TypeOK
  <2>1. NoReply \in Reply /\ [pc |-> "idle", index |-> 0, epoch |-> 0] \in Stream
    BY DEF NoReply, Reply, Stream
  <2>2. QueueTypeOK
    BY <1>1 DEF QueueInv
  <2> QED
    BY <2>1, <2>2 DEF Init, RunnerInit, TypeOK, OutStates, CtlStates
<1>3. LockInv /\ TodoInv /\ ShutdownInv
  BY RunnerAssumption
  DEF Init, RunnerInit, QueueInit, LockInv, TodoInv, ShutdownInv
<1>4. OutInv
  BY DEF Init, RunnerInit, QueueInit, OutInv
<1>5. HistoryInv /\ StreamsAreSound /\ AcceptedIndexIsLast
  BY DEF Init, RunnerInit, QueueInit, HistoryInv, StreamsAreSound,
         AcceptedIndexIsLast, NoReply
<1> QED
  BY <1>1, <1>2, <1>3, <1>4, <1>5 DEF InductivePart

\* ServerInv holds in every state of the composed system (server.go of
\* publisherserver and of grpcserver, queue.go, runController).
THEOREM ServerInvariant == Spec => []ServerInv
<1>1. ServerInv /\ [Next]_vars => ServerInv'
  BY TypeKept, QueueInvKept, LockKept, TodoKept, OutKept, ShutdownKept,
     HistoryKept, StreamsKept, RepliesKept, FollowsNext
  DEF ServerInv, InductivePart
<1>2. Init => ServerInv
  BY InitInv, Follows DEF ServerInv, InductivePart
<1> QED
  BY <1>1, <1>2, PTL DEF Spec

\* Type correctness of the composed system.
THEOREM TypeCorrect == Spec => []TypeOK
<1>1. ServerInv => TypeOK
  BY DEF ServerInv
<1> QED
  BY <1>1, ServerInvariant, PTL

\* No queue is closed under a handler that waits in Publish.
THEOREM PublishNeverMeetsClosedQueue == Spec => []QueueOpenWhilePublishing
<1>1. ServerInv => QueueOpenWhilePublishing
  BY DEF ServerInv, LockInv, QueueOpenWhilePublishing
<1> QED
  BY <1>1, ServerInvariant, PTL

\* Every index a PersistedIndex stream has sent is true of its queue.
THEOREM StreamsSound == Spec => []StreamsAreSound
<1>1. ServerInv => StreamsAreSound
  BY DEF ServerInv
<1> QED
  BY <1>1, ServerInvariant, PTL

\* AcceptedIndex is the index of the last event accepted.
THEOREM RepliesSound == Spec => []AcceptedIndexIsLast
<1>1. ServerInv => AcceptedIndexIsLast
  BY DEF ServerInv
<1> QED
  BY <1>1, ServerInvariant, PTL

\* Close returns only after everything an output has read is concluded.
THEOREM ClosingFlushes == Spec => []CloseFlushes
<1>1. ServerInv => CloseFlushes
  BY DEF ServerInv, OutInv, CloseFlushes
<1> QED
  BY <1>1, ServerInvariant, PTL

\* The shutdown closes the output after the last handler has returned.
THEOREM ShutdownOrder == Spec => []NoHandlerOutlivesOutput
<1>1. ServerInv => NoHandlerOutlivesOutput
  BY DEF ServerInv, ShutdownInv, NoHandlerOutlivesOutput
<1> QED
  BY <1>1, ServerInvariant, PTL

\* A polling stream only ever sends higher indices of one queue.
THEOREM StreamsOnlyAscend == Spec => StreamsAscend
<1>1. ServerInv /\ [Next]_vars
        => [\A s \in Subscribers :
              (sub[s].pc = "poll" /\ sub'[s].pc = "poll" /\ sub'[s].epoch = sub[s].epoch)
                => sub'[s].index >= sub[s].index]_vars
  <2> SUFFICES ASSUME ServerInv, [Next]_vars, NEW s \in Subscribers,
                      sub[s].pc = "poll", sub'[s].epoch = sub[s].epoch
               PROVE  sub'[s].index >= sub[s].index
    OBVIOUS
  <2>1. /\ sub[s].index \in Nat /\ oldest \in Nat
        /\ sub[s].epoch = epoch => sub[s].index <= oldest
    <3>1. sub[s] \in Stream
      BY DEF ServerInv, TypeOK
    <3> QED
      BY <3>1 DEF Stream, ServerInv, TypeOK, QueueTypeOK, HistoryInv
  <2> QED
    BY <2>1, StreamSends
<1> QED
  BY <1>1, ServerInvariant, PTL DEF Spec, StreamsAscend

\* What PersistedIndex reports has been sent or discarded, also by an output
\* that is being restarted.
THEOREM ServerPersistedSound == Spec => []PersistedIsConcluded
<1>1. ServerInv => PersistedIsConcluded
  BY DEF ServerInv, QueueInv
<1> QED
  BY <1>1, ServerInvariant, PTL

\* No handler, restart or failure moves the persisted index of a queue back.
THEOREM ServerPersistedMonotone == Spec => PersistedNeverRegresses
<1>1. ServerInv /\ [Next]_vars
        => [epoch' = epoch => /\ PersistedIndex' >= PersistedIndex
                              /\ concluded \subseteq concluded']_queueVars
  BY QueueOperations, OperationsAdvance DEF ServerInv
<1> QED
  BY <1>1, ServerInvariant, PTL DEF Spec, PersistedNeverRegresses

\* Restarts, failures and handlers included, the system implements AckContract.
THEOREM ServerImplementsContract == Spec => ImplementsContract
<1>1. Init => Contract!Init
  BY DEF Init, RunnerInit, QueueInit, PersistedIndex, Contract!Init
<1>2. ServerInv /\ [Next]_vars => [Contract!Next]_(Contract!contractVars)
  BY QueueOperations, OperationsImplement DEF ServerInv
<1> QED
  BY <1>1, <1>2, ServerInvariant, PTL DEF Spec, ImplementsContract, Contract!Spec

\* What a client may conclude from AcceptedIndex and a stream of the same queue.
THEOREM ConfirmedDelivered == Spec => []ConfirmedIsDelivered
<1>1. ServerInv => ConfirmedIsDelivered
  BY DEF ServerInv
<1> QED
  BY <1>1, ServerInvariant, PTL

\* Handlers, streams, controller and an output that concludes what it reads
\* never wait for one another in a circle, but for the queue that is stuck
\* behind a failed start.
THEOREM OnlyStuckQueueHangs == Spec => []NobodyWaitsInVain
<1>1. ServerInv => NobodyWaitsInVain
  BY DEF ServerInv
<1> QED
  BY <1>1, ServerInvariant, PTL

\* And that one hangs for good: neither a client nor a new configuration nor
\* a signal gets the shipper out of it.
THEOREM StuckQueueHangs == Spec => StuckForever
<1>1. ServerInv /\ [Next]_vars
        => [StuckQueue => StuckQueue' /\ UNCHANGED <<queueMutex, attached, nextID>>]_vars
  <2> SUFFICES ASSUME ServerInv, [Next]_vars, StuckQueue
               PROVE  StuckQueue' /\ UNCHANGED <<queueMutex, attached, nextID>>
    OBVIOUS
  <2>0. /\ TypeOK /\ LockInv /\ OutInv
        /\ queueMutex \in Clients /\ pc[queueMutex] = "blocked" /\ attached /\ ~closed
        /\ IsFull /\ out \in {"nil", "created"} /\ batches = <<>>
        /\ ctl \in {"failed", "graceful", "closing"}
        /\ queueMutex \notin {"free", "controller"}
    BY RunnerAssumption DEF ServerInv, StuckQueue, LockInv, OutInv
  <2>1. CASE UNCHANGED <<queueMutex, attached, nextID, oldest, out>>
              /\ ctl' \in {"failed", "graceful", "closing"}
    BY <2>0, <2>1 DEF StuckQueue, IsFull
  <2>2. ASSUME NEW c \in Clients, PublishEvents(c)
        PROVE  UNCHANGED <<queueMutex, nextID, oldest>>
    BY <2>0, <2>2
    DEF PublishEvents, Request, CheckInitialized, ResetAndValidate, PublishFirst,
        PublishFirstFails, FirstPublished, PublishRest, PublishRestFails, PublishBegins,
        PublishEnds, TryPublish, TryPublishFails, Enqueue, runnerVars, queueVars
  <2>3. ASSUME Controller
        PROVE  /\ UNCHANGED <<queueMutex, attached, nextID, oldest, out>>
               /\ ctl' \in {"failed", "graceful", "closing"}
    BY <2>0, <2>3
    DEF Controller, AddOutput, UpdateOutput, StartStep, StartQueue, StartMonitoring,
        StartOutput, StartFailed, StartFails, Shutdown, UnmanagedShutdown,
        GracefulStopReturns, NoHandlers, CloseStep, CloseLocked, CloseReturns, queueVars
  <2>4. ASSUME OutputRuns
        PROVE  FALSE
    BY <2>0, <2>4
    DEF OutputRuns, OutputGets, OutputConcludes, OutputReports, OutputStops,
        QueueAcknowledges, Acknowledge
  <2> QED
    BY <2>0, <2>1, <2>2, <2>3, <2>4, HandlerFrame, StreamFrame
    DEF Next, Exited, Hung, vars, queueVars, runnerVars
<1> QED
  BY <1>1, ServerInvariant, PTL DEF Spec, StuckForever
=============================================================================
