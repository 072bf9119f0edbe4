------------------------- MODULE Controller_proofs -------------------------
(***************************************************************************)
(* For every set of inputs, configurations and levels, whatever fails and  *)
(* whenever the agent changes a unit: one output at a time, with the       *)
(* latest configuration once the changes are dealt with, and the endpoint  *)
(* as long as there are inputs.  A handler has a bounded number of steps,  *)
(* a lock that was left held is never released, and an output or a queue   *)
(* that Close waits for in vain never lets go.  ControllerInv is           *)
(* inductive.                                                              *)
(***************************************************************************)
EXTENDS Controller, FiniteSetTheorems, TLAPS

\* An expectation is none, or has a state, a configuration and a level.
LEMMA ExpectationFields ==
  ASSUME NEW e \in Expectations
  PROVE  /\ e.state \in {"healthy", "stopped", "absent"}
         /\ e.state = "absent" <=> e = Absent
         /\ e # Absent => e.config \in Configs /\ e.level \in Levels
         /\ e.config \in Configs \cup {None}
         /\ e.config = None <=> e = Absent
BY ControllerAssumption DEF Expectations, Absent

\* An output is only started while there is none.
LEMMA OneOutputKept ==
  ASSUME ControllerInv, [Next]_vars
  PROVE  OneOutput'
<1> USE ControllerAssumption DEF ControllerInv, TypeOK, OneOutput, HandlerInv,
        StaleReadsInv, RunnerInv, Handling, inputVars, agentVars, unitVars, outputVars,
        runnerVars
<1>1. ASSUME NEW u \in Units, AddUnit(u) \/ ModifyUnit(u) \/ RemoveUnit(u)
      PROVE  OneOutput'
  BY <1>1 DEF AddUnit, ModifyUnit, RemoveUnit, Offer
<1>2. CASE StartShipper
  BY <1>2 DEF StartShipper, SetState
<1>3. CASE StopShipper \/ Exit
  BY <1>3 DEF StopShipper, Exit, CloseRunner
<1>4. CASE OutputHangs \/ QueueFills
  BY <1>4 DEF OutputHangs, QueueFills
<1>5. CASE Take \/ HandleUnitAdded \/ StartShipperFails \/ AddInput \/
           UpdateLogLevel \/ HandleUnitUpdated \/ UpdateInput \/ ReadState \/
           UpdateShipperOutput \/ HandleUnitRemoved \/ StopGRPC \/ Signal \/ Shutdown
  BY <1>5 DEF Take, HandleUnitAdded, StartShipperFails, AddInput, UpdateLogLevel,
      HandleUnitUpdated, UpdateInput, ReadState, UpdateShipperOutput,
      HandleUnitRemoved, StopGRPC, Signal, Shutdown
<1>6. CASE UNCHANGED vars
  BY <1>6 DEF vars
<1> QED
  BY <1>1, <1>2, <1>3, <1>4, <1>5, <1>6 DEF Next, Handler, Agent

\* Each handler hands on to one of its kind of unit.
LEMMA HandlerKept ==
  ASSUME ControllerInv, [Next]_vars
  PROVE  HandlerInv'
<1> USE ControllerAssumption DEF ControllerInv, TypeOK, Units, Absent, NoChange,
        inputVars, agentVars, unitVars, outputVars, runnerVars, HandlerInv
<1>1. ASSUME NEW u \in Units, AddUnit(u) \/ ModifyUnit(u) \/ RemoveUnit(u)
      PROVE  HandlerInv'
  BY <1>1 DEF AddUnit, ModifyUnit, RemoveUnit, Offer
<1>2. CASE Take
  BY <1>2 DEF Take
<1>3. CASE HandleUnitAdded
  BY <1>3 DEF HandleUnitAdded, UnitMapAdd
<1>4. CASE HandleUnitUpdated
  BY <1>4 DEF HandleUnitUpdated, OnlyLogLevelUpdated
<1>5. CASE StartShipper \/ StartShipperFails \/ AddInput \/ UpdateLogLevel \/
           UpdateInput \/ ReadState \/ UpdateShipperOutput \/ StopShipper \/
           HandleUnitRemoved \/ StopGRPC \/ Signal \/ Shutdown \/ Exit \/
           OutputHangs \/ QueueFills
  BY <1>5 DEF StartShipper, StartShipperFails, AddInput, UpdateLogLevel,
      UpdateInput, ReadState, UpdateShipperOutput, StopShipper, HandleUnitRemoved,
      StopGRPC, Signal, Shutdown, Exit, OutputHangs, QueueFills, UnitMapUpdate,
      UnitMapDelete
<1>6. CASE UNCHANGED vars
  BY <1>6 DEF vars
<1> QED
  BY <1>1, <1>2, <1>3, <1>4, <1>5, <1>6 DEF Next, Handler, Agent

\* The agent changes a unit and the loop reads it, in any order.
LEMMA StaleReadsKept ==
  ASSUME ControllerInv, [Next]_vars
  PROVE  StaleReadsInv'
<1> USE ControllerAssumption, ExpectationFields DEF ControllerInv, TypeOK, Units,
        Absent, NoChange, inputVars, agentVars, unitVars, outputVars, runnerVars, HandlerInv,
        StaleReadsInv, RunnerInv, Offered, Handling, HandlingOutput
<1>1. ASSUME NEW u \in Units, AddUnit(u) \/ ModifyUnit(u) \/ RemoveUnit(u)
      PROVE  StaleReadsInv'
  <2>1. CASE AddUnit(u)
    BY <2>1 DEF AddUnit, Offer
  <2>2. CASE ModifyUnit(u)
    BY <2>2 DEF ModifyUnit, Offer
  <2>3. CASE RemoveUnit(u)
    BY <2>3 DEF RemoveUnit, Offer
  <2> QED
    BY <1>1, <2>1, <2>2, <2>3
<1>2. CASE Take
  BY <1>2 DEF Take
<1>3. CASE HandleUnitAdded
  BY <1>3 DEF HandleUnitAdded, UnitMapAdd
<1>4. CASE StartShipper
  BY <1>4 DEF StartShipper, SetState
<1>5. CASE StartShipperFails
  BY <1>5 DEF StartShipperFails, SetState
<1>6. CASE UpdateLogLevel
  BY <1>6 DEF UpdateLogLevel, OnlyLogLevelUpdated, SetState
<1>7. CASE HandleUnitUpdated
  BY <1>7 DEF HandleUnitUpdated, OnlyLogLevelUpdated
<1>8. CASE ReadState
  BY <1>8 DEF ReadState
<1>9. CASE UpdateShipperOutput \/ StopShipper
  <2>1. CASE UpdateShipperOutput
    BY <2>1 DEF UpdateShipperOutput, UnitMapUpdate, SetState
  <2>2. CASE StopShipper
    BY <2>2 DEF StopShipper, CloseRunner, SetState
  <2> QED
    BY <1>9, <2>1, <2>2
<1>10. CASE HandleUnitRemoved
  BY <1>10 DEF HandleUnitRemoved, UnitMapDelete, AvailableUnitCount, SetState
<1>11. CASE StopGRPC
  BY <1>11 DEF StopGRPC, SetState
<1>12. CASE AddInput \/ UpdateInput \/ Signal \/ Shutdown \/ Exit \/ OutputHangs \/ QueueFills
  BY <1>12 DEF AddInput, UpdateInput, Signal, Shutdown, Exit, CloseRunner, OutputHangs,
      QueueFills, SetState, UnitMapUpdate
<1>13. CASE UNCHANGED vars
  BY <1>13 DEF vars
<1> QED
  BY <1>1, <1>2, <1>3, <1>4, <1>5, <1>6, <1>7, <1>8, <1>9, <1>10, <1>11, <1>12,
     <1>13 DEF Next, Handler, Agent

\* The run loop catches up with what it has missed.
LEMMA SyncKept ==
  ASSUME ControllerInv, [Next]_vars
  PROVE  SyncInv'
<1> USE ControllerAssumption, ExpectationFields DEF ControllerInv, TypeOK, Units,
        Absent, NoChange, inputVars, agentVars, unitVars, outputVars, runnerVars, HandlerInv,
        StaleReadsInv, RunnerInv, SyncInv, Offered, OutputOffered, Handling, HandlingOutput
<1>1. ASSUME NEW u \in Units, AddUnit(u) \/ ModifyUnit(u) \/ RemoveUnit(u)
      PROVE  SyncInv'
  <2>1. CASE AddUnit(u)
    BY <2>1 DEF AddUnit, Offer
  <2>2. CASE ModifyUnit(u)
    BY <2>2 DEF ModifyUnit, Offer
  <2>3. CASE RemoveUnit(u)
    BY <2>3 DEF RemoveUnit, Offer
  <2> QED
    BY <1>1, <2>1, <2>2, <2>3
<1>2. CASE Take
  BY <1>2 DEF Take
<1>3. CASE HandleUnitAdded
  BY <1>3 DEF HandleUnitAdded, UnitMapAdd
<1>4. CASE StartShipper
  BY <1>4 DEF StartShipper, SetState
<1>5. CASE UpdateLogLevel
  BY <1>5 DEF UpdateLogLevel, OnlyLogLevelUpdated, SetState
<1>6. CASE HandleUnitUpdated
  BY <1>6 DEF HandleUnitUpdated, OnlyLogLevelUpdated
<1>7. CASE UpdateShipperOutput \/ StopShipper
  <2>1. CASE UpdateShipperOutput
    BY <2>1 DEF UpdateShipperOutput, UnitMapUpdate, SetState
  <2>2. CASE StopShipper
    BY <2>2 DEF StopShipper, CloseRunner, SetState
  <2> QED
    BY <1>7, <2>1, <2>2
<1>8. CASE HandleUnitRemoved
  BY <1>8 DEF HandleUnitRemoved, UnitMapDelete, AvailableUnitCount, SetState
<1>9. CASE StartShipperFails \/ AddInput \/ UpdateInput \/ ReadState \/ StopGRPC \/
           Signal \/ Shutdown \/ Exit \/ OutputHangs \/ QueueFills
  BY <1>9 DEF StartShipperFails, AddInput, UpdateInput, ReadState, StopGRPC, Signal,
      Shutdown, Exit, CloseRunner, OutputHangs, QueueFills, UnitMapUpdate
<1>10. CASE UNCHANGED vars
  BY <1>10 DEF vars
<1> QED
  BY <1>1, <1>2, <1>3, <1>4, <1>5, <1>6, <1>7, <1>8, <1>9, <1>10 DEF Next, Handler, Agent

\* The endpoint comes with the first input and goes with the last.
LEMMA EndpointKept ==
  ASSUME ControllerInv, [Next]_vars
  PROVE  EndpointInv'
<1> USE ControllerAssumption DEF ControllerInv, TypeOK, Units, inputVars, agentVars,
        unitVars, outputVars, runnerVars, HandlerInv, EndpointInv
<1>1. ASSUME NEW u \in Units, AddUnit(u) \/ ModifyUnit(u) \/ RemoveUnit(u)
      PROVE  EndpointInv'
  BY <1>1 DEF AddUnit, ModifyUnit, RemoveUnit, Offer
<1>2. CASE HandleUnitAdded
  BY <1>2 DEF HandleUnitAdded, UnitMapAdd
<1>3. CASE AddInput
  BY <1>3 DEF AddInput, AlreadyStarted, Serve, StartFails, SetState
<1>4. CASE UpdateInput
  BY <1>4 DEF UpdateInput, UnitMapUpdate, SetState
<1>5. CASE HandleUnitRemoved
  <2>1. /\ IsFiniteSet(inputUnits')
        /\ Cardinality(inputUnits') = 0 <=> inputUnits' = {}
    <3>1. inputUnits' \in SUBSET Inputs
      BY <1>5 DEF HandleUnitRemoved, UnitMapDelete
    <3> QED
      BY <3>1, FS_Subset, FS_EmptySet
  <2> QED
    BY <1>5, <2>1 DEF HandleUnitRemoved, UnitMapDelete, AvailableUnitCount, SetState
<1>6. CASE StopGRPC
  BY <1>6 DEF StopGRPC, StopEndpoint, Stop, SetState
<1>7. CASE Take \/ StartShipper \/ StartShipperFails \/ UpdateLogLevel \/
           HandleUnitUpdated \/ ReadState \/ UpdateShipperOutput \/ StopShipper \/
           Signal \/ Shutdown \/ Exit \/ OutputHangs \/ QueueFills
  BY <1>7 DEF Take, StartShipper, StartShipperFails, UpdateLogLevel,
      HandleUnitUpdated, ReadState, UpdateShipperOutput, StopShipper, Signal, Shutdown,
      Exit, OutputHangs, QueueFills, SetState, OnlyLogLevelUpdated, UnitMapUpdate,
      StopEndpoint, Stop
<1>8. CASE UNCHANGED vars
  BY <1>8 DEF vars
<1> QED
  BY <1>1, <1>2, <1>3, <1>4, <1>5, <1>6, <1>7, <1>8 DEF Next, Handler, Agent

\* Nobody takes the lock away from the Start that has left it held.
LEMMA LockKept ==
  ASSUME ControllerInv, [Next]_vars
  PROVE  /\ LockInv'
         /\ startMutex = "held" => /\ startMutex' = "held" /\ server' = "made"
                                   /\ WaitsForLock => WaitsForLock'
<1> USE DEF ControllerInv, TypeOK, inputVars, LockInv, WaitsForLock
<1>1. CASE AddInput
  BY <1>1 DEF AddInput, AlreadyStarted, Serve, StartFails
<1>2. CASE StopGRPC \/ Shutdown
  BY <1>2 DEF StopGRPC, Shutdown, StopEndpoint, Stop
<1>3. ASSUME NEW u \in Units, AddUnit(u) \/ ModifyUnit(u) \/ RemoveUnit(u)
      PROVE  UNCHANGED inputVars /\ pc' = pc
  BY <1>3 DEF AddUnit, ModifyUnit, RemoveUnit, Offer
<1>4. CASE Take \/ HandleUnitAdded \/ StartShipper \/ StartShipperFails \/ UpdateLogLevel \/
           HandleUnitUpdated \/ UpdateInput \/ ReadState \/ UpdateShipperOutput \/
           StopShipper \/ HandleUnitRemoved \/ Signal
  <2>1. /\ UNCHANGED inputVars /\ pc' \notin {"closing", "exited"}
        /\ pc \notin {"stopGRPC", "shutdown"}
        /\ pc' = "addInput" => pc = "added"
    BY <1>4 DEF Take, HandleUnitAdded, StartShipper, StartShipperFails, UpdateLogLevel,
       HandleUnitUpdated, UpdateInput, ReadState, UpdateShipperOutput, StopShipper,
       HandleUnitRemoved, Signal
  <2> QED
    BY <2>1
<1>5. CASE Exit \/ OutputHangs \/ QueueFills
  BY <1>5 DEF Exit, OutputHangs, QueueFills
<1>6. CASE UNCHANGED vars
  BY <1>6 DEF vars
<1> QED
  BY <1>1, <1>2, <1>3, <1>4, <1>5, <1>6 DEF Next, Handler, Agent

\* Nor does anything make an output that hangs, or a handler that waits, go on.
LEMMA RunnerKept ==
  ASSUME ControllerInv, [Next]_vars
  PROVE  /\ RunnerInv'
         /\ hung # "no" => /\ hung' # "no"
                           /\ WaitsForRunner => WaitsForRunner'
                           /\ WaitsForHandlers => WaitsForHandlers'
<1> USE DEF ControllerInv, TypeOK, inputVars, outputVars, runnerVars, RunnerInv,
        WaitsForRunner, WaitsForHandlers
<1>1. CASE StartShipper
  BY <1>1 DEF StartShipper, HandlerInv, StaleReadsInv, Handling
<1>2. CASE StartShipperFails
  BY <1>2 DEF StartShipperFails, HandlerInv, StaleReadsInv, Handling
<1>3. CASE StopShipper \/ Exit
  BY <1>3 DEF StopShipper, Exit, CloseRunner
<1>4. CASE AddInput
  BY <1>4 DEF AddInput, AlreadyStarted, Serve, StartFails
<1>5. CASE StopGRPC \/ Shutdown
  BY <1>5 DEF StopGRPC, Shutdown, StopEndpoint, Stop
<1>6. CASE OutputHangs \/ QueueFills
  BY <1>6 DEF OutputHangs, QueueFills
<1>7. ASSUME NEW u \in Units, AddUnit(u) \/ ModifyUnit(u) \/ RemoveUnit(u)
      PROVE  UNCHANGED <<inputVars, outputVars, pc>>
  BY <1>7 DEF AddUnit, ModifyUnit, RemoveUnit, Offer
<1>8. CASE Take \/ HandleUnitAdded \/ UpdateLogLevel \/ HandleUnitUpdated \/ UpdateInput \/
           ReadState \/ UpdateShipperOutput \/ HandleUnitRemoved \/ Signal
  <2>1. /\ UNCHANGED <<inputVars, outputVars>> /\ pc' # "exited"
        /\ pc \notin {"stopGRPC", "shutdown", "closeRestart", "closeStop", "closing"}
    BY <1>8 DEF Take, HandleUnitAdded, UpdateLogLevel, HandleUnitUpdated, UpdateInput,
       ReadState, UpdateShipperOutput, HandleUnitRemoved, Signal
  <2> QED
    BY <2>1
<1>9. CASE UNCHANGED vars
  BY <1>9 DEF vars
<1> QED
  BY <1>1, <1>2, <1>3, <1>4, <1>5, <1>6, <1>7, <1>8, <1>9 DEF Next, Handler, Agent

\* What the agent expects of a unit is an expectation; the rest is bookkeeping.
LEMMA TypeKept ==
  ASSUME ControllerInv, [Next]_vars
  PROVE  TypeOK'
<1> USE ControllerAssumption, ExpectationFields DEF ControllerInv, TypeOK, Units,
        inputVars, agentVars, unitVars, outputVars, runnerVars, HandlerInv,
        StaleReadsInv, Handling, Offered, HandlingOutput
<1>1. ASSUME NEW u \in Units, AddUnit(u) \/ ModifyUnit(u) \/ RemoveUnit(u)
      PROVE  TypeOK'
  <2>1. PICK type \in {"added", "modified", "removed"}, e \in Expectations : Offer(type, u, e)
    BY <1>1 DEF AddUnit, ModifyUnit, RemoveUnit, Expectations
  <2> QED
    BY <2>1 DEF Offer
<1>2. CASE Take
  BY <1>2 DEF Take, NoChange
<1>3. CASE HandleUnitAdded
  BY <1>3 DEF HandleUnitAdded, UnitMapAdd
<1>4. CASE StartShipper
  BY <1>4 DEF StartShipper, SetState
<1>5. CASE StartShipperFails \/ OutputHangs \/ QueueFills
  <2>1. CASE StartShipperFails
    <3>1. logLevel' \in Levels
      BY <2>1 DEF StartShipperFails
    <3>2. reported' \in [Units -> {"stopped", "stopping", "healthy", "failed"}]
      BY <2>1 DEF StartShipperFails, SetState
    <3>3. /\ attached' \in BOOLEAN /\ runConfig' = None /\ pc' = "ready"
          /\ UNCHANGED <<inputVars, agentVars, unit, unitVars, outputs, runner, hung, started>>
      BY <2>1, Zenon DEF StartShipperFails
    <3> HIDE DEF HandlerInv, StaleReadsInv
    <3> QED
      BY <3>1, <3>2, <3>3
  <2>2. CASE OutputHangs \/ QueueFills
    <3>1. /\ hung' \in {"output", "queue"}
          /\ UNCHANGED <<inputVars, agentVars, unit, pc, unitVars, reported, logLevel>>
          /\ UNCHANGED <<outputs, runner, attached, runConfig, started>>
      BY <2>2, Zenon DEF OutputHangs, QueueFills
    <3> HIDE DEF HandlerInv, StaleReadsInv
    <3> QED
      BY <3>1
  <2> QED
    BY <1>5, <2>1, <2>2
<1>6. CASE AddInput
  <2>1. shipper' \in BOOLEAN
    BY <1>6, Zenon DEF AddInput, AlreadyStarted, Serve, StartFails
  <2>2. /\ server' \in {"nil", "made", "serving"}
        /\ startMutex' \in {"free", "held"}
    BY <1>6 DEF AddInput, AlreadyStarted, Serve, StartFails
  <2>3. reported' \in [Units -> {"stopped", "stopping", "healthy", "failed"}]
    BY <1>6 DEF AddInput, SetState
  <2>4. /\ pc' = "ready"
        /\ UNCHANGED <<agentVars, unit, unitVars, logLevel, outputVars>>
    BY <1>6, Zenon DEF AddInput
  <2> HIDE DEF HandlerInv, StaleReadsInv
  <2> QED
    BY <2>1, <2>2, <2>3, <2>4
<1>7. CASE UpdateShipperOutput \/ StopShipper \/ Exit
  <2>1. CASE UpdateShipperOutput
    BY <2>1 DEF UpdateShipperOutput, UnitMapUpdate, SetState
  <2>2. CASE StopShipper \/ Exit
    <3>1. attached' \in BOOLEAN
      BY <2>2, Zenon DEF StopShipper, Exit, CloseRunner
    <3>2. /\ outputs' \subseteq outputs /\ runner' = 0
          /\ UNCHANGED <<hung, started, runConfig, inputVars, agentVars, unit, unitVars, logLevel>>
          /\ pc' \in {"ready", "start", "exited"}
      BY <2>2 DEF StopShipper, Exit, CloseRunner
    <3>3. reported' \in [Units -> {"stopped", "stopping", "healthy", "failed"}]
      BY <2>2 DEF StopShipper, Exit, SetState
    <3> HIDE DEF HandlerInv, StaleReadsInv
    <3> QED
      BY <3>1, <3>2, <3>3
  <2> QED
    BY <1>7, <2>1, <2>2
<1>8. CASE StopGRPC \/ Shutdown
  <2>1. shipper' \in BOOLEAN
    BY <1>8, Zenon DEF StopGRPC, Shutdown, StopEndpoint, Stop
  <2>2. /\ server' = "nil"
        /\ UNCHANGED <<startMutex, agentVars, unit, unitVars, logLevel, outputVars>>
        /\ pc' \in {"ready", "closing"}
    BY <1>8 DEF StopGRPC, Shutdown, StopEndpoint, Stop
  <2>3. reported' \in [Units -> {"stopped", "stopping", "healthy", "failed"}]
    BY <1>8 DEF StopGRPC, Shutdown, SetState
  <2> HIDE DEF HandlerInv, StaleReadsInv
  <2> QED
    BY <2>1, <2>2, <2>3
<1>9. CASE HandleUnitUpdated \/ UpdateInput \/ ReadState \/ Signal
  <2>1. CASE HandleUnitUpdated
    BY <2>1 DEF HandleUnitUpdated
  <2>2. CASE UpdateInput
    BY <2>2 DEF UpdateInput, UnitMapUpdate, SetState
  <2>3. CASE ReadState \/ Signal
    BY <2>3 DEF ReadState, Signal
  <2> QED
    BY <1>9, <2>1, <2>2, <2>3
<1>10. CASE UpdateLogLevel
  BY <1>10 DEF UpdateLogLevel, OnlyLogLevelUpdated, SetState
<1>11. CASE HandleUnitRemoved
  <2>1. /\ inputUnits' \subseteq Inputs
        /\ outputUnit' \in Configs \cup {None}
    BY <1>11 DEF HandleUnitRemoved, UnitMapDelete
  <2>2. /\ pc' \in {"stopGRPC", "ready"}
        /\ reported' \in [Units -> {"stopped", "stopping", "healthy", "failed"}]
    BY <1>11 DEF HandleUnitRemoved, SetState
  <2>3. UNCHANGED <<inputVars, agentVars, unit, logLevel, outputVars>>
    BY <1>11, Zenon DEF HandleUnitRemoved
  <2> QED
    BY <2>1, <2>2, <2>3
<1>12. CASE UNCHANGED vars
  BY <1>12 DEF vars
<1> QED
  BY <1>1, <1>2, <1>3, <1>4, <1>5, <1>6, <1>7, <1>8, <1>9, <1>10, <1>11,
     <1>12 DEF Next, Handler, Agent

\* Whatever the agent changes while a handler is at work, and whatever fails:
\* ControllerInv holds at every point of every handler.
THEOREM ControllerInvariant == Spec => []ControllerInv
<1>1. Init => ControllerInv
  <2>1. ASSUME Init
        PROVE  TypeOK
    <3>1. shipper \in BOOLEAN /\ attached \in BOOLEAN
      BY <2>1, Zenon DEF Init, InputInit
    <3>2. expected \in [Units -> Expectations]
      BY <2>1 DEF Init, Expectations
    <3>3. change \in [type : {"none", "added", "modified", "removed"}, unit : Units]
      BY <2>1 DEF Init, NoChange, Units
    <3> QED
      BY <2>1, <3>1, <3>2, <3>3, ControllerAssumption DEF Init, InputInit, TypeOK, Units
  <2>2. ASSUME Init
        PROVE  /\ OneOutput /\ HandlerInv /\ StaleReadsInv /\ RunnerInv /\ SyncInv
               /\ EndpointInv /\ LockInv
    BY <2>2, ControllerAssumption DEF Init, InputInit, OneOutput, HandlerInv,
       StaleReadsInv, RunnerInv, SyncInv, EndpointInv, LockInv, Offered, OutputOffered, Handling,
       HandlingOutput, Units, Absent, NoChange
  <2> QED
    BY <2>1, <2>2 DEF ControllerInv
<1>2. ControllerInv /\ [Next]_vars => ControllerInv'
  BY TypeKept, OneOutputKept, HandlerKept, StaleReadsKept, RunnerKept, SyncKept,
     EndpointKept, LockKept DEF ControllerInv
<1> QED
  BY <1>1, <1>2, PTL DEF Spec

\* The second read of the configuration by a start, and the level-only shortcut
\* of an update, never leave the output with an old configuration: once the
\* changes are dealt with, the one that runs is the latest.
THEOREM LatestConfig == Spec => []LatestConfigRuns
<1>1. ControllerInv => LatestConfigRuns
  BY DEF ControllerInv, TypeOK, SyncInv, LatestConfigRuns, Quiet, HandlingOutput,
     Handling, OutputOffered
<1> QED
  BY <1>1, ControllerInvariant, PTL

\* handleUnitRemoved stops the endpoint with the last input, however many there
\* were and whether or not they came up.
THEOREM EndpointGoes == Spec => []NoEndpointWithoutInputs
<1>1. ControllerInv => NoEndpointWithoutInputs
  BY DEF ControllerInv, EndpointInv, NoEndpointWithoutInputs
<1> QED
  BY <1>1, ControllerInvariant, PTL

\* No removal of another unit, and no update, takes the endpoint from under an
\* input that was reported healthy.
THEOREM EndpointStays == Spec => []HealthyInputHasEndpoint
<1>1. ControllerInv => HealthyInputHasEndpoint
  BY DEF ControllerInv, EndpointInv, HealthyInputHasEndpoint
<1> QED
  BY <1>1, ControllerInvariant, PTL

\* InputHandler.Start returns with the lock held when it cannot remove an old
\* socket: neither the agent nor another unit ever gets the endpoint stopped
\* again, and a shutdown does not end.
THEOREM LostLockHangs == Spec => LockIsLost
<1>1. ControllerInv /\ ControllerInv' /\ [Next]_vars
        => [startMutex = "held" => /\ startMutex' = "held" /\ server' = "made"
                                   /\ pc' # "exited"
                                   /\ WaitsForLock => WaitsForLock']_vars
  BY LockKept DEF ControllerInv, LockInv
<1> QED
  BY <1>1, ControllerInvariant, PTL DEF Spec, LockIsLost

\* ServerRunner.Close waits for the mutex and for the output, and GracefulStop
\* for the handlers, without a limit: an output that is never done with an event
\* or a queue that nobody empties holds the run loop up for good.
THEOREM HungRunnerHangs == Spec => RunnerIsLost
<1>1. ControllerInv /\ ControllerInv' /\ [Next]_vars
        => [hung # "no" => /\ hung' # "no" /\ attached' /\ pc' # "exited"
                           /\ WaitsForRunner => WaitsForRunner'
                           /\ WaitsForHandlers => WaitsForHandlers']_vars
  BY RunnerKept DEF ControllerInv, RunnerInv
<1> QED
  BY <1>1, ControllerInvariant, PTL DEF Spec, RunnerIsLost

\* With LockInv: a handler that does not wait for the lost lock, for handlers or
\* for the runner is through after five steps of the run loop.
THEOREM HandlersComeToAnEnd == Spec => HandlersEnd
<1>1. ASSUME ControllerInv, [Next]_vars, pc \notin {"ready", "exited"}
      PROVE  pc' = pc \/ (Left' \in Nat /\ Left' < Left)
  <2> USE <1>1 DEF Left
  <2>1. ~Take /\ ~Signal
    BY DEF Take, Signal
  <2>2. ASSUME NEW u \in Units, AddUnit(u) \/ ModifyUnit(u) \/ RemoveUnit(u)
        PROVE  pc' = pc
    BY <2>2 DEF AddUnit, ModifyUnit, RemoveUnit, Offer
  <2>3. CASE HandleUnitAdded \/ HandleUnitUpdated \/ HandleUnitRemoved
    BY <2>3 DEF HandleUnitAdded, HandleUnitUpdated, HandleUnitRemoved
  <2>4. CASE ReadState \/ UpdateShipperOutput \/ StopShipper
    BY <2>4 DEF ReadState, UpdateShipperOutput, StopShipper
  <2>5. CASE StartShipper \/ StartShipperFails \/ AddInput \/ UpdateLogLevel \/ UpdateInput
    BY <2>5 DEF StartShipper, StartShipperFails, AddInput, UpdateLogLevel, UpdateInput
  <2>6. CASE StopGRPC \/ Shutdown \/ Exit
    BY <2>6 DEF StopGRPC, Shutdown, Exit
  <2>7. CASE OutputHangs \/ QueueFills \/ UNCHANGED vars
    BY <2>7 DEF OutputHangs, QueueFills, vars
  <2> QED
    BY <2>1, <2>2, <2>3, <2>4, <2>5, <2>6, <2>7 DEF Next, Handler, Agent
<1>2. ControllerInv /\ [Next]_vars
        => [(pc \notin {"ready", "exited"}) => pc' = pc \/ (Left' \in Nat /\ Left' < Left)]_vars
  BY <1>1
<1> QED
  BY <1>2, ControllerInvariant, PTL DEF Spec, HandlersEnd
=============================================================================
