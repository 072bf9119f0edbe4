----------------------------- MODULE Controller -----------------------------
(***************************************************************************)
(* controller/: the run loop, which takes unit changes from the agent one  *)
(* at a time and starts, restarts and stops the output and the gRPC        *)
(* endpoint, while the agent client goes on changing the units: a handler  *)
(* reads unit.Expected() anew wherever it needs it, and each read may see  *)
(* another value.                                                          *)
(*                                                                         *)
(* The agent client is external.  It changes a unit, then hands the change *)
(* to the run loop over an unbuffered channel, and does nothing else until *)
(* the loop has taken it.  The agent removes a unit once it has been told  *)
(* to stop and has reported that it did.                                   *)
(*                                                                         *)
(* ServerRunner is reduced to the queue it has attached, the outputs it    *)
(* has started and not closed, and what may keep its Close from returning: *)
(* an output that is never done with what it has read, and a handler that  *)
(* waits, with queueMutex, for room nobody makes.  How they come about is  *)
(* in the modules of the outputs and in ShipperServer; here they happen to *)
(* the run loop.                                                           *)
(***************************************************************************)
EXTENDS InputHandler

CONSTANTS
  Inputs,         \* ids of input units
  Configs,        \* output configurations
  Levels,         \* log levels
  OutputFaults,   \* whether an output may fail to start, or hang
  MaxChanges,     \* bound: unit changes made by the agent
  Output,         \* the output unit
  None            \* no configuration

ASSUME ControllerAssumption ==
  /\ IsFiniteSet(Inputs)
  /\ Output \notin Inputs
  /\ None \notin Configs
  /\ OutputFaults \in BOOLEAN
  /\ MaxChanges \in Nat

Units == Inputs \cup {Output}

VARIABLES
  expected,    \* unit.Expected() of every unit
  change,      \* the change offered on UnitChanges(), or none
  changes,     \* changes made so far
  pc,          \* where the run loop is
  unit,        \* the unit it is working on
  inputUnits,  \* UnitMap.inputUnits
  outputUnit,  \* UnitMap.outputUnit.config
  logLevel,    \* the level of the logger
  outputs,     \* outputs started and not closed, by number
  runner,      \* the output ServerRunner holds, 0 for none
  attached,    \* ServerRunner has a queue, also after a Start that failed
  hung,        \* what would keep Close waiting: nothing, the output, a Publish
  started,     \* number of outputs started so far
  runConfig,   \* the configuration ServerRunner.Start was called with last
  reported     \* the state last reported for every unit

agentVars == <<expected, change, changes>>
unitVars == <<inputUnits, outputUnit>>
runnerVars == <<outputs, runner, attached, hung>>
outputVars == <<runnerVars, started, runConfig>>
vars == <<inputVars, agentVars, pc, unit, unitVars, logLevel, outputVars, reported>>

Absent == [state |-> "absent", config |-> None, level |-> None]
Expectations ==
  [state : {"healthy", "stopped"}, config : Configs, level : Levels] \cup {Absent}
NoChange == [type |-> "none", unit |-> Output]

Init ==
  /\ InputInit
  /\ expected = [u \in Units |-> Absent]
  /\ change = NoChange
  /\ changes = 0
  /\ pc = "ready"
  /\ unit = Output
  /\ inputUnits = {}
  /\ outputUnit = None
  /\ logLevel \in Levels
  /\ outputs = {}
  /\ runner = 0
  /\ attached = FALSE
  /\ hung = "no"
  /\ started = 0
  /\ runConfig = None
  /\ reported = [u \in Units |-> "stopped"]

-----------------------------------------------------------------------------
(* The agent client *)

Offer(type, u, e) ==
  /\ change = NoChange
  /\ changes < MaxChanges
  /\ change' = [type |-> type, unit |-> u]
  /\ changes' = changes + 1
  /\ expected' = [expected EXCEPT ![u] = e]
  /\ UNCHANGED <<inputVars, pc, unit, unitVars, logLevel, outputVars, reported>>

AddUnit(u) ==
  /\ expected[u] = Absent
  /\ \E c \in Configs, l \in Levels :
       Offer("added", u, [state |-> "healthy", config |-> c, level |-> l])

ModifyUnit(u) ==
  /\ expected[u] # Absent
  /\ \E e \in Expectations \ {Absent, expected[u]} : Offer("modified", u, e)

RemoveUnit(u) ==
  /\ expected[u].state = "stopped"
  /\ reported[u] = "stopped"
  /\ Offer("removed", u, Absent)

Agent == \E u \in Units : AddUnit(u) \/ ModifyUnit(u) \/ RemoveUnit(u)

-----------------------------------------------------------------------------
(* ServerRunner *)

\* An event the output has read is never concluded: Elasticsearch skips it, or
\* the Kafka broker is gone.  Wait will not return.
OutputHangs ==
  /\ OutputFaults
  /\ runner # 0
  /\ hung = "no"
  /\ hung' = "output"
  /\ UNCHANGED <<inputVars, agentVars, pc, unit, unitVars, logLevel, outputs, runner,
                 attached, started, runConfig, reported>>

\* The queue fills up and nobody reads it, or is done with it: a handler waits
\* in Publish for good, and has queueMutex.
QueueFills ==
  /\ attached
  /\ runner = 0 \/ hung = "output"
  /\ server = "serving"
  /\ hung # "queue"
  /\ hung' = "queue"
  /\ UNCHANGED <<inputVars, agentVars, pc, unit, unitVars, logLevel, outputs, runner,
                 attached, started, runConfig, reported>>

\* Close: the mutex, the queue, then the end of the output.
CloseRunner ==
  /\ hung = "no"
  /\ outputs' = outputs \ {runner}
  /\ runner' = 0
  /\ attached' = FALSE
  /\ UNCHANGED <<hung, started, runConfig>>

-----------------------------------------------------------------------------
(* The run loop *)

\* The loop takes the change; from here on the unit may change again.
Take ==
  /\ pc = "ready"
  /\ change # NoChange
  /\ change' = NoChange
  /\ pc' = change.type
  /\ unit' = change.unit
  /\ UNCHANGED <<inputVars, expected, changes, unitVars, logLevel, outputVars, reported>>

SetState(state) == reported' = [reported EXCEPT ![unit] = state]

\* The operations of UnitMap; each reads unit.Expected() for itself.
UnitMapAdd ==
  IF unit = Output
    THEN outputUnit' = expected[unit].config /\ UNCHANGED inputUnits
    ELSE inputUnits' = inputUnits \cup {unit} /\ UNCHANGED outputUnit

\* Of an input only the presence matters.
UnitMapUpdate ==
  /\ outputUnit' = IF unit = Output THEN expected[unit].config ELSE outputUnit
  /\ UNCHANGED inputUnits

UnitMapDelete ==
  IF unit = Output
    THEN outputUnit' = None /\ UNCHANGED inputUnits
    ELSE inputUnits' = inputUnits \ {unit} /\ UNCHANGED outputUnit

AvailableUnitCount == Cardinality(inputUnits)

\* handleUnitAdded: AddUnit, then startShipper or addInput.
HandleUnitAdded ==
  /\ pc = "added"
  /\ UnitMapAdd
  /\ pc' = IF unit = Output THEN "start" ELSE "addInput"
  /\ UNCHANGED <<inputVars, agentVars, unit, logLevel, outputVars, reported>>

\* ShipperConfigFromUnitConfig sets the level, then ServerRunner.Start.
StartShipper ==
  /\ pc = "start"
  /\ logLevel' = expected[unit].level
  /\ runConfig' = expected[unit].config
  /\ started' = started + 1
  /\ runner' = started + 1
  /\ outputs' = outputs \cup {started + 1}
  /\ attached' = TRUE
  /\ SetState("healthy")
  /\ pc' = "ready"
  /\ UNCHANGED <<inputVars, agentVars, unit, unitVars, hung>>

\* The configuration is refused, or ServerRunner.Start returns an error, with
\* or without a queue left behind.
StartShipperFails ==
  /\ OutputFaults
  /\ pc = "start"
  /\ logLevel' = expected[unit].level
  /\ runConfig' = None
  /\ attached' \in BOOLEAN
  /\ SetState("failed")
  /\ pc' = "ready"
  /\ UNCHANGED <<inputVars, agentVars, unit, unitVars, outputs, runner, hung, started>>

\* addInput, which may not get past the configuration, and startgRPC.
AddInput ==
  /\ pc = "addInput"
  /\ \/ (AlreadyStarted \/ Serve) /\ SetState("healthy")
     \/ (\E fault \in ServerFaults : StartFails(fault)) /\ SetState("failed")
     \/ "config" \in ServerFaults /\ UNCHANGED inputVars /\ SetState("failed")
  /\ pc' = "ready"
  /\ UNCHANGED <<agentVars, unit, unitVars, logLevel, outputVars>>

\* Mutant: the configurations are not compared.
OnlyLogLevelDiffers ==
  /\ unit = Output
  /\ outputUnit # None
  /\ expected[unit].level # logLevel

\* onlyLogLevelUpdated, on the first read of the expected state.
OnlyLogLevelUpdated ==
  /\ unit = Output
  /\ outputUnit # None
  /\ expected[unit].config = outputUnit
  /\ expected[unit].level # logLevel

\* handleUnitUpdated, when only the level has changed ...
UpdateLogLevel ==
  /\ pc = "modified"
  /\ OnlyLogLevelUpdated
  /\ logLevel' = expected[unit].level
  /\ SetState("healthy")
  /\ pc' = "ready"
  /\ UNCHANGED <<inputVars, agentVars, unit, unitVars, outputVars>>

\* ... and when it has not: updateShipperOutput or updateInput.
HandleUnitUpdated ==
  /\ pc = "modified"
  /\ ~OnlyLogLevelUpdated
  /\ pc' = IF unit = Output THEN "updateOutput" ELSE "updateInput"
  /\ UNCHANGED <<inputVars, agentVars, unit, unitVars, logLevel, outputVars, reported>>

\* updateInput: the endpoint is left as it is.
UpdateInput ==
  /\ pc = "updateInput"
  /\ UnitMapUpdate
  /\ IF expected[unit].state = "stopped" THEN SetState("stopped") ELSE UNCHANGED reported
  /\ pc' = "ready"
  /\ UNCHANGED <<inputVars, agentVars, unit, logLevel, outputVars>>

\* updateShipperOutput reads the state it acts on before UpdateUnit reads the
\* configuration it stores.
ReadState ==
  /\ pc = "updateOutput"
  /\ pc' = IF expected[unit].state = "healthy" THEN "restart" ELSE "stop"
  /\ UNCHANGED <<inputVars, agentVars, unit, unitVars, logLevel, outputVars, reported>>

\* UpdateUnit, and the unit is reported as stopping.
UpdateShipperOutput ==
  /\ pc \in {"restart", "stop"}
  /\ UnitMapUpdate
  /\ SetState("stopping")
  /\ pc' = IF pc = "stop" THEN "closeStop" ELSE "closeRestart"
  /\ UNCHANGED <<inputVars, agentVars, unit, logLevel, outputVars>>

\* Mutant: a restart forgets to close the output.
StopShipperOnStopOnly ==
  /\ pc \in {"closeRestart", "closeStop"}
  /\ IF pc = "closeStop" THEN CloseRunner ELSE UNCHANGED outputVars
  /\ IF pc = "closeStop"
       THEN pc' = "ready" /\ SetState("stopped")
       ELSE pc' = "start" /\ UNCHANGED reported
  /\ UNCHANGED <<inputVars, agentVars, unit, unitVars, logLevel>>

\* stopShipper, once Close returns; a restart goes on to startShipper.
StopShipper ==
  /\ pc \in {"closeRestart", "closeStop"}
  /\ CloseRunner
  /\ IF pc = "closeStop"
       THEN pc' = "ready" /\ SetState("stopped")
       ELSE pc' = "start" /\ UNCHANGED reported
  /\ UNCHANGED <<inputVars, agentVars, unit, unitVars, logLevel>>

\* Mutant: the endpoint goes with any unit.
HandleUnitRemovedAlways ==
  /\ pc = "removed"
  /\ inputUnits' = inputUnits \ {unit}
  /\ outputUnit' = IF unit = Output THEN None ELSE outputUnit
  /\ pc' = "stopGRPC"
  /\ UNCHANGED <<inputVars, agentVars, unit, logLevel, outputVars, reported>>

\* handleUnitRemoved; with the last input the endpoint goes, before the unit
\* is reported as stopped.
HandleUnitRemoved ==
  /\ pc = "removed"
  /\ UnitMapDelete
  /\ IF AvailableUnitCount' = 0
       THEN pc' = "stopGRPC" /\ UNCHANGED reported
       ELSE pc' = "ready" /\ SetState("stopped")
  /\ UNCHANGED <<inputVars, agentVars, unit, logLevel, outputVars>>

\* InputHandler.Stop, whose GracefulStop waits for the handlers.
StopEndpoint == hung # "queue" /\ Stop

StopGRPC ==
  /\ pc = "stopGRPC"
  /\ StopEndpoint
  /\ SetState("stopped")
  /\ pc' = "ready"
  /\ UNCHANGED <<agentVars, unit, unitVars, logLevel, outputVars>>

\* A signal or the end of the context: the endpoint, then the output.
Signal ==
  /\ pc = "ready"
  /\ pc' = "shutdown"
  /\ UNCHANGED <<inputVars, agentVars, unit, unitVars, logLevel, outputVars, reported>>

Shutdown ==
  /\ pc = "shutdown"
  /\ StopEndpoint
  /\ pc' = "closing"
  /\ UNCHANGED <<agentVars, unit, unitVars, logLevel, outputVars, reported>>

Exit ==
  /\ pc = "closing"
  /\ CloseRunner
  /\ pc' = "exited"
  /\ UNCHANGED <<inputVars, agentVars, unit, unitVars, logLevel, reported>>

Handler ==
  \/ HandleUnitAdded
  \/ StartShipper
  \/ StartShipperFails
  \/ AddInput
  \/ UpdateLogLevel
  \/ HandleUnitUpdated
  \/ UpdateInput
  \/ ReadState
  \/ UpdateShipperOutput
  \/ StopShipper
  \/ HandleUnitRemoved
  \/ StopGRPC
  \/ Shutdown
  \/ Exit

Next == Agent \/ OutputHangs \/ QueueFills \/ Take \/ Handler \/ Signal

Spec == Init /\ [][Next]_vars

\* The run loop keeps running.
FairSpec == Spec /\ WF_vars(Take \/ Handler)

-----------------------------------------------------------------------------
(* Properties *)

\* The state has the shape the Go types give it.
TypeOK ==
  /\ server \in {"nil", "made", "serving"}
  /\ shipper \in BOOLEAN
  /\ startMutex \in {"free", "held"}
  /\ expected \in [Units -> Expectations]
  /\ change \in [type : {"none", "added", "modified", "removed"}, unit : Units]
  /\ changes \in 0..MaxChanges
  /\ pc \in {"ready", "added", "modified", "removed", "start", "addInput",
             "updateInput", "updateOutput", "restart", "stop", "closeRestart",
             "closeStop", "stopGRPC", "shutdown", "closing", "exited"}
  /\ unit \in Units
  /\ inputUnits \subseteq Inputs
  /\ outputUnit \in Configs \cup {None}
  /\ logLevel \in Levels
  /\ outputs \subseteq 1..started
  /\ runner \in 0..started
  /\ attached \in BOOLEAN
  /\ hung \in {"no", "output", "queue"}
  /\ started \in Nat
  /\ runConfig \in Configs \cup {None}
  /\ reported \in [Units -> {"stopped", "stopping", "healthy", "failed"}]

\* The run loop is idle and has taken every change.
Quiet == pc = "ready" /\ change = NoChange

\* There is never a second output: the one that runs is the one ServerRunner
\* holds, and it is closed before another one is started.
OneOutput == outputs = (IF runner = 0 THEN {} ELSE {runner})

\* A change of the output unit that the run loop has not taken, and the loop at
\* work on one.
Offered(type) == change = [type |-> type, unit |-> Output]
OutputOffered == change # NoChange /\ change.unit = Output
Handling(labels) == unit = Output /\ pc \in labels
HandlingOutput ==
  Handling({"added", "modified", "updateOutput", "restart", "start", "stop",
            "closeRestart", "closeStop"})

\* A handler works on a unit of its kind.
HandlerInv ==
  /\ change.type = "none" => change = NoChange
  /\ pc \in {"updateOutput", "restart", "start", "stop", "closeRestart", "closeStop"} =>
       unit = Output
  /\ pc = "updateInput" => unit # Output
  /\ pc = "addInput" => unit \in inputUnits

\* What the run loop has read of the output unit, and what the agent has made
\* of the unit since: the unit does not go away under a start, and it is added
\* or removed only while no output runs and no queue is left behind.
StaleReadsInv ==
  /\ Offered("added") =>
       expected[Output].state = "healthy" /\ ~attached /\ ~HandlingOutput
  /\ Offered("removed") => expected[Output] = Absent
  /\ Offered("modified") => expected[Output] # Absent
  /\ expected[Output] = Absent =>
       ~attached /\ (HandlingOutput => Offered("removed"))
  /\ Handling({"added", "restart", "closeRestart", "start"}) =>
       expected[Output].state = "healthy" \/ Offered("modified")
  /\ Handling({"added", "start"}) => ~attached
  /\ Handling({"removed", "stopGRPC"}) => expected[Output] = Absent \/ Offered("added")
  /\ reported[Output] = "stopped" => ~attached

\* What Close would have to wait for needs a queue, and a handler that waits an
\* endpoint; a process that has exited has neither.
RunnerInv ==
  /\ runner # 0 => attached
  /\ hung # "no" => attached
  /\ hung = "queue" => server = "serving"
  /\ pc = "exited" => ~attached

\* The output has the configuration of the unit, or the change it lacks is still
\* to come or in hand.  If start read a newer configuration than the unit map
\* did, it also read the newer level, so that the change to come is not taken
\* for one of the level only.
SyncInv ==
  /\ (runner # 0 /\ expected[Output].state = "healthy"
        /\ ~HandlingOutput /\ ~OutputOffered) =>
       runConfig = expected[Output].config /\ logLevel = expected[Output].level
  /\ pc \in {"closeRestart", "start"} =>
       outputUnit = expected[Output].config \/ OutputOffered
  /\ (runner # 0 /\ runConfig # outputUnit) =>
       \/ pc \in {"updateOutput", "restart", "stop", "closeRestart", "closeStop"}
       \/ Handling({"modified"}) /\ OutputOffered
       \/ /\ Handling({"modified"}) \/ OutputOffered
          /\ logLevel = expected[Output].level

\* The endpoint is there while there are inputs, and a healthy input is one of
\* them until it is reported as stopped.
EndpointInv ==
  /\ inputUnits = {} /\ pc # "stopGRPC" => server = "nil"
  /\ pc = "stopGRPC" => inputUnits = {}
  /\ \A u \in Inputs : reported[u] = "healthy" =>
       /\ u \in inputUnits \/ (pc = "stopGRPC" /\ unit = u)
       /\ pc \notin {"closing", "exited"} => server # "nil"

\* Where the run loop waits for the lock of the endpoint that a failed Start has
\* kept, for handlers that do not return, and for a Close that does not.
WaitsForLock ==
  pc \in {"stopGRPC", "shutdown"} /\ startMutex = "held" /\ server = "made"
WaitsForHandlers == pc \in {"stopGRPC", "shutdown"} /\ hung = "queue"
WaitsForRunner == pc \in {"closeRestart", "closeStop", "closing"} /\ hung # "no"

\* The lock is only ever left held by a Start that failed and has left its
\* server behind, which the next input takes for started: a Start never waits
\* for the lock, and only stopping the endpoint does.
LockInv ==
  /\ startMutex = "held" => server = "made" /\ pc \notin {"closing", "exited"}
  /\ pc = "addInput" => server # "nil" \/ startMutex = "free"

\* The lock is never released: from then on the endpoint is not stopped, the
\* process does not end, and a run loop that waits for the lock waits for good.
LockIsLost ==
  [][startMutex = "held" => /\ startMutex' = "held" /\ server' = "made"
                            /\ pc' # "exited"
                            /\ WaitsForLock => WaitsForLock']_vars

\* Nor does an output that hangs, or a queue that nobody empties, ever let go:
\* the queue stays attached, the process does not end, and a run loop that waits
\* in Close or for the handlers waits for good.
RunnerIsLost ==
  [][hung # "no" => /\ hung' # "no" /\ attached' /\ pc' # "exited"
                    /\ WaitsForRunner => WaitsForRunner'
                    /\ WaitsForHandlers => WaitsForHandlers']_vars

\* How many steps a handler has still to go, at most.
Left ==
  CASE pc \in {"ready", "exited"} -> 0
    [] pc \in {"start", "addInput", "updateInput", "closeStop", "stopGRPC", "closing"} -> 1
    [] pc \in {"added", "removed", "stop", "closeRestart", "shutdown"} -> 2
    [] pc = "restart" -> 3
    [] pc = "updateOutput" -> 4
    [] OTHER -> 5

\* A handler comes to its end however the unit changes meanwhile: it never goes
\* back to read the unit again, and every step of the loop is one step less.
HandlersEnd ==
  [][(pc \notin {"ready", "exited"}) => pc' = pc \/ (Left' \in Nat /\ Left' < Left)]_vars

\* What holds at every point of a handler, faults included; inductive.
ControllerInv ==
  /\ TypeOK
  /\ OneOutput
  /\ HandlerInv
  /\ StaleReadsInv
  /\ RunnerInv
  /\ SyncInv
  /\ EndpointInv
  /\ LockInv

\* When the changes have been dealt with, the output that runs has the latest
\* configuration and the logger the latest level, whatever the handlers read
\* while the agent went on changing the unit.
LatestConfigRuns ==
  (Quiet /\ expected[Output].state = "healthy" /\ runner # 0)
    => /\ runConfig = expected[Output].config
       /\ logLevel = expected[Output].level

\* The endpoint goes with the last input unit, also one that did not come up.
NoEndpointWithoutInputs == (pc = "ready" /\ inputUnits = {}) => server = "nil"

\* The endpoint is not taken from under an input that is healthy: Start was
\* called and nothing has stopped it since.  (Whether it serves is another
\* matter: a Start that failed leaves a server behind that passes for started.)
HealthyInputHasEndpoint ==
  \A u \in Inputs : (pc = "ready" /\ reported[u] = "healthy") => server # "nil"

\* Every change is dealt with, and so is a signal: the run loop hangs in three
\* places only, and each for its own reason.  It waits for the lock a failed
\* Start has kept, for handlers of which one waits for room nobody makes, or for
\* an output that is never done.
ChangesAreHandled ==
  pc \notin {"ready", "exited"}
    ~> \/ pc \in {"ready", "exited"}
       \/ WaitsForLock \/ WaitsForHandlers \/ WaitsForRunner

-----------------------------------------------------------------------------
(* What a comment in the code says, and the code does not do *)

\* "check to see if a unit update only updates a unit level change": an output
\* that is told to stop is stopped.
StoppedOutputStops ==
  (Quiet /\ expected[Output].state = "stopped") => outputs = {}
=============================================================================
