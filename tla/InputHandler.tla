---------------------------- MODULE InputHandler ----------------------------
(***************************************************************************)
(* grpcserver/inputhandler.go: the gRPC endpoint, started for the first    *)
(* input unit and stopped with the last.  Start and Stop are only called   *)
(* by the goroutine of the controller, one at a time; Start can fail at    *)
(* several points, each with its own cleanup or lack of it.                *)
(***************************************************************************)
EXTENDS Integers, FiniteSets

CONSTANT ServerFaults   \* what may fail: an input's configuration, steps of Start

ASSUME ServerFaultsAssumption ==
  ServerFaults \subseteq {"config", "uuid", "mkdir", "remove", "listen", "dial"}

VARIABLES
  server,       \* srv.server: nil, made but not serving, or serving
  shipper,      \* srv.Shipper is not nil
  startMutex    \* "free" or "held"

inputVars == <<server, shipper, startMutex>>

InputInit ==
  /\ server = "nil"
  /\ shipper = FALSE
  /\ startMutex = "free"

\* "shipper gRPC already started, continuing..."
AlreadyStarted ==
  /\ server # "nil"
  /\ UNCHANGED inputVars

Serve ==
  /\ server = "nil"
  /\ startMutex = "free"
  /\ server' = "serving"
  /\ shipper' = TRUE
  /\ UNCHANGED startMutex

\* An error return.  The grpc.Server is made before anything can fail and is
\* not taken back; the lock is taken after the ShipperServer is made, and
\* released on every error but that of removing an old socket.
StartFails(fault) ==
  /\ fault \in ServerFaults \ {"config"}
  /\ server = "nil"
  /\ fault # "uuid" => startMutex = "free"
  /\ server' = "made"
  /\ shipper' = (fault # "uuid")
  /\ startMutex' = IF fault = "remove" THEN "held" ELSE startMutex

\* Mutant: the server stays behind.
StopShipperOnly ==
  /\ startMutex = "free"
  /\ shipper' = FALSE
  /\ UNCHANGED <<server, startMutex>>

\* Mutant: the lock is kept.
StopLocked ==
  /\ startMutex = "free"
  /\ shipper' = FALSE
  /\ server' = "nil"
  /\ startMutex' = "held"

\* Closes the ShipperServer, then waits in GracefulStop, all under the lock.
Stop ==
  /\ startMutex = "free"
  /\ shipper' = FALSE
  /\ server' = "nil"
  /\ UNCHANGED startMutex
=============================================================================
