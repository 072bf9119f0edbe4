-------------------------- MODULE ShipperProcess --------------------------
(***************************************************************************)
(* A shipper from its configuration to the end of its output: what         *)
(* Configuration accepts is started, the console output empties the queue, *)
(* the monitor watches it, and an output unit may be reconfigured, which   *)
(* closes one output and starts the next.  Of the other outputs only the   *)
(* pauses between retries are here, their loops are modules of their own;  *)
(* what a start that fails leaves behind is in PublisherServer.            *)
(***************************************************************************)
EXTENDS ConsoleOutput, QueueMonitor, Configuration

processVars == <<vars, monitorVars, configVars>>

ProcessInit == Init /\ MonitorInit /\ ConfigInit

\* LoadAndRun or startShipper reads the configuration.
Load == ReadConfig /\ UNCHANGED <<vars, monitorVars>>

HasConsole(r) == StartOutcome(r) = "started" /\ Output(r) = "console"

\* ServerRunner.Start: queue, monitor, output.
StartConsole ==
  /\ HasConsole(raw)
  /\ StartConfigured
  /\ Start
  /\ NewFromConfig(raw.monitoring)
  /\ RegisterDiagnosticHook(raw.source = "unit")

StartOther ==
  /\ ~HasConsole(raw)
  /\ StartConfigured
  /\ UNCHANGED <<vars, monitorVars>>

\* ServerRunner.Close up to Wait: the monitor ends, the queue is closed.
CloseOutput == CloseQueue /\ End /\ UNCHANGED <<loopVars, configVars>>

\* updateShipperOutput, after Close has returned.
Restart == waited /\ Reconfigure /\ UNCHANGED <<vars, monitorVars>>

Pipeline ==
  /\ Loop \/ Wait \/ Acknowledges \/ (Publish /\ UNCHANGED loopVars)
  /\ UNCHANGED <<monitorVars, configVars>>

RawMetrics == IF UseDiskQueue(raw) THEN ByteMetrics(raw.disk.max) ELSE EventMetrics

Monitoring ==
  /\ \E r \in Readers : GetQueueMetrics(r, RawMetrics)
  /\ UNCHANGED <<vars, configVars>>

Retries == RetryRequest /\ UNCHANGED <<vars, monitorVars>>

ProcessNext ==
  \/ Load
  \/ StartConsole
  \/ StartOther
  \/ Pipeline
  \/ CloseOutput
  \/ Restart
  \/ Monitoring
  \/ Retries

ProcessSpec == ProcessInit /\ [][ProcessNext]_processVars
=============================================================================
