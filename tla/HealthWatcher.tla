--------------------------- MODULE HealthWatcher ---------------------------
(***************************************************************************)
(* output/elasticsearch/watcher.go: on every tick the watcher compares the *)
(* counters of the Elasticsearch client, and the count of failed callbacks *)
(* that Fail keeps, with those of the tick before, and reports a degraded  *)
(* or recovered output to its unit.  The counters move while it does so.   *)
(*                                                                         *)
(* Every start of the output makes a watcher of its own (a generation);    *)
(* Wait cancels its context and does not wait for it.  All report to the   *)
(* same unit, whose state startShipper and updateShipperOutput set too.    *)
(*                                                                         *)
(* HTTP responses in the range of failures and failures of the transport   *)
(* are read together and compared alike: they are one counter, failures.   *)
(***************************************************************************)
EXTENDS Integers

CONSTANTS
  Generations,   \* bound: 1..Generations starts of the output
  MaxCount       \* bound: the highest value of a counter

ASSUME WatcherAssumption == Generations \in Nat \ {0} /\ MaxCount \in Nat

Watchers == 1..Generations

VARIABLES
  current,       \* the generation of the output that runs, or ran last
  phase,         \* how far the controller is with it
  unit,          \* the state last reported to the agent for the unit
  counters,      \* per watcher: successes, failures, callbackFailCount
  pc,            \* per watcher: where Watch is
  cancelled,     \* watchers whose context is done
  seen,          \* per watcher: the values read in this tick
  last,          \* per watcher: the values of the tick before
  didFail        \* per watcher: it has reported a degraded output

vars == <<current, phase, unit, counters, pc, cancelled, seen, last, didFail>>

Counters == [success : 0..MaxCount, failures : 0..MaxCount, cbFails : 0..MaxCount]
Zero == [success |-> 0, failures |-> 0, cbFails |-> 0]

Init ==
  /\ current = 0
  /\ phase = "down"
  /\ unit = "stopped"
  /\ counters = [g \in Watchers |-> Zero]
  /\ pc = [g \in Watchers |-> "off"]
  /\ cancelled = {}
  /\ seen = [g \in Watchers |-> Zero]
  /\ last = [g \in Watchers |-> Zero]
  /\ didFail = [g \in Watchers |-> FALSE]

Goto(g, label) == pc' = [pc EXCEPT ![g] = label]

-----------------------------------------------------------------------------
(* The output and the controller *)

\* ElasticSearchOutput.Start, called by startShipper, launches the watcher.
StartWatcher ==
  /\ phase = "down"
  /\ current < Generations
  /\ current' = current + 1
  /\ phase' = "starting"
  /\ Goto(current + 1, "select")
  /\ unit' = "configuring"
  /\ UNCHANGED <<counters, cancelled, seen, last, didFail>>

\* startShipper: "outputs initialized".
Initialized ==
  /\ phase = "starting"
  /\ phase' = "up"
  /\ unit' = "healthy"
  /\ UNCHANGED <<current, counters, pc, cancelled, seen, last, didFail>>

\* updateShipperOutput: the unit is stopping.
Stopping ==
  /\ phase = "up"
  /\ phase' = "stopping"
  /\ unit' = "stopping"
  /\ UNCHANGED <<current, counters, pc, cancelled, seen, last, didFail>>

\* Wait cancels the context of the watcher ...
CancelWatch ==
  /\ phase = "stopping"
  /\ phase' = "draining"
  /\ cancelled' = cancelled \cup {current}
  /\ UNCHANGED <<current, unit, counters, pc, seen, last, didFail>>

\* ... and returns when the output, not the watcher, is done.
WaitReturns ==
  /\ phase = "draining"
  /\ phase' = "down"
  /\ UNCHANGED <<current, unit, counters, pc, cancelled, seen, last, didFail>>

Count(counter) ==
  /\ phase # "down"
  /\ counters[current][counter] < MaxCount
  /\ counters' = [counters EXCEPT ![current][counter] = @ + 1]
  /\ UNCHANGED <<current, phase, unit, pc, cancelled, seen, last, didFail>>

\* Responses and transport errors of the client of the output.
Response == Count("success") \/ Count("failures")

\* Fail, called by the goroutine of the output or by a callback.
Fail == Count("cbFails")

-----------------------------------------------------------------------------
(* Watch *)

\* The ticker fires and the metrics are read.  An error reading them leaves
\* everything as it is.  A context that is done does not come first: select
\* picks any channel that is ready.
Tick(g) ==
  /\ pc[g] = "select"
  /\ seen' = [seen EXCEPT ![g].success = counters[g].success,
                          ![g].failures = counters[g].failures]
  /\ Goto(g, "load")
  /\ UNCHANGED <<current, phase, unit, counters, cancelled, last, didFail>>

\* The first load of callbackFailCount.
LoadFails(g) ==
  /\ pc[g] = "load"
  /\ seen' = [seen EXCEPT ![g].cbFails = counters[g].cbFails]
  /\ Goto(g, "report")
  /\ UNCHANGED <<current, phase, unit, counters, cancelled, last, didFail>>

Delta(g, counter) == seen[g][counter] - last[g][counter]

\* Mutant: the total in place of the change since the last tick.
DegradedByTotals(g) ==
  /\ seen[g].success = 0
  /\ Delta(g, "cbFails") > 0 \/ Delta(g, "failures") > 0

Degraded(g) ==
  /\ Delta(g, "success") = 0
  /\ Delta(g, "cbFails") > 0 \/ Delta(g, "failures") > 0

Recovered(g) == didFail[g] /\ Delta(g, "success") > 0

\* Mutant: didFail only stands for the tick it was set in.
ReportForgetful(g) ==
  /\ pc[g] = "report"
  /\ unit' = IF Degraded(g) THEN "degraded" ELSE IF Recovered(g) THEN "healthy" ELSE unit
  /\ didFail' = [didFail EXCEPT ![g] = Degraded(g)]
  /\ Goto(g, "update")
  /\ UNCHANGED <<current, phase, counters, cancelled, seen, last>>

\* The callback: createOutputHealthReporter sets the state of the unit.
Report(g) ==
  /\ pc[g] = "report"
  /\ unit' = IF Degraded(g) THEN "degraded" ELSE IF Recovered(g) THEN "healthy" ELSE unit
  /\ didFail' = [didFail EXCEPT ![g] = Degraded(g) \/ (@ /\ ~Recovered(g))]
  /\ Goto(g, "update")
  /\ UNCHANGED <<current, phase, counters, cancelled, seen, last>>

\* Mutant: all counters are read again.
UpdateReread(g) ==
  /\ pc[g] = "update"
  /\ last' = [last EXCEPT ![g] = counters[g]]
  /\ Goto(g, "select")
  /\ UNCHANGED <<current, phase, unit, counters, cancelled, seen, didFail>>

\* The trackers are updated; callbackFailCount is loaded a second time.
Update(g) ==
  /\ pc[g] = "update"
  /\ last' = [last EXCEPT ![g] = [seen[g] EXCEPT !.cbFails = counters[g].cbFails]]
  /\ Goto(g, "select")
  /\ UNCHANGED <<current, phase, unit, counters, cancelled, seen, didFail>>

\* ctx.Done().
Return(g) ==
  /\ pc[g] = "select"
  /\ g \in cancelled
  /\ Goto(g, "off")
  /\ UNCHANGED <<current, phase, unit, counters, cancelled, seen, last, didFail>>

Watch(g) == Tick(g) \/ LoadFails(g) \/ Report(g) \/ Update(g) \/ Return(g)

Next ==
  \/ StartWatcher
  \/ Initialized
  \/ Stopping
  \/ CancelWatch
  \/ WaitReturns
  \/ Response
  \/ Fail
  \/ \E g \in Watchers : Watch(g)

Spec == Init /\ [][Next]_vars

\* The ticker fires again and again, and the watcher runs.
FairSpec == Spec /\ \A g \in Watchers : WF_vars(Watch(g))

-----------------------------------------------------------------------------
(* Properties *)

\* The state has the shape the Go types give it.
TypeOK ==
  /\ current \in 0..Generations
  /\ phase \in {"down", "starting", "up", "stopping", "draining"}
  /\ unit \in {"stopped", "configuring", "stopping", "healthy", "degraded"}
  /\ counters \in [Watchers -> Counters]
  /\ pc \in [Watchers -> {"off", "select", "load", "report", "update"}]
  /\ cancelled \subseteq Watchers
  /\ seen \in [Watchers -> Counters]
  /\ last \in [Watchers -> Counters]
  /\ didFail \in [Watchers -> BOOLEAN]

\* The trackers lag behind the counters, never run ahead of them, and never
\* skip a response: what is not yet compared will be.
TrackersLag ==
  \A g \in Watchers : \A c \in {"success", "failures", "cbFails"} :
    /\ last[g][c] <= counters[g][c]
    /\ seen[g][c] <= counters[g][c]
    /\ (pc[g] \in {"report", "update"} \/ (pc[g] = "load" /\ c # "cbFails")) =>
         last[g][c] <= seen[g][c]
    /\ (pc[g] \in {"off", "select"} /\ c # "cbFails") => last[g][c] = seen[g][c]

\* A unit is degraded because a watcher found its output so and has not seen
\* it recover since: that of the output that runs or, as Wait does not wait for
\* it, that of one before it.
DegradedIsReported ==
  unit = "degraded" => \E g \in 1..current : didFail[g]

\* Only watchers that were started run, and what they report they remember.
ReportsRemembered ==
  /\ current = 0 => phase = "down"
  /\ \A g \in Watchers : pc[g] # "off" => g <= current
  /\ DegradedIsReported

\* A watcher that has reported a degraded output has counted a failure of it.
DegradedHasCause ==
  \A g \in Watchers : didFail[g] => counters[g].failures > 0 \/ counters[g].cbFails > 0

\* A watcher that has found failures and no success since the last tick has
\* reported them when it updates its trackers.  And where no response has ever
\* succeeded, one that has compared a failed one still says so: an outage ends
\* with a success only.
OutageIsRemembered ==
  \A g \in Watchers :
    /\ (pc[g] = "update" /\ Degraded(g)) => didFail[g]
    /\ (/\ counters[g].success = 0
        /\ last[g].failures > 0 \/ (pc[g] = "update" /\ seen[g].failures > 0))
         => didFail[g]

\* What holds of the watchers at every point of a tick; inductive.
WatcherInv ==
  TypeOK /\ TrackersLag /\ ReportsRemembered /\ DegradedHasCause /\ OutageIsRemembered

\* Responses of Elasticsearch after a degraded report bring the unit back,
\* whenever in the tick they come in.
RecoveryIsReported ==
  \A k \in 1..MaxCount :
    (phase = "up" /\ didFail[current]
       /\ counters[current].success >= k /\ last[current].success < k)
      ~> (unit # "degraded" \/ phase # "up")

\* "if there have been no successful HTTP codes since the last reporting
\* period, but we have gotten a non-zero change in failures, assume we're in a
\* degraded state": whatever has succeeded before, failures the trackers have
\* not seen are reported if the number of successes stays what it was at the
\* last tick.  This holds of a failed response or connection whenever in a tick
\* it comes in, and of a failure that only Fail has counted between ticks.
OutageIsReported ==
  \A s \in 0..MaxCount :
    (/\ phase = "up"
     /\ counters[current].success = s /\ last[current].success = s
     /\ \/ counters[current].failures > last[current].failures
        \/ pc[current] = "select" /\ counters[current].cbFails > last[current].cbFails)
      ~> (phase # "up" \/ didFail[current] \/ counters[current].success > s)
=============================================================================
