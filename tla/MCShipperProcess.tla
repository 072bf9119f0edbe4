-------------------------- MODULE MCShipperProcess --------------------------
\* Small instances of a configured shipper for TLC.
EXTENDS ShipperProcess, TLC

CONSTANTS r1, r2   \* readers of metrics

Symmetry == Permutations({r1, r2})

MCDiskDefaults == [retry |-> 1, maxRetry |-> 30]

Plain ==
  [source |-> "unit", type |-> "console", sections |-> {}, disk |-> NoDisk,
   enabled |-> TRUE, faults |-> {}, monitoring |-> TRUE,
   init |-> 1, max |-> 5, maxRetries |-> 3]

\* Disk queues of every kind.
DiskRaws ==
  {[Plain EXCEPT !.type = "elasticsearch",
                 !.disk = [max |-> m, segment |-> s, retry |-> i, maxRetry |-> x]] :
     m \in {0, 9, 10}, s \in {0, 5, 6}, i \in {0, 1, 40}, x \in {0, 1, 40}}

\* Consoles: of a unit, also with -E or a disk queue, with or without a limit,
\* and from a file, with and without monitoring.
ConsoleRaws ==
  {Plain, [Plain EXCEPT !.sections = {"logstash"}, !.monitoring = FALSE],
   [Plain EXCEPT !.source = "file", !.sections = {"console"}]}
  \cup {[Plain EXCEPT !.disk = [max |-> m, segment |-> 0, retry |-> 0, maxRetry |-> 0]] :
          m \in {0, 10}}

\* Every type and combination of outputs, but for consoles; any two things
\* wrong with Kafka, enabled or not; what a start may find out; and the settings
\* of retries.
OutputRaws ==
  {[Plain EXCEPT !.source = c, !.type = t, !.sections = s] :
     c \in {"file", "unit"}, t \in OutputNames \cup {"other"}, s \in SUBSET OutputNames}

KafkaRaws ==
  {[Plain EXCEPT !.type = "kafka", !.enabled = e, !.faults = {f, g}] :
     e \in BOOLEAN, f \in Faults, g \in KafkaChecked \cup KafkaUnchecked}

StartRaws ==
  {[Plain EXCEPT !.type = t, !.disk = d, !.monitoring = m, !.faults = {f}] :
     t \in {"elasticsearch", "kafka"},
     d \in {NoDisk, [max |-> 10, segment |-> 0, retry |-> 0, maxRetry |-> 0]},
     m \in BOOLEAN, f \in StartFaults}

RetryRaws ==
  {[Plain EXCEPT !.type = t, !.init = i, !.max = x, !.maxRetries = n] :
     t \in {"elasticsearch", "kafka"}, i \in 0..3, x \in {0, 1, 2, 5, 8, 11},
     n \in {-1, 2}}

MCRaws ==
  DiskRaws \cup ConsoleRaws \cup KafkaRaws \cup StartRaws \cup RetryRaws
    \cup {r \in OutputRaws : Output(r) # "console"}

MCChanges == {r \in ConsoleRaws : r.source = "unit"}
=============================================================================
