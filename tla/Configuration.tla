--------------------------- MODULE Configuration ---------------------------
(***************************************************************************)
(* From a configuration to what is started with it: config/config.go,      *)
(* queue/config.go, the config.go of the Elasticsearch and Kafka outputs   *)
(* and publisherserver's outputFromConfig.  A configuration comes from a   *)
(* file or from the output unit of the agent, is validated while it is     *)
(* unpacked, and is turned into settings when the output is started; the   *)
(* two do not look at the same things.                                     *)
(*                                                                         *)
(* Sizes are in megabytes, durations in seconds and not negative; 0 stands *)
(* for a setting that is not given, as in the code or for its nil          *)
(* pointers.  Settings that are only good or bad (names, addresses, TLS)   *)
(* are there as the set of faults they may have.                           *)
(***************************************************************************)
EXTENDS Integers, Sequences

CONSTANTS
  Raws,          \* configurations that may be given first
  Changes,       \* configurations an output unit may be changed to
  DiskDefaults,  \* diskqueue.DefaultSettings: [retry, maxRetry]
  MaxAttempts    \* bound: retries of a request

\* The outputs there are, and those ShipperConfigFromUnitConfig knows.
OutputNames == {"elasticsearch", "kafka", "console", "logstash"}
UnitTypes == {"elasticsearch", "kafka", "console"}

\* What may be wrong with a Kafka configuration and Validate looks at: no
\* hosts, no topic, an unknown compression or version, a user (one that is
\* used: no Kerberos) without a password.
KafkaChecked == {"hosts", "topic", "compression", "version", "password"}

\* And what it does not look at: topics of which no selector can be built, an
\* unknown partitioner or codec, certificates that cannot be loaded, and all
\* that sarama refuses, such as a missing client_id or timeout.
KafkaUnchecked == {"selector", "partition", "tls", "sarama", "codec"}

\* What only a start finds out: a directory for the disk queue, a port for the
\* metrics, or a client of the backend that cannot be had.
StartFaults == {"queue", "metrics", "client"}

Faults == KafkaChecked \cup KafkaUnchecked \cup StartFaults

DiskConfig == [max : Nat, segment : Nat, retry : Nat, maxRetry : Nat]
NoDisk == [max |-> -1, segment |-> 0, retry |-> 0, maxRetry |-> 0]

\* type is that of a unit; sections are the outputs a file or -E configures.
Raw ==
  [source : {"file", "unit"}, type : OutputNames \cup {"other"},
   sections : SUBSET OutputNames, disk : DiskConfig \cup {NoDisk},
   enabled : BOOLEAN, faults : SUBSET Faults, monitoring : BOOLEAN,
   init : Nat, max : Nat, maxRetries : Nat \cup {-1}]

ASSUME ConfigurationAssumption ==
  /\ Raws \subseteq Raw
  /\ Changes \subseteq Raw
  /\ DiskDefaults \in [retry : Nat, maxRetry : Nat]
  /\ DiskDefaults.retry <= DiskDefaults.maxRetry
  /\ MaxAttempts \in Nat

VARIABLES
  raw,      \* the configuration read last
  stage,    \* how far it has got
  attempt,  \* retries of the request the output is making
  wait      \* the pause before the last of them

configVars == <<raw, stage, attempt, wait>>

Stages == {"none", "accepted", "refused", "started", "failed", "panicked"}

ConfigInit ==
  /\ raw \in Raws
  /\ stage = "none"
  /\ attempt = 0
  /\ wait = 0

-----------------------------------------------------------------------------
(* Reading a configuration *)

\* Mutant: half of the check is left out.
DiskValidSizesOnly(d) ==
  /\ d.max # 0 => d.max >= 10
  /\ d.segment # 0 => d.segment >= 1

\* DiskConfig.Validate
DiskValid(d) ==
  /\ (d.segment # 0 /\ d.max # 0) => d.max >= 2 * d.segment
  /\ d.max # 0 => d.max >= 10
  /\ d.segment # 0 => d.segment >= 1
  /\ (d.retry # 0 /\ d.maxRetry # 0) => d.maxRetry >= d.retry

\* Config.Validate of the Kafka output
KafkaValid(r) == r.enabled => r.faults \cap KafkaChecked = {}

\* The output configurations that are not nil: of a unit, that of its type.
Outputs(r) == r.sections \cup (IF r.source = "unit" THEN {r.type} ELSE {})

\* The queue, and the outputs that are given, are valid, and so is the type.
Accepted(r) ==
  /\ r.source = "unit" => r.type \in UnitTypes
  /\ r.disk # NoDisk => DiskValid(r.disk)
  /\ "kafka" \in Outputs(r) => KafkaValid(r)

\* ReadConfigFromFile, once, or ShipperConfigFromUnitConfig.
ReadConfig ==
  /\ stage = "none"
  /\ stage' = IF Accepted(raw) THEN "accepted" ELSE "refused"
  /\ UNCHANGED <<raw, attempt, wait>>

\* The agent sends another configuration for the output unit.
Reconfigure ==
  /\ stage \in {"refused", "started", "failed"}
  /\ raw.source = "unit"
  /\ raw' \in Changes
  /\ stage' = "none"
  /\ attempt' = 0
  /\ wait' = 0

-----------------------------------------------------------------------------
(* Starting with it *)

\* queue.New: if there are disk and memory settings, disk it is.
UseDiskQueue(r) == r.disk # NoDisk

\* DiskSettingsFromConfig.  With max_retry_interval it is retry_interval that
\* is copied, through a nil pointer if that is not given.
DiskSettings(d) ==
  [max |-> d.max,
   segment |-> IF d.segment # 0 THEN d.segment ELSE d.max \div 10,
   retry |-> IF d.retry # 0 THEN d.retry ELSE DiskDefaults.retry,
   maxRetry |-> IF d.maxRetry # 0 THEN d.retry ELSE DiskDefaults.maxRetry]

DiskSettingsPanic(r) == UseDiskQueue(r) /\ r.disk.maxRetry # 0 /\ r.disk.retry = 0

\* outputFromConfig: the first that is there, or an error.
NoOutput == "none"
Output(r) ==
  IF "elasticsearch" \in Outputs(r) THEN "elasticsearch"
  ELSE IF "kafka" \in Outputs(r) THEN "kafka"
  ELSE IF "console" \in Outputs(r) THEN "console"
  ELSE IF "logstash" \in Outputs(r) THEN "logstash"
  ELSE NoOutput

\* buildTopicSelector finds no topic, or cannot make sense of those given.
BuildTopicSelectorFails(r) == r.faults \cap {"topic", "selector"} # {}

\* newSaramaConfig: the partitioner, TLS, the names, and Validate of sarama,
\* which also wants a password for a user.
NewSaramaConfigFails(r) ==
  r.faults \cap {"partition", "tls", "compression", "version", "sarama", "password"} # {}

\* makeKafka returns no client, and no error for the first two, and
\* KafkaOutput.Start uses the client in either case.
KafkaStartPanics(r) ==
  /\ Output(r) = "kafka"
  /\ BuildTopicSelectorFails(r) \/ NewSaramaConfigFails(r) \/ "codec" \in r.faults

\* queue.New and NewFromConfig return an error.
QueueFails(r) == UseDiskQueue(r) /\ "queue" \in r.faults
MonitoringFails(r) == r.monitoring /\ "metrics" \in r.faults

\* Start of the output makes no client: Kafka without brokers to connect to,
\* Elasticsearch and Logstash with addresses or certificates they refuse.
ClientFails(r) ==
  \/ Output(r) \in {"elasticsearch", "kafka", "logstash"} /\ "client" \in r.faults
  \/ Output(r) = "kafka" /\ "hosts" \in r.faults

\* ServerRunner.Start: the queue, the monitor, the output.
StartOutcome(r) ==
  IF DiskSettingsPanic(r) THEN "panicked"
  ELSE IF QueueFails(r) \/ MonitoringFails(r) \/ Output(r) = NoOutput THEN "failed"
  ELSE IF KafkaStartPanics(r) THEN "panicked"
  ELSE IF ClientFails(r) THEN "failed"
  ELSE "started"

StartConfigured ==
  /\ stage = "accepted"
  /\ stage' = StartOutcome(raw)
  /\ UNCHANGED <<raw, attempt, wait>>

-----------------------------------------------------------------------------
(* Retries *)

\* addDefaults of the Elasticsearch output; Kafka has none.
BackoffInit(r) == IF r.init = 0 /\ Output(r) = "elasticsearch" THEN 1 ELSE r.init
BackoffMax(r) == IF r.max = 0 /\ Output(r) = "elasticsearch" THEN 60 ELSE r.max

\* esConfig and newSaramaConfig: -1 is math.MaxInt (of 32 bits here) for one
\* and 1000 for the other.
RetryLimit(r) ==
  CASE r.maxRetries = -1 -> IF Output(r) = "elasticsearch" THEN 2147483647 ELSE 1000
    [] r.maxRetries = 0 /\ Output(r) = "elasticsearch" -> 3
    [] OTHER -> r.maxRetries

\* Backoff.delayTime: doubled once per attempt, until it reaches the maximum.
DelayTime(init, max, n) ==
  LET result[i \in 0..n] ==
        IF i = 0 THEN init
        ELSE IF 2 * result[i - 1] >= max THEN max ELSE 2 * result[i - 1]
  IN result[n]

\* Mutant: the logarithm is rounded down.
MaxBackoffRetriesFloor(init, max) ==
  CHOOSE n \in 0..max : init * 2^(n + 1) > max /\ (n = 0 \/ init * 2^n <= max)

\* The logarithm of max / init, rounded up.
MaxBackoffRetries(init, max) ==
  CHOOSE n \in 0..max : init * 2^n >= max /\ (n = 0 \/ init * 2^(n - 1) < max)

\* makeBackoffFunc without the jitter.  Dividing by an init of 0 gives no
\* number, and its conversion to an integer what the processor makes of it.
BaseDelay(init, max, n) ==
  IF init = 0 THEN {0, max}
  ELSE {IF n < MaxBackoffRetries(init, max) THEN init * 2^n ELSE max}

\* Half of the base, and up to as much again.
KafkaDelay(init, max, n) ==
  UNION {(base \div 2)..(2 * (base \div 2)) : base \in BaseDelay(init, max, n)}

\* A request fails and is repeated after a pause.
RetryRequest ==
  /\ stage = "started"
  /\ Output(raw) \in {"elasticsearch", "kafka"}
  /\ attempt < RetryLimit(raw)
  /\ attempt < MaxAttempts
  /\ attempt' = attempt + 1
  /\ wait' \in IF Output(raw) = "elasticsearch"
                 THEN {DelayTime(BackoffInit(raw), BackoffMax(raw), attempt + 1)}
                 ELSE KafkaDelay(BackoffInit(raw), BackoffMax(raw), attempt + 1)
  /\ UNCHANGED <<raw, stage>>

-----------------------------------------------------------------------------
(* Properties *)

\* The state has the shape the Go types give it.
ConfigTypeOK ==
  /\ raw \in Raw
  /\ stage \in Stages
  /\ attempt \in 0..MaxAttempts

\* How far a configuration has got says what became of it: it was accepted
\* before it was started, and its start ended as StartOutcome says.
StageInv ==
  /\ stage \in {"accepted", "started", "failed", "panicked"} => Accepted(raw)
  /\ stage \in {"started", "failed", "panicked"} => stage = StartOutcome(raw)

\* What was validated starts or fails with an error, but for the panics the
\* code has: max_retry_interval without retry_interval, and a Kafka
\* configuration makeKafka refuses although Validate let it pass, because it is
\* not enabled or because of something Validate does not look at.  What Validate
\* refuses never gets as far as that, whatever else is wrong.
PanicsAreKnown ==
  stage = "panicked" =>
    \/ raw.disk.maxRetry # 0 /\ raw.disk.retry = 0
    \/ /\ Output(raw) = "kafka"
       /\ raw.enabled => raw.faults \cap KafkaUnchecked # {}

\* The settings of a disk queue that was started fit together, defaults and
\* given values mixed: two segments fit into the queue, and the retry interval
\* is above its maximum only if it alone was given.
DiskSettingsFit ==
  (stage = "started" /\ UseDiskQueue(raw)) =>
    LET s == DiskSettings(raw.disk) IN
    /\ s.max # 0 => 2 * s.segment <= s.max
    /\ s.retry > s.maxRetry => raw.disk.maxRetry = 0

\* A unit gets the output of its type, unless -E configures one that comes
\* first in outputFromConfig; a file that configures no output starts none.
UnitGetsItsOutput ==
  stage = "started" =>
    /\ Output(raw) \in Outputs(raw)
    /\ (raw.source = "unit" /\ raw.sections = {}) => Output(raw) = raw.type

\* What was started is what was asked for, and what cannot be started is known.
\* Inductive.
ConfigurationInv ==
  /\ ConfigTypeOK
  /\ StageInv
  /\ PanicsAreKnown
  /\ DiskSettingsFit
  /\ UnitGetsItsOutput

\* min(max, init * 2^n): what "exponential backoff" is for every output.
Exponential(init, max, n) == IF init * 2^n >= max THEN max ELSE init * 2^n

\* The loop of one output and the logarithm of the other compute the same
\* pauses, also where max is no power of two times init, or below it: the
\* Kafka implementation "is conceptually equivalent" to the others, with the
\* upper half of the interval as jitter.
BackoffsAgree ==
  /\ wait \in Nat
  /\ (attempt > 0 /\ BackoffInit(raw) > 0) =>
       LET pause == Exponential(BackoffInit(raw), BackoffMax(raw), attempt) IN
       CASE Output(raw) = "elasticsearch" -> wait = pause
         [] Output(raw) = "kafka" -> wait \in (pause \div 2)..pause
=============================================================================
