--------------------------- MODULE LogstashOutput ---------------------------
(***************************************************************************)
(* output/logstash/: a batch is sent as a whole to one host after the      *)
(* other, beginning with the one used last, until one has taken it; if     *)
(* none has, the batch is given up.  A send that breaks off leaves its     *)
(* first events with the host, and the next host gets all of them again.   *)
(*                                                                         *)
(* The lumberjack client is external: Send fails after some of the events  *)
(* were acknowledged, or returns how many were, usually all.               *)
(***************************************************************************)
EXTENDS OutputLoop

CONSTANTS
  HostCount,   \* len(lc.hosts)
  TTL          \* whether connections are renewed (config.TTL > 0)

ASSUME LogstashAssumption == HostCount \in Nat \ {0} /\ TTL \in BOOLEAN

Hosts == 0..(HostCount - 1)

VARIABLES
  current,     \* lc.current
  host,        \* j, the host whose turn it is
  tries,       \* i, the hosts tried so far for this batch
  connected,   \* hosts that are connected
  refused,     \* hosts that did not take this batch (history)
  short,       \* Send returned too small a count, and no error (history)
  received     \* events a host has acknowledged (history)

clientVars == <<current, host, tries, connected, refused, short, received>>
vars == <<queueVars, loopVars, clientVars>>

Init ==
  /\ LoopInit
  /\ current = 0
  /\ host = 0
  /\ tries = 0
  /\ connected = {}
  /\ refused = {}
  /\ short = FALSE
  /\ received = {}

-----------------------------------------------------------------------------

\* NewLogstashClient connects to nothing yet.
Start ==
  /\ StartLoop
  /\ current' = 0
  /\ connected' = {}
  /\ received' = {}
  /\ UNCHANGED <<host, tries, refused, short>>

\* Mutant: the batch is not added to the WaitGroup.
ReceiveUncounted == GetBatch(0) /\ UNCHANGED clientVars

\* wg.Add(1) for the batch comes with it.
Receive == GetBatch(1) /\ UNCHANGED clientVars

\* LogstashClient.Publish begins.
BeginPublish ==
  /\ loop = "run"
  /\ cursor < unread
  /\ host' = current
  /\ tries' = 0
  /\ refused' = {}
  /\ short' = FALSE
  /\ loop' = "send"
  /\ UNCHANGED <<cursor, wg, waited, current, connected, received>>
  /\ UNCHANGED queueVars

\* Mutant: the rotation stops at the last host.
NextHostNoWrap == IF host + 1 = HostCount THEN host ELSE host + 1

NextHost == (host + 1) % HostCount

\* `continue': the host did not take the batch.
Skip ==
  /\ refused' = refused \cup {host}
  /\ tries' = tries + 1
  /\ host' = NextHost

\* The TTL has expired and reconnecting fails, or connecting does.
ConnectFails ==
  /\ loop = "send"
  /\ tries < HostCount
  /\ TTL \/ host \notin connected
  /\ current' = host
  /\ connected' = connected \ {host}
  /\ Skip
  /\ UNCHANGED <<loop, cursor, wg, waited, short, received>>
  /\ UNCHANGED queueVars

\* Send breaks off after the host has acknowledged n events; whether the
\* connection survives is up to the error.
SendFails ==
  /\ loop = "send"
  /\ tries < HostCount
  /\ current' = host
  /\ \E n \in 0..(unread - cursor) : received' = received \cup cursor..(cursor + n - 1)
  /\ \E lost \in {{}, {host}} : connected' = (connected \cup {host}) \ lost
  /\ Skip
  /\ UNCHANGED <<loop, cursor, wg, waited, short>>
  /\ UNCHANGED queueVars

\* Send returns n without an error; the caller logs it if some are missing.
SendReturns ==
  /\ loop = "send"
  /\ tries < HostCount
  /\ current' = host
  /\ connected' = connected \cup {host}
  /\ \E n \in 0..(unread - cursor) :
       /\ received' = received \cup cursor..(cursor + n - 1)
       /\ short' = (n # unread - cursor)
  /\ loop' = "settle"
  /\ UNCHANGED <<cursor, wg, waited, host, tries, refused>>
  /\ UNCHANGED queueVars

\* "couldn't publish to any host"
GiveUp ==
  /\ loop = "send"
  /\ tries = HostCount
  /\ loop' = "settle"
  /\ UNCHANGED <<cursor, wg, waited, clientVars>>
  /\ UNCHANGED queueVars

\* Sent or given up, the events of the batch are done with ...
Settle ==
  /\ loop = "settle"
  /\ Conclude(cursor)
  /\ cursor' = cursor + 1
  /\ loop' = IF cursor + 1 = unread THEN "report" ELSE loop
  /\ UNCHANGED <<wg, waited, clientVars>>

\* Mutant: batch.Done is only called for a batch that was sent.
ReportSent ==
  /\ loop = "report"
  /\ IF refused = Hosts
       THEN UNCHANGED <<queueVars, wg>>
       ELSE Done(Current, batches[Current].count) /\ Completion(Current)
  /\ loop' = "run"
  /\ UNCHANGED <<cursor, waited, clientVars>>

\* Mutant: what one host did not take is reported on its own as well.
ReportTwice ==
  /\ loop = "report"
  /\ Done(Current, batches[Current].count + Cardinality(refused))
  /\ Completion(Current)
  /\ loop' = "run"
  /\ UNCHANGED <<cursor, waited, clientVars>>

\* ... and reported, all at once: batch.Done(remaining).
Report ==
  /\ loop = "report"
  /\ Done(Current, batches[Current].count)
  /\ Completion(Current)
  /\ loop' = "run"
  /\ UNCHANGED <<cursor, waited, clientVars>>

QueueClosed == GetFails("ended") /\ UNCHANGED clientVars

-----------------------------------------------------------------------------

Loop ==
  \/ Receive
  \/ BeginPublish
  \/ ConnectFails
  \/ SendFails
  \/ SendReturns
  \/ GiveUp
  \/ Settle
  \/ Report
  \/ QueueClosed

Rest == (Wait \/ Acknowledges \/ Environment) /\ UNCHANGED clientVars

Next == Start \/ Loop \/ Rest

Spec == Init /\ [][Next]_vars

\* The goroutine keeps running, every call of the lumberjack client ends (it
\* has a timeout), and Close is waiting in Wait.
Fairness ==
  /\ WF_vars(Loop)
  /\ WF_vars(Wait /\ UNCHANGED clientVars)
  /\ WF_vars(Acknowledges /\ UNCHANGED clientVars)

FairSpec == Spec /\ Fairness

-----------------------------------------------------------------------------
(* Properties *)

\* The state has the shape the Go types give it.
LogstashTypeOK ==
  /\ LoopTypeOK
  /\ loop \in {"run", "send", "settle", "report", "ended"}
  /\ current \in Hosts
  /\ host \in Hosts
  /\ tries \in 0..HostCount
  /\ connected \subseteq Hosts
  /\ refused \subseteq Hosts
  /\ short \in BOOLEAN
  /\ received \in SUBSET Nat

\* An event is given up only after every host has refused its batch, wherever
\* in the list the rotation began, or one has taken part of it without an
\* error; otherwise the hosts have all of the batch.
GivenUpByAllHosts ==
  loop \in {"settle", "report"} =>
    refused = Hosts \/ short \/ Entries(batches[Current]) \subseteq received

\* A batch counts in the WaitGroup until it is reported, and is reported once.
WaitGroupCounts ==
  wg = Cardinality(OpenBatches) + (IF loop = "ended" THEN 0 ELSE 1)

\* The n hosts from s on, round the end of the list, and the one after them.
Tried(s, n) == {h \in Hosts : (s <= h /\ h < s + n) \/ h < s + n - HostCount}
HostAfter(s, n) == IF s + n < HostCount THEN s + n ELSE s + n - HostCount

\* The hosts that refused the batch follow one another, and the next is next.
RotationInv ==
  /\ loop = "send" =>
       \E s \in Hosts : refused = Tried(s, tries) /\ host = HostAfter(s, tries)
  /\ (loop \in {"run", "send"} /\ cursor < unread) => batches[Current].first = cursor

\* The goroutine is not blocked: it can try a host or give up, and an event it
\* is done with belongs to a batch and was not done with before.
LoopCanStep ==
  \/ loop \in {"run", "send", "report"}
  \/ loop = "settle" /\ cursor \notin concluded
                     /\ \E i \in DOMAIN batches : cursor \in Entries(batches[i])

\* Once the queue is closed, Wait can return or the goroutine can go on.
NothingHangs == closed /\ ~waited => wg = 0 \/ LoopCanStep

\* What the goroutine has still to do on a closed queue: at most one turn of
\* the rotation for the batch in hand, whose events are then done with one by
\* one and reported, and the step that ends the goroutine.
Left ==
  (unread - cursor)
    + (CASE loop = "run" -> (IF cursor < unread THEN HostCount + 4 ELSE 1)
         [] loop = "send" -> HostCount - tries + 3
         [] loop \in {"settle", "report"} -> 2
         [] OTHER -> 0)

\* Once the queue is closed every step is one of the steps left, until Wait
\* returns: no host is tried twice and no other batch is begun, so that hosts
\* that do not answer hold a restart up for one turn of the rotation only.
WindsDown ==
  [][closed /\ ~waited => Left' \in Nat /\ (Left' < Left \/ waited')]_vars

\* What holds in every state, whichever hosts have failed; inductive.
LogstashInv ==
  /\ LogstashTypeOK
  /\ QueueInv
  /\ SerialInv
  /\ WaitGroupCounts
  /\ RotationInv
  /\ GivenUpByAllHosts
  /\ NothingHangs
=============================================================================
