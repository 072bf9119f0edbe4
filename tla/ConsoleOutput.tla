--------------------------- MODULE ConsoleOutput ---------------------------
(***************************************************************************)
(* output/console.go: events are printed one by one, and the whole batch   *)
(* is reported at once.                                                    *)
(***************************************************************************)
EXTENDS OutputLoop

vars == <<queueVars, loopVars>>

Init == LoopInit

\* Start makes nothing that can fail.
Start == StartLoop

\* Mutant: the goroutine goes for the next batch without waiting for Done.
SendAndForget ==
  /\ loop = "run"
  /\ cursor < unread
  /\ Conclude(cursor)
  /\ cursor' = cursor + 1
  /\ UNCHANGED <<loop, wg, waited>>

\* send(events[i]); after the last event comes batch.Done.
Send ==
  /\ loop = "run"
  /\ cursor < unread
  /\ Conclude(cursor)
  /\ cursor' = cursor + 1
  /\ loop' = IF cursor + 1 = unread THEN "report" ELSE loop
  /\ UNCHANGED <<wg, waited>>

\* Mutant: the count of the batch is taken for that of the queue.
ReportAllRead ==
  /\ loop = "report"
  /\ Done(Current, unread)
  /\ loop' = "run"
  /\ UNCHANGED <<cursor, wg, waited>>

\* batch.Done(uint64(len(events)))
Report ==
  /\ loop = "report"
  /\ Done(Current, batches[Current].count)
  /\ loop' = "run"
  /\ UNCHANGED <<cursor, wg, waited>>

Loop == GetBatch(0) \/ Send \/ Report \/ GetFails("ended")

Next == Start \/ Loop \/ Wait \/ Acknowledges \/ Environment

Spec == Init /\ [][Next]_vars

-----------------------------------------------------------------------------
(* Properties *)

\* The goroutine is not blocked: the event it prints next belongs to a batch and
\* was not printed before.
LoopCanStep ==
  \/ loop = "run" /\ cursor = unread
  \/ loop = "run" /\ cursor \notin concluded
                  /\ \E i \in DOMAIN batches : cursor \in Entries(batches[i])
  \/ loop = "report"

\* Once the queue is closed, Wait can return or the goroutine can go on.
NothingHangs == closed /\ ~waited => wg = 0 \/ LoopCanStep

\* What the goroutine has still to do on a closed queue: the events of the batch
\* in hand, the report, and the step that ends it.
Left ==
  (unread - cursor)
    + (CASE loop = "run" -> (IF cursor < unread THEN 2 ELSE 1)
         [] loop = "report" -> 2
         [] OTHER -> 0)

\* Once the queue is closed every step of the output is one of the steps left,
\* until Wait returns: it prints the batch in hand and takes no other.
WindsDown ==
  [][closed /\ ~waited => Left' \in Nat /\ (Left' < Left \/ waited')]_vars

\* The console output takes one batch after the other and reports it when all
\* of it is printed; its WaitGroup counts the goroutine alone, and nothing holds
\* Wait up.  Inductive.
ConsoleInv ==
  /\ LoopTypeOK
  /\ QueueInv
  /\ SerialInv
  /\ loop \in {"run", "report", "ended"}
  /\ wg = IF loop = "ended" THEN 0 ELSE 1
  /\ NothingHangs
=============================================================================
