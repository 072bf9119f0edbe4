----------------------- MODULE HealthWatcher_proofs -----------------------
(***************************************************************************)
(* For every number of restarts and whatever the counters reach: the       *)
(* watchers compare what they have read with what they had read before and *)
(* miss nothing in between, a degraded unit has a watcher that will take   *)
(* the report back, and an outage that was compared stands reported until  *)
(* a request succeeds.  WatcherInv is inductive.                           *)
(***************************************************************************)
EXTENDS HealthWatcher, TLAPS

Names == {"success", "failures", "cbFails"}

\* The counters of a watcher, as a function of their names.
LEMMA CountersByName == Counters = [Names -> 0..MaxCount]
BY DEF Counters, Names

LEMMA TypeByName ==
  ASSUME TypeOK
  PROVE  /\ counters \in [Watchers -> [Names -> 0..MaxCount]]
         /\ seen \in [Watchers -> [Names -> 0..MaxCount]]
         /\ last \in [Watchers -> [Names -> 0..MaxCount]]
BY CountersByName DEF TypeOK

\* A counter of the output that runs moves on.
LEMMA CountKeeps ==
  ASSUME WatcherInv, NEW counter \in Names, Count(counter)
  PROVE  WatcherInv'
<1> USE WatcherAssumption, TypeByName DEF WatcherInv, Count
<1>1. current \in Watchers
  BY DEF TypeOK, ReportsRemembered, DegradedIsReported, Watchers
<1>2. /\ counters' \in [Watchers -> [Names -> 0..MaxCount]]
      /\ \A g \in Watchers, c \in Names : counters[g][c] <= counters'[g][c]
  BY <1>1
<1>3. TypeOK'
  BY <1>2, CountersByName DEF TypeOK
<1>4. TrackersLag'
  BY <1>2 DEF TrackersLag, Names
<1>5. ReportsRemembered'
  BY DEF ReportsRemembered, DegradedIsReported
<1>6. ASSUME NEW g \in Watchers
      PROVE  /\ counters[g].success \in 0..MaxCount /\ counters'[g].success \in 0..MaxCount
             /\ counters[g].success <= counters'[g].success
             /\ counters[g].failures > 0 => counters'[g].failures > 0
             /\ counters[g].cbFails > 0 => counters'[g].cbFails > 0
  BY <1>2 DEF Names
<1>7. DegradedHasCause'
  BY <1>6 DEF DegradedHasCause
<1>8. OutageIsRemembered'
  BY <1>6 DEF OutageIsRemembered, Degraded, Delta
<1> QED
  BY <1>3, <1>4, <1>5, <1>7, <1>8

\* The controller starts and stops outputs and sets the state of the unit.
LEMMA ControllerKeeps ==
  ASSUME WatcherInv,
         StartWatcher \/ Initialized \/ Stopping \/ CancelWatch \/ WaitReturns
  PROVE  WatcherInv'
<1> USE WatcherAssumption DEF WatcherInv
<1>1. CASE StartWatcher
  <2>1. current + 1 \in Watchers
    BY <1>1 DEF StartWatcher, TypeOK, Watchers
  <2>2. TypeOK'
    BY <1>1, <2>1 DEF StartWatcher, Goto, TypeOK, Watchers
  <2>3. TrackersLag'
    <3>1. pc[current + 1] = "off"
      BY <2>1 DEF TypeOK, ReportsRemembered, DegradedIsReported, Watchers
    <3> QED
      BY <1>1, <2>1, <3>1 DEF StartWatcher, Goto, TypeOK, TrackersLag
  <2>4. ReportsRemembered'
    BY <1>1, <2>1 DEF StartWatcher, Goto, TypeOK, ReportsRemembered, DegradedIsReported, Watchers
  <2>5. DegradedHasCause'
    BY <1>1 DEF StartWatcher, DegradedHasCause
  <2>6. OutageIsRemembered'
    <3>1. \A g \in Watchers : pc'[g] = "update" => pc[g] = "update"
      BY <1>1, <2>1 DEF StartWatcher, Goto, TypeOK
    <3> QED
      BY <1>1, <3>1 DEF StartWatcher, OutageIsRemembered, Degraded, Delta
  <2> QED
    BY <2>2, <2>3, <2>4, <2>5, <2>6
<1>2. CASE Initialized \/ Stopping \/ CancelWatch \/ WaitReturns
  <2>1. current # 0 /\ current \in Watchers
    BY <1>2 DEF Initialized, Stopping, CancelWatch, WaitReturns, ReportsRemembered, TypeOK, Watchers
  <2>2. TypeOK'
    <3>1. cancelled' = cancelled \/ cancelled' = cancelled \cup {current}
      BY <1>2 DEF Initialized, Stopping, CancelWatch, WaitReturns
    <3>2. cancelled' \subseteq Watchers
      BY <2>1, <3>1 DEF TypeOK
    <3> QED
      BY <1>2, <3>2 DEF Initialized, Stopping, CancelWatch, WaitReturns, TypeOK
  <2>3. TrackersLag'
    BY <1>2 DEF Initialized, Stopping, CancelWatch, WaitReturns, TrackersLag
  <2>4. ReportsRemembered'
    BY <1>2, <2>1
       DEF Initialized, Stopping, CancelWatch, WaitReturns, ReportsRemembered, DegradedIsReported
  <2>5. DegradedHasCause' /\ OutageIsRemembered'
    BY <1>2 DEF Initialized, Stopping, CancelWatch, WaitReturns, DegradedHasCause,
       OutageIsRemembered, Degraded, Delta
  <2> QED
    BY <2>2, <2>3, <2>4, <2>5
<1> QED
  BY <1>1, <1>2

\* One step of one watcher, at any time.
LEMMA WatchKeeps ==
  ASSUME WatcherInv, NEW g \in Watchers, Watch(g)
  PROVE  WatcherInv'
<1> USE WatcherAssumption, TypeByName DEF WatcherInv, Goto
<1>0. pc \in [Watchers -> {"off", "select", "load", "report", "update"}]
  BY DEF TypeOK
<1>1. CASE Tick(g)
  <2>1. /\ seen' \in [Watchers -> [Names -> 0..MaxCount]]
        /\ \A h \in Watchers : h # g => seen'[h] = seen[h]
        /\ seen'[g].success = counters[g].success
        /\ seen'[g].failures = counters[g].failures
        /\ seen'[g].cbFails = seen[g].cbFails
    <3>1. PICK x : x = [seen[g] EXCEPT !.success = counters[g].success,
                                       !.failures = counters[g].failures]
      OBVIOUS
    <3>2. seen' = [seen EXCEPT ![g] = x]
      BY <1>1, <3>1 DEF Tick
    <3>3. /\ x \in [Names -> 0..MaxCount]
          /\ x.success = counters[g].success
          /\ x.failures = counters[g].failures
          /\ x.cbFails = seen[g].cbFails
      <4>1. counters[g] \in [Names -> 0..MaxCount] /\ seen[g] \in [Names -> 0..MaxCount]
        OBVIOUS
      <4> QED
        BY ONLY <3>1, <4>1 DEF Names
    <3> QED
      BY <3>2, <3>3
  <2>2. TypeOK'
    BY <1>1, <2>1, CountersByName DEF Tick, TypeOK
  <2>3. TrackersLag'
    <3>1. ASSUME NEW c \in Names
          PROVE  /\ last[g][c] <= counters[g][c]
                 /\ seen'[g][c] <= counters[g][c]
                 /\ c # "cbFails" => last[g][c] <= seen'[g][c]
      BY <2>1 DEF TrackersLag, Names
    <3>2. /\ pc'[g] = "load"
          /\ \A h \in Watchers : h # g => pc'[h] = pc[h]
          /\ UNCHANGED <<counters, last>>
      BY <1>0, <1>1 DEF Tick
    <3>3. ASSUME NEW h \in Watchers, NEW c \in Names, h # g
          PROVE  seen'[h][c] = seen[h][c]
      BY <2>1, <3>3
    <3> QED
      BY <3>1, <3>2, <3>3 DEF TrackersLag, Names
  <2>4. ReportsRemembered'
    BY <1>0, <1>1 DEF Tick, ReportsRemembered, DegradedIsReported
  <2>5. DegradedHasCause' /\ OutageIsRemembered'
    <3>1. \A h \in Watchers : pc'[h] = "update" => h # g /\ pc[h] = "update"
      BY <1>0, <1>1 DEF Tick
    <3> QED
      BY <1>1, <2>1, <3>1 DEF Tick, DegradedHasCause, OutageIsRemembered, Degraded, Delta
  <2> QED
    BY <2>2, <2>3, <2>4, <2>5
<1>2. CASE LoadFails(g)
  <2>1. /\ seen' \in [Watchers -> [Names -> 0..MaxCount]]
        /\ \A h \in Watchers : h # g => seen'[h] = seen[h]
        /\ seen'[g].success = seen[g].success
        /\ seen'[g].failures = seen[g].failures
        /\ seen'[g].cbFails = counters[g].cbFails
    BY <1>2 DEF LoadFails, Names
  <2>2. TypeOK'
    BY <1>2, <2>1, CountersByName DEF LoadFails, TypeOK
  <2>3. TrackersLag'
    BY <1>0, <1>2, <2>1 DEF LoadFails, TrackersLag, Names
  <2>4. ReportsRemembered'
    BY <1>0, <1>2 DEF LoadFails, ReportsRemembered, DegradedIsReported
  <2>5. DegradedHasCause' /\ OutageIsRemembered'
    <3>1. \A h \in Watchers : pc'[h] = "update" => h # g /\ pc[h] = "update"
      BY <1>0, <1>2 DEF LoadFails
    <3> QED
      BY <1>2, <2>1, <3>1 DEF LoadFails, DegradedHasCause, OutageIsRemembered, Degraded, Delta
  <2> QED
    BY <2>2, <2>3, <2>4, <2>5
<1>3. CASE Report(g)
  <2>1. TypeOK'
    BY <1>3 DEF Report, TypeOK
  <2>2. TrackersLag'
    BY <1>0, <1>3 DEF Report, TrackersLag
  <2>3. ReportsRemembered'
    <3>1. g \in 1..current /\ current' = current /\ phase' = phase
      BY <1>3 DEF Report, ReportsRemembered, DegradedIsReported, TypeOK, Watchers
    <3>2. \A h \in Watchers : pc'[h] # "off" => h <= current
      BY <1>0, <1>3, <3>1 DEF Report, ReportsRemembered, DegradedIsReported
    <3>3. CASE Degraded(g)
      <4>1. didFail'[g]
        BY <1>3, <3>3 DEF Report, TypeOK
      <4> QED
        BY <3>1, <3>2, <4>1 DEF ReportsRemembered, DegradedIsReported
    <3>4. CASE ~Degraded(g) /\ Recovered(g)
      BY <1>3, <3>1, <3>2, <3>4 DEF Report, ReportsRemembered, DegradedIsReported
    <3>5. CASE ~Degraded(g) /\ ~Recovered(g)
      <4>1. unit' = unit /\ \A h \in Watchers : didFail[h] => didFail'[h]
        BY <1>3, <3>5 DEF Report, TypeOK
      <4>2. 1..current \subseteq Watchers
        BY DEF TypeOK, Watchers
      <4> QED
        BY <3>1, <3>2, <4>1, <4>2 DEF ReportsRemembered, DegradedIsReported
    <3> QED
      BY <3>3, <3>4, <3>5
  <2>4. /\ pc'[g] = "update"
        /\ \A h \in Watchers : h # g => pc'[h] = pc[h] /\ didFail'[h] = didFail[h]
        /\ didFail'[g] = (Degraded(g) \/ (didFail[g] /\ ~Recovered(g)))
        /\ UNCHANGED <<counters, seen, last>>
    BY <1>0, <1>3 DEF Report, TypeOK
  <2>5. \A c \in Names : /\ last[g][c] \in Nat /\ seen[g][c] \in Nat /\ counters[g][c] \in Nat
                          /\ last[g][c] <= seen[g][c] /\ seen[g][c] <= counters[g][c]
    BY <1>3 DEF Report, TrackersLag, Names
  <2>6. DegradedHasCause'
    <3>1. Degraded(g) => counters[g].failures > 0 \/ counters[g].cbFails > 0
      BY <2>5 DEF Degraded, Delta, Names
    <3> QED
      BY <2>4, <3>1 DEF DegradedHasCause
  <2>7. OutageIsRemembered'
    <3>1. ASSUME counters[g].success = 0, last[g].failures > 0 \/ seen[g].failures > 0
          PROVE  didFail'[g]
      <4>1. Delta(g, "success") = 0 /\ ~Recovered(g)
        BY <2>5, <3>1 DEF Recovered, Delta, Names
      <4>2. CASE last[g].failures > 0
        BY <2>4, <3>1, <4>1, <4>2 DEF OutageIsRemembered
      <4>3. CASE ~(last[g].failures > 0)
        <5>1. Delta(g, "failures") > 0
          BY <2>5, <3>1, <4>3 DEF Delta, Names
        <5> QED
          BY <2>4, <4>1, <5>1 DEF Degraded
      <4> QED
        BY <4>2, <4>3
    <3> QED
      BY <2>4, <3>1 DEF OutageIsRemembered, Degraded, Delta
  <2> QED
    BY <2>1, <2>2, <2>3, <2>6, <2>7
<1>4. CASE Update(g)
  <2>1. /\ last' \in [Watchers -> [Names -> 0..MaxCount]]
        /\ \A h \in Watchers : h # g => last'[h] = last[h]
        /\ last'[g].success = seen[g].success
        /\ last'[g].failures = seen[g].failures
        /\ last'[g].cbFails = counters[g].cbFails
    BY <1>4 DEF Update, Names
  <2>2. TypeOK'
    BY <1>4, <2>1, CountersByName DEF Update, TypeOK
  <2>3. TrackersLag'
    BY <1>0, <1>4, <2>1 DEF Update, TrackersLag, Names
  <2>4. ReportsRemembered'
    BY <1>0, <1>4 DEF Update, ReportsRemembered, DegradedIsReported
  <2>5. DegradedHasCause'
    BY <1>4 DEF Update, DegradedHasCause
  <2>6. OutageIsRemembered'
    BY <1>0, <1>4, <2>1 DEF Update, OutageIsRemembered, Degraded, Delta
  <2> QED
    BY <2>2, <2>3, <2>4, <2>5, <2>6
<1>5. CASE Return(g)
  <2>1. TypeOK' /\ TrackersLag' /\ ReportsRemembered'
    BY <1>0, <1>5 DEF Return, TypeOK, TrackersLag, ReportsRemembered, DegradedIsReported
  <2>2. DegradedHasCause' /\ OutageIsRemembered'
    BY <1>0, <1>5 DEF Return, DegradedHasCause, OutageIsRemembered, Degraded, Delta
  <2> QED
    BY <2>1, <2>2
<1> QED
  BY <1>1, <1>2, <1>3, <1>4, <1>5 DEF Watch

\* Every watcher, also one that Wait did not wait for, at every point of a tick.
THEOREM WatcherInvariant == Spec => []WatcherInv
<1>1. Init => WatcherInv
  BY WatcherAssumption DEF Init, WatcherInv, TypeOK, TrackersLag, ReportsRemembered,
     DegradedIsReported, DegradedHasCause, OutageIsRemembered, Counters, Zero, Watchers
<1>2. WatcherInv /\ [Next]_vars => WatcherInv'
  <2> SUFFICES ASSUME WatcherInv, [Next]_vars
               PROVE  WatcherInv'
    OBVIOUS
  <2>1. CASE Response \/ Fail
    BY <2>1, CountKeeps DEF Response, Fail, Names
  <2>2. CASE UNCHANGED vars
    BY <2>2 DEF vars, WatcherInv, TypeOK, TrackersLag, ReportsRemembered, DegradedIsReported,
       DegradedHasCause, OutageIsRemembered, Degraded, Delta
  <2> QED
    BY <2>1, <2>2, ControllerKeeps, WatchKeeps DEF Next
<1> QED
  BY <1>1, <1>2, PTL DEF Spec

\* A unit is never left degraded by a watcher that has forgotten about it: only
\* didFail makes Watch report the recovery.
THEOREM DegradedRemembered == Spec => []DegradedIsReported
<1>1. WatcherInv => DegradedIsReported
  BY DEF WatcherInv, ReportsRemembered
<1> QED
  BY <1>1, WatcherInvariant, PTL

\* Watch calls an output degraded only after a failure of that output; whenever
\* it has found failures and no success since the last tick it has said so
\* before it goes on; and if nothing has succeeded since the start it stands by
\* it.  This is OutageIsReported for a watcher that has got to the comparison.
THEOREM OutagesStandReported == Spec => [](DegradedHasCause /\ OutageIsRemembered)
<1>1. WatcherInv => DegradedHasCause /\ OutageIsRemembered
  BY DEF WatcherInv
<1> QED
  BY <1>1, WatcherInvariant, PTL
=============================================================================
