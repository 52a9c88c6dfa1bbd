--------------------------- MODULE CompanionProofs ---------------------------
(* Proofs about the specification of Companion, for every MaxEvents, every *)
(* set of failures and both restart policies.                              *)
EXTENDS Companion, WatcherProofs

Before == {"starting", "listing", "writing", "synced"}

\* Before Watch is called there is no timer.
NoTimerYet == phase \in Before => (loop = "notStarted" /\ last = 0)

\* How far the startup reconciliation is tells what has been listed.
StartupDone == covered >= born \/ startupFailed
Startup ==
    /\ phase = "writing" => covered >= born
    /\ phase = "synced" /\ onStartup => StartupDone
    /\ ready /\ onStartup => StartupDone

MainTypeOK ==
    /\ onStartup \in BOOLEAN
    /\ phase \in Phases
    /\ ready \in BOOLEAN
    /\ healthFailed \in BOOLEAN
    /\ signalled \in BOOLEAN
    /\ exitCode \in {0, 1, 143}
    /\ startupFailed \in BOOLEAN
    /\ born \in 0 .. version

CompanionInv == WatcherInv /\ MainTypeOK /\ NoTimerYet /\ Startup

LEMMA CompanionInitInv == CompanionInit => CompanionInv
<1> SUFFICES ASSUME CompanionInit
             PROVE  CompanionInv
  OBVIOUS
<1>1. WatcherInv
  BY InitInv DEF CompanionInit
<1>2. version = 0 /\ born = 0 /\ 0 \in 0 .. 0
  BY DEF CompanionInit, Init
<1>3. MainTypeOK
  BY <1>2 DEF CompanionInit, MainTypeOK, Phases
<1>4. NoTimerYet /\ Startup
  BY DEF CompanionInit, Init, WatcherInit, NoTimerYet, Startup
<1> QED BY <1>1, <1>3, <1>4 DEF CompanionInv

\* A step of the watcher leaves main alone; the version and the newest listing
\* never go back.
LEMMA WatcherSide ==
    ASSUME CompanionInv, Next, UNCHANGED mainVars,
           phase \in Before => UNCHANGED <<loop, last>>
    PROVE  CompanionInv'
<1> USE DEF CompanionInv
<1>1. WatcherInv'
  BY NextInv
<1>2. version' \in Nat /\ version \in Nat /\ version <= version'
      /\ covered \in Nat /\ (covered' = covered \/ covered' = version) /\ covered <= version
  <2> USE WatcherAssumption DEF WatcherInv, TypeOK
  <2>1. CASE DockerChange
    BY <2>1 DEF DockerChange
  <2>2. CASE StreamBreaks \/ Cancel \/ Subscribe \/ SubscribeWithHandler
    BY <2>2 DEF StreamBreaks, Cancel, Subscribe, SubscribeWithHandler
  <2>3. CASE Loop
    BY <2>3 DEF Loop, HandleEvent, CallHandler, HandlerReturns, LoopCancelled, LoopStreamError
  <2>4. ASSUME NEW i \in Timers, Goroutine(i)
        PROVE  version' = version /\ (covered' = covered \/ covered' = version)
    BY <2>4 DEF Goroutine, TimerFires, Listing, ListedVersion, ListingFails,
                ReconcileReturns, ClearPending
  <2> QED BY <2>1, <2>2, <2>3, <2>4 DEF Next
<1>3. MainTypeOK'
  BY <1>2 DEF MainTypeOK, mainVars
<1>4. NoTimerYet'
  BY DEF NoTimerYet, mainVars
<1>5. Startup'
  <2>1. covered >= born => covered' >= born'
    BY <1>2 DEF MainTypeOK, mainVars
  <2> QED BY <2>1 DEF Startup, StartupDone, mainVars
<1> QED BY <1>1, <1>3, <1>4, <1>5

\* A step of run() that leaves the watcher alone.
LEMMA MainAlone ==
    ASSUME CompanionInv, UNCHANGED vars,
           Started \/ StartFails \/ StartupListFails \/ StartupReturns \/ Launch
              \/ NotifySignals \/ Exit \/ HealthFails \/ Killed \/ Signal
    PROVE  CompanionInv'
<1> USE DEF CompanionInv
<1>1. WatcherInv'
  BY NextInv
<1>2. UNCHANGED <<version, covered, born, loop, last, onStartup>>
  BY DEF vars, Started, StartFails, StartupListFails, StartupReturns, Launch,
         NotifySignals, Exit, HealthFails, Killed, Signal
<1>3. MainTypeOK'
  <2>1. born' \in 0 .. version'
    BY <1>2 DEF MainTypeOK
  <2>2. phase' \in Phases
    BY DEF MainTypeOK, Phases, Goes, AfterStart, Started, StartFails, StartupListFails,
           StartupReturns, Launch, NotifySignals, Exit, HealthFails, Killed, Signal
  <2>3. /\ ready' \in BOOLEAN /\ healthFailed' \in BOOLEAN
        /\ signalled' \in BOOLEAN /\ startupFailed' \in BOOLEAN
    BY DEF MainTypeOK, Started, StartFails, StartupListFails, StartupReturns, Launch,
           NotifySignals, Exit, HealthFails, Killed, Signal
  <2>4. exitCode' \in {0, 1, 143}
    BY DEF MainTypeOK, Started, StartFails, StartupListFails, StartupReturns, Launch,
           NotifySignals, Exit, HealthFails, Killed, Signal
  <2> QED BY <1>2, <2>1, <2>2, <2>3, <2>4 DEF MainTypeOK
<1>4. NoTimerYet'
  BY <1>2 DEF NoTimerYet, Before, Goes, AfterStart, Started, StartFails, StartupListFails,
       StartupReturns, Launch, MayLaunch, NotifySignals, Exit, HealthFails, Killed, Signal
<1>5. Startup'
  BY <1>2 DEF Startup, StartupDone, MainTypeOK, Goes, AfterStart, Started, StartFails,
       StartupListFails, StartupReturns, Launch, MayLaunch, NotifySignals, Exit,
       HealthFails, Killed, Signal
<1> QED BY <1>1, <1>3, <1>4, <1>5

LEMMA StartupListsInv == CompanionInv /\ StartupLists => CompanionInv'
<1> SUFFICES ASSUME CompanionInv, StartupLists
             PROVE  CompanionInv'
  OBVIOUS
<1> USE DEF CompanionInv, StartupLists, Goes, ListedVersion
<1>1. WatcherInv'
  BY WatcherAssumption DEF WatcherInv, TypeOK, Sequential, Quiescent, loopVars
<1>2. MainTypeOK'
  BY DEF MainTypeOK, Phases
<1>3. NoTimerYet'
  BY DEF NoTimerYet, Before, loopVars
<1>4. Startup'
  BY WatcherAssumption DEF Startup, StartupDone, MainTypeOK, WatcherInv, TypeOK
<1> QED BY <1>1, <1>2, <1>3, <1>4

LEMMA RestartInv == CompanionInv /\ Restart => CompanionInv'
<1> SUFFICES ASSUME CompanionInv, Restart
             PROVE  CompanionInv'
  OBVIOUS
<1> USE DEF CompanionInv, Restart
<1>1. WatcherInv'
  <2>1. version \in 0 .. MaxEvents /\ covered \in 0 .. version /\ 0 \in 0 .. 0 /\ 0 \in 0 .. version
    BY WatcherAssumption DEF WatcherInv, TypeOK
  <2>2. run' \in [Timers -> RunStates]
    BY DEF RunStates
  <2>3. TypeOK'
    BY <2>1, <2>2 DEF TypeOK, LoopStates
  <2>4. (Sequential /\ Quiescent)'
    BY WatcherAssumption DEF Sequential, Quiescent, Timers
  <2> QED BY <2>3, <2>4 DEF WatcherInv
<1>2. MainTypeOK'
  <2>1. version \in 0 .. version /\ version' = version
    BY WatcherAssumption DEF WatcherInv, TypeOK
  <2> QED BY <2>1 DEF MainTypeOK, Phases
<1>3. NoTimerYet' /\ Startup'
  BY DEF NoTimerYet, Startup
<1> QED BY <1>1, <1>2, <1>3

LEMMA CompanionNextInv == CompanionInv /\ [CompanionNext]_allVars => CompanionInv'
<1> SUFFICES ASSUME CompanionInv, [CompanionNext]_allVars
             PROVE  CompanionInv'
  OBVIOUS
<1>1. CASE Started \/ StartFails \/ StartupListFails \/ StartupReturns \/ Launch
              \/ NotifySignals \/ Exit \/ HealthFails \/ Killed \/ Signal
  <2>1. UNCHANGED vars
    BY <1>1 DEF Started, StartFails, StartupListFails, StartupReturns, Launch,
                NotifySignals, Exit, HealthFails, Killed, Signal
  <2> QED BY <1>1, <2>1, MainAlone
<1>2. CASE StartupLists
  BY <1>2, StartupListsInv
<1>3. CASE Restart
  BY <1>3, RestartInv
<1>4. CASE Shut
  <2>1. WatcherInv'
    BY <1>4, NextInv DEF Shut, Next, CompanionInv
  <2>2. UNCHANGED <<version, covered, loop, last>>
    BY <1>4 DEF Shut, Cancel
  <2>3. MainTypeOK' /\ NoTimerYet' /\ Startup'
    BY <1>4, <2>2 DEF Shut, Goes, CompanionInv, MainTypeOK, Phases, NoTimerYet, Before,
                      Startup, StartupDone
  <2> QED BY <2>1, <2>3 DEF CompanionInv
<1>5. CASE Watches
  BY <1>5, WatcherSide DEF Watches, WatchMayStart, Next, Before
<1>6. CASE Loops
  <2>1. loop # "notStarted" /\ Loop /\ UNCHANGED mainVars
    BY <1>6 DEF Loops, Loop, HandleEvent, CallHandler, HandlerReturns, LoopCancelled,
                LoopStreamError
  <2>2. phase \notin Before
    BY <2>1 DEF CompanionInv, NoTimerYet
  <2> QED BY <2>1, <2>2, WatcherSide DEF Next
<1>7. ASSUME NEW i \in Timers, Reconciles(i)
      PROVE  CompanionInv'
  <2>1. UNCHANGED <<loop, last>> /\ Goroutine(i) /\ UNCHANGED mainVars
    BY <1>7 DEF Reconciles, Goroutine, TimerFires, Listing, ListingFails,
                ReconcileReturns, ClearPending
  <2> QED BY <2>1, WatcherSide DEF Next
<1>8. CASE DockerSide
  BY <1>8, WatcherSide DEF DockerSide, DockerChange, StreamBreaks, Next
<1>9. CASE UNCHANGED allVars
  <2>1. WatcherInv'
    BY <1>9, NextInv DEF allVars, CompanionInv
  <2>2. MainTypeOK' /\ NoTimerYet' /\ Startup'
    BY <1>9 DEF allVars, vars, mainVars, CompanionInv, MainTypeOK, NoTimerYet, Startup, StartupDone
  <2> QED BY <2>1, <2>2 DEF CompanionInv
<1> QED
  BY <1>1, <1>2, <1>3, <1>4, <1>5, <1>6, <1>7, <1>8, <1>9 DEF CompanionNext, Run

THEOREM CompanionInvariance == CompanionSpec => []CompanionInv
BY CompanionInitInv, CompanionNextInv, PTL DEF CompanionSpec

\* Types of main and of the watcher inside it, over any number of restarts.
THEOREM CompanionTypeCorrect == CompanionSpec => []CompanionTypeOK
<1>1. CompanionInv => CompanionTypeOK
  BY DEF CompanionInv, WatcherInv, MainTypeOK, CompanionTypeOK
<1> QED BY <1>1, CompanionInvariance, PTL

\* The program never runs two reconciliations at a time, the one at startup
\* included, whatever fails and however often it is started.
THEOREM NeverTwoReconciles == CompanionSpec => []OneReconcile
<1>1. CompanionInv => OneReconcile
  <2> SUFFICES ASSUME CompanionInv
               PROVE  OneReconcile
    OBVIOUS
  <2>1. OneDebouncedRun
    BY WatcherAssumption
       DEF CompanionInv, WatcherInv, TypeOK, Sequential, OneDebouncedRun, Active, Timers, RunStates
  <2>2. phase \in {"listing", "writing"} => last = 0
    BY DEF CompanionInv, NoTimerYet, Before
  <2>3. last = 0 => \A i \in Timers : run[i] = "unused"
    BY WatcherAssumption DEF CompanionInv, WatcherInv, Sequential, Timers
  <2> QED BY <2>1, <2>2, <2>3 DEF OneReconcile, Active
<1> QED BY <1>1, CompanionInvariance, PTL

\* Readiness is never announced before the startup listing has answered or
\* failed, for every number of changes and over any number of restarts.
THEOREM ReadyTellsSynced == CompanionSpec => []ReadyIsSynced
<1>1. CompanionInv => ReadyIsSynced
  BY DEF CompanionInv, Startup, StartupDone, ReadyIsSynced
<1> QED BY <1>1, CompanionInvariance, PTL

\* Neither the startup reconciliation nor a restart leaves anything behind.
LEMMA CompanionLoss ==
    ASSUME CompanionInv, [CompanionNext]_allVars, Behind', ~Behind
    PROVE  KnownLoss
<1> USE DEF CompanionInv
<1>1. CASE StartupLists
  <2>1. taken' = taken /\ covered' = version /\ taken <= version /\ taken \in Nat /\ version \in Nat
    BY <1>1, WatcherAssumption DEF StartupLists, ListedVersion, loopVars, WatcherInv, TypeOK
  <2> QED BY <2>1 DEF Behind
<1>2. CASE Restart
  <2>1. taken' = 0 /\ covered' = covered /\ covered \in Nat
    BY <1>2, WatcherAssumption DEF Restart, WatcherInv, TypeOK
  <2> QED BY <2>1 DEF Behind
<1>3. CASE [Next]_vars
  BY <1>3, LossIsKnown
<1>4. [Next]_vars \/ StartupLists \/ Restart
  <2>1. CASE Started \/ StartFails \/ StartupListFails \/ StartupReturns \/ Launch
                \/ NotifySignals \/ Exit \/ HealthFails \/ Killed \/ Signal
    BY <2>1 DEF Started, StartFails, StartupListFails, StartupReturns, Launch,
                NotifySignals, Exit, HealthFails, Killed, Signal
  <2>2. CASE Shut \/ Watches \/ Loops \/ DockerSide \/ \E i \in Timers : Reconciles(i)
    BY <2>2 DEF Shut, Watches, Loops, DockerSide, Reconciles, Next
  <2> QED BY <2>1, <2>2 DEF CompanionNext, Run, allVars
<1> QED BY <1>1, <1>2, <1>3, <1>4

\* Over any number of restarts: what the debouncing loses, it loses in the
\* window after a listing, by a failure or at the end of the process.
THEOREM CompanionLossesAreKnown == CompanionSpec => OnlyTheWindowLoses
<1>1. CompanionInv /\ [CompanionNext]_allVars => [(Behind' /\ ~Behind) => KnownLoss]_vars
  BY CompanionLoss
<1>2. OnlyTheWindowLoses <=> [][(Behind' /\ ~Behind) => KnownLoss]_vars
  BY DEF OnlyTheWindowLoses, KnownLoss
<1> QED BY <1>1, <1>2, CompanionInvariance, PTL DEF CompanionSpec
=============================================================================
