------------------------- MODULE CompanionRefinement -------------------------
(* Companion implements Follower: over any number of restarts and with any *)
(* failures, the startup reconciliation, the loop, its timers and the flag *)
(* keep what Follower promises.                                            *)
EXTENDS CompanionProofs

\* Before the subscription nothing has been heard; main calls Watch, never
\* WatchWithHandler; only Shut cancels the context.
Deaf == loop = "notStarted" => taken = 0
Debouncing == loop \in {"notStarted", "running", "ctxErr", "streamErr"}
Uncancelled == phase \notin {"stopping", "exited"} => ~ctxDone

FollowInv == CompanionInv /\ Deaf /\ Debouncing /\ Uncancelled

LEMMA FollowInitInv == CompanionInit => FollowInv
BY CompanionInitInv
   DEF CompanionInit, Init, WatcherInit, FollowInv, Deaf, Debouncing, Uncancelled

LEMMA FollowNextInv == FollowInv /\ [CompanionNext]_allVars => FollowInv'
<1> SUFFICES ASSUME FollowInv, [CompanionNext]_allVars
             PROVE  FollowInv'
  OBVIOUS
<1> USE DEF FollowInv, Deaf, Debouncing, Uncancelled
<1>1. CompanionInv'
  BY CompanionNextInv
<1>2. CASE Started \/ StartFails \/ StartupListFails \/ StartupReturns \/ Launch
              \/ NotifySignals \/ Exit \/ HealthFails \/ Killed \/ Signal
  BY <1>1, <1>2 DEF Started, StartFails, StartupListFails, StartupReturns, Launch, MayLaunch,
                    NotifySignals, Exit, HealthFails, Killed, Signal, Goes, AfterStart, vars
<1>3. CASE StartupLists
  BY <1>1, <1>3 DEF StartupLists, Goes, loopVars
<1>4. CASE Shut
  BY <1>1, <1>4 DEF Shut, Goes, Cancel
<1>5. CASE Restart
  BY <1>1, <1>5 DEF Restart
<1>6. CASE Watches
  BY <1>1, <1>6 DEF Watches, Subscribe, mainVars
<1>7. CASE Loops
  BY <1>1, <1>7 DEF Loops, Loop, HandleEvent, CallHandler, HandlerReturns, LoopCancelled,
                    LoopStreamError, mainVars
<1>8. ASSUME NEW i \in Timers, Reconciles(i)
      PROVE  FollowInv'
  BY <1>1, <1>8 DEF Reconciles, Goroutine, TimerFires, Listing, ListingFails,
                    ReconcileReturns, ClearPending, mainVars
<1>9. CASE DockerSide
  BY <1>1, <1>9 DEF DockerSide, DockerChange, StreamBreaks, mainVars
<1>10. CASE UNCHANGED allVars
  BY <1>1, <1>10 DEF allVars, vars, mainVars
<1> QED
  BY <1>2, <1>3, <1>4, <1>5, <1>6, <1>7, <1>8, <1>9, <1>10 DEF CompanionNext, Run

-----------------------------------------------------------------------------
(* What the program is at, by the line of run() and by the last timer.     *)

Watching == phase \in {"launched", "serving", "stopping"}
Reading ==
    /\ ~Alive => Work = "none"
    /\ phase = "listing" => Work = "due"
    /\ phase = "writing" => Work = "after"
    /\ phase \in {"starting", "synced"} => Work = "none"
    /\ Watching =>
          /\ \A i \in Timers :
                /\ run[i] \in {"armed", "listing"} => Work = "due"
                /\ run[i] \in {"writing", "returned"} => Work = "after"
          /\ (\A i \in Timers : run[i] \notin Active) => Work = "none"

LEMMA NoTimers ==
    ASSUME FollowInv, last = 0
    PROVE  \A i \in Timers : run[i] = "unused"
BY WatcherAssumption DEF FollowInv, CompanionInv, WatcherInv, Sequential, Timers

LEMMA ActiveIsLast ==
    ASSUME FollowInv, NEW i \in Timers, run[i] \in Active
    PROVE  i = last
BY WatcherAssumption
   DEF FollowInv, CompanionInv, WatcherInv, TypeOK, Sequential, Timers, Active

LEMMA WorkIs == FollowInv => Reading
<1> SUFFICES ASSUME FollowInv
             PROVE  Reading
  OBVIOUS
<1>1. ~Alive => Work = "none"
  BY DEF Work, LookDue, LookOver
<1>2. phase = "listing" => Work = "due"
  BY DEF Work, LookDue, Alive
<1>3. phase \in Before => ~Coming /\ \A i \in Timers : run[i] \notin {"writing", "returned"}
  BY NoTimers DEF FollowInv, CompanionInv, NoTimerYet, Coming
<1>4. phase = "writing" => Work = "after"
  BY <1>3 DEF Work, LookDue, LookOver, Alive, Before
<1>5. phase \in {"starting", "synced"} => Work = "none"
  BY <1>3 DEF Work, LookDue, LookOver, Alive, Before
<1>6. ASSUME Watching
      PROVE  /\ \A i \in Timers :
                   /\ run[i] \in {"armed", "listing"} => Work = "due"
                   /\ run[i] \in {"writing", "returned"} => Work = "after"
             /\ (\A i \in Timers : run[i] \notin Active) => Work = "none"
  <2>1. Alive /\ phase # "listing" /\ phase # "writing"
    BY <1>6 DEF Watching, Alive
  <2>2. ASSUME NEW i \in Timers, run[i] \in {"armed", "listing"}
        PROVE  Work = "due"
    BY <2>1, <2>2 DEF Work, LookDue, Coming
  <2>3. ASSUME NEW i \in Timers, run[i] \in {"writing", "returned"}
        PROVE  Work = "after"
    <3>1. ~Coming
      BY <2>3, ActiveIsLast DEF Coming, Active
    <3> QED BY <2>1, <2>3, <3>1 DEF Work, LookDue, LookOver
  <2>4. ASSUME \A i \in Timers : run[i] \notin Active
        PROVE  Work = "none"
    BY <2>1, <2>4 DEF Work, LookDue, LookOver, Coming, Active
  <2> QED BY <2>2, <2>3, <2>4
<1> QED BY <1>1, <1>2, <1>4, <1>5, <1>6 DEF Reading

LEMMA WorkWillBe == FollowInv' => Reading'
BY WorkIs, PTL

-----------------------------------------------------------------------------
(* Main.                                                                   *)

Quiet == UNCHANGED <<version, ctxDone, taken, covered, startupFailed, failed>>

LEMMA SameView ==
    ASSUME Quiet, Alive' = Alive, Work' = Work
    PROVE  UNCHANGED Follows!vars
BY DEF Quiet, Follows!vars

LEMMA MainMaps ==
    ASSUME FollowInv, FollowInv',
           Started \/ StartFails \/ StartupListFails \/ StartupReturns \/ Launch
              \/ NotifySignals \/ Exit \/ HealthFails \/ Killed \/ Signal
    PROVE  Follows!Next \/ UNCHANGED Follows!vars
<1>1. Reading /\ Reading'
  BY WorkIs, WorkWillBe
<1>2. UNCHANGED vars
  BY DEF Started, StartFails, StartupListFails, StartupReturns, Launch,
         NotifySignals, Exit, HealthFails, Killed, Signal
<1>3. UNCHANGED <<version, ctxDone, taken, covered, failed, run, loop>>
  BY <1>2 DEF vars
<1>4. CASE Started
  <2>1. Work = "none" /\ Work' \in {"due", "none"} /\ Alive /\ Alive'
    BY <1>1, <1>4 DEF Started, Goes, AfterStart, Reading, Alive
  <2>2. ~ctxDone /\ taken = 0
    BY <1>4 DEF Started, Goes, FollowInv, Deaf, Uncancelled, CompanionInv, NoTimerYet, Before
  <2>3. Quiet
    BY <1>3, <1>4 DEF Started, Quiet
  <2>4. CASE Work' = "due"
    BY <2>1, <2>2, <2>3, <2>4 DEF Follows!Next, Follows!FirstLook, Quiet
  <2>5. CASE Work' = "none"
    BY <2>1, <2>3, <2>5, SameView
  <2> QED BY <2>1, <2>4, <2>5
<1>5. CASE StartFails \/ Killed \/ Exit
  <2>1. Alive /\ ~Alive' /\ Work' = "none"
    BY <1>1, <1>5 DEF StartFails, Killed, Exit, Goes, Reading, Alive
  <2>2. Quiet
    BY <1>3, <1>5 DEF StartFails, Killed, Exit, Quiet
  <2> QED BY <2>1, <2>2 DEF Follows!Next, Follows!Stop, Follows!GiveUp, Quiet
<1>6. CASE StartupListFails
  <2>1. Work = "due" /\ Work' = "none" /\ Alive /\ Alive'
    BY <1>1, <1>6 DEF StartupListFails, Goes, Reading, Alive
  <2>2. startupFailed' = TRUE
    BY <1>6 DEF StartupListFails
  <2> QED BY <1>3, <2>1, <2>2 DEF Follows!Next, Follows!Miss
<1>7. CASE StartupReturns
  <2>1. Work = "after" /\ Work' = "none" /\ Alive /\ Alive'
    BY <1>1, <1>7 DEF StartupReturns, Goes, Reading, Alive
  <2>2. Quiet
    BY <1>3, <1>7 DEF StartupReturns, Quiet
  <2> QED BY <2>1, <2>2 DEF Follows!Next, Follows!Finish, Quiet
<1>8. CASE Launch \/ NotifySignals \/ HealthFails \/ Signal
  <2>1. Quiet
    BY <1>3, <1>8 DEF Launch, NotifySignals, HealthFails, Signal, Quiet
  <2>2. /\ Alive' = Alive
        /\ (phase' = "listing") = (phase = "listing")
        /\ (phase' = "writing") = (phase = "writing")
    BY <1>8 DEF Launch, MayLaunch, NotifySignals, HealthFails, Signal, Goes, Alive
  <2>3. Work' = Work
    BY <1>3, <2>2 DEF Work, LookDue, LookOver, Coming
  <2> QED BY <2>1, <2>2, <2>3, SameView
<1> QED BY <1>4, <1>5, <1>6, <1>7, <1>8

LEMMA StartupListsMaps ==
    ASSUME FollowInv, FollowInv', StartupLists
    PROVE  Follows!Look
<1>1. Work = "due" /\ Work' = "after" /\ Alive /\ Alive'
  BY WorkIs, WorkWillBe DEF StartupLists, Goes, Reading, Alive
<1>2. ~ctxDone
  BY DEF StartupLists, Goes, FollowInv, Uncancelled
<1>3. covered' = version /\ UNCHANGED <<version, ctxDone, taken, failed, startupFailed>>
  BY DEF StartupLists, ListedVersion, loopVars
<1> QED BY <1>1, <1>2, <1>3 DEF Follows!Look

LEMMA ShutMaps ==
    ASSUME FollowInv, Shut
    PROVE  Follows!Stop
<1>1. UNCHANGED <<version, taken, covered, startupFailed, failed, run>>
  BY DEF Shut, Cancel
<1>2. Alive /\ Alive' /\ ~ctxDone /\ ctxDone'
  BY DEF Shut, Cancel, Goes, Alive
<1>3. Work' = Work
  BY <1>1, <1>2 DEF Shut, Goes, Work, LookDue, LookOver, Coming
<1> QED BY <1>1, <1>2, <1>3 DEF Follows!Stop

LEMMA RestartMaps ==
    ASSUME FollowInv, FollowInv', Restart
    PROVE  Follows!Restart
<1>1. ~Alive /\ Work = "none" /\ Alive' /\ Work' = "none"
  BY WorkIs, WorkWillBe DEF Restart, Reading, Alive
<1>2. /\ ~ctxDone' /\ taken' = 0 /\ failed' = {} /\ startupFailed' = FALSE
      /\ UNCHANGED <<version, covered>>
  BY DEF Restart
<1> QED BY <1>1, <1>2 DEF Follows!Restart

-----------------------------------------------------------------------------
(* The watcher.                                                            *)

LEMMA WatchesMaps ==
    ASSUME FollowInv, FollowInv', Watches
    PROVE  Follows!Listen
<1>1. Watching /\ UNCHANGED <<phase, run>> /\ loop = "notStarted" /\ taken = 0
  BY DEF Watches, WatchMayStart, Watching, Subscribe, FollowInv, Deaf, mainVars
<1>2. last = 0
  BY <1>1 DEF FollowInv, CompanionInv, WatcherInv, TypeOK
<1>3. Work = "none"
  BY <1>1, <1>2, NoTimers, WorkIs DEF Reading, Active
<1>4. Work' = Work /\ Alive' = Alive
  BY <1>1 DEF Work, LookDue, LookOver, Coming, Alive
<1>5. taken' = version /\ UNCHANGED <<version, covered, ctxDone, failed, startupFailed>>
  BY DEF Watches, Subscribe, mainVars
<1> QED BY <1>1, <1>3, <1>4, <1>5 DEF Follows!Listen

\* An event that finds the program idle finds the flag down.
LEMMA HandleEventMaps ==
    ASSUME FollowInv, FollowInv', Alive, HandleEvent, UNCHANGED mainVars
    PROVE  Follows!Hear
<1>1. loop = "running" /\ phase' = phase /\ Alive'
  BY DEF HandleEvent, mainVars, Alive
<1>2. Watching
  BY <1>1 DEF FollowInv, CompanionInv, NoTimerYet, Before, Alive, Watching, MainTypeOK, Phases
<1>3. Watching'
  BY <1>1, <1>2 DEF Watching
<1>4. /\ taken < version /\ taken' = taken + 1
      /\ UNCHANGED <<version, covered, ctxDone, failed, startupFailed>>
  BY DEF HandleEvent, EventReady, mainVars
<1>5. CASE MayArm
  <2>1. \A i \in Timers : run[i] \notin Active
    BY <1>5, ActiveIsLast
       DEF MayArm, FollowInv, CompanionInv, WatcherInv, Sequential, Active
  <2>2. Work = "none"
    BY <1>2, <2>1, WorkIs DEF Reading
  <2>3. last + 1 \in Timers /\ run'[last + 1] = "armed"
    BY <1>4, <1>5, WatcherAssumption
       DEF HandleEvent, FollowInv, CompanionInv, WatcherInv, TypeOK, Timers
  <2>4. Work' = "due"
    BY <1>3, <2>3, WorkWillBe DEF Reading
  <2> QED BY <1>1, <1>4, <2>2, <2>4 DEF Follows!Hear
<1>6. CASE ~MayArm
  <2>1. last \in Timers /\ run[last] \in Active
    <3>1. last \in Timers /\ run[last] \notin {"unused", "done"}
      BY <1>6, WatcherAssumption
         DEF MayArm, FollowInv, CompanionInv, WatcherInv, TypeOK, Sequential, Timers
    <3>2. run[last] # "stopped"
      BY <1>1, <3>1 DEF FollowInv, CompanionInv, WatcherInv, Quiescent
    <3> QED BY <3>1, <3>2 DEF FollowInv, CompanionInv, WatcherInv, TypeOK, RunStates, Active
  <2>2. Work # "none"
    BY <1>2, <2>1, WorkIs DEF Reading, Active
  <2>3. Work' = Work
    BY <1>1, <1>6 DEF HandleEvent, Work, LookDue, LookOver, Coming, Alive
  <2> QED BY <1>1, <1>4, <2>2, <2>3 DEF Follows!Hear
<1> QED BY <1>5, <1>6

LEMMA LoopsMaps ==
    ASSUME FollowInv, FollowInv', Loops
    PROVE  Follows!Next \/ UNCHANGED Follows!vars
<1>1. Alive /\ Alive' /\ UNCHANGED <<phase, startupFailed>>
  BY DEF Loops, mainVars, Alive
<1>2. CASE HandleEvent
  BY <1>1, <1>2, HandleEventMaps DEF Loops, Follows!Next
<1>3. ~CallHandler /\ ~HandlerReturns
  BY DEF CallHandler, HandlerReturns, FollowInv, Debouncing
<1>4. CASE LoopCancelled
  <2>1. Quiet /\ ctxDone /\ run' = TimerStopped /\ loop = "running"
    BY <1>1, <1>4 DEF LoopCancelled, SeesCancel, FollowInv, Debouncing, Quiet
  <2>2. Watching /\ Watching'
    BY <1>1, <2>1 DEF FollowInv, CompanionInv, NoTimerYet, Before, Alive, Watching,
                      MainTypeOK, Phases
  <2>3. CASE last \in Timers /\ run[last] = "armed"
    <3>1. \A i \in Timers : run'[i] \notin Active
      <4> SUFFICES ASSUME NEW i \in Timers
                   PROVE  run'[i] \notin Active
        OBVIOUS
      <4>1. CASE i = last
        BY <2>1, <2>3, <4>1 DEF TimerStopped, Active
      <4>2. CASE i # last
        BY <2>1, <4>2, ActiveIsLast DEF TimerStopped
      <4> QED BY <4>1, <4>2
    <3>2. Work' = "none"
      BY <2>2, <3>1, WorkWillBe DEF Reading
    <3> QED BY <2>1, <3>2, <1>1 DEF Follows!Next, Follows!GiveUp, Quiet
  <2>4. CASE ~(last \in Timers /\ run[last] = "armed")
    <3>1. run' = run
      BY <2>1, <2>4 DEF TimerStopped, FollowInv, CompanionInv, WatcherInv, TypeOK
    <3>2. Work' = Work
      BY <1>1, <3>1 DEF Work, LookDue, LookOver, Coming
    <3> QED BY <1>1, <2>1, <3>2, SameView
  <2> QED BY <2>3, <2>4
<1>5. CASE LoopStreamError
  <2>1. Quiet /\ Work' = Work
    BY <1>1, <1>5 DEF LoopStreamError, Quiet, Work, LookDue, LookOver, Coming
  <2> QED BY <1>1, <2>1, SameView
<1> QED BY <1>2, <1>3, <1>4, <1>5 DEF Loops, Loop

\* The steps of the one goroutine there is.
LEMMA ReconcilesMaps ==
    ASSUME FollowInv, FollowInv', NEW i \in Timers, Reconciles(i)
    PROVE  Follows!Next \/ UNCHANGED Follows!vars
<1>1. Alive /\ Alive' /\ UNCHANGED <<phase, startupFailed>> /\ Goroutine(i)
  BY DEF Reconciles, mainVars, Alive
<1>2. run[i] \in Active /\ i = last
  BY <1>1, ActiveIsLast
     DEF Goroutine, TimerFires, Listing, ListingFails, ReconcileReturns, ClearPending, Moves, Active
<1>3. phase \notin Before
  <2>1. last # 0
    BY <1>2, NoTimers DEF Active
  <2> QED BY <2>1 DEF FollowInv, CompanionInv, NoTimerYet
<1>4. Watching /\ Watching'
  BY <1>1, <1>3 DEF Watching, Alive, FollowInv, CompanionInv, MainTypeOK, Phases, Before
<1>5. Reading /\ Reading'
  BY WorkIs, WorkWillBe
<1>6. UNCHANGED <<version, taken, ctxDone>>
  BY <1>1 DEF Goroutine, TimerFires, Listing, ListingFails, ReconcileReturns, ClearPending
<1>7. run \in [Timers -> RunStates]
  BY DEF FollowInv, CompanionInv, WatcherInv, TypeOK
<1>8. CASE TimerFires(i)
  <2>1. Work = "due" /\ Work' = "due"
    BY <1>4, <1>5, <1>7, <1>8 DEF TimerFires, Moves, Reading
  <2> QED BY <1>1, <1>8, <2>1, SameView DEF TimerFires, Quiet
<1>9. CASE Listing(i)
  <2>1. Work = "due" /\ Work' = "after"
    BY <1>4, <1>5, <1>7, <1>9 DEF Listing, Moves, Reading
  <2> QED
    BY <1>1, <1>6, <1>9, <2>1
       DEF Listing, ContextLives, ListedVersion, Follows!Next, Follows!Look
<1>10. CASE ListingFails(i)
  <2>1. Work = "due" /\ Work' = "after"
    BY <1>4, <1>5, <1>7, <1>10 DEF ListingFails, Moves, Reading
  <2> QED BY <1>1, <1>6, <1>10, <2>1 DEF ListingFails, Follows!Next, Follows!Miss
<1>11. CASE ReconcileReturns(i)
  <2>1. Work = "after" /\ Work' = "after"
    BY <1>4, <1>5, <1>7, <1>11 DEF ReconcileReturns, Moves, Reading
  <2> QED BY <1>1, <1>11, <2>1, SameView DEF ReconcileReturns, Quiet
<1>12. CASE ClearPending(i)
  <2>1. \A j \in Timers : run'[j] \notin Active
    BY <1>2, <1>7, <1>12, ActiveIsLast DEF ClearPending, Moves, Active
  <2>2. Work = "after" /\ Work' = "none"
    BY <1>4, <1>5, <1>7, <1>12, <2>1 DEF ClearPending, Moves, Reading
  <2> QED BY <1>1, <1>6, <1>12, <2>2 DEF ClearPending, Follows!Next, Follows!Finish
<1> QED BY <1>1, <1>8, <1>9, <1>10, <1>11, <1>12 DEF Goroutine

LEMMA DockerMaps ==
    ASSUME DockerSide
    PROVE  Follows!Change \/ UNCHANGED Follows!vars
<1>1. UNCHANGED <<phase, run, ctxDone, taken, covered, failed, startupFailed>>
  BY DEF DockerSide, DockerChange, StreamBreaks, mainVars
<1>2. Work' = Work /\ Alive' = Alive
  BY <1>1 DEF Work, LookDue, LookOver, Coming, Alive
<1>3. CASE DockerChange
  BY <1>1, <1>2, <1>3 DEF DockerChange, Follows!Change
<1>4. CASE StreamBreaks
  BY <1>1, <1>2, <1>4 DEF StreamBreaks, Follows!vars
<1> QED BY <1>3, <1>4 DEF DockerSide

-----------------------------------------------------------------------------
LEMMA FollowInit == CompanionInit => Follows!Init
<1> SUFFICES ASSUME CompanionInit
             PROVE  Follows!Init
  OBVIOUS
<1>1. Work = "none"
  BY FollowInitInv, WorkIs DEF CompanionInit, Reading
<1> QED BY <1>1 DEF CompanionInit, Init, WatcherInit, Follows!Init, Alive

LEMMA FollowStep ==
    ASSUME FollowInv, FollowInv', [CompanionNext]_allVars
    PROVE  [Follows!Next]_(Follows!vars)
<1>1. CASE Started \/ StartFails \/ StartupListFails \/ StartupReturns \/ Launch
              \/ NotifySignals \/ Exit \/ HealthFails \/ Killed \/ Signal
  BY <1>1, MainMaps
<1>2. CASE StartupLists
  BY <1>2, StartupListsMaps DEF Follows!Next
<1>3. CASE Shut
  BY <1>3, ShutMaps DEF Follows!Next
<1>4. CASE Restart
  BY <1>4, RestartMaps DEF Follows!Next
<1>5. CASE Watches
  BY <1>5, WatchesMaps DEF Follows!Next
<1>6. CASE Loops
  BY <1>6, LoopsMaps
<1>7. ASSUME NEW i \in Timers, Reconciles(i)
      PROVE  [Follows!Next]_(Follows!vars)
  BY <1>7, ReconcilesMaps
<1>8. CASE DockerSide
  BY <1>8, DockerMaps DEF Follows!Next
<1>9. CASE UNCHANGED allVars
  <2>1. Quiet /\ Work' = Work /\ Alive' = Alive
    BY <1>9 DEF allVars, vars, mainVars, Quiet, Work, LookDue, LookOver, Coming, Alive
  <2> QED BY <2>1, SameView
<1> QED
  BY <1>1, <1>2, <1>3, <1>4, <1>5, <1>6, <1>7, <1>8, <1>9 DEF CompanionNext, Run

\* main.go:117-182, watcher.go:97-139: the program implements Follower, for
\* every number of changes, every set of failures and both restart policies:
\* what it hears of while idle is looked at, and no look that is due is
\* forgotten before the program is to end.
THEOREM FollowsDocker == CompanionSpec => IsFollower
<1>1. FollowInv /\ [CompanionNext]_allVars => FollowInv'
  BY FollowNextInv
<1>2. FollowInv /\ FollowInv' /\ [CompanionNext]_allVars => [Follows!Next]_(Follows!vars)
  BY FollowStep
<1> QED
  BY FollowInitInv, FollowInit, <1>1, <1>2, PTL
     DEF CompanionSpec, IsFollower, Follows!Spec
=============================================================================
