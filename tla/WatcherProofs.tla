---------------------------- MODULE WatcherProofs ----------------------------
(* Proofs about the specification of Watcher, for every MaxEvents.         *)
EXTENDS Watcher, TLAPS

\* The timers were started one after another: those before the last one are
\* done, those after it were never started, and the flag says how the last is.
Sequential ==
    /\ \A i \in Timers :
          /\ i < last => run[i] = "done"
          /\ i > last => run[i] = "unused"
          /\ i = last => run[i] # "unused" /\ (pending <=> run[i] # "done")
    /\ last = 0 => ~pending

\* The loop stops its timer before it returns, and then only, and starts no
\* other.
Quiescent == \A i \in Timers :
    /\ (loop = "ctxErr" /\ i = last) => run[i] # "armed"
    /\ run[i] = "stopped" => loop = "ctxErr"

WatcherInv == TypeOK /\ Sequential /\ Quiescent

LEMMA InitInv == Init => WatcherInv
<1> SUFFICES ASSUME Init
             PROVE  WatcherInv
  OBVIOUS
<1> USE DEF Init, WatcherInit
<1>1. TypeOK
  <2>1. version = 0 /\ taken = 0 /\ covered = 0 /\ last = 0 /\ 0 \in 0 .. 0
    OBVIOUS
  <2>2. 0 \in 0 .. MaxEvents
    BY WatcherAssumption
  <2>3. run \in [Timers -> RunStates]
    BY DEF RunStates
  <2>4. stream = "open" /\ ctxDone = FALSE /\ loop = "notStarted" /\ pending = FALSE /\ failed = {}
    OBVIOUS
  <2> QED BY <2>1, <2>2, <2>3, <2>4 DEF TypeOK, LoopStates
<1>2. Sequential /\ Quiescent
  BY WatcherAssumption DEF Sequential, Quiescent, Timers
<1> QED BY <1>1, <1>2 DEF WatcherInv

\* Handling an event: the timer before is done when another one is started.
LEMMA HandleEventInv == WatcherInv /\ HandleEvent => WatcherInv'
<1> SUFFICES ASSUME WatcherInv, HandleEvent
             PROVE  WatcherInv'
  OBVIOUS
<1> USE WatcherAssumption DEF WatcherInv, TypeOK, HandleEvent, EventReady
<1>1. CASE MayArm
  <2>1. last + 1 \in Timers /\ last' = last + 1 /\ pending' = TRUE /\ loop = "running"
    BY <1>1 DEF Timers
  <2>2. run' = [run EXCEPT ![last + 1] = "armed"]
    BY <1>1
  <2>3. TypeOK'
    BY <2>1, <2>2 DEF RunStates
  <2>4. \A i \in Timers : i <= last => run[i] = "done"
    BY <1>1 DEF MayArm, Sequential, Timers
  <2>5. Sequential'
    BY <2>1, <2>2, <2>4 DEF Sequential, Timers
  <2>6. Quiescent'
    BY <2>1, <2>2 DEF Quiescent
  <2> QED BY <2>1, <2>3, <2>5, <2>6
<1>2. CASE ~MayArm
  <2>1. UNCHANGED <<run, last, pending, loop>>
    BY <1>2
  <2>2. TypeOK'
    BY <2>1
  <2> QED BY <2>1, <2>2 DEF Sequential, Quiescent
<1> QED BY <1>1, <1>2

\* A goroutine's step moves the last timer, the only one that can move.
LEMMA GoroutineInv ==
    ASSUME WatcherInv, NEW i \in Timers, Goroutine(i)
    PROVE  WatcherInv'
<1> USE WatcherAssumption DEF WatcherInv, Timers
<1>1. i = last
  BY DEF Goroutine, TimerFires, Listing, ListingFails, ReconcileReturns, ClearPending,
         Moves, TypeOK, Sequential
<1>2. TypeOK'
  <2> USE DEF TypeOK, Moves, RunStates
  <2>1. CASE TimerFires(i) \/ ReconcileReturns(i)
    BY <2>1 DEF TimerFires, ReconcileReturns
  <2>2. CASE Listing(i)
    BY <2>2 DEF Listing, ListedVersion
  <2>3. CASE ListingFails(i)
    BY <2>3 DEF ListingFails
  <2>4. CASE ClearPending(i)
    BY <2>4 DEF ClearPending, DropPending
  <2> QED BY <2>1, <2>2, <2>3, <2>4 DEF Goroutine
<1>3. Sequential'
  BY <1>1 DEF Goroutine, TimerFires, Listing, ListingFails, ReconcileReturns, ClearPending,
              Moves, DropPending, TypeOK, Sequential
<1>4. Quiescent'
  BY <1>1 DEF Goroutine, TimerFires, Listing, ListingFails, ReconcileReturns, ClearPending,
              Moves, TypeOK, Quiescent
<1> QED BY <1>2, <1>3, <1>4

LEMMA NextInv == WatcherInv /\ [Next]_vars => WatcherInv'
<1> SUFFICES ASSUME WatcherInv, [Next]_vars
             PROVE  WatcherInv'
  OBVIOUS
<1> USE WatcherAssumption DEF WatcherInv
<1>1. CASE \/ DockerChange \/ StreamBreaks \/ Cancel \/ Subscribe \/ SubscribeWithHandler
           \/ LoopStreamError \/ CallHandler \/ HandlerReturns
  <2>1. TypeOK'
    <3> USE DEF TypeOK, LoopStates
    <3>1. CASE DockerChange
      BY <3>1 DEF DockerChange
    <3>2. CASE Subscribe \/ SubscribeWithHandler
      BY <3>2 DEF Subscribe, SubscribeWithHandler
    <3>3. CASE StreamBreaks \/ Cancel \/ LoopStreamError \/ HandlerReturns
      BY <3>3 DEF StreamBreaks, Cancel, LoopStreamError, HandlerReturns
    <3>4. CASE CallHandler
      BY <3>4 DEF CallHandler, EventReady
    <3> QED BY <1>1, <3>1, <3>2, <3>3, <3>4
  <2>2. UNCHANGED <<run, last, pending>> /\ (loop' = "ctxErr" <=> loop = "ctxErr")
    BY <1>1 DEF DockerChange, StreamBreaks, Cancel, Subscribe, SubscribeWithHandler,
                LoopStreamError, CallHandler, HandlerReturns
  <2> QED BY <2>1, <2>2 DEF Sequential, Quiescent
<1>2. CASE LoopCancelled
  <2>1. TypeOK'
    BY <1>2 DEF LoopCancelled, TimerStopped, TypeOK, RunStates, LoopStates
  <2>2. Sequential'
    BY <1>2 DEF LoopCancelled, TimerStopped, TypeOK, Sequential
  <2>3. Quiescent'
    BY <1>2 DEF LoopCancelled, TimerStopped, TypeOK, Quiescent
  <2> QED BY <2>1, <2>2, <2>3
<1>3. CASE HandleEvent
  BY <1>3, HandleEventInv
<1>4. ASSUME NEW i \in Timers, Goroutine(i)
      PROVE  WatcherInv'
  BY <1>4, GoroutineInv
<1>5. CASE UNCHANGED vars
  BY <1>5 DEF vars, TypeOK, Sequential, Quiescent
<1> QED BY <1>1, <1>2, <1>3, <1>4, <1>5 DEF Next, Loop

THEOREM Invariance == Spec => []WatcherInv
BY InitInv, NextInv, PTL DEF Spec

\* Types, for every number of events.
THEOREM TypeCorrect == Spec => []TypeOK
<1>1. WatcherInv => TypeOK
  BY DEF WatcherInv
<1> QED BY <1>1, Invariance, PTL

\* At most one debounced reconciliation waits or runs, and the flag tells.
THEOREM Debounced == Spec => []OneDebouncedRun
<1>1. WatcherInv => OneDebouncedRun
  BY WatcherAssumption
     DEF WatcherInv, TypeOK, Sequential, OneDebouncedRun, Active, Timers, RunStates
<1> QED BY <1>1, Invariance, PTL

\* What each goroutine may do once the context is cancelled or Watch is gone.
LEMMA GoroutineEnds ==
    ASSUME WatcherInv, NEW i \in Timers, Goroutine(i)
    PROVE  /\ UNCHANGED last
           /\ \A j \in Timers :
                 /\ run[j] = "armed" /\ run'[j] = "listing" => loop # "ctxErr"
                 /\ ctxDone /\ run'[j] = "writing" => run[j] = "writing"
<1> USE DEF WatcherInv, TypeOK, Moves
<1>1. CASE TimerFires(i)
  <2>1. i = last
    BY <1>1, WatcherAssumption DEF TimerFires, Sequential, Timers
  <2>2. loop # "ctxErr"
    BY <1>1, <2>1 DEF TimerFires, Quiescent
  <2> QED BY <1>1, <2>2 DEF TimerFires
<1>2. CASE Listing(i)
  BY <1>2 DEF Listing, ContextLives
<1>3. CASE ListingFails(i)
  BY <1>3 DEF ListingFails
<1>4. CASE ReconcileReturns(i) \/ ClearPending(i)
  BY <1>4 DEF ReconcileReturns, ClearPending
<1> QED BY <1>1, <1>2, <1>3, <1>4 DEF Goroutine

\* Whichever way Watch has returned, it starts nothing; and a cancelled context
\* lets no other reconciliation get as far as writing.
THEOREM NothingAfterTheEnd == Spec => ReturnIsTheEnd
<1> DEFINE Ends ==
        /\ loop \in {"ctxErr", "streamErr"} =>
              /\ UNCHANGED last
              /\ \A i \in Timers :
                    (run[i] = "armed" /\ run'[i] = "listing") => loop = "streamErr"
        /\ ctxDone => \A i \in Timers : run'[i] = "writing" => run[i] = "writing"
<1>1. ASSUME WatcherInv, [Next]_vars
      PROVE  Ends
  <2>1. CASE \E i \in Timers : Goroutine(i)
    <3>1. PICK i \in Timers : Goroutine(i)
      BY <2>1
    <3>2. UNCHANGED last
      BY <1>1, <3>1, GoroutineEnds
    <3>3. ASSUME NEW j \in Timers
          PROVE  /\ (run[j] = "armed" /\ run'[j] = "listing") => loop # "ctxErr"
                 /\ ctxDone /\ run'[j] = "writing" => run[j] = "writing"
      BY <1>1, <3>1, GoroutineEnds
    <3> QED BY <3>2, <3>3
  <2>2. CASE HandleEvent
    BY <1>1, <2>2 DEF HandleEvent, WatcherInv, TypeOK
  <2>3. CASE LoopCancelled
    BY <1>1, <2>3 DEF LoopCancelled, TimerStopped, WatcherInv, TypeOK
  <2>4. CASE \/ DockerChange \/ StreamBreaks \/ Cancel \/ Subscribe \/ SubscribeWithHandler
             \/ LoopStreamError \/ CallHandler \/ HandlerReturns \/ UNCHANGED vars
    BY <2>4 DEF DockerChange, StreamBreaks, Cancel, Subscribe, SubscribeWithHandler,
                LoopStreamError, CallHandler, HandlerReturns, vars
  <2> QED BY <1>1, <2>1, <2>2, <2>3, <2>4 DEF Next, Loop
<1>2. ReturnIsTheEnd <=> [][Ends]_vars
  BY DEF ReturnIsTheEnd
<1>3. WatcherInv /\ [Next]_vars => [Ends]_vars
  BY <1>1
<1> HIDE DEF Ends
<1> QED BY <1>2, <1>3, Invariance, PTL DEF Spec

-----------------------------------------------------------------------------
(* What the debouncing loses.                                              *)

\* An event is handled: it arms a timer unless a run is under way.
LEMMA EventLoses ==
    ASSUME WatcherInv, HandleEvent, Behind'
    PROVE  \/ Behind
           \/ \E i \in Timers : run[i] \in {"writing", "returned"}
<1> USE WatcherAssumption DEF WatcherInv, TypeOK, HandleEvent, EventReady
<1>1. CASE MayArm
  <2>1. last + 1 \in Timers /\ run'[last + 1] = "armed"
    BY <1>1 DEF Timers
  <2> QED BY <2>1 DEF Behind, Coming
<1>2. CASE ~MayArm
  <2>1. last \in Timers /\ run[last] # "done" /\ run[last] # "unused"
    BY <1>2 DEF MayArm, Sequential, Timers
  <2>2. UNCHANGED run
    BY <1>2
  <2>3. run[last] \notin {"armed", "listing"}
    BY <2>1, <2>2 DEF Behind, Coming
  <2>4. run[last] # "stopped"
    BY <2>1 DEF Quiescent
  <2> QED BY <2>1, <2>3, <2>4 DEF RunStates
<1> QED BY <1>1, <1>2

\* A goroutine lists everything, or fails; the rest changes nothing.
LEMMA GoroutineLoses ==
    ASSUME WatcherInv, NEW i \in Timers, Goroutine(i), Behind'
    PROVE  Behind \/ ListingFails(i)
<1> USE WatcherAssumption DEF WatcherInv, TypeOK, Behind, Coming, Moves
<1>1. CASE TimerFires(i)
  BY <1>1 DEF TimerFires
<1>2. CASE Listing(i)
  BY <1>2 DEF Listing, ListedVersion
<1>3. CASE ReconcileReturns(i)
  BY <1>3 DEF ReconcileReturns
<1>4. CASE ClearPending(i)
  BY <1>4 DEF ClearPending
<1> QED BY <1>1, <1>2, <1>3, <1>4 DEF Goroutine

\* The ways to lose an event, for any step of the watcher.
KnownLoss ==
    \/ HandleEvent /\ \E i \in Timers : run[i] \in {"writing", "returned"}
    \/ \E i \in Timers : ListingFails(i)
    \/ LoopCancelled
    \/ loop \in {"notStarted", "waiting"}

LEMMA LossIsKnown ==
    ASSUME WatcherInv, [Next]_vars, Behind', ~Behind
    PROVE  KnownLoss
<1>1. CASE HandleEvent
  BY <1>1, EventLoses DEF KnownLoss
<1>2. CASE LoopCancelled
  BY <1>2 DEF KnownLoss
<1>3. CASE Subscribe \/ SubscribeWithHandler \/ CallHandler
  BY <1>3 DEF KnownLoss, Subscribe, SubscribeWithHandler, CallHandler
<1>4. CASE \/ DockerChange \/ StreamBreaks \/ Cancel \/ LoopStreamError \/ HandlerReturns
           \/ UNCHANGED vars
  BY <1>4 DEF DockerChange, StreamBreaks, Cancel, LoopStreamError, HandlerReturns, vars,
              Behind, Coming
<1>5. ASSUME NEW i \in Timers, Goroutine(i)
      PROVE  KnownLoss
  BY <1>5, GoroutineLoses DEF KnownLoss
<1> QED BY <1>1, <1>2, <1>3, <1>4, <1>5 DEF Next, Loop

\* For any number of changes: no event that is handled is lost but in the
\* window after a listing, by a failure or at the end.
THEOREM LossesAreKnown == Spec => OnlyTheWindowLoses
<1>1. WatcherInv /\ [Next]_vars => [(Behind' /\ ~Behind) => KnownLoss]_vars
  BY LossIsKnown
<1>2. OnlyTheWindowLoses <=> [][(Behind' /\ ~Behind) => KnownLoss]_vars
  BY DEF OnlyTheWindowLoses, KnownLoss
<1> QED BY <1>1, <1>2, Invariance, PTL DEF Spec
=============================================================================
