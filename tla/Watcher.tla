------------------------------- MODULE Watcher -------------------------------
(***************************************************************************)
(* internal/watcher: the loop of Watch over the Docker event stream, the   *)
(* debounce timers it starts with time.AfterFunc and the goroutines those  *)
(* timers become.  What Docker runs is a version number that every change  *)
(* raises by one, so a listing is the version it saw.  pendingReconcile is *)
(* shared by the loop and the goroutines without a lock.                   *)
(***************************************************************************)
EXTENDS Naturals

CONSTANT
    MaxEvents   \* bound: changes Docker makes, and so events and timers

ASSUME WatcherAssumption == MaxEvents \in Nat

Timers == 1 .. MaxEvents

VARIABLES
    version,  \* changes made by Docker so far
    taken,    \* the last change whose event the loop has handled, or missed
    covered,  \* the newest version a successful listing has seen (history)
    stream,   \* the event stream: "open", or "broken" with an error in errCh
    ctxDone,  \* the context is cancelled
    loop,     \* the loop of Watch: how far, or how it returned
    pending,  \* pendingReconcile
    last,     \* debounceTimer: the timer started last, 0 for nil
    run,      \* each timer and the goroutine it becomes
    failed    \* the goroutines whose Reconcile returned an error (history)

loopVars == <<taken, stream, loop, last>>
vars == <<version, taken, covered, stream, ctxDone, loop, pending, last, run, failed>>

(* "unused"    not started          "armed"    waiting for the interval    *)
(* "stopped"   by debounceTimer.Stop()                                     *)
(* "listing"   fired, Reconcile asks Docker                                *)
(* "writing"   has its listing, talks to Technitium                        *)
(* "returned"  Reconcile is over, pendingReconcile still to be cleared     *)
(* "done"      the goroutine has ended                                     *)
RunStates == {"unused", "armed", "stopped", "listing", "writing", "returned", "done"}
Active == {"armed", "listing", "writing", "returned"}

(* "running"   Watch waits for what comes next                             *)
(* "waiting"   WatchWithHandler does                                       *)
(* "handling"  WatchWithHandler has called the handler                     *)
(* "ctxErr", "streamErr"  how either has returned                          *)
LoopStates == {"notStarted", "running", "waiting", "handling", "ctxErr", "streamErr"}

WatcherInit ==
    /\ taken = 0
    /\ stream = "open"
    /\ ctxDone = FALSE
    /\ loop = "notStarted"
    /\ pending = FALSE
    /\ last = 0
    /\ run = [i \in Timers |-> "unused"]
    /\ failed = {}

Init ==
    /\ version = 0
    /\ covered = 0
    /\ WatcherInit

-----------------------------------------------------------------------------
(* Docker.                                                                 *)

\* A change with an event that buildEventFilters asks for.
DockerChange ==
    /\ version < MaxEvents
    /\ version' = version + 1
    /\ UNCHANGED <<taken, covered, stream, ctxDone, loop, pending, last, run, failed>>

\* The stream ends with an error: the daemon is gone, the connection is cut,
\* or the client noticed that the context is cancelled.
StreamBreaks ==
    /\ loop \in {"running", "waiting", "handling"}
    /\ stream = "open"
    /\ stream' = "broken"
    /\ UNCHANGED <<version, taken, covered, ctxDone, loop, pending, last, run, failed>>

-----------------------------------------------------------------------------
(* The loop of Watch.                                                      *)

\* docker.Events without Since: what happened before is not delivered.
Subscribe ==
    /\ loop = "notStarted"
    /\ loop' = "running"
    /\ taken' = version
    /\ UNCHANGED <<version, covered, stream, ctxDone, pending, last, run, failed>>

\* The same subscription, for WatchWithHandler.
SubscribeWithHandler ==
    /\ loop = "notStarted"
    /\ loop' = "waiting"
    /\ taken' = version
    /\ UNCHANGED <<version, covered, stream, ctxDone, pending, last, run, failed>>

\* Slip: only the first event starts a timer.
MayArmOnce == last = 0

\* Slip: every event starts a timer.
MayArmAlways == TRUE

\* The test of pendingReconcile.
MayArm == ~pending

\* Slip: a channel nobody writes to any more yields events for ever.
EventReadyAlways == TRUE

\* The channel holds the event of the next change.
EventReady == stream = "open" /\ taken < version

\* case event := <-eventsCh.
HandleEvent ==
    /\ loop = "running"
    /\ EventReady
    /\ taken' = taken + 1
    /\ IF MayArm
         THEN /\ pending' = TRUE
              /\ last' = last + 1
              /\ run' = [run EXCEPT ![last + 1] = "armed"]
         ELSE UNCHANGED <<pending, last, run>>
    /\ UNCHANGED <<version, covered, stream, ctxDone, loop, failed>>

\* Slip: the timer is left running.
NothingStopped == run

\* debounceTimer.Stop(): a timer that has fired is not affected.
TimerStopped == [i \in Timers |-> IF i = last /\ run[i] = "armed" THEN "stopped" ELSE run[i]]

\* Slip: the loop only looks at its two channels.
NeverSeesCancel == FALSE

SeesCancel == ctxDone

\* case <-ctx.Done(), in either loop; WatchWithHandler has no timer to stop.
LoopCancelled ==
    /\ loop \in {"running", "waiting"}
    /\ SeesCancel
    /\ loop' = "ctxErr"
    /\ run' = TimerStopped
    /\ UNCHANGED <<version, taken, covered, stream, ctxDone, pending, last, failed>>

\* case err := <-errCh: the timer is not stopped.
LoopStreamError ==
    /\ loop \in {"running", "waiting"}
    /\ stream = "broken"
    /\ loop' = "streamErr"
    /\ UNCHANGED <<version, taken, covered, stream, ctxDone, pending, last, run, failed>>

\* case event := <-eventsCh in WatchWithHandler: the loop looks at nothing
\* else until the handler returns.
CallHandler ==
    /\ loop = "waiting"
    /\ EventReady
    /\ loop' = "handling"
    /\ taken' = taken + 1
    /\ UNCHANGED <<version, covered, stream, ctxDone, pending, last, run, failed>>

HandlerReturns ==
    /\ loop = "handling"
    /\ loop' = "waiting"
    /\ UNCHANGED <<version, taken, covered, stream, ctxDone, pending, last, run, failed>>

-----------------------------------------------------------------------------
(* A timer and the goroutine it becomes.                                   *)

Moves(i, from, to) ==
    /\ run[i] = from
    /\ run' = [run EXCEPT ![i] = to]

TimerFires(i) ==
    /\ Moves(i, "armed", "listing")
    /\ UNCHANGED <<version, taken, covered, stream, ctxDone, loop, pending, last, failed>>

\* Slip: the listing comes from a cache.
CachedVersion == covered

ListedVersion == version

\* Slip: Reconcile is given a context of its own, context.Background().
ContextOfItsOwn == TRUE

\* Reconcile(ctx): the goroutine works in the context of Watch.
ContextLives == ~ctxDone

\* ListWorkloads answers with what runs now; a cancelled context is an error.
Listing(i) ==
    /\ ContextLives
    /\ Moves(i, "listing", "writing")
    /\ covered' = ListedVersion
    /\ UNCHANGED <<version, taken, stream, ctxDone, loop, pending, last, failed>>

ListingFails(i) ==
    /\ Moves(i, "listing", "returned")
    /\ failed' = failed \union {i}
    /\ UNCHANGED <<version, taken, covered, stream, ctxDone, loop, pending, last>>

ReconcileReturns(i) ==
    /\ Moves(i, "writing", "returned")
    /\ UNCHANGED <<version, taken, covered, stream, ctxDone, loop, pending, last, failed>>

\* Slip: the flag is not cleared.
KeepPending == pending' = pending

\* pendingReconcile = false, as the loop comes to see it.
DropPending == pending' = FALSE

ClearPending(i) ==
    /\ Moves(i, "returned", "done")
    /\ DropPending
    /\ UNCHANGED <<version, taken, covered, stream, ctxDone, loop, last, failed>>

-----------------------------------------------------------------------------
\* Whoever owns the context cancels it.
Cancel ==
    /\ ~ctxDone
    /\ ctxDone' = TRUE
    /\ UNCHANGED <<version, taken, covered, stream, loop, pending, last, run, failed>>

Loop ==
    \/ HandleEvent \/ CallHandler \/ HandlerReturns
    \/ LoopCancelled \/ LoopStreamError

Goroutine(i) ==
    \/ TimerFires(i) \/ Listing(i) \/ ListingFails(i)
    \/ ReconcileReturns(i) \/ ClearPending(i)

Next ==
    \/ DockerChange \/ StreamBreaks \/ Cancel
    \/ Subscribe \/ SubscribeWithHandler \/ Loop
    \/ \E i \in Timers : Goroutine(i)

Spec == Init /\ [][Next]_vars

(* The Go scheduler runs every goroutine that can run, timers fire, Docker *)
(* answers and a handler returns.  Nothing says that changes happen, that  *)
(* the context is ever cancelled or that the stream ever breaks.           *)
Fairness ==
    /\ WF_vars(Subscribe) /\ WF_vars(Loop)
    /\ \A i \in Timers : WF_vars(Goroutine(i))
FairSpec == Spec /\ Fairness

\* With a Docker daemon that answers and a stream that stays open.
CalmNext ==
    \/ DockerChange \/ Subscribe \/ HandleEvent
    \/ \E i \in Timers : TimerFires(i) \/ Listing(i) \/ ReconcileReturns(i) \/ ClearPending(i)
CalmSpec == Init /\ [][CalmNext]_vars /\ Fairness

-----------------------------------------------------------------------------
(* Properties.                                                             *)

\* Every variable keeps its type.
TypeOK ==
    /\ version \in 0 .. MaxEvents
    /\ taken \in 0 .. version
    /\ covered \in 0 .. version
    /\ stream \in {"open", "broken"}
    /\ ctxDone \in BOOLEAN
    /\ loop \in LoopStates
    /\ pending \in BOOLEAN
    /\ last \in 0 .. taken
    /\ run \in [Timers -> RunStates]
    /\ failed \subseteq Timers

\* watcher.go:97, 122-138: although pendingReconcile is shared without a lock,
\* at most one debounced reconciliation is waiting or running at any time, and
\* the flag is up exactly while there is one (or the one there was is stopped).
OneDebouncedRun ==
    /\ \A i, j \in Timers : run[i] \in Active /\ run[j] \in Active => i = j
    /\ pending <=> \E i \in Timers : run[i] \in Active \union {"stopped"}

\* watcher.go:103-116, 124-126: what Watch leaves behind.  Having returned it
\* starts no timer.  If it saw the cancelled context itself, no timer fires any
\* more; if errCh came first, which a cancelled context fills as well, the one
\* it left armed does fire.  But however the select and the timers fall, once
\* the context is cancelled no other reconciliation gets as far as writing.
ReturnIsTheEnd ==
    [][/\ loop \in {"ctxErr", "streamErr"} =>
             /\ UNCHANGED last
             /\ \A i \in Timers :
                   (run[i] = "armed" /\ run'[i] = "listing") => loop = "streamErr"
       /\ ctxDone => \A i \in Timers : run'[i] = "writing" => run[i] = "writing"]_vars

\* watcher.go:121-139: an event handled while the timer runs is covered by the
\* listing that timer leads to, unless Reconcile fails or the timer is stopped.
EventWhileArmedIsListed == \A i \in Timers, e \in 1 .. MaxEvents :
    (run[i] = "armed" /\ taken = e)
        ~> (covered >= e \/ i \in failed \/ run[i] = "stopped")

\* The loop has handled an event of a change that nobody has listed, and no
\* listing is to come.
Coming == \E i \in Timers : run[i] \in {"armed", "listing"}
Behind == taken > covered /\ ~Coming

\* watcher.go:121-138: the debouncing falls behind in three ways only: by an
\* event between the listing of a reconciliation and the clearing of the flag,
\* by a reconciliation that fails, and when it is cancelled.  (What is older
\* than the subscription, or is left to a handler, is not its business.)
OnlyTheWindowLoses ==
    [][(Behind' /\ ~Behind) =>
          \/ HandleEvent /\ \E i \in Timers : run[i] \in {"writing", "returned"}
          \/ \E i \in Timers : ListingFails(i)
          \/ LoopCancelled
          \/ loop \in {"notStarted", "waiting"}]_vars

\* watcher.go:125-138: a reconciliation that failed is not tried again by
\* itself; what it should have published is made up for by the run the next
\* event leads to, so that one failure is never the end of the debouncing.
FailureIsMadeUp == \A i \in Timers, e \in 1 .. MaxEvents :
    (i \in failed /\ last = i /\ run[i] = "done" /\ taken < e /\ version >= e)
        ~> (covered >= e \/ (\E j \in failed : j > i) \/ stream = "broken" \/ ctxDone)

\* watcher.go:82, 103-116, 255-262: a cancelled context ends either loop, and
\* with it all the work: no timer is armed and no reconciliation runs any more.
CancelQuiesces == (ctxDone /\ loop # "notStarted")
    ~> (loop \in {"ctxErr", "streamErr"} /\ \A i \in Timers : run[i] \notin Active)

\* watcher.go:198, 225, "Full reconciliation will be triggered by debounce
\* timer": every event that is handled is covered by a listing, sooner or later.
\* (The flag is up whenever the loop has just handled an event.)
EveryEventIsListed == \A e \in 1 .. MaxEvents : (pending /\ taken = e) ~> covered >= e
=============================================================================
