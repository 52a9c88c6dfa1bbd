------------------------------ MODULE Companion ------------------------------
(***************************************************************************)
(* cmd/technitium-companion: run() of main.go around the watcher.  It      *)
(* starts, reconciles once, starts Watch in a goroutine, waits for the     *)
(* first of three channels, cancels the context and ends; Docker may then  *)
(* start the container again.  The actions of Watcher are those of the     *)
(* goroutines of this process and stop when it ends.                       *)
(***************************************************************************)
EXTENDS Watcher

CONSTANTS
    Failures,      \* what may go wrong in a run
    RestartPolicy  \* restart policy of the container

(* "start"    a start ends early: a setting is missing, Docker is down     *)
(* "listing"  Docker does not answer a listing                             *)
(* "stream"   the event stream breaks                                      *)
(* "health"   the health server fails: its port is taken                   *)
(* "signal"   SIGINT or SIGTERM: somebody stops the container              *)
AnyFailure == {"start", "listing", "stream", "health", "signal"}

ASSUME CompanionAssumption ==
    /\ Failures \subseteq AnyFailure
    /\ RestartPolicy \in {"on-failure", "unless-stopped"}

VARIABLES
    onStartup,     \* RECONCILE_ON_STARTUP
    phase,         \* how far run() is
    ready,         \* what /ready looks at first
    healthFailed,  \* healthErrCh holds an error
    signalled,     \* a signal has come; the container is not started again
    exitCode,      \* of the process, once it has ended
    startupFailed, \* the startup reconciliation returned an error (history)
    born           \* the version Docker was at when the process began (history)

mainVars == <<onStartup, phase, ready, healthFailed, signalled, exitCode, startupFailed, born>>
allVars == <<vars, mainVars>>

(* "starting"  config.Load, docker.NewClient                               *)
(* "listing"   in the startup Reconcile, Docker has not answered           *)
(* "writing"   in the startup Reconcile, talking to Technitium             *)
(* "synced"    it is over, SetReady is still to come                       *)
(* "launched"  ready, the goroutine of Watch exists, signals still kill    *)
(* "serving"   at the select                                               *)
(* "stopping"  the context is cancelled, the health server shuts down      *)
(* "exited"                                                                *)
Phases == {"starting", "listing", "writing", "synced", "launched", "serving",
           "stopping", "exited"}
Alive == phase # "exited"

CompanionInit ==
    /\ Init
    /\ onStartup \in BOOLEAN
    /\ phase = "starting"
    /\ ready = FALSE
    /\ healthFailed = FALSE
    /\ signalled = FALSE
    /\ exitCode = 0
    /\ startupFailed = FALSE
    /\ born = version

-----------------------------------------------------------------------------
(* run(), from top to bottom.                                              *)

Goes(from, to) == phase = from /\ phase' = to

\* Slip: nothing is reconciled at startup.
SkipReconcile == "synced"

AfterStart == IF onStartup THEN "listing" ELSE "synced"

\* Settings, clients, the health server: nothing is missing.
Started ==
    /\ Goes("starting", AfterStart)
    /\ UNCHANGED <<vars, onStartup, ready, healthFailed, signalled, exitCode,
                   startupFailed, born>>

\* run() returns an error, main() exits with 1.
StartFails ==
    /\ "start" \in Failures
    /\ Goes("starting", "exited")
    /\ exitCode' = 1
    /\ UNCHANGED <<vars, onStartup, ready, healthFailed, signalled, startupFailed, born>>

\* rec.Reconcile(ctx) has its listing.
StartupLists ==
    /\ Goes("listing", "writing")
    /\ covered' = ListedVersion
    /\ UNCHANGED <<version, loopVars, ctxDone, pending, run, failed>>
    /\ UNCHANGED <<onStartup, ready, healthFailed, signalled, exitCode, startupFailed, born>>

\* The listing fails: logged, and the program goes on.
StartupListFails ==
    /\ "listing" \in Failures
    /\ Goes("listing", "synced")
    /\ startupFailed' = TRUE
    /\ UNCHANGED <<vars, onStartup, ready, healthFailed, signalled, exitCode, born>>

StartupReturns ==
    /\ Goes("writing", "synced")
    /\ UNCHANGED <<vars, onStartup, ready, healthFailed, signalled, exitCode,
                   startupFailed, born>>

\* Slip: ready, and on to the watcher, while the listing is awaited.
LaunchAnyTime == phase \in {"listing", "synced"}

MayLaunch == phase = "synced"

\* SetReady(true), then the goroutine that calls Watch.
Launch ==
    /\ MayLaunch
    /\ phase' = "launched"
    /\ ready' = TRUE
    /\ UNCHANGED <<vars, onStartup, healthFailed, signalled, exitCode, startupFailed, born>>

\* signal.Notify: from here a signal is a message.
NotifySignals ==
    /\ Goes("launched", "serving")
    /\ UNCHANGED <<vars, onStartup, ready, healthFailed, signalled, exitCode,
                   startupFailed, born>>

\* Slip: the select has no case for signals.
NoSignalCase == FALSE

SeesSignal == signalled

\* Slip: only a Watch that returns without an error is noticed.
SeesCleanReturn == loop = "ctxErr"

\* watcherErrCh holds the error Watch returned, or is closed.
SeesWatcher == loop \in {"ctxErr", "streamErr"}

\* The select has its first case, whichever it is; then cancel().
Shut ==
    /\ Goes("serving", "stopping")
    /\ SeesSignal \/ healthFailed \/ SeesWatcher
    /\ Cancel
    /\ UNCHANGED <<onStartup, ready, healthFailed, signalled, exitCode, startupFailed, born>>

\* healthServer.Shutdown returns within 10 s, nobody waits for the watcher;
\* return nil, whatever the select has seen.
Exit ==
    /\ Goes("stopping", "exited")
    /\ exitCode' = 0
    /\ UNCHANGED <<vars, onStartup, ready, healthFailed, signalled, startupFailed, born>>

-----------------------------------------------------------------------------
(* What happens to the process.                                            *)

\* ListenAndServe returns with an error.
HealthFails ==
    /\ "health" \in Failures
    /\ phase \notin {"starting", "stopping", "exited"}
    /\ ~healthFailed
    /\ healthFailed' = TRUE
    /\ UNCHANGED <<vars, onStartup, phase, ready, signalled, exitCode, startupFailed, born>>

\* A signal before signal.Notify ends the process there and then.
Killed ==
    /\ "signal" \in Failures
    /\ phase \notin {"serving", "stopping", "exited"}
    /\ phase' = "exited"
    /\ signalled' = TRUE
    /\ exitCode' = 143
    /\ UNCHANGED <<vars, onStartup, ready, healthFailed, startupFailed, born>>

Signal ==
    /\ "signal" \in Failures
    /\ phase = "serving"
    /\ ~signalled
    /\ signalled' = TRUE
    /\ UNCHANGED <<vars, onStartup, phase, ready, healthFailed, exitCode, startupFailed, born>>

\* Docker starts the container again, unless somebody has stopped it.
RestartsAfter(code) == ~signalled /\ (RestartPolicy = "on-failure" => code # 0)

\* A new process: nothing of the one before is left.
Restart ==
    /\ phase = "exited"
    /\ RestartsAfter(exitCode)
    /\ taken' = 0
    /\ stream' = "open"
    /\ ctxDone' = FALSE
    /\ loop' = "notStarted"
    /\ pending' = FALSE
    /\ last' = 0
    /\ run' = [i \in Timers |-> "unused"]
    /\ failed' = {}
    /\ phase' = "starting"
    /\ ready' = FALSE
    /\ healthFailed' = FALSE
    /\ exitCode' = 0
    /\ startupFailed' = FALSE
    /\ born' = version
    /\ UNCHANGED <<version, covered, onStartup, signalled>>

-----------------------------------------------------------------------------
(* The goroutines of the watcher, in this process.                         *)

\* Slip: the watcher is started before the startup reconciliation.
WatchFromTheStart == phase \notin {"starting", "exited"}

WatchMayStart == phase \in {"launched", "serving", "stopping"}

Watches ==
    /\ WatchMayStart
    /\ Subscribe
    /\ UNCHANGED mainVars

Loops ==
    /\ Alive
    /\ Loop
    /\ UNCHANGED mainVars

\* With a cancelled context a listing fails even if Docker would answer.
Reconciles(i) ==
    /\ Alive
    /\ Goroutine(i)
    /\ failed' = failed \/ ctxDone \/ "listing" \in Failures
    /\ UNCHANGED mainVars

DockerSide ==
    /\ DockerChange \/ ("stream" \in Failures /\ Alive /\ StreamBreaks)
    /\ UNCHANGED mainVars

-----------------------------------------------------------------------------
Run ==
    \/ StartFails \/ StartupLists \/ StartupListFails \/ StartupReturns
    \/ Launch \/ NotifySignals \/ Shut \/ Exit

CompanionNext ==
    \/ Started \/ Run
    \/ HealthFails \/ Killed \/ Signal \/ Restart
    \/ Watches \/ Loops \/ \E i \in Timers : Reconciles(i)
    \/ DockerSide

CompanionSpec == CompanionInit /\ [][CompanionNext]_allVars

(* The process gets on with what it can do, Docker keeps its restart       *)
(* policy, and starts do not fail for ever.  No failure is bound to happen.*)
CompanionFairness ==
    /\ SF_allVars(Started) /\ WF_allVars(Run) /\ WF_allVars(Restart)
    /\ WF_allVars(Watches) /\ WF_allVars(Loops)
    /\ \A i \in Timers : WF_allVars(Reconciles(i))
FairCompanion == CompanionSpec /\ CompanionFairness

-----------------------------------------------------------------------------
(* The program as a follower of Docker.                                    *)

\* The one reconciliation there is, by the side of its listing it is on.
LookDue == Alive /\ (phase = "listing" \/ Coming)
LookOver == Alive /\ (phase = "writing" \/ \E i \in Timers : run[i] \in {"writing", "returned"})
Work == IF LookDue THEN "due" ELSE IF LookOver THEN "after" ELSE "none"

Follows == INSTANCE Follower WITH
    world <- version, up <- Alive /\ ~ctxDone, heard <- taken, work <- Work, seen <- covered,
    missed <- startupFailed \/ failed # {}

-----------------------------------------------------------------------------
(* Properties.                                                             *)

\* Every variable keeps its type; no version is older than the process.
CompanionTypeOK ==
    /\ TypeOK
    /\ onStartup \in BOOLEAN
    /\ phase \in Phases
    /\ ready \in BOOLEAN
    /\ healthFailed \in BOOLEAN
    /\ signalled \in BOOLEAN
    /\ exitCode \in {0, 1, 143}
    /\ startupFailed \in BOOLEAN
    /\ born \in 0 .. version

\* main.go:117-156: of the startup reconciliation and those the watcher starts
\* at most one is in progress: the program never waits for its own mutex.
OneReconcile ==
    /\ OneDebouncedRun
    /\ phase \in {"listing", "writing"} => \A i \in Timers : run[i] \notin Active

\* main.go:136: a process is ready only when it has listed everything that ran
\* when it began, if it is to reconcile at startup and Docker answered.
ReadyIsSynced == (ready /\ onStartup) => covered >= born \/ startupFailed

\* main.go:117-182, watcher.go:97-139: over all its restarts the program looks
\* at Docker when it starts and after what it hears; no change it hears of
\* while it is idle, and no look that is due, is forgotten.
IsFollower == Follows!Spec

\* main.go:166-182: a signal ends the process, whatever the watcher is doing.
SignalEnds == (phase = "serving" /\ signalled) ~> phase = "exited"

\* main.go:149-182: a broken event stream is never the end of the program: it
\* stops, and is back when its container is started again.
StreamLossRecovers ==
    (phase \in {"serving", "stopping", "exited"} /\ loop = "streamErr")
        ~> (phase = "launched" \/ signalled)

\* README.md:65: what changed while the program was down is listed by the next
\* startup reconciliation, if it is made and Docker answers.
DowntimeIsCaughtUp == \A e \in 1 .. MaxEvents :
    (phase = "exited" /\ version = e)
        ~> (covered >= e \/ startupFailed \/ signalled \/ ~onStartup)

\* README.md:64-65, "Full sync on startup ensures consistency": what changed
\* before the watcher has subscribed to the events is listed all the same.
StartupIsCovered == \A e \in 1 .. MaxEvents :
    (onStartup /\ loop = "notStarted" /\ version = e) ~> covered >= e

\* main.go:184, "Give the watcher time to stop": a process that ends in order
\* has no reconciliation in the middle of its requests.
NothingInFlightAtExit ==
    (phase = "exited" /\ exitCode = 0) => \A i \in Timers : run[i] # "writing"
=============================================================================
