# technitium-companion in TLA+

technitium-companion watches Docker, reads Traefik router rules from the labels
of services or containers, and keeps an A record for every host name it finds in
a zone of a Technitium DNS server. This directory models the program as it is
written in `src/`, checks the models with TLC and proves the most important
results with TLAPS for every value of the constants.

## The system

| Component | State it keeps | Operations | Talks to |
|---|---|---|---|
| `cmd/technitium-companion/main.go` | context, three channels, exit code | start, startup reconciliation, `SetReady`, start the watcher, wait, cancel, shut down | all others |
| `internal/watcher` | event stream, debounce timer, `pendingReconcile` | `Watch`, the function given to `time.AfterFunc`, `WatchWithHandler`, `buildEventFilters`, `handleEvent` (logs only) | Docker (events), reconciler (calls) |
| `internal/reconciler` | the mutex; a `ReconcileResult` for each call | `Reconcile`, `ReconcileHostnames`, `DeleteHostnames` | docker client, parser, technitium client |
| `internal/technitium` | none (the zone is the server's) | `GetRecords`, `HasARecord`, `AddARecord`, `DeleteARecord`, `EnsureARecord` | Technitium over HTTP, 30 s deadline |
| `internal/docker` | the mode | `NewClient`, `ListWorkloads`, label getters, `Ping` | Docker, no deadline |
| `internal/traefik` | none | `ExtractHosts`, `ExtractHostsFromRule` | |
| `internal/config` | the settings, read once | `Load`, `getEnvOrFile`, `parseBool`, `MatchesFilters`, `Validate` (never called) | environment, files |
| `internal/health` | `ready`, the checkers | `Start`, `SetReady`, `Shutdown`, the handlers | docker and technitium clients |
| `internal/metrics` | Prometheus counters | recording | |

How they interact: `main` calls `Reconcile` once, then runs `Watch` in a
goroutine. Every event that finds `pendingReconcile` down raises it and starts a
timer; when it fires, its goroutine calls `Reconcile` and lowers the flag. The
flag is shared by the loop and the goroutines without a lock. Calls of the
reconciler exclude each other by one mutex, held over all requests of a call.
`DeleteHostnames` and `ReconcileHostnames` are exported and tested, but nothing in
the program calls them: no record is ever deleted by the program itself
(`watcher.go:204-206, 231-232`; the repository's `README.md:120` says otherwise).

What is hard here:

- the loop, its timers and main run concurrently: an event may come before, during
  or after the listing of a run that is under way, and the context may be cancelled
  at any point of it;
- a record is checked and then written in two requests, in a zone others edit, over
  a connection that loses answers: a request that failed for the client may have
  been carried out, or may be carried out later;
- one failing name ends its workload, one failing listing ends its run, and nothing
  is tried again before the next event;
- the process may end anywhere, and starts again, or not, depending on its exit
  code and the restart policy; nothing is persisted, Docker and the zone are the
  only memory;
- startup: listing, readiness, subscription and signal handling come one after the
  other while Docker goes on changing;
- what is listed and what is listened to are decided in two packages, by a mode that
  is found out once, on a node whose part in the swarm may change;
- every probe of the health server is a goroutine that calls its checkers one after
  the other under one deadline, while the server may be shut down.

What makes each part correct: the *reconciler* reports what it did (a run without
errors has published everything it was asked to, the counters agree, a created
record is there), touches nothing but managed records, and releases its mutex; the
*watcher* runs one reconciliation at a time, misses no event and stops when told to;
*main* never runs two reconciliations, is ready when it says so, ends on a signal and
comes back after a failure; *config* names all
settings it refuses, each for itself; the *docker client* lists what runs in a mode that
is right; the *parser*
returns the same names in whatever order it meets the labels; the *health server*
answers every probe, and says of a component only what it has heard of it.
`PROJECT.json` lists the hazards, each at its line, with the properties that cover it.

## Modules

| Module | Models | EXTENDS |
|---|---|---|
| `Technitium` | the zone, and `client.go` as seen by one caller | |
| `Reconciler` | `reconciler.go`: all three methods, several callers | `Technitium` |
| `ManagedZone` | abstract: what the reconciler promises about the zone | |
| `Watcher` | `watcher.go`: `Watch` and `WatchWithHandler` | |
| `Companion` | `main.go` around the watcher, and the container's restarts | `Watcher` |
| `Follower` | abstract: what the program promises of Docker's changes | |
| `Settings` | `config.go`: operators on environments | |
| `Labels` | `parser.go`: operators on label maps | |
| `Docker` | the docker client, the event filters and the daemon, from the settings to the names | `Settings`, `Labels` |
| `Health` | `server.go` with the checkers of main | |
| `MCInputs` | what `Reconciler` is given, and that `Settings` and `Labels` yield it | `Reconciler` |
| `MCReconciler`, `MCWatcher`, `MCCompanion`, `MCDocker`, `MCHealth` | values of the constants for TLC | |
| `ReconcilerProofs`, `ReconcilerRefinement`, `WatcherProofs`, `CompanionProofs`, `CompanionRefinement`, `LabelsProofs`, `DockerProofs`, `HealthProofs` | theorems and proofs | the module, `TLAPS` |

How they fit together: `Docker` shows what a listing and a label map yield and which
change has an event; `Watcher` makes a listing of it, a version number, and
`Reconciler` a set of names; `Companion` puts the watcher into the process that
`Docker` starts and `Health` answers for. The seam between `Settings`, `Labels`
and `Reconciler` is checked: `MCInputs` assumes (and TLC evaluates) that the names, filters
and lists of the runs are those `Settings` and `Labels` compute from an environment
and from label maps.

Definitions marked `Slip:` in their comment are plausible mistakes (a dropped guard,
a missing reset); each property is checked to fail when one of them replaces the
definition below it. They take no part in the specifications.

### Technitium

`dns` is the set of records of the zone, `late` the write requests whose client has
given up. A write has one of five fates (`Outcomes` chooses which a run lets
happen): `ok`, `error`, `lost` (applied, the answer never came), `late` (the client's
deadline passes first, the request is applied later or never) and `other` (answered
with a status that is neither `ok` nor `error`, which `doRequest` takes for a
success). `Succeeds` is what the client makes of it. A read may fail
(`CheckFails` of `Reconciler`); it changes nothing. Adding a record that is there
and deleting one that is not leave the zone as it is. TTLs are not in the model.

### Reconciler

One step is one request, or the code between two requests. `mu` is the mutex,
`pc` where a caller is, `todo` the workloads of its listing it has not come to
(a set: Docker promises no order), `hosts` the rest of the host list it walks
through, `result` the counters of `ReconcileResult` and `deleted` of
`DeleteHostnames`.

| Code | Actions |
|---|---|
| `mu.Lock()`, empty result | `Acquire` |
| `ListWorkloads` and its error | `List`, `ListFails` |
| `processWorkload`, `ExtractHosts` | `ProcessWorkload` |
| `ensureRecord` and the loop of `DeleteHostnames`: filters, dry run | `Refuse`, `Pretend` |
| `EnsureARecord`, `HasARecord` | `CheckBeforeAdd`, `CheckBeforeDelete`, `CheckFails` |
| `AddARecord`, `DeleteARecord` | the actions of these names |
| return, deferred `Unlock` | `Return` (all paths share `Leave`) |
| a new process | `ProcessRestarts`: callers forget everything, requests under way may still arrive |

`dryRun` is what the process found in `DRY_RUN`; every run has both.

`ExtractHosts` iterates over a Go map: `HostLists` gives for a label map every order
the list may have. Its members are the same in every order (an assumption on the
constant; run `Docker` shows it of `Labels`). `asked`, `touched` and `belated`
are history variables: the names a run was asked to publish, the records somebody else
edited while it held the mutex, and the requests this program had given up on (the
deadline passed, or the process ended) that the server carried out in that time. The
last two are kept apart because the last is the program's own doing: a late deletion may
take away what a later call has just published, a late addition may forestall it.

### ManagedZone

The reconciler as seen from the zone: one job at a time, publishing or removing, with
a set of names still open. A publishing job settles a name (the record is there
afterwards) or gives names up and is then a failed job that says so; only a failed job
may end with names open. A removing job keeps to its names and promises no more.
Requests given up on are owed and may be carried out later; others edit their records;
a crash ends a job anywhere. `Reconciler` implements it: `dns` is the zone, `late`
what is owed, and the holder of the mutex, once it has its listing, is the job, with
the accepted names in `hosts` and `todo` open and its error count telling whether it
has failed (`Job`, `OpenNames`, `JobFailed`). Callers, lock, listings, counters,
filters, methods and the two requests of a write are gone.

### Watcher

What Docker runs is a version number, raised by every change; a listing is the
version it saw and `covered` the newest one listed. `taken` is the last event the
loop has handled. `run[i]` is the i-th timer and the goroutine it becomes:
armed, listing, writing, returned (the flag still to be lowered), done, or stopped.
The delay between `returned` and `done` also stands for the data race on
`pendingReconcile`: the loop may see the old value for as long as it likes, never
one that was not written. The reconciliation itself is two steps here, the listing
and the rest; what it does is the business of `Reconciler`. One goroutine at a time
is all there is (`OneReconcile`), so the mutex is not needed in this model.
`failed` remembers the goroutines whose run failed. `WatchWithHandler` is the other
loop (`waiting`, `handling`): no timer, and blind to everything while its handler runs.

### Companion

`phase` is the line of `run()`: starting, the startup reconciliation (listing,
writing), synced, launched (ready, the watcher's goroutine exists, signals still
kill), serving (at the select), stopping, exited. `Failures` says what may go
wrong in a run and `RestartPolicy` what Docker does about it; a container that was
stopped by a signal is not started again. `Restart` begins a new process: its
variables are fresh, `version` and `covered` are Docker's and history's. The
actions of `Watcher` are taken over with the conditions the process puts on them
(`Watches`, `Loops`, `Reconciles`).

### Follower

The program as seen from Docker, without process, loop, timers or flag: `heard` is the
last change it has heard of, `work` whether a look at Docker is due, over (`after`: what
it saw is being published) or neither, `up` whether it runs and has not been told to end,
`missed` whether a look has failed. A change heard of in idleness makes a look due, one
heard of while a look is due will be covered by it, one heard of later may go by; a look
that is due is taken, is missed and known to be, or is given up because the program is to
end. `Companion` implements it: `Work` reads it off the line of `run()` and the last
timer. That a change may go by is what run `WatcherLostEvent` is about;
`OnlyTheWindowLoses` says of `Watcher` that this is the only way, failures and the end
apart.

### Settings and Labels

`Settings` gives every variable the values the code can tell apart (its header lists
them): set, unset or in a file, readable or not; a number, garbage; a pattern as the
set of names it matches; a word, and whether it is spelt in capitals or padded, which
`strings.ToLower` and `parseBool` treat differently. `Complaints` is the set of
variables `Load` complains about, `Config` what it returns when there are none.

In `Labels` a key is the sequence of its parts between the dots and a rule the
sequence of its matchers. `ExtractHosts` is the set of lists the function may return,
one for each order of the labels. `DOCKER_HOST` is in neither: an address nobody
answers at is `NewClientFails`.

### Docker

`proc` is how far `run()` has come: loading, loaded, connected, watching, or refused.
`node` is the daemon's part in a swarm, `containers` the state of each container,
`labels` what containers and services carry. `ListWorkloads` answers with what is
there in the client's `mode`, or fails: with `noManager` if a node that is no manager is
asked for services, with `failed` for any reason in any mode (a socket proxy that denies
the call, `README.md:380-383`, is one). `Sends` says whether a change has an event
among those `buildEventFilters` asks for. `due`, `untold` and `moved` are history: an
event since the newest listing that succeeded, the workloads no event could tell of, and whether the
node has changed since its mode was found out. `ListWorkloads` may happen at any time
after the client is made: who calls it is the business of `Companion`.

### Health

A request copies the checkers and the ready flag (`Copy`), calls the checkers in any
order (`CallChecker`, `CheckerSucceeds`, `CheckerFails`) and answers (`Respond`); the
handlers of `/health` and `/ready` differ in `Copy` and `StatusCode`. A component is up,
down (it answers with an error) or hung. Time is a counter: `Tick` happens when all
that could run has run and a request waits for a hung component; `age` is the time
since the context of a request was made, `closing` since `Shutdown` was called. A
component may come back at the moment the deadline passes: either answer is allowed.
`trouble` remembers which components were not up while the request ran.

`notified` is `signal.Notify` (`main.go:164`), which comes after the start of the
server, the startup reconciliation and `SetReady`. Before it a signal ends the process at
once (`Killed`) and cuts off what is in flight; after it a signal can only end the select,
and `Shutdown` and `ShutdownReturns` follow.

## Runs

| Run | Instance | Shows |
|---|---|---|
| `Reconciler` | 2 callers, 2 workloads, 3 names (one refused), 2 label maps (two names in either order; one refused name first), outcomes ok, error, lost, late, one record others edit, dry run or not | the invariants and action properties of `Reconciler`, a measure every step lessens, and that it implements `ManagedZone` |
| `ReconcilerLive` | 2 callers, 1 workload, no late requests, no edits, no symmetry | every call returns |
| `ReconcilerPhantom` | adds the outcome `other` | finding: a record is counted that was never made |
| `Watcher` | 4 changes | safety, where events can be lost, what `Watch` leaves behind, and liveness under fairness |
| `WatcherLostEvent` | 2 changes, nothing fails | finding: an event nobody lists |
| `Companion` | 3 changes, all failures, unless-stopped, any number of restarts | safety and liveness of the program, and that it implements `Follower` |
| `CompanionStartupGap` | 1 change, nothing fails | finding: a change at startup nobody lists |
| `CompanionOnFailure` | 1 change, the stream breaks, on-failure | finding: the program does not come back |
| `CompanionInFlight` | 1 change, a signal | finding: the process ends amid its requests |
| `Docker` | 1 container, 1 service, 2 label maps (three routers with names in common; labels that are almost rules), environments with one variable set otherwise or two set wrongly | settings, mode, listings and events fit together |
| `DockerMode` | the same | finding: the mode that is set is not used |
| `Health` | 1 request to each path, 2 components, deadlines of 2 and 4 ticks | what an answer says is true, it comes, and within a bound |

Why the bounds are enough. Two callers make every conflict over a lock; two
workloads let one fail while the other succeeds; two accepted names in a list let
an error cut the list before, between and after them; one refused name does for the
filters; the zone starts with a record of the right name and the wrong address, and
others add and remove the right one. Callers are interchangeable (symmetry, in safety
runs only). Counters are bounded by the lists. A debounced run needs one event to
start it, one while its timer runs, one while it lists or writes, and one after it:
four changes. Losing an event takes two. In `Companion` three changes leave one
for the time before the watcher, one for the timer and one for the time the program
is down. In `Docker` a container and a service are followed through all their states,
and no property relates two of a kind; a variable that is set wrongly hides another
only if two are, so two at a time are wrong, with every kind of wrong value. In `Health`
a tick is 2.5 s: the checks have 5 s and the shutdown 10 s. With two components one
can use up the deadline of the other, and the two requests do not share anything but
the components, so one of each path is enough. Deadlock is checked for `Reconciler`
and `Docker`, whose surroundings never stop; in the others a program that has been
stopped, or a Docker that has made all its changes, is a legitimate end.

### Fairness

- `Reconciler`: weak fairness of a caller's steps: every request to Technitium ends
  within the client's 30 s; of Docker's listing, which has no deadline
  (`reconciler.go:95`), it is assumed. Strong fairness of taking the mutex: Go hands
  a mutex to a waiter that has starved for 1 ms. Nothing forces a call.
- `Watcher`: the scheduler runs what can run, timers fire, Docker answers or
  fails, a handler returns (its caller's affair; `WatchWithHandler` says nothing of it).
  The environment is under no obligation: no change, no cancellation, no broken
  stream has to happen.
- `Companion`: the same, and Docker applies its restart policy; starting is strongly
  fair, for a start may fail any number of times but not for ever
  (the `max_attempts: 3` of the recommended stack is not modelled).
- `Health`: strong fairness of a handler's steps (a goroutine that can run again and
  again runs at last; a component that keeps coming back answers in the end) and of
  `Tick` (time does not stop for a component that keeps changing). No component has to
  come back: the deadline is what ends the wait.
- `Docker` has no liveness property and no fairness.

### Findings

1. *Lost event* (`watcher.go:122`). `pendingReconcile` stays up until the run it
   stands for has returned; an event handled after that run's listing starts no
   timer. Counterexample: change 1, its event, timer, listing; change 2, its
   event; the run returns, and nothing is left to happen.
2. *Phantom record* (`technitium/client.go:144`). Needs an answer of an unknown
   status to the write after an ordinary answer to the check: a token revoked in
   between.
3. *Startup gap* (`main.go:118-153`). A change after the startup listing and
   before the subscription. It stays unlisted until the next event.
4. *Exit code* (`main.go:193`). After a broken stream the process exits with 0.
   With `unless-stopped` (`docker-compose.yml:19`) it comes back, and run `Companion`
   shows that it does; with `on-failure` (`README.md:207`) it does not.
5. *In flight at exit* (`main.go:184`). Nobody waits for the watcher. What that
   can do to the zone is part of `Reconciler` (`ProcessRestarts`): the managed
   records only, never more.
6. *Mode* (`main.go:68`). `DOCKER_MODE` is read and validated, and then nobody passes
   it to the client. `README.md:377` advises setting it when the detection goes wrong,
   where it has no effect.

Seen while modelling and not the subject of a run:
- `AdditionsAreTold` has exceptions. A paused container that goes on again is running
  without an event of those asked for, and a node that is promoted sees the services
  that were there: both wait for the next event. (The third exception is finding 3.)
- What `Load` lets pass is not always of use. `TARGET_IP` may be an IPv6 address
  (`config_test.go:400`), although it is "for all A records" (`README.md:133`);
  `TECHNITIUM_URL` is not looked at; `Validate`, which would trim the slash at its end
  (`config.go:243`), is called by a test only. `NoErrorHidesAnother` says nothing of it:
  it is about the errors there are.
- A cancelled context ends `Watch` by one of two cases, for the Docker client puts
  `ctx.Err()` into `errCh`. If the select takes that one (`watcher.go:110`) the timer is not
  stopped, and fires. Its goroutine then finds the context cancelled: `ReturnIsTheEnd` says
  that it does not get as far as writing.
- A request the program gave up on may be carried out after the next call has checked the
  record: a late deletion may undo a later addition. Nothing in the code prevents it.
- Probes give up after 5 s (`Dockerfile:88`, `README.md:186`), and `/health` answers after
  up to 5 s when a component hangs (`server.go:167`): the probe may be the first.
- Only four variables have a `_FILE` form; `README.md:124` says "Variables support the
  `_FILE` suffix". A file that cannot be read is the same as no variable at all.
- `DRY_RUN=ture` is taken for the default, so the program writes.
- A component that hangs makes the others unhealthy too in the answers that come to
  them later; `UnhealthyHasACause` says exactly when.
- `/health` can never answer 503 (`server.go:191`): nothing sets that status.
- `README.md:120` says the record goes when the container stops; it stays.
- A failed listing is not counted (`reconciler.go:96`, `metrics.go:75-80`).

## Proofs

Everything is proved for all values of the constants under the named assumptions
`TechnitiumAssumption`, `ReconcilerAssumption`, `WatcherAssumption`,
`CompanionAssumption`, `SettingsAssumption`, `DockerAssumption` and
`HealthAssumption`, which TLC evaluates in the runs.

`ReconcilerProofs`: for any number of callers, workloads, names and lists.
- `TypeCorrect`, `MutualExclusion` from `CoreInv`: types, the mutex, and
  `WritesAllowed`: a caller about to write has a name the filters accept, and no dry
  run. Types are not inductive without the last: it is what says that
  `Head(hosts[c])` exists.
- `ChecksHold`: of the calls only the holder of the mutex moves the zone, so the answer
  of a check goes stale by someone's edit (`touched`) or by the opposite write of an
  earlier call, given up on and carried out late (`belated`), and in no other way.
- `Publishing` (`CleanRunPublishes`), assuming that no answer has an unknown
  status. The strengthening (`Covered`): at every point of a run without errors,
  each name asked for is in the zone, in `touched`, taken away by a late deletion in
  `belated`, or still ahead in `hosts` or `todo`. An error may drop names from what is ahead, but then the run has one.
- `ManagedOnly` (`OnlyManagedRecords`) needs that late requests are managed too
  (`LateInv`), through restarts.
- `CountersAlwaysAgree` from `CountInv`: counters are zero outside a call, the sum
  holds at every step of a name, and no more names have passed than were found.
- `ErrorsBounded` (`OneErrorPerWorkload`) from `ErrorInv`: `todo` is finite and loses
  one member with each workload, so the errors so far, the workload under way and those
  to come are never more than what was scanned (a cardinality argument from
  `FiniteSetTheorems`).
- `RemovalsAreDeletions` (`OnlyDeletionsRemove`) from `CoreInv`, action by action.
- `CreatedIsThere` (`CreatedMeansCreated`), under the same assumption as `Publishing`:
  only an answer that says ok raises the counter, and then the record is applied
  (`AnswerIsTrue`). Run `ReconcilerPhantom` shows that the assumption is needed.
- `DeletedIsGone` (`DeletedMeansDeleted`), under that assumption too: the number
  `DeleteHostnames` returns grows by a deletion the server answered with ok, which leaves
  the record gone, and whose check, by `ChecksHold`, found it there.
- `StepsCount` (`EveryStepCounts`): a step of a call leaves its caller with fewer
  workloads, or the same and fewer names, or those and a shorter way to go. `CallsAreFinite`
  says what that is good for: these measures (`Works`) are well-founded in their
  lexicographic order, so no call takes infinitely many steps. It is the part of
  `EveryCallReturns` that does not need fairness.

`ReconcilerRefinement`: `Refinement`, that `Spec` implements `ManagedZone` if no answer
has an unknown status (a phantom record would be a name settled and not there). Every
action is an abstract one or a stutter: `Begin` is the listing, or for the other two
methods the taking of the mutex; `Settle` a check that finds its record or a write that
succeeds; `GiveUp` one that fails, with the rest of the workload's names; `Remove` a step
of a deletion; `End` the end of a call; `Crash` a restart. The invariant `RefInv` joins
those above with `Fresh`: a call that waits for its listing has no names and no errors,
so it is no job yet. `WritesAllowed` is why a name about to be written is an open one.

`WatcherProofs`: for every `MaxEvents`. `WatcherInv` says that timers are used one
after the other (`Sequential`): those before the last are done, those after it
unused, the flag is up iff the last is not done. From it `Debounced`
(`OneDebouncedRun`); with `Quiescent` also `NothingAfterTheEnd` (`ReturnIsTheEnd`). At most one debounced run is
not inductive by itself: nothing in it keeps an older timer from moving.

`LossesAreKnown` (`OnlyTheWindowLoses`) goes through the steps that could leave an event
unlisted with no listing to come: an event that starts no timer does so only in the
window (`EventLoses`), a goroutine only by failing (`GoroutineLoses`); `Quiescent` is what
rules out a flag left up by a stopped timer.

`CompanionProofs`: `CompanionInv` adds to `WatcherInv` that no timer exists before the
watcher is started, and how far the startup reconciliation has come. Each action of
`Companion` is a step of `Watcher` that leaves main alone, or a step of main that
leaves the watcher alone, or one of the three that touch both (`StartupLists`,
`Shut`, `Restart`). From it `NeverTwoReconciles`, `ReadyTellsSynced` and `CompanionLossesAreKnown`, which
takes the theorem of the watcher over all restarts.

`CompanionRefinement`: `FollowsDocker`, that `CompanionSpec` implements `Follower`. Three
facts join `CompanionInv`: nothing is heard before the subscription, main never runs
`WatchWithHandler`, and nothing cancels the context but the end of `run()`. From them
`Reading` says what `Work` is, by the line of `run()` and by the state of the last timer,
and each action is matched with one of `Follower` or a stutter. The step that needs the
invariant most is `HandleEventMaps`: an event that finds the program idle finds the flag
down, because a flag that is up belongs to a timer that is active or was stopped, and
only a loop that has returned stops one.

`LabelsProofs`: for label maps of any size. `HostsOfAMap`: for every order of the labels
`ExtractHosts` returns each host its router rules name, once; `HostsOfARule` the same of
one rule. The library's induction theorems cannot be used (see below), so the
module makes its own: the natural numbers are well-founded, hence a set with zero and
with the successors of its members holds them all (`NatInductive`); a fold over a
sequence is the last value of the one function that satisfies its recursion (`Folds`,
`FoldExists`), and so the set of lengths up to which the names are right holds every
length. `HostListsAsAssumed` closes the seam to the reconciler: what
`ReconcilerAssumption` asks of its host lists is true of those the parser makes of any
label maps, if the names it is about include them. `DockerProofs` takes
`OrderDoesNotMatter` (`ExtractionIsASet`) from it, through what `DockerAssumption` says of
label maps (`IsLabelMap`: finitely many labels, each rule a sequence of matchers).

`DockerProofs`: for any environments, containers, services and label maps. `TypeCorrect`;
`OneRoundOfCorrections` (`NoErrorHidesAnother`), where a corrected environment has exactly the complaints of the
variables left alone, because each complaint looks at one variable (`Errors` of the two
environments are compared variable by variable); `NothingComesUnseen`, whose
proof also needs that containers there have labels (`Labelled`), for what is there is
compared with its labels; `ModeIsRight` (`ModeIsCurrent`), from `ModeFits`: as long as the
node has not moved, the mode is swarm on a manager and only there, and what was listed is
of the kind of the mode.

`HealthProofs`: for any number of requests and components and any deadlines with
`CheckTimeout < ShutdownTimeout`. `ReadyIsTrue`: the checkers of a request are todo,
being called, good or bad, and together all there are (`Running`). `BlameIsJust`: a request ages
only while a component it waits for is hung, so an expired one has met trouble.
`Graceful`: a request in flight is at least as old as the shutdown, so when the
shutdown has run out every check has too, and time no longer passes for it; only a
process that was killed before `signal.Notify` has lost requests.
`AnswersAreBounded` (`AnswersDrawNear`): `Remaining` counts the steps and ticks a request
has before it, at most `2 * Cardinality(Components) + 2` of the one and `CheckTimeout` of
the other; its own steps and every tick lessen it and nothing adds to it, however the
components change. It is the part of `EveryRequestIsAnswered` that does not need
fairness, and what the one deadline for all checkers is good for.

Only model-checked: the eight liveness properties (`EveryCallReturns`,
`EventWhileArmedIsListed`, `FailureIsMadeUp`, `CancelQuiesces`, `SignalEnds`,
`StreamLossRecovers`, `DowntimeIsCaughtUp`, `EveryRequestIsAnswered`), since fairness is
beyond these proofs; and that `MCInputs` gives the runs of `Reconciler` the names,
filters and lists `Settings` and `Labels` compute, which TLC evaluates. No library theorem
that takes an operator can be used with the provers at hand; `LabelsProofs` shows
how to do without. Every invariant, action property and refinement the passing runs check
is a theorem.

## Not modelled

- Metrics (`internal/metrics`): counters no code reads back. `handleEvent` and the two
  functions below it only log and count.
- Wording of log lines and error messages; `parseLogLevel`.
- TTL values and the flag `disabled` of a record: nothing in the code looks at them.
- How Docker's client and server speak to each other; HTTP of the health server (a
  client that hangs up, `/metrics`, the JSON of an answer, the server's own read and
  write deadlines).
- The characters of a rule, of a name or of a pattern: what the regular expressions
  match is abstracted to matchers and sets of names.
- Functions without a caller that change nothing: `Validate`, `GetServiceLabels`,
  `GetContainerLabels`, `WithMode`.

## Plan

Done: `Technitium`, `Reconciler`, `Watcher`, `Companion`, the findings as runs of
their own, `ManagedZone` and `Follower` and their refinements, `Settings`, `Labels`,
`Docker`, `Health`, and the proofs of all of them. Left:

1. what of the other liveness properties does not need fairness, as for
   `EveryCallReturns` and `EveryRequestIsAnswered`: a measure for the watcher between two
   changes, and for the process between a cause to end and its end;
2. records with a `disabled` flag, once the code looks at it;
3. orphan cleanup, if the program comes to call `DeleteHostnames`: the actions are
   there, with any caller.
