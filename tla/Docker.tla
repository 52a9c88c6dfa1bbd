------------------------------- MODULE Docker -------------------------------
(***************************************************************************)
(* From the environment to the names: run() loads the settings, makes the  *)
(* client of internal/docker, which finds out its mode, and asks for       *)
(* workloads and for events in that mode, while the daemon's containers,   *)
(* the services of the swarm and the daemon's part in that swarm change.   *)
(***************************************************************************)
EXTENDS Settings, Labels

CONSTANTS
    Environments,     \* environments a process may be started in
    GoodEnvironment,  \* one without errors
    Containers,       \* containers of the daemon
    Services,         \* services of the swarm
    LabelMaps,        \* label maps they may carry
    Absent,           \* no such container or service
    NoConfig          \* Load has not returned a Config

ASSUME DockerAssumption ==
    /\ GoodEnvironment \in Environments
    /\ \A e \in Environments :
          /\ DOMAIN e = Variables
          /\ \A v \in Numbers : e[v] \in Int \union {Unset, Garbage}
    /\ Errors(GoodEnvironment) = {}
    /\ \A map \in LabelMaps : IsLabelMap(map)
    /\ Absent \notin LabelMaps
    /\ Containers \intersect Services = {}

VARIABLES
    env,         \* the environment of the process
    errs,        \* the variables Load has complained about
    cfg,         \* the Config
    proc,        \* how far run() has come
    mode,        \* the mode of the client
    node,        \* the daemon's part in a swarm
    containers,  \* container -> its state
    labels,      \* container or service -> its labels, or Absent
    listed,      \* what the newest ListWorkloads that succeeded returned
    answer,      \* "none", or how the newest call of ListWorkloads ended
    due,         \* an event has come since that success (history)
    untold,      \* workloads no event could tell of (history)
    moved        \* the node has changed since detectMode (history)

processVars == <<env, errs, cfg, proc, mode>>
historyVars == <<listed, answer, due, untold, moved>>
vars == <<processVars, node, containers, labels, historyVars>>

(* "pending" stands for every LocalNodeState but active.                   *)
Nodes  == {"pending", "worker", "manager"}
States == {"none", "created", "running", "paused", "exited"}
Procs  == {"loading", "loaded", "connected", "watching", "refused"}
Kinds  == {"container", "service"}

Init ==
    /\ env \in Environments
    /\ errs = {}
    /\ cfg = NoConfig
    /\ proc = "loading"
    /\ mode = "none"
    /\ node \in Nodes
    /\ containers = [c \in Containers |-> "none"]
    /\ labels = [w \in Containers \union Services |-> Absent]
    /\ listed = {}
    /\ answer = "none"
    /\ due = FALSE
    /\ untold = {}
    /\ moved = FALSE

-----------------------------------------------------------------------------
(* run(), up to the watcher.                                               *)

Load ==
    /\ proc = "loading"
    /\ errs' = Errors(env)
    /\ IF errs' = {}
         THEN cfg' = Config(env) /\ proc' = "loaded"
         ELSE cfg' = NoConfig /\ proc' = "refused"
    /\ UNCHANGED <<env, mode, node, containers, labels, historyVars>>

Active == {"worker", "manager"}

\* Slip: ControlAvailable is not looked at.
ServesAnyway == TRUE

CanServe == node # "worker"

\* Slip: the configured mode, as it is.
ModeAsConfigured == cfg.DockerMode

\* main() gives no WithMode option: the mode is always detected.
DetectedMode == IF node \in Active THEN "swarm" ELSE "standalone"

NewClient ==
    /\ proc = "loaded"
    /\ CanServe
    /\ proc' = "connected"
    /\ mode' = DetectedMode
    /\ UNCHANGED <<env, errs, cfg, node, containers, labels, historyVars>>

\* DOCKER_HOST is no address, the daemon does not answer, or a worker does.
NewClientFails ==
    /\ proc = "loaded"
    /\ proc' = "refused"
    /\ UNCHANGED <<env, errs, cfg, mode, node, containers, labels, historyVars>>

-----------------------------------------------------------------------------
(* The client.                                                             *)

Workload(w, kind) == [id |-> w, labels |-> labels[w], kind |-> kind]

\* ServiceList; the swarm answers managers.
ServicesThere == {Workload(s, "service") : s \in {x \in Services : labels[x] # Absent}}

\* ContainerList with status=running.
ListedStatus == {"running"}

ContainersThere ==
    {Workload(c, "container") : c \in {x \in Containers : containers[x] \in ListedStatus}}

\* What there is to list in the client's mode; the guards of ListServices and
\* ListContainers ask for the mode ListWorkloads has just asked for.
There == IF mode = "swarm" THEN ServicesThere ELSE ContainersThere
Answers == mode = "swarm" => node = "manager"

ListingSucceeds ==
    /\ Answers
    /\ answer' = "ok"
    /\ listed' = There
    /\ due' = FALSE
    /\ untold' = {}

\* "failed": the daemon or a proxy before it refuses or breaks off, whatever
\* the mode; "noManager": a node that is no manager is asked for services.
ListingFails ==
    /\ answer' \in IF Answers THEN {"failed"} ELSE {"failed", "noManager"}
    /\ UNCHANGED <<listed, due, untold>>

ListWorkloads ==
    /\ proc \in {"connected", "watching"}
    /\ ListingSucceeds \/ ListingFails
    /\ UNCHANGED <<processVars, node, containers, labels, moved>>

-----------------------------------------------------------------------------
(* The events.                                                             *)

\* Slip: a container is announced when it is made.
OnCreation == IF mode = "swarm" THEN {"create", "update", "remove"} ELSE {"create", "die", "destroy"}

\* buildEventFilters: the kind and the actions asked for.
WatchedKind    == IF mode = "swarm" THEN "service" ELSE "container"
WatchedActions == IF mode = "swarm" THEN {"create", "update", "remove"}
                                    ELSE {"start", "die", "destroy"}

\* What is there when the stream begins, nobody tells of.
Subscribe ==
    /\ proc = "connected"
    /\ proc' = "watching"
    /\ untold' = There
    /\ UNCHANGED <<env, errs, cfg, mode, node, containers, labels, listed, answer, due, moved>>

\* The daemon sends an event; only managers hear of services.
Sends(kind, action) ==
    due' = \/ due
           \/ /\ proc = "watching"
              /\ kind = WatchedKind /\ action \in WatchedActions
              /\ kind = "service" => node = "manager"

\* A container goes from one state to another.
ContainerMoves(c, from, to, action) ==
    /\ containers[c] \in from
    /\ containers' = [containers EXCEPT ![c] = to]
    /\ Sends("container", action)
    /\ UNCHANGED <<processVars, node, listed, answer, moved>>

Create(c) ==
    /\ ContainerMoves(c, {"none"}, "created", "create")
    /\ \E l \in LabelMaps : labels' = [labels EXCEPT ![c] = l]
    /\ UNCHANGED untold

Start(c) ==
    /\ ContainerMoves(c, {"created", "exited"}, "running", "start")
    /\ UNCHANGED <<labels, untold>>

Die(c) ==
    /\ ContainerMoves(c, {"running", "paused"}, "exited", "die")
    /\ UNCHANGED <<labels, untold>>

Pause(c) ==
    /\ ContainerMoves(c, {"running"}, "paused", "pause")
    /\ UNCHANGED <<labels, untold>>

\* Running again, and no event of those asked for.
Unpause(c) ==
    /\ ContainerMoves(c, {"paused"}, "running", "unpause")
    /\ untold' = untold \union {Workload(c, "container")}
    /\ UNCHANGED labels

Destroy(c) ==
    /\ ContainerMoves(c, {"created", "exited"}, "none", "destroy")
    /\ labels' = [labels EXCEPT ![c] = Absent]
    /\ UNCHANGED untold

\* A service is created, updated or removed; this node may be no manager.
ServiceChanges(s) ==
    /\ \E l \in (LabelMaps \union {Absent}) \ {labels[s]} :
          /\ labels' = [labels EXCEPT ![s] = l]
          /\ Sends("service", IF labels[s] = Absent THEN "create"
                              ELSE IF l = Absent THEN "remove" ELSE "update")
    /\ UNCHANGED <<processVars, node, containers, listed, answer, untold, moved>>

\* The daemon joins or leaves a swarm, is promoted or demoted.
NodeChanges ==
    /\ node' \in Nodes \ {node}
    /\ moved' = (moved \/ mode # "none")
    /\ untold' = IF mode = "swarm" /\ node' = "manager" THEN untold \union ServicesThere ELSE untold
    /\ UNCHANGED <<processVars, containers, labels, listed, answer, due>>

-----------------------------------------------------------------------------
Process == Load \/ NewClient \/ NewClientFails \/ ListWorkloads \/ Subscribe

Container(c) == Create(c) \/ Start(c) \/ Die(c) \/ Pause(c) \/ Unpause(c) \/ Destroy(c)

Next ==
    \/ Process
    \/ \E c \in Containers : Container(c)
    \/ \E s \in Services : ServiceChanges(s)
    \/ NodeChanges

Spec == Init /\ [][Next]_vars

-----------------------------------------------------------------------------
(* Properties.                                                             *)

Listable == [id : Containers \union Services, labels : LabelMaps, kind : Kinds]

\* Every variable keeps its type.
TypeOK ==
    /\ errs \subseteq Variables
    /\ proc \in Procs
    /\ mode \in {"none", "swarm", "standalone"}
    /\ node \in Nodes
    /\ containers \in [Containers -> States]
    /\ labels \in [Containers \union Services -> LabelMaps \union {Absent}]
    /\ listed \subseteq Listable /\ untold \subseteq Listable
    /\ answer \in {"none", "ok", "failed", "noManager"}
    /\ due \in BOOLEAN /\ moved \in BOOLEAN

Corrected(vs) == [v \in DOMAIN env |-> IF v \in vs THEN GoodEnvironment[v] ELSE env[v]]

\* config.go:59-187: no error hides another, and none is a consequence of
\* another: to correct the variables a refused process was told of is enough,
\* and to correct fewer of them is not.  (That the rest of the program can use
\* whatever Load lets pass is not said here.)
NoErrorHidesAnother ==
    errs # {} => \A vs \in SUBSET errs : (Errors(Corrected(vs)) = {}) <=> vs = errs

\* What the rules of a label map ask for, without an order.
Asked(map) ==
    {Trimmed[m.args[1]] :
        m \in {x \in UNION {Range(map[k]) : k \in RuleLabels(map)} : IsHost(x)}} \ {Blank}

\* A list of hosts that depends on nothing but the labels, but for its order.
WellDefined == [map \in LabelMaps |-> \A hosts \in ExtractHosts(map) :
    /\ IsInjective(hosts)
    /\ ToSet(hosts) = Asked(map)
    /\ ToSet(hosts) = UNION {ToSet(ExtractHostsFromRule(map[k])) : k \in RuleLabels(map)}]

\* parser.go:48-90: in whatever order Go walks through the labels of what is
\* listed, the names are the same, each comes once, and they are those of the
\* rules one by one.
ExtractionIsASet == \A w \in listed : WellDefined[w.labels]

\* watcher.go:145-163, client.go:146-213: as long as no event has come since
\* the newest listing that succeeded, however many have failed since, nothing
\* is running that it lacks - but for workloads
\* older than the stream, containers that were paused, and services that were
\* there when the node became a manager.
AdditionsAreTold == (proc = "watching" /\ ~due /\ Answers) => There \subseteq listed \union untold

\* What there is to look after on the daemon as it is now.
KindOfNode == IF node = "manager" THEN "service" ELSE "container"

\* client.go:108-128: the mode is asked for once and kept.  As long as the
\* daemon's part in the swarm is what it was then, what is watched and what
\* was listed is of the kind that part calls for, and no listing is refused
\* for want of a manager; listings may fail for any other reason.
ModeIsCurrent ==
    (mode # "none" /\ ~moved) =>
        /\ WatchedKind = KindOfNode
        /\ \A w \in listed : w.kind = KindOfNode
        /\ answer # "noManager"

\* README.md:143, 377, "auto (detect), swarm, or standalone"; "Set
\* DOCKER_MODE=swarm explicitly": a mode that is set is the mode there is.
ModeIsAsConfigured == (mode # "none" /\ cfg.DockerMode # "auto") => mode = cfg.DockerMode
=============================================================================
