---------------------------- MODULE DockerProofs ----------------------------
(* Proofs about the specification of Docker, for all environments,         *)
(* containers, services and label maps.                                    *)
EXTENDS Docker, LabelsProofs

-----------------------------------------------------------------------------
(* Load.                                                                   *)

\* Whether Load complains about a variable depends on that variable alone.
LEMMA ComplaintIsLocal ==
    ASSUME NEW e, NEW f, NEW v, e[v] = f[v]
    PROVE  v \in Complaints(e) <=> v \in Complaints(f)
BY DEF Complaints

LEMMA ComplaintsAreVariables == \A e : Complaints(e) \subseteq Variables
BY DEF Complaints, Variables, WithFile, Numbers, Patterns, Words

LEMMA CorrectionsHelp ==
    ASSUME env \in Environments, NEW vs \in SUBSET Variables
    PROVE  Errors(Corrected(vs)) = Errors(env) \ vs
<1> USE DockerAssumption DEF Errors
<1>1. ASSUME NEW v \in vs
      PROVE  v \notin Complaints(Corrected(vs))
  <2>1. Corrected(vs)[v] = GoodEnvironment[v]
    BY DEF Corrected
  <2> QED BY <2>1, ComplaintIsLocal
<1>2. ASSUME NEW v \in Variables \ vs
      PROVE  v \in Complaints(Corrected(vs)) <=> v \in Complaints(env)
  <2>1. Corrected(vs)[v] = env[v]
    BY DEF Corrected
  <2> QED BY <2>1, ComplaintIsLocal
<1> QED BY <1>1, <1>2, ComplaintsAreVariables

-----------------------------------------------------------------------------
(* The process, the daemon and the events.                                 *)

\* What run() has learnt, and by when.
Known ==
    /\ errs # {} => errs = Errors(env)
    /\ proc \in {"loading", "loaded"} => mode = "none"
    /\ proc \in {"connected", "watching"} => mode # "none"

\* The mode is right for as long as the node is what it was, and services are
\* listed in no other.
ModeFits ==
    /\ (mode # "none" /\ ~moved) => (mode = "swarm" <=> node = "manager")
    /\ mode = "none" => listed = {} /\ answer = "none"
    /\ \A w \in listed : w.kind = WatchedKind
    /\ answer = "noManager" => moved

\* Every container there is has labels.
Labelled == \A c \in Containers : containers[c] # "none" => labels[c] \in LabelMaps

DockerInv ==
    /\ TypeOK
    /\ env \in Environments
    /\ Known
    /\ ModeFits
    /\ Labelled
    /\ AdditionsAreTold

LEMMA InitInv == Init => DockerInv
<1> SUFFICES ASSUME Init
             PROVE  DockerInv
  OBVIOUS
<1> USE DEF Init
<1>1. TypeOK
  BY DEF TypeOK, Procs, States
<1>2. Known /\ ModeFits /\ Labelled /\ AdditionsAreTold
  BY DEF Known, ModeFits, Labelled, AdditionsAreTold
<1> QED BY <1>1, <1>2 DEF DockerInv

\* What there is, is listable.
LEMMA ThereIsListable == TypeOK /\ Labelled => There \subseteq Listable
BY DEF TypeOK, Labelled, There, ServicesThere, ContainersThere, Workload, Listable,
       ListedStatus, Kinds

\* run() and the client.
LEMMA ProcessInv == DockerInv /\ Process => DockerInv'
<1> SUFFICES ASSUME DockerInv, Process
             PROVE  DockerInv'
  OBVIOUS
<1> USE DEF DockerInv, historyVars, processVars
<1>1. CASE Load
  <2>1. errs' \subseteq Variables
    BY <1>1, ComplaintsAreVariables DEF Load, Errors
  <2>2. TypeOK'
    BY <1>1, <2>1 DEF Load, TypeOK, Procs
  <2>3. Known'
    BY <1>1 DEF Load, Known
  <2> QED
    BY <1>1, <2>2, <2>3 DEF Load, ModeFits, WatchedKind, Labelled, AdditionsAreTold
<1>2. CASE NewClient
  <2>1. TypeOK'
    BY <1>2 DEF NewClient, DetectedMode, TypeOK, Procs
  <2>2. Known'
    BY <1>2 DEF NewClient, DetectedMode, Known
  <2>3. ModeFits'
    <3>1. listed' = {} /\ answer' = "none"
      BY <1>2 DEF NewClient, Known, ModeFits
    <3>2. (mode = "swarm" <=> node = "manager")' /\ mode' # "none"
      BY <1>2 DEF NewClient, DetectedMode, CanServe, Active, TypeOK, Nodes
    <3> QED BY <3>1, <3>2 DEF ModeFits
  <2> QED
    BY <1>2, <2>1, <2>2, <2>3 DEF NewClient, Labelled, AdditionsAreTold
<1>3. CASE NewClientFails
  BY <1>3 DEF NewClientFails, TypeOK, Procs, Known, ModeFits, WatchedKind, Labelled,
              AdditionsAreTold
<1>4. CASE ListWorkloads
  <2>1. UNCHANGED <<env, errs, cfg, proc, mode, node, containers, labels, moved>>
    BY <1>4 DEF ListWorkloads
  <2>2. There' = There /\ (Answers' <=> Answers)
    BY <2>1 DEF There, Answers, ServicesThere, ContainersThere, Workload
  <2>3. TypeOK'
    <3>1. listed' \subseteq Listable /\ untold' \subseteq Listable /\ due' \in BOOLEAN
      BY <1>4, ThereIsListable DEF ListWorkloads, ListingSucceeds, ListingFails, TypeOK
    <3>2. answer' \in {"none", "ok", "failed", "noManager"}
      BY <1>4 DEF ListWorkloads, ListingSucceeds, ListingFails
    <3>3. Listable' = Listable
      BY DEF Listable
    <3> HIDE DEF Listable
    <3> QED BY <2>1, <3>1, <3>2, <3>3 DEF TypeOK
  <2>4. ModeFits'
    <3>1. \A w \in There : w.kind = WatchedKind
      BY DEF There, ServicesThere, ContainersThere, Workload, WatchedKind
    <3>2. mode # "none" /\ WatchedKind' = WatchedKind
      BY <1>4, <2>1 DEF ListWorkloads, Known, WatchedKind
    <3>3. CASE ListingSucceeds
      BY <2>1, <3>1, <3>2, <3>3 DEF ListingSucceeds, ModeFits
    <3>4. CASE ListingFails
      BY <2>1, <3>2, <3>4 DEF ListingFails, Answers, ModeFits
    <3> QED BY <1>4, <3>3, <3>4 DEF ListWorkloads
  <2>5. AdditionsAreTold'
    BY <1>4, <2>1, <2>2 DEF ListWorkloads, ListingSucceeds, ListingFails, AdditionsAreTold
  <2> QED BY <2>1, <2>3, <2>4, <2>5 DEF Known, Labelled
<1>5. CASE Subscribe
  <2>1. There' = There
    BY <1>5 DEF Subscribe, There, ServicesThere, ContainersThere, Workload
  <2>2. TypeOK'
    BY <1>5, ThereIsListable DEF Subscribe, TypeOK, Procs, Listable
  <2>3. AdditionsAreTold'
    BY <1>5, <2>1 DEF Subscribe, AdditionsAreTold
  <2> QED BY <1>5, <2>2, <2>3 DEF Subscribe, Known, ModeFits, WatchedKind, Labelled
<1> QED BY <1>1, <1>2, <1>3, <1>4, <1>5 DEF Process

\* A container's move adds nothing to what there is, or it is told of.
LEMMA ContainerInv ==
    ASSUME DockerInv, NEW c \in Containers, Container(c)
    PROVE  DockerInv'
<1> USE DEF DockerInv
<1>1. UNCHANGED <<env, errs, cfg, proc, mode, node, listed, answer, moved>>
  BY DEF Container, Create, Start, Die, Pause, Unpause, Destroy, ContainerMoves, processVars
<1>2. due' \in BOOLEAN /\ (due => due')
  BY DEF Container, Create, Start, Die, Pause, Unpause, Destroy, ContainerMoves, Sends, TypeOK
<1>3. /\ containers' \in [Containers -> States]
      /\ \A x \in Containers \ {c} : containers'[x] = containers[x]
  BY DEF Container, Create, Start, Die, Pause, Unpause, Destroy, ContainerMoves, TypeOK, States
<1>4. /\ labels' \in [Containers \union Services -> LabelMaps \union {Absent}]
      /\ \A w \in (Containers \union Services) \ {c} : labels'[w] = labels[w]
      /\ containers'[c] # "none" => labels'[c] \in LabelMaps
  BY DEF Container, Create, Start, Die, Pause, Unpause, Destroy, ContainerMoves, TypeOK,
         Labelled
<1>5. Labelled'
  BY <1>3, <1>4 DEF Labelled
<1>6. untold \subseteq untold' /\ untold' \subseteq Listable
  <2>1. CASE Unpause(c)
    <3>1. Workload(c, "container") \in Listable
      BY <2>1 DEF Unpause, ContainerMoves, Labelled, Workload, Listable, Kinds
    <3> QED BY <2>1, <3>1 DEF Unpause, TypeOK
  <2>2. CASE ~Unpause(c)
    BY <2>2 DEF Container, Create, Start, Die, Pause, Destroy, TypeOK
  <2> QED BY <2>1, <2>2
<1>7. TypeOK'
  BY <1>1, <1>2, <1>3, <1>4, <1>6 DEF TypeOK, Listable
<1>8. AdditionsAreTold'
  <2> SUFFICES ASSUME proc = "watching", ~due', Answers'
               PROVE  There' \subseteq listed' \union untold'
    BY <1>1 DEF AdditionsAreTold
  <2>1. There \subseteq listed \union untold
    BY <1>1, <1>2 DEF AdditionsAreTold, Answers
  <2>2. CASE mode = "swarm"
    <3>1. There' = There
      BY <1>1, <1>4, <2>2, DockerAssumption DEF There, ServicesThere, Workload
    <3> QED BY <1>1, <1>6, <2>1, <3>1
  <2>3. CASE mode # "swarm"
    <3>1. ASSUME containers'[c] = "running"
          PROVE  Workload(c, "container")' \in untold'
      <4>1. Start(c) \/ Unpause(c)
        BY <3>1 DEF Container, Create, Die, Pause, Destroy, ContainerMoves, TypeOK
      <4>2. ~Start(c)
        BY <2>3 DEF Start, ContainerMoves, Sends, WatchedKind, WatchedActions
      <4> QED BY <4>1, <4>2 DEF Unpause, Workload
    <3>2. ASSUME NEW x \in Containers, containers'[x] = "running"
          PROVE  Workload(x, "container")' \in listed' \union untold'
      <4>1. CASE x = c
        BY <3>1, <3>2, <4>1
      <4>2. CASE x # c
        <5>1. Workload(x, "container")' = Workload(x, "container") /\ containers[x] = "running"
          BY <1>3, <1>4, <3>2, <4>2 DEF Workload
        <5>2. Workload(x, "container") \in There
          BY <2>3, <5>1 DEF There, ContainersThere, ListedStatus
        <5> QED BY <1>1, <1>6, <2>1, <5>1, <5>2
      <4> QED BY <4>1, <4>2
    <3>3. There' = {Workload(x, "container")' : x \in {y \in Containers : containers'[y] = "running"}}
      BY <1>1, <2>3 DEF There, ContainersThere, ListedStatus, Workload
    <3> QED BY <3>2, <3>3
  <2> QED BY <2>2, <2>3
<1> QED
  BY <1>1, <1>5, <1>7, <1>8 DEF Known, ModeFits, WatchedKind

\* Nor does a change of a service.
LEMMA ServiceInv ==
    ASSUME DockerInv, NEW s \in Services, ServiceChanges(s)
    PROVE  DockerInv'
<1> USE DEF DockerInv
<1>1. PICK l \in (LabelMaps \union {Absent}) \ {labels[s]} :
         /\ labels' = [labels EXCEPT ![s] = l]
         /\ Sends("service", IF labels[s] = Absent THEN "create"
                             ELSE IF l = Absent THEN "remove" ELSE "update")
  BY DEF ServiceChanges
<1>2. UNCHANGED <<env, errs, cfg, proc, mode, node, containers, listed, answer, untold, moved>>
  BY DEF ServiceChanges, processVars
<1>3. due' \in BOOLEAN
  BY <1>1 DEF Sends, TypeOK
<1>4. TypeOK'
  BY <1>1, <1>2, <1>3 DEF TypeOK, Listable
<1>5. \A c \in Containers : labels'[c] = labels[c]
  BY <1>1, DockerAssumption DEF TypeOK
<1>6. Labelled'
  BY <1>2, <1>5 DEF Labelled
<1>7. AdditionsAreTold'
  <2> SUFFICES ASSUME proc = "watching", ~due', Answers'
               PROVE  There' \subseteq listed' \union untold'
    BY <1>2 DEF AdditionsAreTold
  <2>1. mode # "swarm"
    BY <1>1, <1>2 DEF Sends, WatchedKind, WatchedActions, Answers
  <2>2. There' = There
    BY <1>2, <1>5, <2>1 DEF There, ContainersThere, Workload
  <2>3. ~due /\ Answers
    BY <1>1, <2>1 DEF Sends, Answers
  <2> QED BY <1>2, <2>2, <2>3 DEF AdditionsAreTold
<1> QED
  BY <1>2, <1>4, <1>6, <1>7 DEF Known, ModeFits, WatchedKind

\* A node that becomes a manager sees services it has not heard of.
LEMMA NodeInv == DockerInv /\ NodeChanges => DockerInv'
<1> SUFFICES ASSUME DockerInv, NodeChanges
             PROVE  DockerInv'
  OBVIOUS
<1> USE DEF DockerInv
<1>1. UNCHANGED <<env, errs, cfg, proc, mode, containers, labels, listed, answer, due>>
  BY DEF NodeChanges, processVars
<1>2. moved' = (moved \/ mode # "none") /\ node' \in Nodes
  BY DEF NodeChanges
<1>3. There' = There /\ ServicesThere' = ServicesThere
  BY <1>1 DEF There, ServicesThere, ContainersThere, Workload
<1>4. untold \subseteq untold' /\ untold' \subseteq Listable
  <2>1. mode = "swarm" => ServicesThere \subseteq Listable
    BY ThereIsListable DEF There
  <2> QED BY <2>1 DEF NodeChanges, TypeOK
<1>5. TypeOK'
  BY <1>1, <1>2, <1>4 DEF TypeOK, Listable
<1>6. AdditionsAreTold'
  <2> SUFFICES ASSUME proc = "watching", ~due, Answers'
               PROVE  There \subseteq listed \union untold'
    BY <1>1, <1>3 DEF AdditionsAreTold
  <2>1. CASE mode = "swarm"
    BY <1>1, <2>1 DEF NodeChanges, Answers, There
  <2>2. CASE mode # "swarm"
    BY <1>4, <2>2 DEF AdditionsAreTold, Answers
  <2> QED BY <2>1, <2>2
<1>7. ModeFits' /\ Labelled'
  BY <1>1, <1>2 DEF ModeFits, WatchedKind, Labelled
<1> QED BY <1>1, <1>5, <1>6, <1>7 DEF Known

LEMMA NextInv == DockerInv /\ [Next]_vars => DockerInv'
<1> SUFFICES ASSUME DockerInv, [Next]_vars
             PROVE  DockerInv'
  OBVIOUS
<1>1. CASE UNCHANGED vars
  BY <1>1 DEF vars, processVars, historyVars, DockerInv, TypeOK, Known, ModeFits, WatchedKind, Labelled,
              AdditionsAreTold, There, Answers, ServicesThere,
              ContainersThere, Workload, Listable
<1> QED BY <1>1, ProcessInv, ContainerInv, ServiceInv, NodeInv DEF Next

THEOREM Invariance == Spec => []DockerInv
BY InitInv, NextInv, PTL DEF Spec

-----------------------------------------------------------------------------
(* The names in the labels.                                                *)

\* What a label map asks for, its rules ask for.
LEMMA AskedBy ==
    ASSUME NEW map
    PROVE  Asked(map) = UNION {NamedBy(map[key]) : key \in RuleLabels(map)}
BY DEF Asked, NamedBy, Named

\* Every list made of a label map is that of its rules.
LEMMA EveryMapIsWellDefined == \A map \in LabelMaps : WellDefined[map]
<1> SUFFICES ASSUME NEW map \in LabelMaps, NEW hosts \in ExtractHosts(map)
             PROVE  /\ IsInjective(hosts)
                    /\ ToSet(hosts) = Asked(map)
                    /\ ToSet(hosts) = UNION {ToSet(ExtractHostsFromRule(map[k])) :
                                                k \in RuleLabels(map)}
  BY DEF WellDefined
<1>1. IsLabelMap(map)
  BY DockerAssumption
<1>2. IsInjective(hosts) /\ ToSet(hosts) = Asked(map)
  BY <1>1, HostsOfAMap, AskedBy
<1>3. \A key \in RuleLabels(map) :
         ToSet(ExtractHostsFromRule(map[key])) = NamedBy(map[key])
  BY <1>1, HostsOfARule DEF IsLabelMap, RuleLabels
<1> QED BY <1>2, <1>3, AskedBy

-----------------------------------------------------------------------------
\* Types.
THEOREM TypeCorrect == Spec => []TypeOK
<1>1. DockerInv => TypeOK
  BY DEF DockerInv
<1> QED BY <1>1, Invariance, PTL

\* Whatever the environment is, a process that Load refuses is told of exactly
\* the variables to correct.
THEOREM OneRoundOfCorrections == Spec => []NoErrorHidesAnother
<1>1. DockerInv => NoErrorHidesAnother
  <2> SUFFICES ASSUME DockerInv, errs # {}, NEW vs \in SUBSET errs
               PROVE  (Errors(Corrected(vs)) = {}) <=> vs = errs
    BY DEF NoErrorHidesAnother
  <2>1. errs = Errors(env) /\ vs \in SUBSET Variables
    BY DEF DockerInv, Known, TypeOK
  <2>2. Errors(Corrected(vs)) = errs \ vs
    BY <2>1, CorrectionsHelp DEF DockerInv
  <2> QED BY <2>2
<1> QED BY <1>1, Invariance, PTL

\* For any number of containers and services: what is added, is told of.
THEOREM NothingComesUnseen == Spec => []AdditionsAreTold
<1>1. DockerInv => AdditionsAreTold
  BY DEF DockerInv
<1> QED BY <1>1, Invariance, PTL

\* The kind listed and watched is that of the node until the node changes.
THEOREM ModeIsRight == Spec => []ModeIsCurrent
<1>1. DockerInv => ModeIsCurrent
  BY DEF DockerInv, ModeFits, ModeIsCurrent, KindOfNode, WatchedKind
<1> QED BY <1>1, Invariance, PTL

\* For any label maps, of any length, in whatever order they are walked
\* through: what is listed has the names of its rules, each once.
THEOREM OrderDoesNotMatter == Spec => []ExtractionIsASet
<1>1. DockerInv => ExtractionIsASet
  BY EveryMapIsWellDefined DEF DockerInv, TypeOK, Listable, ExtractionIsASet
<1> QED BY <1>1, Invariance, PTL
=============================================================================
