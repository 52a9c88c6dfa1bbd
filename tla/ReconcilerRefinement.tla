------------------------ MODULE ReconcilerRefinement ------------------------
(* Proof that Reconciler implements ManagedZone, for all constants.        *)
EXTENDS ReconcilerProofs

\* A call that waits for its listing has no names and no errors yet.
Fresh == \A c \in Callers :
    pc[c] = "listing" => hosts[c] = <<>> /\ result[c]["errors"] = 0

RefInv == CoreInv /\ CountInv /\ ErrorInv /\ Fresh

LEMMA InitRef == Init => RefInv
<1> SUFFICES ASSUME Init
             PROVE  RefInv
  OBVIOUS
<1>1. CoreInv
  BY InitCore
<1>2. CountInv
  BY DEF Init, CountInv, Quiet, Balanced, Bounded, Adding, Zero, Counters, Inside
<1>3. ErrorInv
  BY FS_EmptySet DEF Init, ErrorInv, Spent, Under, Zero, Counters
<1>4. Fresh
  BY DEF Init, Fresh
<1> QED BY <1>1, <1>2, <1>3, <1>4 DEF RefInv

LEMMA FreshStep ==
    ASSUME CoreInv, CountInv, Fresh, [Next]_vars
    PROVE  Fresh'
<1> USE DEF CoreInv
<1>1. ASSUME NEW c \in Callers, Call(c) \/ Acquire(c) \/ Step(c)
      PROVE  Fresh'
  <2>1. ASSUME NEW d \in Callers, d # c, pc'[d] = "listing"
        PROVE  hosts'[d] = <<>> /\ result'[d]["errors"] = 0
    BY <1>1, <2>1, Frame DEF Fresh
  <2>2. ASSUME pc'[c] = "listing"
        PROVE  hosts'[c] = <<>> /\ result'[c]["errors"] = 0
    <3>1. Acquire(c)
      BY <1>1, <2>2
         DEF Call, CallReconcile, CallHostnames, Step, List, ListFails, Return, Finished, Leave,
             ProcessWorkload, Refuse, Pretend, CheckBeforeAdd, CheckBeforeDelete, CheckFails,
             MaySend, AtHost, AddARecord, DeleteARecord, HostDone, HostFails, TypeOK
    <3>2. op[c] = "Reconcile" /\ pc[c] = "locking"
      BY <2>2, <3>1 DEF Acquire, TypeOK
    <3>3. hosts[c] = <<>> /\ result[c] = Zero
      BY <3>2 DEF CountInv, Quiet, Inside
    <3> QED BY <3>1, <3>2, <3>3 DEF Acquire, Zero, Counters
  <2> QED BY <2>1, <2>2 DEF Fresh
<1>2. ASSUME Environment
      PROVE  Fresh'
  <2>1. CASE UNCHANGED <<dryRun, callVars, asked>>
    BY <2>1 DEF callVars, Fresh
  <2>2. CASE ProcessRestarts
    BY <2>2 DEF ProcessRestarts, Fresh
  <2> QED BY <1>2, <2>1, <2>2, EnvironmentFrame
<1>3. CASE UNCHANGED vars
  BY <1>3 DEF vars, callVars, Fresh
<1> QED BY <1>1, <1>2, <1>3 DEF Next

LEMMA RefStep == RefInv /\ [Next]_vars => RefInv'
BY CoreStep, CountNext, ErrorNext, FreshStep DEF RefInv

-----------------------------------------------------------------------------
(* The abstract job, seen from the caller that holds the mutex.            *)

\* The state of the job is that of the call that holds the mutex.
LEMMA Holder ==
    ASSUME RefInv, NEW c \in Callers, pc[c] \in Inside
    PROVE  /\ mu = c
           /\ Job = IF pc[c] = "listing" THEN "none"
                      ELSE IF op[c] = "DeleteHostnames" THEN "remove" ELSE "publish"
           /\ OpenNames = IF dryRun THEN {} ELSE Ahead(c) \intersect Matching
           /\ JobFailed <=> result[c]["errors"] > 0
<1>1. mu = c /\ c # NoCaller
  BY ReconcilerAssumption DEF RefInv, CoreInv, MutexHeld
<1> QED BY <1>1 DEF Job, OpenNames, JobFailed

\* No call, no job.
LEMMA Idle ==
    ASSUME mu = NoCaller
    PROVE  Job = "none" /\ OpenNames = {} /\ JobFailed = FALSE
BY DEF Job, OpenNames, JobFailed

\* A call that waits for its listing is no job either.
LEMMA ListingIsIdle ==
    ASSUME RefInv, NEW c \in Callers, pc[c] = "listing"
    PROVE  Job = "none" /\ OpenNames = {} /\ JobFailed = FALSE
<1>1. hosts[c] = <<>> /\ todo[c] = {} /\ result[c]["errors"] = 0 /\ pc[c] \in Inside
  BY DEF RefInv, Fresh, ErrorInv, Inside, Places
<1>2. Ahead(c) = {}
  BY <1>1 DEF Ahead, MembersOf, NamesOf
<1>3. mu = c /\ Job = "none"
  BY <1>1, Holder
<1>4. OpenNames = {}
  BY <1>2, <1>3 DEF OpenNames
<1>5. ~JobFailed
  BY <1>1, <1>3 DEF JobFailed
<1> QED BY <1>3, <1>4, <1>5
\* A step that leaves the lock holder's call alone leaves the job alone.
LEMMA OthersStutter ==
    ASSUME RefInv, NEW c \in Callers, Call(c), UNCHANGED serverVars
    PROVE  UNCHANGED Zone!vars
<1> USE DEF RefInv, CoreInv
<1>1. mu' = mu /\ mu # c /\ mu \in Callers \union {NoCaller}
  BY DEF Call, CallReconcile, CallHostnames, MutexHeld, Inside, TypeOK
<1>2. CASE mu = NoCaller
  BY <1>1, <1>2 DEF Zone!vars, serverVars, Job, OpenNames, JobFailed
<1>3. CASE mu \in Callers
  <2>1. /\ pc'[mu] = pc[mu] /\ op'[mu] = op[mu] /\ todo'[mu] = todo[mu]
        /\ hosts'[mu] = hosts[mu] /\ result'[mu] = result[mu] /\ dryRun' = dryRun
    BY <1>1, <1>3, Frame
  <2>2. Ahead(mu)' = Ahead(mu)
    BY <1>1, <2>1 DEF Ahead
  <2> QED
    BY <1>1, <2>1, <2>2 DEF Zone!vars, serverVars, Job, OpenNames, JobFailed
<1> QED BY <1>1, <1>2, <1>3

\* The names still ahead, before and after a step at one of them.
LEMMA OpenAfter ==
    ASSUME RefInv, NEW c \in Callers, hosts[c] # <<>>, todo' = todo,
           hosts'[c] = Rest(c)
    PROVE  /\ Ahead(c)' \in {Ahead(c), Ahead(c) \ {Host(c)}}
           /\ Host(c) \in Ahead(c)
<1>1. MembersOf(hosts[c]) = {Host(c)} \union MembersOf(hosts'[c])
  BY Walk DEF RefInv, CoreInv, TypeOK, Host, Rest
<1> QED BY <1>1 DEF Ahead

\* Who steps holds the mutex before the step and, unless it leaves, after it.
LEMMA HolderStep ==
    ASSUME RefInv, RefInv', NEW c \in Callers, Step(c), pc'[c] \in Inside
    PROVE  /\ Job' = IF pc'[c] = "listing" THEN "none"
                       ELSE IF op'[c] = "DeleteHostnames" THEN "remove" ELSE "publish"
           /\ OpenNames' = IF dryRun THEN {} ELSE Ahead(c)' \intersect Matching
           /\ JobFailed' <=> result'[c]["errors"] > 0
           /\ dryRun' = dryRun
<1>1. dryRun' = dryRun
  BY SettingFrame DEF Next
<1>2. mu' = c
  BY ReconcilerAssumption DEF RefInv, CoreInv, MutexHeld
<1>3. c # NoCaller
  BY ReconcilerAssumption
<1> QED BY <1>1, <1>2, <1>3 DEF Job, OpenNames, JobFailed

-----------------------------------------------------------------------------
(* Every step is a step of ManagedZone or leaves its variables alone.      *)

\* Taking the mutex begins the job of a direct call; a Reconcile has none yet.
LEMMA AcquireMaps ==
    ASSUME RefInv, RefInv', NEW c \in Callers, Acquire(c)
    PROVE  Zone!Begin \/ UNCHANGED Zone!vars
<1>1. Job = "none" /\ OpenNames = {} /\ JobFailed = FALSE /\ UNCHANGED <<dns, late>>
  BY Idle DEF Acquire, LockFree, serverVars
<1>2. CASE op[c] = "Reconcile"
  <2>1. pc'[c] = "listing"
    BY <1>2 DEF Acquire, RefInv, CoreInv, TypeOK
  <2>2. mu' = c /\ Job' = "none"
    BY <2>1 DEF Acquire, Job
  <2>3. hosts'[c] = <<>> /\ todo'[c] = {} /\ result'[c]["errors"] = 0
    BY <2>1 DEF RefInv, Fresh, ErrorInv
  <2>4. Ahead(c)' = {}
    BY <2>3 DEF Ahead, MembersOf, NamesOf
  <2>5. OpenNames' = {}
    BY <2>2, <2>4 DEF OpenNames
  <2>6. JobFailed' = FALSE
    BY <2>2, <2>3 DEF JobFailed
  <2> QED BY <1>1, <2>2, <2>5, <2>6 DEF Zone!vars
<1>3. CASE op[c] # "Reconcile"
  <2>1. mu' = c /\ pc'[c] = "working" /\ op' = op /\ c # NoCaller
    BY <1>3, ReconcilerAssumption DEF Acquire, RefInv, CoreInv, TypeOK
  <2>2. Job' \in {"publish", "remove"}
    BY <2>1 DEF Job
  <2>3. OpenNames' \in SUBSET Matching
    BY DEF OpenNames
  <2>4. result[c] = Zero
    BY DEF Acquire, RefInv, CountInv, Quiet, Inside
  <2>5. result'[c]["errors"] = 0
    BY <2>4 DEF Acquire, Counted, Zero, Counters, RefInv, CoreInv, TypeOK
  <2>6. ~JobFailed'
    BY <2>1, <2>5 DEF JobFailed
  <2> QED BY <1>1, <2>2, <2>3, <2>6 DEF Zone!Begin
<1> QED BY <1>2, <1>3

\* The listing names the job of a Reconcile.
LEMMA ListMaps ==
    ASSUME RefInv, RefInv', NEW c \in Callers, List(c)
    PROVE  Zone!Begin
<1>1. Job = "none" /\ OpenNames = {} /\ JobFailed = FALSE /\ UNCHANGED <<dns, late>>
  BY ListingIsIdle DEF List, serverVars
<1>2. pc'[c] = "working" /\ result'[c]["errors"] = 0
  <2>1. pc[c] = "listing" /\ result[c]["errors"] = 0
    BY DEF List, RefInv, Fresh
  <2> QED BY <2>1 DEF List, Counted, Counters, RefInv, CoreInv, TypeOK
<1>3. Job' \in {"publish", "remove"} /\ (JobFailed' <=> result'[c]["errors"] > 0)
  BY <1>2, HolderStep DEF Step, Inside, Places
<1>4. OpenNames' \in SUBSET Matching
  BY DEF OpenNames
<1> QED BY <1>1, <1>2, <1>3, <1>4 DEF Zone!Begin

\* A call that ends ends its job: no name is open, or it never knew any.
LEMMA LeaveMaps ==
    ASSUME RefInv, RefInv', NEW c \in Callers, ListFails(c) \/ Return(c)
    PROVE  Zone!End \/ UNCHANGED Zone!vars
<1>1. /\ Job' = "none" /\ OpenNames' = {} /\ JobFailed' = FALSE
      /\ UNCHANGED <<dns, late>>
  <2>1. mu' = NoCaller /\ UNCHANGED <<dns, late>>
    BY DEF ListFails, Return, Leave, Release, serverVars
  <2> QED BY <2>1 DEF Job, OpenNames, JobFailed
<1>2. CASE ListFails(c)
  <2>1. Job = "none" /\ OpenNames = {} /\ JobFailed = FALSE
    BY <1>2, ListingIsIdle DEF ListFails
  <2> QED BY <1>1, <2>1 DEF Zone!vars
<1>3. CASE Return(c)
  <2>1. pc[c] = "working" /\ hosts[c] = <<>> /\ todo[c] = {}
    BY <1>3 DEF Return, Finished
  <2>2. Ahead(c) = {}
    BY <2>1 DEF Ahead, MembersOf, NamesOf
  <2>3. Job # "none" /\ OpenNames = {}
    BY <2>1, <2>2, Holder DEF Inside, Places
  <2> QED BY <1>1, <2>3 DEF Zone!End, Zone!Over
<1> QED BY <1>2, <1>3

\* The names of a workload are open before they are looked at.
LEMMA WorkloadMaps ==
    ASSUME RefInv, RefInv', NEW c \in Callers, ProcessWorkload(c)
    PROVE  UNCHANGED Zone!vars
<1> USE DEF RefInv, CoreInv, TypeOK
<1>1. PICK w \in todo[c] : \E list \in HostLists[w.labels] :
        /\ todo' = [todo EXCEPT ![c] = @ \ {w}]
        /\ hosts' = [hosts EXCEPT ![c] = list]
        /\ Counted(c, "found", Len(list))
  BY DEF ProcessWorkload
<1>2. PICK list \in HostLists[w.labels] :
        /\ hosts' = [hosts EXCEPT ![c] = list]
        /\ Counted(c, "found", Len(list))
  BY <1>1
<1>3. NamesIn(w.labels) = MembersOf(list)
  <2>1. w.labels \in LabelSets
    BY DEF Scanned
  <2>2. \A s \in HostLists[w.labels] : MembersOf(s) = MembersOf(list)
    BY <1>2, <2>1, ReconcilerAssumption DEF MembersOf
  <2> QED BY <1>2, <2>2 DEF NamesIn
<1>4. MembersOf(hosts[c]) = {}
  BY DEF ProcessWorkload, MembersOf
<1>5. hosts'[c] = list /\ todo'[c] = todo[c] \ {w} /\ w \in todo[c]
  BY <1>1, <1>2
<1>6. NamesOf(todo[c]) = NamesIn(w.labels) \union NamesOf(todo'[c])
  BY <1>5 DEF NamesOf
<1>7. Ahead(c)' = Ahead(c)
  BY <1>3, <1>4, <1>5, <1>6 DEF Ahead
<1>8. result'[c]["errors"] = result[c]["errors"] /\ pc' = pc /\ op' = op /\ pc[c] = "working"
  BY <1>2 DEF ProcessWorkload, Counted, Counters
<1>9. UNCHANGED <<dns, late>>
  BY DEF ProcessWorkload, serverVars
<1>10. pc[c] \in Inside /\ pc'[c] \in Inside
  BY <1>8 DEF Inside, Places
<1> HIDE DEF RefInv
<1>11. UNCHANGED <<Job, OpenNames>>
  BY <1>7, <1>8, <1>10, Holder, HolderStep DEF Step
<1>12. JobFailed' <=> JobFailed
  BY <1>8, <1>10, Holder, HolderStep DEF Step
<1>13. JobFailed' = JobFailed
  BY <1>12 DEF JobFailed
<1> QED BY <1>9, <1>11, <1>13 DEF Zone!vars

\* A name that the filters refuse, or that a dry run passes over, was not open.
LEMMA PassMaps ==
    ASSUME RefInv, RefInv', NEW c \in Callers, Refuse(c) \/ Pretend(c)
    PROVE  UNCHANGED Zone!vars
<1>1. /\ hosts[c] # <<>> /\ todo' = todo /\ op' = op /\ pc' = pc /\ pc[c] = "working"
      /\ hosts'[c] = Rest(c) /\ UNCHANGED <<dns, late>>
  BY DEF Refuse, Pretend, AtHost, serverVars, RefInv, CoreInv, TypeOK
<1>2. pc[c] \in Inside /\ pc'[c] \in Inside /\ Step(c)
  BY <1>1 DEF Inside, Places, Step
<1>3. result'[c]["errors"] = result[c]["errors"]
  <2>1. "errors" \notin FilteredOf(c) \union SuccessOf(c)
    BY DEF FilteredOf, SuccessOf
  <2> QED
    BY <2>1 DEF Refuse, Pretend, CountedAll, Counters, RefInv, CoreInv, TypeOK
<1>4. OpenNames' = OpenNames
  <2>1. CASE dryRun
    BY <1>2, <2>1, Holder, HolderStep
  <2>2. CASE ~dryRun
    <3>1. Host(c) \notin Matching
      BY <2>2 DEF Refuse, Pretend, MatchesFilters
    <3>2. Ahead(c)' \in {Ahead(c), Ahead(c) \ {Host(c)}}
      BY <1>1, OpenAfter
    <3>3. Ahead(c)' \intersect Matching = Ahead(c) \intersect Matching
      BY <3>1, <3>2
    <3> QED BY <1>2, <3>3, Holder, HolderStep
  <2> QED BY <2>1, <2>2
<1>5. Job' = Job /\ (JobFailed' <=> JobFailed)
  BY <1>1, <1>2, <1>3, Holder, HolderStep
<1>6. JobFailed' = JobFailed
  BY <1>5 DEF JobFailed
<1> QED BY <1>1, <1>4, <1>5, <1>6 DEF Zone!vars

\* What holds at a name a request may be sent for.
LEMMA AtOpenHost ==
    ASSUME RefInv, NEW c \in Callers, MaySend(c) \/ pc[c] \in {"adding", "deleting"}
    PROVE  /\ hosts[c] # <<>> /\ ~dryRun /\ pc[c] \in Inside
           /\ Host(c) \in Matching /\ Host(c) \in OpenNames
           /\ Job = IF op[c] = "DeleteHostnames" THEN "remove" ELSE "publish"
<1>1. hosts[c] # <<>> /\ ~dryRun /\ Host(c) \in Matching /\ pc[c] \in Inside
  BY DEF MaySend, AtHost, MatchesFilters, RefInv, CoreInv, Allowed, WritesAllowed,
         Inside, Places
<1>2. Host(c) \in Ahead(c)
  BY <1>1, Walk DEF Ahead, Host, RefInv, CoreInv, TypeOK
<1>3. pc[c] # "listing"
  BY DEF MaySend, AtHost
<1> QED BY <1>1, <1>2, <1>3, Holder

\* Going on to the next name, with the same errors or with one more.
LEMMA NextOpen ==
    ASSUME RefInv, RefInv', NEW c \in Callers, Step(c),
           MaySend(c) \/ pc[c] \in {"adding", "deleting"},
           todo' = todo, op' = op, pc'[c] = "working", hosts'[c] \in {<<>>, Rest(c)}
    PROVE  /\ Job' = Job /\ OpenNames' \in SUBSET OpenNames
           /\ hosts'[c] = Rest(c) => OpenNames' \in {OpenNames, OpenNames \ {Host(c)}}
           /\ result'[c]["errors"] = result[c]["errors"] => JobFailed' = JobFailed
           /\ result'[c]["errors"] > 0 => JobFailed' = TRUE
<1>1. /\ hosts[c] # <<>> /\ ~dryRun /\ pc[c] \in Inside /\ pc'[c] \in Inside
  BY AtOpenHost DEF Inside, Places
<1>2. OpenNames = Ahead(c) \intersect Matching /\ OpenNames' = Ahead(c)' \intersect Matching
  BY <1>1, Holder, HolderStep
<1>3. Job' = Job
  BY <1>1, Holder, HolderStep DEF MaySend, AtHost
<1>4. MembersOf(hosts'[c]) \subseteq MembersOf(hosts[c])
  <2>1. MembersOf(<<>>) = {}
    BY DEF MembersOf
  <2>2. MembersOf(Rest(c)) \subseteq MembersOf(hosts[c])
    BY <1>1, Walk DEF Rest, RefInv, CoreInv, TypeOK
  <2> QED BY <2>1, <2>2
<1>5. Ahead(c)' \subseteq Ahead(c)
  BY <1>4 DEF Ahead
<1>6. hosts'[c] = Rest(c) => Ahead(c)' \in {Ahead(c), Ahead(c) \ {Host(c)}}
  BY <1>1, OpenAfter
<1>7. hosts'[c] = Rest(c) => OpenNames' \in {OpenNames, OpenNames \ {Host(c)}}
  BY <1>2, <1>6
<1>8. (JobFailed <=> result[c]["errors"] > 0) /\ (JobFailed' <=> result'[c]["errors"] > 0)
  BY <1>1, Holder, HolderStep
<1>9. /\ result'[c]["errors"] = result[c]["errors"] => JobFailed' = JobFailed
      /\ result'[c]["errors"] > 0 => JobFailed' = TRUE
  BY <1>8 DEF JobFailed
<1> QED BY <1>2, <1>3, <1>5, <1>7, <1>9

\* The check of a publishing call finds the record, or the write follows.
LEMMA CheckAddMaps ==
    ASSUME RefInv, RefInv', NEW c \in Callers, CheckBeforeAdd(c)
    PROVE  Zone!Settle(Host(c)) \/ UNCHANGED Zone!vars
<1>1. /\ MaySend(c) /\ op[c] # "DeleteHostnames" /\ UNCHANGED <<todo, op, dns, late>>
      /\ Step(c) /\ pc[c] = "working"
  BY DEF CheckBeforeAdd, MaySend, AtHost, Step, serverVars
<1>2. /\ hosts[c] # <<>> /\ Host(c) \in Matching /\ Host(c) \in OpenNames
      /\ Job = "publish" /\ pc[c] \in Inside /\ ~dryRun
  BY <1>1, AtOpenHost
<1>3. result'[c]["errors"] = result[c]["errors"]
  BY DEF CheckBeforeAdd, CountedAll, Counters, RefInv, CoreInv, TypeOK
<1>4. CASE HasARecord(Host(c), TargetIP)
  <2>1. hosts'[c] = Rest(c) /\ pc'[c] = "working"
    BY <1>1, <1>4 DEF CheckBeforeAdd, RefInv, CoreInv, TypeOK
  <2>2. /\ Job' = Job /\ OpenNames' \in {OpenNames, OpenNames \ {Host(c)}}
        /\ JobFailed' = JobFailed
    BY <1>1, <1>3, <2>1, NextOpen
  <2>3. Target(Host(c)) \in dns
    BY <1>2, <1>4, WalkOn, HasARecordMeans DEF RefInv, CoreInv
  <2> QED BY <1>1, <1>2, <2>2, <2>3 DEF Zone!Settle
<1>5. CASE ~HasARecord(Host(c), TargetIP)
  <2>1. hosts' = hosts /\ pc'[c] = "adding"
    BY <1>5 DEF CheckBeforeAdd, RefInv, CoreInv, TypeOK
  <2>2. Ahead(c)' = Ahead(c) /\ pc'[c] \in Inside
    BY <1>1, <2>1 DEF Ahead, Inside, Places
  <2>3. UNCHANGED <<Job, OpenNames>> /\ (JobFailed' <=> JobFailed)
    BY <1>1, <1>2, <1>3, <2>1, <2>2, Holder, HolderStep
  <2>4. JobFailed' = JobFailed
    BY <2>3 DEF JobFailed
  <2> QED BY <1>1, <2>3, <2>4 DEF Zone!vars
<1> QED BY <1>4, <1>5

\* The check of a deletion misses the record, or the write follows.
LEMMA CheckDeleteMaps ==
    ASSUME RefInv, RefInv', NEW c \in Callers, CheckBeforeDelete(c)
    PROVE  Zone!Remove(Host(c)) \/ UNCHANGED Zone!vars
<1>1. /\ MaySend(c) /\ op[c] = "DeleteHostnames" /\ UNCHANGED <<todo, op, dns, late, result>>
      /\ Step(c) /\ pc[c] = "working"
  BY DEF CheckBeforeDelete, MaySend, AtHost, Step, serverVars
<1>2. Job = "remove" /\ pc[c] \in Inside /\ ~dryRun
  BY <1>1, AtOpenHost
<1>3. CASE hosts' = hosts
  <2>1. pc'[c] \in {"working", "deleting"} /\ Ahead(c)' = Ahead(c)
    BY <1>1, <1>3 DEF CheckBeforeDelete, Ahead, RefInv, CoreInv, TypeOK
  <2>2. UNCHANGED <<Job, OpenNames>> /\ (JobFailed' <=> JobFailed)
    BY <1>1, <1>2, <2>1, Holder, HolderStep DEF Inside, Places
  <2>3. JobFailed' = JobFailed
    BY <2>2 DEF JobFailed
  <2> QED BY <1>1, <2>2, <2>3 DEF Zone!vars
<1>4. CASE hosts' # hosts
  <2>1. hosts'[c] = Rest(c) /\ pc'[c] = "working"
    BY <1>1, <1>4 DEF CheckBeforeDelete, RefInv, CoreInv, TypeOK
  <2>2. /\ Job' = Job /\ OpenNames' \in {OpenNames, OpenNames \ {Host(c)}}
        /\ JobFailed' = JobFailed
    BY <1>1, <2>1, NextOpen
  <2> QED BY <1>1, <1>2, <2>2 DEF Zone!Remove
<1> QED BY <1>3, <1>4

\* A check that fails gives the name up.
LEMMA CheckFailsMaps ==
    ASSUME RefInv, RefInv', NEW c \in Callers, CheckFails(c)
    PROVE  Zone!GiveUp(Host(c)) \/ Zone!Remove(Host(c))
<1>1. /\ MaySend(c) /\ UNCHANGED <<todo, op, dns, late>> /\ Step(c) /\ pc'[c] = "working"
      /\ hosts'[c] = AfterError(c)
  BY DEF CheckFails, MaySend, AtHost, Step, serverVars, RefInv, CoreInv, TypeOK
<1>2. hosts'[c] \in {<<>>, Rest(c)} /\ (op[c] # "Reconcile" => hosts'[c] = Rest(c))
  BY <1>1 DEF AfterError
<1>3. Job' = Job /\ OpenNames' \in SUBSET OpenNames
  BY <1>1, <1>2, NextOpen
<1>4. CASE op[c] = "DeleteHostnames"
  <2>1. result'[c]["errors"] = result[c]["errors"]
    BY <1>4 DEF CheckFails, CountedAll, FilteredOf, ErrorsOf, Counters, RefInv, CoreInv, TypeOK
  <2>2. JobFailed' = JobFailed /\ OpenNames' \in {OpenNames, OpenNames \ {Host(c)}}
    BY <1>1, <1>2, <1>4, <2>1, NextOpen
  <2> QED BY <1>1, <1>3, <1>4, <2>2, AtOpenHost DEF Zone!Remove
<1>5. CASE op[c] # "DeleteHostnames"
  <2>1. result'[c]["errors"] > 0
    BY <1>5 DEF CheckFails, CountedAll, FilteredOf, ErrorsOf, Counters, RefInv, CoreInv, TypeOK
  <2>2. JobFailed' = TRUE
    BY <1>1, <1>2, <2>1, NextOpen
  <2> QED BY <1>1, <1>3, <1>5, <2>2, AtOpenHost DEF Zone!GiveUp
<1> QED BY <1>4, <1>5

\* The two writes, whatever becomes of them.
LEMMA AddMaps ==
    ASSUME RefInv, RefInv', "other" \notin Outcomes, NEW c \in Callers, AddARecord(c)
    PROVE  Zone!Settle(Host(c)) \/ Zone!GiveUp(Host(c))
<1>1. PICK outcome \in Outcomes :
        /\ Write(Add(Target(Host(c))), outcome)
        /\ IF Succeeds(outcome) THEN HostDone(c) ELSE HostFails(c)
  BY DEF AddARecord
<1>2. /\ pc[c] = "adding" /\ UNCHANGED <<todo, op>> /\ Step(c) /\ op[c] # "DeleteHostnames"
      /\ pc'[c] = "working" /\ hosts'[c] \in {<<>>, Rest(c)}
  BY <1>1 DEF AddARecord, Step, HostDone, HostFails, AfterError, RefInv, CoreInv, TypeOK,
              Allowed, WritesAllowed
<1>3. Job = "publish" /\ Host(c) \in Matching
  BY <1>2, AtOpenHost
<1>4. Job' = Job /\ OpenNames' \in SUBSET OpenNames
  BY <1>2, NextOpen
<1>5. CASE outcome = "ok"
  <2>1. HostDone(c) /\ dns' = dns \union {Target(Host(c))} /\ late' = late
    BY <1>1, <1>5 DEF Succeeds, Write, Applied, Add
  <2>2. result'[c]["errors"] = result[c]["errors"] /\ hosts'[c] = Rest(c)
    BY <1>2, <2>1 DEF HostDone, CountedAll, SuccessOf, Counters, RefInv, CoreInv, TypeOK
  <2>3. JobFailed' = JobFailed /\ OpenNames' \in {OpenNames, OpenNames \ {Host(c)}}
    BY <1>2, <2>2, NextOpen
  <2> QED BY <1>3, <1>4, <2>1, <2>3 DEF Zone!Settle
<1>6. CASE outcome # "ok"
  <2>1. /\ HostFails(c)
        /\ dns' \in {dns, dns \union {Target(Host(c))}}
        /\ late' \in {late, late \union {Add(Target(Host(c)))}}
    BY <1>1, <1>6, TechnitiumAssumption DEF Succeeds, Fates, Write, Applied, Add
  <2>2. result'[c]["errors"] > 0
    BY <1>2, <2>1 DEF HostFails, CountedAll, ErrorsOf, Counters, RefInv, CoreInv, TypeOK
  <2>3. JobFailed' = TRUE
    BY <1>2, <2>2, NextOpen
  <2> QED BY <1>3, <1>4, <2>1, <2>3 DEF Zone!GiveUp, Zone!Put, Add
<1> QED BY <1>5, <1>6

LEMMA DeleteMaps ==
    ASSUME RefInv, RefInv', NEW c \in Callers, DeleteARecord(c)
    PROVE  Zone!Remove(Host(c))
<1>1. PICK outcome \in Outcomes :
        /\ Write(Delete(Target(Host(c))), outcome)
        /\ IF Succeeds(outcome) THEN HostDone(c) ELSE HostFails(c)
  BY DEF DeleteARecord
<1>2. /\ pc[c] = "deleting" /\ UNCHANGED <<todo, op>> /\ Step(c) /\ op[c] = "DeleteHostnames"
      /\ pc'[c] = "working" /\ hosts'[c] = Rest(c)
  BY <1>1 DEF DeleteARecord, Step, HostDone, HostFails, AfterError, RefInv, CoreInv, TypeOK,
              Allowed, WritesAllowed
<1>3. Job = "remove" /\ Host(c) \in Matching
  BY <1>2, AtOpenHost
<1>4. result'[c]["errors"] = result[c]["errors"]
  BY <1>1, <1>2 DEF HostDone, HostFails, CountedAll, SuccessOf, ErrorsOf, Counters, RefInv,
                    CoreInv, TypeOK
<1>5. Job' = Job /\ JobFailed' = JobFailed /\ OpenNames' \in {OpenNames, OpenNames \ {Host(c)}}
  BY <1>2, <1>4, NextOpen
<1>6. /\ dns' \in {dns, dns \ {Target(Host(c))}}
      /\ late' \in {late, late \union {Delete(Target(Host(c)))}}
  BY <1>1 DEF Write, Applied, Delete
<1> QED BY <1>3, <1>5, <1>6 DEF Zone!Remove, Zone!Drop, Delete

\* A caller's step, by the kind of step.
LEMMA StepMaps ==
    ASSUME RefInv, RefInv', "other" \notin Outcomes, NEW c \in Callers, Step(c)
    PROVE  Zone!Next \/ UNCHANGED Zone!vars
<1>1. CASE List(c)
  BY <1>1, ListMaps DEF Zone!Next
<1>2. CASE ListFails(c) \/ Return(c)
  BY <1>2, LeaveMaps DEF Zone!Next
<1>3. CASE ProcessWorkload(c)
  BY <1>3, WorkloadMaps
<1>4. CASE Refuse(c) \/ Pretend(c)
  BY <1>4, PassMaps
<1>5. CASE \/ CheckBeforeAdd(c) \/ CheckBeforeDelete(c) \/ CheckFails(c)
           \/ AddARecord(c) \/ DeleteARecord(c)
  <2>1. Host(c) \in OpenNames
    <3>1. MaySend(c) \/ pc[c] \in {"adding", "deleting"}
      BY <1>5 DEF CheckBeforeAdd, CheckBeforeDelete, CheckFails, AddARecord, DeleteARecord
    <3> QED BY <3>1, AtOpenHost
  <2>2. \/ Zone!Settle(Host(c)) \/ Zone!GiveUp(Host(c)) \/ Zone!Remove(Host(c))
        \/ UNCHANGED Zone!vars
    BY <1>5, CheckAddMaps, CheckDeleteMaps, CheckFailsMaps, AddMaps, DeleteMaps
  <2> QED BY <2>1, <2>2 DEF Zone!Next
<1> QED BY <1>1, <1>2, <1>3, <1>4, <1>5 DEF Step

\* What happens beside the calls.
LEMMA EnvironmentMaps ==
    ASSUME RefInv, Environment
    PROVE  Zone!Next \/ UNCHANGED Zone!vars
<1>1. CASE UNCHANGED <<dryRun, callVars, asked>>
  <2>1. UNCHANGED <<Job, OpenNames, JobFailed>>
    BY <1>1 DEF callVars, Job, OpenNames, JobFailed, Ahead
  <2>2. ASSUME NEW w \in Workloads, DockerChange(w)
        PROVE  UNCHANGED Zone!vars
    BY <2>1, <2>2 DEF DockerChange, serverVars, Zone!vars
  <2>3. ASSUME NEW r \in EditedRecords, ZoneEdited(r)
        PROVE  Zone!Edit(r)
    BY <2>1, <2>3 DEF ZoneEdited, OutsideEdit, Zone!Edit
  <2>4. ASSUME NEW req \in late, RequestArrivesLate(req)
        PROVE  Zone!Arrive(req)
    BY <2>1, <2>4 DEF RequestArrivesLate, LateArrival, Applied, Zone!Arrive, Zone!Outcome
  <2>5. CASE ProcessRestarts
    <3>1. mu = NoCaller
      BY <1>1, <2>5 DEF ProcessRestarts, callVars
    <3>2. \A c \in Callers : InFlight(c) = {}
      BY <3>1, ReconcilerAssumption
         DEF RefInv, CoreInv, MutexHeld, Inside, Places, InFlight
    <3>3. UNCHANGED <<dns, late>>
      BY <2>5, <3>2 DEF ProcessRestarts
    <3> QED BY <2>1, <3>3 DEF Zone!vars
  <2> QED BY <2>2, <2>3, <2>4, <2>5 DEF Environment, Zone!Next
<1>2. CASE ProcessRestarts
  <2>1. Job' = "none" /\ OpenNames' = {} /\ JobFailed' = FALSE /\ dns' = dns
    BY <1>2 DEF ProcessRestarts, Job, OpenNames, JobFailed
  <2>2. \A c \in Callers : InFlight(c) # {} => mu = c
    BY DEF RefInv, CoreInv, MutexHeld, Inside, Places, InFlight
  <2>3. CASE late' = late
    <3>1. CASE Job = "none"
      <4>1. OpenNames = {} /\ JobFailed = FALSE
        <5>1. CASE mu = NoCaller
          BY <5>1, Idle
        <5>2. CASE mu # NoCaller
          <6>1. mu \in Callers /\ pc[mu] = "listing"
            BY <3>1, <5>2 DEF Job, RefInv, CoreInv, TypeOK
          <6> QED BY <6>1, ListingIsIdle
        <5> QED BY <5>1, <5>2
      <4> QED BY <2>1, <2>3, <3>1, <4>1 DEF Zone!vars
    <3>2. CASE Job # "none"
      BY <2>1, <2>3, <3>2 DEF Zone!Next, Zone!Crash, Zone!Over
    <3> QED BY <3>1, <3>2
  <2>4. CASE late' # late
    <3>1. PICK c \in Callers : InFlight(c) # {}
      BY <1>2, <2>4 DEF ProcessRestarts
    <3>2. mu = c /\ pc[c] \in {"adding", "deleting"}
      BY <2>2, <3>1 DEF InFlight
    <3>3. late' = late \union InFlight(c)
      <4>1. \A d \in Callers \ {c} : InFlight(d) = {}
        BY <2>2, <3>2
      <4> QED BY <1>2, <2>4, <4>1 DEF ProcessRestarts
    <3>4. /\ Host(c) \in Matching /\ Host(c) \in OpenNames
          /\ op[c] = "DeleteHostnames" <=> pc[c] = "deleting"
          /\ Job = IF op[c] = "DeleteHostnames" THEN "remove" ELSE "publish"
      BY <3>2, AtOpenHost DEF RefInv, CoreInv, Allowed, WritesAllowed
    <3>5. InFlight(c) = {IF Job = "publish" THEN Zone!Put(Host(c)) ELSE Zone!Drop(Host(c))}
      BY <3>2, <3>4 DEF InFlight, Zone!Put, Zone!Drop, Add, Delete
    <3>6. Job # "none"
      BY <3>4
    <3> QED BY <2>1, <3>3, <3>4, <3>5, <3>6 DEF Zone!Next, Zone!Crash, Zone!Over
  <2> QED BY <2>3, <2>4
<1> QED BY <1>1, <1>2, EnvironmentFrame

LEMMA NextMaps ==
    ASSUME RefInv, RefInv', "other" \notin Outcomes, [Next]_vars
    PROVE  [Zone!Next]_(Zone!vars)
<1>1. ASSUME NEW c \in Callers, Call(c)
      PROVE  UNCHANGED Zone!vars
  <2>1. UNCHANGED serverVars
    BY <1>1 DEF Call, CallReconcile, CallHostnames, serverVars
  <2> QED BY <1>1, <2>1, OthersStutter
<1>2. ASSUME NEW c \in Callers, Acquire(c)
      PROVE  Zone!Next \/ UNCHANGED Zone!vars
  BY <1>2, AcquireMaps DEF Zone!Next
<1>3. ASSUME NEW c \in Callers, Step(c)
      PROVE  Zone!Next \/ UNCHANGED Zone!vars
  BY <1>3, StepMaps
<1>4. ASSUME Environment
      PROVE  Zone!Next \/ UNCHANGED Zone!vars
  BY <1>4, EnvironmentMaps
<1>5. CASE UNCHANGED vars
  BY <1>5 DEF vars, callVars, serverVars, Zone!vars, Job, OpenNames, JobFailed, Ahead
<1> QED BY <1>1, <1>2, <1>3, <1>4, <1>5 DEF Next

\* To the zone, the callers and their three methods are one job at a time, and
\* a publishing job settles each of its names or fails, as long as the server
\* answers a write with "ok" or "error".
THEOREM Refinement ==
    ASSUME "other" \notin Outcomes
    PROVE  Spec => IsManagedZone
<1>1. Init => RefInv
  BY InitRef
<1>2. RefInv /\ [Next]_vars => RefInv'
  BY RefStep
<1>3. Init => Zone!Init
  BY Idle DEF Init, ServerInit, Zone!Init
<1>4. RefInv /\ RefInv' /\ [Next]_vars => [Zone!Next]_(Zone!vars)
  BY NextMaps
<1> QED BY <1>1, <1>2, <1>3, <1>4, PTL DEF Spec, IsManagedZone, Zone!Spec
=============================================================================
