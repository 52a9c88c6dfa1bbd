-------------------------- MODULE ReconcilerProofs --------------------------
(* Proofs about the specification of Reconciler, for all constants.        *)
EXTENDS Reconciler, FiniteSetTheorems, TLAPS

USE DEF history

-----------------------------------------------------------------------------
(* Lemmas about the helpers.                                               *)

\* A walk through a list of names keeps to a list of names.
LEMMA Walk ==
    ASSUME NEW s \in Seq(Names), s # <<>>
    PROVE  /\ Head(s) \in Names
           /\ Tail(s) \in Seq(Names)
           /\ Len(Tail(s)) = Len(s) - 1
           /\ MembersOf(s) = {Head(s)} \union MembersOf(Tail(s))
<1>1. /\ Head(s) = s[1] /\ Len(s) \in Nat \ {0} /\ DOMAIN s = 1 .. Len(s)
      /\ Tail(s) \in Seq(Names) /\ Len(Tail(s)) = Len(s) - 1
      /\ DOMAIN Tail(s) = 1 .. Len(s) - 1
      /\ \A i \in 1 .. Len(s) - 1 : Tail(s)[i] = s[i + 1]
  OBVIOUS
<1>2. Head(s) \in Names
  BY <1>1
<1>3. MembersOf(s) \subseteq {Head(s)} \union MembersOf(Tail(s))
  <2> SUFFICES ASSUME NEW i \in DOMAIN s, i # 1
               PROVE  s[i] \in MembersOf(Tail(s))
    BY <1>1 DEF MembersOf
  <2>1. i - 1 \in DOMAIN Tail(s) /\ Tail(s)[i - 1] = s[i]
    BY <1>1
  <2> QED BY <2>1 DEF MembersOf
<1>4. {Head(s)} \union MembersOf(Tail(s)) \subseteq MembersOf(s)
  <2>1. Head(s) \in MembersOf(s)
    BY <1>1 DEF MembersOf
  <2> SUFFICES ASSUME NEW i \in DOMAIN Tail(s)
               PROVE  Tail(s)[i] \in MembersOf(s)
    BY <2>1 DEF MembersOf
  <2>2. i + 1 \in DOMAIN s /\ Tail(s)[i] = s[i + 1]
    BY <1>1
  <2> QED BY <2>2 DEF MembersOf
<1> QED BY <1>1, <1>2, <1>3, <1>4

\* A counter goes up by a natural number.
LEMMA CountedType ==
    ASSUME result \in [Callers -> [Counters -> Nat]],
           NEW c \in Callers, NEW k \in Counters, NEW n \in Nat, Counted(c, k, n)
    PROVE  result' \in [Callers -> [Counters -> Nat]]
BY DEF Counted

LEMMA CountedAllType ==
    ASSUME result \in [Callers -> [Counters -> Nat]],
           NEW c \in Callers, NEW ks, CountedAll(c, ks)
    PROVE  result' \in [Callers -> [Counters -> Nat]]
BY DEF CountedAll

\* The listing is a finite set of workloads with their labels.
LEMMA ListingType ==
    ASSUME workloads \in [Workloads -> LabelSets \union {Absent}]
    PROVE  /\ ListWorkloads \subseteq Scanned
           /\ IsFiniteSet(ListWorkloads)
           /\ Cardinality(ListWorkloads) \in Nat
<1>1. ListWorkloads \subseteq Scanned
  BY DEF ListWorkloads, Running, Scanned
<1>2. IsFiniteSet(Running)
  BY ReconcilerAssumption, FS_Subset DEF Running
<1>3. IsFiniteSet(ListWorkloads)
  <2> DEFINE f == [w \in Running |-> [id |-> w, labels |-> workloads[w]]]
  <2>1. f \in Surjection(Running, ListWorkloads)
    BY DEF Surjection, ListWorkloads
  <2> QED BY <1>2, <2>1, FS_Surjection
<1> QED BY <1>1, <1>3, FS_CardinalityType

\* The target record of a name is a record, its requests are requests.
LEMMA TargetType ==
    ASSUME NEW h \in Names
    PROVE  /\ Target(h) \in Record
           /\ Add(Target(h)) \in Requests
           /\ Delete(Target(h)) \in Requests
BY ReconcilerAssumption, TechnitiumAssumption
   DEF Target, ARecord, Record, Add, Delete, Requests

\* A write leaves the server with records and requests.
LEMMA WriteType ==
    ASSUME ServerTypeOK, NEW req \in Requests, NEW outcome \in Outcomes,
           Write(req, outcome)
    PROVE  ServerTypeOK'
BY DEF ServerTypeOK, Write, Applied, Requests

\* What the labels of a workload name are names.
LEMMA NamesInType ==
    ASSUME NEW labels \in LabelSets
    PROVE  NamesIn(labels) \subseteq Names
BY ReconcilerAssumption DEF NamesIn, MembersOf

-----------------------------------------------------------------------------
(* Type correctness.                                                       *)

LEMMA InitType == Init => TypeOK
BY ReconcilerAssumption
   DEF Init, TypeOK, ServerInit, ServerTypeOK, Places, Methods, Zero, Counters

\* Leaving a method resets what the caller kept.
LEMMA LeaveType ==
    ASSUME TypeOK, NEW c \in Callers, Leave(c)
    PROVE  TypeOK'
BY DEF TypeOK, Leave, Release, Places, Methods, Zero, ServerTypeOK, serverVars

LEMMA CallType ==
    ASSUME TypeOK, NEW c \in Callers, Call(c)
    PROVE  TypeOK'
BY ReconcilerAssumption
   DEF TypeOK, Call, CallReconcile, CallHostnames, Places, Methods, ServerTypeOK, serverVars

\* The rest of a caller's list, and the lists with it put in place.
LEMMA WalkOn ==
    ASSUME TypeOK, NEW c \in Callers, hosts[c] # <<>>
    PROVE  /\ Host(c) \in Names
           /\ [hosts EXCEPT ![c] = Rest(c)] \in [Callers -> Seq(Names)]
           /\ [hosts EXCEPT ![c] = AfterError(c)] \in [Callers -> Seq(Names)]
BY Walk DEF TypeOK, Host, Rest, AfterError

LEMMA StepType ==
    ASSUME TypeOK, \A d \in Callers : WritesAllowed(d), NEW c \in Callers, Acquire(c) \/ Step(c)
    PROVE  TypeOK'
<1> USE DEF Places, ServerTypeOK, serverVars
<1>1. CASE Acquire(c)
  <2>1. Len(hosts[c]) \in Nat /\ MembersOf(hosts[c]) \subseteq Names
    BY DEF TypeOK, MembersOf
  <2>2. result' \in [Callers -> [Counters -> Nat]]
    BY <1>1, <2>1, CountedType DEF TypeOK, Acquire, Counters
  <2> QED BY <1>1, <2>1, <2>2 DEF TypeOK, Acquire
<1>2. CASE List(c)
  <2>1. result' \in [Callers -> [Counters -> Nat]]
    BY <1>2, ListingType, CountedType DEF TypeOK, List, Counters
  <2>2. NamesOf(ListWorkloads) \subseteq Names
    BY ListingType, NamesInType DEF TypeOK, Scanned, NamesOf
  <2> QED BY <1>2, <2>1, <2>2, ListingType DEF TypeOK, List
<1>3. CASE ListFails(c)
  BY <1>3, LeaveType DEF ListFails
<1>4. CASE ProcessWorkload(c)
  <2>1. PICK w \in todo[c] : \E list \in HostLists[w.labels] :
          /\ todo' = [todo EXCEPT ![c] = @ \ {w}]
          /\ hosts' = [hosts EXCEPT ![c] = list]
          /\ Counted(c, "found", Len(list))
    BY <1>4 DEF ProcessWorkload
  <2>2. PICK list \in HostLists[w.labels] :
          /\ hosts' = [hosts EXCEPT ![c] = list]
          /\ Counted(c, "found", Len(list))
    BY <2>1
  <2>3. list \in Seq(Names)
    BY <2>1, <2>2, ReconcilerAssumption DEF TypeOK, Scanned
  <2>4. result' \in [Callers -> [Counters -> Nat]]
    BY <2>2, <2>3, CountedType DEF TypeOK, Counters
  <2> QED BY <1>4, <2>1, <2>2, <2>3, <2>4 DEF TypeOK, ProcessWorkload
<1>5. CASE Refuse(c)
  BY <1>5, WalkOn DEF TypeOK, Refuse, AtHost
<1>6. CASE Pretend(c)
  <2>1. result' \in [Callers -> [Counters -> Nat]]
    BY <1>6, CountedAllType DEF TypeOK, Pretend
  <2> QED BY <1>6, <2>1, WalkOn DEF TypeOK, Pretend, AtHost
<1>7. CASE CheckBeforeAdd(c)
  <2>1. result' \in [Callers -> [Counters -> Nat]]
    BY <1>7, CountedAllType DEF TypeOK, CheckBeforeAdd
  <2> QED BY <1>7, <2>1, WalkOn DEF TypeOK, CheckBeforeAdd, MaySend, AtHost
<1>8. CASE CheckBeforeDelete(c)
  BY <1>8, WalkOn DEF TypeOK, CheckBeforeDelete, MaySend, AtHost
<1>9. CASE CheckFails(c)
  <2>1. result' \in [Callers -> [Counters -> Nat]]
    BY <1>9, CountedAllType DEF TypeOK, CheckFails
  <2> QED BY <1>9, <2>1, WalkOn DEF TypeOK, CheckFails, MaySend, AtHost
<1>10. CASE AddARecord(c)
  <2>1. PICK outcome \in Outcomes :
          /\ Write(Add(Target(Host(c))), outcome)
          /\ IF Succeeds(outcome) THEN HostDone(c) ELSE HostFails(c)
    BY <1>10 DEF AddARecord
  <2>2. hosts[c] # <<>> /\ Host(c) \in Names
    BY <1>10, Walk DEF AddARecord, TypeOK, WritesAllowed, Host
  <2>3. ServerTypeOK'
    BY <2>1, <2>2, TargetType, WriteType DEF TypeOK
  <2>4. result' \in [Callers -> [Counters -> Nat]]
    BY <2>1, CountedAllType DEF HostDone, HostFails, TypeOK
  <2> QED BY <1>10, <2>1, <2>2, <2>3, <2>4, WalkOn DEF TypeOK, AddARecord, HostDone, HostFails
<1>11. CASE DeleteARecord(c)
  <2>1. PICK outcome \in Outcomes :
          /\ Write(Delete(Target(Host(c))), outcome)
          /\ IF Succeeds(outcome) THEN HostDone(c) ELSE HostFails(c)
    BY <1>11 DEF DeleteARecord
  <2>2. hosts[c] # <<>> /\ Host(c) \in Names
    BY <1>11, Walk DEF DeleteARecord, TypeOK, WritesAllowed, Host
  <2>3. ServerTypeOK'
    BY <2>1, <2>2, TargetType, WriteType DEF TypeOK
  <2>4. result' \in [Callers -> [Counters -> Nat]]
    BY <2>1, CountedAllType DEF HostDone, HostFails, TypeOK
  <2> QED BY <1>11, <2>1, <2>2, <2>3, <2>4, WalkOn DEF TypeOK, DeleteARecord, HostDone, HostFails
<1>12. CASE Return(c)
  BY <1>12, LeaveType DEF Return
<1> QED
  BY <1>1, <1>2, <1>3, <1>4, <1>5, <1>6, <1>7, <1>8, <1>9, <1>10, <1>11, <1>12 DEF Step

LEMMA EnvironmentType ==
    ASSUME TypeOK, \A c \in Callers : WritesAllowed(c), Environment
    PROVE  TypeOK'
<1> USE DEF Places, Methods, ServerTypeOK, serverVars, callVars
<1>1. ASSUME NEW w \in Workloads, DockerChange(w) PROVE TypeOK'
  BY <1>1 DEF DockerChange, TypeOK
<1>2. ASSUME NEW r \in EditedRecords, ZoneEdited(r) PROVE TypeOK'
  BY <1>2, ReconcilerAssumption DEF ZoneEdited, OutsideEdit, TypeOK
<1>3. ASSUME NEW req \in late, RequestArrivesLate(req) PROVE TypeOK'
  BY <1>3 DEF RequestArrivesLate, LateArrival, Applied, Requests, TypeOK
<1>4. ASSUME ProcessRestarts PROVE TypeOK'
  <2>1. ASSUME NEW c \in Callers PROVE InFlight(c) \subseteq Requests
    <3>1. pc[c] \in {"adding", "deleting"} => Host(c) \in Names
      BY <2>1, Walk DEF TypeOK, WritesAllowed, Host
    <3> QED BY <3>1, TargetType DEF InFlight
  <2>2. late' \subseteq Requests
    BY <1>4, <2>1 DEF ProcessRestarts, TypeOK
  <2> QED BY <1>4, <2>2 DEF ProcessRestarts, TypeOK, Zero, Counters
<1> QED BY <1>1, <1>2, <1>3, <1>4 DEF Environment

-----------------------------------------------------------------------------
(* One caller's step beside the others.                                    *)

\* A step of one caller leaves the calls of the others alone.
LEMMA Frame ==
    ASSUME TypeOK, NEW c \in Callers, NEW d \in Callers, d # c,
           Call(c) \/ Acquire(c) \/ Step(c)
    PROVE  /\ pc'[d] = pc[d] /\ op'[d] = op[d] /\ todo'[d] = todo[d]
           /\ hosts'[d] = hosts[d] /\ result'[d] = result[d] /\ asked'[d] = asked[d]
           /\ dryRun' = dryRun
<1> USE DEF TypeOK
<1>1. CASE Call(c)
  BY <1>1 DEF Call, CallReconcile, CallHostnames
<1>2. CASE Acquire(c)
  BY <1>2 DEF Acquire, Counted
<1>3. CASE List(c)
  BY <1>3 DEF List, Counted
<1>4. CASE ListFails(c) \/ Return(c)
  BY <1>4 DEF ListFails, Return, Leave
<1>5. CASE ProcessWorkload(c)
  BY <1>5 DEF ProcessWorkload, Counted
<1>6. CASE Refuse(c) \/ Pretend(c)
  BY <1>6 DEF Refuse, Pretend, CountedAll
<1>7. CASE CheckBeforeAdd(c)
  BY <1>7 DEF CheckBeforeAdd, CountedAll
<1>8. CASE CheckBeforeDelete(c) \/ CheckFails(c)
  BY <1>8 DEF CheckBeforeDelete, CheckFails, CountedAll
<1>9. CASE AddARecord(c) \/ DeleteARecord(c)
  BY <1>9 DEF AddARecord, DeleteARecord, HostDone, HostFails, CountedAll
<1> QED BY <1>1, <1>2, <1>3, <1>4, <1>5, <1>6, <1>7, <1>8, <1>9 DEF Step

\* Nothing changes the setting.
LEMMA SettingFrame == [Next]_vars => dryRun' = dryRun
<1> SUFFICES ASSUME Next
             PROVE  dryRun' = dryRun
  BY DEF vars
<1>1. ASSUME NEW c \in Callers, Call(c) \/ Acquire(c)
      PROVE  dryRun' = dryRun
  BY <1>1 DEF Call, CallReconcile, CallHostnames, Acquire
<1>2. ASSUME NEW c \in Callers, Step(c)
      PROVE  dryRun' = dryRun
  BY <1>2 DEF Step, List, ListFails, Return, Leave, ProcessWorkload, Refuse, Pretend,
             CheckBeforeAdd, CheckBeforeDelete, CheckFails, AddARecord, DeleteARecord
<1>3. ASSUME Environment
      PROVE  dryRun' = dryRun
  BY <1>3 DEF Environment, DockerChange, ZoneEdited, RequestArrivesLate, ProcessRestarts
<1> QED BY <1>1, <1>2, <1>3 DEF Next

\* Where the steps of a caller start and where they lead.
LEMMA StepPlaces ==
    ASSUME TypeOK, NEW c \in Callers, Step(c)
    PROVE  /\ pc[c] \in Inside
           /\ \/ pc'[c] \in Inside /\ mu' = mu
              \/ pc'[c] = "idle" /\ mu' = NoCaller
           /\ op'[c] = op[c] \/ pc'[c] = "idle"
<1> USE DEF TypeOK, Inside, Places
<1>1. CASE List(c)
  BY <1>1 DEF List
<1>2. CASE ListFails(c) \/ Return(c)
  BY <1>2 DEF ListFails, Return, Finished, Leave, Release
<1>3. CASE ProcessWorkload(c)
  BY <1>3 DEF ProcessWorkload
<1>4. CASE Refuse(c) \/ Pretend(c)
  BY <1>4 DEF Refuse, Pretend, AtHost
<1>5. CASE CheckBeforeAdd(c)
  BY <1>5 DEF CheckBeforeAdd, MaySend, AtHost
<1>6. CASE CheckBeforeDelete(c) \/ CheckFails(c)
  BY <1>6 DEF CheckBeforeDelete, CheckFails, MaySend, AtHost
<1>7. CASE AddARecord(c) \/ DeleteARecord(c)
  BY <1>7 DEF AddARecord, DeleteARecord, HostDone, HostFails
<1> QED BY <1>1, <1>2, <1>3, <1>4, <1>5, <1>6, <1>7 DEF Step

\* A write is sent only for a name the filters accept and never in a dry run.
Allowed == \A c \in Callers : WritesAllowed(c)

LEMMA AllowedStep ==
    ASSUME TypeOK, Allowed, NEW c \in Callers, Call(c) \/ Acquire(c) \/ Step(c)
    PROVE  Allowed'
<1>1. ASSUME NEW d \in Callers, d # c PROVE WritesAllowed(d)'
  BY <1>1, Frame DEF Allowed, WritesAllowed, Host
<1>2. WritesAllowed(c)'
  <2> USE DEF TypeOK
  <2>1. CASE CheckBeforeAdd(c) \/ CheckBeforeDelete(c)
    BY <2>1 DEF CheckBeforeAdd, CheckBeforeDelete, MaySend, AtHost, MatchesFilters,
                WritesAllowed, Host
  <2>2. CASE Call(c) \/ Acquire(c) \/ List(c) \/ ListFails(c) \/ Return(c)
    BY <2>2 DEF Call, CallReconcile, CallHostnames, Acquire, List, ListFails, Return,
                Leave, WritesAllowed
  <2>3. CASE ProcessWorkload(c) \/ Refuse(c) \/ Pretend(c) \/ CheckFails(c)
    BY <2>3 DEF ProcessWorkload, Refuse, Pretend, CheckFails, MaySend, AtHost, WritesAllowed
  <2>4. CASE AddARecord(c) \/ DeleteARecord(c)
    BY <2>4 DEF AddARecord, DeleteARecord, HostDone, HostFails, WritesAllowed
  <2> QED BY <2>1, <2>2, <2>3, <2>4 DEF Step
<1> QED BY <1>1, <1>2 DEF Allowed

\* What the surroundings do to the calls: nothing, or the process ends.
LEMMA EnvironmentFrame ==
    ASSUME Environment
    PROVE  \/ UNCHANGED <<dryRun, callVars, asked>>
           \/ ProcessRestarts
BY DEF Environment, DockerChange, ZoneEdited, RequestArrivesLate

-----------------------------------------------------------------------------
(* Types and mutual exclusion, together inductive with Allowed.            *)

CoreInv == TypeOK /\ Allowed /\ MutexHeld

LEMMA InitCore == Init => CoreInv
BY InitType, ReconcilerAssumption
   DEF CoreInv, Init, Allowed, WritesAllowed, MutexHeld, Inside, Places

LEMMA CoreStep ==
    ASSUME CoreInv, [Next]_vars
    PROVE  CoreInv'
<1> USE DEF CoreInv
<1>1. ASSUME NEW c \in Callers, Call(c)
      PROVE  CoreInv'
  <2>1. MutexHeld'
    BY <1>1 DEF Call, CallReconcile, CallHostnames, MutexHeld, TypeOK, Inside, Places
  <2> QED BY <1>1, <2>1, CallType, AllowedStep
<1>2. ASSUME NEW c \in Callers, Acquire(c)
      PROVE  CoreInv'
  <2>1. MutexHeld'
    BY <1>2, ReconcilerAssumption
       DEF Acquire, LockFree, MutexHeld, TypeOK, Inside, Places
  <2> QED BY <1>2, <2>1, StepType, AllowedStep DEF Allowed
<1>3. ASSUME NEW c \in Callers, Step(c)
      PROVE  CoreInv'
  <2>1. mu = c /\ \A d \in Callers \ {c} : pc'[d] = pc[d] /\ pc[d] \notin Inside
    BY <1>3, StepPlaces, Frame DEF MutexHeld
  <2>2. MutexHeld'
    BY <1>3, <2>1, StepPlaces, ReconcilerAssumption DEF MutexHeld, Inside
  <2> QED BY <1>3, <2>2, StepType, AllowedStep DEF Allowed
<1>4. ASSUME Environment
      PROVE  CoreInv'
  <2>1. TypeOK'
    BY <1>4, EnvironmentType DEF Allowed
  <2>2. CASE UNCHANGED <<dryRun, callVars, asked>>
    BY <2>1, <2>2 DEF callVars, Allowed, WritesAllowed, Host, MutexHeld
  <2>3. CASE ProcessRestarts
    BY <2>1, <2>3, ReconcilerAssumption
       DEF ProcessRestarts, Allowed, WritesAllowed, MutexHeld, Inside, Places
  <2> QED BY <1>4, <2>2, <2>3, EnvironmentFrame
<1>5. CASE UNCHANGED vars
  BY <1>5 DEF vars, callVars, serverVars, TypeOK, ServerTypeOK, Allowed, WritesAllowed,
              Host, MutexHeld
<1> QED BY <1>1, <1>2, <1>3, <1>4, <1>5 DEF Next

\* Every variable keeps its type, in every instance.
THEOREM TypeCorrect == Spec => []TypeOK
<1>1. Init => CoreInv
  BY InitCore
<1>2. CoreInv /\ [Next]_vars => CoreInv'
  BY CoreStep
<1>3. CoreInv => TypeOK
  BY DEF CoreInv
<1> QED BY <1>1, <1>2, <1>3, PTL DEF Spec

\* At most one call at a time is between Lock and Unlock, and it holds the mutex.
THEOREM MutualExclusion == Spec => []MutexHeld
<1>1. Init => CoreInv
  BY InitCore
<1>2. CoreInv /\ [Next]_vars => CoreInv'
  BY CoreStep
<1>3. CoreInv => MutexHeld
  BY DEF CoreInv
<1> QED BY <1>1, <1>2, <1>3, PTL DEF Spec

-----------------------------------------------------------------------------
(* Checks before writes.                                                   *)

\* HasARecord answers whether the zone holds the target record.
LEMMA HasARecordMeans ==
    ASSUME TypeOK, NEW h \in Names
    PROVE  HasARecord(h, TargetIP) <=> Target(h) \in dns
<1>1. ASSUME NEW r \in dns, r.name = h, r.type = "A", r.ip = TargetIP
      PROVE  r = Target(h)
  BY <1>1 DEF TypeOK, ServerTypeOK, Record, Target, ARecord
<1>2. HasARecord(h, TargetIP) => Target(h) \in dns
  BY <1>1 DEF HasARecord, GetRecords, Matches
<1>3. Target(h) \in dns => HasARecord(h, TargetIP)
  BY DEF HasARecord, GetRecords, Matches, Target, ARecord
<1> QED BY <1>2, <1>3

\* Only the two writing steps change the server or send anything to it.
LEMMA ServerFrame ==
    ASSUME TypeOK, NEW c \in Callers, Call(c) \/ Acquire(c) \/ Step(c),
           ~AddARecord(c), ~DeleteARecord(c)
    PROVE  UNCHANGED serverVars
BY DEF Call, CallReconcile, CallHostnames, Acquire, Step, List, ListFails, Return, Leave,
       ProcessWorkload, Refuse, Pretend, CheckBeforeAdd, CheckBeforeDelete, CheckFails

\* While a call is inside, what happens to a record beside it is noted: what
\* others change, and the requests given up on that come to something.
LEMMA NotedFrame ==
    ASSUME CoreInv, Environment, mu # NoCaller, UNCHANGED <<dryRun, callVars, asked>>
    PROVE  /\ touched \subseteq touched' /\ belated \subseteq belated'
           /\ \A r \in dns' \ dns : r \in touched' \/ Add(r) \in belated'
           /\ \A r \in dns \ dns' : r \in touched' \/ Delete(r) \in belated'
<1>1. ASSUME NEW w \in Workloads, DockerChange(w)
      PROVE  UNCHANGED <<touched, belated, dns>>
  BY <1>1 DEF DockerChange, serverVars
<1>2. ASSUME NEW r \in EditedRecords, ZoneEdited(r)
      PROVE  touched' = touched \union {r} /\ belated' = belated /\ Changed \subseteq {r}
  BY <1>2 DEF ZoneEdited, OutsideEdit, Changed
<1>3. ASSUME NEW req \in late, RequestArrivesLate(req)
      PROVE  /\ touched' = touched /\ belated \subseteq belated'
             /\ \A r \in dns' \ dns : Add(r) \in belated'
             /\ \A r \in dns \ dns' : Delete(r) \in belated'
  <2>1. req = Add(req.record) \/ req = Delete(req.record)
    BY DEF CoreInv, TypeOK, ServerTypeOK, Requests, Add, Delete
  <2>2. dns' = dns \/ belated' = belated \union {req}
    BY <1>3 DEF RequestArrivesLate
  <2>3. dns' \in {dns, Applied(req, dns)} /\ touched' = touched /\ belated \subseteq belated'
    BY <1>3 DEF RequestArrivesLate, LateArrival
  <2>4. CASE req = Add(req.record)
    BY <2>2, <2>3, <2>4 DEF Applied, Add
  <2>5. CASE req = Delete(req.record)
    BY <2>2, <2>3, <2>5 DEF Applied, Delete
  <2> QED BY <2>1, <2>4, <2>5
<1>4. ~ProcessRestarts
  BY DEF ProcessRestarts, callVars
<1> QED BY <1>1, <1>2, <1>3, <1>4 DEF Environment, Changed

LEMMA InitChecks == Init => CheckStillHolds
BY DEF Init, CheckStillHolds

LEMMA ChecksStep ==
    ASSUME CoreInv, CoreInv', CheckStillHolds, [Next]_vars
    PROVE  CheckStillHolds'
<1> USE DEF CoreInv
<1>1. ASSUME NEW c \in Callers, Call(c) \/ Acquire(c)
      PROVE  CheckStillHolds'
  <2>1. UNCHANGED <<dns, touched, belated>> /\ pc'[c] \notin {"adding", "deleting"}
    BY <1>1 DEF Call, CallReconcile, CallHostnames, Acquire, serverVars, TypeOK
  <2> QED BY <1>1, <2>1, Frame DEF CheckStillHolds, Host
<1>2. ASSUME NEW c \in Callers, Step(c)
      PROVE  CheckStillHolds'
  <2>1. \A d \in Callers \ {c} : pc'[d] \notin {"adding", "deleting"}
    BY <1>2, StepPlaces, Frame DEF MutexHeld, Inside, Places
  <2>2. CASE CheckBeforeAdd(c) \/ CheckBeforeDelete(c)
    <3>1. UNCHANGED <<dns, touched, belated>> /\ Host(c) \in Names /\ pc[c] = "working"
      BY <2>2, WalkOn DEF CheckBeforeAdd, CheckBeforeDelete, MaySend, AtHost, serverVars
    <3>2. pc'[c] = "adding" => hosts' = hosts /\ Target(Host(c)) \notin dns
      BY <2>2, <3>1, HasARecordMeans DEF CheckBeforeAdd, CheckBeforeDelete, TypeOK
    <3>3. pc'[c] = "deleting" => hosts' = hosts /\ Target(Host(c)) \in dns
      BY <2>2, <3>1, HasARecordMeans DEF CheckBeforeAdd, CheckBeforeDelete, TypeOK
    <3> QED BY <2>1, <3>1, <3>2, <3>3 DEF CheckStillHolds, Host
  <2>3. CASE ~(CheckBeforeAdd(c) \/ CheckBeforeDelete(c))
    <3>1. pc'[c] \notin {"adding", "deleting"}
      BY <1>2, <2>3
         DEF Step, List, ListFails, Return, Leave, ProcessWorkload, Refuse, Pretend, CheckFails,
             MaySend, AtHost, AddARecord, DeleteARecord, HostDone, HostFails, TypeOK
    <3> QED BY <2>1, <3>1 DEF CheckStillHolds
  <2> QED BY <2>2, <2>3
<1>3. ASSUME Environment
      PROVE  CheckStillHolds'
  <2>1. CASE UNCHANGED <<dryRun, callVars, asked>>
    <3> SUFFICES ASSUME NEW c \in Callers, pc[c] \in {"adding", "deleting"}
                 PROVE  LET r == Target(Host(c)) IN
                        /\ pc[c] = "adding" =>
                              r \notin dns' \/ r \in touched' \/ Add(r) \in belated'
                        /\ pc[c] = "deleting" =>
                              r \in dns' \/ r \in touched' \/ Delete(r) \in belated'
      BY <2>1 DEF CheckStillHolds, Host, callVars
    <3>1. mu # NoCaller
      BY ReconcilerAssumption DEF MutexHeld, Inside, Places
    <3>2. /\ touched \subseteq touched' /\ belated \subseteq belated'
          /\ \A r \in dns' \ dns : r \in touched' \/ Add(r) \in belated'
          /\ \A r \in dns \ dns' : r \in touched' \/ Delete(r) \in belated'
      BY <1>3, <2>1, <3>1, NotedFrame
    <3> QED BY <3>2 DEF CheckStillHolds
  <2>2. CASE ProcessRestarts
    BY <2>2 DEF ProcessRestarts, CheckStillHolds
  <2> QED BY <1>3, <2>1, <2>2, EnvironmentFrame
<1>4. CASE UNCHANGED vars
  BY <1>4 DEF vars, callVars, serverVars, CheckStillHolds, Host
<1> QED BY <1>1, <1>2, <1>3, <1>4 DEF Next

\* Between a check and its write the answer goes stale only by an edit of
\* somebody else or by a request the program had given up on: no other call
\* and no request it waits for does it, for any number of callers.
THEOREM ChecksHold == Spec => []CheckStillHolds
<1>1. Init => CoreInv /\ CheckStillHolds
  BY InitCore, InitChecks
<1>2. CoreInv /\ CheckStillHolds /\ [Next]_vars => CoreInv' /\ CheckStillHolds'
  BY CoreStep, ChecksStep
<1> QED BY <1>1, <1>2, PTL DEF Spec

-----------------------------------------------------------------------------
(* A clean run publishes what it was asked for.                            *)

\* Midway through a run without errors, a name it was asked for is published,
\* or was changed by somebody else or by a deletion that came late, or is still
\* ahead of it.
CleanSoFar(c) ==
    /\ pc[c] \in {"working", "adding"}
    /\ op[c] # "DeleteHostnames"
    /\ ~dryRun
    /\ result[c].errors = 0
Covered(c) == CleanSoFar(c) =>
    \A h \in asked[c] :
        /\ h \in Matching
        /\ \/ Target(h) \in dns \union touched
           \/ Delete(Target(h)) \in belated
           \/ h \in Ahead(c)
PublishInv == \A c \in Callers : Covered(c)

\* The steps that begin a run: everything asked for lies ahead.
LEMMA BeginCovered ==
    ASSUME CoreInv, NEW c \in Callers, Acquire(c) \/ List(c)
    PROVE  Covered(c)'
<1> USE DEF CoreInv, TypeOK
<1>1. CASE Acquire(c)
  <2>1. CASE op[c] = "ReconcileHostnames"
    BY <1>1, <2>1 DEF Acquire, Covered, Ahead, MembersOf
  <2>2. CASE op[c] # "ReconcileHostnames"
    BY <1>1, <2>2 DEF Acquire, Covered, CleanSoFar, Methods
  <2> QED BY <2>1, <2>2
<1>2. CASE List(c)
  <2>1. /\ asked'[c] = NamesOf(ListWorkloads) \intersect Matching
        /\ todo'[c] = ListWorkloads
    BY <1>2 DEF List
  <2> QED BY <2>1 DEF Covered, Ahead
<1> QED BY <1>1, <1>2

\* Taking up a workload moves its names from the listing to the host list.
LEMMA WorkloadCovered ==
    ASSUME CoreInv, NEW c \in Callers, Covered(c), ProcessWorkload(c)
    PROVE  Covered(c)'
<1> USE DEF CoreInv, TypeOK
<1>1. PICK w \in todo[c] : \E list \in HostLists[w.labels] :
        /\ todo' = [todo EXCEPT ![c] = @ \ {w}]
        /\ hosts' = [hosts EXCEPT ![c] = list]
        /\ Counted(c, "found", Len(list))
  BY DEF ProcessWorkload
<1>2. PICK list \in HostLists[w.labels] :
        /\ hosts' = [hosts EXCEPT ![c] = list]
        /\ Counted(c, "found", Len(list))
  BY <1>1
<1>3. NamesIn(w.labels) \subseteq MembersOf(list)
  <2>1. w.labels \in LabelSets
    BY DEF Scanned
  <2>2. \A s \in HostLists[w.labels] : MembersOf(s) = MembersOf(list)
    BY <1>2, <2>1, ReconcilerAssumption DEF MembersOf
  <2> QED BY <2>2 DEF NamesIn
<1>4. MembersOf(hosts[c]) = {}
  BY DEF ProcessWorkload, MembersOf
<1>5. Ahead(c) \subseteq Ahead(c)'
  <2> SUFFICES ASSUME NEW v \in todo[c]
               PROVE  NamesIn(v.labels) \subseteq Ahead(c)'
    BY <1>4 DEF Ahead, NamesOf
  <2>1. hosts'[c] = list /\ todo'[c] = todo[c] \ {w}
    BY <1>1, <1>2
  <2>2. CASE v = w
    BY <1>3, <2>1, <2>2 DEF Ahead
  <2>3. CASE v # w
    BY <2>1, <2>3 DEF Ahead, NamesOf
  <2> QED BY <2>2, <2>3
<1>6. CleanSoFar(c)' => CleanSoFar(c)
  BY <1>2 DEF ProcessWorkload, CleanSoFar, Counted, Counters
<1>7. UNCHANGED <<asked, dns, touched, belated>>
  BY DEF ProcessWorkload, serverVars
<1> QED BY <1>5, <1>6, <1>7 DEF Covered

\* Going on to the next host name: the one left behind is published, or was
\* not asked for, or the run is no longer clean.
LEMMA NextHostCovered ==
    ASSUME CoreInv, NEW c \in Callers, Covered(c), hosts[c] # <<>>,
           hosts' = [hosts EXCEPT ![c] = Rest(c)],
           UNCHANGED <<todo, asked, touched, belated>>,
           CleanSoFar(c)' => CleanSoFar(c) /\ dns \subseteq dns',
           CleanSoFar(c)' => Host(c) \notin Matching \/ Target(Host(c)) \in dns'
    PROVE  Covered(c)'
<1>1. MembersOf(hosts[c]) = {Host(c)} \union MembersOf(hosts'[c])
  BY Walk DEF CoreInv, TypeOK, Host, Rest
<1>2. Ahead(c) \subseteq {Host(c)} \union Ahead(c)'
  BY <1>1 DEF Ahead
<1> QED BY <1>2 DEF Covered

\* The steps at one host name.
LEMMA HostCovered ==
    ASSUME CoreInv, "other" \notin Outcomes, NEW c \in Callers, Covered(c),
           \/ Refuse(c) \/ Pretend(c) \/ CheckBeforeAdd(c) \/ CheckBeforeDelete(c)
           \/ CheckFails(c) \/ AddARecord(c) \/ DeleteARecord(c)
    PROVE  Covered(c)'
<1> USE DEF CoreInv, TypeOK
<1>1. CASE Refuse(c)
  BY <1>1, NextHostCovered
     DEF Refuse, AtHost, MatchesFilters, CleanSoFar, serverVars
<1>2. CASE Pretend(c)
  BY <1>2 DEF Pretend, Covered, CleanSoFar
<1>3. CASE CheckBeforeAdd(c)
  <2>1. CleanSoFar(c)' => CleanSoFar(c)
    BY <1>3 DEF CheckBeforeAdd, MaySend, AtHost, CleanSoFar, CountedAll, Counters
  <2>2. CASE HasARecord(Host(c), TargetIP)
    <3>1. Target(Host(c)) \in dns
      BY <1>3, <2>2, WalkOn, HasARecordMeans DEF CheckBeforeAdd, MaySend, AtHost
    <3> QED
      BY <1>3, <2>1, <2>2, <3>1, NextHostCovered
         DEF CheckBeforeAdd, MaySend, AtHost, serverVars
  <2>3. CASE ~HasARecord(Host(c), TargetIP)
    BY <1>3, <2>1, <2>3 DEF CheckBeforeAdd, Covered, Ahead, serverVars
  <2> QED BY <2>2, <2>3
<1>4. CASE CheckBeforeDelete(c)
  BY <1>4 DEF CheckBeforeDelete, Covered, CleanSoFar
<1>5. CASE CheckFails(c)
  <2>1. op[c] = "DeleteHostnames" \/ result'[c].errors # 0
    BY <1>5 DEF CheckFails, CountedAll, ErrorsOf, FilteredOf, Counters
  <2> QED BY <1>5, <2>1 DEF CheckFails, Covered, CleanSoFar
<1>6. CASE AddARecord(c) \/ DeleteARecord(c)
  <2>1. /\ hosts[c] # <<>> /\ UNCHANGED <<op, todo, asked, touched, belated>>
        /\ op[c] # "DeleteHostnames" => AddARecord(c)
    BY <1>6 DEF AddARecord, DeleteARecord, Allowed, WritesAllowed
  <2>2. CASE op[c] = "DeleteHostnames"
    BY <2>1, <2>2 DEF Covered, CleanSoFar
  <2>3. CASE op[c] # "DeleteHostnames" /\ HostFails(c)
    <3>1. result'[c].errors # 0
      BY <2>3 DEF HostFails, CountedAll, ErrorsOf, Counters
    <3> QED BY <3>1 DEF Covered, CleanSoFar
  <2>4. CASE op[c] # "DeleteHostnames" /\ ~HostFails(c)
    <3>1. Write(Add(Target(Host(c))), "ok") /\ HostDone(c)
      BY <2>1, <2>4, TechnitiumAssumption DEF AddARecord, Succeeds, Fates
    <3>2. Target(Host(c)) \in dns' /\ dns \subseteq dns'
      BY <3>1 DEF Write, Applied, Add
    <3>3. CleanSoFar(c)' => CleanSoFar(c)
      BY <2>1, <3>1, <1>6 DEF AddARecord, DeleteARecord, HostDone, CountedAll, SuccessOf,
                             Counters, CleanSoFar
    <3> QED BY <2>1, <3>1, <3>2, <3>3, NextHostCovered DEF HostDone
  <2> QED BY <2>2, <2>3, <2>4
<1> QED BY <1>1, <1>2, <1>3, <1>4, <1>5, <1>6

LEMMA PublishStep ==
    ASSUME CoreInv, CoreInv', PublishInv, "other" \notin Outcomes, [Next]_vars
    PROVE  PublishInv'
<1> USE DEF CoreInv
<1>1. ASSUME NEW c \in Callers, Call(c)
      PROVE  PublishInv'
  <2>1. /\ UNCHANGED <<dns, touched, belated>> /\ pc'[c] \notin {"working", "adding"}
    BY <1>1 DEF Call, CallReconcile, CallHostnames, serverVars, TypeOK
  <2> QED BY <1>1, <2>1, Frame DEF PublishInv, Covered, CleanSoFar, Ahead
<1>2. ASSUME NEW c \in Callers, Acquire(c)
      PROVE  PublishInv'
  <2>1. UNCHANGED <<dns, touched, belated>>
    BY <1>2 DEF Acquire, serverVars
  <2>2. ASSUME NEW d \in Callers, d # c PROVE Covered(d)'
    BY <1>2, <2>1, <2>2, Frame DEF PublishInv, Covered, CleanSoFar, Ahead
  <2> QED BY <1>2, <2>2, BeginCovered DEF PublishInv
<1>3. ASSUME NEW c \in Callers, Step(c)
      PROVE  PublishInv'
  <2>1. ASSUME NEW d \in Callers, d # c PROVE Covered(d)'
    BY <1>3, <2>1, StepPlaces, Frame DEF MutexHeld, Inside, Places, Covered, CleanSoFar
  <2>2. CASE ListFails(c) \/ Return(c)
    <3>1. Covered(c)'
      BY <2>2 DEF ListFails, Return, Leave, Covered, CleanSoFar, TypeOK
    <3> QED BY <2>1, <3>1 DEF PublishInv
  <2>3. CASE ~(ListFails(c) \/ Return(c))
    <3>1. Covered(c)'
      BY <1>3, <2>3, BeginCovered, WorkloadCovered, HostCovered DEF Step, PublishInv
    <3> QED BY <2>1, <3>1 DEF PublishInv
  <2> QED BY <2>2, <2>3
<1>4. ASSUME Environment
      PROVE  PublishInv'
  <2>1. CASE UNCHANGED <<dryRun, callVars, asked>>
    <3> SUFFICES ASSUME NEW c \in Callers, CleanSoFar(c)
                 PROVE  Covered(c)'
      BY <2>1 DEF PublishInv, Covered, CleanSoFar, callVars
    <3>1. mu # NoCaller
      BY ReconcilerAssumption DEF CleanSoFar, MutexHeld, Inside, Places
    <3>2. /\ touched \subseteq touched' /\ belated \subseteq belated'
          /\ \A r \in dns \ dns' : r \in touched' \/ Delete(r) \in belated'
      BY <1>4, <2>1, <3>1, NotedFrame
    <3>3. \A r : r \in dns \union touched \/ Delete(r) \in belated =>
                 r \in dns' \union touched' \/ Delete(r) \in belated'
      BY <3>2
    <3> QED BY <2>1, <3>3 DEF PublishInv, Covered, Ahead, callVars
  <2>2. CASE ProcessRestarts
    BY <2>2 DEF ProcessRestarts, PublishInv, Covered, CleanSoFar
  <2> QED BY <1>4, <2>1, <2>2, EnvironmentFrame
<1>5. CASE UNCHANGED vars
  BY <1>5 DEF vars, callVars, serverVars, PublishInv, Covered, CleanSoFar, Ahead
<1> QED BY <1>1, <1>2, <1>3, <1>4, <1>5 DEF Next

\* A run that ends without an error has published every name it was asked for,
\* as long as the server answers a write with "ok" or "error".
THEOREM Publishing ==
    ASSUME "other" \notin Outcomes
    PROVE  Spec => []CleanRunPublishes
<1>1. Init => CoreInv /\ PublishInv
  BY InitCore DEF Init, PublishInv, Covered, CleanSoFar
<1>2. CoreInv /\ PublishInv /\ [Next]_vars => CoreInv' /\ PublishInv'
  BY CoreStep, PublishStep
<1>3. CoreInv /\ PublishInv => CleanRunPublishes
  BY DEF PublishInv, Covered, CleanSoFar, CleanRunPublishes, Finished, Ahead, NamesOf, MembersOf
<1> QED BY <1>1, <1>2, <1>3, PTL DEF Spec

-----------------------------------------------------------------------------
(* The program writes only what it manages.                                *)

\* Requests that are still to arrive were allowed when they were sent.
LateInv == \A req \in late : req.record \in Managed

\* What a caller sends is managed.
LEMMA SentManaged ==
    ASSUME CoreInv, NEW c \in Callers, pc[c] \in {"adding", "deleting"}
    PROVE  Target(Host(c)) \in Managed
BY DEF CoreInv, Allowed, WritesAllowed, Managed

\* One step changes managed records only, unless somebody else takes it.
LEMMA ManagedStep ==
    ASSUME CoreInv, LateInv, [Next]_vars
    PROVE  /\ LateInv'
           /\ Changed \subseteq Managed \/ \E r \in EditedRecords : ZoneEdited(r)
<1> USE DEF CoreInv
<1>0. Managed' = Managed
  BY SettingFrame DEF Managed
<1>1. ASSUME NEW c \in Callers, AddARecord(c) \/ DeleteARecord(c)
      PROVE  LateInv' /\ Changed \subseteq Managed
  <2>1. PICK req \in {Add(Target(Host(c))), Delete(Target(Host(c)))}, outcome \in Outcomes :
          Write(req, outcome)
    BY <1>0, <1>1 DEF AddARecord, DeleteARecord
  <2>2. req.record \in Managed
    BY <1>0, <1>1, <2>1, SentManaged DEF AddARecord, DeleteARecord, Add, Delete
  <2> QED BY <1>0, <2>1, <2>2 DEF Write, Applied, LateInv, Changed
<1>2. ASSUME NEW c \in Callers, Call(c) \/ Acquire(c) \/ Step(c),
             ~(AddARecord(c) \/ DeleteARecord(c))
      PROVE  LateInv' /\ Changed \subseteq Managed
  BY <1>0, <1>2, ServerFrame DEF serverVars, LateInv, Changed
<1>3. ASSUME NEW w \in Workloads, DockerChange(w)
      PROVE  LateInv' /\ Changed \subseteq Managed
  BY <1>0, <1>3 DEF DockerChange, serverVars, LateInv, Changed
<1>4. ASSUME NEW r \in EditedRecords, ZoneEdited(r)
      PROVE  LateInv'
  BY <1>0, <1>4 DEF ZoneEdited, OutsideEdit, LateInv
<1>5. ASSUME NEW req \in late, RequestArrivesLate(req)
      PROVE  LateInv' /\ Changed \subseteq Managed
  BY <1>0, <1>5 DEF RequestArrivesLate, LateArrival, Applied, LateInv, Changed
<1>6. ASSUME ProcessRestarts
      PROVE  LateInv' /\ Changed \subseteq Managed
  <2>1. ASSUME NEW c \in Callers, NEW req \in InFlight(c)
        PROVE  req.record \in Managed
    BY <2>1, SentManaged DEF InFlight, Add, Delete
  <2> QED BY <1>0, <1>6, <2>1 DEF ProcessRestarts, LateInv, Changed
<1>7. CASE UNCHANGED vars
  BY <1>0, <1>7 DEF vars, serverVars, LateInv, Changed
<1> QED BY <1>0, <1>1, <1>2, <1>3, <1>4, <1>5, <1>6, <1>7 DEF Next, Environment

\* The program changes only records it manages, and none in a dry run.
THEOREM ManagedOnly == Spec => OnlyManagedRecords
<1>1. Init => CoreInv /\ LateInv
  BY InitCore DEF Init, ServerInit, LateInv
<1>2. CoreInv /\ LateInv /\ [Next]_vars => CoreInv' /\ LateInv'
  BY CoreStep, ManagedStep
<1>3. CoreInv /\ LateInv /\ [Next]_vars =>
        [\/ Changed \subseteq Managed
         \/ \E r \in EditedRecords : ZoneEdited(r)]_vars
  BY ManagedStep
<1> QED BY <1>1, <1>2, <1>3, PTL DEF Spec, OnlyManagedRecords

-----------------------------------------------------------------------------
(* The counters of a run agree.                                            *)

\* Outside the mutex nothing is counted, and a Reconcile has no host names.
Quiet == \A c \in Callers :
    /\ pc[c] \notin Inside => result[c] = Zero
    /\ (pc[c] \notin Inside /\ op[c] = "Reconcile") => hosts[c] = <<>>
    /\ pc[c] = "idle" => op[c] = "Reconcile"

\* The two conjuncts of CountersAgree, for one caller.
Balanced(c) ==
    result[c]["filtered"] = result[c]["created"] + result[c]["existed"]
                              + result[c]["errors"] + Adding(c)
Bounded(c) ==
    (pc[c] \in Inside /\ op[c] # "DeleteHostnames")
       => result[c]["filtered"] + Len(hosts[c]) <= result[c]["found"] + Adding(c)
CountInv == Quiet /\ \A c \in Callers : Balanced(c) /\ Bounded(c)

\* The counters after a step that counts each of some of them once.
LEMMA CountedAllValues ==
    ASSUME TypeOK, NEW c \in Callers, NEW ks, CountedAll(c, ks)
    PROVE  \A k \in Counters : result'[c][k] = result[c][k] + (IF k \in ks THEN 1 ELSE 0)
BY DEF TypeOK, CountedAll

\* A step of a caller counts p names as having passed the filters, m as
\* created, e as existing and f as failed.
Counts(c, p, m, e, f) ==
    /\ result'[c]["filtered"] = result[c]["filtered"] + p
    /\ result'[c]["created"] = result[c]["created"] + m
    /\ result'[c]["existed"] = result[c]["existed"] + e
    /\ result'[c]["errors"] = result[c]["errors"] + f
    /\ result'[c]["found"] = result[c]["found"]

\* The list gets shorter by the names that left it.
Shortens(c, p) ==
    /\ op'[c] = op[c]
    /\ op[c] # "DeleteHostnames" =>
          /\ Len(hosts'[c]) \in Nat
          /\ Len(hosts'[c]) + p + Adding(c) <= Len(hosts[c]) + Adding(c)'

\* Every name that passes is accounted for.
LEMMA StaysBalanced ==
    ASSUME TypeOK, NEW c \in Callers, Balanced(c),
           NEW p \in {0, 1}, NEW m \in {0, 1}, NEW e \in {0, 1}, NEW f \in {0, 1},
           Counts(c, p, m, e, f),
           p + Adding(c) = m + e + f + Adding(c)'
    PROVE  Balanced(c)'
<1>1. /\ result[c]["filtered"] \in Nat /\ result[c]["created"] \in Nat
      /\ result[c]["existed"] \in Nat /\ result[c]["errors"] \in Nat
  BY DEF TypeOK, Counters
<1>2. Adding(c) \in {0, 1} /\ Adding(c)' \in {0, 1}
  BY DEF Adding
<1>3. result[c]["filtered"] = result[c]["created"] + result[c]["existed"]
                               + result[c]["errors"] + Adding(c)
  BY DEF Balanced
<1>4. result[c]["filtered"] + p = (result[c]["created"] + m) + (result[c]["existed"] + e)
                                    + (result[c]["errors"] + f) + Adding(c)'
  BY <1>1, <1>2, <1>3
<1> QED BY <1>4 DEF Balanced, Counts

\* No more names pass than were found.
LEMMA StaysBounded ==
    ASSUME TypeOK, NEW c \in Callers, Bounded(c), pc[c] \in Inside,
           NEW p \in {0, 1}, NEW m, NEW e, NEW f,
           Counts(c, p, m, e, f), Shortens(c, p)
    PROVE  Bounded(c)'
<1>1. /\ result[c]["filtered"] \in Nat /\ result[c]["found"] \in Nat
      /\ Len(hosts[c]) \in Nat
  BY DEF TypeOK, Counters
<1>2. Adding(c) \in {0, 1} /\ Adding(c)' \in {0, 1}
  BY DEF Adding
<1>3. ASSUME op[c] # "DeleteHostnames"
      PROVE  result[c]["filtered"] + p + Len(hosts'[c]) <= result[c]["found"] + Adding(c)'
  <2>1. result[c]["filtered"] + Len(hosts[c]) <= result[c]["found"] + Adding(c)
    BY <1>3 DEF Bounded
  <2>2. /\ Len(hosts'[c]) \in Nat
        /\ Len(hosts'[c]) + p + Adding(c) <= Len(hosts[c]) + Adding(c)'
    BY <1>3 DEF Shortens
  <2> DEFINE before == Len(hosts[c])
             after == Len(hosts'[c])
             limit == result[c]["found"]
             passed == result[c]["filtered"]
             a == Adding(c)
             b == Adding(c)'
  <2>3. /\ before \in Nat /\ after \in Nat /\ limit \in Nat /\ passed \in Nat
        /\ a \in {0, 1} /\ b \in {0, 1}
    BY <1>1, <1>2, <2>2
  <2>4. passed + before <= limit + a /\ after + p + a <= before + b
    BY <2>1, <2>2
  <2> HIDE DEF before, after, limit, passed, a, b
  <2>5. passed + p + after <= limit + b
    BY <2>3, <2>4
  <2> QED BY <2>5 DEF after, limit, passed, b
<1> QED BY <1>3 DEF Bounded, Counts, Shortens

LEMMA QuietStep ==
    ASSUME CoreInv, Quiet, NEW c \in Callers, Call(c) \/ Acquire(c) \/ Step(c)
    PROVE  Quiet'
<1> USE DEF CoreInv, Inside, Places
<1>1. ASSUME NEW d \in Callers, d # c
      PROVE  /\ (pc[d] \notin Inside => result[d] = Zero)'
             /\ ((pc[d] \notin Inside /\ op[d] = "Reconcile") => hosts[d] = <<>>)'
             /\ (pc[d] = "idle" => op[d] = "Reconcile")'
  BY <1>1, Frame DEF Quiet
<1>2. /\ (pc[c] \notin Inside => result[c] = Zero)'
      /\ ((pc[c] \notin Inside /\ op[c] = "Reconcile") => hosts[c] = <<>>)'
      /\ (pc[c] = "idle" => op[c] = "Reconcile")'
  <2>1. CASE Call(c)
    BY <2>1 DEF Call, CallReconcile, CallHostnames, Quiet, TypeOK, Methods
  <2>2. CASE Acquire(c)
    BY <2>2 DEF Acquire, TypeOK
  <2>3. CASE ListFails(c) \/ Return(c)
    BY <2>3 DEF ListFails, Return, Leave, TypeOK
  <2>4. CASE Step(c) /\ ~ListFails(c) /\ ~Return(c)
    BY <2>4 DEF Step, List, ProcessWorkload, Refuse, Pretend, CheckBeforeAdd,
                CheckBeforeDelete, CheckFails, MaySend, AtHost, AddARecord, DeleteARecord,
                HostDone, HostFails, TypeOK
  <2> QED BY <2>1, <2>2, <2>3, <2>4
<1> QED BY <1>1, <1>2 DEF Quiet

\* Which counters a step moves, for each set of counters a method counts.
LEMMA CountsOf ==
    ASSUME TypeOK, NEW c \in Callers
    PROVE  /\ result' = result => Counts(c, 0, 0, 0, 0)
           /\ CountedAll(c, {}) => Counts(c, 0, 0, 0, 0)
           /\ CountedAll(c, {"deleted"}) => Counts(c, 0, 0, 0, 0)
           /\ CountedAll(c, {"filtered"}) => Counts(c, 1, 0, 0, 0)
           /\ CountedAll(c, {"created"}) => Counts(c, 0, 1, 0, 0)
           /\ CountedAll(c, {"errors"}) => Counts(c, 0, 0, 0, 1)
           /\ CountedAll(c, {"filtered", "created"}) => Counts(c, 1, 1, 0, 0)
           /\ CountedAll(c, {"filtered", "existed"}) => Counts(c, 1, 0, 1, 0)
           /\ CountedAll(c, {"filtered", "errors"}) => Counts(c, 1, 0, 0, 1)
<1> DEFINE V(ks, k) == result'[c][k] = result[c][k] + (IF k \in ks THEN 1 ELSE 0)
<1>1. ASSUME NEW ks, CountedAll(c, ks), NEW k \in Counters
      PROVE  V(ks, k)
  BY <1>1 DEF TypeOK, CountedAll
<1>2. {"found", "filtered", "created", "existed", "errors"} \subseteq Counters
  BY DEF Counters
<1>3. \A k \in Counters : result[c][k] \in Nat
  BY DEF TypeOK
<1>4. ASSUME NEW ks, CountedAll(c, ks)
      PROVE  /\ V(ks, "found") /\ V(ks, "filtered") /\ V(ks, "created")
             /\ V(ks, "existed") /\ V(ks, "errors")
  BY <1>1, <1>2, <1>4
<1> QED BY <1>2, <1>3, <1>4 DEF Counts

\* A step at a host name: the name passes, is done with, or both.
LEMMA HostCounts ==
    ASSUME CoreInv, NEW c \in Callers, Balanced(c), Bounded(c),
           \/ Refuse(c) \/ Pretend(c) \/ CheckBeforeAdd(c) \/ CheckBeforeDelete(c)
           \/ CheckFails(c) \/ AddARecord(c) \/ DeleteARecord(c)
    PROVE  Balanced(c)' /\ Bounded(c)'
<1> USE DEF CoreInv
<1>1. pc[c] \in Inside /\ op'[c] = op[c] /\ hosts[c] # <<>>
  BY DEF Refuse, Pretend, CheckBeforeAdd, CheckBeforeDelete, CheckFails, MaySend, AtHost,
         AddARecord, DeleteARecord, Allowed, WritesAllowed, Inside, Places
<1>2. /\ Len(hosts[c]) \in Nat \ {0} /\ Rest(c) \in Seq(Names)
      /\ Len(Rest(c)) = Len(hosts[c]) - 1 /\ Len(<<>>) = 0
  BY <1>1, Walk DEF TypeOK, Rest
<1>3. CASE Refuse(c) \/ CheckBeforeDelete(c)
  <2>1. Counts(c, 0, 0, 0, 0) /\ Adding(c) = 0 /\ Adding(c)' = 0
    BY <1>3, CountsOf DEF Refuse, CheckBeforeDelete, MaySend, AtHost, Adding, TypeOK
  <2>2. Shortens(c, 0)
    BY <1>1, <1>2, <1>3, <2>1 DEF Refuse, CheckBeforeDelete, Shortens, TypeOK
  <2> QED BY <1>1, <2>1, <2>2, StaysBalanced, StaysBounded
<1>4. CASE Pretend(c)
  <2>1. Adding(c) = 0 /\ Adding(c)' = 0 /\ hosts'[c] = Rest(c)
    BY <1>4 DEF Pretend, AtHost, Adding, TypeOK
  <2>2. CASE op[c] = "DeleteHostnames"
    <3>1. Counts(c, 0, 0, 0, 0) /\ Shortens(c, 0)
      BY <1>1, <1>4, <2>2, CountsOf DEF Pretend, FilteredOf, SuccessOf, Shortens
    <3> QED BY <1>1, <2>1, <3>1, StaysBalanced, StaysBounded
  <2>3. CASE op[c] # "DeleteHostnames"
    <3>1. CountedAll(c, {"filtered", "created"})
      BY <1>4, <2>3 DEF Pretend, FilteredOf, SuccessOf
    <3>2. Counts(c, 1, 1, 0, 0) /\ Shortens(c, 1)
      BY <1>1, <1>2, <2>1, <3>1, CountsOf DEF Shortens
    <3> QED BY <1>1, <2>1, <3>2, StaysBalanced, StaysBounded
  <2> QED BY <2>2, <2>3
<1>5. CASE CheckBeforeAdd(c)
  <2>1. Adding(c) = 0
    BY <1>5 DEF CheckBeforeAdd, MaySend, AtHost, Adding
  <2>2. CASE HasARecord(Host(c), TargetIP)
    <3>1. Counts(c, 1, 0, 1, 0) /\ hosts'[c] = Rest(c) /\ Adding(c)' = 0
      BY <1>5, <2>2, CountsOf DEF CheckBeforeAdd, MaySend, AtHost, Adding, TypeOK
    <3>2. Shortens(c, 1)
      BY <1>1, <1>2, <2>1, <3>1 DEF Shortens
    <3> QED BY <1>1, <2>1, <3>1, <3>2, StaysBalanced, StaysBounded
  <2>3. CASE ~HasARecord(Host(c), TargetIP)
    <3>1. CountedAll(c, {"filtered"}) /\ hosts' = hosts /\ Adding(c)' = 1
      BY <1>5, <2>3 DEF CheckBeforeAdd, Adding, TypeOK
    <3>2. Counts(c, 1, 0, 0, 0) /\ Shortens(c, 1)
      BY <1>1, <1>2, <2>1, <3>1, CountsOf DEF Shortens
    <3> QED BY <1>1, <2>1, <3>1, <3>2, StaysBalanced, StaysBounded
  <2> QED BY <2>2, <2>3
<1>6. CASE CheckFails(c)
  <2>1. Adding(c) = 0 /\ Adding(c)' = 0 /\ hosts'[c] \in {<<>>, Rest(c)}
    BY <1>6 DEF CheckFails, MaySend, AtHost, AfterError, Adding, TypeOK
  <2>2. CASE op[c] = "DeleteHostnames"
    <3>1. Counts(c, 0, 0, 0, 0) /\ Shortens(c, 0)
      BY <1>1, <1>6, <2>2, CountsOf DEF CheckFails, FilteredOf, ErrorsOf, Shortens
    <3> QED BY <1>1, <2>1, <3>1, StaysBalanced, StaysBounded
  <2>3. CASE op[c] # "DeleteHostnames"
    <3>1. CountedAll(c, {"filtered", "errors"})
      BY <1>6, <2>3 DEF CheckFails, FilteredOf, ErrorsOf
    <3>2. Counts(c, 1, 0, 0, 1) /\ Shortens(c, 1)
      BY <1>1, <1>2, <2>1, <3>1, CountsOf DEF Shortens
    <3> QED BY <1>1, <2>1, <3>2, StaysBalanced, StaysBounded
  <2> QED BY <2>2, <2>3
<1>7. CASE AddARecord(c) \/ DeleteARecord(c)
  <2>1. HostDone(c) \/ HostFails(c)
    BY <1>7 DEF AddARecord, DeleteARecord
  <2>2. /\ Adding(c)' = 0 /\ hosts'[c] \in {<<>>, Rest(c)}
        /\ Adding(c) = IF op[c] = "DeleteHostnames" THEN 0 ELSE 1
    BY <1>7, <2>1 DEF HostDone, HostFails, AfterError, Adding, AddARecord, DeleteARecord,
                      Allowed, WritesAllowed, TypeOK
  <2>3. CASE op[c] = "DeleteHostnames"
    <3>1. Counts(c, 0, 0, 0, 0) /\ Shortens(c, 0)
      BY <1>1, <2>1, <2>3, CountsOf DEF HostDone, HostFails, SuccessOf, ErrorsOf, Shortens
    <3> QED BY <1>1, <2>2, <2>3, <3>1, StaysBalanced, StaysBounded
  <2>4. CASE op[c] # "DeleteHostnames"
    <3>1. Counts(c, 0, 1, 0, 0) \/ Counts(c, 0, 0, 0, 1)
      BY <2>1, <2>4, CountsOf DEF HostDone, HostFails, SuccessOf, ErrorsOf
    <3>2. Shortens(c, 0)
      BY <1>1, <1>2, <2>2, <2>4 DEF Shortens
    <3> QED BY <1>1, <2>2, <2>4, <3>1, <3>2, StaysBalanced, StaysBounded
  <2> QED BY <2>3, <2>4
<1> QED BY <1>3, <1>4, <1>5, <1>6, <1>7

LEMMA CountStep ==
    ASSUME CoreInv, CountInv, NEW c \in Callers, Call(c) \/ Acquire(c) \/ Step(c)
    PROVE  CountInv'
<1> USE DEF CoreInv
<1>1. ASSUME NEW d \in Callers, d # c
      PROVE  Balanced(d)' /\ Bounded(d)'
  BY <1>1, Frame DEF CountInv, Balanced, Bounded, Adding
<1>2. Balanced(c)' /\ Bounded(c)'
  <2> USE DEF Inside, Places
  <2>1. CASE Call(c)
    BY <2>1 DEF Call, CallReconcile, CallHostnames, Balanced, Bounded, Adding, CountInv, TypeOK
  <2>2. CASE Acquire(c)
    <3>1. result[c] = Zero /\ Len(hosts[c]) \in Nat /\ hosts' = hosts /\ op' = op
      BY <2>2 DEF Acquire, CountInv, Quiet, TypeOK
    <3>2. Adding(c)' = 0
      BY <2>2 DEF Acquire, Adding, TypeOK
    <3>3. CASE op[c] = "ReconcileHostnames"
      <4>1. /\ \A k \in {"filtered", "created", "existed", "errors"} : result'[c][k] = 0
            /\ result'[c]["found"] = 0 + Len(hosts[c])
        BY <2>2, <3>1, <3>3 DEF Acquire, Counted, Zero, Counters, TypeOK
      <4>2. Balanced(c)'
        BY <3>2, <4>1 DEF Balanced
      <4>3. Bounded(c)'
        BY <3>1, <3>2, <4>1 DEF Bounded
      <4> QED BY <4>2, <4>3
    <3>4. CASE op[c] # "ReconcileHostnames"
      <4>1. result' = result /\ (op[c] = "Reconcile" => hosts[c] = <<>>)
        BY <2>2, <3>4 DEF Acquire, CountInv, Quiet
      <4>2. \A k \in {"filtered", "created", "existed", "errors", "found"} : result'[c][k] = 0
        BY <3>1, <4>1 DEF Zero, Counters
      <4>3. Balanced(c)'
        BY <3>2, <4>2 DEF Balanced
      <4>4. op[c] = "DeleteHostnames" \/ Len(hosts'[c]) = 0
        BY <3>1, <3>4, <4>1 DEF Methods, TypeOK
      <4>5. Bounded(c)'
        BY <3>1, <3>2, <4>2, <4>4 DEF Bounded
      <4> QED BY <4>3, <4>5
    <3> QED BY <3>3, <3>4
  <2>3. CASE List(c)
    BY <2>3 DEF List, Counted, Counters, Balanced, Bounded, Adding, CountInv, TypeOK
  <2>4. CASE ListFails(c) \/ Return(c)
    BY <2>4 DEF ListFails, Return, Leave, Zero, Counters, Balanced, Bounded, Adding, TypeOK
  <2>5. CASE ProcessWorkload(c)
    <3>1. PICK w \in todo[c] : \E list \in HostLists[w.labels] :
            hosts' = [hosts EXCEPT ![c] = list] /\ Counted(c, "found", Len(list))
      BY <2>5 DEF ProcessWorkload
    <3>2. PICK list \in HostLists[w.labels] :
            hosts' = [hosts EXCEPT ![c] = list] /\ Counted(c, "found", Len(list))
      BY <3>1
    <3>3. Len(list) \in Nat
      BY <3>2, ReconcilerAssumption DEF TypeOK, Scanned
    <3>4. /\ result'[c]["found"] = result[c]["found"] + Len(list)
          /\ \A k \in {"filtered", "created", "existed", "errors"} : result'[c][k] = result[c][k]
          /\ result[c]["found"] \in Nat /\ result[c]["filtered"] \in Nat
      BY <3>2 DEF Counted, Counters, TypeOK
    <3>5. pc' = pc /\ op' = op /\ Adding(c) = 0 /\ Len(hosts[c]) = 0 /\ hosts'[c] = list
      BY <2>5, <3>2 DEF ProcessWorkload, Adding, TypeOK
    <3>6. Balanced(c)'
      BY <3>4, <3>5 DEF Balanced, Adding, CountInv
    <3>7. Bounded(c)'
      <4>1. op[c] # "DeleteHostnames" => result[c]["filtered"] <= result[c]["found"]
        BY <2>5, <3>4, <3>5 DEF Bounded, CountInv, ProcessWorkload
      <4>2. op[c] # "DeleteHostnames" =>
              result[c]["filtered"] + Len(list) <= result[c]["found"] + Len(list)
        BY <3>3, <3>4, <4>1
      <4>3. Adding(c)' = 0
        BY <3>5 DEF Adding
      <4> QED BY <3>3, <3>4, <3>5, <4>2, <4>3 DEF Bounded
    <3> QED BY <3>6, <3>7
  <2> QED BY <2>1, <2>2, <2>3, <2>4, <2>5, HostCounts DEF Step, CountInv
<1> QED BY <1>1, <1>2, QuietStep DEF CountInv

LEMMA CountNext ==
    ASSUME CoreInv, CountInv, [Next]_vars
    PROVE  CountInv'
<1>1. ASSUME Environment
      PROVE  CountInv'
  <2>1. CASE UNCHANGED <<dryRun, callVars, asked>>
    BY <2>1 DEF callVars, CountInv, Quiet, Balanced, Bounded, Adding
  <2>2. CASE ProcessRestarts
    BY <2>2 DEF ProcessRestarts, CountInv, Quiet, Balanced, Bounded, Adding, Zero, Counters,
                Inside
  <2> QED BY <1>1, <2>1, <2>2, EnvironmentFrame
<1>2. CASE UNCHANGED vars
  BY <1>2 DEF vars, callVars, CountInv, Quiet, Balanced, Bounded, Adding
<1> QED BY <1>1, <1>2, CountStep DEF Next

\* The counters of a ReconcileResult agree in every state of every run.
THEOREM CountersAlwaysAgree == Spec => []CountersAgree
<1>1. Init => CoreInv /\ CountInv
  BY InitCore
     DEF Init, CountInv, Quiet, Balanced, Bounded, Adding, Zero, Counters, Inside
<1>2. CoreInv /\ CountInv /\ [Next]_vars => CoreInv' /\ CountInv'
  BY CoreStep, CountNext
<1>3. CountInv => CountersAgree
  BY DEF CountInv, Balanced, Bounded, CountersAgree
<1> QED BY <1>1, <1>2, <1>3, PTL DEF Spec

-----------------------------------------------------------------------------
(* One error for each workload at most.                                    *)

\* Errors so far, the workload under way and those still to come: never more
\* than the workloads the run has scanned.
Spent(c) == result[c]["errors"] + Under(c) + Cardinality(todo[c])
ErrorInv == \A c \in Callers :
    /\ IsFiniteSet(todo[c])
    /\ pc[c] \in {"idle", "locking", "listing"} => todo[c] = {}
    /\ op[c] = "Reconcile" => Spent(c) <= result[c]["scanned"]

\* A caller that keeps its listing and its counters keeps the bound.
LEMMA ErrorFrame ==
    ASSUME ErrorInv, NEW d \in Callers,
           todo'[d] = todo[d], hosts'[d] = hosts[d], result'[d] = result[d], op'[d] = op[d],
           pc'[d] \in {"idle", "locking", "listing"} => todo[d] = {}
    PROVE  /\ IsFiniteSet(todo'[d])
           /\ pc'[d] \in {"idle", "locking", "listing"} => todo'[d] = {}
           /\ op'[d] = "Reconcile" => Spent(d)' <= result'[d]["scanned"]
BY DEF ErrorInv, Spent, Under

\* At a host name a Reconcile fails at most once, and is then done with the
\* workload.
LEMMA HostErrors ==
    ASSUME CoreInv, NEW c \in Callers, op[c] = "Reconcile",
           \/ Refuse(c) \/ Pretend(c) \/ CheckBeforeAdd(c) \/ CheckBeforeDelete(c)
           \/ CheckFails(c) \/ AddARecord(c) \/ DeleteARecord(c)
    PROVE  /\ hosts[c] # <<>> /\ result'[c]["scanned"] = result[c]["scanned"]
           /\ \/ result'[c]["errors"] = result[c]["errors"]
              \/ result'[c]["errors"] = result[c]["errors"] + 1 /\ hosts'[c] = <<>>
<1> USE DEF CoreInv
<1>0. "scanned" \in Counters /\ "errors" \in Counters /\ \A k \in Counters : result[c][k] \in Nat
  BY DEF Counters, TypeOK
<1>1. CASE Refuse(c) \/ CheckBeforeDelete(c)
  BY <1>1 DEF Refuse, CheckBeforeDelete, MaySend, AtHost
<1>2. CASE Pretend(c)
  <2>1. CountedAll(c, {"filtered", "created"}) /\ hosts[c] # <<>>
    BY <1>2 DEF Pretend, AtHost, FilteredOf, SuccessOf
  <2> QED BY <1>0, <2>1, CountedAllValues
<1>3. CASE CheckBeforeAdd(c)
  <2>1. /\ hosts[c] # <<>>
        /\ CountedAll(c, {"filtered", "existed"}) \/ CountedAll(c, {"filtered"})
    BY <1>3 DEF CheckBeforeAdd, MaySend, AtHost
  <2> QED BY <1>0, <2>1, CountedAllValues
<1>4. CASE CheckFails(c)
  <2>1. /\ hosts[c] # <<>> /\ hosts'[c] = <<>>
        /\ CountedAll(c, {"filtered", "errors"})
    BY <1>4 DEF CheckFails, MaySend, AtHost, FilteredOf, ErrorsOf, AfterError, TypeOK
  <2> QED BY <1>0, <2>1, CountedAllValues
<1>5. CASE AddARecord(c) \/ DeleteARecord(c)
  <2>1. hosts[c] # <<>>
    BY <1>5 DEF AddARecord, DeleteARecord, Allowed, WritesAllowed
  <2>2. \/ CountedAll(c, {"created"})
        \/ CountedAll(c, {"errors"}) /\ hosts'[c] = <<>>
    BY <1>5 DEF AddARecord, DeleteARecord, HostDone, HostFails, SuccessOf, ErrorsOf,
                AfterError, TypeOK
  <2> QED BY <1>0, <2>1, <2>2, CountedAllValues
<1> QED BY <1>1, <1>2, <1>3, <1>4, <1>5

\* The step at a host name keeps the listing.
LEMMA HostKeeps ==
    ASSUME CoreInv, NEW c \in Callers,
           \/ Refuse(c) \/ Pretend(c) \/ CheckBeforeAdd(c) \/ CheckBeforeDelete(c)
           \/ CheckFails(c) \/ AddARecord(c) \/ DeleteARecord(c)
    PROVE  todo' = todo /\ op' = op /\ pc'[c] \in {"working", "adding", "deleting"}
BY DEF Refuse, Pretend, CheckBeforeAdd, CheckBeforeDelete, CheckFails, AddARecord,
       DeleteARecord, HostDone, HostFails, MaySend, AtHost, CoreInv, TypeOK

\* Taking up a workload spends it.
LEMMA WorkloadErrors ==
    ASSUME CoreInv, ErrorInv, NEW c \in Callers, ProcessWorkload(c)
    PROVE  /\ IsFiniteSet(todo'[c])
           /\ op'[c] = "Reconcile" => Spent(c)' <= result'[c]["scanned"]
<1> USE DEF CoreInv, TypeOK
<1>1. PICK w \in todo[c] : \E list \in HostLists[w.labels] :
        /\ todo' = [todo EXCEPT ![c] = @ \ {w}]
        /\ Counted(c, "found", Len(list))
  BY DEF ProcessWorkload
<1>2. todo'[c] = todo[c] \ {w} /\ w \in todo[c] /\ IsFiniteSet(todo[c])
  BY <1>1 DEF ErrorInv
<1>3. /\ Cardinality(todo[c]) \in Nat /\ Cardinality(todo'[c]) \in Nat
      /\ Cardinality(todo'[c]) = Cardinality(todo[c]) - 1
      /\ IsFiniteSet(todo'[c])
  BY <1>2, FS_RemoveElement, FS_CardinalityType
<1>4. /\ result'[c]["errors"] = result[c]["errors"]
      /\ result'[c]["scanned"] = result[c]["scanned"]
      /\ result[c]["errors"] \in Nat /\ result[c]["scanned"] \in Nat
  BY <1>1 DEF Counted, Counters
<1>5. op' = op /\ Under(c) = 0 /\ Under(c)' \in {0, 1}
  BY DEF ProcessWorkload, Under
<1>6. op[c] = "Reconcile" => Spent(c) <= result[c]["scanned"]
  BY DEF ErrorInv
<1> QED BY <1>3, <1>4, <1>5, <1>6 DEF Spent

LEMMA ErrorStep ==
    ASSUME CoreInv, ErrorInv, NEW c \in Callers, Call(c) \/ Acquire(c) \/ Step(c)
    PROVE  ErrorInv'
<1> USE DEF CoreInv
<1>0. /\ \A k \in Counters : result[c][k] \in Nat
      /\ "scanned" \in Counters /\ "errors" \in Counters /\ "found" \in Counters
  BY DEF TypeOK, Counters
<1>1. ASSUME NEW d \in Callers, d # c
      PROVE  /\ IsFiniteSet(todo'[d])
             /\ pc'[d] \in {"idle", "locking", "listing"} => todo'[d] = {}
             /\ op'[d] = "Reconcile" => Spent(d)' <= result'[d]["scanned"]
  <2>1. /\ pc'[d] = pc[d] /\ op'[d] = op[d] /\ todo'[d] = todo[d]
        /\ hosts'[d] = hosts[d] /\ result'[d] = result[d]
    BY <1>1, Frame
  <2> QED BY <2>1, ErrorFrame DEF ErrorInv
<1>2. /\ IsFiniteSet(todo'[c])
      /\ pc'[c] \in {"idle", "locking", "listing"} => todo'[c] = {}
      /\ op'[c] = "Reconcile" => Spent(c)' <= result'[c]["scanned"]
  <2>1. CASE Call(c)
    <3>1. todo' = todo /\ result' = result /\ pc[c] = "idle" /\ todo[c] = {}
      BY <2>1 DEF Call, CallReconcile, CallHostnames, ErrorInv
    <3>2. op'[c] = "Reconcile" => op' = op /\ hosts' = hosts
      BY <2>1 DEF Call, CallReconcile, CallHostnames, TypeOK, Methods
    <3> QED BY <3>1, <3>2 DEF ErrorInv, Spent, Under
  <2>2. CASE Acquire(c)
    <3>1. todo' = todo /\ hosts' = hosts /\ op' = op /\ todo[c] = {}
      BY <2>2 DEF Acquire, ErrorInv
    <3>2. op[c] = "Reconcile" => result' = result
      BY <2>2 DEF Acquire
    <3> QED BY <3>1, <3>2 DEF ErrorInv, Spent, Under
  <2>3. CASE List(c)
    <3>1. /\ todo'[c] = ListWorkloads /\ todo[c] = {} /\ hosts' = hosts /\ op' = op
          /\ pc'[c] = "working" /\ Counted(c, "scanned", Cardinality(ListWorkloads))
      BY <2>3 DEF List, ErrorInv, TypeOK
    <3>2. IsFiniteSet(ListWorkloads) /\ Cardinality(ListWorkloads) \in Nat
      BY ListingType DEF TypeOK
    <3>3. /\ result'[c]["scanned"] = result[c]["scanned"] + Cardinality(ListWorkloads)
          /\ result'[c]["errors"] = result[c]["errors"]
      BY <1>0, <3>1, <3>2 DEF Counted, TypeOK, Counters
    <3>4. Cardinality({}) = 0 /\ Under(c)' = Under(c) /\ Under(c) \in {0, 1}
      BY <3>1, FS_EmptySet DEF Under
    <3>5. op[c] = "Reconcile" => result[c]["errors"] + Under(c) + 0 <= result[c]["scanned"]
      BY <3>1, <3>4 DEF ErrorInv, Spent
    <3>6. op[c] = "Reconcile" => Spent(c)' <= result'[c]["scanned"]
      BY <1>0, <3>1, <3>2, <3>3, <3>4, <3>5 DEF Spent
    <3> QED BY <3>1, <3>2, <3>6
  <2>4. CASE ListFails(c) \/ Return(c)
    <3>1. todo'[c] = {} /\ hosts'[c] = <<>> /\ result'[c] = Zero
      BY <2>4 DEF ListFails, Return, Leave, TypeOK
    <3>2. IsFiniteSet({}) /\ Cardinality({}) = 0
      BY FS_EmptySet
    <3>3. Under(c)' = 0 /\ result'[c]["errors"] = 0 /\ result'[c]["scanned"] = 0
      BY <3>1 DEF Under, Zero, Counters
    <3> QED BY <3>1, <3>2, <3>3 DEF Spent
  <2>5. CASE ProcessWorkload(c)
    <3>1. pc'[c] = "working"
      BY <2>5 DEF ProcessWorkload
    <3> QED BY <2>5, <3>1, WorkloadErrors
  <2>6. CASE \/ Refuse(c) \/ Pretend(c) \/ CheckBeforeAdd(c) \/ CheckBeforeDelete(c)
             \/ CheckFails(c) \/ AddARecord(c) \/ DeleteARecord(c)
    <3>1. todo' = todo /\ op' = op /\ pc'[c] \in {"working", "adding", "deleting"}
      BY <2>6, HostKeeps
    <3>2. ASSUME op[c] = "Reconcile"
          PROVE  Spent(c)' <= result'[c]["scanned"]
      <4>1. /\ hosts[c] # <<>> /\ result'[c]["scanned"] = result[c]["scanned"]
            /\ \/ result'[c]["errors"] = result[c]["errors"]
               \/ result'[c]["errors"] = result[c]["errors"] + 1 /\ hosts'[c] = <<>>
        BY <2>6, <3>2, HostErrors
      <4>2. Under(c) = 1 /\ Under(c)' \in {0, 1} /\ (hosts'[c] = <<>> => Under(c)' = 0)
        BY <4>1 DEF Under
      <4>3. Cardinality(todo[c]) \in Nat
        BY FS_CardinalityType DEF ErrorInv
      <4>4. result[c]["errors"] + 1 + Cardinality(todo[c]) <= result[c]["scanned"]
        BY <3>2, <4>2 DEF ErrorInv, Spent
      <4> QED BY <1>0, <3>1, <4>1, <4>2, <4>3, <4>4 DEF Spent
    <3> QED BY <3>1, <3>2 DEF ErrorInv
  <2> QED BY <2>1, <2>2, <2>3, <2>4, <2>5, <2>6 DEF Step
<1> QED BY <1>1, <1>2 DEF ErrorInv

LEMMA ErrorNext ==
    ASSUME CoreInv, ErrorInv, [Next]_vars
    PROVE  ErrorInv'
<1>1. ASSUME Environment
      PROVE  ErrorInv'
  <2>1. CASE UNCHANGED <<dryRun, callVars, asked>>
    BY <2>1 DEF callVars, ErrorInv, Spent, Under
  <2>2. CASE ProcessRestarts
    BY <2>2, FS_EmptySet
       DEF ProcessRestarts, ErrorInv, Spent, Under, Zero, Counters
  <2> QED BY <1>1, <2>1, <2>2, EnvironmentFrame
<1>2. CASE UNCHANGED vars
  BY <1>2 DEF vars, callVars, ErrorInv, Spent, Under
<1> QED BY <1>1, <1>2, ErrorStep DEF Next

\* A run reports at most one error for each workload it scanned.
THEOREM ErrorsBounded == Spec => []OneErrorPerWorkload
<1>1. Init => CoreInv /\ ErrorInv
  BY InitCore, FS_EmptySet
     DEF Init, ErrorInv, Spent, Under, Zero, Counters
<1>2. CoreInv /\ ErrorInv /\ [Next]_vars => CoreInv' /\ ErrorInv'
  BY CoreStep, ErrorNext
<1>3. ErrorInv => OneErrorPerWorkload
  BY DEF ErrorInv, Spent, OneErrorPerWorkload
<1> QED BY <1>1, <1>2, <1>3, PTL DEF Spec

-----------------------------------------------------------------------------
(* Only a deletion takes a record out of the zone.                         *)

LEMMA RemovalStep ==
    ASSUME CoreInv, [Next]_vars, NEW r \in dns \ dns'
    PROVE  \/ \E c \in Callers : pc[c] = "deleting" /\ r = Target(Host(c))
           \/ Delete(r) \in late
           \/ r \in EditedRecords /\ ZoneEdited(r)
<1> USE DEF CoreInv
<1>1. ASSUME NEW c \in Callers, Call(c) \/ Acquire(c) \/ Step(c)
      PROVE  pc[c] = "deleting" /\ r = Target(Host(c))
  <2>1. CASE AddARecord(c)
    BY <2>1 DEF AddARecord, Write, Applied, Add
  <2>2. CASE DeleteARecord(c)
    BY <2>2 DEF DeleteARecord, Write, Applied, Delete
  <2>3. CASE ~AddARecord(c) /\ ~DeleteARecord(c)
    BY <1>1, <2>3, ServerFrame DEF serverVars
  <2> QED BY <2>1, <2>2, <2>3
<1>2. ASSUME NEW e \in EditedRecords, ZoneEdited(e)
      PROVE  e = r
  BY <1>2 DEF ZoneEdited, OutsideEdit
<1>3. ASSUME NEW req \in late, RequestArrivesLate(req)
      PROVE  Delete(r) \in late
  <2>1. req.kind = "delete" /\ req.record = r
    <3>1. dns' \in {dns, Applied(req, dns)}
      BY <1>3 DEF RequestArrivesLate, LateArrival
    <3>2. req.kind \in {"add", "delete"}
      BY <1>3 DEF TypeOK, ServerTypeOK, Requests
    <3> QED BY <3>1, <3>2 DEF Applied
  <2>2. req = Delete(r)
    BY <1>3, <2>1 DEF TypeOK, ServerTypeOK, Requests, Delete
  <2> QED BY <2>2
<1>4. ASSUME NEW w \in Workloads, DockerChange(w)
      PROVE  FALSE
  BY <1>4 DEF DockerChange, serverVars
<1>5. ASSUME ProcessRestarts
      PROVE  FALSE
  BY <1>5 DEF ProcessRestarts
<1>6. CASE UNCHANGED vars
  BY <1>6 DEF vars, serverVars
<1> QED BY <1>1, <1>2, <1>3, <1>4, <1>5, <1>6 DEF Next, Environment

\* No run and no restart takes a record out of the zone.
THEOREM RemovalsAreDeletions == Spec => OnlyDeletionsRemove
<1>1. Init => CoreInv
  BY InitCore
<1>2. CoreInv /\ [Next]_vars => CoreInv'
  BY CoreStep
<1>3. CoreInv /\ [Next]_vars =>
        [\A r \in dns \ dns' :
            \/ \E c \in Callers : pc[c] = "deleting" /\ r = Target(Host(c))
            \/ Delete(r) \in late
            \/ r \in EditedRecords /\ ZoneEdited(r)]_vars
  BY RemovalStep
<1> QED BY <1>1, <1>2, <1>3, PTL DEF Spec, OnlyDeletionsRemove

-----------------------------------------------------------------------------
(* What is counted as created or deleted has been.                         *)

\* What the server has carried out is in the zone, or no longer.
LEMMA AnswerIsTrue ==
    ASSUME NEW r, NEW outcome, Succeeds(outcome), outcome # "other"
    PROVE  /\ Write(Add(r), outcome) => r \in dns'
           /\ Write(Delete(r), outcome) => r \notin dns'
BY DEF Write, Succeeds, Applied, Add, Delete

\* Outside a dry run only a write that succeeds counts a record as created or
\* as deleted.
LEMMA CountedByWrite ==
    ASSUME CoreInv, [Next]_vars, NEW c \in Callers, NEW k \in {"created", "deleted"},
           result'[c][k] > result[c][k], ~dryRun
    PROVE  \E outcome \in Outcomes :
             /\ Succeeds(outcome)
             /\ \/ k = "created" /\ Write(Add(Target(Host(c))), outcome)
                \/ k = "deleted" /\ pc[c] = "deleting" /\ Write(Delete(Target(Host(c))), outcome)
<1> DEFINE Goal == \E outcome \in Outcomes :
             /\ Succeeds(outcome)
             /\ \/ k = "created" /\ Write(Add(Target(Host(c))), outcome)
                \/ k = "deleted" /\ pc[c] = "deleting" /\ Write(Delete(Target(Host(c))), outcome)
<1> SUFFICES Goal
  OBVIOUS
<1> USE DEF CoreInv
<1>0. k \in Counters /\ result[c][k] \in Nat
  BY DEF TypeOK, Counters
<1>1. ASSUME NEW d \in Callers, Call(d) \/ Acquire(d) \/ Step(d)
      PROVE  Goal
  <2>1. d = c
    BY <1>0, <1>1, Frame
  <2>2. ASSUME NEW ks, CountedAll(c, ks)
        PROVE  k \in ks
    <3>1. result'[c][k] = result[c][k] + (IF k \in ks THEN 1 ELSE 0)
      BY <1>0, <2>2, CountedAllValues
    <3> QED BY <1>0, <3>1
  <2>3. ~(Call(c) \/ Acquire(c) \/ List(c) \/ ListFails(c) \/ Return(c) \/ ProcessWorkload(c))
    <3>1. ~(ListFails(c) \/ Return(c))
      <4>1. ASSUME ListFails(c) \/ Return(c)
            PROVE  result'[c] = Zero
        BY <4>1 DEF ListFails, Return, Leave, TypeOK
      <4> QED BY <1>0, <4>1 DEF Zero
    <3>2. ASSUME NEW j, NEW n, Counted(c, j, n), k # j
          PROVE  FALSE
      BY <1>0, <3>2 DEF Counted, TypeOK
    <3>3. ~(List(c) \/ ProcessWorkload(c))
      BY <3>2 DEF List, ProcessWorkload
    <3>4. ~(Call(c) \/ Acquire(c))
      BY <1>0, <3>2 DEF Call, CallReconcile, CallHostnames, Acquire
    <3> QED BY <3>1, <3>3, <3>4
  <2>4. ~(Refuse(c) \/ Pretend(c) \/ CheckBeforeAdd(c) \/ CheckBeforeDelete(c) \/ CheckFails(c))
    BY <1>0, <2>2 DEF Refuse, Pretend, CheckBeforeAdd, CheckBeforeDelete, CheckFails,
                      FilteredOf, ErrorsOf
  <2>5. CASE AddARecord(c)
    <3>1. PICK outcome \in Outcomes :
             /\ Write(Add(Target(Host(c))), outcome)
             /\ IF Succeeds(outcome) THEN HostDone(c) ELSE HostFails(c)
      BY <2>5 DEF AddARecord
    <3>2. Succeeds(outcome) /\ k \in SuccessOf(c)
      BY <2>2, <3>1 DEF HostFails, HostDone, ErrorsOf
    <3>3. op[c] # "DeleteHostnames"
      BY <2>5 DEF AddARecord, Allowed, WritesAllowed
    <3> QED BY <3>1, <3>2, <3>3 DEF SuccessOf
  <2>6. CASE DeleteARecord(c)
    <3>1. PICK outcome \in Outcomes :
             /\ Write(Delete(Target(Host(c))), outcome)
             /\ IF Succeeds(outcome) THEN HostDone(c) ELSE HostFails(c)
      BY <2>6 DEF DeleteARecord
    <3>2. Succeeds(outcome) /\ k \in SuccessOf(c)
      BY <2>2, <3>1 DEF HostFails, HostDone, ErrorsOf
    <3>3. pc[c] = "deleting" /\ op[c] = "DeleteHostnames"
      BY <2>6 DEF DeleteARecord, Allowed, WritesAllowed
    <3> QED BY <3>1, <3>2, <3>3 DEF SuccessOf
  <2> HIDE DEF Goal
  <2> QED BY <1>1, <2>1, <2>3, <2>4, <2>5, <2>6 DEF Step
<1> HIDE DEF Goal
<1>2. ASSUME Environment
      PROVE  FALSE
  BY <1>0, <1>2, EnvironmentFrame DEF ProcessRestarts, callVars, Zero
<1>3. CASE UNCHANGED vars
  BY <1>0, <1>3 DEF vars, callVars
<1> QED BY <1>1, <1>2, <1>3 DEF Next

\* As long as the server answers with a status the client knows, a record
\* counted as created is in the zone when it is counted.
THEOREM CreatedIsThere ==
    ASSUME "other" \notin Outcomes
    PROVE  Spec => CreatedMeansCreated
<1>1. Init => CoreInv
  BY InitCore
<1>2. CoreInv /\ [Next]_vars => CoreInv'
  BY CoreStep
<1>3. CoreInv /\ [Next]_vars =>
        [\A c \in Callers :
            (result'[c].created > result[c].created /\ ~dryRun) =>
                Target(Host(c)) \in dns']_vars
  BY CountedByWrite, AnswerIsTrue
<1> QED BY <1>1, <1>2, <1>3, PTL DEF Spec, CreatedMeansCreated

\* As long as the server answers with a status the client knows, the number
\* DeleteHostnames returns counts records that are gone, and that were there
\* until this call, another editor or an earlier deletion removed them.
THEOREM DeletedIsGone ==
    ASSUME "other" \notin Outcomes
    PROVE  Spec => DeletedMeansDeleted
<1>1. Init => CoreInv /\ CheckStillHolds
  BY InitCore, InitChecks
<1>2. CoreInv /\ CheckStillHolds /\ [Next]_vars => CoreInv' /\ CheckStillHolds'
  BY CoreStep, ChecksStep
<1>3. ASSUME CoreInv, CheckStillHolds, [Next]_vars, NEW c \in Callers,
             result'[c]["deleted"] > result[c]["deleted"], ~dryRun
      PROVE  LET r == Target(Host(c)) IN
             r \notin dns' /\ (r \in dns \/ r \in touched \/ Delete(r) \in belated)
  <2>1. PICK outcome \in Outcomes :
          /\ Succeeds(outcome) /\ pc[c] = "deleting"
          /\ Write(Delete(Target(Host(c))), outcome)
    BY <1>3, CountedByWrite
  <2> QED BY <1>3, <2>1, AnswerIsTrue DEF CheckStillHolds
<1>4. CoreInv /\ CheckStillHolds /\ [Next]_vars =>
        [\A c \in Callers : LET r == Target(Host(c)) IN
            (result'[c].deleted > result[c].deleted /\ ~dryRun) =>
                /\ r \notin dns'
                /\ r \in dns \/ r \in touched \/ Delete(r) \in belated]_vars
  BY <1>3
<1> QED BY <1>1, <1>2, <1>4, PTL DEF Spec, DeletedMeansDeleted

-----------------------------------------------------------------------------
(* A call cannot go round in circles.                                      *)

LEMMA StepNearer ==
    ASSUME CoreInv, NEW c \in Callers, Step(c), pc'[c] \in Inside
    PROVE  Nearer(c)
<1> USE DEF CoreInv, TypeOK
<1>1. ~ListFails(c) /\ ~Return(c)
  BY DEF ListFails, Return, Leave, Inside, Places
<1>2. CASE List(c)
  BY <1>2 DEF List, Nearer
<1>3. CASE ProcessWorkload(c)
  BY <1>3 DEF ProcessWorkload, Nearer
<1>4. hosts[c] # <<>> => /\ Len(Rest(c)) < Len(hosts[c]) /\ Len(<<>>) < Len(hosts[c])
  <2> SUFFICES ASSUME hosts[c] # <<>>
               PROVE  Len(Rest(c)) < Len(hosts[c]) /\ Len(<<>>) < Len(hosts[c])
    OBVIOUS
  <2>1. Len(hosts[c]) \in Nat \ {0} /\ Len(Rest(c)) = Len(hosts[c]) - 1
    BY Walk DEF Rest
  <2> QED BY <2>1
<1>5. CASE Refuse(c) \/ Pretend(c) \/ CheckFails(c)
  <2>1. hosts[c] # <<>> /\ hosts'[c] \in {Rest(c), <<>>} /\ todo' = todo
    BY <1>5 DEF Refuse, Pretend, CheckFails, MaySend, AtHost, AfterError
  <2> QED BY <1>4, <2>1 DEF Nearer
<1>6. CASE CheckBeforeAdd(c) \/ CheckBeforeDelete(c)
  <2>1. hosts[c] # <<>> /\ pc[c] = "working" /\ todo' = todo
    BY <1>6 DEF CheckBeforeAdd, CheckBeforeDelete, MaySend, AtHost
  <2>2. \/ hosts'[c] = Rest(c)
        \/ hosts' = hosts /\ pc'[c] \in {"adding", "deleting"}
    BY <1>6 DEF CheckBeforeAdd, CheckBeforeDelete
  <2> QED BY <1>4, <2>1, <2>2 DEF Nearer
<1>7. CASE AddARecord(c) \/ DeleteARecord(c)
  <2>1. hosts[c] # <<>> /\ hosts'[c] \in {Rest(c), <<>>} /\ todo' = todo
    BY <1>7 DEF AddARecord, DeleteARecord, HostDone, HostFails, AfterError, Allowed, WritesAllowed
  <2> QED BY <1>4, <2>1 DEF Nearer
<1> QED BY <1>1, <1>2, <1>3, <1>5, <1>6, <1>7 DEF Step

\* A call lists once.
LEMMA NoListingAfter ==
    ASSUME CoreInv, NEW c \in Callers, Step(c)
    PROVE  pc'[c] # "listing"
<1> USE DEF CoreInv, TypeOK
<1>1. CASE List(c) \/ ListFails(c) \/ Return(c) \/ ProcessWorkload(c)
  BY <1>1 DEF List, ListFails, Return, Leave, ProcessWorkload
<1>2. CASE \/ Refuse(c) \/ Pretend(c) \/ CheckFails(c) \/ CheckBeforeAdd(c)
           \/ CheckBeforeDelete(c)
  BY <1>2 DEF Refuse, Pretend, CheckFails, CheckBeforeAdd, CheckBeforeDelete, MaySend, AtHost
<1>3. CASE AddARecord(c) \/ DeleteARecord(c)
  BY <1>3 DEF AddARecord, DeleteARecord, HostDone, HostFails
<1> QED BY <1>1, <1>2, <1>3 DEF Step

\* Nobody else touches a call under way, but for the end of the process.
LEMMA OthersKeepCall ==
    ASSUME CoreInv, [Next]_vars, NEW c \in Callers, ~Step(c),
           pc[c] \in Inside, pc'[c] \in Inside
    PROVE  <<pc[c], todo[c], hosts[c]>>' = <<pc[c], todo[c], hosts[c]>>
<1> USE DEF CoreInv
<1>1. ASSUME NEW d \in Callers, Call(d) \/ Acquire(d) \/ Step(d), d # c
      PROVE  pc'[c] = pc[c] /\ todo'[c] = todo[c] /\ hosts'[c] = hosts[c]
  BY <1>1, Frame
<1>2. ~Call(c) /\ ~Acquire(c)
  BY DEF Call, CallReconcile, CallHostnames, Acquire, Inside, Places
<1>3. ASSUME Environment
      PROVE  pc' = pc /\ todo' = todo /\ hosts' = hosts
  BY <1>3, EnvironmentFrame DEF ProcessRestarts, callVars, Inside, Places
<1>4. CASE UNCHANGED vars
  BY <1>4 DEF vars, callVars
<1> QED BY <1>1, <1>2, <1>3, <1>4 DEF Next

\* Whatever the servers answer and the others do, every step of a call brings
\* it nearer to its end.
THEOREM StepsCount == Spec => EveryStepCounts
<1>1. Init => CoreInv
  BY InitCore
<1>2. CoreInv /\ [Next]_vars => CoreInv'
  BY CoreStep
<1>3. CoreInv /\ [Next]_vars =>
        [\A c \in Callers :
            /\ pc[c] \in Inside /\ pc'[c] \in Inside
            /\ Step(c) \/ <<pc[c], todo[c], hosts[c]>>' # <<pc[c], todo[c], hosts[c]>>
            => Nearer(c)]_vars
  BY StepNearer, OthersKeepCall
<1> QED BY <1>1, <1>2, <1>3, PTL DEF Spec, EveryStepCounts

\* What a call has before it, and when that is less: a listing, then the
\* workloads to come, then the names of the one at hand, then the check.
Work(c) ==
    <<IF pc[c] = "listing" THEN 1 ELSE 0,
      <<todo[c], <<Len(hosts[c]), IF pc[c] = "working" THEN 1 ELSE 0>> >> >>

NatLess  == OpToRel(<, Nat)
Works == Nat \X (FiniteSubsetsOf(Scanned) \X (Nat \X Nat))
Less  == LexPairOrdering(NatLess,
           LexPairOrdering(StrictSubsetOrdering(Scanned),
             LexPairOrdering(NatLess, NatLess, Nat, Nat),
             FiniteSubsetsOf(Scanned), Nat \X Nat),
           Nat, FiniteSubsetsOf(Scanned) \X (Nat \X Nat))

LEMMA LessIsWellFounded == IsWellFoundedOn(Less, Works)
<1>1. IsWellFoundedOn(NatLess, Nat)
  BY NatLessThanWellFounded DEF NatLess
<1>2. IsWellFoundedOn(StrictSubsetOrdering(Scanned), FiniteSubsetsOf(Scanned))
  BY FS_StrictSubsetOrderingWellFounded
<1> QED BY <1>1, <1>2, WFLexPairOrdering DEF Less, Works

\* No call takes infinitely many steps: each one leaves less work, in an order
\* that does not go down for ever, for any listing and any lists of names.
THEOREM CallsAreFinite ==
    /\ IsWellFoundedOn(Less, Works)
    /\ Spec => [][\A c \in Callers :
                    /\ pc[c] \in Inside /\ pc'[c] \in Inside /\ Step(c)
                    => /\ Work(c) \in Works /\ Work(c)' \in Works
                       /\ <<Work(c)', Work(c)>> \in Less]_vars
<1>1. Init => CoreInv /\ ErrorInv
  BY InitCore, FS_EmptySet DEF Init, ErrorInv, Spent, Under, Zero, Counters
<1>2. CoreInv /\ ErrorInv /\ [Next]_vars => CoreInv' /\ ErrorInv'
  BY CoreStep, ErrorNext
<1>3. /\ CoreInv /\ ErrorInv => \A c \in Callers : Work(c) \in Works
      /\ CoreInv' /\ ErrorInv' => \A c \in Callers : Work(c)' \in Works
  BY DEF CoreInv, TypeOK, ErrorInv, Work, Works, FiniteSubsetsOf
<1>4. ASSUME CoreInv, ErrorInv, CoreInv', ErrorInv', NEW c \in Callers, Step(c), pc'[c] \in Inside
      PROVE  <<Work(c)', Work(c)>> \in Less
  <2> DEFINE a == IF pc[c] = "listing" THEN 1 ELSE 0
             l == Len(hosts[c])
             r == IF pc[c] = "working" THEN 1 ELSE 0
  <2>1. Nearer(c) /\ pc'[c] # "listing"
    BY <1>4, StepNearer, NoListingAfter
  <2>2. /\ a \in Nat /\ a' = 0 /\ l \in Nat /\ l' \in Nat /\ r \in Nat /\ r' \in Nat
        /\ todo[c] \in FiniteSubsetsOf(Scanned) /\ todo'[c] \in FiniteSubsetsOf(Scanned)
    BY <1>4, <2>1 DEF CoreInv, TypeOK, ErrorInv, FiniteSubsetsOf
  <2>3. \/ <<a', a>> \in NatLess
        \/ a' = a /\ <<todo'[c], todo[c]>> \in StrictSubsetOrdering(Scanned)
        \/ a' = a /\ todo'[c] = todo[c] /\ <<l', l>> \in NatLess
        \/ a' = a /\ todo'[c] = todo[c] /\ l' = l /\ <<r', r>> \in NatLess
    BY <2>1, <2>2 DEF Nearer, NatLess, OpToRel, StrictSubsetOrdering, FiniteSubsetsOf
  <2>4. Work(c) = <<a, <<todo[c], <<l, r>> >> >> /\ Work(c)' = <<a', <<todo'[c], <<l', r'>> >> >>
    BY DEF Work
  <2> HIDE DEF a, l, r
  <2> QED BY <2>2, <2>3, <2>4 DEF Less, LexPairOrdering
<1>5. CoreInv /\ ErrorInv /\ [Next]_vars =>
        [\A c \in Callers :
            /\ pc[c] \in Inside /\ pc'[c] \in Inside /\ Step(c)
            => /\ Work(c) \in Works /\ Work(c)' \in Works
               /\ <<Work(c)', Work(c)>> \in Less]_vars
  BY <1>2, <1>3, <1>4
<1>6. Spec => [][\A c \in Callers :
                    /\ pc[c] \in Inside /\ pc'[c] \in Inside /\ Step(c)
                    => /\ Work(c) \in Works /\ Work(c)' \in Works
                       /\ <<Work(c)', Work(c)>> \in Less]_vars
  BY <1>1, <1>2, <1>5, PTL DEF Spec
<1> QED BY <1>6, LessIsWellFounded
=============================================================================
