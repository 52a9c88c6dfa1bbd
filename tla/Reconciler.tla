----------------------------- MODULE Reconciler -----------------------------
(***************************************************************************)
(* internal/reconciler: Reconcile, ReconcileHostnames and DeleteHostnames, *)
(* called by several goroutines on one Reconciler, beside a Docker daemon  *)
(* whose workloads come and go and a zone that others edit.  One step is   *)
(* one request to a server or the code between two requests.               *)
(***************************************************************************)
EXTENDS Technitium, Integers, Sequences, FiniteSets

CONSTANTS
    Callers,      \* goroutines: main, the debounce timers, users of the API
    NoCaller,     \* the mutex is free
    Workloads,    \* services or containers Docker may run
    LabelSets,    \* label maps a workload can carry
    Absent,       \* the workload is not running
    HostLists,    \* label map -> the lists parser.ExtractHosts can return
    ArgLists,     \* arguments given to ReconcileHostnames, DeleteHostnames
    Matching,     \* the names cfg.MatchesFilters accepts
    TargetIP,     \* TARGET_IP
    FirstRecords, \* what the zone holds when the program starts
    EditedRecords \* records that others add to the zone and remove from it

\* The order of a list depends on Go's map iteration, its members do not.
ASSUME ReconcilerAssumption ==
    /\ NoCaller \notin Callers
    /\ Absent \notin LabelSets
    /\ IsFiniteSet(Workloads)
    /\ HostLists \in [LabelSets -> (SUBSET Seq(Names)) \ {{}}]
    /\ \A l \in LabelSets : \A s, t \in HostLists[l] :
          {s[i] : i \in DOMAIN s} = {t[i] : i \in DOMAIN t}
    /\ ArgLists \subseteq Seq(Names)
    /\ Matching \subseteq Names
    /\ TargetIP \in IPs
    /\ FirstRecords \subseteq Record
    /\ EditedRecords \subseteq Record

VARIABLES
    dryRun,    \* DRY_RUN: read once, when the process starts
    workloads, \* what Docker runs: workload -> its labels, or Absent
    mu,        \* the Reconciler's mutex: its holder
    pc,        \* where each caller is
    op,        \* the method each caller is in
    todo,      \* rest of the listing a run walks through
    hosts,     \* rest of the host list a caller walks through
    result,    \* the ReconcileResult, and deleted of DeleteHostnames
    asked,     \* names the current run was asked to publish (history)
    touched,   \* records that others edited under the lock holder (history)
    belated    \* requests that this program had given up on and that were
               \* carried out under the lock holder (history)

callVars == <<mu, pc, op, todo, hosts, result>>
history == <<asked, touched, belated>>
vars == <<dryRun, workloads, callVars, history, serverVars>>

Methods == {"Reconcile", "ReconcileHostnames", "DeleteHostnames"}
Places  == {"idle", "locking", "listing", "working", "adding", "deleting"}
Inside  == Places \ {"idle", "locking"}
Counters == {"scanned", "found", "filtered", "created", "existed", "errors",
             "deleted"}
Zero == [k \in Counters |-> 0]

\* Slip: the arguments swapped.
TargetSwapped(h) == ARecord(TargetIP, h)

Target(h) == ARecord(h, TargetIP)
MembersOf(s) == {s[i] : i \in DOMAIN s}
NamesIn(labels) == UNION {MembersOf(s) : s \in HostLists[labels]}
NamesOf(listing) == UNION {NamesIn(w.labels) : w \in listing}
Scanned == [id : Workloads, labels : LabelSets]

Init ==
    /\ dryRun \in BOOLEAN
    /\ workloads \in [Workloads -> LabelSets \union {Absent}]
    /\ mu = NoCaller
    /\ pc = [c \in Callers |-> "idle"]
    /\ op = [c \in Callers |-> "Reconcile"]
    /\ todo = [c \in Callers |-> {}]
    /\ hosts = [c \in Callers |-> <<>>]
    /\ result = [c \in Callers |-> Zero]
    /\ asked = [c \in Callers |-> {}]
    /\ touched = {}
    /\ belated = {}
    /\ ServerInit(FirstRecords)

-----------------------------------------------------------------------------
(* Helpers: the code between two requests.                                 *)

\* Slip: the filters forgotten.
MatchesAnything(h) == TRUE

MatchesFilters(h) == h \in Matching

\* ListServices, ListContainers: what runs at this moment.
Running == {w \in Workloads : workloads[w] # Absent}
ListWorkloads == {[id |-> w, labels |-> workloads[w]] : w \in Running}

\* Slip: no mutex.
LockAlwaysFree == TRUE

\* mu.Lock() returns.
LockFree == mu = NoCaller

\* Slip: a path that does not unlock.
KeepLock == mu' = mu

\* defer mu.Unlock().
Release == mu' = NoCaller

Counted(c, k, n) == result' = [result EXCEPT ![c][k] = @ + n]

\* Each of some counters goes up by one.
CountedAll(c, ks) ==
    result' = [result EXCEPT ![c] =
                  [k \in Counters |-> result[c][k] + (IF k \in ks THEN 1 ELSE 0)]]

Rest(c) == Tail(hosts[c])

\* Slip: the workload's other names are still tried.
AfterErrorGoOn(c) == Rest(c)

\* Slip: the name is tried again.
AfterErrorAgain(c) == hosts[c]

\* An error ends the host list of a workload, but not that of a direct call.
AfterError(c) == IF op[c] = "Reconcile" THEN <<>> ELSE Rest(c)

\* DeleteHostnames has no ReconcileResult: it logs its errors, that is all.
ErrorsOf(c)   == IF op[c] = "DeleteHostnames" THEN {} ELSE {"errors"}

\* Slip: a name is counted only once the server has answered for it.
FilteredWhenAnswered(c) == {}

FilteredOf(c) == IF op[c] = "DeleteHostnames" THEN {} ELSE {"filtered"}
SuccessOf(c)  == IF op[c] = "DeleteHostnames" THEN {"deleted"} ELSE {"created"}

HostDone(c) ==
    /\ CountedAll(c, SuccessOf(c))
    /\ hosts' = [hosts EXCEPT ![c] = Rest(c)]
    /\ pc' = [pc EXCEPT ![c] = "working"]

\* Slip: a deletion that failed is logged, and counted all the same.
LoggedAndCounted(c) ==
    /\ CountedAll(c, IF op[c] = "DeleteHostnames" THEN SuccessOf(c) ELSE {"errors"})
    /\ hosts' = [hosts EXCEPT ![c] = AfterError(c)]
    /\ pc' = [pc EXCEPT ![c] = "working"]

HostFails(c) ==
    /\ CountedAll(c, ErrorsOf(c))
    /\ hosts' = [hosts EXCEPT ![c] = AfterError(c)]
    /\ pc' = [pc EXCEPT ![c] = "working"]

AtHost(c) == pc[c] = "working" /\ hosts[c] # <<>>
Host(c) == Head(hosts[c])
Finished(c) == pc[c] = "working" /\ hosts[c] = <<>> /\ todo[c] = {}

\* The call is over; its caller keeps nothing.
Leave(c) ==
    /\ Release
    /\ pc' = [pc EXCEPT ![c] = "idle"]
    /\ op' = [op EXCEPT ![c] = "Reconcile"]
    /\ todo' = [todo EXCEPT ![c] = {}]
    /\ hosts' = [hosts EXCEPT ![c] = <<>>]
    /\ result' = [result EXCEPT ![c] = Zero]
    /\ asked' = [asked EXCEPT ![c] = {}]
    /\ touched' = {}
    /\ belated' = {}
    /\ UNCHANGED <<workloads, dryRun, serverVars>>

-----------------------------------------------------------------------------
(* The three methods.                                                      *)

CallReconcile(c) ==
    /\ pc[c] = "idle"
    /\ pc' = [pc EXCEPT ![c] = "locking"]
    /\ UNCHANGED <<workloads, dryRun, mu, op, todo, hosts, result, history, serverVars>>

CallHostnames(c) ==
    /\ pc[c] = "idle"
    /\ pc' = [pc EXCEPT ![c] = "locking"]
    /\ \E m \in Methods \ {"Reconcile"}, names \in ArgLists :
          /\ op' = [op EXCEPT ![c] = m]
          /\ hosts' = [hosts EXCEPT ![c] = names]
    /\ UNCHANGED <<workloads, dryRun, mu, todo, result, history, serverVars>>

\* mu.Lock(), then the empty result; ReconcileHostnames counts its argument.
Acquire(c) ==
    /\ pc[c] = "locking"
    /\ LockFree
    /\ mu' = c
    /\ pc' = [pc EXCEPT ![c] = IF op[c] = "Reconcile" THEN "listing" ELSE "working"]
    /\ IF op[c] = "ReconcileHostnames"
         THEN /\ Counted(c, "found", Len(hosts[c]))
              /\ asked' = [asked EXCEPT ![c] = MembersOf(hosts[c]) \intersect Matching]
         ELSE UNCHANGED <<result, asked>>
    /\ UNCHANGED <<workloads, dryRun, op, todo, hosts, touched, belated, serverVars>>

\* docker.ListWorkloads answers.
List(c) ==
    /\ pc[c] = "listing"
    /\ todo' = [todo EXCEPT ![c] = ListWorkloads]
    /\ Counted(c, "scanned", Cardinality(ListWorkloads))
    /\ asked' = [asked EXCEPT ![c] = NamesOf(ListWorkloads) \intersect Matching]
    /\ pc' = [pc EXCEPT ![c] = "working"]
    /\ UNCHANGED <<workloads, dryRun, mu, op, hosts, touched, belated, serverVars>>

\* docker.ListWorkloads fails: nil, err and nothing counted.
ListFails(c) ==
    /\ pc[c] = "listing"
    /\ Leave(c)

\* processWorkload: the listing's next workload, in whatever order Docker
\* gave it, and its host names.
ProcessWorkload(c) ==
    /\ pc[c] = "working"
    /\ hosts[c] = <<>>
    /\ \E w \in todo[c] : \E list \in HostLists[w.labels] :
          /\ todo' = [todo EXCEPT ![c] = @ \ {w}]
          /\ hosts' = [hosts EXCEPT ![c] = list]
          /\ Counted(c, "found", Len(list))
    /\ UNCHANGED <<workloads, dryRun, mu, pc, op, history, serverVars>>

\* The filters refuse the name: next.
Refuse(c) ==
    /\ AtHost(c)
    /\ ~MatchesFilters(Host(c))
    /\ hosts' = [hosts EXCEPT ![c] = Rest(c)]
    /\ UNCHANGED <<workloads, dryRun, mu, pc, op, todo, result, history, serverVars>>

\* Dry run: a record is counted as created or deleted, nothing is sent.
Pretend(c) ==
    /\ AtHost(c)
    /\ MatchesFilters(Host(c))
    /\ dryRun
    /\ CountedAll(c, FilteredOf(c) \union SuccessOf(c))
    /\ hosts' = [hosts EXCEPT ![c] = Rest(c)]
    /\ UNCHANGED <<workloads, dryRun, mu, pc, op, todo, history, serverVars>>

\* Slip: the dry run is not asked about.
MaySendAnyway(c) == AtHost(c) /\ MatchesFilters(Host(c))

MaySend(c) == AtHost(c) /\ MatchesFilters(Host(c)) /\ ~dryRun

\* EnsureARecord: records/get answers; an existing record is left alone.
CheckBeforeAdd(c) ==
    /\ MaySend(c)
    /\ op[c] # "DeleteHostnames"
    /\ IF HasARecord(Host(c), TargetIP)
         THEN /\ CountedAll(c, {"filtered", "existed"})
              /\ hosts' = [hosts EXCEPT ![c] = Rest(c)]
              /\ UNCHANGED pc
         ELSE /\ CountedAll(c, {"filtered"})
              /\ pc' = [pc EXCEPT ![c] = "adding"]
              /\ UNCHANGED hosts
    /\ UNCHANGED <<workloads, dryRun, mu, op, todo, history, serverVars>>

\* DeleteHostnames: records/get answers; a missing record is skipped.
CheckBeforeDelete(c) ==
    /\ MaySend(c)
    /\ op[c] = "DeleteHostnames"
    /\ IF HasARecord(Host(c), TargetIP)
         THEN pc' = [pc EXCEPT ![c] = "deleting"] /\ UNCHANGED hosts
         ELSE hosts' = [hosts EXCEPT ![c] = Rest(c)] /\ UNCHANGED pc
    /\ UNCHANGED <<workloads, dryRun, mu, op, todo, result, history, serverVars>>

\* records/get fails, or takes longer than 30 s.
CheckFails(c) ==
    /\ MaySend(c)
    /\ CountedAll(c, FilteredOf(c) \union ErrorsOf(c))
    /\ hosts' = [hosts EXCEPT ![c] = AfterError(c)]
    /\ UNCHANGED <<workloads, dryRun, mu, pc, op, todo, history, serverVars>>

AddARecord(c) ==
    /\ pc[c] = "adding"
    /\ \E outcome \in Outcomes :
          /\ Write(Add(Target(Host(c))), outcome)
          /\ IF Succeeds(outcome) THEN HostDone(c) ELSE HostFails(c)
    /\ UNCHANGED <<workloads, dryRun, mu, op, todo, history>>

DeleteARecord(c) ==
    /\ pc[c] = "deleting"
    /\ \E outcome \in Outcomes :
          /\ Write(Delete(Target(Host(c))), outcome)
          /\ IF Succeeds(outcome) THEN HostDone(c) ELSE HostFails(c)
    /\ UNCHANGED <<workloads, dryRun, mu, op, todo, history>>

\* The metrics are recorded, the result is returned, the mutex is released.
Return(c) == Finished(c) /\ Leave(c)

-----------------------------------------------------------------------------
(* The surroundings.                                                       *)

\* A workload is created, relabelled or removed.
DockerChange(w) ==
    /\ \E labels \in (LabelSets \union {Absent}) \ {workloads[w]} :
          workloads' = [workloads EXCEPT ![w] = labels]
    /\ UNCHANGED <<dryRun, callVars, history, serverVars>>

ZoneEdited(r) ==
    /\ OutsideEdit(r)
    /\ touched' = IF mu = NoCaller THEN touched ELSE touched \union {r}
    /\ UNCHANGED <<workloads, dryRun, callVars, asked, belated>>

\* A request of this program, of the lock holder or of a call before it.
RequestArrivesLate(req) ==
    /\ LateArrival(req)
    /\ belated' = IF mu = NoCaller \/ dns' = dns THEN belated ELSE belated \union {req}
    /\ UNCHANGED <<workloads, dryRun, callVars, asked, touched>>

\* The process ends, with calls in flight or without, and starts again: it
\* keeps nothing, but a request already sent may still be carried out.
InFlight(c) ==
    CASE pc[c] = "adding"   -> {Add(Target(Host(c)))}
      [] pc[c] = "deleting" -> {Delete(Target(Host(c)))}
      [] OTHER              -> {}

ProcessRestarts ==
    /\ mu' = NoCaller
    /\ pc' = [c \in Callers |-> "idle"]
    /\ op' = [c \in Callers |-> "Reconcile"]
    /\ todo' = [c \in Callers |-> {}]
    /\ hosts' = [c \in Callers |-> <<>>]
    /\ result' = [c \in Callers |-> Zero]
    /\ asked' = [c \in Callers |-> {}]
    /\ touched' = {}
    /\ belated' = {}
    /\ late' \in {late, late \union UNION {InFlight(c) : c \in Callers}}
    /\ UNCHANGED <<workloads, dryRun, dns>>

-----------------------------------------------------------------------------
Step(c) ==
    \/ List(c) \/ ListFails(c) \/ ProcessWorkload(c)
    \/ Refuse(c) \/ Pretend(c)
    \/ CheckBeforeAdd(c) \/ CheckBeforeDelete(c) \/ CheckFails(c)
    \/ AddARecord(c) \/ DeleteARecord(c)
    \/ Return(c)

Call(c) == CallReconcile(c) \/ CallHostnames(c)

Environment ==
    \/ \E w \in Workloads : DockerChange(w)
    \/ \E r \in EditedRecords : ZoneEdited(r)
    \/ \E req \in late : RequestArrivesLate(req)
    \/ ProcessRestarts

Next ==
    \/ \E c \in Callers : Call(c) \/ Acquire(c) \/ Step(c)
    \/ Environment

Spec == Init /\ [][Next]_vars

(* Every request is answered or given up (the API client's deadline; of    *)
(* the Docker daemon it is assumed), and a Go mutex is handed to a waiter  *)
(* that has starved for 1 ms, so no waiter is overtaken for ever.          *)
Fairness == \A c \in Callers : WF_vars(Step(c)) /\ SF_vars(Acquire(c))
FairSpec == Spec /\ Fairness

-----------------------------------------------------------------------------
(* Properties.                                                             *)

\* Every variable keeps its type; a call outside the mutex has no listing.
TypeOK ==
    /\ dryRun \in BOOLEAN
    /\ workloads \in [Workloads -> LabelSets \union {Absent}]
    /\ mu \in Callers \union {NoCaller}
    /\ pc \in [Callers -> Places]
    /\ op \in [Callers -> Methods]
    /\ todo \in [Callers -> SUBSET Scanned]
    /\ hosts \in [Callers -> Seq(Names)]
    /\ result \in [Callers -> [Counters -> Nat]]
    /\ asked \in [Callers -> SUBSET Names]
    /\ touched \subseteq Record
    /\ belated \subseteq Requests
    /\ ServerTypeOK

\* reconciler.go:44, 83, 229, 259: exactly the holder of the mutex is between
\* Lock and Unlock, so no two calls interleave their requests to the server.
MutexHeld == \A c \in Callers : pc[c] \in Inside <=> mu = c

\* A write is sent only for a name the filters accept and never in a dry run.
WritesAllowed(c) ==
    pc[c] \in {"adding", "deleting"} =>
        /\ hosts[c] # <<>> /\ Host(c) \in Matching /\ ~dryRun
        /\ op[c] = "DeleteHostnames" <=> pc[c] = "deleting"

\* client.go:243-261, reconciler.go:279-318: between the check and the write
\* that depends on it the answer goes stale in two ways only: somebody else
\* edits that record, or the program itself has given up on such a write
\* before (its 30 s passed, or it was restarted) and the server carries it out
\* now.  No other call, and no request the program still waits for, does it.
CheckStillHolds == \A c \in Callers : LET r == Target(Host(c)) IN
    /\ pc[c] = "adding" => r \notin dns \/ r \in touched \/ Add(r) \in belated
    /\ pc[c] = "deleting" => r \in dns \/ r \in touched \/ Delete(r) \in belated

\* reconciler.go:19-34, 178-221: in every state of a run that returns a
\* ReconcileResult its counters agree.  A name that passed the filters has
\* been created, found to exist or has failed, or is the one being added; and
\* no more names passed than were found.
Adding(c) == IF pc[c] = "adding" THEN 1 ELSE 0
CountersAgree == \A c \in Callers : LET n == result[c] IN
    op[c] # "DeleteHostnames" =>
        /\ n.filtered = n.created + n.existed + n.errors + Adding(c)
        /\ pc[c] \in Inside => n.filtered + Len(hosts[c]) <= n.found + Adding(c)

\* reconciler.go:106-115, 159-161: a run reports at most one error for each
\* workload it scanned, the workloads still to come included.
Under(c) == IF hosts[c] = <<>> THEN 0 ELSE 1
OneErrorPerWorkload == \A c \in Callers :
    op[c] = "Reconcile" =>
        result[c].errors + Under(c) + Cardinality(todo[c]) <= result[c].scanned

\* What a run still has to look at.
Ahead(c) == MembersOf(hosts[c]) \union NamesOf(todo[c])

\* reconciler.go:82-137, 226-254: a run that ends without an error has left
\* every name it was asked for in the zone, unless while it ran somebody else
\* changed that very record, or a deletion of it that the program had given up
\* on was carried out after all.  (Dry runs and deletions ask for nothing.)
CleanRunPublishes == \A c \in Callers :
    (Finished(c) /\ op[c] # "DeleteHostnames" /\ ~dryRun /\ result[c].errors = 0) =>
        \A h \in asked[c] :
            Target(h) \in dns \union touched \/ Delete(Target(h)) \in belated

\* README.md:140, 144: the program changes no record but the address record
\* of an accepted name with the target address, and none at all in a dry run.
\* Anything else that happens to the zone is done by others.
Managed == IF dryRun THEN {} ELSE {Target(h) : h \in Matching}
Changed == (dns \ dns') \union (dns' \ dns)
OnlyManagedRecords ==
    [][\/ Changed \subseteq Managed
       \/ \E r \in EditedRecords : ZoneEdited(r)]_vars

\* reconciler.go:82-254: no run and no restart takes a record out of the zone;
\* only a deletion does, its own or the late arrival of one.
OnlyDeletionsRemove ==
    [][\A r \in dns \ dns' :
          \/ \E c \in Callers : pc[c] = "deleting" /\ r = Target(Host(c))
          \/ Delete(r) \in late
          \/ r \in EditedRecords /\ ZoneEdited(r)]_vars

\* client.go:240-241, reconciler.go:25: a record counted as created is in the
\* zone when it is counted (a dry run counts what it would create).
CreatedMeansCreated ==
    [][\A c \in Callers :
          (result'[c].created > result[c].created /\ ~dryRun) =>
              Target(Host(c)) \in dns']_vars

\* reconciler.go:294-325: the number DeleteHostnames returns counts a record
\* only when it is gone, and only when it was there until this call removed
\* it, or somebody else or an earlier deletion was quicker than its request.
\* (A dry run counts what it would delete, without looking.)
DeletedMeansDeleted ==
    [][\A c \in Callers : LET r == Target(Host(c)) IN
          (result'[c].deleted > result[c].deleted /\ ~dryRun) =>
              /\ r \notin dns'
              /\ r \in dns \/ r \in touched \/ Delete(r) \in belated]_vars

\* The listing is there, or fewer workloads are to come, or as many and fewer
\* names of the one at hand, or the request for that name is to be sent.
Nearer(c) ==
    \/ pc[c] = "listing"
    \/ todo'[c] \subseteq todo[c] /\ todo'[c] # todo[c]
    \/ todo'[c] = todo[c] /\ Len(hosts'[c]) < Len(hosts[c])
    \/ UNCHANGED <<todo, hosts>> /\ pc[c] = "working" /\ pc'[c] # "working"

\* reconciler.go:82-280: whatever the servers answer and whatever others do,
\* every step of a call brings it nearer to its end: it can be held up for as
\* long as a request takes, but it cannot go round in circles.
EveryStepCounts ==
    [][\A c \in Callers :
          /\ pc[c] \in Inside /\ pc'[c] \in Inside
          /\ Step(c) \/ <<pc[c], todo[c], hosts[c]>>' # <<pc[c], todo[c], hosts[c]>>
          => Nearer(c)]_vars

\* The call that holds the mutex, once it knows its names, is the job of the
\* abstract specification; a dry run has no names to see to.
Job == IF mu = NoCaller \/ pc[mu] = "listing" THEN "none"
         ELSE IF op[mu] = "DeleteHostnames" THEN "remove" ELSE "publish"
OpenNames == IF mu = NoCaller \/ dryRun THEN {} ELSE Ahead(mu) \intersect Matching
JobFailed == mu # NoCaller /\ result[mu].errors > 0

Zone == INSTANCE ManagedZone WITH
    Hosts <- Matching, Record <- [h \in Matching |-> Target(h)], Edited <- EditedRecords,
    zone <- dns, owed <- late, job <- Job, open <- OpenNames, failed <- JobFailed

\* reconciler.go:82-280: to the zone, the callers, the listings and the three
\* methods are one job after another, each settling its names or failing.
IsManagedZone == Zone!Spec

\* Every call returns: the mutex is always released, on every error path.
EveryCallReturns == \A c \in Callers : pc[c] # "idle" ~> pc[c] = "idle"
=============================================================================
