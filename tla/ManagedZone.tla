----------------------------- MODULE ManagedZone -----------------------------
(***************************************************************************)
(* What internal/reconciler promises about the zone, without callers, lock,*)
(* listings or counters: one job at a time works through a set of names.   *)
(* A publishing job ends with every name of it settled, or has failed and  *)
(* says so; a removing job promises only to keep to its names.             *)
(***************************************************************************)
CONSTANTS
    Hosts,   \* names a job may be given
    Record,  \* the record each name stands for
    Edited   \* records that others add and remove

VARIABLES
    zone,    \* the records of the zone
    owed,    \* requests given up on, which may be carried out all the same
    job,     \* "none", "publish" or "remove"
    open,    \* names the job has still to see to
    failed   \* the job has failed for some name, and says so

vars == <<zone, owed, job, open, failed>>

Put(h)  == [kind |-> "add", record |-> Record[h]]
Drop(h) == [kind |-> "delete", record |-> Record[h]]

Outcome(req) ==
    IF req.kind = "add" THEN zone \union {req.record} ELSE zone \ {req.record}

Init ==
    /\ owed = {}
    /\ job = "none"
    /\ open = {}
    /\ failed = FALSE

Begin ==
    /\ job = "none"
    /\ job' \in {"publish", "remove"}
    /\ open' \in SUBSET Hosts
    /\ failed' = FALSE
    /\ UNCHANGED <<zone, owed>>

\* A name is published; it stays open when the job meets it again.
Settle(h) ==
    /\ job = "publish"
    /\ zone' = zone \union {Record[h]}
    /\ open' \in {open, open \ {h}}
    /\ UNCHANGED <<owed, job, failed>>

\* A name is given up, and the job with it or not: nobody knows what became
\* of the request, if there was one.
GiveUp(h) ==
    /\ job = "publish"
    /\ zone' \in {zone, zone \union {Record[h]}}
    /\ owed' \in {owed, owed \union {Put(h)}}
    /\ open' \in SUBSET open
    /\ failed' = TRUE
    /\ UNCHANGED job

Remove(h) ==
    /\ job = "remove"
    /\ zone' \in {zone, zone \ {Record[h]}}
    /\ owed' \in {owed, owed \union {Drop(h)}}
    /\ open' \in {open, open \ {h}}
    /\ UNCHANGED <<job, failed>>

Over == job' = "none" /\ open' = {} /\ failed' = FALSE

End ==
    /\ job # "none"
    /\ open = {} \/ failed
    /\ Over
    /\ UNCHANGED <<zone, owed>>

\* The process ends, perhaps with one request of the job on its way.
Crash ==
    /\ job # "none"
    /\ Over
    /\ \/ owed' = owed
       \/ \E h \in open : owed' = owed \union {IF job = "publish" THEN Put(h) ELSE Drop(h)}
    /\ UNCHANGED zone

Arrive(req) ==
    /\ owed' = owed \ {req}
    /\ zone' \in {zone, Outcome(req)}
    /\ UNCHANGED <<job, open, failed>>

Edit(r) ==
    /\ zone' \in {zone \union {r}, zone \ {r}}
    /\ UNCHANGED <<owed, job, open, failed>>

Next ==
    \/ Begin \/ End \/ Crash
    \/ \E h \in open : Settle(h) \/ GiveUp(h) \/ Remove(h)
    \/ \E req \in owed : Arrive(req)
    \/ \E r \in Edited : Edit(r)

Spec == Init /\ [][Next]_vars
=============================================================================
