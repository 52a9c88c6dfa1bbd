----------------------------- MODULE Technitium -----------------------------
(***************************************************************************)
(* The Technitium DNS server as internal/technitium/client.go uses it: one *)
(* zone, read with records/get and written with records/add and            *)
(* records/delete.  The server is outside this repository; the client is   *)
(* not.  Every write is one HTTP request with a 30 s deadline, and what    *)
(* the client learns of it need not be what the server did with it.        *)
(***************************************************************************)
LOCAL INSTANCE Naturals

CONSTANTS
    Names,        \* host names of the managed zone
    IPs,          \* values an address record can have
    RecordTypes,  \* record types, "A" among them
    Outcomes      \* the fates of a write request the run lets happen

(* "ok"     applied, and the client is told so                             *)
(* "error"  not applied, and the client gets an error                      *)
(* "lost"   applied, but the answer is lost: the client gets an error      *)
(* "late"   the client's deadline passes, the request is applied later     *)
(* "other"  not applied, answered with a status that is neither "ok" nor   *)
(*          "error" ("invalid-token"): doRequest takes it for a success    *)
Fates == {"ok", "error", "lost", "late", "other"}

ASSUME TechnitiumAssumption ==
    /\ "A" \in RecordTypes
    /\ Outcomes \subseteq Fates

VARIABLES
    dns,   \* the records of the zone
    late   \* write requests the client gave up on that may still be applied

serverVars == <<dns, late>>

Record   == [name : Names, type : RecordTypes, ip : IPs]
Requests == [kind : {"add", "delete"}, record : Record]

ARecord(h, ip) == [name |-> h, type |-> "A", ip |-> ip]

Add(r)    == [kind |-> "add", record |-> r]
Delete(r) == [kind |-> "delete", record |-> r]

ServerTypeOK ==
    /\ dns \subseteq Record
    /\ late \subseteq Requests

ServerInit(records) ==
    /\ dns = records
    /\ late = {}

\* Slip: adding a record overwrites the others of that name.
AppliedOverwriting(req, zone) ==
    IF req.kind = "add"
      THEN {r \in zone : r.name # req.record.name} \union {req.record}
      ELSE zone \ {req.record}

\* The zone after the server has carried out a write.
Applied(req, zone) ==
    IF req.kind = "add" THEN zone \union {req.record} ELSE zone \ {req.record}

\* Slip: an answer that did not come is taken for a good one.
SucceedsUnlessTold(outcome) == outcome # "error"

\* doRequest: only the status "error" is an error.
Succeeds(outcome) == outcome \in {"ok", "other"}

GetRecords(h) == {r \in dns : r.name = h}

\* Slip: any address record of the name will do.
MatchesAnyAddress(r, ip) == r.type = "A"

Matches(r, ip) == r.type = "A" /\ r.ip = ip

HasARecord(h, ip) == \E r \in GetRecords(h) : Matches(r, ip)

\* One write request as the server sees it: AddARecord, DeleteARecord.
Write(req, outcome) ==
    /\ dns'  = IF outcome \in {"ok", "lost"} THEN Applied(req, dns) ELSE dns
    /\ late' = IF outcome = "late" THEN late \union {req} ELSE late

\* A request whose client has gone away reaches the zone after all, or never.
LateArrival(req) ==
    /\ req \in late
    /\ late' = late \ {req}
    /\ dns' \in {dns, Applied(req, dns)}

\* Somebody else edits the zone: the web console, another companion.
OutsideEdit(r) ==
    /\ dns' \in {dns \union {r}, dns \ {r}} \ {dns}
    /\ UNCHANGED late
=============================================================================
