--------------------------- MODULE WebhookIngress ---------------------------
(***************************************************************************)
(* The way in: POST /github/webhook (app/api/v1/github_webhook.py), the    *)
(* delivery ledger behind it (app/services/webhook_service.py) and the     *)
(* start of an analysis (GitHubPullRequestAnalysisService._start_or_get    *)
(* and the publication of the request event).                              *)
(*                                                                         *)
(* A request is one HTTP request of GitHub: many run at once, each with a  *)
(* session of its own, and each may be cut short at any await.  The unique *)
(* constraints of the delivery ledger and of the analysis rows are what    *)
(* keeps them apart; the reads before the inserts only make the common     *)
(* case cheap.                                                             *)
(*                                                                         *)
(* A body stands for its payload hash as well as for its content: it is    *)
(* the head commit of a supported pull_request event, or Other, any event  *)
(* that is recorded and dispatches nothing.                                *)
(***************************************************************************)
EXTENDS Naturals, Sequences, FiniteSets

CONSTANTS
    Requests,       \* HTTP requests
    DeliveryIds,    \* values of X-GitHub-Delivery
    Shas,           \* head commits of the pull request
    Other,          \* the body of every other event
    NoRow,          \* no analysis row for a head commit
    NewRow,         \* the analysis row _start_or_get inserts
    None,           \* no ledger row
    MaxLog,         \* bound: events published
    MaxFaults       \* bound: requests that die, publications that fail

ASSUME IngressAssumption ==
    /\ Other \notin Shas
    /\ None \notin Shas \cup {Other}
    /\ NoRow # NewRow
    /\ MaxLog \in Nat
    /\ MaxFaults \in Nat

Bodies == Shas \cup {Other}

VARIABLES
    kafka,        \* settings.kafka_enabled, the same for the life of a deployment
    mapping,      \* the GitHubRepositoryMapping: "none", "unconfigured", "configured"
    rows,         \* rows[a]: the GitHubPullRequestAnalysis of head commit a
    log,          \* the request topic: the head commits of the events
    deliveries,   \* deliveries[d]: the payload hash stored for delivery id d
    audit,        \* audit[k]: how many audit events of kind k are committed
    rqpc,         \* rqpc[r]: where request r is, and how it was answered
    rqid,         \* rqid[r]: its X-GitHub-Delivery
    body,         \* body[r]: its body
    faults        \* faults so far

ingressVars == <<kafka, mapping, rows, log, deliveries, audit, rqpc, rqid, body, faults>>

\* What an audit event is about: a delivery id, or an analysis.
AuditKinds ==
    ({"processed", "rejected"} \X DeliveryIds) \cup ({"started", "enqueued"} \X Shas)

Record(action, subject) == audit' = [audit EXCEPT ![<<action, subject>>] = @ + 1]

Init ==
    /\ kafka \in BOOLEAN
    /\ mapping \in {"none", "unconfigured", "configured"}
    /\ rows = [a \in Shas |-> NoRow]
    /\ log = <<>>
    /\ deliveries = [d \in DeliveryIds |-> None]
    /\ audit = [k \in AuditKinds |-> 0]
    /\ rqpc = [r \in Requests |-> "new"]
    /\ rqid = [r \in Requests |-> None]
    /\ body = [r \in Requests |-> None]
    /\ faults = 0

At(r, label) == rqpc[r] = label

Goto(r, label) == rqpc' = [rqpc EXCEPT ![r] = label]

-----------------------------------------------------------------------------
(* GitHubWebhookService.process *)

\* The request arrives.  Without a valid signature it is rejected, and the
\* rejection is audited.
Receive(r, d, b, signed) ==
    /\ At(r, "new")
    /\ rqid' = [rqid EXCEPT ![r] = d]
    /\ body' = [body EXCEPT ![r] = b]
    /\ \/ signed /\ Goto(r, "check") /\ UNCHANGED audit
       \/ ~signed /\ Goto(r, "unsigned") /\ Record("rejected", d)
    /\ UNCHANGED <<kafka, mapping, rows, log, deliveries, faults>>

\* get_by_delivery_id, before the insert.
Check(r) ==
    LET stored == deliveries[rqid[r]] IN
    /\ At(r, "check")
    /\ \/ stored = None /\ Goto(r, "insert") /\ UNCHANGED audit
       \/ stored = body[r] /\ Goto(r, "duplicate") /\ UNCHANGED audit
       \/ /\ stored \notin {None, body[r]}
          /\ Goto(r, "conflict")
          /\ Record("rejected", rqid[r])
    /\ UNCHANGED <<kafka, mapping, rows, log, deliveries, rqid, body, faults>>

\* Mutant of Insert: the unique constraint is missing; the last writer wins.
InsertUnchecked(r) ==
    /\ At(r, "insert")
    /\ Goto(r, IF body[r] = Other THEN "accepted" ELSE "start")
    /\ deliveries' = [deliveries EXCEPT ![rqid[r]] = body[r]]
    /\ Record("processed", rqid[r])
    /\ UNCHANGED <<kafka, mapping, rows, log, rqid, body, faults>>

\* Mutant of Insert: whoever loses the race is taken for a duplicate.
InsertOrDuplicate(r) ==
    LET stored == deliveries[rqid[r]] IN
    /\ At(r, "insert")
    /\ \/ /\ stored = None
          /\ Goto(r, IF body[r] = Other THEN "accepted" ELSE "start")
          /\ deliveries' = [deliveries EXCEPT ![rqid[r]] = body[r]]
          /\ Record("processed", rqid[r])
       \/ /\ stored # None
          /\ Goto(r, "duplicate")
          /\ UNCHANGED <<deliveries, audit>>
    /\ UNCHANGED <<kafka, mapping, rows, log, rqid, body, faults>>

\* The ledger row and its audit event are one commit.  Whoever loses the race
\* on the unique delivery_id rolls both back, reads the winner's row and
\* answers as if it had seen it before; this conflict is not audited.
Insert(r) ==
    LET stored == deliveries[rqid[r]] IN
    /\ At(r, "insert")
    /\ \/ /\ stored = None
          /\ Goto(r, IF body[r] = Other THEN "accepted" ELSE "start")
          /\ deliveries' = [deliveries EXCEPT ![rqid[r]] = body[r]]
          /\ Record("processed", rqid[r])
       \/ /\ stored # None
          /\ Goto(r, IF stored = body[r] THEN "duplicate" ELSE "conflict")
          /\ UNCHANGED <<deliveries, audit>>
    /\ UNCHANGED <<kafka, mapping, rows, log, rqid, body, faults>>

-----------------------------------------------------------------------------
(* _dispatch_pr_analysis; whatever it raises is logged and not passed on. *)

\* The reads of _start_or_get.  Without a mapping, or without a component_id,
\* it raises.  For a commit that already has a row, the event is published
\* once more; without Kafka nothing more happens.
StartOrGet(r) ==
    /\ At(r, "start")
    /\ \/ mapping # "configured" /\ Goto(r, "accepted")
       \/ /\ mapping = "configured"
          /\ rows[body[r]] # NoRow
          /\ Goto(r, IF kafka THEN "publish" ELSE "accepted")
       \/ /\ mapping = "configured"
          /\ rows[body[r]] = NoRow
          /\ Goto(r, "create")
    /\ UNCHANGED <<kafka, mapping, rows, log, deliveries, audit, rqid, body, faults>>

\* Mutant of CreateRow: the idempotency key is not unique.
CreateRowUnchecked(r) ==
    /\ At(r, "create")
    /\ Goto(r, IF kafka THEN "publish" ELSE "run")
    /\ rows' = [rows EXCEPT ![body[r]] = NewRow]
    /\ Record("started", body[r])
    /\ UNCHANGED <<kafka, mapping, log, deliveries, rqid, body, faults>>

\* The PENDING row and its audit event are one commit.  Whoever loses the race
\* on the idempotency key raises IntegrityError out of flush(): the dispatch
\* logs it, but the session stays unusable until a rollback, so that the final
\* commit of get_db_session raises, before the answer is sent.
CreateRow(r) ==
    /\ At(r, "create")
    /\ \/ /\ rows[body[r]] = NoRow
          /\ Goto(r, IF kafka THEN "publish" ELSE "run")
          /\ rows' = [rows EXCEPT ![body[r]] = NewRow]
          /\ Record("started", body[r])
       \/ /\ rows[body[r]] # NoRow
          /\ Goto(r, "error")
          /\ UNCHANGED <<rows, audit>>
    /\ UNCHANGED <<kafka, mapping, log, deliveries, rqid, body, faults>>

\* EventPublisher.publish returns: the event is on the request topic.
PublishRequest(r) ==
    /\ At(r, "publish")
    /\ Goto(r, "enqueued")
    /\ Len(log) < MaxLog
    /\ log' = Append(log, body[r])
    /\ UNCHANGED <<kafka, mapping, rows, deliveries, audit, rqid, body, faults>>

\* Mutant of PublishRequestFails: the failure is taken for a success.
PublishRequestSilently(r) ==
    /\ At(r, "publish")
    /\ faults < MaxFaults
    /\ faults' = faults + 1
    /\ Goto(r, "enqueued")
    /\ UNCHANGED <<kafka, mapping, rows, log, deliveries, audit, rqid, body>>

\* publish raises TransientEventProcessingError, whether or not the broker has
\* the event; nobody tries again.
PublishRequestFails(r) ==
    /\ At(r, "publish")
    /\ faults < MaxFaults
    /\ faults' = faults + 1
    /\ Goto(r, "accepted")
    /\ \/ UNCHANGED log
       \/ Len(log) < MaxLog /\ log' = Append(log, body[r])
    /\ UNCHANGED <<kafka, mapping, rows, deliveries, audit, rqid, body>>

\* KAFKA_ANALYSIS_ENQUEUED is committed.
RecordEnqueued(r) ==
    /\ At(r, "enqueued")
    /\ Goto(r, "accepted")
    /\ Record("enqueued", body[r])
    /\ UNCHANGED <<kafka, mapping, rows, log, deliveries, rqid, body, faults>>

\* Without Kafka: run_analysis, inside the request, has returned or raised.
\* What it does is not this module's concern, so that Next ends before it.
RunInline(r) ==
    /\ At(r, "run")
    /\ Goto(r, "accepted")
    /\ UNCHANGED <<kafka, mapping, rows, log, deliveries, audit, rqid, body, faults>>

-----------------------------------------------------------------------------
Answers == {"unsigned", "duplicate", "conflict", "accepted", "error"}

\* The process dies before the request is answered.
Die(r) ==
    /\ rqpc[r] \notin Answers \cup {"new", "died"}
    /\ faults < MaxFaults
    /\ faults' = faults + 1
    /\ Goto(r, "died")
    /\ UNCHANGED <<kafka, mapping, rows, log, deliveries, audit, rqid, body>>

Arrive(r) ==
    \E d \in DeliveryIds, b \in Bodies, signed \in BOOLEAN : Receive(r, d, b, signed)

\* The steps of a request, up to the point where it runs the pipeline itself.
RequestStep(r) ==
    \/ Check(r)
    \/ Insert(r)
    \/ StartOrGet(r)
    \/ CreateRow(r)
    \/ PublishRequest(r)
    \/ PublishRequestFails(r)
    \/ RecordEnqueued(r)

Next ==
    \E r \in Requests : Arrive(r) \/ RequestStep(r) \/ Die(r)

Spec == Init /\ [][Next]_ingressVars

-----------------------------------------------------------------------------
(* Properties *)

\* The request inserted the ledger row of its delivery id and went on to
\* dispatch it.
Dispatched(r) ==
    rqpc[r] \in {"start", "create", "publish", "enqueued", "run", "accepted", "error"}

\* A delivery is dispatched by at most one request, however many redeliveries
\* of it run at once.  (The unique delivery_id behind GitHubWebhookService.process.)
DispatchedOnce ==
    \A r, s \in Requests :
        Dispatched(r) /\ Dispatched(s) /\ rqid[r] = rqid[s] => r = s

\* Nothing is announced that is not on record.  GitHub is never told that a
\* payload was received which is not the one stored for its delivery id:
\* neither the check before the insert nor the path after a lost race takes a
\* conflicting payload for a redelivery.  And a worker that takes an event
\* finds the row it names, from the moment of its publication on.
AnnouncedIsRecorded ==
    /\ \A r \in Requests :
        Dispatched(r) \/ rqpc[r] = "duplicate" => deliveries[rqid[r]] = body[r]
    /\ \A i \in DOMAIN log : rows[log[i]] # NoRow

\* Without Kafka, no two requests ever run the analysis of the same commit:
\* the unique idempotency key lets one of them through, for good, even if it
\* dies.
InlineRunsDoNotOverlap ==
    \A p, q \in Requests : rqpc[p] = "run" /\ rqpc[q] = "run" /\ body[p] = body[q] => p = q

\* The audit trail tells what happened: a stored delivery was audited as
\* processed exactly once, a row as started exactly once, and no analysis is
\* said to be enqueued more often than it really was.
AuditTrail ==
    /\ \A d \in DeliveryIds :
        audit[<<"processed", d>>] = IF deliveries[d] = None THEN 0 ELSE 1
    /\ \A a \in Shas :
        /\ audit[<<"started", a>>] = IF rows[a] = NoRow THEN 0 ELSE 1
        /\ audit[<<"enqueued", a>>] <= Cardinality({i \in DOMAIN log : log[i] = a})

=============================================================================
