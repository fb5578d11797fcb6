----------------------------- MODULE PRPipeline -----------------------------
(***************************************************************************)
(* The pull-request pipeline as a whole: webhook requests (WebhookIngress) *)
(* put analysis requests on a Kafka topic, workers (EventConsumer) take    *)
(* them off and run the analysis (AnalysisRun).  What joins them is here:  *)
(* AnalysisRequestHandler (app/kafka/analysis_handler.py), which turns the *)
(* outcome of run_analysis into the outcome the consumer loop acts on and  *)
(* into an event on the result topic, and, without Kafka,                  *)
(* analyze_pull_request, which runs the analysis inside the request.       *)
(*                                                                         *)
(* The components share the analysis rows, the repository mapping and the  *)
(* request topic.  A worker, and without Kafka a request, is a runner.     *)
(* All events of one pull request have one partition key, so one partition *)
(* of the topic is enough.  A fault is a crash of a worker or a request, a *)
(* hand-over of the partition, a failed call to GitHub, a failed request   *)
(* event, or an error of the pipeline.                                     *)
(***************************************************************************)
EXTENDS AnalysisRun

CONSTANTS
    Workers, Requests, DeliveryIds, Other, Malformed, NoOffset, NoOwner,
    MaxTransientRetries, MaxLog

\* The runners, and what EventConsumer and WebhookIngress assume.
ASSUME PipelineAssumption ==
    /\ Runners = Workers \cup Requests
    /\ Workers \cap Requests = {}
    /\ NoOwner \notin Workers
    /\ NoOffset \notin Nat
    /\ {Other, Malformed, None} \cap Shas = {}
    /\ None # Other
    /\ MaxTransientRetries \in Nat
    /\ MaxLog \in Nat

\* The variables of AnalysisRun, of which mapping, rows and faults are shared,
\* and these.
VARIABLES
    \* the request topic, shared by EventConsumer and WebhookIngress
    log,
    \* of EventConsumer
    committed, owner, position, wpc, current, attempt, handled, dead, dropped,
    \* of WebhookIngress
    kafka, deliveries, audit, rqpc, rqid, body,
    \* of this module: the result topic, as a set of [kind, sha]
    results

runOnly == <<registry, assessments, checks, rpc, job, component, expected, local,
             verdict, posted, runs>>

consumerOnly == <<committed, owner, position, wpc, current, attempt, handled,
                  dead, dropped>>

ingressOnly == <<kafka, deliveries, audit, rqpc, rqid, body>>

vars == <<mapping, rows, log, faults, runOnly, consumerOnly, ingressOnly, results>>

Consumer == INSTANCE EventConsumer WITH Events <- Shas, InitialCommitted <- 0

Ingress == INSTANCE WebhookIngress

Init ==
    /\ RunInit
    /\ Consumer!Init
    /\ Ingress!Init
    /\ results = {}

-----------------------------------------------------------------------------
(* The steps a component takes by itself. *)

MappingAndRegistry ==
    /\ \/ CreateMapping
       \/ DeleteMapping
       \/ \E v \in Shas : RegisterVersion(v)
    /\ UNCHANGED <<log, consumerOnly, ingressOnly, results>>

IngressStep(r) ==
    /\ Ingress!RequestStep(r)
    /\ UNCHANGED <<runOnly, consumerOnly, results>>

IngressArrive(r) ==
    /\ Ingress!Arrive(r)
    /\ UNCHANGED <<runOnly, consumerOnly, results>>

Analyse(p) ==
    /\ RunStep(p)
    /\ UNCHANGED <<log, consumerOnly, ingressOnly, results>>

ConsumerStep(w) ==
    /\ \/ Consumer!Start(w)
       \/ Consumer!Assign(w)
       \/ Consumer!Poll(w)
       \/ Consumer!ToDlq(w)
       \/ Consumer!Commit(w)
    /\ UNCHANGED <<mapping, rows, runOnly, ingressOnly, results>>

-----------------------------------------------------------------------------
(* AnalysisRequestHandler.handle *)

\* It calls run_analysis with the identifiers of the event.
Handle(w) ==
    LET sha == log[current[w] + 1] IN
    /\ wpc[w] = "handling"
    /\ Begin(w, sha, sha)
    /\ UNCHANGED <<log, consumerOnly, ingressOnly, results>>

\* EventPublisher.publish to the result topic; a failure is logged.
Emit(w, kind) ==
    \/ results' = results \cup {[kind |-> kind, sha |-> job[w]]}
    \/ UNCHANGED results

\* The runner is done with its call and the session is closed.
EndRun(w) == Idle(w) /\ UNCHANGED ingressOnly

\* The row run_analysis returned says COMPLETED and has its evidence.
Completed(w) == local[w].status = "completed" /\ local[w].assessment # None

\* run_analysis returned; a completion event is sent for a COMPLETED row.
HandlerReturns(w) ==
    /\ rpc[w] = "returned"
    /\ IF Completed(w) THEN Emit(w, "completed") ELSE UNCHANGED results
    /\ EndRun(w)
    /\ Consumer!HandlerReturns(w)

\* GitHubAnalysisHeadShaMismatch, NotFound, NotMapped; or, after a failure
\* event, MissingAgentABIConfiguration: all of them permanent.
HandlerGivesUp(w) ==
    /\ \/ rpc[w] = "rejected" /\ UNCHANGED results
       \/ rpc[w] = "raised_config" /\ Emit(w, "failed")
    /\ EndRun(w)
    /\ Consumer!HandlerFailsPermanently(w)

\* Any other exception passes through the handler and ends the loop; the
\* process is restarted, and the message delivered again.
HandlerBreaksLoop(w) ==
    /\ rpc[w] = "raised_error"
    /\ EndRun(w)
    /\ Consumer!LoopEnds(w)
    /\ UNCHANGED <<results, faults>>

WorkerCrashes(w) ==
    /\ Consumer!Crash(w)
    /\ EndRun(w)
    /\ UNCHANGED results

-----------------------------------------------------------------------------
(* analyze_pull_request: the request itself runs the analysis. *)

RunInline(r) ==
    /\ rqpc[r] = "run"
    /\ Begin(r, body[r], body[r])
    /\ UNCHANGED <<log, consumerOnly, ingressOnly, results>>

RunInlineEnds(r) ==
    /\ Finish(r)
    /\ Ingress!RunInline(r)
    /\ UNCHANGED <<consumerOnly, results>>

RequestDies(r) ==
    /\ Ingress!Die(r)
    /\ Idle(r)
    /\ UNCHANGED <<consumerOnly, results>>

-----------------------------------------------------------------------------
HandlerStep(w) ==
    \/ Handle(w)
    \/ HandlerReturns(w)
    \/ HandlerGivesUp(w)
    \/ HandlerBreaksLoop(w)

RequestNext(r) ==
    \/ IngressArrive(r)
    \/ IngressStep(r)
    \/ RunInline(r)
    \/ RunInlineEnds(r)
    \/ RequestDies(r)

WorkerNext(w) ==
    \/ ConsumerStep(w)
    \/ HandlerStep(w)
    \/ WorkerCrashes(w)

Next ==
    \/ MappingAndRegistry
    \/ \E p \in Workers \cup Requests : Analyse(p)
    \/ \E r \in Requests : RequestNext(r)
    \/ \E w \in Workers : WorkerNext(w)

Spec == Init /\ [][Next]_vars

\* A request that has arrived and a worker that runs do not stop between two
\* awaits; a worker that went down is restarted, and a partition nobody holds
\* is given to a member.  Nothing is assumed of GitHub, of CI or of the users
\* who edit mappings.
Fairness ==
    /\ \A r \in Requests :
        /\ WF_vars(IngressStep(r))
        /\ WF_vars(RunInline(r))
        /\ WF_vars(RunInlineEnds(r))
    /\ \A p \in Workers \cup Requests : WF_vars(Analyse(p))
    /\ \A w \in Workers :
        /\ WF_vars(HandlerStep(w))
        /\ WF_vars(wpc[w] \in {"down", "dlq", "commit"} /\ ConsumerStep(w))
        /\ WF_vars(owner \in {NoOwner, w} /\ wpc[w] = "ready" /\ ConsumerStep(w))

FairSpec == Spec /\ Fairness

-----------------------------------------------------------------------------
(* Properties *)

Decided(a) == rows[a].status \in {"completed", "publish_failed", "failed"}

GivenUp(i) == i \in dead \cup dropped

\* Nothing is left behind: once the offset of a request is committed, so that
\* Kafka will never deliver it again, its analysis has been decided or the
\* request was handed to the dead-letter path, wherever the worker crashed.
\* With one worker in the group.
NothingLeftBehind ==
    \A i \in DOMAIN log : i <= committed => Decided(log[i]) \/ GivenUp(i - 1)

\* The same with any number of workers, as what must happen instead of what
\* must hold: every request on the topic is decided or given up in the end.
EveryRequestDecided ==
    \A i \in 1 .. MaxLog :
        (i <= Len(log)) ~> (GivenUp(i - 1) \/ (i <= Len(log) /\ Decided(log[i])))

\* Without Kafka, no two requests ever run the analysis of the same commit,
\* also while runs change the rows: what WebhookIngress promises by itself.
InlineRunsDoNotOverlap == Ingress!InlineRunsDoNotOverlap

\* What a row and GitHub tell of the analysis of a commit.
Stage(status) ==
    CASE status = None -> "none"
      [] status \in {"pending", "in_progress"} -> "open"
      [] status = "completed" -> "decided"
      [] status = "publish_failed" -> "unpublished"
      [] status = "failed" -> "failed"

Concluded(check, a) == check.sha = a /\ check.status = "completed"

ShownIn(runsOnGitHub, a) ==
    {d \in Decisions :
        \E i \in DOMAIN runsOnGitHub : /\ Concluded(runsOnGitHub[i], a)
                                       /\ runsOnGitHub[i].conclusion = Conclusion(d)}

StageOf == [a \in Shas |-> Stage(rows[a].status)]

DecisionOf == [a \in Shas |-> rows[a].decision]

ShownOf == [a \in Shas |-> ShownIn(checks, a)]

Life == INSTANCE AnalysisLife WITH stage <- StageOf, decision <- DecisionOf, shown <- ShownOf

\* With one worker, redeliveries, retries and crashes do not show: as far as a
\* row and GitHub tell, a commit is decided once or has failed for good, only
\* its decision ever appears on GitHub, and a publication that failed is
\* repeated with that decision until GitHub shows it.
ImplementsAnalysisLife == Life!Spec

\* The comment at the end of handle(): it "never fabricates a completion event
\* for a check that never actually posted".
CompletionWasPosted ==
    \A e \in results :
        e.kind = "completed" =>
            \E i \in DOMAIN checks : checks[i].sha = e.sha /\ checks[i].status = "completed"

=============================================================================
