# A verification project for AgentABI

AgentABI decides whether a change to a component of an agent (a tool, a prompt, a model, an API) is safe to
release. It keeps a registry of component versions, compares versions (compatibility), records what agents do
(trajectories), replays recordings with a candidate version in place of the baseline, compares replays
(differential), scores the evidence (risk) and reports the decision as a GitHub check run on a pull request. The
backend is Python: FastAPI, PostgreSQL through asynchronous SQLAlchemy sessions, Kafka, Redis, Neo4j.

This directory holds TLA+ models of the parts in which several actors share state, the TLC runs that check them
and the TLAPS proofs of the properties that matter most. Paths below are relative to `src/backend/app/`.

## 1. Inventory

| part | state | operations | what is hard |
| --- | --- | --- | --- |
| webhook ingestion: `api/v1/github_webhook.py`, `services/webhook_service.py` | delivery ledger, audit events | verify, look up, insert, dispatch | redeliveries at once, requests that die between commits, publication that fails |
| start of an analysis: `_start_or_get` in `services/github_pr_analysis_service.py` | `github_pr_analyses` rows | look up by idempotency key, insert | two deliveries of one commit |
| request and result topics: `events/` | Kafka topics | publish | lost answers, duplicates |
| consumer and worker: `kafka/consumer.py`, `kafka/worker.py` | committed offset, position, retry counter | poll, dispatch with retries, dead-letter, commit | crashes before the offset commit, hand-over of the partition during a handler, blocked partition |
| request handler: `kafka/analysis_handler.py` | none | run the analysis, classify its outcome, publish the result | redelivery after a crash |
| analysis run: `run_analysis` in `services/github_pr_analysis_service.py`, `github/checks_client.py` | the row, the evidence, the check run on GitHub | load, mark, announce, scan and assess, commit, publish | overlapping runners, stale copies of the row, lost answers of GitHub, crashes between any two awaits |
| trajectory recorder: `services/trajectory_recorder.py`, `trajectory/` | `trajectories`, `trajectory_events` | start, append, complete, fail | concurrent appends and transitions, retries of clients, rollback after a number was allocated |
| replay: `services/replay_service.py`, `replay/` | `replay_runs`, `replay_steps` | create with a plan, execute once | concurrent execution, failure half way, responses that belong to replaced calls |
| component registry: `services/component_registry.py` | components, versions | create, list | concurrent registration |
| compatibility: `compatibility/`, `services/compatibility_service.py` | scans, changes | normalise, compare, classify | pure algorithm |
| differential: `differential/`, `services/differential_service.py` | reports | align, compare, insert | alignment in four passes, check-then-insert |
| risk: `risk/`, `services/risk_service.py` | assessments | rules, caps, bands, insert | caps and bands, nullable idempotency key |
| dependency graph: `graph/`, `services/dependency_graph.py`, `services/blast_radius.py` | Neo4j nodes and edges | synchronise, add and remove edges, search | cycles, the depth limit, changes during the search |
| identity: `auth/`, `services/github_oauth_service.py`, `authz/`, `services/organization_service.py` | users, memberships, OAuth states in Redis | log in, onboard, authorise | concurrent first logins and onboardings |
| rate limiting: `core/rate_limit.py` | counters in Redis | increment and compare | window boundaries |
| explanations, observability, routes, middleware, configuration, frontend, deployment | none the above depend on | | |

How the parts interact. A webhook request commits a ledger row and an analysis row and then publishes an event
(Kafka enabled) or runs the analysis itself (disabled). A worker of the consumer group takes the event and the
handler calls `run_analysis`, which reads the row, the mapping of the repository and the registry, writes the
evidence and the row, and calls GitHub. The handler's outcome decides whether the consumer commits, retries or
dead-letters. Trajectories feed replays, replays feed differential reports, and scans and reports feed risk
assessments; those are connected by committed rows only.

What makes the parts correct:

- ingestion: one dispatch per delivery id, nothing acknowledged that is not on record, no event without its row;
- consumer: no message skipped, no commit that moves back, no message that blocks the partition for ever;
- analysis: evidence is committed before anything is visible, a finished row refers to its evidence, a check run
  belongs to the commit it reports on, risk is assessed once, a finished row is not analysed again;
- recorder: gapless numbers, a frozen terminal state, answers that agree with the record;
- replay: executed once, status and steps that agree, no recorded output for a call that was run again, nor the
  recorded response that names its id;
- evidence: one report per pair of replays and one assessment per scan and report; an alignment that loses and
  repeats no step; comparisons that say the same in both directions; a change called compatible that really keeps
  callers working; a decision that more evidence never makes milder; a changed value under a
  sensitive key never shown;
- registry and graph: one row per key, edges that fit their ends, a search that ends, reports only what was there
  and misses nothing that was there all along;
- access: no more requests through a limit than it allows, a login used once and leading to one user, no tenant
  created twice, no action without a right, the status and code of a missing project for who is no member,
  refusals on the audit trail.

## 2. Modules

| module | what it is |
| --- | --- |
| `EventConsumer` | one partition of the request topic and the workers of the group; the handler is left open |
| `AnalysisRun` | `run_analysis` by any number of overlapping runners, with GitHub, the mapping and the registry around it |
| `WebhookIngress` | concurrent webhook requests, the ledger, `_start_or_get`, the publication of the request event |
| `AnalysisLife` | the abstract life of the analysis of a commit, which `PRPipeline` implements, and `AnalysisRun` while runs of one commit do not overlap |
| `PRPipeline` | the three together, joined by `AnalysisRequestHandler` |
| `TrajectoryRecorder` | concurrent requests that start, append, complete and fail |
| `Replay` | concurrent requests that create and execute a replay; `build_replay_plan` as an operator |
| `ValueDiff` | JSON values, redaction, `diff_values` |
| `Compatibility` | normalisation, the comparison of schemas and of each type of component, the rule tables |
| `Differential` | the alignment of the steps of two replays, their comparison and its summary |
| `RiskEngine` | rules, weights, caps, bands and hard blocks |
| `Evidence` | concurrent requests that scan, compare and assess; the engines are parameters |
| `EvidenceChain` | `Evidence` with the engines in place, and what its rows say of the contracts |
| `DependencyGraph` | registrations in the database, synchronisation and edges in the graph store, the search |
| `ErrorStatus` | the domain exceptions, their base classes, and the status, code and message each is answered with |
| `Access` | login, tokens, rate limits, onboarding, authorization and the projects it guards |
| `PRPipelineProofs` | theorems about `AnalysisRun`, its refinement of `AnalysisLife`, and the whole pipeline |
| `EventConsumerProofs`, `WebhookIngressProofs`, `TrajectoryRecorderProofs`, `ReplayProofs`, `EvidenceProofs`, `DependencyGraphProofs`, `AccessProofs` | theorems about the module of that name |
| `MC...` | values of constants and symmetry sets for TLC |

Definitions keep the names of the source where there is one (`build_replay_plan`, `compute_event_hash`,
`TerminalStatuses` for `_TERMINAL_STATUSES`); `PROJECT.json` maps every definition to its lines. A definition
introduced as "Mutant of X" is a plausible mistake in X, which some property must notice. It is not part of the
specification.

Conventions shared by the modules:

- An action is the code between two awaits at which another actor's step could matter. `rpc`, `wpc`, `rqpc` and
  `pc` say where an actor is.
- PostgreSQL is at READ COMMITTED. In `AnalysisRun` nothing is locked and the model keeps each session's copy of
  the row (`local`); `Flush` writes the columns that differ from it, as SQLAlchemy does with
  `expire_on_commit=False`. In `TrajectoryRecorder` and `Replay` an UPDATE or an INSERT under a unique key takes
  `lock` until the transaction ends, and what is not committed is not in the shared variables. In `Evidence`,
  `DependencyGraph` and `Access` a pending row is in its request's `call`, and `HeldByAnother` or the guard of the
  flush makes an insert of the same key wait for it.
- Kafka, GitHub and PostgreSQL are modelled from how the code uses them and marked external.
- A crash may happen at every await. A database error in the middle of a run is covered by it: in both cases the
  session is rolled back and the call ends.
- Content is abstracted: a body is its commit, a payload a model value, a decision comes from the constant
  `Verdict`, which may be any function that says PASS of a version compared with itself.

### EventConsumer

`log`, `committed`, `owner` are the broker's; `position`, `wpc`, `current`, `attempt` a worker's; `handled`,
`dead`, `dropped` record how an offset ended. `Assign` gives the partition to any running worker, also while the
previous owner is handling a message; `Commit` stands for `commit()` without arguments, which commits the
position of a partition still held and nothing otherwise. The handler returns, fails permanently or transiently;
`Crash` covers errors that the loop does not classify.

### AnalysisRun

`rows[a]` is the row of head commit `a` (one repository, one pull request, one `ANALYSIS_VERSION`).
`CreateCheckRun` may leave more than one check run on GitHub, because `_send` repeats a POST whose answer was
lost; `UpdateCheckRunFails` may have been applied. `Begin` takes an analysis and an expected commit that need not
agree, since both come out of an event. `Environment` edits the mapping and registers versions at any time.

### WebhookIngress

`rqpc[r]` goes through check, insert, start, create, publish and enqueued. The signature is an input. With Kafka
disabled the request goes to "run", and `PRPipeline` lets it run `AnalysisRun`.

### PRPipeline

The module extends `AnalysisRun`; `Consumer` and `Ingress` are instances. They share `mapping`, `rows`, `log` and
`faults`. Actions of the components are reused; only the handler, the result topic and the inline run are new.

`Life` maps it to `AnalysisLife`: the stage of a commit is the status of its row (PENDING and IN_PROGRESS are both
"open"), the decision is the row's column, and what is shown are the conclusions of the completed check runs of
that commit. `ImplementsAnalysisLife` is the whole abstract specification as a property: with one worker, a commit
is decided once or has failed for good, GitHub never shows anything but its decision, and a publication that failed
counts as done only when GitHub shows it. Overlapping workers do not implement it (see the observations below).

### TrajectoryRecorder

Each request makes one call. The number of an event is allocated by an UPDATE that holds the row until the
transaction ends. `compute_event_hash` covers the number and the stored payload, as in `trajectory/hashing.py`.

### Replay

`create_replay` inserts under an idempotency key; `execute_replay` is one transaction that begins with a
conditional UPDATE and adds steps to its session. An executor may succeed, fail or raise.

### ValueDiff, Compatibility, Differential, RiskEngine

Pure operators, one per function of `differential/`, `compatibility/` and `risk/`. A JSON value is a record of its
type and content; a stored schema keeps its lists as sequences, since their order and repetition are what
`Normalize` removes. Weights, caps, bands and the rule tables are copied value by value. `Compatibility` and
`ValueDiff` recurse over values and are for TLC only; `Differential` takes `diff_values` as a parameter and
`RiskEngine` has no recursion, so that both can be proved about.

### Evidence and EvidenceChain

`scans`, `reports` and `assessments` are the tables, `replays` the runs they refer to, `call[c]` the request of a
client: `LookupReport`, `AnalyzeReplays`, `FlushReport`, `Commit` and the same for assessments; a scan has no
idempotency key and no lookup. A flush waits while another transaction holds the same unique
key; an assessment with a NULL in its key waits for nobody. `ReplayEnds` lets a replay end at any time and
`Rollback` a request die. `BuildContext` is `_build_context` of the risk service, which reads the stored rows, so
that a run goes from two schemas and two replays to the decision.

### DependencyGraph

`components`, `versions` and `identity` are the database's, `nodes` and `edges` the graph's. Registration looks up,
flushes and commits; `SyncReads` reads the latest version and `SyncWrites` merges the node; `Connect` and
`Disconnect` are one statement each, which may fail or lose its acknowledgement; `Hop` expands one component of the
search frontier. `seen`, `stable` and `overtaken` are history variables for the properties.

### Access and ErrorStatus

Redis is `counts` and `states` with their expiry, the database `users`, `orgs`, `members`, `projects` and `audit`.
A request goes through `Enforce` (the rate limit) and then, by its kind, `StartLogin`; `Consume`, `Exchange`,
`LookupUser`, `FlushUser`, `CommitUser`, `IssueToken`; or `Authenticate` followed by onboarding (`LockUser`,
`CheckMemberships`, `CommitOrganization`) or by `Authorize...` and the project's operation. A refusal is recorded
and committed before it is raised (`RecordRefusal`), since raising rolls the session back. `Tick` moves the clock,
`Fail` stands for Redis, GitHub or the database, and `Operator` changes memberships and disables users directly in
the database: no route does.

## 3. Runs

| run | instance | what it shows |
| --- | --- | --- |
| `consumer` | 2 workers, 2 messages, 2 faults, `_MAX_TRANSIENT_RETRIES` as in the code | `NothingSkipped`, `CommittedMonotonic`, `EveryMessageSettled` |
| `run_overlapping` | 2 runners, 2 commits, 3 calls, 1 fault | `EvidenceBeforePublish`, `StatusBackedByEvidence`, `ExactShaPinning` |
| `ingress` | 3 requests, 2 delivery ids, 2 commits, Kafka on and off, 2 faults | `DispatchedOnce`, `InlineRunsDoNotOverlap`, `AnnouncedIsRecorded`, `AuditTrail` |
| `pipeline` | 1 request, 1 worker, Kafka on and off, 3 faults, a client that retries | `NothingLeftBehind`, `AssessedOnce`, `ImplementsAnalysisLife`, `EveryRequestDecided` |
| `trajectory` | 3 requests, 1 trajectory | `GaplessSequence`, `AnswerMatchesRecord`, `TerminalIsFrozen`, `EveryRequestAnswered` |
| `replay` | 3 requests, 4 recordings | `EvidenceMatchesStatus`, `HistoryKeptExactly`, `AnswersHold`, `EveryRequestAnswered` |
| `evidence` | up to 4 clients, 2 versions, 2 replays, a list of worlds | `KeyedOnce`, `ReportReflectsReplays`, `AlignmentSound`, `MoreEvidenceNeverMilder`, `CompatibleKeepsCallers`, `ComparisonsAreSymmetric`, `NewRequiredInputBlocks`, `DifferencesAreRedacted` |
| `graph` | 3 clients, up to 6 components, depths 1 and 3 | `RegistryAndGraphConsistent`, `SearchSound`, `NodeNeverGoesBack`, `EveryRequestAnswered` |
| `access` | 3 clients, 2 accounts, a clock of half seconds | `LimiterSound`, `LoginSound`, `TenantsCreatedOnce`, `AccessWasGranted`, `RefusalsAudited`, `EveryRequestAnswered` |

Three runs show that the code does not do what the repository says of it; `findings` in `PROJECT.json` quotes the
lines.

| run | what happens |
| --- | --- |
| `pipeline_completion` | The worker dies after the commit of COMPLETED and before the publication; the redelivered event finds a finished row and a completion event is sent for a check that was never posted. |
| `evidence_duplicate` | Two assessments of one scan, without a report, are both past the lookup; the unique key holds a NULL, so that both are inserted, and every later request for them fails. |
| `access_stranger` | Who asks for a project of an organization he never belonged to is answered 404 and RESOURCE_NOT_FOUND, as for a missing project, but with the message "Not found" instead of "Project {id} not found". The two are documented as indistinguishable. |

Observations made while modelling, without a run of their own. On the pipeline and the recordings:

- With no committed offset and the "latest" reset (`kafka/consumer.py:65`), a crash before the group's first
  commit loses the message in hand. The proofs and the run begin with a committed offset.
- Without a pinned `baseline_version` the latest registered version is the baseline
  (`services/github_pr_analysis_service.py:419`), and the candidate has been registered by then: it is compared
  with itself and passes.
- Two workers on one row: the slower one may take a COMPLETED row back to IN_PROGRESS, as `local` was read before
  (`services/github_pr_analysis_service.py:370`), although finished analyses are said never to be run again.
  With different baselines the decision column and the assessment the row refers to may differ then, since each
  session flushes only the columns it changed.
- A FAILED row stays FAILED: a fresh delivery of the same commit finds the row and does not run it
  (`services/github_pr_analysis_service.py:340`), also when the missing configuration has been added since.
- A request that dies between the commit of the row and the publication leaves a PENDING row that only a delivery
  with a new id publishes.
- Of two deliveries of one commit that race in `_start_or_get`, the loser's delivery is recorded, but its session
  is left unusable and the request is answered with an error.
- Two identical appends that race: the loser compares hashes that include different numbers and is refused as a
  different event (`services/trajectory_recorder.py:378`).
- `build_replay_plan` pairs calls and responses by `invocation_id` alone (`replay/planner.py:72-75`). The recorded
  response of an MCP or API call that was run again stays in the plan as REUSED_EVIDENCE if it names no id,
  although the head of the file (lines 11-13) calls it "simply the next response in sequence" and has it
  superseded. `HistoryKeptExactly` states what the code keeps, that response included, and one recording of the
  run `replay` has it.

On the evidence:

- A type or an enum added to an input that had none is called compatible, although it excludes values that were
  accepted; hence the precondition `SameDeclarations` of `CompatibleKeepsCallers`. A required name without a
  declared property is not compared at all.
- The IntegrityError of two equal reports or assessments that race is not caught: the loser is answered 500, and
  finds the row when it retries.
- A failed step stops its replay and a FAILED replay is never compared, so that a new failure counts only where an
  executor reports a step as executed with an error.
- A workflow step whose content changed under the same key is not reported.
- `diff_values` redacts a changed value under a sensitive key; a value that was added or removed there is shown
  as it was recorded, and it is the recorder's redaction that keeps it secret.

On the graph and on access:

- Overlapping synchronisations may leave the older version on a node; `NodeNeverGoesBack` allows exactly that.
- `Retry-After` is cut to whole seconds, so that a client that waits exactly as told may still meet the same
  window; `RetryLeavesWindow` allows one second more.
- First logins that race, and an email address that two accounts share, end in an IntegrityError and 500; the
  state is consumed by then and the login must begin again.
- A callback without a code and a failed token exchange leave nothing on the audit trail.
- Authorization is decided once per request: a right taken away between the decision and the commit still lets
  that request through.

### Bounds

Constants named `Max...` bound counters, and they are guards of the actions that count.

- `MaxFaults`, shared by all kinds of faults, is 1 to 3. The properties fail, under the mutants, after one or two
  faults; two allow a fault during the recovery from the first.
- `MaxLog` is 2 in `consumer`, where order matters (an old message finished late, the next one already fetched),
  and 1 in `pipeline`: what a second message adds there is the consumer's, and `PipelineLeavesNothingBehind`
  and `PipelineImplementsLife` are proved for any number.
- `MaxRuns` exceeds the number of calls the faults and messages can cause, so that it never hides a redelivery;
  in `run_overlapping`, where nothing else limits calls, 3 lets two runners overlap and a third call see what
  they left.
- `Worlds` of `Evidence`, `Starts` of `DependencyGraph` and of `Access` list the situations a run begins in and
  what each client asks for: pairs of tool schemas and of other contents, pairs of replays, races for one key; a
  chain, a diamond, cycles and a detour, with and without registrations at the same time; logins, onboardings,
  two organizations, a running clock. A start of `Access` also bounds the clock (`horizon`), the limit, the changes
  of the operator and whether anything fails, since all of them at once would not be finite enough for TLC.
- `MaxSchemaDepth` is 3 where the code has 64, and one schema of the worlds exceeds it. `MaxDepth` is 4 for 64 and
  above what the values need: the truncation of a value comparison is not exercised.
  `TestValues` are the values the schemas of the worlds tell apart. `BlastRadii` has one value on each side of the
  upper threshold of the rule.
- `Depths` 1 and 3 cut the search short and let it go round every cycle of the starts.
- `MaxRetries`, the retries of the GitHub client, is 1 instead of the code's value (0 in `pipeline_completion`, where
  no check run is posted): one retry is enough for two check runs of one request, more only add check runs.
- `Second` is 2 ticks, `WindowSeconds` 3, `StateTTL` 3 and `TokenLife` 4 ticks: windows, states and tokens end at
  different moments, within and at the end of a second.
- Three requests are needed where two race and a third sees the outcome. In `trajectory` and `replay` they range
  over all calls, so starts, appends and both transitions meet in every order.
- Symmetry is used in safety runs only, over actors and delivery ids, which no definition tells apart.
- Runs set `CHECK_DEADLOCK FALSE`, since a bounded environment that has sent all its requests, and a service that
  has answered them, have nothing left to do.

### Fairness

Weak fairness, of steps the process takes on its own: a request that has arrived and a worker that runs do not
stop between two awaits (in `DependencyGraph` and `Access` the condition says that the request was accepted); a worker
that is down is restarted (the deployment restarts it); a partition nobody holds is given to a member.
Nothing is assumed of GitHub, CI, users or the arrival of requests, and crashes are
possible but never required. The handler in `EventConsumer` may fail whenever it is called, so what makes
`EveryMessageSettled` true is the retry counter and not a handler that succeeds in the end.

## 4. Proofs

The theorems hold for every value of the constants that satisfies the module's named ASSUMEs: any number of
workers, runners, requests, commits, messages, events and components, any bounds, any engines, and graphs,
trajectories and replays of any size. Each invariant below was checked by TLC before it was proved.

- `EventConsumerProofs`: `ConsumerTypeOK`; with `InitialCommitted = 0`, `ConsumerSkipsNothing` and
  `ConsumerCommitsForward`. `NothingSkipped` alone is not inductive: a commit could publish a position with
  something unfinished below it. `ConsumerInv` adds `OwnerSettles`: the owner has settled everything below its
  position but the message it is working on, and the committed offset is not above that position. Workers that
  have lost the partition are left out of it, because their commit has no effect.
- `PRPipelineProofs`, part 1: `RunTypeOK`, `RunPublishesEvidence`, `RunStatusBacked`, `RunPinsSha`, for any
  `Verdict` and baseline. Since rows are written column by column from stale copies, `RunInv` says what a copy may
  refer to (`CopySound`: evidence and check runs of the runner's own commit, and evidence a copy knows is never
  absent from the row) and what a runner has in hand at each label (`Prepared`). `FlushWrites` reduces a flush to
  "each column is the runner's or unchanged". Evidence and check runs are only added, so what is referred to stays.
- `PRPipelineProofs`, part 2: the refinement `RunImplementsLife` and `RunAssessesOnce`, for behaviours in
  which no two runs of one commit overlap (`[]RunsApart`; runs of different commits overlap freely, and a run may
  crash anywhere and be repeated). The hypothesis is needed: without it two runs assess one commit twice. Part 3
  proves it of the pipeline. `LifeInv` says that a working runner's copy is the row itself
  (`FreshCopy`, which makes a flush write exactly the copy), which stage the row is in at each label, that the
  row refers to all the evidence of its commit (`NoOtherEvidence`) and that GitHub shows no other decision than
  the row's (`NoOtherConclusion`). Every action is then one step of `AnalysisLife` or none: `CreateRow` is
  `Request`, `Complete` is `Decide`, `SaveFailed` is `Fail`, `Publish` is `Show` or nothing, `SavePublished` and
  `SaveUnpublished` are the outcomes of a publication when they change the status.
- `PRPipelineProofs`, part 3, the composition. `PipelineInv` adds to `RunInv` that a row is never taken away
  (`RowsInv`), where a request is a runner (`RequestAt`: only at "run", without Kafka, for the commit whose row it
  inserted) and where a worker is one (`WorkerAt`: only while it handles a message, for the commit of that
  message). It holds for any number of workers, and gives `InlineRunsAreApart` and `PipelinePublishesEvidence`.
  Under `SingleRunner` (Kafka is off, or the group has one worker) no two runs of a commit overlap
  (`PipelineRunsApart`), so that `PipelineImplementsLife` and `PipelineAssessesOnce` follow from part 2 without its
  hypothesis. `SingleRunner` is needed: a second worker that is given the partition during a handler runs the same
  commit at once. `PipelineLeavesNothingBehind` needs `DecidedInv` as well: the owner has settled everything below
  its position but the message in hand, where settled now means that the row is decided or the message was given
  up, and a run that has returned has decided its row. That a decided row stays decided is `AnalysisLife`.
- `PRPipelineProofs`, part 4, carries the components' invariants over, for any number of workers:
  `PipelineSkipsNothing` (`NothingSkipped`, `CommittedMonotonic`) and `PipelineRecordsRequests` (`DispatchedOnce`,
  `AnnouncedIsRecorded`, `AuditTrail`). The pipeline is not literally a behaviour of `EventConsumer` (a failed
  publication may add a message and count a fault in one step, and an unclassified error ends the loop without
  one) nor of `WebhookIngress` (rows change). The step lemmas of those modules are therefore proved for
  `ConsumerMove` and `IngressMove`, which allow just that, and every step of the pipeline is shown to be one;
  for the requests under the mapping `RowsSeen`, which keeps of a row only whether it is there.
- `WebhookIngressProofs`: `DeliveryDispatchedOnce`, `CommitRunByOneRequest`, `AnnouncedWasRecorded`,
  `AuditTrailTellsTheTruth`.
  `IngressInv` adds what a request carries at each label (`Carries`), that only a commit that has its row is
  published (`RowBeforeEvent`), and a count: the audit events of publications and the requests that have
  published and not said so yet are together no more than the events on the topic (`EnqueuedWasPublished`).
- `TrajectoryRecorderProofs`: `RecorderTypeOK`, `RecorderGapless`, `RecorderFreezesTerminal`,
  `AnswersMatchTheRecord`. `IInv` adds to the types that the transaction past its UPDATE or INSERT is the one that
  holds the row (`HoldsRow`), what call a label belongs to (`CallOfLabel`), that the row a transaction holds is as
  it read it, with its number next (`RowOfLabel`), and the numbering without set comprehension (`Numbered`).
  `AnswerInv` adds what a request has found out before it answers (`UnderWay`) and that the request which ends a
  trajectory is the only one told so (`EndedOnce`).
- `ReplayProofs`: `EvidenceAgrees`, `HistoryIsKeptExactly`, `AnswersStayTrue`. `ReplayInv` says that a stored plan
  is what `build_replay_plan` makes of the trajectory (`PlanIsBuilt`), that the steps done follow it from the first
  on (`FollowsPlan`) and how the loop stopped (`StoppedByFailure`, `StoppedByExecutor`), and that the request that
  executes a replay holds its row, which stays PENDING until that request commits (`ExecuteAt`).
- `EvidenceProofs`: `StoredOnce`, `ReportsStayTrue`, `AlignmentIsSound`, `EvidenceOnlyAdds`. `EvidenceInv` says
  what an inserted row that is not committed contains (`ClientAt`), that its key is not on record and held by one
  transaction (`Exclusive`), and that every stored row is what the engine says of the rows it names
  (`Reflects`, `Explained`). The alignment is proved pass by pass for step lists of any length: each pass takes
  steps out of what the passes before left, on both sides alike. For the risk engine, each rule's
  contribution is monotone in the evidence, and so are the capped sum, the band and the hard blocks.
- `AccessProofs`: `LoginIsSound`, `TenantsAreCreatedOnce`, `AccessIsGranted`, `RefusalsAreAudited`,
  `LimiterIsSound`. `AccessInv` is a conjunction of an invariant per concern: two logins past the insert are not
  of one account (`InsertsExclude`); of two requests that hold a user's row one waits (`LocksExclude`), and each
  organization a user has created but the present one has cost the operator a change (`CreatedBound`); a request
  that is authorized had a role that covers it in the organization of the target (`RightsAt`), and a refusal to who
  had none is one whose status and code are those of a missing project (`HiddenLooksMissing`); which audit events
  a request has written at each label (`AuditAt`); and a counter outlives its window and has counted all that
  were let through in it (`CounterAt`).
- `DependencyGraphProofs`: `RegistryAndGraphAgree`, `NodesFollowTheRegistry`, and `BlastRadiusIsSound` from
  `PathsAreReal` and `NothingStableIsMissed`. `GraphInv` says that what a request has checked is true up to its
  commit (`Fits`) and that an uncommitted row is the only one of its key (`FlushedOnce`). `SearchInv` is the
  invariant of a breadth-first search while edges come and go: every entry came along edges that were there at
  some moment of the search (`EntriesAreReal`), the queue is in the order of depth and at most one hop deep
  (`QueueInOrder`), and what was found above the limit is queued or its steady dependents were found one hop later
  at the latest (`NothingForgotten`). That a dependent within the limit is found then follows along its path, edge
  by edge.

What is assumed of the constants is what the code's types and tables say. In `AnalysisRun`, `EventConsumer` and
`WebhookIngress` bounds are numbers and NULL is no value of a column. `PRPipeline`: the runners are the workers and
the requests, which are different things, and a commit is no other kind of body (`PipelineAssumption`). `Replay`: a
trajectory is a list of events, NULL and "no replay" are no version and no row. `Evidence`: the replays of a start are
lists of steps with an event each (`WorldsAssumption`), the compatibility engine returns a finite list of changes
(`AnalyzeAssumption`), a blast radius is a number (`NumbersAssumption`). `Access` and `DependencyGraph`: the rows of a
start respect the foreign keys and unique keys of their tables, and the edges of a start are such as
`create_dependency` lets through (`StartsAssumption`); clock resolution, window and lifetimes are positive
(`TimeAssumption`); search depths are positive (`DepthsAssumption`); there are at least two names of versions.
`NoneAssumption`, `NoneIsNoAnswer`: "not answered yet" is no answer. TLC evaluates all of them in the runs.

Only model-checked: all liveness properties (the proof system does not reason about fairness), and what rests on
`ValueDiff` or `Compatibility`, which recurse over values (`CompatibleKeepsCallers`, `ComparisonsAreSymmetric`,
`NewRequiredInputBlocks`, `DifferencesAreRedacted`): a proof would be an induction over schemas and values, which
the installed provers cannot do.

## 5. Not modelled

Left out for good: the wording of check output and explanations (of an error
message `ErrorStatus` keeps which class words it); envelopes and serialisation; queries
that change nothing; tokens and signatures as cryptography; metrics, traces and logs; configuration; the
middleware that wraps one request and shares nothing; migrations (their unique constraints are guards of inserts);
the frontend; the deployment. Trajectories without an external run id and replays without an idempotency key are
left out too: no second request can create the same one. `authorize_role_change` (`authz/membership.py`) and
`delete_component_node` (`graph/repository.py`) have no caller.

## 6. Plan

Modelled and checked: all the modules of section 2. Proved: section 4, which states every invariant and action
property that the runs check, except the four named there. What is left:

1. Those four, and the liveness properties, for a proof system that has induction over data and fairness.
2. Workers that overlap. What holds with any number of workers is `PipelineInv` and what follows from it; a weaker
   abstract life, in which a decided commit may be decided again by a run that began earlier, would say what
   overlapping workers still guarantee.
