----------------------------- MODULE AnalysisRun -----------------------------
(***************************************************************************)
(* GitHubPullRequestAnalysisService.run_analysis (app/services/            *)
(* github_pr_analysis_service.py): the pipeline that takes one persisted   *)
(* GitHubPullRequestAnalysis row from PENDING to a decision and to a check *)
(* run on GitHub.                                                          *)
(*                                                                         *)
(* The rows belong to one repository, one pull request and one             *)
(* ANALYSIS_VERSION, so that the idempotency key of a row is its head_sha  *)
(* and the row is named by it.  A runner is a process executing            *)
(* run_analysis: a Kafka worker, or a webhook request when Kafka is        *)
(* disabled.  Nothing keeps two runners from working on the same row: the  *)
(* row is read without a lock, and a redelivered event may reach a second  *)
(* worker while the first is still busy.                                   *)
(*                                                                         *)
(* Every await between two statements is a point where other runners step  *)
(* and where the process may die.  A runner works on its own copy of the   *)
(* row (sessions are made with expire_on_commit=False), and a flush writes *)
(* the columns that differ from what the copy held before.                 *)
(***************************************************************************)
EXTENDS Naturals, Sequences

CONSTANTS
    Runners,          \* processes that execute run_analysis
    Shas,             \* head commits of the pull request
    BaseVersion,      \* the ComponentVersion registered before the pull request
    PinnedBaseline,   \* the mapping names BaseVersion as its baseline_version
    Verdict,          \* Verdict[<<b, c>>]: the engines' decision on c against b
    None,             \* SQL NULL
    MaxRetries,       \* _MAX_RETRIES of the GitHub Checks client
    MaxRuns,          \* bound: calls of run_analysis
    MaxFaults         \* bound: crashes, pipeline errors, failed GitHub requests

Versions == Shas \cup {BaseVersion}

Decisions == {"PASS", "WARN", "BLOCK"}

\* GitHubPRAnalysisStatus
Statuses == {"pending", "in_progress", "completed", "publish_failed", "failed"}

\* The engines are deterministic; a version compared with itself shows no
\* change, so no rule fires and the decision is PASS.
ASSUME RunAssumption ==
    /\ BaseVersion \notin Shas
    /\ PinnedBaseline \in BOOLEAN
    /\ Verdict \in [Versions \X Versions -> Decisions]
    /\ \A v \in Versions : Verdict[<<v, v>>] = "PASS"
    /\ None \notin Nat \cup Decisions \cup Statuses
    /\ None \notin {"success", "neutral", "failure"}
    /\ MaxRetries \in Nat
    /\ MaxRuns \in Nat
    /\ MaxFaults \in Nat

VARIABLES
    mapping,       \* the GitHubRepositoryMapping: "none", "unconfigured", "configured"
    registry,      \* ComponentVersions of the component, in order of registration
    rows,          \* rows[a]: the GitHubPullRequestAnalysis of head commit a
    assessments,   \* committed RiskAssessmentRecords (each with its scan)
    checks,        \* check runs on GitHub; the id is the index
    rpc,           \* rpc[p]: where runner p is in run_analysis
    job,           \* job[p]: the analysis it was asked to run
    component,     \* component[p]: the mapping it loaded has a component_id
    expected,      \* expected[p]: the head_sha its caller believes it is for
    local,         \* local[p]: its copy of the row
    verdict,       \* verdict[p]: the decision it has computed and not committed
    posted,        \* posted[p]: the id GitHub answered with
    runs,          \* calls of run_analysis so far
    faults         \* faults so far

runVars == <<mapping, registry, rows, assessments, checks, rpc, job, component, expected,
             local, verdict, posted, runs, faults>>

\* Mutant of TerminalStatuses: a COMPLETED row is taken up again.
TerminalWithoutCompleted == {"failed"}
\* _TERMINAL_STATUSES
TerminalStatuses == {"completed", "failed"}

\* The columns of a row the pipeline writes.
NewRow == [status |-> "pending", decision |-> None, assessment |-> None,
           check |-> None]

\* No row for this head commit.
NoRow == [status |-> None, decision |-> None, assessment |-> None,
          check |-> None]

Exists(a) == rows[a] # NoRow

\* decision_to_conclusion
Conclusion(decision) ==
    CASE decision = "PASS"  -> "success"
      [] decision = "WARN"  -> "neutral"
      [] decision = "BLOCK" -> "failure"

RunInit ==
    /\ mapping \in {"none", "configured"}
    /\ registry = <<BaseVersion>>
    /\ rows = [a \in Shas |-> NoRow]
    /\ assessments = <<>>
    /\ checks = <<>>
    /\ rpc = [p \in Runners |-> "idle"]
    /\ job = [p \in Runners |-> None]
    /\ component = [p \in Runners |-> FALSE]
    /\ expected = [p \in Runners |-> None]
    /\ local = [p \in Runners |-> NoRow]
    /\ verdict = [p \in Runners |-> None]
    /\ posted = [p \in Runners |-> None]
    /\ runs = 0
    /\ faults = 0

-----------------------------------------------------------------------------
(* What the pipeline rests on. *)

Goto(p, label) == rpc' = [rpc EXCEPT ![p] = label]

\* session.flush() of the row: an UPDATE of the columns whose value differs
\* from the one this session loaded or wrote last.
Flush(p, new) ==
    /\ rows' = [rows EXCEPT ![job[p]] =
                    [c \in DOMAIN new |->
                        IF new[c] # local[p][c] THEN new[c] ELSE @[c]]]
    /\ local' = [local EXCEPT ![p] = new]

\* The GitHub Checks service.
CheckRun(a, status, conclusion) ==
    [sha |-> a, status |-> status, conclusion |-> conclusion]

\* The check runs that n POSTs of one request make.  _send repeats a request
\* whose answer was lost, and GitHub makes another check run.
Copies(n, check) == [i \in 1 .. n |-> check]

\* create_check_run succeeds, after at most MaxRetries failed attempts of
\* which n reached GitHub; the client hears of the last check run only.
CreateCheckRun(p, check) ==
    \E n \in 0 .. MaxRetries :
        /\ faults + n <= MaxFaults
        /\ faults' = faults + n
        /\ checks' = checks \o Copies(n + 1, check)
        /\ posted' = [posted EXCEPT ![p] = Len(checks) + n + 1]

\* create_check_run raises: rejected at once, or all the attempts failed, n of
\* them after they reached GitHub.
CreateCheckRunFails(p, check) ==
    \E n \in 0 .. (MaxRetries + 1) :
        /\ faults + n + 1 <= MaxFaults
        /\ faults' = faults + n + 1
        /\ checks' = checks \o Copies(n, check)
        /\ UNCHANGED posted

\* update_check_run succeeds; a repeated PATCH changes nothing more.  The
\* head_sha of a check run is fixed when it is created.
UpdateCheckRun(p, check) ==
    /\ checks' = [checks EXCEPT ![local[p].check] =
                     [check EXCEPT !.sha = checks[local[p].check].sha]]
    /\ posted' = [posted EXCEPT ![p] = local[p].check]
    /\ UNCHANGED faults

\* update_check_run raises: the request was rejected, or it was applied and the
\* answer was lost.
UpdateCheckRunFails(p, check) ==
    /\ faults < MaxFaults
    /\ faults' = faults + 1
    /\ \/ UNCHANGED checks
       \/ checks' = [checks EXCEPT ![local[p].check] =
                        [check EXCEPT !.sha = checks[local[p].check].sha]]
    /\ UNCHANGED posted

-----------------------------------------------------------------------------
(* The surroundings: the mapping, the registry and the callers. *)

\* create_mapping, with or without a component_id.
CreateMapping ==
    /\ mapping = "none"
    /\ mapping' \in {"unconfigured", "configured"}
    /\ UNCHANGED <<registry, rows, assessments, checks, rpc, job, component, expected,
                   local, verdict, posted, runs, faults>>

\* delete_mapping
DeleteMapping ==
    /\ mapping # "none"
    /\ mapping' = "none"
    /\ UNCHANGED <<registry, rows, assessments, checks, rpc, job, component, expected,
                   local, verdict, posted, runs, faults>>

\* create_component_version: CI registers the candidate under its head_sha;
\* a second registration of the same version is refused.
RegisterVersion(v) ==
    /\ \A i \in DOMAIN registry : registry[i] # v
    /\ registry' = Append(registry, v)
    /\ UNCHANGED <<mapping, rows, assessments, checks, rpc, job, component, expected,
                   local, verdict, posted, runs, faults>>

\* _start_or_get inserted the PENDING row and committed.  The mapping it read
\* before may have been deleted since.
CreateRow(a) ==
    /\ ~Exists(a)
    /\ rows' = [rows EXCEPT ![a] = NewRow]
    /\ UNCHANGED <<mapping, registry, assessments, checks, rpc, job, component, expected,
                   local, verdict, posted, runs, faults>>

\* A caller calls run_analysis for analysis a, which it believes to be for
\* head commit e.  The id need not be that of a row, nor e be its commit: both
\* come out of an event.
Begin(p, a, e) ==
    /\ rpc[p] = "idle"
    /\ runs < MaxRuns
    /\ runs' = runs + 1
    /\ job' = [job EXCEPT ![p] = a]
    /\ expected' = [expected EXCEPT ![p] = e]
    /\ Goto(p, "load")
    /\ UNCHANGED <<mapping, registry, rows, assessments, checks, component,
                   local, verdict, posted, faults>>

-----------------------------------------------------------------------------
(* _run_analysis_impl *)

\* Mutant of Resume: the whole pipeline is run again.
ResumeFromStart(row) == "mark"

\* A row that failed to be published and has its evidence is only published.
Resume(row) ==
    IF row.status = "publish_failed" /\ row.assessment # None THEN "publish" ELSE "mark"

\* The reads at its head and the branch they lead to.
Load(p) ==
    LET row == rows[job[p]] IN
    /\ rpc[p] = "load"
    /\ local' = [local EXCEPT ![p] = row]
    /\ component' = [component EXCEPT ![p] = mapping = "configured"]
    /\ \/ /\ ~Exists(job[p]) \/ expected[p] # job[p]
          /\ Goto(p, "rejected")
       \/ /\ Exists(job[p]) /\ expected[p] = job[p]
          /\ \/ row.status \in TerminalStatuses /\ Goto(p, "returned")
             \/ /\ row.status \notin TerminalStatuses
                /\ mapping = "none"
                /\ Goto(p, "rejected")
             \/ /\ row.status \notin TerminalStatuses
                /\ mapping # "none"
                /\ Goto(p, Resume(row))
    /\ UNCHANGED <<mapping, registry, rows, assessments, checks, job, expected,
                   verdict, posted, runs, faults>>

\* status = IN_PROGRESS, flush and commit.
MarkInProgress(p) ==
    /\ rpc[p] = "mark"
    /\ Flush(p, [local[p] EXCEPT !.status = "in_progress"])
    /\ Goto(p, "announce")
    /\ UNCHANGED <<mapping, registry, assessments, checks, job, component, expected,
                   verdict, posted, runs, faults>>

\* _publish_in_progress: the request to GitHub.  Its failure is ignored.
Announce(p) ==
    LET check == CheckRun(job[p], "in_progress", None) IN
    /\ rpc[p] = "announce"
    /\ \/ CreateCheckRun(p, check) /\ Goto(p, "save_check")
       \/ CreateCheckRunFails(p, check) /\ Goto(p, "pipeline")
    /\ UNCHANGED <<mapping, registry, rows, assessments, job, component, expected, local,
                   verdict, runs>>

\* Mutant of SaveCheckRun: the newest check run is stored, not the answer.
SaveNewestCheckRun(p) ==
    /\ rpc[p] = "save_check"
    /\ Flush(p, [local[p] EXCEPT !.check = Len(checks)])
    /\ Goto(p, "pipeline")
    /\ UNCHANGED <<mapping, registry, assessments, checks, job, component, expected,
                   verdict, posted, runs, faults>>

\* _publish_in_progress: check_run_id is stored.
SaveCheckRun(p) ==
    /\ rpc[p] = "save_check"
    /\ Flush(p, [local[p] EXCEPT !.check = posted[p]])
    /\ Goto(p, "pipeline")
    /\ UNCHANGED <<mapping, registry, assessments, checks, job, component, expected,
                   verdict, posted, runs, faults>>

\* _run_compatibility: without a configured baseline_version the latest
\* registered version is the baseline.
Baseline == IF PinnedBaseline THEN BaseVersion ELSE registry[Len(registry)]

\* Mutant of RunPipeline: the conclusion is sent before the evidence is committed.
PublishUncommitted(p) ==
    /\ rpc[p] = "pipeline"
    /\ component[p]
    /\ \E i \in DOMAIN registry : registry[i] = job[p]
    /\ verdict' = [verdict EXCEPT ![p] = Verdict[<<Baseline, job[p]>>]]
    /\ checks' = Append(checks, CheckRun(job[p], "completed", Conclusion(verdict'[p])))
    /\ Goto(p, "complete")
    /\ UNCHANGED <<mapping, registry, rows, assessments, job, component, expected,
                   local, posted, runs, faults>>

\* _run_compatibility and run_assessment: the scan and the assessment are in
\* the session, not committed.
RunPipeline(p) ==
    /\ rpc[p] = "pipeline"
    /\ component[p]
    /\ \E i \in DOMAIN registry : registry[i] = job[p]
    /\ verdict' = [verdict EXCEPT ![p] = Verdict[<<Baseline, job[p]>>]]
    /\ Goto(p, "complete")
    /\ UNCHANGED <<mapping, registry, rows, assessments, checks, job, component, expected,
                   local, posted, runs, faults>>

\* MissingAgentABIConfiguration: CI has not registered the candidate.
MissingConfiguration(p) ==
    /\ rpc[p] = "pipeline"
    /\ component[p]
    /\ \A i \in DOMAIN registry : registry[i] # job[p]
    /\ Goto(p, "fail_config")
    /\ UNCHANGED <<mapping, registry, rows, assessments, checks, job, component, expected,
                   local, verdict, posted, runs, faults>>

\* Any other exception of the pipeline; ComponentNotFound, always, when the
\* mapping names no component.
PipelineError(p) ==
    /\ rpc[p] = "pipeline"
    /\ IF component[p] THEN faults < MaxFaults /\ faults' = faults + 1
                       ELSE UNCHANGED faults
    /\ Goto(p, "fail_error")
    /\ UNCHANGED <<mapping, registry, rows, assessments, checks, job, component, expected,
                   local, verdict, posted, runs>>

\* Mutant of SaveFailed: the exception is passed on, the row stays as it is.
RaiseUnsaved(p) ==
    /\ rpc[p] \in {"fail_config", "fail_error"}
    /\ Goto(p, IF rpc[p] = "fail_config" THEN "raised_config" ELSE "raised_error")
    /\ UNCHANGED <<mapping, registry, rows, assessments, checks, job, component, expected,
                   local, verdict, posted, runs, faults>>

\* status = FAILED, flush and commit; the exception is raised again.
SaveFailed(p) ==
    /\ rpc[p] \in {"fail_config", "fail_error"}
    /\ Flush(p, [local[p] EXCEPT !.status = "failed"])
    /\ Goto(p, IF rpc[p] = "fail_config" THEN "raised_config" ELSE "raised_error")
    /\ UNCHANGED <<mapping, registry, assessments, checks, job, component, expected,
                   verdict, posted, runs, faults>>

RowWithoutEvidence(p) ==
    [local[p] EXCEPT !.status = "completed", !.decision = verdict[p]]
\* The row as it is after the pipeline.
CompletedRow(p) ==
    [local[p] EXCEPT !.status = "completed",
                     !.decision = verdict[p],
                     !.assessment = Len(assessments) + 1]

\* The evidence, the decision and status = COMPLETED in one commit.
Complete(p) ==
    /\ rpc[p] = "complete"
    /\ assessments' = Append(assessments, [sha |-> job[p], decision |-> verdict[p]])
    /\ Flush(p, CompletedRow(p))
    /\ verdict' = [verdict EXCEPT ![p] = None]
    /\ Goto(p, "publish")
    /\ UNCHANGED <<mapping, registry, checks, job, component, expected, posted, runs, faults>>

\* _publish_result: the request to GitHub, an update of the check run the row
\* names or a new one.
Publish(p) ==
    LET evidence == assessments[local[p].assessment]
        check    == CheckRun(job[p], "completed", Conclusion(evidence.decision))
    IN
    /\ rpc[p] = "publish"
    /\ \/ /\ IF local[p].check # None THEN UpdateCheckRun(p, check)
                                      ELSE CreateCheckRun(p, check)
          /\ Goto(p, "save_published")
       \/ /\ IF local[p].check # None THEN UpdateCheckRunFails(p, check)
                                      ELSE CreateCheckRunFails(p, check)
          /\ Goto(p, "save_unpublished")
    /\ UNCHANGED <<mapping, registry, rows, assessments, job, component, expected, local,
                   verdict, runs>>

\* _publish_result: the check run id and status = COMPLETED.
SavePublished(p) ==
    /\ rpc[p] = "save_published"
    /\ Flush(p, [local[p] EXCEPT !.status = "completed", !.check = posted[p]])
    /\ Goto(p, "returned")
    /\ UNCHANGED <<mapping, registry, assessments, checks, job, component, expected,
                   verdict, posted, runs, faults>>

\* _publish_result: status = PUBLISH_FAILED.  The call still returns.
SaveUnpublished(p) ==
    /\ rpc[p] = "save_unpublished"
    /\ Flush(p, [local[p] EXCEPT !.status = "publish_failed"])
    /\ Goto(p, "returned")
    /\ UNCHANGED <<mapping, registry, assessments, checks, job, component, expected,
                   verdict, posted, runs, faults>>

\* The call ends, by return or by exception; the session is closed.
Finished == {"returned", "rejected", "raised_config", "raised_error"}

Idle(p) ==
    /\ Goto(p, "idle")
    /\ job' = [job EXCEPT ![p] = None]
    /\ component' = [component EXCEPT ![p] = FALSE]
    /\ expected' = [expected EXCEPT ![p] = None]
    /\ local' = [local EXCEPT ![p] = NoRow]
    /\ verdict' = [verdict EXCEPT ![p] = None]
    /\ posted' = [posted EXCEPT ![p] = None]
    /\ UNCHANGED <<mapping, registry, rows, assessments, checks, runs>>

Finish(p) ==
    /\ rpc[p] \in Finished
    /\ Idle(p)
    /\ UNCHANGED faults

\* The process dies: what was not committed is rolled back.
Crash(p) ==
    /\ rpc[p] \notin Finished \cup {"idle"}
    /\ faults < MaxFaults
    /\ faults' = faults + 1
    /\ Idle(p)

-----------------------------------------------------------------------------
\* One step of run_analysis itself.
RunStep(p) ==
    \/ Load(p)
    \/ MarkInProgress(p)
    \/ Announce(p)
    \/ SaveCheckRun(p)
    \/ RunPipeline(p)
    \/ MissingConfiguration(p)
    \/ PipelineError(p)
    \/ SaveFailed(p)
    \/ Complete(p)
    \/ Publish(p)
    \/ SavePublished(p)
    \/ SaveUnpublished(p)

Environment ==
    \/ CreateMapping
    \/ DeleteMapping
    \/ \E v \in Shas : RegisterVersion(v)
    \/ \E a \in Shas : CreateRow(a)

RunNext ==
    \/ Environment
    \/ \E p \in Runners :
        \/ \E a, e \in Shas : Begin(p, a, e)
        \/ RunStep(p)
        \/ Finish(p)
        \/ Crash(p)

RunSpec == RunInit /\ [][RunNext]_runVars

-----------------------------------------------------------------------------
(* Properties *)

Rows == [status : Statuses \cup {None}, decision : Decisions \cup {None},
         assessment : Nat \cup {None}, check : Nat \cup {None}]

CheckRuns == [sha : Shas, status : {"in_progress", "completed"},
              conclusion : {"success", "neutral", "failure", None}]

Labels == {"idle", "load", "mark", "announce", "save_check", "pipeline",
           "fail_config", "fail_error", "complete", "publish",
           "save_published", "save_unpublished"} \cup Finished

TypeOK ==
    /\ mapping \in {"none", "unconfigured", "configured"}
    /\ registry \in Seq(Versions)
    /\ rows \in [Shas -> Rows]
    /\ assessments \in Seq([sha : Shas, decision : Decisions])
    /\ checks \in Seq(CheckRuns)
    /\ rpc \in [Runners -> Labels]
    /\ job \in [Runners -> Shas \cup {None}]
    /\ component \in [Runners -> BOOLEAN]
    /\ expected \in [Runners -> Shas \cup {None}]
    /\ local \in [Runners -> Rows]
    /\ verdict \in [Runners -> Decisions \cup {None}]
    /\ posted \in [Runners -> Nat \cup {None}]
    /\ runs \in Nat
    /\ faults \in Nat

\* Evidence first: a conclusion that is visible on GitHub is that of an
\* assessment already committed for the same commit, whatever crashed and
\* whoever else was running.  (The commit before _publish_result.)
EvidenceBeforePublish ==
    \A i \in DOMAIN checks :
        checks[i].status = "completed" =>
            \E j \in DOMAIN assessments :
                /\ assessments[j].sha = checks[i].sha
                /\ checks[i].conclusion = Conclusion(assessments[j].decision)

\* A row that says COMPLETED or PUBLISH_FAILED points to a committed
\* assessment of its own commit, although its columns are flushed one by one
\* by sessions that do not see each other's writes.
StatusBackedByEvidence ==
    \A a \in Shas :
        rows[a].status \in {"completed", "publish_failed"} =>
            /\ rows[a].assessment \in DOMAIN assessments
            /\ assessments[rows[a].assessment].sha = a

\* Exact-SHA pinning: the check run a row points to, and the one a runner is
\* about to update, is a check run of the row's own commit; an older commit's
\* analysis never touches a newer commit's check.
ExactShaPinning ==
    /\ \A a \in Shas :
        rows[a].check # None => /\ rows[a].check \in DOMAIN checks
                                /\ checks[rows[a].check].sha = a
    /\ \A p \in Runners :
        local[p].check # None => /\ local[p].check \in DOMAIN checks
                                 /\ checks[local[p].check].sha = job[p]

\* Risk is assessed once per commit, although runs are repeated and cut short
\* by crashes, as long as they do not overlap, as with one worker or without
\* Kafka in PRPipeline: evidence and status COMPLETED are one commit.
AssessedOnce ==
    \A i, j \in DOMAIN assessments :
        assessments[i].sha = assessments[j].sha => i = j

=============================================================================
