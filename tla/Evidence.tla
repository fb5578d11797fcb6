------------------------------ MODULE Evidence ------------------------------
(***************************************************************************)
(* The evidence of a change: compatibility scans, differential reports and *)
(* risk assessments, as the requests of several clients create them        *)
(* (services/compatibility_service.py, differential_service.py,            *)
(* risk_service.py).                                                       *)
(*                                                                         *)
(* A request runs in one transaction: it looks for a row of the same       *)
(* logical key, computes a new row, inserts it (flush) and commits.  The   *)
(* database reads what is committed, and makes an insert wait for another  *)
(* transaction that holds the same unique key.                             *)
(*                                                                         *)
(* Each client makes one request.  The rows of a table are a sequence; the *)
(* identifier of a row is its position, 0 stands for NULL, and Elsewhere   *)
(* for an identifier that does not resolve in this project.  Project,      *)
(* organization, content hash and engine versions are left out: they are   *)
(* the same in all the rows of the model.                                  *)
(***************************************************************************)
EXTENDS Differential

INSTANCE RiskEngine

CONSTANTS
    Clients,
    Replays,
    Versions,             \* of the one component
    BlastRadii,           \* what the dependency graph may answer
    Analyzable(_, _, _),  \* analyze() raises no error: kind, two contents
    Analyze(_, _, _),     \* its status and changes
    Worlds                \* a sequence: what is registered, and who asks for what

\* What Replay leaves of a trajectory: a list of numbered steps, one for each of
\* its events.
IsStepList(steps) ==
    /\ Len(steps) \in Nat /\ DOMAIN steps = 1 .. Len(steps)
    /\ \A i \in DOMAIN steps : steps[i].seq \in Int
    /\ \A i, j \in DOMAIN steps : steps[i].event = steps[j].event => i = j

\* A world: the kind of the component, the contents of its versions, the
\* steps the replays end with, the replays that have ended already, and what
\* each client asks for, if anything.
ASSUME WorldsAssumption ==
    \A i \in DOMAIN Worlds :
        /\ DOMAIN Worlds[i] = {"kind", "contents", "outcomes", "ended", "ops"}
        /\ DOMAIN Worlds[i].contents \subseteq Versions
        /\ DOMAIN Worlds[i].outcomes = Replays
        /\ \A r \in Replays : IsStepList(Worlds[i].outcomes[r])
        /\ Worlds[i].ended \subseteq Replays
        /\ Worlds[i].ops \in [Clients -> {"scan", "compare", "assess", "nothing"}]

\* analyze() returns a list of changes.
ASSUME AnalyzeAssumption ==
    \A i \in DOMAIN Worlds : \A b, v \in DOMAIN Worlds[i].contents :
        Analyzable(Worlds[i].kind, Worlds[i].contents[b], Worlds[i].contents[v]) =>
            IsFiniteSet(Analyze(Worlds[i].kind, Worlds[i].contents[b],
                                Worlds[i].contents[v]).changes)

ASSUME NumbersAssumption == BlastRadii \subseteq Nat /\ None \notin Int /\ None # "breaking"

VARIABLES
    world,         \* one of Worlds, never changed
    replays,       \* replay_runs with their steps
    scans,         \* compatibility_scans
    reports,       \* differential_reports
    assessments,   \* risk_assessments
    call           \* what each client's request is doing

vars == <<world, replays, scans, reports, assessments, call>>

Op(c) == world.ops[c]

Elsewhere == -1

Resolves(id, rows) == id \in DOMAIN rows

-----------------------------------------------------------------------------
(* Replays.  Replay models how they are executed; here they end. *)

\* A replay is FAILED as soon as one of its steps is.
Ended(steps) ==
    [status |-> IF \E i \in DOMAIN steps : steps[i].status = "failed"
                THEN "failed" ELSE "completed",
     steps |-> steps]

ReplayEnds(r) ==
    /\ replays[r].status = "pending"
    /\ replays' = [replays EXCEPT ![r] = Ended(world.outcomes[r])]
    /\ UNCHANGED <<world, scans, reports, assessments, call>>

-----------------------------------------------------------------------------
(* Requests *)

\* An answer names a row, or an error.
NoAnswer == [row |-> 0, error |-> "none"]

Row(i) == [NoAnswer EXCEPT !.row = i]

Error(e) == [NoAnswer EXCEPT !.error = e]

NoCall == [pc |-> "idle", key |-> <<0, 0>>, row |-> None, answer |-> NoAnswer]

Init ==
    /\ \E i \in DOMAIN Worlds : world = Worlds[i]
    /\ replays = [r \in Replays |->
                    IF r \in world.ended THEN Ended(world.outcomes[r])
                    ELSE [status |-> "pending", steps |-> <<>>]]
    /\ scans = <<>>
    /\ reports = <<>>
    /\ assessments = <<>>
    /\ call = [c \in Clients |-> NoCall]

Idle(c, op) == call[c].pc = "idle" /\ Op(c) = op

At(c, op, pc) == call[c].pc = pc /\ Op(c) = op

\* The request of c ends.
Answer(c, key, answer) ==
    call' = [call EXCEPT ![c] = [NoCall EXCEPT !.pc = "done", !.key = key, !.answer = answer]]

Continue(c, pc, key, row) ==
    call' = [call EXCEPT ![c] = [NoCall EXCEPT !.pc = pc, !.key = key, !.row = row]]

\* The session: what is flushed is committed at the end of the request.
Table(op) ==
    CASE op = "scan" -> scans
      [] op = "compare" -> reports
      [] op = "assess" -> assessments

Commit(c) ==
    /\ call[c].pc = "flushed"
    /\ Answer(c, call[c].key, Row(Len(Table(Op(c))) + 1))
    /\ scans' = IF Op(c) = "scan" THEN Append(scans, call[c].row) ELSE scans
    /\ reports' = IF Op(c) = "compare" THEN Append(reports, call[c].row) ELSE reports
    /\ assessments' = IF Op(c) = "assess"
                      THEN Append(assessments, call[c].row) ELSE assessments
    /\ UNCHANGED <<world, replays>>

\* The request dies before the commit: everything is rolled back.
Rollback(c) ==
    /\ call[c].pc \in {"missed", "computed", "flushed"}
    /\ Answer(c, call[c].key, Error("ServerError"))
    /\ UNCHANGED <<world, replays, scans, reports, assessments>>

Tables == <<replays, scans, reports, assessments>>

-----------------------------------------------------------------------------
(* CompatibilityService.run_scan: no key, every request makes a scan. *)

\* A row of compatibility_scans with its scan_changes.
NewScan(b, v, analysis) ==
    [baseline |-> b, candidate |-> v, status |-> analysis.status, changes |-> analysis.changes]

CreateScan(c) ==
    /\ Idle(c, "scan")
    /\ \E b, v \in Versions :
          CASE {b, v} \ DOMAIN world.contents # {} ->
                  Answer(c, <<b, v>>, Error("ComponentVersionNotFound"))
            [] /\ {b, v} \subseteq DOMAIN world.contents
               /\ ~Analyzable(world.kind, world.contents[b], world.contents[v]) ->
                  Answer(c, <<b, v>>, Error("CannotAnalyze"))
            [] OTHER ->
                  Continue(c, "flushed", <<b, v>>,
                      NewScan(b, v, Analyze(world.kind, world.contents[b], world.contents[v])))
    /\ UNCHANGED <<world, Tables>>

-----------------------------------------------------------------------------
(* DifferentialService.run_analysis *)

ReportsFor(key) == {i \in DOMAIN reports : <<reports[i].baseline, reports[i].candidate>> = key}

LookupReport(c) ==
    /\ Idle(c, "compare")
    /\ \E key \in Replays \X Replays :
          IF ReportsFor(key) = {}
          THEN Continue(c, "missed", key, None)
          ELSE \E i \in ReportsFor(key) : Answer(c, key, Row(i))
    /\ UNCHANGED <<world, Tables>>

\* Mutant of Ready: a replay that is not over will do.
ReadyWhatever(r) == TRUE

\* _get_ready_replay
Ready(r) == replays[r].status = "completed"

\* _to_record: a row of differential_reports with its differential_changes.
NewReport(key, analysis) ==
    [baseline |-> key[1], candidate |-> key[2],
     summary |-> analysis.summary, differences |-> analysis.differences]

AnalyzeReplays(c) ==
    /\ At(c, "compare", "missed")
    /\ LET key == call[c].key
       IN  IF Ready(key[1]) /\ Ready(key[2])
           THEN Continue(c, "computed", key,
                    NewReport(key, DifferentialAnalysis(replays[key[1]].steps,
                                                        replays[key[2]].steps)))
           ELSE Answer(c, key, Error("ReplayNotReadyForDifferential"))
    /\ UNCHANGED <<world, Tables>>

\* Another transaction has inserted a row of the same key, and is not over.
HeldByAnother(c) ==
    \E d \in Clients \ {c} :
        /\ Op(d) = Op(c)
        /\ call[d].pc = "flushed"
        /\ call[d].key = call[c].key

\* Mutant of FlushReport: the table has no unique key.
FlushReportUnkeyed(c) ==
    /\ At(c, "compare", "computed")
    /\ Continue(c, "flushed", call[c].key, call[c].row)
    /\ UNCHANGED <<world, Tables>>

\* uq_differential_reports_idempotency; nothing catches the IntegrityError.
FlushReport(c) ==
    /\ At(c, "compare", "computed")
    /\ ~HeldByAnother(c)
    /\ IF ReportsFor(call[c].key) = {}
       THEN Continue(c, "flushed", call[c].key, call[c].row)
       ELSE Answer(c, call[c].key, Error("IntegrityError"))
    /\ UNCHANGED <<world, Tables>>

-----------------------------------------------------------------------------
(* RiskService.run_assessment *)

AssessmentsFor(key) ==
    {i \in DOMAIN assessments : <<assessments[i].scan, assessments[i].report>> = key}

\* scalar_one_or_none: several rows of the key are an error.
LookupAssessment(c) ==
    /\ Idle(c, "assess")
    /\ \E scan \in {0, Elsewhere} \cup DOMAIN scans,
          report \in {0, Elsewhere} \cup DOMAIN reports :
          LET key == <<scan, report>>
          IN  CASE key = <<0, 0>> -> Answer(c, key, Error("RiskAssessmentInputRequired"))
                [] key # <<0, 0>> /\ AssessmentsFor(key) = {} ->
                      Continue(c, "missed", key, None)
                [] Cardinality(AssessmentsFor(key)) = 1 ->
                      \E i \in AssessmentsFor(key) : Answer(c, key, Row(i))
                [] OTHER -> Answer(c, key, Error("MultipleResultsFound"))
    /\ UNCHANGED <<world, Tables>>

ScanEvidence(scan) ==
    IF scan = None
    THEN [status |-> None, breaking |-> 0, critical |-> 0]
    ELSE [status |-> scan.status,
          breaking |-> Cardinality({x \in scan.changes : x.classification = "breaking"}),
          critical |-> Cardinality({x \in scan.changes : x.severity = "critical"})]

NonSuccessfulStatuses == {"failed", "skipped"}

ToolChangeTypes == {"TOOL_CHANGED", "PROVIDER_INVOCATION_CHANGED"}

\* max() of the percentages there are
WorstLatency(differences) ==
    LET deltas == {d.latency_percent : d \in differences} \ {None}
    IN  IF deltas = {} THEN None
        ELSE CHOOSE x \in deltas : \A y \in deltas : y <= x

ReportEvidence(report) ==
    LET differences == IF report = None THEN {} ELSE report.differences
    IN  [new_failures |-> IF report = None THEN 0 ELSE report.summary.new_failures,
         schema_changes |-> IF report = None THEN 0 ELSE report.summary.schema_changes,
         removed |-> \E d \in differences :
                        /\ "STEP_REMOVED" \in d.types
                        /\ d.baseline_status \notin {None} \cup NonSuccessfulStatuses,
         tool |-> \E d \in differences : d.types \cap ToolChangeTypes # {},
         error |-> \E d \in differences : "ERROR_INTRODUCED" \in d.types,
         latency |-> WorstLatency(differences)]

\* _build_context
BuildContext(scan, report, blast) ==
    LET s == ScanEvidence(scan)
        r == ReportEvidence(report)
    IN  [compatibility_status |-> s.status,
         breaking_count |-> s.breaking,
         critical_count |-> s.critical,
         new_failures |-> r.new_failures,
         schema_changes |-> r.schema_changes,
         has_removed_required_step |-> r.removed,
         tool_invocation_changed |-> r.tool,
         error_introduced |-> r.error,
         max_latency_percent_delta |-> r.latency,
         blast_radius_total_affected |-> blast]

\* _compute_blast_radius: without a scan, without the graph, or for a
\* component that was never synchronised there is no number.
BlastRadius(scan) == IF scan = None THEN {None} ELSE BlastRadii \cup {None}

\* _to_record: a row of risk_assessments with its risk_rule_results; the blast
\* radius is kept in the evidence of its rule.
NewAssessment(key, blast, result) ==
    [scan |-> key[1], report |-> key[2], blast |-> blast, result |-> result]

\* The assessment of the scan and the report named by key.
Assess(c) ==
    /\ At(c, "assess", "missed")
    /\ LET key == call[c].key
           scan == IF Resolves(key[1], scans) THEN scans[key[1]] ELSE None
           report == IF Resolves(key[2], reports) THEN reports[key[2]] ELSE None
       IN  CASE key[1] = Elsewhere -> Answer(c, key, Error("CompatibilityScanNotFound"))
             [] key[1] # Elsewhere /\ key[2] = Elsewhere ->
                   Answer(c, key, Error("DifferentialReportNotFound"))
             [] OTHER ->
                   \E blast \in BlastRadius(scan) :
                       Continue(c, "computed", key,
                           NewAssessment(key, blast, Evaluate(BuildContext(scan, report, blast))))
    /\ UNCHANGED <<world, Tables>>

\* NULLs are distinct in a unique key.
Keyed(key) == key[1] # 0 /\ key[2] # 0

\* uq_risk_assessments_idempotency
FlushAssessment(c) ==
    /\ At(c, "assess", "computed")
    /\ Keyed(call[c].key) => ~HeldByAnother(c)
    /\ IF Keyed(call[c].key) /\ AssessmentsFor(call[c].key) # {}
       THEN Answer(c, call[c].key, Error("IntegrityError"))
       ELSE Continue(c, "flushed", call[c].key, call[c].row)
    /\ UNCHANGED <<world, Tables>>

-----------------------------------------------------------------------------
Step(c) ==
    \/ CreateScan(c)
    \/ LookupReport(c) \/ AnalyzeReplays(c) \/ FlushReport(c)
    \/ LookupAssessment(c) \/ Assess(c) \/ FlushAssessment(c)
    \/ Commit(c)

Next ==
    \/ \E c \in Clients : Step(c) \/ Rollback(c)
    \/ \E r \in Replays : ReplayEnds(r)

Spec == Init /\ [][Next]_vars

-----------------------------------------------------------------------------
(* Properties *)

\* However requests overlap there is one report of two replays, and one
\* assessment of a scan together with a report; only an assessment of one of
\* them alone may be there twice.
KeyedOnce ==
    /\ \A i, j \in DOMAIN reports :
          /\ reports[i].baseline = reports[j].baseline
          /\ reports[i].candidate = reports[j].candidate
          => i = j
    /\ \A i, j \in DOMAIN assessments :
          /\ Keyed(<<assessments[i].scan, assessments[i].report>>)
          /\ assessments[i].scan = assessments[j].scan
          /\ assessments[i].report = assessments[j].report
          => i = j

\* A retry with the same inputs returns the existing assessment rather than
\* creating a duplicate (what the description of the route promises).
AssessedWithoutDuplicate ==
    \A i, j \in DOMAIN assessments :
        /\ assessments[i].scan = assessments[j].scan
        /\ assessments[i].report = assessments[j].report
        => i = j

\* A report is what a comparison of its replays would say now: none was made
\* of a replay that was still to get its steps, or that failed.
ReportReflectsReplays ==
    \A i \in DOMAIN reports :
        LET b == replays[reports[i].baseline]
            c == replays[reports[i].candidate]
        IN  /\ b.status = "completed" /\ c.status = "completed"
            /\ reports[i].differences = DifferentialAnalysis(b.steps, c.steps).differences

StepsOf(r) == DOMAIN replays[r].steps

\* Every step of either replay is in exactly one difference of a report, and
\* the counts of the report add up to the steps.
StepsAccountedFor ==
    \A i \in DOMAIN reports :
        LET r == reports[i]
        IN  /\ \A k \in StepsOf(r.baseline) : Cardinality({d \in r.differences : d.b = k}) = 1
            /\ \A k \in StepsOf(r.candidate) : Cardinality({d \in r.differences : d.c = k}) = 1
            /\ r.summary.matched + r.summary.removed = r.summary.total_baseline
            /\ r.summary.matched + r.summary.added = r.summary.total_candidate

\* Two steps made from the same recorded event are compared with each other,
\* wherever they stand in their replays.
SameEventCompared ==
    \A i \in DOMAIN reports :
        \A j \in StepsOf(reports[i].baseline), k \in StepsOf(reports[i].candidate) :
            replays[reports[i].baseline].steps[j].event
                = replays[reports[i].candidate].steps[k].event
            => \E d \in reports[i].differences : d.b = j /\ d.c = k

\* No step of a component is reported as removed while another step of that
\* component is reported as added: the two would have been compared.
NothingLeftUnpaired ==
    \A i \in DOMAIN reports :
        \A d, e \in reports[i].differences :
            (d.c = 0 /\ e.b = 0) =>
                \/ replays[reports[i].baseline].steps[d.b].component = None
                \/ replays[reports[i].baseline].steps[d.b].component
                     # replays[reports[i].candidate].steps[e.c].component

\* The alignment of two replays is sound: it is one-to-one and total, it pairs
\* what is certainly the same, and it leaves no pair of one component apart.
\* (Four passes pair steps by four different keys.)
AlignmentSound == StepsAccountedFor /\ SameEventCompared /\ NothingLeftUnpaired

\* The report of two replays the other way round is its mirror image: what is
\* added in one is removed in the other, and a new failure is a resolved one.
ReportMirrored ==
    \A i, j \in DOMAIN reports :
        /\ reports[i].baseline = reports[j].candidate
        /\ reports[i].candidate = reports[j].baseline
        => /\ reports[i].summary.matched = reports[j].summary.matched
           /\ reports[i].summary.changed = reports[j].summary.changed
           /\ reports[i].summary.added = reports[j].summary.removed
           /\ reports[i].summary.new_failures = reports[j].summary.resolved_failures
           /\ reports[i].summary.schema_changes = reports[j].summary.schema_changes

Severity == [PASS |-> 0, WARN |-> 1, BLOCK |-> 2]

\* More evidence never makes an assessment milder: not a report on top of a
\* scan, not a scan on top of a report, not a larger blast radius.  And the
\* points, capped per category and in total, make a score of 0 to 100.
MoreEvidenceNeverMilder ==
    \A i, j \in DOMAIN assessments :
        LET less == assessments[i]
            more == assessments[j]
        IN  /\ less.result.score \in 0..100
            /\ (/\ less.scan \in {0, more.scan}
                /\ less.report \in {0, more.report}
                /\ less.blast # None => more.blast # None /\ less.blast <= more.blast)
               => /\ less.result.score <= more.result.score
                  /\ Severity[less.result.decision] <= Severity[more.result.decision]

=============================================================================
