------------------------------- MODULE Replay -------------------------------
(***************************************************************************)
(* ReplayService: a replay of a recorded trajectory is created, with its   *)
(* plan, and executed once, with a candidate version in the place of the   *)
(* baseline version of a component.                                        *)
(*                                                                         *)
(* The transactions are those of TrajectoryRecorder: READ COMMITTED, and   *)
(* lock is the transaction that holds the row, or the idempotency key, of  *)
(* a replay.  The whole of execute_replay is one transaction, so RUNNING   *)
(* and the steps recorded so far are in the request's session only until   *)
(* it commits.                                                             *)
(***************************************************************************)
EXTENDS Naturals, Sequences

CONSTANTS
    Requests,       \* HTTP requests; each makes one call
    Keys,           \* idempotency keys; a replay is named by its key
    Trajectories,   \* [completed |-> , events |-> ] of the recorded trajectories
    Versions,       \* versions of the component that is replaced
    OtherVersions,  \* versions of other components
    InvocationIds,
    None,
    NoReplay,
    Nobody

\* What a replay reads of a TrajectoryEvent.
RecordedEvents ==
    [type: {"invocation", "response", "provider", "other"},
     version: Versions \cup OtherVersions \cup {None},
     invocation: InvocationIds \cup {None}]

ASSUME ReplayConstants ==
    /\ Nobody \notin Requests
    /\ None \notin Versions \cup OtherVersions \cup InvocationIds
    /\ None \notin {"ok", "failed", "historical"}
    /\ Versions \cap OtherVersions = {}
    /\ \A t \in Trajectories : t.completed \in BOOLEAN /\ t.events \in Seq(RecordedEvents)

VARIABLES
    replays,    \* replay_runs: committed rows, by idempotency key
    steps,      \* replay_steps: committed rows, by replay, in order
    lock,       \* the transaction that holds the row or the key of a replay
    pc,         \* where a request is
    call,       \* what it was called with
    session,    \* the steps it has added and not committed
    answer      \* what it was answered

vars == <<replays, steps, lock, pc, call, session, answer>>

-----------------------------------------------------------------------------
(* build_replay_plan                                                       *)

\* An invocation of exactly the baseline version is run again.
Substituted(event, baseline) == event.type = "invocation" /\ event.version = baseline

\* The invocation ids substituted before event i.
SubstitutedInvocations(events, i, baseline) ==
    {events[j].invocation : j \in {k \in 1 .. (i - 1) : Substituted(events[k], baseline)}} \ {None}

StepKind(events, i, baseline) ==
    CASE Substituted(events[i], baseline) -> "substituted"
      [] /\ events[i].type = "response"
         /\ events[i].invocation \in SubstitutedInvocations(events, i, baseline) -> "skipped"
      [] events[i].type = "provider" -> "provider_required"
      [] OTHER -> "reused"

PlanStep(events, i, baseline, candidate) ==
    LET kind == StepKind(events, i, baseline)
    IN  [seq |-> i,
         kind |-> kind,
         version |-> CASE kind = "substituted" -> candidate
                       [] kind = "reused" -> events[i].version
                       [] OTHER -> None]

build_replay_plan(events, baseline, candidate) ==
    [i \in DOMAIN events |-> PlanStep(events, i, baseline, candidate)]

\* A plan without a substituted step is refused.
HasSubstitutedStep(plan) == \E i \in DOMAIN plan : plan[i].kind = "substituted"

-----------------------------------------------------------------------------
Goto(c, l) == pc' = [pc EXCEPT ![c] = l]

\* The answer; the session is closed.
Answer(c, a) ==
    /\ Goto(c, "done")
    /\ answer' = [answer EXCEPT ![c] = a]
    /\ session' = [session EXCEPT ![c] = <<>>]

\* The request goes on.
Continue(c, l) == Goto(c, l) /\ UNCHANGED <<answer, session>>

Take(c) == lock' = [lock EXCEPT ![call[c].key] = c]

Release(c) == lock' = [k \in Keys |-> IF lock[k] = c THEN Nobody ELSE lock[k]]

Free(k) == lock[k] = Nobody

\* ReplayRun and the steps of its plan; RUNNING is never committed.
Kinds == {"substituted", "skipped", "provider_required", "reused"}

PlanSteps == [seq: Nat, kind: Kinds, version: Versions \cup OtherVersions \cup {None}]

Replays ==
    [source: Trajectories, baseline: Versions, candidate: Versions,
     status: {"pending", "completed", "failed"}, plan: Seq(PlanSteps)]

ASSUME NoReplayAssumption == NoReplay \notin Replays

NewReplay(args) ==
    [source |-> args.source, baseline |-> args.baseline, candidate |-> args.candidate,
     status |-> "pending",
     plan |-> build_replay_plan(args.source.events, args.baseline, args.candidate)]

\* The checks of create_replay: the trajectory is COMPLETED, both versions are
\* of one component, and there is something to substitute.
CanReplay(args) ==
    /\ args.source.completed
    /\ args.baseline \in Versions /\ args.candidate \in Versions
    /\ HasSubstitutedStep(NewReplay(args).plan)

CreateCalls ==
    [op: {"create"}, key: Keys, source: Trajectories,
     baseline: Versions, candidate: Versions \cup OtherVersions]

\* A replay may have been created before.
Init ==
    /\ replays \in [Keys -> {NoReplay} \cup
                            {NewReplay(a) : a \in {b \in CreateCalls : CanReplay(b)}}]
    /\ steps = [k \in Keys |-> <<>>]
    /\ lock = [k \in Keys |-> Nobody]
    /\ pc = [c \in Requests |-> "new"]
    /\ call = [c \in Requests |-> None]
    /\ session = [c \in Requests |-> <<>>]
    /\ answer = [c \in Requests |-> None]

-----------------------------------------------------------------------------
(* create_replay                                                           *)

\* _conflicts_with_existing
ConflictsWithExisting(replay, args) ==
    \/ replay.source # args.source
    \/ replay.baseline # args.baseline
    \/ replay.candidate # args.candidate

AnswerExisting(c, replay, args) ==
    Answer(c, IF ConflictsWithExisting(replay, args) THEN "conflict" ELSE "ok")

\* The call, the lookup of its key and, for a new key, the checks.
CreateReplay(c) ==
    /\ pc[c] = "new"
    /\ \E args \in CreateCalls :
          /\ call' = [call EXCEPT ![c] = args]
          /\ \/ replays[args.key] # NoReplay /\ AnswerExisting(c, replays[args.key], args)
             \/ replays[args.key] = NoReplay /\ ~CanReplay(args) /\ Answer(c, "invalid")
             \/ /\ replays[args.key] = NoReplay /\ CanReplay(args)
                /\ Continue(c, "insert")
    /\ UNCHANGED <<replays, steps, lock>>

\* flush(): the unique key lets one insert through; the loser rolls back.
InsertReplay(c) ==
    /\ pc[c] = "insert"
    /\ Free(call[c].key)
    /\ \/ replays[call[c].key] = NoReplay /\ Take(c) /\ Goto(c, "commit")
       \/ replays[call[c].key] # NoReplay /\ UNCHANGED lock /\ Goto(c, "reread")
    /\ UNCHANGED <<replays, steps, call, session, answer>>

\* After the lost race the winner's replay is read and treated as a retry.
RereadReplay(c) ==
    /\ pc[c] = "reread"
    /\ AnswerExisting(c, replays[call[c].key], call[c])
    /\ UNCHANGED <<replays, steps, lock, call>>

CommitReplay(c) ==
    /\ pc[c] = "commit"
    /\ replays' = [replays EXCEPT ![call[c].key] = NewReplay(call[c])]
    /\ Release(c)
    /\ Answer(c, "ok")
    /\ UNCHANGED <<steps, call>>

-----------------------------------------------------------------------------
(* execute_replay                                                          *)

\* The call, the read of the replay and is_valid_transition.
ExecuteReplay(c) ==
    /\ pc[c] = "new"
    /\ \E k \in Keys :
          /\ call' = [call EXCEPT ![c] = [op |-> "execute", key |-> k]]
          /\ \/ replays[k] = NoReplay /\ Answer(c, "not_found")
             \/ replays[k] # NoReplay /\ replays[k].status # "pending" /\ Answer(c, "invalid")
             \/ /\ replays[k] # NoReplay /\ replays[k].status = "pending"
                /\ Continue(c, "begin")
    /\ UNCHANGED <<replays, steps, lock>>

\* Mutant of BeginRun: the UPDATE is not conditional.
BeginUnconditionally(c) ==
    /\ pc[c] = "begin"
    /\ Free(call[c].key)
    /\ Take(c)
    /\ Goto(c, "step")
    /\ UNCHANGED <<replays, steps, call, session, answer>>

\* transition_status: UPDATE ... SET RUNNING WHERE status = PENDING.
BeginRun(c) ==
    /\ pc[c] = "begin"
    /\ Free(call[c].key)
    /\ \/ replays[call[c].key].status = "pending" /\ Take(c) /\ Continue(c, "step")
       \/ replays[call[c].key].status # "pending" /\ UNCHANGED lock /\ Answer(c, "invalid")
    /\ UNCHANGED <<replays, steps, call>>

\* The plan step the loop is at, if it is not through.
AtStep(c, plan) == pc[c] = "step" /\ Len(session[c]) < Len(plan)

AddStep(c, step, status, output) ==
    session' = [session EXCEPT ![c] = Append(@,
        [seq |-> step.seq, kind |-> step.kind, version |-> step.version,
         status |-> status, output |-> output])]

\* _finalized_step, for everything that is not run again: historical output is
\* kept for reused evidence only.
FinalizeStep(c) ==
    LET plan == replays[call[c].key].plan
        step == plan[Len(session[c]) + 1]
    IN  /\ AtStep(c, plan)
        /\ step.kind # "substituted"
        /\ AddStep(c, step, step.kind, IF step.kind = "reused" THEN "historical" ELSE None)
        /\ UNCHANGED <<replays, steps, lock, pc, call, answer>>

\* Mutant of SubstituteStep: after a failure the recorded output is used.
SubstituteOrFallBack(c) ==
    LET plan == replays[call[c].key].plan
        step == plan[Len(session[c]) + 1]
    IN  /\ AtStep(c, plan)
        /\ step.kind = "substituted"
        /\ \/ AddStep(c, step, "executed", "candidate")
           \/ AddStep(c, step, "executed", "historical")
        /\ UNCHANGED <<replays, steps, lock, pc, call, answer>>

\* The executor runs the candidate, which succeeds or fails; a failure ends the
\* loop.
SubstituteStep(c) ==
    LET plan == replays[call[c].key].plan
        step == plan[Len(session[c]) + 1]
    IN  /\ AtStep(c, plan)
        /\ step.kind = "substituted"
        /\ \/ AddStep(c, step, "executed", "candidate") /\ UNCHANGED pc
           \/ AddStep(c, step, "failed", None) /\ Goto(c, "failed")
        /\ UNCHANGED <<replays, steps, lock, call, answer>>

\* No executor supports the event type, or the executor raises: no step is
\* added for it.
ExecutorUnavailable(c) ==
    LET plan == replays[call[c].key].plan
    IN  /\ AtStep(c, plan)
        /\ plan[Len(session[c]) + 1].kind = "substituted"
        /\ Goto(c, "raise")
        /\ UNCHANGED <<replays, steps, lock, call, session, answer>>

\* The status and the steps of the session become visible together.
CommitRun(c, status) ==
    /\ replays' = [replays EXCEPT ![call[c].key].status = status]
    /\ steps' = [steps EXCEPT ![call[c].key] = @ \o session[c]]
    /\ Release(c)

CompleteRun(c) ==
    /\ pc[c] = "step"
    /\ Len(session[c]) = Len(replays[call[c].key].plan)
    /\ CommitRun(c, "completed")
    /\ Answer(c, "ok")
    /\ UNCHANGED call

FailRun(c) ==
    /\ pc[c] = "failed"
    /\ CommitRun(c, "failed")
    /\ Answer(c, "ok")
    /\ UNCHANGED call

\* Mutants of AbandonRun: the steps added before the failure are lost with the
\* session; the failed request keeps its transaction open.
AbandonWithoutSteps(c) ==
    /\ pc[c] = "raise"
    /\ replays' = [replays EXCEPT ![call[c].key].status = "failed"]
    /\ Release(c)
    /\ Answer(c, "failed")
    /\ UNCHANGED <<steps, call>>

AbandonUncommitted(c) ==
    /\ pc[c] = "raise"
    /\ Answer(c, "failed")
    /\ UNCHANGED <<replays, steps, lock, call>>

\* commit(), and then the exception: the request fails, the evidence stays.
AbandonRun(c) ==
    /\ pc[c] = "raise"
    /\ CommitRun(c, "failed")
    /\ Answer(c, "failed")
    /\ UNCHANGED call

-----------------------------------------------------------------------------
\* The request dies before it commits: the database rolls back, to PENDING.
Abort(c) ==
    /\ pc[c] \notin {"new", "done"}
    /\ Release(c)
    /\ Answer(c, "lost")
    /\ UNCHANGED <<replays, steps, call>>

Call(c) == CreateReplay(c) \/ ExecuteReplay(c)

Step(c) ==
    \/ InsertReplay(c) \/ RereadReplay(c) \/ CommitReplay(c)
    \/ BeginRun(c) \/ FinalizeStep(c) \/ SubstituteStep(c) \/ ExecutorUnavailable(c)
    \/ CompleteRun(c) \/ FailRun(c) \/ AbandonRun(c)

Next == \E c \in Requests : Call(c) \/ Step(c) \/ Abort(c)

Spec == Init /\ [][Next]_vars

\* A request that has begun goes on; none has to arrive, none has to die.
Fairness == \A c \in Requests : WF_vars(Step(c))

FairSpec == Spec /\ Fairness

-----------------------------------------------------------------------------
(* Properties                                                              *)

\* ADR-034: status and evidence stay consistent, also when the request ends in
\* an error.  A PENDING replay has no steps, a COMPLETED one a step for every
\* step of its plan and no failure, and a FAILED one stops at the substituted
\* step that failed or could not be run; what precedes it is there.
EvidenceMatchesStatus ==
    \A k \in Keys : replays[k] # NoReplay =>
        LET plan == replays[k].plan
            done == Len(steps[k])
        IN  /\ \A i \in 1 .. done :
                  /\ steps[k][i].seq = plan[i].seq
                  /\ steps[k][i].kind = plan[i].kind
                  /\ steps[k][i].status = "failed" => i = done /\ replays[k].status = "failed"
            /\ replays[k].status = "pending" => done = 0
            /\ replays[k].status = "completed" => done = Len(plan)
            /\ replays[k].status = "failed" =>
                  \/ done > 0 /\ steps[k][done].status = "failed"
                  \/ done < Len(plan) /\ plan[done + 1].kind = "substituted"

\* Event i is a response that names the id of a call run again before it.
Superseded(events, i, baseline) ==
    /\ events[i].type = "response"
    /\ \E j \in 1 .. (i - 1) : /\ Substituted(events[j], baseline)
                               /\ events[j].invocation # None
                               /\ events[j].invocation = events[i].invocation

\* "Never fall back to historical output after a required candidate execution
\* fails": a call that was run again has the candidate's version and never the
\* recorded output.  Of the other events the recorded output is evidence exactly
\* if the event is not the provider's and not a response that names the id of a
\* call run again before it, in whatever order calls and responses come and
\* wherever the execution ends.  Exactly: the recorded response of a call that
\* was run again is kept as evidence if call and response name no id.  For MCP
\* and API the head of replay/planner.py has such a response superseded too, as
\* "simply the next response in sequence", but build_replay_plan pairs by id
\* alone.
HistoryKeptExactly ==
    \A k \in Keys : \A i \in DOMAIN steps[k] :
        LET events == replays[k].source.events
            again  == Substituted(events[i], replays[k].baseline)
        IN  /\ again => steps[k][i].version = replays[k].candidate
            /\ steps[k][i].output = "historical" <=>
                  /\ ~again
                  /\ events[i].type # "provider"
                  /\ ~Superseded(events, i, replays[k].baseline)

\* What a request was answered stays true.  "two concurrent execute_replay calls
\* for the same replay can never both observe PENDING and both proceed": one
\* execution is answered, and then the replay is in the state it was answered
\* with.  A request to create a replay that is answered with success, also
\* after a lost race, names a replay of the trajectory and the versions it
\* asked for.
AnswersHold ==
    /\ \A k \in Keys :
        LET Executed == {c \in Requests : /\ answer[c] \in {"ok", "failed"}
                                          /\ call[c].op = "execute" /\ call[c].key = k}
        IN  \A c, d \in Executed :
                /\ c = d
                /\ replays[k].status # "pending"
                /\ answer[c] = "failed" => replays[k].status = "failed"
    /\ \A c \in Requests :
        answer[c] = "ok" /\ call[c].op = "create" =>
            /\ replays[call[c].key] # NoReplay
            /\ ~ConflictsWithExisting(replays[call[c].key], call[c])

\* Every request that has begun is answered: an executor that raises does not
\* leave the row of the replay taken.
EveryRequestAnswered == \A c \in Requests : pc[c] # "new" ~> pc[c] = "done"

=============================================================================
