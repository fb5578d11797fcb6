---------------------------- MODULE ReplayProofs ----------------------------
(***************************************************************************)
(* What Replay does for any number of requests, keys, trajectories and     *)
(* versions, and for trajectories of any length.                           *)
(***************************************************************************)
EXTENDS Replay, TLAPS

-----------------------------------------------------------------------------
(* The inductive invariant                                                 *)

Labels == {"new", "insert", "reread", "commit", "begin", "step", "failed", "raise", "done"}

Answers == {None, "ok", "conflict", "invalid", "not_found", "failed", "lost"}

\* A step as it is stored: what the plan says of it, and what came of it.
DoneSteps ==
    [seq: Nat, kind: Kinds, version: Versions \cup OtherVersions \cup {None},
     status: Kinds \cup {"executed", "failed"}, output: {None, "historical", "candidate"}]

ExecuteCalls == [op: {"execute"}, key: Keys]

TypeOK ==
    /\ replays \in [Keys -> Replays \cup {NoReplay}]
    /\ steps \in [Keys -> Seq(DoneSteps)]
    /\ lock \in [Keys -> Requests \cup {Nobody}]
    /\ pc \in [Requests -> Labels]
    /\ call \in [Requests -> CreateCalls \cup ExecuteCalls \cup {None}]
    /\ session \in [Requests -> Seq(DoneSteps)]
    /\ answer \in [Requests -> Answers]

\* The plan of a replay is the one build_replay_plan made of its trajectory.
PlanOf(replay) == build_replay_plan(replay.source.events, replay.baseline, replay.candidate)

PlanIsBuilt == \A k \in Keys : replays[k] # NoReplay => replays[k].plan = PlanOf(replays[k])

\* The steps that are done are those of the plan, from the first on.
StepOfPlan(done, planned) ==
    /\ done.seq = planned.seq /\ done.kind = planned.kind /\ done.version = planned.version
    /\ done.output = "historical" <=> done.kind = "reused"

FollowsPlan(done, plan) ==
    /\ Len(done) <= Len(plan)
    /\ \A i \in 1 .. Len(done) : StepOfPlan(done[i], plan[i])

\* The loop went on from step to step; or a step failed and ended it; or the
\* executor raised at a step that is not among those done.
NoneFailed(done) == \A i \in 1 .. Len(done) : done[i].status # "failed"

StoppedByFailure(done) ==
    /\ Len(done) > 0
    /\ done[Len(done)].status = "failed"
    /\ \A i \in 1 .. (Len(done) - 1) : done[i].status # "failed"

StoppedByExecutor(done, plan) ==
    /\ Len(done) < Len(plan)
    /\ plan[Len(done) + 1].kind = "substituted"
    /\ NoneFailed(done)

\* What is stored of a replay.
Evidence(replay, done) ==
    /\ FollowsPlan(done, replay.plan)
    /\ replay.status = "pending" => done = <<>>
    /\ replay.status = "completed" => Len(done) = Len(replay.plan) /\ NoneFailed(done)
    /\ replay.status = "failed" =>
          StoppedByFailure(done) \/ StoppedByExecutor(done, replay.plan)

EvidenceStored ==
    \A k \in Keys :
        /\ replays[k] = NoReplay => steps[k] = <<>>
        /\ replays[k] # NoReplay => Evidence(replays[k], steps[k])

\* Where a request that creates a replay is says what it has found.
CreateAt(c) ==
    /\ pc[c] \in {"insert", "reread", "commit"} => call[c] \in CreateCalls
    /\ pc[c] \in {"insert", "commit"} => CanReplay(call[c])
    /\ pc[c] = "reread" => replays[call[c].key] # NoReplay
    /\ pc[c] = "commit" => lock[call[c].key] = c /\ replays[call[c].key] = NoReplay

\* A request that executes a replay holds a row that stays PENDING until it
\* commits, and its session follows the plan.
Running == {"step", "failed", "raise"}

ExecuteAt(c) ==
    /\ pc[c] \in Running \cup {"begin"} =>
          call[c] \in ExecuteCalls /\ replays[call[c].key] # NoReplay
    /\ pc[c] \in Running =>
          /\ lock[call[c].key] = c
          /\ replays[call[c].key].status = "pending"
          /\ FollowsPlan(session[c], replays[call[c].key].plan)
    /\ pc[c] = "step" => NoneFailed(session[c])
    /\ pc[c] = "failed" => StoppedByFailure(session[c])
    /\ pc[c] = "raise" => StoppedByExecutor(session[c], replays[call[c].key].plan)
    /\ pc[c] \notin Running => session[c] = <<>>

\* Only a request that is done has an answer.
AnsweredAt(c) ==
    /\ pc[c] # "done" => answer[c] = None
    /\ pc[c] = "done" => call[c] \in CreateCalls \cup ExecuteCalls

RequestsInv == \A c \in Requests : CreateAt(c) /\ ExecuteAt(c) /\ AnsweredAt(c)

\* AnswersHold, request by request.
Executed(c) == answer[c] \in {"ok", "failed"} /\ call[c] \in ExecuteCalls

ExecutionHolds(c) ==
    LET replay == replays[call[c].key]
    IN  /\ replay # NoReplay
        /\ replay.status # "pending"
        /\ answer[c] = "failed" => replay.status = "failed"

CreationHolds(c) ==
    answer[c] = "ok" /\ call[c] \in CreateCalls =>
        /\ replays[call[c].key] # NoReplay
        /\ ~ConflictsWithExisting(replays[call[c].key], call[c])

AnswersInv ==
    /\ \A c \in Requests : (Executed(c) => ExecutionHolds(c)) /\ CreationHolds(c)
    /\ \A c, d \in Requests :
          Executed(c) /\ Executed(d) /\ call[c].key = call[d].key => c = d

ReplayInv ==
    TypeOK /\ PlanIsBuilt /\ EvidenceStored /\ RequestsInv /\ AnswersInv

-----------------------------------------------------------------------------
(* What build_replay_plan makes of a trajectory                            *)

\* A plan has a step for every event.
LEMMA PlanTyped ==
    ASSUME NEW t \in Trajectories, NEW baseline \in Versions, NEW candidate \in Versions
    PROVE  /\ build_replay_plan(t.events, baseline, candidate) \in Seq(PlanSteps)
           /\ Len(build_replay_plan(t.events, baseline, candidate)) = Len(t.events)
           /\ \A i \in 1 .. Len(t.events) :
                 build_replay_plan(t.events, baseline, candidate)[i]
                     = PlanStep(t.events, i, baseline, candidate)
<1> DEFINE events == t.events
           plan == build_replay_plan(events, baseline, candidate)
<1>1. /\ Len(events) \in Nat /\ DOMAIN events = 1 .. Len(events)
      /\ \A i \in 1 .. Len(events) :
            events[i].version \in Versions \cup OtherVersions \cup {None}
  <2>1. events \in Seq(RecordedEvents)
    BY ReplayConstants
  <2>2. \A e \in RecordedEvents : e.version \in Versions \cup OtherVersions \cup {None}
    BY DEF RecordedEvents
  <2> HIDE DEF events
  <2> QED
    BY <2>1, <2>2
<1>2. \A i \in 1 .. Len(events) : StepKind(events, i, baseline) \in Kinds
  BY DEF StepKind, Kinds
<1>3. \A i \in 1 .. Len(events) : PlanStep(events, i, baseline, candidate) \in PlanSteps
  BY <1>1, <1>2 DEF PlanStep, PlanSteps, Kinds
<1>4. plan = [i \in 1 .. Len(events) |-> PlanStep(events, i, baseline, candidate)]
  BY <1>1 DEF build_replay_plan
<1> QED
  BY <1>1, <1>3, <1>4

\* An invocation of the baseline is run again, with the candidate.
LEMMA PlanOfSubstituted ==
    ASSUME NEW t \in Trajectories, NEW baseline \in Versions, NEW candidate \in Versions,
           NEW i \in 1 .. Len(t.events), Substituted(t.events[i], baseline)
    PROVE  LET step == PlanStep(t.events, i, baseline, candidate)
           IN  step.kind = "substituted" /\ step.version = candidate
<1>1. StepKind(t.events, i, baseline) = "substituted"
  BY DEF StepKind, Substituted
<1> QED
  BY <1>1 DEF PlanStep

\* What was recorded is kept exactly of the events that are not run again, not
\* the provider's and not superseded by id.
LEMMA PlanKeeps ==
    ASSUME NEW t \in Trajectories, NEW baseline \in Versions, NEW candidate \in Versions,
           NEW i \in 1 .. Len(t.events)
    PROVE  PlanStep(t.events, i, baseline, candidate).kind = "reused" <=>
               /\ ~Substituted(t.events[i], baseline)
               /\ t.events[i].type # "provider"
               /\ ~Superseded(t.events, i, baseline)
<1> DEFINE event == t.events[i]
           named == event.invocation \in SubstitutedInvocations(t.events, i, baseline)
<1>1. Superseded(t.events, i, baseline) <=> event.type = "response" /\ named
  BY DEF Superseded, SubstitutedInvocations
<1>2. CASE Substituted(event, baseline)
  BY <1>2 DEF StepKind, PlanStep
<1>3. CASE ~Substituted(event, baseline) /\ event.type = "response" /\ named
  BY <1>1, <1>3 DEF StepKind, PlanStep
<1>4. CASE ~Substituted(event, baseline) /\ ~(event.type = "response" /\ named)
  BY <1>1, <1>4 DEF StepKind, PlanStep
<1> QED
  BY <1>2, <1>3, <1>4

\* A replay that is created is PENDING and has its plan.
LEMMA NewReplayTyped ==
    ASSUME NEW args \in CreateCalls, CanReplay(args)
    PROVE  /\ NewReplay(args) \in Replays
           /\ NewReplay(args) # NoReplay
           /\ NewReplay(args).plan = PlanOf(NewReplay(args))
           /\ NewReplay(args).status = "pending"
           /\ ~ConflictsWithExisting(NewReplay(args), args)
<1>1. /\ args.source \in Trajectories /\ args.baseline \in Versions
      /\ args.candidate \in Versions
  BY DEF CreateCalls, CanReplay
<1>2. build_replay_plan(args.source.events, args.baseline, args.candidate) \in Seq(PlanSteps)
  BY <1>1, PlanTyped
<1>3. NewReplay(args) \in Replays
  BY <1>1, <1>2 DEF NewReplay, Replays
<1>4. NewReplay(args) # NoReplay
  BY <1>3, NoReplayAssumption
<1>5. NewReplay(args).plan = PlanOf(NewReplay(args)) /\ NewReplay(args).status = "pending"
  BY DEF NewReplay, PlanOf
<1>6. ~ConflictsWithExisting(NewReplay(args), args)
  BY DEF NewReplay, ConflictsWithExisting
<1> QED
  BY <1>3, <1>4, <1>5, <1>6

\* A replay without steps has the evidence of a PENDING one.
LEMMA PendingEvidence ==
    ASSUME NEW replay \in Replays, replay.status = "pending"
    PROVE  Evidence(replay, <<>>)
  BY DEF Evidence, FollowsPlan, Replays

-----------------------------------------------------------------------------
(* Facts the steps share                                                   *)

\* The step of one request: it leaves alone the others, and every row that one
\* of them holds, and no row goes away.
StepOf(c) ==
    /\ \A d \in Requests \ {c} :
          /\ pc'[d] = pc[d] /\ call'[d] = call[d]
          /\ session'[d] = session[d] /\ answer'[d] = answer[d]
    /\ \A k \in Keys : lock[k] \in Requests \ {c} => lock'[k] = lock[k] /\ replays'[k] = replays[k]
    /\ \A k \in Keys : replays[k] # NoReplay => replays'[k] # NoReplay

\* What the others know stays true.
LEMMA OthersKnow ==
    ASSUME ReplayInv, NEW c \in Requests, StepOf(c), NEW d \in Requests, d # c
    PROVE  CreateAt(d)' /\ ExecuteAt(d)' /\ AnsweredAt(d)'
<1>1. pc'[d] = pc[d] /\ call'[d] = call[d] /\ session'[d] = session[d] /\ answer'[d] = answer[d]
  BY DEF StepOf
<1>2. CreateAt(d) /\ ExecuteAt(d) /\ AnsweredAt(d)
  BY DEF ReplayInv, RequestsInv
<1>3. \A k \in Keys : lock[k] = d => lock'[k] = d /\ replays'[k] = replays[k]
  BY DEF StepOf
<1>4. \A k \in Keys : replays[k] # NoReplay => replays'[k] # NoReplay
  BY DEF StepOf
<1>5. CreateAt(d)'
  BY <1>1, <1>2, <1>3, <1>4 DEF CreateAt, CreateCalls
<1>6. ExecuteAt(d)'
  <2>1. pc[d] \in Running \cup {"begin"} => call[d].key \in Keys /\ replays'[call[d].key] # NoReplay
    BY <1>2, <1>4 DEF ExecuteAt, ExecuteCalls
  <2>2. pc[d] \in Running => /\ lock'[call[d].key] = d
                             /\ replays'[call[d].key] = replays[call[d].key]
    BY <1>2, <1>3, <2>1 DEF ExecuteAt
  <2> QED
    BY <1>1, <1>2, <2>1, <2>2 DEF ExecuteAt, Running
<1>7. AnsweredAt(d)'
  BY <1>1, <1>2 DEF AnsweredAt
<1> QED
  BY <1>5, <1>6, <1>7

\* A replay is what it was, except that a PENDING one may have ended.
SameReplay(old, new) ==
    /\ new # NoReplay
    /\ new.source = old.source /\ new.baseline = old.baseline /\ new.candidate = old.candidate
    /\ old.status # "pending" => new.status = old.status

\* What was answered stays true when replays only end, and the request that
\* takes the step is not told of an execution.
LEMMA AnswersKept ==
    ASSUME ReplayInv, NEW c \in Requests, StepOf(c), pc[c] # "done",
           \A k \in Keys : replays[k] # NoReplay => SameReplay(replays[k], replays'[k]),
           ~Executed(c)', CreationHolds(c)'
    PROVE  AnswersInv'
<1>1. \A d \in Requests \ {c} : call'[d] = call[d] /\ answer'[d] = answer[d]
  BY DEF StepOf
<1>2. \A d \in Requests : Executed(d)' => d # c /\ Executed(d)
  BY <1>1 DEF Executed
<1>3. ASSUME NEW d \in Requests, Executed(d)'
      PROVE  ExecutionHolds(d)'
  <2>1. d # c /\ call[d].key \in Keys /\ ExecutionHolds(d)
    BY <1>2, <1>3 DEF ReplayInv, AnswersInv, Executed, ExecuteCalls
  <2> QED
    BY <1>1, <2>1 DEF ExecutionHolds, SameReplay
<1>4. ASSUME NEW d \in Requests, d # c
      PROVE  CreationHolds(d)'
  <2>1. CreationHolds(d)
    BY DEF ReplayInv, AnswersInv
  <2>2. call[d] \in CreateCalls => call[d].key \in Keys
    BY DEF CreateCalls
  <2> QED
    BY <1>1, <1>4, <2>1, <2>2 DEF CreationHolds, SameReplay, ConflictsWithExisting
<1>5. \A d, e \in Requests : Executed(d)' /\ Executed(e)' /\ call'[d].key = call'[e].key => d = e
  BY <1>1, <1>2 DEF ReplayInv, AnswersInv
<1> QED
  BY <1>3, <1>4, <1>5 DEF AnswersInv

\* A step that writes neither replays nor steps.
LEMMA NothingWritten ==
    ASSUME ReplayInv, NEW c \in Requests, StepOf(c), pc[c] # "done",
           UNCHANGED <<replays, steps>>, TypeOK',
           CreateAt(c)', ExecuteAt(c)', AnsweredAt(c)', ~Executed(c)', CreationHolds(c)'
    PROVE  ReplayInv'
<1>1. PlanIsBuilt' /\ EvidenceStored'
  BY DEF ReplayInv, PlanIsBuilt, EvidenceStored
<1>2. RequestsInv'
  BY OthersKnow DEF RequestsInv
<1>3. \A k \in Keys : replays[k] # NoReplay => SameReplay(replays[k], replays'[k])
  BY DEF SameReplay
<1>4. AnswersInv'
  BY <1>3, AnswersKept
<1> QED
  BY <1>1, <1>2, <1>4 DEF ReplayInv

\* A call is one of the two kinds, never both.
LEMMA CallsApart ==
    /\ \A args \in CreateCalls : args \notin ExecuteCalls /\ args.key \in Keys
    /\ \A args \in ExecuteCalls : args \notin CreateCalls /\ args.key \in Keys
  BY DEF CreateCalls, ExecuteCalls

\* An answer ends a request and closes its session.
LEMMA AnswerEnds ==
    ASSUME TypeOK, NEW c \in Requests, NEW a \in Answers, Answer(c, a)
    PROVE  /\ pc' \in [Requests -> Labels] /\ session' \in [Requests -> Seq(DoneSteps)]
           /\ answer' \in [Requests -> Answers]
           /\ pc'[c] = "done" /\ answer'[c] = a /\ session'[c] = <<>>
           /\ \A d \in Requests \ {c} :
                 pc'[d] = pc[d] /\ answer'[d] = answer[d] /\ session'[d] = session[d]
<1>1. pc' \in [Requests -> Labels] /\ answer' \in [Requests -> Answers]
  BY DEF TypeOK, Labels, Answer, Goto
<1>2. session' \in [Requests -> Seq(DoneSteps)]
  <2>1. <<>> \in Seq(DoneSteps)
    OBVIOUS
  <2> QED
    BY <2>1 DEF TypeOK, Answer
<1> QED
  BY <1>1, <1>2 DEF TypeOK, Answer, Goto

\* A request that goes on keeps its session and has no answer yet.
LEMMA ContinueGoesOn ==
    ASSUME TypeOK, NEW c \in Requests, NEW l \in Labels, Continue(c, l)
    PROVE  /\ pc' \in [Requests -> Labels] /\ session' \in [Requests -> Seq(DoneSteps)]
           /\ answer' \in [Requests -> Answers]
           /\ pc'[c] = l /\ answer' = answer /\ session' = session
           /\ \A d \in Requests \ {c} : pc'[d] = pc[d]
  BY DEF TypeOK, Continue, Goto

\* A request that is answered without having written anything; what it held it
\* lets go.
LEMMA AnsweredOnly ==
    ASSUME ReplayInv, NEW c \in Requests, pc[c] # "done", NEW a \in Answers, Answer(c, a),
           UNCHANGED <<replays, steps>>, UNCHANGED lock \/ Release(c),
           NEW args \in CreateCalls \cup ExecuteCalls,
           call' = [call EXCEPT ![c] = args] \/ (UNCHANGED call /\ call[c] = args),
           a \in {"ok", "failed"} =>
               /\ a = "ok" /\ args \in CreateCalls
               /\ replays[args.key] # NoReplay
               /\ ~ConflictsWithExisting(replays[args.key], args)
    PROVE  ReplayInv'
<1>1. /\ call' \in [Requests -> CreateCalls \cup ExecuteCalls \cup {None}]
      /\ call'[c] = args
      /\ \A d \in Requests \ {c} : call'[d] = call[d]
  BY DEF ReplayInv, TypeOK
<1>2. /\ lock' \in [Keys -> Requests \cup {Nobody}]
      /\ \A k \in Keys : lock[k] \in Requests \ {c} => lock'[k] = lock[k]
  BY DEF ReplayInv, TypeOK, Release
<1>3. TypeOK'
  BY <1>1, <1>2, AnswerEnds DEF ReplayInv, TypeOK
<1>4. StepOf(c)
  BY <1>1, <1>2, AnswerEnds DEF ReplayInv, StepOf
<1>5. pc'[c] = "done" /\ answer'[c] = a /\ session'[c] = <<>>
  BY AnswerEnds DEF ReplayInv
<1>6. CreateAt(c)' /\ ExecuteAt(c)' /\ AnsweredAt(c)'
  BY <1>1, <1>5 DEF CreateAt, ExecuteAt, AnsweredAt, Running
<1>7. ~Executed(c)' /\ CreationHolds(c)'
  BY <1>1, <1>5, CallsApart DEF Executed, CreationHolds
<1> QED
  BY <1>3, <1>4, <1>6, <1>7, NothingWritten

-----------------------------------------------------------------------------
(* create_replay                                                           *)

\* A call to create a replay answers from the row on record or goes on.
LEMMA CreateReplayInv ==
    ASSUME ReplayInv, NEW c \in Requests, CreateReplay(c)
    PROVE  ReplayInv'
<1> PICK args \in CreateCalls :
       /\ call' = [call EXCEPT ![c] = args]
       /\ \/ replays[args.key] # NoReplay /\ AnswerExisting(c, replays[args.key], args)
          \/ replays[args.key] = NoReplay /\ ~CanReplay(args) /\ Answer(c, "invalid")
          \/ /\ replays[args.key] = NoReplay /\ CanReplay(args)
             /\ Continue(c, "insert")
  BY DEF CreateReplay
<1>1. /\ pc[c] = "new" /\ session[c] = <<>> /\ answer[c] = None
      /\ UNCHANGED <<replays, steps, lock>>
  BY DEF CreateReplay, ReplayInv, RequestsInv, ExecuteAt, AnsweredAt, Running
<1>2. \/ \E a \in Answers : /\ Answer(c, a) /\ a # "failed"
                            /\ a = "ok" => /\ replays[args.key] # NoReplay
                                           /\ ~ConflictsWithExisting(replays[args.key], args)
      \/ Continue(c, "insert") /\ CanReplay(args)
  BY DEF AnswerExisting, Answers
<1>3. call' \in [Requests -> CreateCalls \cup ExecuteCalls \cup {None}] /\ call'[c] = args
      /\ \A d \in Requests \ {c} : call'[d] = call[d]
  BY DEF ReplayInv, TypeOK
<1>4. CASE Continue(c, "insert") /\ CanReplay(args)
  <2>1. pc' \in [Requests -> Labels] /\ pc'[c] = "insert" /\ answer' = answer
        /\ session' = session /\ \A d \in Requests \ {c} : pc'[d] = pc[d]
    BY <1>4, ContinueGoesOn DEF ReplayInv, Labels
  <2>2. TypeOK' /\ StepOf(c)
    BY <1>1, <1>3, <2>1 DEF ReplayInv, TypeOK, StepOf
  <2>3. CreateAt(c)' /\ ExecuteAt(c)' /\ AnsweredAt(c)' /\ ~Executed(c)' /\ CreationHolds(c)'
    BY <1>1, <1>3, <1>4, <2>1, ReplayConstants
       DEF CreateAt, ExecuteAt, AnsweredAt, Running, Executed, CreationHolds
  <2> QED
    BY <1>1, <2>2, <2>3, NothingWritten
<1>5. ASSUME NEW a \in Answers, Answer(c, a),
             a = "ok" => /\ replays[args.key] # NoReplay
                         /\ ~ConflictsWithExisting(replays[args.key], args),
             a # "failed"
      PROVE  ReplayInv'
  BY <1>1, <1>5, AnsweredOnly
<1> QED
  BY <1>2, <1>4, <1>5

\* The insert takes a key that is free and has no replay; whoever comes late
\* goes on to read the replay that is there.
LEMMA InsertReplayInv ==
    ASSUME ReplayInv, NEW c \in Requests, InsertReplay(c)
    PROVE  ReplayInv'
<1>1. /\ pc[c] = "insert" /\ session[c] = <<>> /\ answer[c] = None
      /\ call[c] \in CreateCalls /\ call[c].key \in Keys /\ CanReplay(call[c])
  BY CallsApart
     DEF InsertReplay, ReplayInv, RequestsInv, CreateAt, ExecuteAt, AnsweredAt, Running
<1>2. /\ pc' \in [Requests -> Labels] /\ pc'[c] \in {"commit", "reread"}
      /\ \A d \in Requests \ {c} : pc'[d] = pc[d]
      /\ UNCHANGED <<replays, steps, call, session, answer>>
  BY DEF InsertReplay, ReplayInv, TypeOK, Labels, Goto
<1>3. /\ lock' \in [Keys -> Requests \cup {Nobody}]
      /\ \A k \in Keys : lock[k] \in Requests => lock'[k] = lock[k]
      /\ pc'[c] = "commit" => lock'[call[c].key] = c /\ replays[call[c].key] = NoReplay
      /\ pc'[c] = "reread" => replays[call[c].key] # NoReplay
  BY <1>1, ReplayConstants, ZenonT(30) DEF InsertReplay, ReplayInv, TypeOK, Take, Free, Goto
<1>4. TypeOK' /\ StepOf(c)
  BY <1>2, <1>3 DEF ReplayInv, TypeOK, StepOf
<1>5. CreateAt(c)' /\ ExecuteAt(c)' /\ AnsweredAt(c)'
  BY <1>1, <1>2, <1>3 DEF CreateAt, ExecuteAt, AnsweredAt, Running
<1>6. ~Executed(c)' /\ CreationHolds(c)'
  BY <1>1, <1>2, ReplayConstants DEF Executed, CreationHolds
<1> QED
  BY <1>1, <1>2, <1>4, <1>5, <1>6, NothingWritten

\* After a lost race the answer is that of a retry.
LEMMA RereadReplayInv ==
    ASSUME ReplayInv, NEW c \in Requests, RereadReplay(c)
    PROVE  ReplayInv'
<1>1. pc[c] = "reread" /\ call[c] \in CreateCalls /\ replays[call[c].key] # NoReplay
  BY DEF RereadReplay, ReplayInv, RequestsInv, CreateAt
<1>2. PICK a \in {"ok", "conflict"} :
         Answer(c, a) /\ (a = "ok" => ~ConflictsWithExisting(replays[call[c].key], call[c]))
  BY DEF RereadReplay, AnswerExisting
<1>3. a \in Answers /\ UNCHANGED <<replays, steps, lock, call>>
  BY DEF Answers, RereadReplay
<1> QED
  BY <1>1, <1>2, <1>3, AnsweredOnly

\* The committed replay is new, PENDING and without steps.
LEMMA CommitReplayInv ==
    ASSUME ReplayInv, NEW c \in Requests, CommitReplay(c)
    PROVE  ReplayInv'
<1> DEFINE key == call[c].key
           new == NewReplay(call[c])
<1>1. /\ pc[c] = "commit" /\ call[c] \in CreateCalls /\ CanReplay(call[c])
      /\ key \in Keys /\ lock[key] = c /\ replays[key] = NoReplay
  BY CallsApart DEF CommitReplay, ReplayInv, RequestsInv, CreateAt
<1>2. /\ new \in Replays /\ new # NoReplay /\ new.plan = PlanOf(new)
      /\ new.status = "pending" /\ ~ConflictsWithExisting(new, call[c])
  BY <1>1, NewReplayTyped
<1> HIDE DEF new
<1>3. /\ replays' = [replays EXCEPT ![key] = new]
      /\ UNCHANGED <<steps, call>> /\ Release(c) /\ Answer(c, "ok")
  BY DEF CommitReplay, new
<1>4. /\ replays' \in [Keys -> Replays \cup {NoReplay}]
      /\ replays'[key] = new
      /\ \A k \in Keys \ {key} : replays'[k] = replays[k]
  BY <1>1, <1>2, <1>3 DEF ReplayInv, TypeOK
<1>5. /\ lock' \in [Keys -> Requests \cup {Nobody}]
      /\ \A k \in Keys : lock[k] \in Requests \ {c} => lock'[k] = lock[k]
  BY <1>3 DEF ReplayInv, TypeOK, Release
<1>6. "ok" \in Answers /\ pc'[c] = "done" /\ answer'[c] = "ok" /\ session'[c] = <<>>
  BY <1>3, AnswerEnds DEF ReplayInv, Answers
<1>7. TypeOK'
  BY <1>3, <1>4, <1>5, <1>6, AnswerEnds DEF ReplayInv, TypeOK
<1>8. StepOf(c)
  BY <1>1, <1>2, <1>3, <1>4, <1>5, <1>6, AnswerEnds DEF ReplayInv, StepOf
<1>9. PlanIsBuilt'
  BY <1>2, <1>4 DEF ReplayInv, PlanIsBuilt
<1>10. EvidenceStored'
  <2>1. Evidence(new, steps[key])
    BY <1>1, <1>2, PendingEvidence DEF ReplayInv, EvidenceStored
  <2> QED
    BY <1>2, <1>3, <1>4, <2>1 DEF ReplayInv, EvidenceStored
<1>11. RequestsInv'
  <2>1. CreateAt(c)' /\ ExecuteAt(c)' /\ AnsweredAt(c)'
    BY <1>1, <1>3, <1>6 DEF CreateAt, ExecuteAt, AnsweredAt, Running
  <2> QED
    BY <1>8, <2>1, OthersKnow DEF RequestsInv
<1>12. AnswersInv'
  <2>1. \A k \in Keys : replays[k] # NoReplay => SameReplay(replays[k], replays'[k])
    BY <1>1, <1>4 DEF SameReplay
  <2>2. ~Executed(c)' /\ CreationHolds(c)'
    BY <1>1, <1>2, <1>3, <1>4, <1>6, CallsApart DEF Executed, CreationHolds
  <2> QED
    BY <1>1, <1>8, <2>1, <2>2, AnswersKept
<1> QED
  BY <1>7, <1>9, <1>10, <1>11, <1>12 DEF ReplayInv

-----------------------------------------------------------------------------
(* execute_replay                                                          *)

\* A step more, of those the plan has.
LEMMA StepAdded ==
    ASSUME NEW done \in Seq(DoneSteps), NEW plan \in Seq(PlanSteps), FollowsPlan(done, plan),
           Len(done) < Len(plan), NoneFailed(done),
           NEW s \in DoneSteps, StepOfPlan(s, plan[Len(done) + 1])
    PROVE  /\ Append(done, s) \in Seq(DoneSteps)
           /\ FollowsPlan(Append(done, s), plan)
           /\ s.status # "failed" => NoneFailed(Append(done, s))
           /\ s.status = "failed" => StoppedByFailure(Append(done, s))
<1> DEFINE more == Append(done, s)
<1>1. /\ more \in Seq(DoneSteps) /\ Len(more) = Len(done) + 1 /\ more[Len(done) + 1] = s
      /\ \A i \in 1 .. Len(done) : more[i] = done[i]
      /\ Len(done) \in Nat /\ Len(plan) \in Nat
  OBVIOUS
<1> HIDE DEF more
<1>2. FollowsPlan(more, plan)
  <2>1. Len(more) <= Len(plan)
    BY <1>1
  <2>2. ASSUME NEW i \in 1 .. Len(more)
        PROVE  StepOfPlan(more[i], plan[i])
    <3>1. CASE i = Len(done) + 1
      BY <1>1, <3>1
    <3>2. CASE i # Len(done) + 1
      <4>1. i \in 1 .. Len(done)
        BY <1>1, <3>2
      <4> QED
        BY <1>1, <4>1 DEF FollowsPlan
    <3> QED
      BY <3>1, <3>2
  <2> QED
    BY <2>1, <2>2 DEF FollowsPlan
<1>3. s.status # "failed" => NoneFailed(more)
  BY <1>1 DEF NoneFailed
<1>4. s.status = "failed" => StoppedByFailure(more)
  BY <1>1 DEF NoneFailed, StoppedByFailure
<1> QED
  BY <1>1, <1>2, <1>3, <1>4 DEF more

\* What a request knows that runs a replay.
LEMMA RunningKnows ==
    ASSUME ReplayInv, NEW c \in Requests, pc[c] \in Running
    PROVE  LET replay == replays[call[c].key]
           IN  /\ call[c] \in ExecuteCalls /\ call[c].key \in Keys
               /\ replay \in Replays /\ replay.plan \in Seq(PlanSteps)
               /\ replay # NoReplay /\ replay.status = "pending"
               /\ lock[call[c].key] = c /\ answer[c] = None
               /\ session[c] \in Seq(DoneSteps) /\ FollowsPlan(session[c], replay.plan)
               /\ steps[call[c].key] = <<>>
<1>1. CreateAt(c) /\ ExecuteAt(c) /\ AnsweredAt(c)
  BY DEF ReplayInv, RequestsInv
<1>2. call[c] \in ExecuteCalls /\ call[c].key \in Keys
  BY <1>1, CallsApart DEF ExecuteAt
<1>3. /\ replays[call[c].key] \in Replays /\ replays[call[c].key] # NoReplay
      /\ replays[call[c].key].status = "pending" /\ lock[call[c].key] = c
      /\ FollowsPlan(session[c], replays[call[c].key].plan)
  BY <1>1, <1>2 DEF ExecuteAt, ReplayInv, TypeOK
<1>4. replays[call[c].key].plan \in Seq(PlanSteps)
  BY <1>3 DEF Replays
<1>5. answer[c] = None /\ session[c] \in Seq(DoneSteps)
  BY <1>1 DEF AnsweredAt, Running, ReplayInv, TypeOK
<1>6. steps[call[c].key] = <<>>
  BY <1>2, <1>3 DEF ReplayInv, EvidenceStored, Evidence
<1> QED
  BY <1>2, <1>3, <1>4, <1>5, <1>6

\* A request that goes on running touches its session and its label only.
LEMMA RunGoesOn ==
    ASSUME ReplayInv, NEW c \in Requests, pc[c] \in Running,
           UNCHANGED <<replays, steps, lock, call, answer>>,
           NEW l \in Running, pc' = [pc EXCEPT ![c] = l],
           NEW done \in Seq(DoneSteps), session' = [session EXCEPT ![c] = done],
           FollowsPlan(done, replays[call[c].key].plan),
           l = "step" => NoneFailed(done),
           l = "failed" => StoppedByFailure(done),
           l = "raise" => StoppedByExecutor(done, replays[call[c].key].plan)
    PROVE  ReplayInv'
<1>1. /\ call[c] \in ExecuteCalls /\ replays[call[c].key] # NoReplay
      /\ replays[call[c].key].status = "pending"
      /\ lock[call[c].key] = c /\ answer[c] = None
  BY RunningKnows
<1>2. /\ pc' \in [Requests -> Labels] /\ pc'[c] = l
      /\ \A d \in Requests \ {c} : pc'[d] = pc[d]
  BY DEF ReplayInv, TypeOK, Running, Labels
<1>3. /\ session' \in [Requests -> Seq(DoneSteps)] /\ session'[c] = done
      /\ \A d \in Requests \ {c} : session'[d] = session[d]
  BY DEF ReplayInv, TypeOK
<1>4. TypeOK' /\ StepOf(c)
  BY <1>2, <1>3 DEF ReplayInv, TypeOK, StepOf
<1>5. CreateAt(c)' /\ AnsweredAt(c)'
  BY <1>1, <1>2 DEF CreateAt, AnsweredAt, Running
<1>6. ExecuteAt(c)'
  BY <1>1, <1>2, <1>3 DEF ExecuteAt, Running
<1>7. ~Executed(c)' /\ CreationHolds(c)'
  BY <1>1, ReplayConstants DEF Executed, CreationHolds
<1> QED
  BY <1>4, <1>5, <1>6, <1>7, NothingWritten DEF Running

\* The status and the steps of the session become visible together, and the
\* request is the only one ever told that it executed the replay.
LEMMA RunCommitted ==
    ASSUME ReplayInv, NEW c \in Requests, pc[c] \in Running,
           NEW status \in {"completed", "failed"}, CommitRun(c, status),
           NEW a \in {"ok", "failed"}, Answer(c, a), a = "failed" => status = "failed",
           UNCHANGED call,
           status = "completed" =>
               Len(session[c]) = Len(replays[call[c].key].plan) /\ NoneFailed(session[c]),
           status = "failed" =>
               \/ StoppedByFailure(session[c])
               \/ StoppedByExecutor(session[c], replays[call[c].key].plan)
    PROVE  ReplayInv'
<1> DEFINE key == call[c].key
           old == replays[key]
           new == [old EXCEPT !.status = status]
<1>1. /\ call[c] \in ExecuteCalls /\ key \in Keys /\ old \in Replays /\ old # NoReplay
      /\ old.status = "pending" /\ lock[key] = c
      /\ session[c] \in Seq(DoneSteps) /\ FollowsPlan(session[c], old.plan)
      /\ steps[key] = <<>>
  BY RunningKnows
<1>2. /\ new \in Replays /\ new.status = status /\ new.plan = old.plan
      /\ new.source = old.source /\ new.baseline = old.baseline
      /\ new.candidate = old.candidate
  BY <1>1 DEF Replays
<1>3. new # NoReplay
  BY <1>2, NoReplayAssumption
<1>4. replays' = [replays EXCEPT ![key] = new]
  BY DEF CommitRun
<1> HIDE DEF new
<1>5. /\ replays' \in [Keys -> Replays \cup {NoReplay}] /\ replays'[key] = new
      /\ \A k \in Keys \ {key} : replays'[k] = replays[k]
  BY <1>1, <1>2, <1>4 DEF ReplayInv, TypeOK
<1>6. /\ steps' \in [Keys -> Seq(DoneSteps)] /\ steps'[key] = session[c]
      /\ \A k \in Keys \ {key} : steps'[k] = steps[k]
  <2>1. steps[key] \o session[c] = session[c]
    BY <1>1
  <2>2. steps' = [steps EXCEPT ![key] = session[c]]
    BY <2>1 DEF CommitRun
  <2> QED
    BY <1>1, <2>2 DEF ReplayInv, TypeOK
<1>7. /\ lock' \in [Keys -> Requests \cup {Nobody}]
      /\ \A k \in Keys : lock[k] \in Requests \ {c} => lock'[k] = lock[k]
  BY DEF ReplayInv, TypeOK, CommitRun, Release
<1>8. a \in Answers /\ pc'[c] = "done" /\ answer'[c] = a /\ session'[c] = <<>>
  BY AnswerEnds DEF ReplayInv, Answers
<1>9. TypeOK'
  BY <1>5, <1>6, <1>7, <1>8, AnswerEnds DEF ReplayInv, TypeOK
<1>10. StepOf(c)
  BY <1>1, <1>3, <1>5, <1>7, <1>8, AnswerEnds DEF ReplayInv, StepOf
<1>11. PlanIsBuilt'
  <2>1. new.plan = PlanOf(new)
    BY <1>1, <1>2 DEF ReplayInv, PlanIsBuilt, PlanOf
  <2> QED
    BY <1>5, <2>1 DEF ReplayInv, PlanIsBuilt
<1>12. EvidenceStored'
  <2>1. Evidence(new, session[c])
    BY <1>1, <1>2 DEF Evidence
  <2> QED
    BY <1>3, <1>5, <1>6, <2>1 DEF ReplayInv, EvidenceStored
<1>13. RequestsInv'
  <2>1. CreateAt(c)' /\ ExecuteAt(c)' /\ AnsweredAt(c)'
    BY <1>1, <1>8 DEF CreateAt, ExecuteAt, AnsweredAt, Running
  <2> QED
    BY <1>10, <2>1, OthersKnow DEF RequestsInv
<1>14. AnswersInv'
  <2>1. \A d \in Requests \ {c} : call'[d] = call[d] /\ answer'[d] = answer[d]
    BY <1>10 DEF StepOf
  <2>2. \A d \in Requests : Executed(d) => call[d].key # key /\ call[d].key \in Keys
    BY <1>1, CallsApart DEF ReplayInv, AnswersInv, Executed, ExecutionHolds
  <2>3. \A k \in Keys : replays[k] # NoReplay => SameReplay(replays[k], replays'[k])
    BY <1>1, <1>2, <1>3, <1>5 DEF SameReplay
  <2>4. Executed(c)' /\ ExecutionHolds(c)' /\ CreationHolds(c)'
    BY <1>1, <1>2, <1>3, <1>5, <1>8, CallsApart DEF Executed, ExecutionHolds, CreationHolds
  <2>5. ASSUME NEW d \in Requests, d # c
        PROVE  (Executed(d)' => Executed(d) /\ ExecutionHolds(d)') /\ CreationHolds(d)'
    <3>1. (Executed(d) => ExecutionHolds(d)) /\ CreationHolds(d)
      BY DEF ReplayInv, AnswersInv
    <3>2. Executed(d)' => Executed(d)
      BY <2>1, <2>5 DEF Executed
    <3>3. Executed(d) => ExecutionHolds(d)'
      BY <2>1, <2>2, <2>3, <2>5, <3>1 DEF ExecutionHolds, SameReplay
    <3>4. call[d] \in CreateCalls => call[d].key \in Keys
      BY CallsApart
    <3>5. CreationHolds(d)'
      BY <2>1, <2>3, <2>5, <3>1, <3>4 DEF CreationHolds, SameReplay, ConflictsWithExisting
    <3> QED
      BY <3>2, <3>3, <3>5
  <2>6. \A d, e \in Requests : Executed(d)' /\ Executed(e)' /\ call'[d].key = call'[e].key => d = e
    BY <2>1, <2>2, <2>5 DEF ReplayInv, AnswersInv
  <2> QED
    BY <2>4, <2>5, <2>6 DEF AnswersInv
<1> QED
  BY <1>9, <1>11, <1>12, <1>13, <1>14 DEF ReplayInv

\* A call to execute a replay is answered, or has seen the row PENDING.
LEMMA ExecuteReplayInv ==
    ASSUME ReplayInv, NEW c \in Requests, ExecuteReplay(c)
    PROVE  ReplayInv'
<1> PICK k \in Keys :
       /\ call' = [call EXCEPT ![c] = [op |-> "execute", key |-> k]]
       /\ \/ replays[k] = NoReplay /\ Answer(c, "not_found")
          \/ replays[k] # NoReplay /\ replays[k].status # "pending" /\ Answer(c, "invalid")
          \/ /\ replays[k] # NoReplay /\ replays[k].status = "pending"
             /\ Continue(c, "begin")
  BY DEF ExecuteReplay
<1> DEFINE args == [op |-> "execute", key |-> k]
<1>1. /\ pc[c] = "new" /\ session[c] = <<>> /\ answer[c] = None
      /\ UNCHANGED <<replays, steps, lock>>
  BY DEF ExecuteReplay, ReplayInv, RequestsInv, ExecuteAt, AnsweredAt, Running
<1>2. args \in ExecuteCalls /\ args.key = k
  BY DEF ExecuteCalls
<1>3. call' = [call EXCEPT ![c] = args]
  OBVIOUS
<1> HIDE DEF args
<1>4. ASSUME NEW a \in {"not_found", "invalid"}, Answer(c, a)
      PROVE  ReplayInv'
  <2>1. a \in Answers /\ a \notin {"ok", "failed"}
    BY <1>4 DEF Answers
  <2>2. args \in CreateCalls \cup ExecuteCalls /\ pc[c] # "done"
    BY <1>1, <1>2
  <2> QED
    BY <1>1, <1>3, <1>4, <2>1, <2>2, AnsweredOnly
<1>5. CASE replays[k] # NoReplay /\ Continue(c, "begin")
  <2>1. pc' \in [Requests -> Labels] /\ pc'[c] = "begin" /\ answer' = answer
        /\ session' = session /\ \A d \in Requests \ {c} : pc'[d] = pc[d]
    BY <1>5, ContinueGoesOn DEF ReplayInv, Labels
  <2>2. /\ call' \in [Requests -> CreateCalls \cup ExecuteCalls \cup {None}]
        /\ call'[c] = args /\ \A d \in Requests \ {c} : call'[d] = call[d]
    BY <1>2, <1>3 DEF ReplayInv, TypeOK
  <2>3. TypeOK' /\ StepOf(c)
    BY <1>1, <2>1, <2>2 DEF ReplayInv, TypeOK, StepOf
  <2>4. CreateAt(c)' /\ ExecuteAt(c)' /\ AnsweredAt(c)' /\ ~Executed(c)' /\ CreationHolds(c)'
    BY <1>1, <1>2, <1>5, <2>1, <2>2, ReplayConstants
       DEF CreateAt, ExecuteAt, AnsweredAt, Running, Executed, CreationHolds
  <2> QED
    BY <1>1, <2>3, <2>4, NothingWritten
<1> QED
  BY <1>4, <1>5

\* The conditional UPDATE lets a request run a row that is PENDING now.
LEMMA BeginRunInv ==
    ASSUME ReplayInv, NEW c \in Requests, BeginRun(c)
    PROVE  ReplayInv'
<1> DEFINE key == call[c].key
<1>1. /\ pc[c] = "begin" /\ session[c] = <<>> /\ answer[c] = None
      /\ call[c] \in ExecuteCalls /\ key \in Keys /\ replays[key] # NoReplay
      /\ UNCHANGED <<replays, steps, call>> /\ lock[key] = Nobody
  BY CallsApart
     DEF BeginRun, Free, ReplayInv, RequestsInv, ExecuteAt, AnsweredAt, Running
<1>2. CASE Answer(c, "invalid") /\ UNCHANGED lock
  BY <1>1, <1>2, AnsweredOnly DEF Answers
<1>3. CASE replays[key].status = "pending" /\ Take(c) /\ Continue(c, "step")
  <2>1. pc' \in [Requests -> Labels] /\ pc'[c] = "step" /\ answer' = answer
        /\ session' = session /\ \A d \in Requests \ {c} : pc'[d] = pc[d]
    BY <1>3, ContinueGoesOn DEF ReplayInv, Labels
  <2>2. /\ lock' \in [Keys -> Requests \cup {Nobody}] /\ lock'[key] = c
        /\ \A k \in Keys : lock[k] \in Requests => lock'[k] = lock[k]
    BY <1>1, <1>3, ReplayConstants DEF ReplayInv, TypeOK, Take
  <2>3. TypeOK' /\ StepOf(c)
    BY <1>1, <2>1, <2>2 DEF ReplayInv, TypeOK, StepOf
  <2>4. replays[key].plan \in Seq(PlanSteps)
    BY <1>1 DEF ReplayInv, TypeOK, Replays
  <2>5. FollowsPlan(session[c], replays[key].plan) /\ NoneFailed(session[c])
    BY <1>1, <2>4 DEF FollowsPlan, NoneFailed
  <2>6. ExecuteAt(c)'
    BY <1>1, <1>3, <2>1, <2>2, <2>5 DEF ExecuteAt, Running
  <2>7. CreateAt(c)' /\ AnsweredAt(c)' /\ ~Executed(c)' /\ CreationHolds(c)'
    BY <1>1, <2>1, ReplayConstants DEF CreateAt, AnsweredAt, Executed, CreationHolds
  <2> QED
    BY <1>1, <2>3, <2>6, <2>7, NothingWritten
<1> QED
  BY <1>2, <1>3 DEF BeginRun

\* A step that is not run again is added as the plan has it; only reused
\* evidence keeps its output.
LEMMA FinalizeStepInv ==
    ASSUME ReplayInv, NEW c \in Requests, FinalizeStep(c)
    PROVE  ReplayInv'
<1> DEFINE plan == replays[call[c].key].plan
           step == plan[Len(session[c]) + 1]
           done == [seq |-> step.seq, kind |-> step.kind, version |-> step.version,
                    status |-> step.kind,
                    output |-> IF step.kind = "reused" THEN "historical" ELSE None]
<1>1. /\ pc[c] = "step" /\ Len(session[c]) < Len(plan) /\ step.kind # "substituted"
      /\ session' = [session EXCEPT ![c] = Append(session[c], done)]
      /\ UNCHANGED <<replays, steps, lock, pc, call, answer>>
  BY DEF FinalizeStep, AtStep, AddStep, ReplayInv, TypeOK
<1>2. plan \in Seq(PlanSteps) /\ session[c] \in Seq(DoneSteps) /\ FollowsPlan(session[c], plan)
  BY <1>1, RunningKnows DEF Running
<1>3. NoneFailed(session[c])
  BY <1>1 DEF ReplayInv, RequestsInv, ExecuteAt
<1>4. step \in PlanSteps
  BY <1>1, <1>2
<1>5. done \in DoneSteps /\ StepOfPlan(done, step) /\ done.status # "failed"
  BY <1>1, <1>4, ReplayConstants DEF PlanSteps, DoneSteps, Kinds, StepOfPlan
<1> HIDE DEF done
<1>6. /\ Append(session[c], done) \in Seq(DoneSteps)
      /\ FollowsPlan(Append(session[c], done), plan) /\ NoneFailed(Append(session[c], done))
  BY <1>1, <1>2, <1>3, <1>5, StepAdded
<1>7. "step" \in Running /\ pc' = [pc EXCEPT ![c] = "step"]
  BY <1>1 DEF Running, ReplayInv, TypeOK
<1> QED
  BY <1>1, <1>6, <1>7, RunGoesOn

\* The candidate is run: its output, or its failure, is the step.
LEMMA SubstituteStepInv ==
    ASSUME ReplayInv, NEW c \in Requests, SubstituteStep(c)
    PROVE  ReplayInv'
<1> DEFINE plan == replays[call[c].key].plan
           step == plan[Len(session[c]) + 1]
           Done(status, output) ==
               [seq |-> step.seq, kind |-> step.kind, version |-> step.version,
                status |-> status, output |-> output]
<1>1. /\ pc[c] = "step" /\ Len(session[c]) < Len(plan) /\ step.kind = "substituted"
      /\ UNCHANGED <<replays, steps, lock, call, answer>>
  BY DEF SubstituteStep, AtStep
<1>2. plan \in Seq(PlanSteps) /\ session[c] \in Seq(DoneSteps) /\ FollowsPlan(session[c], plan)
  BY <1>1, RunningKnows DEF Running
<1>3. NoneFailed(session[c])
  BY <1>1 DEF ReplayInv, RequestsInv, ExecuteAt
<1>4. step \in PlanSteps
  BY <1>1, <1>2
<1>5. CASE AddStep(c, step, "executed", "candidate") /\ UNCHANGED pc
  <2> DEFINE done == Done("executed", "candidate")
  <2>1. session' = [session EXCEPT ![c] = Append(session[c], done)]
    BY <1>5 DEF AddStep, ReplayInv, TypeOK
  <2>2. done \in DoneSteps /\ StepOfPlan(done, step) /\ done.status # "failed"
    BY <1>1, <1>4 DEF PlanSteps, DoneSteps, Kinds, StepOfPlan
  <2> HIDE DEF done
  <2>3. /\ Append(session[c], done) \in Seq(DoneSteps)
        /\ FollowsPlan(Append(session[c], done), plan) /\ NoneFailed(Append(session[c], done))
    BY <1>1, <1>2, <1>3, <2>2, StepAdded
  <2>4. "step" \in Running /\ pc' = [pc EXCEPT ![c] = "step"]
    BY <1>1, <1>5 DEF Running, ReplayInv, TypeOK
  <2> QED
    BY <1>1, <2>1, <2>3, <2>4, RunGoesOn
<1>6. CASE AddStep(c, step, "failed", None) /\ Goto(c, "failed")
  <2> DEFINE done == Done("failed", None)
  <2>1. session' = [session EXCEPT ![c] = Append(session[c], done)]
    BY <1>6 DEF AddStep, ReplayInv, TypeOK
  <2>2. done \in DoneSteps /\ StepOfPlan(done, step) /\ done.status = "failed"
    BY <1>1, <1>4, ReplayConstants DEF PlanSteps, DoneSteps, Kinds, StepOfPlan
  <2> HIDE DEF done
  <2>3. /\ Append(session[c], done) \in Seq(DoneSteps)
        /\ FollowsPlan(Append(session[c], done), plan)
        /\ StoppedByFailure(Append(session[c], done))
    BY <1>1, <1>2, <1>3, <2>2, StepAdded
  <2>4. "failed" \in Running /\ pc[c] \in Running /\ pc' = [pc EXCEPT ![c] = "failed"]
    BY <1>1, <1>6 DEF Running, Goto
  <2> QED
    BY <1>1, <2>1, <2>3, <2>4, RunGoesOn
<1> QED
  BY <1>5, <1>6 DEF SubstituteStep

\* The executor raises before a substituted step.
LEMMA ExecutorUnavailableInv ==
    ASSUME ReplayInv, NEW c \in Requests, ExecutorUnavailable(c)
    PROVE  ReplayInv'
<1> DEFINE plan == replays[call[c].key].plan
<1>1. /\ pc[c] = "step" /\ Len(session[c]) < Len(plan)
      /\ plan[Len(session[c]) + 1].kind = "substituted"
      /\ pc' = [pc EXCEPT ![c] = "raise"]
      /\ UNCHANGED <<replays, steps, lock, call, session, answer>>
  BY DEF ExecutorUnavailable, AtStep, Goto
<1>2. session[c] \in Seq(DoneSteps) /\ FollowsPlan(session[c], plan)
  BY <1>1, RunningKnows DEF Running
<1>3. StoppedByExecutor(session[c], plan)
  BY <1>1 DEF StoppedByExecutor, ReplayInv, RequestsInv, ExecuteAt
<1>4. pc[c] \in Running /\ "raise" \in Running /\ session' = [session EXCEPT ![c] = session[c]]
  BY <1>1 DEF Running, ReplayInv, TypeOK
<1> QED
  BY <1>1, <1>2, <1>3, <1>4, RunGoesOn

\* The loop is through: every step of the plan is stored.
LEMMA CompleteRunInv ==
    ASSUME ReplayInv, NEW c \in Requests, CompleteRun(c)
    PROVE  ReplayInv'
<1>1. pc[c] \in Running /\ NoneFailed(session[c])
  BY DEF CompleteRun, Running, ReplayInv, RequestsInv, ExecuteAt
<1> QED
  BY <1>1, RunCommitted DEF CompleteRun

\* The failed step is the last that is stored.
LEMMA FailRunInv ==
    ASSUME ReplayInv, NEW c \in Requests, FailRun(c)
    PROVE  ReplayInv'
<1>1. pc[c] \in Running /\ StoppedByFailure(session[c])
  BY DEF FailRun, Running, ReplayInv, RequestsInv, ExecuteAt
<1> QED
  BY <1>1, RunCommitted DEF FailRun

\* The steps before the one the executor raised at are stored.
LEMMA AbandonRunInv ==
    ASSUME ReplayInv, NEW c \in Requests, AbandonRun(c)
    PROVE  ReplayInv'
<1>1. pc[c] \in Running /\ StoppedByExecutor(session[c], replays[call[c].key].plan)
  BY DEF AbandonRun, Running, ReplayInv, RequestsInv, ExecuteAt
<1> QED
  BY <1>1, RunCommitted DEF AbandonRun

\* A request that dies leaves the row as it was.
LEMMA AbortInv ==
    ASSUME ReplayInv, NEW c \in Requests, Abort(c)
    PROVE  ReplayInv'
<1>1. call[c] \in CreateCalls \cup ExecuteCalls
  BY DEF Abort, ReplayInv, TypeOK, Labels, RequestsInv, CreateAt, ExecuteAt, Running
<1>2. pc[c] # "done" /\ "lost" \in Answers /\ Answer(c, "lost") /\ Release(c)
      /\ UNCHANGED <<replays, steps, call>>
  BY DEF Abort, Answers
<1> QED
  BY <1>1, <1>2, AnsweredOnly

-----------------------------------------------------------------------------
\* Replays that were created before are PENDING and have no steps.
LEMMA InitInv == Init => ReplayInv
<1> SUFFICES ASSUME Init PROVE ReplayInv
  OBVIOUS
<1>1. ASSUME NEW k \in Keys, replays[k] # NoReplay
      PROVE  /\ replays[k] \in Replays /\ replays[k].plan = PlanOf(replays[k])
             /\ replays[k].status = "pending"
  <2>1. PICK args \in CreateCalls : CanReplay(args) /\ replays[k] = NewReplay(args)
    BY <1>1 DEF Init
  <2> QED
    BY <2>1, NewReplayTyped
<1>2. TypeOK
  <2>1. replays \in [Keys -> Replays \cup {NoReplay}]
    BY <1>1 DEF Init
  <2>2. steps \in [Keys -> Seq(DoneSteps)] /\ session \in [Requests -> Seq(DoneSteps)]
    BY DEF Init
  <2> QED
    BY <2>1, <2>2 DEF Init, TypeOK, Labels, Answers
<1>3. PlanIsBuilt
  BY <1>1 DEF PlanIsBuilt
<1>4. EvidenceStored
  BY <1>1, PendingEvidence DEF EvidenceStored, Init
<1>5. RequestsInv
  BY DEF Init, RequestsInv, CreateAt, ExecuteAt, AnsweredAt, Running
<1>6. AnswersInv
  BY ReplayConstants DEF Init, AnswersInv, Executed, CreationHolds
<1> QED
  BY <1>2, <1>3, <1>4, <1>5, <1>6 DEF ReplayInv

\* No step of a request, and no death of one, breaks the invariant.
LEMMA StepInv == ReplayInv /\ [Next]_vars => ReplayInv'
<1> SUFFICES ASSUME ReplayInv, [Next]_vars PROVE ReplayInv'
  OBVIOUS
<1>1. CASE UNCHANGED vars
  <2>1. TypeOK' /\ PlanIsBuilt' /\ EvidenceStored'
    BY <1>1 DEF ReplayInv, TypeOK, PlanIsBuilt, EvidenceStored, vars
  <2>2. RequestsInv'
    BY <1>1 DEF ReplayInv, RequestsInv, CreateAt, ExecuteAt, AnsweredAt, vars
  <2>3. AnswersInv'
    BY <1>1 DEF ReplayInv, AnswersInv, Executed, ExecutionHolds, CreationHolds, vars
  <2> QED
    BY <2>1, <2>2, <2>3 DEF ReplayInv
<1>2. CASE Next
  <2> PICK c \in Requests : Call(c) \/ Step(c) \/ Abort(c)
    BY <1>2 DEF Next
  <2> QED
    BY CreateReplayInv, ExecuteReplayInv, InsertReplayInv, RereadReplayInv, CommitReplayInv,
       BeginRunInv, FinalizeStepInv, SubstituteStepInv, ExecutorUnavailableInv,
       CompleteRunInv, FailRunInv, AbandonRunInv, AbortInv DEF Call, Step
<1> QED
  BY <1>1, <1>2

\* Everything above holds in every reachable state.
THEOREM ReplayInvariant == Spec => []ReplayInv
  BY InitInv, StepInv, PTL DEF Spec

\* A replay's status and its committed steps agree: PENDING has none, COMPLETED
\* all of the plan, FAILED those up to the substituted step that stopped it
\* (ADR-034, ReplayService.execute_replay).
THEOREM EvidenceAgrees == Spec => []EvidenceMatchesStatus
<1>1. ReplayInv => EvidenceMatchesStatus
  <2> SUFFICES ASSUME ReplayInv, NEW k \in Keys, replays[k] # NoReplay
               PROVE  LET plan == replays[k].plan
                          done == Len(steps[k])
                      IN  /\ \A i \in 1 .. done :
                                /\ steps[k][i].seq = plan[i].seq
                                /\ steps[k][i].kind = plan[i].kind
                                /\ steps[k][i].status = "failed" =>
                                       i = done /\ replays[k].status = "failed"
                          /\ replays[k].status = "pending" => done = 0
                          /\ replays[k].status = "completed" => done = Len(plan)
                          /\ replays[k].status = "failed" =>
                                \/ done > 0 /\ steps[k][done].status = "failed"
                                \/ done < Len(plan) /\ plan[done + 1].kind = "substituted"
    BY DEF EvidenceMatchesStatus
  <2>1. Evidence(replays[k], steps[k]) /\ replays[k] \in Replays /\ steps[k] \in Seq(DoneSteps)
    BY DEF ReplayInv, EvidenceStored, TypeOK
  <2>2. Len(steps[k]) \in Nat /\ replays[k].status \in {"pending", "completed", "failed"}
    BY <2>1 DEF Replays
  <2>3. \A i \in 1 .. Len(steps[k]) : /\ steps[k][i].seq = replays[k].plan[i].seq
                                      /\ steps[k][i].kind = replays[k].plan[i].kind
    BY <2>1 DEF Evidence, FollowsPlan, StepOfPlan
  <2>4. ASSUME NEW i \in 1 .. Len(steps[k]), steps[k][i].status = "failed"
        PROVE  i = Len(steps[k]) /\ replays[k].status = "failed"
    <3>1. replays[k].status # "completed" /\ replays[k].status # "pending"
      BY <2>1, <2>4 DEF Evidence, NoneFailed
    <3>2. StoppedByFailure(steps[k])
      BY <2>1, <2>2, <2>4, <3>1 DEF Evidence, StoppedByExecutor, NoneFailed
    <3> QED
      BY <2>2, <2>4, <3>1, <3>2 DEF StoppedByFailure
  <2>5. /\ replays[k].status = "pending" => Len(steps[k]) = 0
        /\ replays[k].status = "completed" => Len(steps[k]) = Len(replays[k].plan)
    BY <2>1 DEF Evidence
  <2>6. replays[k].status = "failed" =>
            \/ Len(steps[k]) > 0 /\ steps[k][Len(steps[k])].status = "failed"
            \/ /\ Len(steps[k]) < Len(replays[k].plan)
               /\ replays[k].plan[Len(steps[k]) + 1].kind = "substituted"
    BY <2>1 DEF Evidence, StoppedByFailure, StoppedByExecutor
  <2> QED
    BY <2>3, <2>4, <2>5, <2>6
<1> QED
  BY <1>1, ReplayInvariant, PTL

\* "Never fall back to historical output after a required candidate execution
\* fails": a call that was run again shows the candidate's version and never the
\* recorded output, and the recorded output of another event is evidence exactly
\* if the event is neither the provider's nor a response that names the id of a
\* call run again before it.  A response without an id is kept, whatever call it
\* answers (build_replay_plan).
THEOREM HistoryIsKeptExactly == Spec => []HistoryKeptExactly
<1>1. ReplayInv => HistoryKeptExactly
  <2> SUFFICES ASSUME ReplayInv, NEW k \in Keys, NEW i \in DOMAIN steps[k]
               PROVE  LET events == replays[k].source.events
                          again  == Substituted(events[i], replays[k].baseline)
                      IN  /\ again => steps[k][i].version = replays[k].candidate
                          /\ steps[k][i].output = "historical" <=>
                                /\ ~again
                                /\ events[i].type # "provider"
                                /\ ~Superseded(events, i, replays[k].baseline)
    BY DEF HistoryKeptExactly
  <2> DEFINE replay == replays[k]
             events == replay.source.events
             planned == PlanStep(events, i, replay.baseline, replay.candidate)
  <2>1. steps[k] \in Seq(DoneSteps) /\ i \in 1 .. Len(steps[k])
    BY DEF ReplayInv, TypeOK
  <2>2. replay # NoReplay
    BY <2>1 DEF ReplayInv, EvidenceStored
  <2>3. replay \in Replays /\ Evidence(replay, steps[k]) /\ replay.plan = PlanOf(replay)
    BY <2>2 DEF ReplayInv, TypeOK, EvidenceStored, PlanIsBuilt
  <2>4. /\ replay.source \in Trajectories /\ replay.baseline \in Versions
        /\ replay.candidate \in Versions
    BY <2>3 DEF Replays
  <2>5. /\ Len(replay.plan) = Len(events) /\ Len(events) \in Nat
        /\ \A n \in 1 .. Len(events) :
              replay.plan[n] = PlanStep(events, n, replay.baseline, replay.candidate)
    BY <2>3, <2>4, PlanTyped, ReplayConstants DEF PlanOf
  <2>6. i \in 1 .. Len(events) /\ StepOfPlan(steps[k][i], planned)
    BY <2>1, <2>3, <2>5 DEF Evidence, FollowsPlan
  <2>7. Substituted(events[i], replay.baseline) => steps[k][i].version = replay.candidate
    BY <2>4, <2>6, PlanOfSubstituted DEF StepOfPlan
  <2>8. steps[k][i].output = "historical" <=> planned.kind = "reused"
    BY <2>6 DEF StepOfPlan
  <2>9. planned.kind = "reused" <=>
            /\ ~Substituted(events[i], replay.baseline)
            /\ events[i].type # "provider"
            /\ ~Superseded(events, i, replay.baseline)
    BY <2>4, <2>6, PlanKeeps
  <2> QED
    BY <2>7, <2>8, <2>9
<1> QED
  BY <1>1, ReplayInvariant, PTL

\* What a request was answered stays true: one execution of a replay is ever
\* answered, and a creation that succeeded names the replay it asked for.
THEOREM AnswersStayTrue == Spec => []AnswersHold
<1>1. ReplayInv => AnswersHold
  <2> SUFFICES ASSUME ReplayInv PROVE AnswersHold
    OBVIOUS
  <2>1. \A c \in Requests : answer[c] \in {"ok", "failed"} =>
                                call[c] \in CreateCalls \cup ExecuteCalls
    BY ReplayConstants DEF ReplayInv, RequestsInv, AnsweredAt
  <2>2. /\ \A args \in CreateCalls : args.op = "create"
        /\ \A args \in ExecuteCalls : args.op = "execute"
    BY DEF CreateCalls, ExecuteCalls
  <2>3. \A c \in Requests : answer[c] \in {"ok", "failed"} /\ call[c].op = "execute" => Executed(c)
    BY <2>1, <2>2 DEF Executed
  <2>4. \A c \in Requests : answer[c] = "ok" /\ call[c].op = "create" => call[c] \in CreateCalls
    BY <2>1, <2>2
  <2>5. \A c \in Requests : Executed(c) =>
            /\ replays[call[c].key].status # "pending"
            /\ answer[c] = "failed" => replays[call[c].key].status = "failed"
    BY DEF ReplayInv, AnswersInv, ExecutionHolds
  <2>6. \A c \in Requests : answer[c] = "ok" /\ call[c].op = "create" =>
            /\ replays[call[c].key] # NoReplay
            /\ ~ConflictsWithExisting(replays[call[c].key], call[c])
    BY <2>4 DEF ReplayInv, AnswersInv, CreationHolds
  <2>7. \A c, d \in Requests :
            Executed(c) /\ Executed(d) /\ call[c].key = call[d].key => c = d
    BY DEF ReplayInv, AnswersInv
  <2> QED
    BY <2>3, <2>5, <2>6, <2>7 DEF AnswersHold
<1> QED
  BY <1>1, ReplayInvariant, PTL

=============================================================================
