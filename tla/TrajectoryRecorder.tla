------------------------- MODULE TrajectoryRecorder -------------------------
(***************************************************************************)
(* TrajectoryRecorderService: concurrent requests start trajectories,      *)
(* append events to them and complete or fail them.                        *)
(*                                                                         *)
(* Each request is one database transaction at READ COMMITTED: a read sees *)
(* what is committed when it is made, and an UPDATE of a row, or an INSERT *)
(* under a unique key, waits for the transaction that holds the row or the *)
(* key and holds it itself until it commits or rolls back (lock).  What a  *)
(* transaction has not committed is in the request's own variables only.   *)
(*                                                                         *)
(* A trajectory is named by its external_run_id, an event by its sequence  *)
(* number.  A payload stands for the event type, component version, input, *)
(* output and error of an event, the environment for the fields a retried  *)
(* start must agree on.                                                    *)
(***************************************************************************)
EXTENDS Naturals

CONSTANTS
    Requests,       \* HTTP requests; each makes one call
    Runs,           \* external_run_ids
    Environments,
    ExternalIds,    \* external_event_ids
    Payloads,
    Stored,         \* what is stored of a payload, or Rejected
    Rejected,
    None,           \* an optional field that is not set
    NoRow,
    Nobody

ASSUME RecorderConstants ==
    /\ Nobody \notin Requests
    /\ None \notin ExternalIds \cup Environments
    /\ NoRow \notin [environment: Environments \cup {None},
                     status: {"running", "completed", "failed"}, next: Nat]
    /\ DOMAIN Stored = Payloads

ASSUME NoneIsNoAnswer == None # "ok"

VARIABLES
    rows,       \* trajectories: committed rows, by external_run_id
    events,     \* trajectory_events: committed rows, by trajectory
    lock,       \* the transaction that holds the row or the key of a trajectory
    pc,         \* where a request is
    call,       \* what it was called with
    seq,        \* the sequence number it holds, or has been answered with
    answer      \* what it was answered

vars == <<rows, events, lock, pc, call, seq, answer>>

-----------------------------------------------------------------------------
\* Trajectory: status and next_sequence are what is ever updated.
Rows == [environment: Environments \cup {None},
         status: {"running", "completed", "failed"},
         next: Nat]

NewRow(environment) == [environment |-> environment, status |-> "running", next |-> 0]

\* The digest covers the sequence number and everything that is stored.
compute_event_hash(n, stored) == <<n, stored>>

\* is_valid_transition: only out of RUNNING.
ValidTransition(status) == status = "running"

\* An optional field conflicts only if both sides set it.
ConflictsWithExisting(row, environment) ==
    environment # None /\ row.environment # None /\ row.environment # environment

EventsWithId(r, x) == {e \in events[r] : e.ext = x}

Goto(c, l) == pc' = [pc EXCEPT ![c] = l]

Answer(c, a) ==
    /\ Goto(c, "done")
    /\ answer' = [answer EXCEPT ![c] = a]

Take(c) == lock' = [lock EXCEPT ![call[c].run] = c]

\* Commit and rollback both let go of what the transaction holds.
Release(c) == lock' = [r \in Runs |-> IF lock[r] = c THEN Nobody ELSE lock[r]]

Free(r) == lock[r] = Nobody

-----------------------------------------------------------------------------
\* A trajectory may have been started before.
Init ==
    /\ rows \in [Runs -> {NoRow} \cup {NewRow(env) : env \in Environments \cup {None}}]
    /\ events = [r \in Runs |-> {}]
    /\ lock = [r \in Runs |-> Nobody]
    /\ pc = [c \in Requests |-> "new"]
    /\ call = [c \in Requests |-> None]
    /\ seq = [c \in Requests |-> 0]
    /\ answer = [c \in Requests |-> None]

-----------------------------------------------------------------------------
(* start_trajectory                                                        *)

\* An existing trajectory is returned, unless the retry contradicts it.
AnswerExisting(c, row, environment) ==
    Answer(c, IF ConflictsWithExisting(row, environment) THEN "conflict" ELSE "ok")

\* The call, and the lookup of its external_run_id.
StartTrajectory(c) ==
    /\ pc[c] = "new"
    /\ \E r \in Runs, env \in Environments \cup {None} :
          /\ call' = [call EXCEPT ![c] = [op |-> "start", run |-> r, environment |-> env]]
          /\ \/ rows[r] # NoRow /\ AnswerExisting(c, rows[r], env)
             \/ rows[r] = NoRow /\ Goto(c, "insert_row") /\ UNCHANGED answer
    /\ UNCHANGED <<rows, events, lock, seq>>

\* flush(): the unique index on external_run_id lets one insert through; on
\* IntegrityError the transaction is rolled back.
InsertTrajectory(c) ==
    /\ pc[c] = "insert_row"
    /\ Free(call[c].run)
    /\ \/ rows[call[c].run] = NoRow /\ Take(c) /\ Goto(c, "commit_row")
       \/ rows[call[c].run] # NoRow /\ UNCHANGED lock /\ Goto(c, "reread_row")
    /\ UNCHANGED <<rows, events, call, seq, answer>>

\* Mutant of RereadTrajectory: the winner's row is returned as it is.
RereadUnchecked(c) ==
    /\ pc[c] = "reread_row"
    /\ Answer(c, "ok")
    /\ UNCHANGED <<rows, events, lock, call, seq>>

\* After the lost race the winner's row is read and treated as a retry.
RereadTrajectory(c) ==
    /\ pc[c] = "reread_row"
    /\ AnswerExisting(c, rows[call[c].run], call[c].environment)
    /\ UNCHANGED <<rows, events, lock, call, seq>>

CommitTrajectory(c) ==
    /\ pc[c] = "commit_row"
    /\ rows' = [rows EXCEPT ![call[c].run] = NewRow(call[c].environment)]
    /\ Release(c)
    /\ Answer(c, "ok")
    /\ UNCHANGED <<events, call, seq>>

-----------------------------------------------------------------------------
(* append_event                                                            *)

\* sanitize, validate_event_shape, the component reference and the payload
\* limits: the payload is refused or something is stored of it.
Acceptable(payload) == Stored[payload] # Rejected

\* The id of no event.
UnknownEvent == 0

\* A parent must be an event of the trajectory as it was read.
ParentKnown(r, parent) == parent = None \/ \E e \in events[r] : e.seq = parent

\* The call, the read of the trajectory and the checks that follow it.
AppendEvent(c) ==
    /\ pc[c] = "new"
    /\ \E r \in Runs, x \in ExternalIds \cup {None}, p \in Payloads :
       \E parent \in {e.seq : e \in events[r]} \cup {UnknownEvent, None} :
          /\ call' = [call EXCEPT ![c] =
                         [op |-> "append", run |-> r, ext |-> x, payload |-> p, parent |-> parent]]
          /\ \/ rows[r] = NoRow /\ Answer(c, "not_found")
             \/ /\ rows[r] # NoRow
                /\ ~(Acceptable(p) /\ ParentKnown(r, parent))
                /\ Answer(c, "invalid")
             \/ /\ rows[r] # NoRow
                /\ Acceptable(p) /\ ParentKnown(r, parent)
                /\ Goto(c, IF x = None THEN "allocate" ELSE "lookup")
                /\ UNCHANGED answer
    /\ UNCHANGED <<rows, events, lock, seq>>

\* _reconcile_duplicate: the payload is hashed with the sequence number of
\* the event on record, and an identical hash is a retry.
ReconcileDuplicate(c, existing) ==
    IF existing.hash = compute_event_hash(existing.seq, Stored[call[c].payload])
    THEN Answer(c, "ok") /\ seq' = [seq EXCEPT ![c] = existing.seq]
    ELSE Answer(c, "duplicate") /\ UNCHANGED seq

\* get_event_by_external_id, before anything is written.
LookUpEvent(c) ==
    /\ pc[c] = "lookup"
    /\ \/ /\ EventsWithId(call[c].run, call[c].ext) = {}
          /\ Goto(c, "allocate")
          /\ UNCHANGED <<seq, answer>>
       \/ \E existing \in EventsWithId(call[c].run, call[c].ext) : ReconcileDuplicate(c, existing)
    /\ UNCHANGED <<rows, events, lock, call>>

\* Mutants of AllocateSequence: the allocation is a transaction of its own; the
\* status is not part of the UPDATE.
AllocateAndCommit(c) ==
    /\ pc[c] = "allocate"
    /\ Free(call[c].run)
    /\ rows[call[c].run].status = "running"
    /\ rows' = [rows EXCEPT ![call[c].run].next = @ + 1]
    /\ seq' = [seq EXCEPT ![c] = rows'[call[c].run].next]
    /\ Goto(c, "insert_event")
    /\ UNCHANGED <<events, lock, call, answer>>

AllocateUnchecked(c) ==
    /\ pc[c] = "allocate"
    /\ Free(call[c].run)
    /\ Take(c)
    /\ seq' = [seq EXCEPT ![c] = rows[call[c].run].next + 1]
    /\ Goto(c, "insert_event")
    /\ UNCHANGED <<rows, events, call, answer>>

\* allocate_sequence: UPDATE ... SET next_sequence + 1 WHERE status = RUNNING.
AllocateSequence(c) ==
    /\ pc[c] = "allocate"
    /\ Free(call[c].run)
    /\ \/ /\ rows[call[c].run].status = "running"
          /\ Take(c)
          /\ seq' = [seq EXCEPT ![c] = rows[call[c].run].next + 1]
          /\ Goto(c, "insert_event")
          /\ UNCHANGED answer
       \/ /\ rows[call[c].run].status # "running"
          /\ Answer(c, "terminal")
          /\ UNCHANGED <<lock, seq>>
    /\ UNCHANGED <<rows, events, call>>

\* The unique keys of trajectory_events: external_event_id where it is set, and
\* sequence_number.
ViolatesUniqueKey(c) ==
    \E e \in events[call[c].run] :
        \/ call[c].ext # None /\ e.ext = call[c].ext
        \/ e.seq = seq[c]

\* Mutant of InsertEvent: the IntegrityError is handled without a rollback.
InsertWithoutRollback(c) ==
    /\ pc[c] = "insert_event"
    /\ Goto(c, IF ViolatesUniqueKey(c) THEN "done" ELSE "commit_event")
    /\ UNCHANGED <<rows, events, lock, call, seq, answer>>

\* flush(): an IntegrityError rolls back, which gives the number back too.
InsertEvent(c) ==
    /\ pc[c] = "insert_event"
    /\ \/ ~ViolatesUniqueKey(c) /\ Goto(c, "commit_event") /\ UNCHANGED lock
       \/ ViolatesUniqueKey(c) /\ Goto(c, "reread_event") /\ Release(c)
    /\ UNCHANGED <<rows, events, call, seq, answer>>

\* After the lost race the stored hash is compared with the one computed for
\* the insert, that is, with this request's own sequence number.  An error that
\* no external_event_id explains is raised again.
RereadEvent(c) ==
    /\ pc[c] = "reread_event"
    /\ LET existing == EventsWithId(call[c].run, call[c].ext)
           own == compute_event_hash(seq[c], Stored[call[c].payload])
       IN  Answer(c, IF call[c].ext = None \/ existing = {} THEN "error"
                     ELSE IF \E e \in existing : e.hash = own THEN "ok"
                     ELSE "duplicate")
    /\ UNCHANGED <<rows, events, lock, call, seq>>

NewEvent(c) ==
    [seq |-> seq[c], ext |-> call[c].ext, parent |-> call[c].parent,
     hash |-> compute_event_hash(seq[c], Stored[call[c].payload])]

CommitEvent(c) ==
    /\ pc[c] = "commit_event"
    /\ rows' = [rows EXCEPT ![call[c].run].next = seq[c]]
    /\ events' = [events EXCEPT ![call[c].run] = @ \cup {NewEvent(c)}]
    /\ Release(c)
    /\ Answer(c, "ok")
    /\ UNCHANGED <<call, seq>>

-----------------------------------------------------------------------------
(* complete_trajectory and fail_trajectory                                 *)

\* The call, the read of the trajectory and the check of its status.
Transition(c) ==
    /\ pc[c] = "new"
    /\ \E r \in Runs, target \in {"completed", "failed"} :
          /\ call' = [call EXCEPT ![c] = [op |-> "transition", run |-> r, target |-> target]]
          /\ \/ rows[r] = NoRow /\ Answer(c, "not_found")
             \/ rows[r] # NoRow /\ ~ValidTransition(rows[r].status) /\ Answer(c, "invalid")
             \/ /\ rows[r] # NoRow /\ ValidTransition(rows[r].status)
                /\ Goto(c, "update_status")
                /\ UNCHANGED answer
    /\ UNCHANGED <<rows, events, lock, seq>>

\* transition_status: UPDATE ... SET status WHERE status is the one read.
TransitionStatus(c) ==
    /\ pc[c] = "update_status"
    /\ Free(call[c].run)
    /\ \/ /\ rows[call[c].run].status = "running"
          /\ Take(c)
          /\ Goto(c, "commit_status")
          /\ UNCHANGED answer
       \/ /\ rows[call[c].run].status # "running"
          /\ Answer(c, "invalid")
          /\ UNCHANGED lock
    /\ UNCHANGED <<rows, events, call, seq>>

CommitTransition(c) ==
    /\ pc[c] = "commit_status"
    /\ rows' = [rows EXCEPT ![call[c].run].status = call[c].target]
    /\ Release(c)
    /\ Answer(c, "ok")
    /\ UNCHANGED <<events, call, seq>>

-----------------------------------------------------------------------------
\* The request dies, or its connection does: the database rolls back.
Abort(c) ==
    /\ pc[c] \notin {"new", "done"}
    /\ Release(c)
    /\ Answer(c, "lost")
    /\ UNCHANGED <<rows, events, call, seq>>

Call(c) == StartTrajectory(c) \/ AppendEvent(c) \/ Transition(c)

Step(c) ==
    \/ InsertTrajectory(c) \/ RereadTrajectory(c) \/ CommitTrajectory(c)
    \/ LookUpEvent(c) \/ AllocateSequence(c) \/ InsertEvent(c)
    \/ RereadEvent(c) \/ CommitEvent(c)
    \/ TransitionStatus(c) \/ CommitTransition(c)

Next == \E c \in Requests : Call(c) \/ Step(c) \/ Abort(c)

Spec == Init /\ [][Next]_vars

\* A request that has begun goes on; none has to arrive, none has to die.
Fairness == \A c \in Requests : WF_vars(Step(c))

FairSpec == Spec /\ Fairness

-----------------------------------------------------------------------------
(* Properties                                                              *)

Labels == {"new", "insert_row", "reread_row", "commit_row", "lookup", "allocate",
           "insert_event", "reread_event", "commit_event", "update_status",
           "commit_status", "done"}

Answers == {None, "ok", "not_found", "conflict", "invalid", "duplicate", "terminal",
            "error", "lost"}

StoredValues == {Stored[p] : p \in Payloads}

Events == [seq: Nat, ext: ExternalIds \cup {None}, parent: Nat \cup {None},
           hash: Nat \X StoredValues]

StartCalls == [op: {"start"}, run: Runs, environment: Environments \cup {None}]

AppendCalls == [op: {"append"}, run: Runs, ext: ExternalIds \cup {None}, payload: Payloads,
                parent: Nat \cup {None}]

TransitionCalls == [op: {"transition"}, run: Runs, target: {"completed", "failed"}]

Calls == StartCalls \cup AppendCalls \cup TransitionCalls

\* Every variable keeps its type.
TypeOK ==
    /\ rows \in [Runs -> Rows \cup {NoRow}]
    /\ \A r \in Runs : events[r] \subseteq Events
    /\ DOMAIN events = Runs
    /\ lock \in [Runs -> Requests \cup {Nobody}]
    /\ pc \in [Requests -> Labels]
    /\ call \in [Requests -> Calls \cup {None}]
    /\ seq \in [Requests -> Nat]
    /\ answer \in [Requests -> Answers]

\* allocate_sequence promises "a distinct, gapless increment": the events of a
\* trajectory are numbered 1 to next_sequence, each number once, whoever
\* appends at the same time and whoever is rolled back after having a number.
GaplessSequence ==
    \A r \in Runs :
        /\ {e.seq : e \in events[r]} = 1 .. (IF rows[r] = NoRow THEN 0 ELSE rows[r].next)
        /\ \A e, f \in events[r] : e.seq = f.seq => e = f

\* A trajectory that is COMPLETED or FAILED is evidence: its status stays, and
\* no append that was under way adds an event to it.
TerminalIsFrozen ==
    [][\A r \in Runs :
        rows[r] # NoRow /\ rows[r].status # "running" =>
            rows'[r] = rows[r] /\ events'[r] = events[r]]_vars

\* A request that is answered with success finds on record what it asked for:
\* the event has its external id and its payload, and its parent is an earlier
\* event of the same trajectory; the trajectory has its environment, or the
\* status it was to end with, and then nobody else was told of ending it.  A
\* retry is never answered with somebody else's data.
AnswerMatchesRecord ==
    \A c \in Requests :
        answer[c] = "ok" =>
            /\ call[c].op = "append" =>
                  \E e \in events[call[c].run] :
                      /\ e.seq = seq[c]
                      /\ e.ext = call[c].ext
                      /\ e.hash = compute_event_hash(seq[c], Stored[call[c].payload])
                      /\ e.parent # None =>
                            \E f \in events[call[c].run] : f.seq = e.parent /\ f.seq < e.seq
            /\ call[c].op = "transition" =>
                  /\ rows[call[c].run].status = call[c].target
                  /\ \A d \in Requests \ {c} :
                        ~(answer[d] = "ok" /\ call[d].op = "transition" /\ call[d].run = call[c].run)
            /\ call[c].op = "start" =>
                  /\ rows[call[c].run] # NoRow
                  /\ ~ConflictsWithExisting(rows[call[c].run], call[c].environment)

\* Nobody waits for ever on the row of a trajectory: every request that has
\* begun is answered.
EveryRequestAnswered == \A c \in Requests : pc[c] # "new" ~> pc[c] = "done"

=============================================================================
