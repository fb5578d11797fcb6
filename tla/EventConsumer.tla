---------------------------- MODULE EventConsumer ----------------------------
(***************************************************************************)
(* The Kafka consumer loop of app/kafka/consumer.py, for one partition of  *)
(* the request topic and one consumer group, whose members are the worker  *)
(* processes of app/kafka/worker.py.                                       *)
(*                                                                         *)
(* A worker takes one message at a time, hands it to the injected          *)
(* EventHandler, sends it to the dead-letter topic when the handler gives  *)
(* it up, and only then commits.  The handler is left open: it may return, *)
(* or raise any of the errors the loop tells apart.  Workers crash, are    *)
(* restarted, and the group hands the partition from one to another while  *)
(* the old owner is still working on a message.                            *)
(*                                                                         *)
(* Offsets are counted from the first message of the model: offset i is    *)
(* log[i + 1].                                                             *)
(***************************************************************************)
EXTENDS Integers, Sequences

CONSTANTS
    Events,                \* the well-formed messages
    Malformed,             \* a message deserialize_envelope rejects
    Workers,               \* the worker processes of the consumer group
    MaxTransientRetries,   \* _MAX_TRANSIENT_RETRIES
    InitialCommitted,      \* the group's committed offset when the model begins
    NoOffset,              \* no offset was ever committed by the group
    NoOwner,               \* the partition is assigned to no worker
    MaxLog,                \* bound: messages published
    MaxFaults              \* bound: crashes and hand-overs of the partition

ASSUME ConsumerAssumption ==
    /\ Malformed \notin Events
    /\ MaxTransientRetries \in Nat
    /\ NoOffset \notin Nat
    /\ InitialCommitted \in {0, NoOffset}
    /\ NoOwner \notin Workers
    /\ MaxLog \in Nat
    /\ MaxFaults \in Nat

VARIABLES
    log,         \* the messages of the partition, in order
    committed,   \* the group's committed offset: the next one to deliver
    owner,       \* the worker the partition is assigned to
    position,    \* position[w]: the next offset worker w will fetch
    wpc,         \* wpc[w]: where worker w is in _process_one
    current,     \* current[w]: the offset worker w is processing
    attempt,     \* attempt[w]: the retry counter of _dispatch_with_retry
    handled,     \* history: offsets the handler processed
    dead,        \* history: offsets with a record on the dead-letter topic
    dropped,     \* history: offsets whose dead-letter record could not be sent
    faults       \* crashes and hand-overs so far

consumerVars == <<log, committed, owner, position, wpc, current, attempt,
                  handled, dead, dropped, faults>>

Messages == Events \cup {Malformed}

\* Every message the loop is finished with, one way or another.
Settled == handled \cup dead \cup dropped

Offsets == 0 .. (Len(log) - 1)

Init ==
    /\ log = <<>>
    /\ committed = InitialCommitted
    /\ owner = NoOwner
    /\ position = [w \in Workers |-> 0]
    /\ wpc = [w \in Workers |-> "down"]
    /\ current = [w \in Workers |-> 0]
    /\ attempt = [w \in Workers |-> 0]
    /\ handled = {}
    /\ dead = {}
    /\ dropped = {}
    /\ faults = 0

-----------------------------------------------------------------------------
(* The broker and the group, as the loop uses them. *)

\* A producer appends a message to the partition.
Produce(m) ==
    /\ Len(log) < MaxLog
    /\ log' = Append(log, m)
    /\ UNCHANGED <<committed, owner, position, wpc, current, attempt,
                   handled, dead, dropped, faults>>

\* Where a member that is given the partition begins: at the group's committed
\* offset, or, when there is none, at the end of the log.  The constructor sets
\* no auto_offset_reset, and aiokafka's default is "latest".
StartOffset == IF committed = NoOffset THEN Len(log) ELSE committed

\* The group coordinator gives the partition to a running worker.  Taking it
\* from a worker that is still running is a fault of the environment; that
\* worker is not told to stop what it is doing.
Assign(w) ==
    /\ wpc[w] # "down"
    /\ owner # w
    /\ \/ owner = NoOwner /\ UNCHANGED faults
       \/ owner # NoOwner /\ faults < MaxFaults /\ faults' = faults + 1
    /\ owner' = w
    /\ position' = [position EXCEPT ![w] = StartOffset]
    /\ UNCHANGED <<log, committed, wpc, current, attempt, handled, dead, dropped>>

-----------------------------------------------------------------------------
(* The worker. *)

\* main(): the process comes up and joins the group.
Start(w) ==
    /\ wpc[w] = "down"
    /\ wpc' = [wpc EXCEPT ![w] = "ready"]
    /\ UNCHANGED <<log, committed, owner, position, current, attempt,
                   handled, dead, dropped, faults>>

\* Mutant of Poll: enable_auto_commit, before the message is processed.
PollAutoCommit(w) ==
    /\ wpc[w] = "ready"
    /\ owner = w
    /\ position[w] < Len(log)
    /\ current' = [current EXCEPT ![w] = position[w]]
    /\ position' = [position EXCEPT ![w] = @ + 1]
    /\ committed' = position'[w]
    /\ attempt' = [attempt EXCEPT ![w] = 0]
    /\ wpc' = [wpc EXCEPT ![w] = "handling"]
    /\ UNCHANGED <<log, owner, handled, dead, dropped, faults>>

\* run_forever and the head of _process_one: fetch the next message and
\* deserialize it.  A poison message goes straight to the dead-letter topic.
Poll(w) ==
    /\ wpc[w] = "ready"
    /\ owner = w
    /\ position[w] < Len(log)
    /\ current' = [current EXCEPT ![w] = position[w]]
    /\ position' = [position EXCEPT ![w] = @ + 1]
    /\ attempt' = [attempt EXCEPT ![w] = 0]
    /\ wpc' = [wpc EXCEPT ![w] = IF log[position[w] + 1] = Malformed
                                 THEN "dlq" ELSE "handling"]
    /\ UNCHANGED <<log, committed, owner, handled, dead, dropped, faults>>

\* The handler returned: its effects are committed, the offset is not yet.
HandlerReturns(w) ==
    /\ wpc[w] = "handling"
    /\ handled' = handled \cup {current[w]}
    /\ wpc' = [wpc EXCEPT ![w] = "commit"]
    /\ UNCHANGED <<log, committed, owner, position, current, attempt,
                   dead, dropped, faults>>

\* Mutant of HandlerFailsPermanently: the dead-letter step is left out.
HandlerFailsSilently(w) ==
    /\ wpc[w] = "handling"
    /\ wpc' = [wpc EXCEPT ![w] = "commit"]
    /\ UNCHANGED <<log, committed, owner, position, current, attempt,
                   handled, dead, dropped, faults>>

\* UnsupportedEventVersion or PermanentEventProcessingError: never retried.
HandlerFailsPermanently(w) ==
    /\ wpc[w] = "handling"
    /\ wpc' = [wpc EXCEPT ![w] = "dlq"]
    /\ UNCHANGED <<log, committed, owner, position, current, attempt,
                   handled, dead, dropped, faults>>

\* Mutant of HandlerFailsTransiently: the retry counter starts again when it
\* has reached the limit.
HandlerRetriesForever(w) ==
    /\ wpc[w] = "handling"
    /\ attempt' = [attempt EXCEPT ![w] = (@ + 1) % (MaxTransientRetries + 1)]
    /\ UNCHANGED <<log, committed, owner, position, wpc, current,
                   handled, dead, dropped, faults>>

\* TransientEventProcessingError: retried in place, without a commit, until
\* the counter exceeds _MAX_TRANSIENT_RETRIES.
HandlerFailsTransiently(w) ==
    /\ wpc[w] = "handling"
    /\ attempt' = [attempt EXCEPT ![w] = @ + 1]
    /\ wpc' = [wpc EXCEPT ![w] = IF attempt'[w] > MaxTransientRetries
                                 THEN "dlq" ELSE "handling"]
    /\ UNCHANGED <<log, committed, owner, position, current,
                   handled, dead, dropped, faults>>

\* _to_dlq: a failure to publish is logged and swallowed; the loop goes on.
ToDlq(w) ==
    /\ wpc[w] = "dlq"
    /\ \/ dead' = dead \cup {current[w]} /\ UNCHANGED dropped
       \/ dropped' = dropped \cup {current[w]} /\ UNCHANGED dead
    /\ wpc' = [wpc EXCEPT ![w] = "commit"]
    /\ UNCHANGED <<log, committed, owner, position, current, attempt,
                   handled, faults>>

\* Mutant of Commit: the offset after the processed message is committed
\* explicitly, whoever holds the partition now.
CommitProcessedOffset(w) ==
    /\ wpc[w] = "commit"
    /\ committed' = current[w] + 1
    /\ wpc' = [wpc EXCEPT ![w] = "ready"]
    /\ UNCHANGED <<log, owner, position, current, attempt,
                   handled, dead, dropped, faults>>

\* consumer.commit() without arguments commits the positions of the partitions
\* the member holds now: nothing at all when it has lost the partition.
Commit(w) ==
    /\ wpc[w] = "commit"
    /\ committed' = IF owner = w THEN position[w] ELSE committed
    /\ wpc' = [wpc EXCEPT ![w] = "ready"]
    /\ UNCHANGED <<log, owner, position, current, attempt,
                   handled, dead, dropped, faults>>

\* run_forever and main() end; what the worker held in memory is gone.
LoopEnds(w) ==
    /\ wpc[w] # "down"
    /\ wpc' = [wpc EXCEPT ![w] = "down"]
    /\ owner' = IF owner = w THEN NoOwner ELSE owner
    /\ position' = [position EXCEPT ![w] = 0]
    /\ current' = [current EXCEPT ![w] = 0]
    /\ attempt' = [attempt EXCEPT ![w] = 0]
    /\ UNCHANGED <<log, committed, handled, dead, dropped>>

\* The process dies, or an exception the loop does not catch (from the handler
\* or from commit() itself) ends it.
Crash(w) ==
    /\ faults < MaxFaults
    /\ faults' = faults + 1
    /\ LoopEnds(w)

-----------------------------------------------------------------------------
HandlerStep(w) ==
    \/ HandlerReturns(w)
    \/ HandlerFailsPermanently(w)
    \/ HandlerFailsTransiently(w)

WorkerStep(w) ==
    \/ Start(w)
    \/ Assign(w)
    \/ Poll(w)
    \/ HandlerStep(w)
    \/ ToDlq(w)
    \/ Commit(w)

Next ==
    \/ \E m \in Messages : Produce(m)
    \/ \E w \in Workers : WorkerStep(w) \/ Crash(w)

Spec == Init /\ [][Next]_consumerVars

\* Kubernetes restarts a worker, the group coordinator gives a free partition
\* to a member, and a running worker does not stop between two awaits.
Fairness ==
    \A w \in Workers :
        /\ WF_consumerVars(Start(w))
        /\ WF_consumerVars(owner = NoOwner /\ Assign(w))
        /\ WF_consumerVars(Poll(w))
        /\ WF_consumerVars(HandlerStep(w))
        /\ WF_consumerVars(ToDlq(w))
        /\ WF_consumerVars(Commit(w))

FairSpec == Spec /\ Fairness

-----------------------------------------------------------------------------
(* Properties *)

TypeOK ==
    /\ log \in Seq(Messages)
    /\ committed \in Nat \cup {NoOffset}
    /\ owner \in Workers \cup {NoOwner}
    /\ position \in [Workers -> Nat]
    /\ wpc \in [Workers -> {"down", "ready", "handling", "dlq", "commit"}]
    /\ current \in [Workers -> Nat]
    /\ attempt \in [Workers -> Nat]
    /\ handled \in SUBSET Nat
    /\ dead \in SUBSET Nat
    /\ dropped \in SUBSET Nat
    /\ faults \in Nat

\* No message is skipped: whatever lies below the committed offset was
\* processed, dead-lettered, or given up by a dead-letter failure, however
\* workers crash and however the partition is handed around.  (commit() after
\* the handler, and after _to_dlq, in _dispatch_with_retry.)
NothingSkipped ==
    committed # NoOffset => \A i \in 0 .. (committed - 1) : i \in Settled

\* The committed offset never moves back, not even when a worker that lost
\* and regained the partition finishes an old message: no message is delivered
\* again merely because an old one was committed late.
CommittedMonotonic ==
    [][committed # NoOffset => committed' # NoOffset /\ committed' >= committed]_consumerVars

\* Every published message is eventually processed or given up, although
\* workers crash and lose the partition a bounded number of times: a failing
\* message holds up the loop for at most _MAX_TRANSIENT_RETRIES retries.
EveryMessageSettled ==
    \A i \in 0 .. (MaxLog - 1) : (i < Len(log)) ~> (i \in Settled)

=============================================================================
