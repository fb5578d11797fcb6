---------------------- MODULE TrajectoryRecorderProofs ----------------------
(***************************************************************************)
(* What TrajectoryRecorder does for any number of requests, trajectories,  *)
(* identifiers and payloads.                                               *)
(***************************************************************************)
EXTENDS TrajectoryRecorder, TLAPS

-----------------------------------------------------------------------------
(* The inductive invariant                                                 *)

\* A request between its write and its commit holds the row it has written.
HoldLabels == {"commit_row", "insert_event", "commit_event", "commit_status"}

HoldsRow == \A c \in Requests : pc[c] \in HoldLabels => lock[call[c].run] = c

\* Where a request is says what it was called with, and that the trajectory it
\* has read exists.
CallOfLabel ==
    \A c \in Requests :
        /\ pc[c] \in {"insert_row", "reread_row", "commit_row"} => call[c] \in StartCalls
        /\ pc[c] \in {"lookup", "allocate", "insert_event", "reread_event", "commit_event"} =>
              call[c] \in AppendCalls /\ rows[call[c].run] # NoRow
        /\ pc[c] \in {"update_status", "commit_status"} =>
              call[c] \in TransitionCalls /\ rows[call[c].run] # NoRow

\* What a request has found out about the row it holds is still so: the row is
\* absent, or RUNNING with the number before the one that was allocated.
RowOfLabel ==
    \A c \in Requests :
        /\ pc[c] = "commit_row" => rows[call[c].run] = NoRow
        /\ pc[c] \in {"insert_event", "commit_event", "commit_status"} =>
              rows[call[c].run].status = "running"
        /\ pc[c] \in {"insert_event", "commit_event"} =>
              seq[c] = rows[call[c].run].next + 1

\* The numbers of the committed events, in a form without set comprehension.
NumberedRun(r) ==
    /\ rows[r] = NoRow => events[r] = {}
    /\ rows[r] # NoRow =>
          /\ \A e \in events[r] : e.seq \in 1 .. rows[r].next
          /\ \A n \in 1 .. rows[r].next : \E e \in events[r] : e.seq = n
          /\ \A e, f \in events[r] : e.seq = f.seq => e = f

Numbered == \A r \in Runs : NumberedRun(r)

IInv == TypeOK /\ HoldsRow /\ CallOfLabel /\ RowOfLabel /\ Numbered

-----------------------------------------------------------------------------
\* A start either answers or goes on to insert; it writes nothing.
LEMMA StartTrajectoryInv ==
    ASSUME IInv, NEW c \in Requests, StartTrajectory(c)
    PROVE  IInv'
<1>1. TypeOK'
  BY RecorderConstants, SMTT(30) DEF IInv, TypeOK, Labels, Answers, Calls, StartCalls,
       AppendCalls, TransitionCalls, Rows, Events, StartTrajectory, Answer, Goto, Take,
       Free, Release, ConflictsWithExisting, AnswerExisting
<1>2. HoldsRow'
  BY RecorderConstants DEF IInv, HoldsRow, HoldLabels, TypeOK, CallOfLabel,
         StartCalls, AppendCalls, TransitionCalls, StartTrajectory, Answer, Goto, Take,
         Free, Release, ConflictsWithExisting, AnswerExisting
<1>3. CallOfLabel'
  BY RecorderConstants DEF IInv, CallOfLabel, TypeOK, StartCalls, AppendCalls,
       TransitionCalls, StartTrajectory, Answer, Goto, Take, Free, Release,
       ConflictsWithExisting, AnswerExisting
<1>4. RowOfLabel'
  BY RecorderConstants DEF IInv, RowOfLabel, CallOfLabel, HoldsRow, HoldLabels, TypeOK,
       StartCalls, AppendCalls, TransitionCalls, StartTrajectory, Answer, Goto, Take,
       Free, Release, ConflictsWithExisting, AnswerExisting
<1>5. Numbered'
  BY RecorderConstants DEF IInv, Numbered, NumberedRun, TypeOK, StartTrajectory, Answer,
       Goto, Take, Free, Release, ConflictsWithExisting, AnswerExisting
<1> QED
  BY <1>1, <1>2, <1>3, <1>4, <1>5 DEF IInv

\* An insert takes the key of a trajectory that nobody holds.
LEMMA InsertTrajectoryInv ==
    ASSUME IInv, NEW c \in Requests, InsertTrajectory(c)
    PROVE  IInv'
<1>1. TypeOK'
  BY RecorderConstants DEF IInv, TypeOK, Labels, Answers, Calls, StartCalls,
       AppendCalls, TransitionCalls, Rows, Events, InsertTrajectory, Answer, Goto, Take,
       Free, Release
<1>2. HoldsRow'
  BY RecorderConstants DEF IInv, HoldsRow, HoldLabels, TypeOK, CallOfLabel,
         StartCalls, AppendCalls, TransitionCalls, InsertTrajectory, Answer, Goto, Take,
         Free, Release
<1>3. CallOfLabel'
  BY RecorderConstants DEF IInv, CallOfLabel, TypeOK, StartCalls, AppendCalls,
       TransitionCalls, InsertTrajectory, Answer, Goto, Take, Free, Release
<1>4. RowOfLabel'
  BY RecorderConstants DEF IInv, RowOfLabel, CallOfLabel, HoldsRow, HoldLabels, TypeOK,
       StartCalls, AppendCalls, TransitionCalls, InsertTrajectory, Answer, Goto, Take,
       Free, Release
<1>5. Numbered'
  BY RecorderConstants DEF IInv, Numbered, NumberedRun, TypeOK, InsertTrajectory,
       Answer, Goto, Take, Free, Release
<1> QED
  BY <1>1, <1>2, <1>3, <1>4, <1>5 DEF IInv

\* The loser of a start race only answers.
LEMMA RereadTrajectoryInv ==
    ASSUME IInv, NEW c \in Requests, RereadTrajectory(c)
    PROVE  IInv'
<1>1. TypeOK'
  BY RecorderConstants DEF IInv, TypeOK, Labels, Answers, Calls, StartCalls,
       AppendCalls, TransitionCalls, Rows, Events, RereadTrajectory, Answer, Goto, Take,
       Free, Release, AnswerExisting
<1>2. HoldsRow'
  BY RecorderConstants DEF IInv, HoldsRow, HoldLabels, TypeOK, CallOfLabel,
         StartCalls, AppendCalls, TransitionCalls, RereadTrajectory, Answer, Goto, Take,
         Free, Release, AnswerExisting
<1>3. CallOfLabel'
  BY RecorderConstants DEF IInv, CallOfLabel, TypeOK, StartCalls, AppendCalls,
       TransitionCalls, RereadTrajectory, Answer, Goto, Take, Free, Release,
       AnswerExisting
<1>4. RowOfLabel'
  BY RecorderConstants DEF IInv, RowOfLabel, CallOfLabel, HoldsRow, HoldLabels, TypeOK,
       StartCalls, AppendCalls, TransitionCalls, RereadTrajectory, Answer, Goto, Take,
       Free, Release, AnswerExisting
<1>5. Numbered'
  BY RecorderConstants DEF IInv, Numbered, NumberedRun, TypeOK, RereadTrajectory,
       Answer, Goto, Take, Free, Release, AnswerExisting
<1> QED
  BY <1>1, <1>2, <1>3, <1>4, <1>5 DEF IInv

\* The committed trajectory is new and has no events, so no number either.
LEMMA CommitTrajectoryInv ==
    ASSUME IInv, NEW c \in Requests, CommitTrajectory(c)
    PROVE  IInv'
<1>1. TypeOK'
  BY RecorderConstants DEF IInv, TypeOK, CallOfLabel, Labels, Answers, Calls, StartCalls,
         AppendCalls, TransitionCalls, Rows, Events,
         CommitTrajectory, Answer, Goto, Take, Free, Release, NewRow
<1>2. HoldsRow'
  BY RecorderConstants DEF IInv, HoldsRow, HoldLabels, TypeOK, CallOfLabel,
         StartCalls, AppendCalls, TransitionCalls, CommitTrajectory, Answer, Goto, Take,
         Free, Release, NewRow
<1>3. CallOfLabel'
  BY RecorderConstants DEF IInv, CallOfLabel, TypeOK, StartCalls, AppendCalls,
       TransitionCalls, CommitTrajectory, Answer, Goto, Take, Free, Release, NewRow
<1>4. RowOfLabel'
  BY RecorderConstants DEF IInv, RowOfLabel, CallOfLabel, HoldsRow, HoldLabels, TypeOK,
       StartCalls, AppendCalls, TransitionCalls, CommitTrajectory, Answer, Goto, Take,
       Free, Release, NewRow
<1>5. Numbered'
  <2> SUFFICES ASSUME NEW r \in Runs PROVE NumberedRun(r)'
    BY DEF Numbered
  <2>1. call[c].run \in Runs /\ rows[call[c].run] = NoRow /\ events[call[c].run] = {}
    BY DEF IInv, CallOfLabel, RowOfLabel, Numbered, NumberedRun, StartCalls,
         CommitTrajectory
  <2>2. CASE r = call[c].run
    <3>1. rows'[r] = NewRow(call[c].environment) /\ events'[r] = {}
      BY <2>1, <2>2 DEF IInv, TypeOK, CommitTrajectory
    <3> QED
      BY <3>1 DEF NumberedRun, NewRow
  <2>3. CASE r # call[c].run
    <3>1. rows'[r] = rows[r] /\ events'[r] = events[r]
      BY <2>3 DEF IInv, TypeOK, CommitTrajectory
    <3> QED
      BY <3>1 DEF IInv, Numbered, NumberedRun
  <2> QED
    BY <2>2, <2>3
<1> QED
  BY <1>1, <1>2, <1>3, <1>4, <1>5 DEF IInv

\* The first read of an append fixes its call and that the row exists.
LEMMA AppendEventInv ==
    ASSUME IInv, NEW c \in Requests, AppendEvent(c)
    PROVE  IInv'
<1>1. TypeOK'
  BY RecorderConstants DEF IInv, TypeOK, Labels, Answers, Calls, StartCalls,
       AppendCalls, TransitionCalls, Rows, Events, AppendEvent, Answer, Goto, Take,
       Free, Release, Acceptable, ParentKnown, UnknownEvent
<1>2. HoldsRow'
  BY RecorderConstants DEF IInv, HoldsRow, HoldLabels, TypeOK, CallOfLabel,
         StartCalls, AppendCalls, TransitionCalls, AppendEvent, Answer, Goto, Take,
         Free, Release, Acceptable, ParentKnown, UnknownEvent
<1>3. CallOfLabel'
  <2>1. PICK r \in Runs, x \in ExternalIds \cup {None}, p \in Payloads :
          \E parent \in {e.seq : e \in events[r]} \cup {UnknownEvent, None} :
              /\ call' = [call EXCEPT ![c] =
                             [op |-> "append", run |-> r, ext |-> x,
                              payload |-> p, parent |-> parent]]
              /\ rows[r] # NoRow \/ Answer(c, "not_found")
    BY Zenon DEF AppendEvent
  <2>2. PICK parent \in {e.seq : e \in events[r]} \cup {UnknownEvent, None} :
              /\ call' = [call EXCEPT ![c] =
                             [op |-> "append", run |-> r, ext |-> x,
                              payload |-> p, parent |-> parent]]
              /\ rows[r] # NoRow \/ Answer(c, "not_found")
    BY <2>1
  <2>3. parent \in Nat \cup {None}
    BY DEF IInv, TypeOK, Events, UnknownEvent
  <2>4. call'[c] \in AppendCalls /\ call'[c].run = r
    BY <2>2, <2>3 DEF IInv, TypeOK, AppendCalls
  <2>5. pc'[c] \in {"done", "allocate", "lookup"} /\ rows' = rows
    BY DEF IInv, TypeOK, AppendEvent, Answer, Goto
  <2>6. \A d \in Requests : d # c => pc'[d] = pc[d] /\ call'[d] = call[d]
    BY DEF IInv, TypeOK, AppendEvent, Answer, Goto
  <2> QED
    BY <2>2, <2>4, <2>5, <2>6 DEF IInv, TypeOK, CallOfLabel, Answer, Goto
<1>4. RowOfLabel'
  BY RecorderConstants DEF IInv, RowOfLabel, CallOfLabel, HoldsRow, HoldLabels, TypeOK,
       StartCalls, AppendCalls, TransitionCalls, AppendEvent, Answer, Goto, Take, Free,
       Release, Acceptable, ParentKnown, UnknownEvent
<1>5. Numbered'
  BY RecorderConstants DEF IInv, Numbered, NumberedRun, TypeOK, AppendEvent, Answer,
       Goto, Take, Free, Release, Acceptable, ParentKnown, UnknownEvent
<1> QED
  BY <1>1, <1>2, <1>3, <1>4, <1>5 DEF IInv

\* The lookup answers with the number of an event on record, or goes on.
LEMMA LookUpEventInv ==
    ASSUME IInv, NEW c \in Requests, LookUpEvent(c)
    PROVE  IInv'
<1>1. TypeOK'
  <2>1. seq' \in [Requests -> Nat]
    <3>1. call[c] \in AppendCalls /\ call[c].run \in Runs
      BY DEF IInv, CallOfLabel, AppendCalls, LookUpEvent
    <3>2. CASE seq' = seq
      BY <3>2 DEF IInv, TypeOK
    <3>3. CASE \E e \in events[call[c].run] : seq' = [seq EXCEPT ![c] = e.seq]
      BY <3>1, <3>3 DEF IInv, TypeOK, Events
    <3> QED
      BY <3>2, <3>3 DEF LookUpEvent, ReconcileDuplicate, EventsWithId
  <2>2. pc' \in [Requests -> Labels] /\ answer' \in [Requests -> Answers]
    BY DEF IInv, TypeOK, LookUpEvent, ReconcileDuplicate, Answer, Goto, Labels, Answers
  <2> QED
    BY <2>1, <2>2 DEF IInv, TypeOK, LookUpEvent
<1>2. HoldsRow'
  BY RecorderConstants DEF IInv, HoldsRow, HoldLabels, TypeOK, CallOfLabel,
         StartCalls, AppendCalls, TransitionCalls, LookUpEvent, Answer, Goto, Take,
         Free, Release, ReconcileDuplicate
<1>3. CallOfLabel'
  BY RecorderConstants DEF IInv, CallOfLabel, TypeOK, StartCalls, AppendCalls,
       TransitionCalls, LookUpEvent, Answer, Goto, Take, Free, Release,
       ReconcileDuplicate
<1>4. RowOfLabel'
  BY RecorderConstants DEF IInv, RowOfLabel, CallOfLabel, HoldsRow, HoldLabels, TypeOK,
       StartCalls, AppendCalls, TransitionCalls, LookUpEvent, Answer, Goto, Take, Free,
       Release, ReconcileDuplicate
<1>5. Numbered'
  BY RecorderConstants DEF IInv, Numbered, NumberedRun, TypeOK, LookUpEvent, Answer,
       Goto, Take, Free, Release, ReconcileDuplicate
<1> QED
  BY <1>1, <1>2, <1>3, <1>4, <1>5 DEF IInv

\* The allocation takes a RUNNING row and the number after its last.
LEMMA AllocateSequenceInv ==
    ASSUME IInv, NEW c \in Requests, AllocateSequence(c)
    PROVE  IInv'
<1>1. TypeOK'
  BY RecorderConstants DEF IInv, TypeOK, CallOfLabel, Labels, Answers, Calls, StartCalls,
         AppendCalls, TransitionCalls, Rows, Events,
         AllocateSequence, Answer, Goto, Take, Free, Release
<1>2. HoldsRow'
  BY RecorderConstants DEF IInv, HoldsRow, HoldLabels, TypeOK, CallOfLabel,
         StartCalls, AppendCalls, TransitionCalls, AllocateSequence, Answer, Goto, Take,
         Free, Release
<1>3. CallOfLabel'
  BY RecorderConstants DEF IInv, CallOfLabel, TypeOK, StartCalls, AppendCalls,
       TransitionCalls, AllocateSequence, Answer, Goto, Take, Free, Release
<1>4. RowOfLabel'
  BY RecorderConstants DEF IInv, RowOfLabel, CallOfLabel, HoldsRow, HoldLabels, TypeOK,
       StartCalls, AppendCalls, TransitionCalls, AllocateSequence, Answer, Goto, Take,
       Free, Release
<1>5. Numbered'
  BY RecorderConstants DEF IInv, Numbered, NumberedRun, TypeOK, AllocateSequence,
       Answer, Goto, Take, Free, Release
<1> QED
  BY <1>1, <1>2, <1>3, <1>4, <1>5 DEF IInv

\* The insert goes on with the row, or lets go of it.
LEMMA InsertEventInv ==
    ASSUME IInv, NEW c \in Requests, InsertEvent(c)
    PROVE  IInv'
<1>1. TypeOK'
  BY RecorderConstants DEF IInv, TypeOK, Labels, Answers, Calls, StartCalls,
       AppendCalls, TransitionCalls, Rows, Events, InsertEvent, Answer, Goto, Take,
       Free, Release
<1>2. HoldsRow'
  BY RecorderConstants DEF IInv, HoldsRow, HoldLabels, TypeOK, CallOfLabel,
         StartCalls, AppendCalls, TransitionCalls, InsertEvent, Answer, Goto, Take,
         Free, Release
<1>3. CallOfLabel'
  BY RecorderConstants DEF IInv, CallOfLabel, TypeOK, StartCalls, AppendCalls,
       TransitionCalls, InsertEvent, Answer, Goto, Take, Free, Release
<1>4. RowOfLabel'
  BY RecorderConstants DEF IInv, RowOfLabel, CallOfLabel, HoldsRow, HoldLabels, TypeOK,
       StartCalls, AppendCalls, TransitionCalls, InsertEvent, Answer, Goto, Take, Free,
       Release
<1>5. Numbered'
  BY RecorderConstants DEF IInv, Numbered, NumberedRun, TypeOK, InsertEvent, Answer,
       Goto, Take, Free, Release
<1> QED
  BY <1>1, <1>2, <1>3, <1>4, <1>5 DEF IInv

\* The loser of an append race only answers.
LEMMA RereadEventInv ==
    ASSUME IInv, NEW c \in Requests, RereadEvent(c)
    PROVE  IInv'
<1>1. TypeOK'
  BY RecorderConstants DEF IInv, TypeOK, Labels, Answers, Calls, StartCalls,
       AppendCalls, TransitionCalls, Rows, Events, RereadEvent, Answer, Goto, Take,
       Free, Release
<1>2. HoldsRow'
  BY RecorderConstants DEF IInv, HoldsRow, HoldLabels, TypeOK, CallOfLabel,
         StartCalls, AppendCalls, TransitionCalls, RereadEvent, Answer, Goto, Take,
         Free, Release
<1>3. CallOfLabel'
  BY RecorderConstants DEF IInv, CallOfLabel, TypeOK, StartCalls, AppendCalls,
       TransitionCalls, RereadEvent, Answer, Goto, Take, Free, Release
<1>4. RowOfLabel'
  BY RecorderConstants DEF IInv, RowOfLabel, CallOfLabel, HoldsRow, HoldLabels, TypeOK,
       StartCalls, AppendCalls, TransitionCalls, RereadEvent, Answer, Goto, Take, Free,
       Release
<1>5. Numbered'
  BY RecorderConstants DEF IInv, Numbered, NumberedRun, TypeOK, RereadEvent, Answer,
       Goto, Take, Free, Release
<1> QED
  BY <1>1, <1>2, <1>3, <1>4, <1>5 DEF IInv

\* The committed event has the next number, since its request has held the
\* row from the allocation on.
LEMMA CommitEventInv ==
    ASSUME IInv, NEW c \in Requests, CommitEvent(c)
    PROVE  IInv'
<1>1. TypeOK'
  <2>1. call[c] \in AppendCalls /\ rows[call[c].run] \in Rows
    BY DEF IInv, TypeOK, CallOfLabel, AppendCalls, CommitEvent
  <2>2. rows' \in [Runs -> Rows \cup {NoRow}]
    BY <2>1 DEF IInv, TypeOK, CommitEvent, Rows, AppendCalls
  <2>3. NewEvent(c) \in Events
    BY <2>1 DEF IInv, TypeOK, NewEvent, Events, AppendCalls, compute_event_hash,
         StoredValues
  <2>4. DOMAIN events' = Runs /\ \A r \in Runs : events'[r] \subseteq Events
    BY <2>1, <2>3 DEF IInv, TypeOK, CommitEvent, AppendCalls
  <2> QED
    BY <2>2, <2>4 DEF IInv, TypeOK, CommitEvent, Labels, Answers, Answer, Goto, Release
<1>2. HoldsRow'
  BY RecorderConstants DEF IInv, HoldsRow, HoldLabels, TypeOK, CallOfLabel,
         StartCalls, AppendCalls, TransitionCalls, CommitEvent, Answer, Goto, Take,
         Free, Release, NewEvent, compute_event_hash
<1>3. CallOfLabel'
  <2>1. \A r \in Runs : rows[r] # NoRow => rows'[r] # NoRow
    BY RecorderConstants DEF IInv, TypeOK, CallOfLabel, Labels, Answers, Calls, StartCalls,
         AppendCalls, TransitionCalls, Rows, Events,
         CommitEvent
  <2> QED
    BY <2>1 DEF IInv, TypeOK, CallOfLabel, StartCalls, AppendCalls, TransitionCalls,
         CommitEvent, Answer, Goto
<1>4. RowOfLabel'
  BY RecorderConstants DEF IInv, RowOfLabel, CallOfLabel, HoldsRow, HoldLabels, TypeOK,
       StartCalls, AppendCalls, TransitionCalls, CommitEvent, Answer, Goto, Take, Free,
       Release, NewEvent, compute_event_hash
<1>5. Numbered'
  <2> SUFFICES ASSUME NEW r \in Runs PROVE NumberedRun(r)'
    BY DEF Numbered
  <2> DEFINE n == rows[r].next
  <2>1. CASE r = call[c].run
    <3>1. rows[r] \in Rows /\ rows[r] # NoRow /\ n \in Nat /\ seq[c] = n + 1
      BY <2>1 DEF IInv, TypeOK, CallOfLabel, RowOfLabel, CommitEvent, Rows
    <3>2. /\ events'[r] = events[r] \cup {NewEvent(c)}
          /\ rows'[r] = [rows[r] EXCEPT !.next = n + 1]
      BY <2>1, <3>1 DEF IInv, TypeOK, CommitEvent
    <3>3. rows'[r].next = n + 1
      BY <3>1, <3>2 DEF Rows
    <3>4. NewEvent(c).seq = n + 1
      BY <3>1 DEF NewEvent
    <3>5. /\ \A e \in events[r] : e.seq \in 1 .. n
          /\ \A k \in 1 .. n : \E e \in events[r] : e.seq = k
          /\ \A e, f \in events[r] : e.seq = f.seq => e = f
      BY <3>1 DEF IInv, Numbered, NumberedRun
    <3>6. \A e \in events'[r] : e.seq \in 1 .. (n + 1)
      BY <3>1, <3>2, <3>4, <3>5
    <3>7. \A k \in 1 .. (n + 1) : \E e \in events'[r] : e.seq = k
      BY <3>1, <3>2, <3>4, <3>5
    <3>8. \A e, f \in events'[r] : e.seq = f.seq => e = f
      BY <3>1, <3>2, <3>4, <3>5
    <3>9. rows'[r] # NoRow
      BY RecorderConstants, <3>1, <3>2 DEF Rows
    <3> QED
      BY <3>3, <3>6, <3>7, <3>8, <3>9 DEF NumberedRun
  <2>2. CASE r # call[c].run
    <3>1. rows'[r] = rows[r] /\ events'[r] = events[r]
      BY <2>2 DEF IInv, TypeOK, CommitEvent
    <3> QED
      BY <3>1 DEF IInv, Numbered, NumberedRun
  <2> QED
    BY <2>1, <2>2
<1> QED
  BY <1>1, <1>2, <1>3, <1>4, <1>5 DEF IInv

\* The first read of a transition fixes its call and that the row exists.
LEMMA TransitionInv ==
    ASSUME IInv, NEW c \in Requests, Transition(c)
    PROVE  IInv'
<1>1. TypeOK'
  BY RecorderConstants DEF IInv, TypeOK, Labels, Answers, Calls, StartCalls,
       AppendCalls, TransitionCalls, Rows, Events, Transition, Answer, Goto, Take, Free,
       Release, ValidTransition
<1>2. HoldsRow'
  BY RecorderConstants DEF IInv, HoldsRow, HoldLabels, TypeOK, CallOfLabel,
         StartCalls, AppendCalls, TransitionCalls, Transition, Answer, Goto, Take, Free,
         Release, ValidTransition
<1>3. CallOfLabel'
  BY RecorderConstants DEF IInv, CallOfLabel, TypeOK, StartCalls, AppendCalls,
       TransitionCalls, Transition, Answer, Goto, Take, Free, Release, ValidTransition
<1>4. RowOfLabel'
  BY RecorderConstants DEF IInv, RowOfLabel, CallOfLabel, HoldsRow, HoldLabels, TypeOK,
       StartCalls, AppendCalls, TransitionCalls, Transition, Answer, Goto, Take, Free,
       Release, ValidTransition
<1>5. Numbered'
  BY RecorderConstants DEF IInv, Numbered, NumberedRun, TypeOK, Transition, Answer,
       Goto, Take, Free, Release, ValidTransition
<1> QED
  BY <1>1, <1>2, <1>3, <1>4, <1>5 DEF IInv

\* The conditional UPDATE takes a RUNNING row.
LEMMA TransitionStatusInv ==
    ASSUME IInv, NEW c \in Requests, TransitionStatus(c)
    PROVE  IInv'
<1>1. TypeOK'
  BY RecorderConstants DEF IInv, TypeOK, Labels, Answers, Calls, StartCalls,
       AppendCalls, TransitionCalls, Rows, Events, TransitionStatus, Answer, Goto, Take,
       Free, Release
<1>2. HoldsRow'
  BY RecorderConstants DEF IInv, HoldsRow, HoldLabels, TypeOK, CallOfLabel,
         StartCalls, AppendCalls, TransitionCalls, TransitionStatus, Answer, Goto, Take,
         Free, Release
<1>3. CallOfLabel'
  BY RecorderConstants DEF IInv, CallOfLabel, TypeOK, StartCalls, AppendCalls,
       TransitionCalls, TransitionStatus, Answer, Goto, Take, Free, Release
<1>4. RowOfLabel'
  BY RecorderConstants DEF IInv, RowOfLabel, CallOfLabel, HoldsRow, HoldLabels, TypeOK,
       StartCalls, AppendCalls, TransitionCalls, TransitionStatus, Answer, Goto, Take,
       Free, Release
<1>5. Numbered'
  BY RecorderConstants DEF IInv, Numbered, NumberedRun, TypeOK, TransitionStatus,
       Answer, Goto, Take, Free, Release
<1> QED
  BY <1>1, <1>2, <1>3, <1>4, <1>5 DEF IInv

\* The committed status leaves the numbers of the trajectory alone.
LEMMA CommitTransitionInv ==
    ASSUME IInv, NEW c \in Requests, CommitTransition(c)
    PROVE  IInv'
<1>1. TypeOK'
  <2>1. call[c] \in TransitionCalls /\ rows[call[c].run] \in Rows
    BY DEF IInv, TypeOK, CallOfLabel, TransitionCalls, CommitTransition
  <2>2. rows' \in [Runs -> Rows \cup {NoRow}]
    BY <2>1 DEF IInv, TypeOK, CommitTransition, Rows, TransitionCalls
  <2> QED
    BY <2>2 DEF IInv, TypeOK, CommitTransition, Labels, Answers, Answer, Goto, Release
<1>2. HoldsRow'
  BY RecorderConstants DEF IInv, HoldsRow, HoldLabels, TypeOK, CallOfLabel,
         StartCalls, AppendCalls, TransitionCalls, CommitTransition, Answer, Goto, Take,
         Free, Release
<1>3. CallOfLabel'
  <2>1. \A r \in Runs : rows[r] # NoRow => rows'[r] # NoRow
    BY RecorderConstants DEF IInv, TypeOK, CallOfLabel, Labels, Answers, Calls, StartCalls,
         AppendCalls, TransitionCalls, Rows, Events,
         CommitTransition
  <2> QED
    BY <2>1 DEF IInv, TypeOK, CallOfLabel, StartCalls, AppendCalls, TransitionCalls,
         CommitTransition, Answer, Goto
<1>4. RowOfLabel'
  BY RecorderConstants DEF IInv, RowOfLabel, CallOfLabel, HoldsRow, HoldLabels, TypeOK,
       StartCalls, AppendCalls, TransitionCalls, CommitTransition, Answer, Goto, Take,
       Free, Release
<1>5. Numbered'
  <2>1. events' = events
    BY DEF CommitTransition
  <2>2. \A r \in Runs : (rows[r] = NoRow <=> rows'[r] = NoRow) /\ rows'[r].next = rows[r].next
    BY RecorderConstants DEF IInv, TypeOK, CallOfLabel, TransitionCalls, Rows,
         CommitTransition
  <2> QED
    BY <2>1, <2>2 DEF IInv, Numbered, NumberedRun
<1> QED
  BY <1>1, <1>2, <1>3, <1>4, <1>5 DEF IInv

\* A rollback lets go of what the request holds and nothing else.
LEMMA AbortInv ==
    ASSUME IInv, NEW c \in Requests, Abort(c)
    PROVE  IInv'
<1>1. TypeOK'
  BY RecorderConstants DEF IInv, TypeOK, Labels, Answers, Calls, StartCalls,
       AppendCalls, TransitionCalls, Rows, Events, Abort, Answer, Goto, Take, Free,
       Release
<1>2. HoldsRow'
  BY RecorderConstants DEF IInv, HoldsRow, HoldLabels, TypeOK, CallOfLabel,
         StartCalls, AppendCalls, TransitionCalls, Abort, Answer, Goto, Take, Free, Release
<1>3. CallOfLabel'
  BY RecorderConstants DEF IInv, CallOfLabel, TypeOK, StartCalls, AppendCalls,
       TransitionCalls, Abort, Answer, Goto, Take, Free, Release
<1>4. RowOfLabel'
  BY RecorderConstants DEF IInv, RowOfLabel, CallOfLabel, HoldsRow, HoldLabels, TypeOK,
       StartCalls, AppendCalls, TransitionCalls, Abort, Answer, Goto, Take, Free,
       Release
<1>5. Numbered'
  BY RecorderConstants DEF IInv, Numbered, NumberedRun, TypeOK, Abort, Answer, Goto,
       Take, Free, Release
<1> QED
  BY <1>1, <1>2, <1>3, <1>4, <1>5 DEF IInv

-----------------------------------------------------------------------------
\* The invariant holds initially.
LEMMA InitInv == Init => IInv
<1> SUFFICES ASSUME Init PROVE IInv
  OBVIOUS
<1>1. TypeOK
  <2>1. rows \in [Runs -> Rows \cup {NoRow}]
    BY DEF Init, NewRow, Rows
  <2> QED
    BY <2>1 DEF Init, TypeOK, Labels, Answers
<1>2. HoldsRow /\ CallOfLabel /\ RowOfLabel
  BY DEF Init, HoldsRow, HoldLabels, CallOfLabel, RowOfLabel
<1>3. Numbered
  BY DEF Init, Numbered, NumberedRun, NewRow
<1> QED
  BY <1>1, <1>2, <1>3 DEF IInv

\* Every step preserves the invariant, one lemma per action.
LEMMA StepInv == IInv /\ [Next]_vars => IInv'
<1> SUFFICES ASSUME IInv, [Next]_vars PROVE IInv'
  OBVIOUS
<1>1. CASE UNCHANGED vars
  <2>1. TypeOK' /\ HoldsRow' /\ CallOfLabel' /\ RowOfLabel'
    BY <1>1 DEF IInv, TypeOK, HoldsRow, CallOfLabel, RowOfLabel, vars
  <2>2. Numbered'
    BY <1>1 DEF IInv, Numbered, NumberedRun, vars
  <2> QED
    BY <2>1, <2>2 DEF IInv
<1>2. CASE Next
  <2>1. PICK c \in Requests : Call(c) \/ Step(c) \/ Abort(c)
    BY <1>2 DEF Next
  <2> QED
    BY <2>1, StartTrajectoryInv, InsertTrajectoryInv, RereadTrajectoryInv,
         CommitTrajectoryInv,
         AppendEventInv, LookUpEventInv, AllocateSequenceInv, InsertEventInv,
         RereadEventInv, CommitEventInv, TransitionInv,
         TransitionStatusInv, CommitTransitionInv, AbortInv
       DEF Call, Step
<1> QED
  BY <1>1, <1>2

\* The inductive invariant is an invariant of the recorder.
THEOREM RecorderInvariant == Spec => []IInv
<1>1. Init => IInv
  BY InitInv
<1>2. IInv /\ [Next]_vars => IInv'
  BY StepInv
<1> QED
  BY <1>1, <1>2, PTL DEF Spec

\* Every variable of the recorder keeps its type.
THEOREM RecorderTypeOK == Spec => []TypeOK
<1>1. IInv => TypeOK
  BY DEF IInv
<1> QED
  BY <1>1, RecorderInvariant, PTL

\* allocate_sequence: the events of a trajectory are numbered from 1 to
\* next_sequence, without gaps and without repetition, for any number of
\* concurrent requests and wherever they are rolled back.
THEOREM RecorderGapless == Spec => []GaplessSequence
<1>1. IInv => GaplessSequence
  <2> SUFFICES ASSUME IInv, NEW r \in Runs
               PROVE  /\ {e.seq : e \in events[r]} =
                              1 .. (IF rows[r] = NoRow THEN 0 ELSE rows[r].next)
                      /\ \A e, f \in events[r] : e.seq = f.seq => e = f
    BY DEF GaplessSequence
  <2>1. NumberedRun(r)
    BY DEF IInv, Numbered
  <2>2. CASE rows[r] = NoRow
    BY <2>1, <2>2 DEF NumberedRun
  <2>3. CASE rows[r] # NoRow
    BY <2>1, <2>3 DEF NumberedRun
  <2> QED
    BY <2>2, <2>3
<1> QED
  BY <1>1, RecorderInvariant, PTL

\* A step leaves every COMPLETED or FAILED trajectory and its events as they
\* are: the row a request is about to commit to is held by it and RUNNING.
LEMMA StepFreezes ==
    ASSUME IInv, [Next]_vars, NEW r \in Runs, rows[r] # NoRow, rows[r].status # "running"
    PROVE  rows'[r] = rows[r] /\ events'[r] = events[r]
<1>1. CASE UNCHANGED <<rows, events>>
  BY <1>1
<1>2. CASE \E c \in Requests : CommitTrajectory(c)
  BY <1>2 DEF IInv, TypeOK, RowOfLabel, CommitTrajectory
<1>3. CASE \E c \in Requests : CommitEvent(c)
  BY <1>3 DEF IInv, TypeOK, RowOfLabel, CommitEvent
<1>4. CASE \E c \in Requests : CommitTransition(c)
  BY <1>4 DEF IInv, TypeOK, RowOfLabel, CommitTransition
<1> QED
  BY <1>1, <1>2, <1>3, <1>4
  DEF Next, vars, Call, Step, Abort, StartTrajectory, InsertTrajectory, RereadTrajectory,
      AppendEvent, LookUpEvent, AllocateSequence, InsertEvent, RereadEvent, Transition,
      TransitionStatus

\* A COMPLETED or FAILED trajectory is frozen: no concurrent append adds an
\* event to it and no concurrent transition changes its status.
THEOREM RecorderFreezesTerminal == Spec => TerminalIsFrozen
<1>1. IInv /\ [Next]_vars =>
        [\A r \in Runs : rows[r] # NoRow /\ rows[r].status # "running" =>
            rows'[r] = rows[r] /\ events'[r] = events[r]]_vars
  BY StepFreezes
<1> QED
  BY <1>1, RecorderInvariant, PTL DEF Spec, TerminalIsFrozen

-----------------------------------------------------------------------------
(* What a successful answer says                                           *)

\* An event carries the digest of its own number, and its parent came before.
EventsSound ==
    \A r \in Runs : \A e \in events[r] :
        /\ e.hash[1] = e.seq
        /\ e.parent # None => \E f \in events[r] : f.seq = e.parent /\ f.seq < e.seq

\* An append is answered with the number of the event on record.
AppendOk(c) ==
    (answer[c] = "ok" /\ call[c].op = "append") =>
        \E e \in events[call[c].run] :
            /\ e.seq = seq[c] /\ e.ext = call[c].ext
            /\ e.hash = compute_event_hash(seq[c], Stored[call[c].payload])

TransitionOk(c) ==
    (answer[c] = "ok" /\ call[c].op = "transition") =>
        rows[call[c].run] # NoRow /\ rows[call[c].run].status = call[c].target

StartOk(c) ==
    (answer[c] = "ok" /\ call[c].op = "start") =>
        /\ rows[call[c].run] # NoRow
        /\ ~ConflictsWithExisting(rows[call[c].run], call[c].environment)

\* A request is not answered before it is done; an append has read its parent,
\* and the loser of a start race finds the winner's row.
UnderWay(c) ==
    /\ pc[c] # "done" => answer[c] # "ok"
    /\ pc[c] \in {"lookup", "allocate", "insert_event", "reread_event", "commit_event"} =>
          ParentKnown(call[c].run, call[c].parent)
    /\ pc[c] = "reread_row" => rows[call[c].run] # NoRow

RequestOk(c) == AppendOk(c) /\ TransitionOk(c) /\ StartOk(c) /\ UnderWay(c)

\* One request ends a trajectory.
EndedOnce ==
    \A c, d \in Requests :
        (/\ answer[c] = "ok" /\ call[c].op = "transition"
         /\ answer[d] = "ok" /\ call[d].op = "transition" /\ call[c].run = call[d].run) => c = d

\* Only a request that was made is under way or answered.
Called == \A c \in Requests : pc[c] # "new" => call[c] \in Calls

AnswerInv == EventsSound /\ EndedOnce /\ Called /\ \A c \in Requests : RequestOk(c)

Acts(c) == Call(c) \/ Step(c) \/ Abort(c)

\* A step is the step of one request.
LEMMA OthersUnchanged ==
    ASSUME TypeOK, NEW c \in Requests, Acts(c), NEW d \in Requests, d # c
    PROVE  pc'[d] = pc[d] /\ call'[d] = call[d] /\ seq'[d] = seq[d] /\ answer'[d] = answer[d]
<1>1. ASSUME NEW l, Goto(c, l) PROVE pc'[d] = pc[d]
  BY <1>1 DEF TypeOK, Goto
<1>2. ASSUME NEW a, Answer(c, a) PROVE pc'[d] = pc[d] /\ answer'[d] = answer[d]
  BY <1>2 DEF TypeOK, Answer, Goto
<1>3. CASE Call(c)
  <2>1. pc'[d] = pc[d] /\ answer'[d] = answer[d]
    BY <1>1, <1>2, <1>3 DEF Call, StartTrajectory, AppendEvent, Transition, AnswerExisting
  <2>2. call'[d] = call[d] /\ seq'[d] = seq[d]
    BY <1>3 DEF TypeOK, Call, StartTrajectory, AppendEvent, Transition
  <2> QED
    BY <2>1, <2>2
<1>4. CASE Step(c)
  <2>1. pc'[d] = pc[d] /\ answer'[d] = answer[d]
    BY <1>1, <1>2, <1>4
       DEF Step, InsertTrajectory, RereadTrajectory, CommitTrajectory, LookUpEvent,
           AllocateSequence, InsertEvent, RereadEvent, CommitEvent, TransitionStatus,
           CommitTransition, AnswerExisting, ReconcileDuplicate
  <2>2. call'[d] = call[d] /\ seq'[d] = seq[d]
    BY <1>4
       DEF TypeOK, Step, InsertTrajectory, RereadTrajectory, CommitTrajectory, LookUpEvent,
           AllocateSequence, InsertEvent, RereadEvent, CommitEvent, TransitionStatus,
           CommitTransition, ReconcileDuplicate
  <2> QED
    BY <2>1, <2>2
<1>5. CASE Abort(c)
  BY <1>2, <1>5 DEF Abort
<1> QED
  BY <1>3, <1>4, <1>5 DEF Acts

\* What is on record stays: a row is never removed and keeps its environment,
\* an event is never removed, and a status that is not RUNNING stays.
LEMMA RecordStays ==
    ASSUME IInv, NEW c \in Requests, Acts(c), NEW r \in Runs
    PROVE  /\ events[r] \subseteq events'[r]
           /\ rows[r] # NoRow => /\ rows'[r] # NoRow
                                 /\ rows'[r].environment = rows[r].environment
                                 /\ rows[r].status # "running" => rows'[r].status = rows[r].status
<1>1. CASE UNCHANGED <<rows, events>>
  BY <1>1
<1>2. CASE CommitTrajectory(c)
  <2>1. rows[call[c].run] = NoRow /\ events' = events
    BY <1>2 DEF IInv, RowOfLabel, CommitTrajectory
  <2>2. rows[r] # NoRow => rows'[r] = rows[r]
    BY <1>2, <2>1 DEF IInv, TypeOK, CommitTrajectory
  <2> QED
    BY <2>1, <2>2
<1>3. CASE CommitEvent(c)
  <2>1. /\ events[r] \subseteq events'[r]
        /\ rows'[r] = rows[r] \/ rows'[r] = [rows[r] EXCEPT !.next = seq[c]]
    BY <1>3 DEF IInv, TypeOK, CommitEvent
  <2>2. ASSUME rows[r] # NoRow
        PROVE  /\ rows'[r] # NoRow /\ rows'[r].environment = rows[r].environment
               /\ rows'[r].status = rows[r].status
    <3>1. rows[r] \in Rows /\ seq[c] \in Nat
      BY <2>2 DEF IInv, TypeOK
    <3>2. rows'[r] \in Rows
      BY <2>1, <3>1 DEF Rows
    <3> QED
      BY <2>1, <2>2, <3>1, <3>2, RecorderConstants DEF Rows
  <2> QED
    BY <2>1, <2>2
<1>4. CASE CommitTransition(c)
  <2>1. /\ events' = events
        /\ rows'[r] = rows[r] \/ rows'[r] = [rows[r] EXCEPT !.status = call[c].target]
        /\ rows[r].status # "running" => rows'[r] = rows[r]
    BY <1>4 DEF IInv, TypeOK, CommitTransition, RowOfLabel
  <2>2. call[c].target \in {"completed", "failed"}
    BY <1>4 DEF IInv, CallOfLabel, CommitTransition, TransitionCalls
  <2>3. ASSUME rows[r] # NoRow
        PROVE  rows'[r] # NoRow /\ rows'[r].environment = rows[r].environment
    <3>1. rows[r] \in Rows
      BY <2>3 DEF IInv, TypeOK
    <3>2. rows'[r] \in Rows
      BY <2>1, <2>2, <3>1 DEF Rows
    <3> QED
      BY <2>1, <2>3, <3>1, <3>2, RecorderConstants DEF Rows
  <2> QED
    BY <2>1, <2>3
<1> QED
  BY <1>1, <1>2, <1>3, <1>4
  DEF Acts, Call, Step, Abort, StartTrajectory, InsertTrajectory, RereadTrajectory,
      AppendEvent, LookUpEvent, AllocateSequence, InsertEvent, RereadEvent, Transition,
      TransitionStatus

\* The run a request was called with.
LEMMA RunOfCall ==
    ASSUME NEW x \in Calls
    PROVE  x.run \in Runs /\ (x.op = "transition" => x \in TransitionCalls)
<1>1. /\ x \in StartCalls => x.op = "start" /\ x.run \in Runs
      /\ x \in AppendCalls => x.op = "append" /\ x.run \in Runs
      /\ x \in TransitionCalls => x.op = "transition" /\ x.run \in Runs
  BY DEF StartCalls, AppendCalls, TransitionCalls
<1> QED
  BY <1>1 DEF Calls

\* What others do leaves what a request was told true.
LEMMA OthersStayOk ==
    ASSUME IInv, Called, NEW c \in Requests, Acts(c), NEW d \in Requests, d # c, RequestOk(d)
    PROVE  RequestOk(d)'
<1>1. pc'[d] = pc[d] /\ call'[d] = call[d] /\ seq'[d] = seq[d] /\ answer'[d] = answer[d]
  BY OthersUnchanged DEF IInv
<1>2. CASE pc[d] = "new"
  BY <1>1, <1>2 DEF RequestOk, AppendOk, TransitionOk, StartOk, UnderWay
<1>3. CASE pc[d] # "new"
  <2>1. call[d] \in Calls
    BY <1>3 DEF Called
  <2>2. PICK x : x = call[d]
    OBVIOUS
  <2>3. x.run \in Runs /\ (x.op = "transition" => x \in TransitionCalls)
    BY <2>1, <2>2, RunOfCall
  <2>4. PICK r : r = x.run
    OBVIOUS
  <2>5. /\ events[r] \subseteq events'[r]
        /\ rows[r] # NoRow => /\ rows'[r] # NoRow
                              /\ rows'[r].environment = rows[r].environment
                              /\ rows[r].status # "running" => rows'[r].status = rows[r].status
    BY <2>3, <2>4, RecordStays
  <2>6. AppendOk(d)'
    BY <1>1, <2>2, <2>4, <2>5 DEF RequestOk, AppendOk
  <2>7. TransitionOk(d)'
    <3>1. x.op = "transition" => x.target # "running"
      BY <2>3 DEF TransitionCalls
    <3> QED
      BY <1>1, <2>2, <2>4, <2>5, <3>1 DEF RequestOk, TransitionOk
  <2>8. StartOk(d)'
    BY <1>1, <2>2, <2>4, <2>5 DEF RequestOk, StartOk, ConflictsWithExisting
  <2>9. UnderWay(d)'
    BY <1>1, <2>2, <2>4, <2>5 DEF RequestOk, UnderWay, ParentKnown
  <2> QED
    BY <2>6, <2>7, <2>8, <2>9 DEF RequestOk
<1> QED
  BY <1>2, <1>3

\* What the stepping request is told, and goes on with, is so.
LEMMA StartTrajectoryOk ==
    ASSUME IInv, NEW c \in Requests, RequestOk(c), StartTrajectory(c) PROVE RequestOk(c)'
<1>1. PICK r \in Runs, env \in Environments \cup {None} :
          /\ call' = [call EXCEPT ![c] = [op |-> "start", run |-> r, environment |-> env]]
          /\ \/ rows[r] # NoRow /\ AnswerExisting(c, rows[r], env)
             \/ rows[r] = NoRow /\ Goto(c, "insert_row") /\ UNCHANGED answer
  BY DEF StartTrajectory
<1>2. PICK x : x = [op |-> "start", run |-> r, environment |-> env]
  OBVIOUS
<1>3. call'[c] = x /\ rows' = rows /\ answer[c] # "ok"
  BY <1>1, <1>2 DEF IInv, TypeOK, StartTrajectory, RequestOk, UnderWay
<1>4. x.op = "start" /\ x.run = r /\ x.environment = env
  BY <1>2
<1>5. \/ /\ pc'[c] = "done" /\ rows[r] # NoRow
         /\ answer'[c] = "ok" => ~ConflictsWithExisting(rows[r], env)
      \/ pc'[c] = "insert_row" /\ answer'[c] = answer[c]
  BY <1>1 DEF IInv, TypeOK, AnswerExisting, Answer, Goto
<1> QED
  BY <1>3, <1>4, <1>5 DEF RequestOk, AppendOk, TransitionOk, StartOk, UnderWay, ConflictsWithExisting

LEMMA AppendEventOk ==
    ASSUME IInv, NEW c \in Requests, RequestOk(c), AppendEvent(c) PROVE RequestOk(c)'
<1>1. PICK r \in Runs, x \in ExternalIds \cup {None}, p \in Payloads :
       \E parent \in {e.seq : e \in events[r]} \cup {UnknownEvent, None} :
          /\ call' = [call EXCEPT ![c] =
                         [op |-> "append", run |-> r, ext |-> x, payload |-> p, parent |-> parent]]
          /\ \/ Answer(c, "not_found")
             \/ Answer(c, "invalid")
             \/ /\ ParentKnown(r, parent)
                /\ Goto(c, IF x = None THEN "allocate" ELSE "lookup")
                /\ UNCHANGED answer
  BY Zenon DEF AppendEvent
<1>2. PICK parent :
          /\ call' = [call EXCEPT ![c] =
                         [op |-> "append", run |-> r, ext |-> x, payload |-> p, parent |-> parent]]
          /\ \/ Answer(c, "not_found")
             \/ Answer(c, "invalid")
             \/ /\ ParentKnown(r, parent)
                /\ Goto(c, IF x = None THEN "allocate" ELSE "lookup")
                /\ UNCHANGED answer
  BY <1>1
<1>3. PICK y : y = [op |-> "append", run |-> r, ext |-> x, payload |-> p, parent |-> parent]
  OBVIOUS
<1>4. call'[c] = y /\ events' = events /\ answer[c] # "ok"
  BY <1>2, <1>3 DEF IInv, TypeOK, AppendEvent, RequestOk, UnderWay
<1>5. y.run = r /\ y.parent = parent
  BY <1>3
<1>6. \/ pc'[c] = "done" /\ answer'[c] \in {"not_found", "invalid"}
      \/ pc'[c] \in {"allocate", "lookup"} /\ answer'[c] = answer[c] /\ ParentKnown(r, parent)
  BY <1>2 DEF IInv, TypeOK, Answer, Goto
<1> QED
  BY <1>4, <1>5, <1>6 DEF RequestOk, AppendOk, TransitionOk, StartOk, UnderWay, ParentKnown

LEMMA TransitionStepOk ==
    ASSUME IInv, NEW c \in Requests, RequestOk(c), Transition(c) PROVE RequestOk(c)'
<1>1. answer[c] # "ok" /\ pc[c] = "new"
  BY DEF Transition, RequestOk, UnderWay
<1>2. \/ pc'[c] = "done" /\ answer'[c] \in {"not_found", "invalid"}
      \/ pc'[c] = "update_status" /\ answer'[c] = answer[c]
  BY DEF IInv, TypeOK, Transition, Answer, Goto
<1> QED
  BY <1>1, <1>2 DEF RequestOk, AppendOk, TransitionOk, StartOk, UnderWay

\* A request that goes on, or ends, without success.
LEMMA NotYetOk ==
    ASSUME IInv, NEW c \in Requests, RequestOk(c), pc[c] # "new", call' = call, events' = events,
           answer'[c] # "ok",
           pc'[c] \in {"lookup", "allocate", "insert_event", "reread_event", "commit_event"} =>
               pc[c] \in {"lookup", "allocate", "insert_event", "reread_event", "commit_event"},
           pc'[c] = "reread_row" => rows'[call[c].run] # NoRow
    PROVE  RequestOk(c)'
  BY DEF RequestOk, AppendOk, TransitionOk, StartOk, UnderWay, ParentKnown

LEMMA InsertTrajectoryOk ==
    ASSUME IInv, NEW c \in Requests, RequestOk(c), InsertTrajectory(c) PROVE RequestOk(c)'
<1>1. /\ pc[c] = "insert_row" /\ answer' = answer /\ UNCHANGED <<rows, events, call>>
      /\ pc'[c] \in {"commit_row", "reread_row"}
      /\ pc'[c] = "reread_row" => rows[call[c].run] # NoRow
  BY DEF IInv, TypeOK, InsertTrajectory, Goto
<1> QED
  BY <1>1, NotYetOk DEF RequestOk, UnderWay

LEMMA RereadTrajectoryOk ==
    ASSUME IInv, NEW c \in Requests, RequestOk(c), RereadTrajectory(c) PROVE RequestOk(c)'
<1>1. /\ pc[c] = "reread_row" /\ UNCHANGED <<rows, events, call>>
      /\ pc'[c] = "done"
      /\ answer'[c] = "ok" => ~ConflictsWithExisting(rows[call[c].run], call[c].environment)
  BY DEF IInv, TypeOK, RereadTrajectory, AnswerExisting, Answer, Goto
<1>2. call[c].op = "start" /\ rows[call[c].run] # NoRow
  BY <1>1 DEF IInv, CallOfLabel, StartCalls, RequestOk, UnderWay
<1> QED
  BY <1>1, <1>2 DEF RequestOk, AppendOk, TransitionOk, StartOk, UnderWay, ConflictsWithExisting

LEMMA CommitTrajectoryOk ==
    ASSUME IInv, NEW c \in Requests, RequestOk(c), CommitTrajectory(c) PROVE RequestOk(c)'
<1>1. call[c].op = "start" /\ call[c].run \in Runs
  BY DEF IInv, CallOfLabel, StartCalls, CommitTrajectory
<1>2. /\ call' = call /\ rows'[call[c].run] = NewRow(call[c].environment) /\ pc'[c] = "done"
      /\ rows'[call[c].run] # NoRow
  <2>1. rows'[call[c].run] = NewRow(call[c].environment)
    BY <1>1 DEF IInv, TypeOK, CommitTrajectory
  <2>2. NewRow(call[c].environment) \in Rows
    BY DEF IInv, CallOfLabel, StartCalls, CommitTrajectory, NewRow, Rows
  <2>3. NoRow \notin Rows
    BY RecorderConstants DEF Rows
  <2> QED
    BY <2>1, <2>2, <2>3 DEF IInv, TypeOK, CommitTrajectory, Answer, Goto
<1>3. rows'[call[c].run].environment = call[c].environment
  BY <1>2 DEF NewRow
<1> QED
  BY <1>1, <1>2, <1>3
     DEF RequestOk, AppendOk, TransitionOk, StartOk, UnderWay, ConflictsWithExisting

\* A retry of an append is answered with the event on record: the digest that
\* agrees is that of the event's own number and of what the retry would store.
LEMMA LookUpEventOk ==
    ASSUME IInv, NEW c \in Requests, RequestOk(c), LookUpEvent(c) PROVE RequestOk(c)'
<1>1. pc[c] = "lookup" /\ UNCHANGED <<rows, events, call>> /\ answer[c] # "ok"
  BY DEF LookUpEvent, RequestOk, UnderWay
<1>2. call[c] \in AppendCalls /\ call[c].op = "append"
  BY <1>1 DEF IInv, CallOfLabel, AppendCalls
<1>3. CASE pc'[c] = "allocate" /\ answer' = answer
  BY <1>1, <1>3, NotYetOk
<1>4. CASE \E existing \in EventsWithId(call[c].run, call[c].ext) : ReconcileDuplicate(c, existing)
  <2>1. PICK existing \in EventsWithId(call[c].run, call[c].ext) : ReconcileDuplicate(c, existing)
    BY <1>4
  <2>2. existing \in events[call[c].run] /\ existing.ext = call[c].ext
    BY DEF EventsWithId
  <2>3. pc'[c] = "done" /\ answer'[c] \in {"ok", "duplicate"}
    BY <2>1 DEF IInv, TypeOK, ReconcileDuplicate, Answer, Goto
  <2>4. answer'[c] = "ok" => /\ seq'[c] = existing.seq
                             /\ existing.hash = compute_event_hash(existing.seq, Stored[call[c].payload])
    BY <2>1 DEF IInv, TypeOK, ReconcileDuplicate, Answer, Goto
  <2>5. AppendOk(c)'
    BY <1>1, <2>2, <2>4 DEF AppendOk, compute_event_hash
  <2> QED
    BY <1>1, <1>2, <2>3, <2>5 DEF RequestOk, TransitionOk, StartOk, UnderWay
<1> QED
  BY <1>3, <1>4 DEF LookUpEvent, IInv, TypeOK, Goto

LEMMA AllocateSequenceOk ==
    ASSUME IInv, NEW c \in Requests, RequestOk(c), AllocateSequence(c) PROVE RequestOk(c)'
<1>1. /\ pc[c] = "allocate" /\ UNCHANGED <<rows, events, call>>
      /\ pc'[c] \in {"insert_event", "done"}
      /\ answer'[c] = answer[c] \/ answer'[c] = "terminal"
  BY DEF IInv, TypeOK, AllocateSequence, Answer, Goto
<1> QED
  BY <1>1, NotYetOk DEF RequestOk, UnderWay

LEMMA InsertEventOk ==
    ASSUME IInv, NEW c \in Requests, RequestOk(c), InsertEvent(c) PROVE RequestOk(c)'
<1>1. /\ pc[c] = "insert_event" /\ UNCHANGED <<rows, events, call, answer>>
      /\ pc'[c] \in {"commit_event", "reread_event"}
  BY DEF IInv, TypeOK, InsertEvent, Goto
<1> QED
  BY <1>1, NotYetOk DEF RequestOk, UnderWay

\* The loser of an append race is answered with success only if the digest on
\* record is that of its own number, so the event on record has that number.
LEMMA RereadEventOk ==
    ASSUME IInv, EventsSound, NEW c \in Requests, RequestOk(c), RereadEvent(c) PROVE RequestOk(c)'
<1>1. pc[c] = "reread_event" /\ UNCHANGED <<rows, events, call, seq>> /\ pc'[c] = "done"
  BY DEF IInv, TypeOK, RereadEvent, Answer, Goto
<1>2. call[c] \in AppendCalls /\ call[c].op = "append" /\ call[c].run \in Runs
  BY <1>1 DEF IInv, CallOfLabel, AppendCalls
<1>3. ASSUME answer'[c] = "ok"
      PROVE  \E e \in events[call[c].run] :
                /\ e.seq = seq[c] /\ e.ext = call[c].ext
                /\ e.hash = compute_event_hash(seq[c], Stored[call[c].payload])
  <2>1. PICK e \in EventsWithId(call[c].run, call[c].ext) :
             e.hash = compute_event_hash(seq[c], Stored[call[c].payload])
    BY <1>3 DEF IInv, TypeOK, RereadEvent, Answer
  <2>2. e \in events[call[c].run] /\ e.ext = call[c].ext
    BY DEF EventsWithId
  <2>3. e.hash[1] = e.seq
    BY <1>2, <2>2 DEF EventsSound
  <2>4. e.seq = seq[c]
    BY <2>1, <2>3 DEF compute_event_hash
  <2> QED
    BY <2>1, <2>2, <2>4
<1>4. AppendOk(c)'
  BY <1>1, <1>3 DEF AppendOk, compute_event_hash
<1> QED
  BY <1>1, <1>2, <1>4 DEF RequestOk, TransitionOk, StartOk, UnderWay

LEMMA CommitEventOk ==
    ASSUME IInv, NEW c \in Requests, RequestOk(c), CommitEvent(c) PROVE RequestOk(c)'
<1>1. pc[c] = "commit_event" /\ UNCHANGED <<call, seq>> /\ pc'[c] = "done"
  BY DEF IInv, TypeOK, CommitEvent, Answer, Goto
<1>2. call[c] \in AppendCalls /\ call[c].op = "append" /\ call[c].run \in Runs
  BY <1>1 DEF IInv, CallOfLabel, AppendCalls
<1>3. NewEvent(c) \in events'[call[c].run]
  BY <1>2 DEF IInv, TypeOK, CommitEvent
<1>4. /\ NewEvent(c).seq = seq[c] /\ NewEvent(c).ext = call[c].ext
      /\ NewEvent(c).hash = compute_event_hash(seq[c], Stored[call[c].payload])
  BY DEF NewEvent
<1>5. AppendOk(c)'
  BY <1>1, <1>3, <1>4 DEF AppendOk, compute_event_hash
<1> QED
  BY <1>1, <1>2, <1>5 DEF RequestOk, TransitionOk, StartOk, UnderWay

LEMMA TransitionStatusOk ==
    ASSUME IInv, NEW c \in Requests, RequestOk(c), TransitionStatus(c) PROVE RequestOk(c)'
<1>1. /\ pc[c] = "update_status" /\ UNCHANGED <<rows, events, call>>
      /\ pc'[c] \in {"commit_status", "done"}
      /\ answer'[c] = answer[c] \/ answer'[c] = "invalid"
  BY DEF IInv, TypeOK, TransitionStatus, Answer, Goto
<1> QED
  BY <1>1, NotYetOk DEF RequestOk, UnderWay

LEMMA CommitTransitionOk ==
    ASSUME IInv, NEW c \in Requests, RequestOk(c), CommitTransition(c) PROVE RequestOk(c)'
<1>1. pc[c] = "commit_status" /\ UNCHANGED <<events, call>> /\ pc'[c] = "done"
  BY DEF IInv, TypeOK, CommitTransition, Answer, Goto
<1>2. /\ call[c] \in TransitionCalls /\ call[c].op = "transition" /\ call[c].run \in Runs
      /\ rows[call[c].run] # NoRow
  BY <1>1 DEF IInv, CallOfLabel, TransitionCalls
<1>3. rows'[call[c].run] # NoRow
  BY <1>2, RecordStays DEF Acts, Step
<1>4. rows'[call[c].run].status = call[c].target
  <2>1. rows[call[c].run] \in Rows
    BY <1>2 DEF IInv, TypeOK
  <2>2. rows'[call[c].run] = [rows[call[c].run] EXCEPT !.status = call[c].target]
    BY <1>2 DEF IInv, TypeOK, CommitTransition
  <2> QED
    BY <2>1, <2>2 DEF Rows
<1> QED
  BY <1>1, <1>2, <1>3, <1>4 DEF RequestOk, AppendOk, TransitionOk, StartOk, UnderWay

LEMMA AbortOk ==
    ASSUME IInv, NEW c \in Requests, RequestOk(c), Abort(c) PROVE RequestOk(c)'
<1>1. /\ pc[c] # "new" /\ UNCHANGED <<rows, events, call>>
      /\ pc'[c] = "done" /\ answer'[c] = "lost"
  BY DEF IInv, TypeOK, Abort, Answer, Goto
<1> QED
  BY <1>1, NotYetOk

\* What a step leaves the stepping request with is what it was told.
LEMMA StepperStaysOk ==
    ASSUME IInv, EventsSound, NEW c \in Requests, RequestOk(c), Acts(c) PROVE RequestOk(c)'
<1>1. CASE Call(c)
  BY <1>1, StartTrajectoryOk, AppendEventOk, TransitionStepOk DEF Call
<1>2. CASE Step(c)
  BY <1>2, InsertTrajectoryOk, RereadTrajectoryOk, CommitTrajectoryOk, LookUpEventOk,
     AllocateSequenceOk, InsertEventOk, RereadEventOk, CommitEventOk, TransitionStatusOk,
     CommitTransitionOk DEF Step
<1>3. CASE Abort(c)
  BY <1>3, AbortOk
<1> QED
  BY <1>1, <1>2, <1>3 DEF Acts

\* A request has been made before anything else happens to it.
LEMMA CalledStays ==
    ASSUME IInv, Called, NEW c \in Requests, Acts(c) PROVE Called'
<1>1. \A d \in Requests : d # c => pc'[d] = pc[d] /\ call'[d] = call[d]
  BY OthersUnchanged DEF IInv
<1>2. call'[c] \in Calls
  <2>1. CASE StartTrajectory(c)
    <3>1. PICK r \in Runs, env \in Environments \cup {None} :
              call' = [call EXCEPT ![c] = [op |-> "start", run |-> r, environment |-> env]]
      BY <2>1 DEF StartTrajectory
    <3> QED
      BY <3>1 DEF IInv, TypeOK, Calls, StartCalls
  <2>2. CASE AppendEvent(c)
    <3>1. PICK r \in Runs, x \in ExternalIds \cup {None}, p \in Payloads :
            \E parent \in {e.seq : e \in events[r]} \cup {UnknownEvent, None} :
              call' = [call EXCEPT ![c] =
                          [op |-> "append", run |-> r, ext |-> x, payload |-> p, parent |-> parent]]
      BY <2>2, Zenon DEF AppendEvent
    <3>2. PICK parent \in {e.seq : e \in events[r]} \cup {UnknownEvent, None} :
              call' = [call EXCEPT ![c] =
                          [op |-> "append", run |-> r, ext |-> x, payload |-> p, parent |-> parent]]
      BY <3>1
    <3>3. parent \in Nat \cup {None}
      BY DEF IInv, TypeOK, Events, UnknownEvent
    <3>4. call'[c] \in AppendCalls
      BY <3>2, <3>3 DEF IInv, TypeOK, AppendCalls
    <3> QED
      BY <3>4 DEF Calls
  <2>3. CASE Transition(c)
    <3>1. PICK r \in Runs, target \in {"completed", "failed"} :
              call' = [call EXCEPT ![c] = [op |-> "transition", run |-> r, target |-> target]]
      BY <2>3 DEF Transition
    <3> QED
      BY <3>1 DEF IInv, TypeOK, Calls, TransitionCalls
  <2>4. CASE Step(c) \/ Abort(c)
    <3>1. pc[c] # "new" /\ call' = call
      BY <2>4 DEF Step, Abort, InsertTrajectory, RereadTrajectory, CommitTrajectory,
         LookUpEvent, AllocateSequence, InsertEvent, RereadEvent, CommitEvent, TransitionStatus,
         CommitTransition
    <3> QED
      BY <3>1 DEF Called
  <2> QED
    BY <2>1, <2>2, <2>3, <2>4 DEF Acts, Call
<1> QED
  BY <1>1, <1>2 DEF Called

\* Only the commit of a transition is answered with a trajectory that has ended.
LEMMA NewlyEnded ==
    ASSUME IInv, NEW c \in Requests, RequestOk(c), Acts(c),
           answer'[c] = "ok", call'[c].op = "transition"
    PROVE  CommitTransition(c)
<1>1. CASE StartTrajectory(c)
  <2>1. PICK r \in Runs, env \in Environments \cup {None} :
            call' = [call EXCEPT ![c] = [op |-> "start", run |-> r, environment |-> env]]
    BY <1>1 DEF StartTrajectory
  <2>2. call'[c].op = "start"
    BY <2>1 DEF IInv, TypeOK
  <2> QED
    BY <2>2
<1>2. CASE AppendEvent(c) \/ Transition(c)
  <2>1. answer[c] # "ok"
    BY <1>2 DEF AppendEvent, Transition, RequestOk, UnderWay
  <2>2. answer'[c] = answer[c] \/ answer'[c] \in {"not_found", "invalid"}
    BY <1>2 DEF IInv, TypeOK, AppendEvent, Transition, Answer
  <2> QED
    BY <2>1, <2>2
<1>3. CASE \/ RereadTrajectory(c) \/ CommitTrajectory(c) \/ LookUpEvent(c) \/ RereadEvent(c)
           \/ CommitEvent(c)
  <2>1. call' = call /\ pc[c] \in {"reread_row", "commit_row", "lookup", "reread_event", "commit_event"}
    BY <1>3 DEF RereadTrajectory, CommitTrajectory, LookUpEvent, RereadEvent, CommitEvent
  <2>2. call[c].op \in {"start", "append"}
    BY <2>1 DEF IInv, CallOfLabel, StartCalls, AppendCalls
  <2> QED
    BY <2>1, <2>2
<1>4. CASE \/ InsertTrajectory(c) \/ AllocateSequence(c) \/ InsertEvent(c) \/ TransitionStatus(c)
           \/ Abort(c)
  <2>1. answer[c] # "ok"
    BY <1>4 DEF InsertTrajectory, AllocateSequence, InsertEvent, TransitionStatus, Abort,
       RequestOk, UnderWay
  <2>2. answer'[c] = answer[c] \/ answer'[c] \in {"terminal", "invalid", "lost"}
    BY <1>4 DEF IInv, TypeOK, InsertTrajectory, AllocateSequence, InsertEvent, TransitionStatus,
       Abort, Answer
  <2> QED
    BY <2>1, <2>2
<1> QED
  BY <1>1, <1>2, <1>3, <1>4 DEF Acts, Call, Step

\* A trajectory is ended while it is RUNNING, so nobody has ended it before.
LEMMA EndedOnceStays ==
    ASSUME IInv, AnswerInv, NEW c \in Requests, Acts(c) PROVE EndedOnce'
<1>1. ASSUME NEW d \in Requests, d # c,
             answer'[c] = "ok", call'[c].op = "transition",
             answer'[d] = "ok", call'[d].op = "transition", call'[c].run = call'[d].run
      PROVE  FALSE
  <2>1. RequestOk(c) /\ RequestOk(d)
    BY DEF AnswerInv
  <2>2. CommitTransition(c)
    BY <1>1, <2>1, NewlyEnded
  <2>3. call' = call /\ pc[c] = "commit_status" /\ answer[d] = "ok"
    BY <1>1, <2>2, OthersUnchanged DEF IInv, CommitTransition
  <2>4. rows[call[c].run].status = "running"
    BY <2>3 DEF IInv, RowOfLabel
  <2>5. rows[call[d].run].status = call[d].target
    BY <1>1, <2>1, <2>3 DEF RequestOk, TransitionOk
  <2>6. pc[d] # "new"
    BY <2>1, <2>3 DEF RequestOk, UnderWay
  <2>7. call[d] \in Calls
    BY <2>6 DEF AnswerInv, Called
  <2>8. call[d] \in TransitionCalls
    BY <1>1, <2>3, <2>7, RunOfCall
  <2>9. call[d].target # "running"
    BY <2>8 DEF TransitionCalls
  <2> QED
    BY <1>1, <2>3, <2>4, <2>5, <2>9
<1>2. \A d \in Requests : d # c => call'[d] = call[d] /\ answer'[d] = answer[d]
  BY OthersUnchanged DEF IInv
<1> QED
  BY <1>1, <1>2 DEF EndedOnce, AnswerInv

\* A committed event has the next number, so its parent has an earlier one.
LEMMA EventsStaySound ==
    ASSUME IInv, EventsSound, NEW c \in Requests, RequestOk(c), Acts(c) PROVE EventsSound'
<1>1. CASE events' = events
  BY <1>1 DEF EventsSound
<1>2. CASE CommitEvent(c)
  <2>1. pc[c] = "commit_event"
    BY <1>2 DEF CommitEvent
  <2>2. PICK x : x = call[c]
    OBVIOUS
  <2>3. PICK r : r = x.run
    OBVIOUS
  <2>4. x \in AppendCalls /\ r \in Runs /\ rows[r] # NoRow
    BY <2>1, <2>2, <2>3 DEF IInv, CallOfLabel, AppendCalls
  <2>5. seq[c] = rows[r].next + 1 /\ ParentKnown(r, x.parent)
    BY <2>1, <2>2, <2>3 DEF IInv, RowOfLabel, RequestOk, UnderWay
  <2>6. PICK n : n = NewEvent(c)
    OBVIOUS
  <2>7. n.seq = seq[c] /\ n.parent = x.parent /\ n.hash[1] = n.seq
    BY <2>2, <2>6 DEF NewEvent, compute_event_hash
  <2>8. events' = [events EXCEPT ![r] = @ \cup {n}]
    BY <1>2, <2>2, <2>3, <2>6 DEF CommitEvent
  <2>9. events'[r] = events[r] \cup {n} /\ \A s \in Runs : s # r => events'[s] = events[s]
    BY <2>4, <2>8 DEF IInv, TypeOK
  <2>10. ASSUME n.parent # None PROVE \E f \in events[r] : f.seq = n.parent /\ f.seq < n.seq
    <3>1. PICK f \in events[r] : f.seq = n.parent
      BY <2>5, <2>7, <2>10 DEF ParentKnown
    <3>2. rows[r].next \in Nat
      BY <2>4 DEF IInv, TypeOK, Rows
    <3>3. f.seq \in 1 .. rows[r].next
      BY <2>4 DEF IInv, Numbered, NumberedRun
    <3> QED
      BY <2>5, <2>7, <3>1, <3>2, <3>3
  <2>11. ASSUME NEW s \in Runs, NEW e \in events'[s]
         PROVE  /\ e.hash[1] = e.seq
                /\ e.parent # None => \E f \in events'[s] : f.seq = e.parent /\ f.seq < e.seq
    <3>1. CASE e \in events[s]
      <4>1. events[s] \subseteq events'[s]
        BY <2>9
      <4> QED
        BY <3>1, <4>1 DEF EventsSound
    <3>2. CASE s = r /\ e = n
      BY <2>7, <2>9, <2>10, <3>2
    <3> QED
      BY <2>9, <2>11, <3>1, <3>2
  <2> QED
    BY <2>11 DEF EventsSound
<1> QED
  BY <1>1, <1>2
  DEF Acts, Call, Step, Abort, StartTrajectory, InsertTrajectory, RereadTrajectory,
      CommitTrajectory, AppendEvent, LookUpEvent, AllocateSequence, InsertEvent, RereadEvent,
      Transition, TransitionStatus, CommitTransition

LEMMA InitAnswerInv == Init => AnswerInv
<1> SUFFICES ASSUME Init PROVE AnswerInv
  OBVIOUS
<1>1. EventsSound
  BY DEF Init, EventsSound
<1>2. \A c \in Requests : answer[c] # "ok" /\ pc[c] = "new"
  BY NoneIsNoAnswer DEF Init
<1>3. EndedOnce /\ Called /\ \A c \in Requests : RequestOk(c)
  BY <1>2 DEF EndedOnce, Called, RequestOk, AppendOk, TransitionOk, StartOk, UnderWay
<1> QED
  BY <1>1, <1>3 DEF AnswerInv

LEMMA StepAnswerInv == IInv /\ AnswerInv /\ [Next]_vars => AnswerInv'
<1> SUFFICES ASSUME IInv, AnswerInv, [Next]_vars PROVE AnswerInv'
  OBVIOUS
<1>1. CASE UNCHANGED vars
  <2>1. EventsSound' /\ EndedOnce' /\ Called'
    BY <1>1 DEF AnswerInv, EventsSound, EndedOnce, Called, vars
  <2>2. ASSUME NEW c \in Requests PROVE RequestOk(c)'
    <3>1. RequestOk(c)
      BY DEF AnswerInv
    <3> QED
      BY <1>1, <3>1 DEF RequestOk, AppendOk, TransitionOk, StartOk, UnderWay, ParentKnown,
         ConflictsWithExisting, compute_event_hash, vars
  <2> QED
    BY <2>1, <2>2 DEF AnswerInv
<1>2. CASE Next
  <2>1. PICK c \in Requests : Acts(c)
    BY <1>2 DEF Next, Acts
  <2>2. EventsSound /\ Called /\ \A d \in Requests : RequestOk(d)
    BY DEF AnswerInv
  <2>3. EventsSound' /\ EndedOnce' /\ Called'
    BY <2>1, <2>2, EventsStaySound, EndedOnceStays, CalledStays
  <2>4. ASSUME NEW d \in Requests PROVE RequestOk(d)'
    BY <2>1, <2>2, OthersStayOk, StepperStaysOk
  <2> QED
    BY <2>3, <2>4 DEF AnswerInv
<1> QED
  BY <1>1, <1>2

\* What every request under way has read of the trajectory, and what every
\* answered one was told, is so as long as the recorder runs.
THEOREM AnswerInvariant == Spec => []AnswerInv
<1>1. Init => AnswerInv
  BY InitAnswerInv
<1>2. IInv /\ AnswerInv /\ [Next]_vars => AnswerInv'
  BY StepAnswerInv
<1> QED
  BY <1>1, <1>2, RecorderInvariant, PTL DEF Spec

\* start_trajectory, append_event, complete and fail: a request answered with
\* success finds on record what it asked for, also after a lost race or a retry,
\* and only one request is told that it ended a trajectory.
THEOREM AnswersMatchTheRecord == Spec => []AnswerMatchesRecord
<1>1. AnswerInv => AnswerMatchesRecord
  <2> SUFFICES ASSUME AnswerInv, NEW c \in Requests, answer[c] = "ok"
      PROVE /\ call[c].op = "append" =>
                  \E e \in events[call[c].run] :
                      /\ e.seq = seq[c]
                      /\ e.ext = call[c].ext
                      /\ e.hash = compute_event_hash(seq[c], Stored[call[c].payload])
                      /\ e.parent # None =>
                            \E f \in events[call[c].run] : f.seq = e.parent /\ f.seq < e.seq
            /\ call[c].op = "transition" =>
                  /\ rows[call[c].run].status = call[c].target
                  /\ \A d \in Requests \ {c} :
                        ~(answer[d] = "ok" /\ call[d].op = "transition" /\ call[d].run = call[c].run)
            /\ call[c].op = "start" =>
                  /\ rows[call[c].run] # NoRow
                  /\ ~ConflictsWithExisting(rows[call[c].run], call[c].environment)
    BY DEF AnswerMatchesRecord
  <2>1. RequestOk(c)
    BY DEF AnswerInv
  <2>2. pc[c] # "new"
    BY <2>1 DEF RequestOk, UnderWay
  <2>3. call[c].run \in Runs
    BY <2>2, RunOfCall DEF AnswerInv, Called
  <2>4. ASSUME call[c].op = "append"
        PROVE  \E e \in events[call[c].run] :
                      /\ e.seq = seq[c]
                      /\ e.ext = call[c].ext
                      /\ e.hash = compute_event_hash(seq[c], Stored[call[c].payload])
                      /\ e.parent # None =>
                            \E f \in events[call[c].run] : f.seq = e.parent /\ f.seq < e.seq
    <3>1. PICK e \in events[call[c].run] :
            /\ e.seq = seq[c] /\ e.ext = call[c].ext
            /\ e.hash = compute_event_hash(seq[c], Stored[call[c].payload])
      BY <2>1, <2>4 DEF RequestOk, AppendOk
    <3>2. e.parent # None => \E f \in events[call[c].run] : f.seq = e.parent /\ f.seq < e.seq
      BY <2>3 DEF AnswerInv, EventsSound
    <3> QED
      BY <3>1, <3>2
  <2>5. ASSUME call[c].op = "transition"
        PROVE  /\ rows[call[c].run].status = call[c].target
               /\ \A d \in Requests \ {c} :
                     ~(answer[d] = "ok" /\ call[d].op = "transition" /\ call[d].run = call[c].run)
    <3>1. rows[call[c].run].status = call[c].target
      BY <2>1, <2>5 DEF RequestOk, TransitionOk
    <3>2. EndedOnce
      BY DEF AnswerInv
    <3> QED
      BY <2>5, <3>1, <3>2 DEF EndedOnce
  <2> QED
    BY <2>1, <2>4, <2>5 DEF RequestOk, StartOk
<1> QED
  BY <1>1, AnswerInvariant, PTL

=============================================================================
