------------------------ MODULE EventConsumerProofs ------------------------
(***************************************************************************)
(* What TLC checks of EventConsumer for two workers and two messages,      *)
(* proved for every number of workers, messages, retries and faults, when  *)
(* the group begins with a committed offset.                               *)
(***************************************************************************)
EXTENDS EventConsumer, TLAPS

Busy(w) == wpc[w] \in {"handling", "dlq"}

\* Why no message is skipped: the owner has settled everything below its
\* position, but for the one message it is working on; it commits its
\* position only when it is working on none.  A worker that lost the partition
\* is not held to this, and need not be, since it commits nothing.
OwnerSettles ==
    \A w \in Workers : owner = w =>
        /\ committed <= position[w]
        /\ \A i \in 0 .. (position[w] - 1) :
              i \in Settled \/ (Busy(w) /\ i = current[w])

ConsumerInv ==
    /\ TypeOK
    /\ committed # NoOffset
    /\ NothingSkipped
    /\ OwnerSettles

-----------------------------------------------------------------------------
\* What the loop may meet in one step.  Next is such a step; so is every step of
\* a system around the loop in which messages arrive and faults are counted
\* otherwise, and in which a handler's error may end the loop.
Arrives ==
    /\ log' = log \/ \E m \in Messages : log' = Append(log, m)
    /\ faults' \in Nat
    /\ UNCHANGED <<committed, owner, position, wpc, current, attempt, handled, dead, dropped>>

ConsumerMove ==
    \/ Arrives
    \/ \E w \in Workers : WorkerStep(w) \/ (LoopEnds(w) /\ faults' \in Nat)

\* The specification makes no other steps.
LEMMA NextMoves ==
    ASSUME TypeOK, [Next]_consumerVars
    PROVE  ConsumerMove
<1>1. CASE UNCHANGED consumerVars
  BY <1>1 DEF consumerVars, ConsumerMove, Arrives, TypeOK
<1>2. ASSUME NEW m \in Messages, Produce(m)
      PROVE  ConsumerMove
  BY <1>2 DEF Produce, ConsumerMove, Arrives, TypeOK
<1>3. ASSUME NEW w \in Workers, WorkerStep(w) \/ Crash(w)
      PROVE  ConsumerMove
  BY <1>3 DEF Crash, ConsumerMove, TypeOK
<1> QED
  BY <1>1, <1>2, <1>3 DEF Next

\* Every step keeps the types.
LEMMA MoveKeepsTypes ==
    ASSUME TypeOK, ConsumerMove
    PROVE  TypeOK'
<1> USE DEF TypeOK
<1>1. ASSUME Arrives
      PROVE  TypeOK'
  <2>1. log \in Seq(Messages)
    OBVIOUS
  <2>2. CASE log' = log
    BY <1>1, <2>2 DEF Arrives
  <2>3. ASSUME NEW m \in Messages, log' = Append(log, m)
        PROVE  log' \in Seq(Messages)
    BY <2>1, <2>3
  <2> QED
    BY <1>1, <2>2, <2>3 DEF Arrives
<1>2. ASSUME NEW w \in Workers, Start(w)
      PROVE  TypeOK'
  BY <1>2 DEF Start
<1>3. ASSUME NEW w \in Workers, Assign(w)
      PROVE  TypeOK'
  <2>1. StartOffset \in Nat
    BY DEF StartOffset
  <2> QED
    BY <1>3, <2>1 DEF Assign
<1>4. ASSUME NEW w \in Workers, Poll(w)
      PROVE  TypeOK'
  BY <1>4 DEF Poll
<1>5. ASSUME NEW w \in Workers, HandlerStep(w)
      PROVE  TypeOK'
  <2>1. CASE HandlerReturns(w)
    BY <2>1 DEF HandlerReturns
  <2>2. CASE HandlerFailsPermanently(w)
    BY <2>2 DEF HandlerFailsPermanently
  <2>3. CASE HandlerFailsTransiently(w)
    BY <2>3 DEF HandlerFailsTransiently
  <2> QED
    BY <1>5, <2>1, <2>2, <2>3 DEF HandlerStep
<1>6. ASSUME NEW w \in Workers, ToDlq(w)
      PROVE  TypeOK'
  BY <1>6 DEF ToDlq
<1>7. ASSUME NEW w \in Workers, Commit(w)
      PROVE  TypeOK'
  BY <1>7 DEF Commit
<1>8. ASSUME NEW w \in Workers, LoopEnds(w), faults' \in Nat
      PROVE  TypeOK'
  BY <1>8 DEF LoopEnds
<1> QED
  BY <1>1, <1>2, <1>3, <1>4, <1>5, <1>6, <1>7, <1>8 DEF ConsumerMove, WorkerStep

\* The state is always well formed, whatever the first committed offset is.
THEOREM ConsumerTypeOK == Spec => []TypeOK
<1>1. Init => TypeOK
  BY ConsumerAssumption DEF Init, TypeOK, ConsumerAssumption
<1>2. TypeOK /\ [Next]_consumerVars => TypeOK'
  BY NextMoves, MoveKeepsTypes
<1> QED
  BY <1>1, <1>2, PTL DEF Spec

\* A step of the loop of worker w leaves the owner's duty intact, if it leaves
\* alone what belongs to the other workers and what w has settled.
LEMMA WorkerStepKeepsOwnerSettles ==
    ASSUME TypeOK, TypeOK', OwnerSettles, NEW w \in Workers,
           committed' = committed, owner' = owner,
           Settled \subseteq Settled',
           \A v \in Workers \ {w} :
               position'[v] = position[v] /\ wpc'[v] = wpc[v] /\ current'[v] = current[v],
           owner = w =>
               /\ committed <= position'[w]
               /\ \A i \in 0 .. (position'[w] - 1) :
                     i \in Settled' \/ (Busy(w)' /\ i = current'[w])
    PROVE  OwnerSettles'
<1> SUFFICES ASSUME NEW v \in Workers, owner = v
             PROVE  /\ committed' <= position'[v]
                    /\ \A i \in 0 .. (position'[v] - 1) :
                          i \in Settled' \/ (Busy(v)' /\ i = current'[v])
  BY DEF OwnerSettles
<1>1. CASE v = w
  BY <1>1
<1>2. CASE v # w
  <2>1. /\ committed <= position[v]
        /\ \A i \in 0 .. (position[v] - 1) :
              i \in Settled \/ (Busy(v) /\ i = current[v])
    BY DEF OwnerSettles
  <2>2. position'[v] = position[v] /\ wpc'[v] = wpc[v] /\ current'[v] = current[v]
    BY <1>2
  <2> QED
    BY <2>1, <2>2 DEF Busy
<1> QED
  BY <1>1, <1>2

\* Every action preserves the inductive invariant, and none moves the
\* committed offset back.
LEMMA ConsumerStep ==
    ASSUME ConsumerInv, ConsumerMove
    PROVE  /\ ConsumerInv'
           /\ committed' \in Nat /\ committed' >= committed
<1> USE ConsumerAssumption DEF ConsumerAssumption
<1>b. TypeOK'
  BY MoveKeepsTypes DEF ConsumerInv
<1>0. committed \in Nat /\ \A i \in 0 .. (committed - 1) : i \in Settled
  BY DEF ConsumerInv, TypeOK, NothingSkipped
<1>a. ASSUME committed' = committed, Settled \subseteq Settled', OwnerSettles'
      PROVE  /\ ConsumerInv'
             /\ committed' \in Nat /\ committed' >= committed
  <2>1. committed' # NoOffset /\ committed' >= committed
    BY <1>0, <1>a
  <2>2. NothingSkipped'
    BY <1>0, <1>a DEF NothingSkipped
  <2> QED
    BY <1>0, <1>b, <1>a, <2>1, <2>2 DEF ConsumerInv
<1>1. ASSUME Arrives
      PROVE  Settled' = Settled /\ committed' = committed /\ OwnerSettles'
  BY <1>1 DEF Arrives, Settled, OwnerSettles, Busy, ConsumerInv
<1>2. ASSUME NEW w \in Workers, Start(w)
      PROVE  Settled' = Settled /\ committed' = committed /\ OwnerSettles'
  <2>1. Settled' = Settled /\ committed' = committed /\ owner' = owner
    BY <1>2 DEF Start, Settled
  <2>2. \A v \in Workers \ {w} :
            position'[v] = position[v] /\ wpc'[v] = wpc[v] /\ current'[v] = current[v]
    BY <1>2 DEF Start, ConsumerInv, TypeOK
  <2>3. owner = w =>
            /\ committed <= position'[w]
            /\ \A i \in 0 .. (position'[w] - 1) :
                  i \in Settled' \/ (Busy(w)' /\ i = current'[w])
    BY <1>2, <2>1 DEF Start, ConsumerInv, OwnerSettles, Busy
  <2> QED
    BY <2>1, <2>2, <2>3, <1>b, WorkerStepKeepsOwnerSettles DEF ConsumerInv
<1>3. ASSUME NEW w \in Workers, Assign(w)
      PROVE  Settled' = Settled /\ committed' = committed /\ OwnerSettles'
  <2>1. Settled' = Settled /\ committed' = committed /\ owner' = w
    BY <1>3 DEF Assign, Settled
  <2>2. position'[w] = committed
    BY <1>3, <1>0 DEF Assign, StartOffset, ConsumerInv, TypeOK
  <2> QED
    BY <1>0, <2>1, <2>2 DEF OwnerSettles
<1>4. ASSUME NEW w \in Workers, Poll(w)
      PROVE  Settled' = Settled /\ committed' = committed /\ OwnerSettles'
  <2>1. Settled' = Settled /\ committed' = committed /\ owner' = owner
    BY <1>4 DEF Poll, Settled
  <2>2. \A v \in Workers \ {w} :
            position'[v] = position[v] /\ wpc'[v] = wpc[v] /\ current'[v] = current[v]
    BY <1>4 DEF Poll, ConsumerInv, TypeOK
  <2>3. /\ position[w] \in Nat
        /\ position'[w] = position[w] + 1
        /\ current'[w] = position[w]
        /\ Busy(w)'
        /\ ~Busy(w)
        /\ owner = w
    BY <1>4 DEF Poll, ConsumerInv, TypeOK, Busy
  <2>4. committed <= position[w] /\ \A i \in 0 .. (position[w] - 1) : i \in Settled
    BY <2>3 DEF ConsumerInv, OwnerSettles
  <2>5. /\ committed <= position'[w]
        /\ \A i \in 0 .. (position'[w] - 1) :
              i \in Settled' \/ (Busy(w)' /\ i = current'[w])
    BY <1>0, <2>1, <2>3, <2>4
  <2> QED
    BY <2>1, <2>2, <2>5, <1>b, WorkerStepKeepsOwnerSettles DEF ConsumerInv
<1>5. ASSUME NEW w \in Workers, HandlerStep(w) \/ ToDlq(w)
      PROVE  Settled \subseteq Settled' /\ committed' = committed /\ OwnerSettles'
  <2>1. /\ Settled \subseteq Settled'
        /\ committed' = committed
        /\ owner' = owner
        /\ position' = position
        /\ current' = current
        /\ Busy(w)
        /\ Busy(w)' \/ current[w] \in Settled'
    <3>1. CASE HandlerReturns(w)
      BY <3>1 DEF HandlerReturns, Settled, Busy
    <3>2. CASE HandlerFailsPermanently(w)
      BY <3>2 DEF HandlerFailsPermanently, Settled, Busy, ConsumerInv, TypeOK
    <3>3. CASE HandlerFailsTransiently(w)
      BY <3>3 DEF HandlerFailsTransiently, Settled, Busy, ConsumerInv, TypeOK
    <3>4. CASE ToDlq(w)
      BY <3>4 DEF ToDlq, Settled, Busy
    <3> QED
      BY <1>5, <3>1, <3>2, <3>3, <3>4 DEF HandlerStep
  <2>2. \A v \in Workers \ {w} : wpc'[v] = wpc[v]
    BY <1>5 DEF HandlerStep, HandlerReturns, HandlerFailsPermanently,
                HandlerFailsTransiently, ToDlq, ConsumerInv, TypeOK
  <2>3. owner = w =>
            /\ committed <= position'[w]
            /\ \A i \in 0 .. (position'[w] - 1) :
                  i \in Settled' \/ (Busy(w)' /\ i = current'[w])
    BY <2>1 DEF ConsumerInv, OwnerSettles
  <2> QED
    BY <2>1, <2>2, <2>3, <1>b, WorkerStepKeepsOwnerSettles DEF ConsumerInv
<1>6. ASSUME NEW w \in Workers, LoopEnds(w)
      PROVE  Settled' = Settled /\ committed' = committed /\ OwnerSettles'
  <2>1. /\ Settled' = Settled
        /\ committed' = committed
        /\ owner' = IF owner = w THEN NoOwner ELSE owner
    BY <1>6 DEF LoopEnds, Settled
  <2>2. \A v \in Workers \ {w} :
            position'[v] = position[v] /\ wpc'[v] = wpc[v] /\ current'[v] = current[v]
    BY <1>6 DEF LoopEnds, ConsumerInv, TypeOK
  <2>3. \A v \in Workers : owner' = v => v # w /\ owner = v
    BY <2>1
  <2> QED
    BY <2>1, <2>2, <2>3 DEF ConsumerInv, OwnerSettles, Busy
<1>7. ASSUME NEW w \in Workers, Commit(w)
      PROVE  /\ ConsumerInv'
             /\ committed' \in Nat /\ committed' >= committed
  <2>1. /\ Settled' = Settled
        /\ owner' = owner
        /\ position' = position
        /\ current' = current
        /\ ~Busy(w)
        /\ committed' = IF owner = w THEN position[w] ELSE committed
    BY <1>7 DEF Commit, Settled, Busy
  <2>2. \A v \in Workers \ {w} : wpc'[v] = wpc[v]
    BY <1>7 DEF Commit, ConsumerInv, TypeOK
  <2>3. CASE owner = w
    <3>1. /\ committed <= position[w]
          /\ \A i \in 0 .. (position[w] - 1) : i \in Settled
      BY <2>1, <2>3 DEF ConsumerInv, OwnerSettles
    <3>2. committed' = position[w] /\ position[w] \in Nat
      BY <2>1, <2>3 DEF ConsumerInv, TypeOK
    <3>3. NothingSkipped' /\ OwnerSettles'
      BY <2>1, <2>3, <3>1, <3>2 DEF NothingSkipped, OwnerSettles
    <3> QED
      BY <1>0, <1>b, <3>1, <3>2, <3>3 DEF ConsumerInv
  <2>4. CASE owner # w
    <3>1. OwnerSettles'
      BY <2>1, <2>2, <2>4 DEF ConsumerInv, OwnerSettles, Busy
    <3> QED
      BY <2>1, <2>4, <3>1, <1>a
  <2> QED
    BY <2>3, <2>4
<1> QED
  BY <1>a, <1>1, <1>2, <1>3, <1>4, <1>5, <1>6, <1>7 DEF ConsumerMove, WorkerStep

\* A group that begins with a committed offset begins well.
LEMMA ConsumerBegins ==
    ASSUME InitialCommitted = 0, Init
    PROVE  ConsumerInv
<1>1. TypeOK
  BY ConsumerAssumption DEF Init, TypeOK, ConsumerAssumption
<1>2. committed = 0 /\ owner = NoOwner
  BY DEF Init
<1> QED
  BY <1>1, <1>2, ConsumerAssumption
  DEF ConsumerInv, NothingSkipped, OwnerSettles, ConsumerAssumption

\* The invariant holds from a group that begins with a committed offset.
THEOREM ConsumerInvariant ==
    ASSUME InitialCommitted = 0
    PROVE  Spec => []ConsumerInv
<1>1. Init => ConsumerInv
  BY ConsumerBegins
<1>2. ConsumerInv /\ [Next]_consumerVars => ConsumerInv'
  BY NextMoves, ConsumerStep DEF ConsumerInv
<1> QED
  BY <1>1, <1>2, PTL DEF Spec

\* Whatever lies below the committed offset was processed, dead-lettered or
\* given up (NothingSkipped), for any number of workers, crashes and
\* hand-overs: commit() follows the handler and _to_dlq.
THEOREM ConsumerSkipsNothing ==
    ASSUME InitialCommitted = 0
    PROVE  Spec => []NothingSkipped
<1>1. ConsumerInv => NothingSkipped
  BY DEF ConsumerInv
<1> QED
  BY <1>1, ConsumerInvariant, PTL

\* The committed offset never moves back (CommittedMonotonic).
THEOREM ConsumerCommitsForward ==
    ASSUME InitialCommitted = 0
    PROVE  Spec => CommittedMonotonic
<1>1. ASSUME ConsumerInv, [Next]_consumerVars
      PROVE  [committed # NoOffset => committed' # NoOffset /\ committed' >= committed]_consumerVars
  BY <1>1, NextMoves, ConsumerStep, ConsumerAssumption DEF ConsumerAssumption, ConsumerInv
<1> QED
  BY <1>1, ConsumerInvariant, PTL DEF Spec, CommittedMonotonic

=============================================================================
