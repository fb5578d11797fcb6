------------------------ MODULE WebhookIngressProofs ------------------------
(***************************************************************************)
(* What WebhookIngress does for any number of requests, delivery ids and   *)
(* commits, however many requests die and publications fail.               *)
(***************************************************************************)
EXTENDS WebhookIngress, FiniteSetTheorems, TLAPS

-----------------------------------------------------------------------------
(* The inductive invariant                                                 *)

Labels ==
    {"new", "unsigned", "check", "insert", "duplicate", "conflict", "start", "create",
     "publish", "enqueued", "run", "accepted", "error", "died"}

TypeOK ==
    /\ kafka \in BOOLEAN
    /\ rows \in [Shas -> {NoRow, NewRow}]
    /\ log \in Seq(Shas)
    /\ deliveries \in [DeliveryIds -> Bodies \cup {None}]
    /\ audit \in [AuditKinds -> Nat]
    /\ rqpc \in [Requests -> Labels]
    /\ rqid \in [Requests -> DeliveryIds \cup {None}]
    /\ body \in [Requests -> Bodies \cup {None}]

\* What a request that has arrived carries; only a commit is dispatched.
Carries ==
    \A r \in Requests :
        /\ rqpc[r] # "new" => rqid[r] \in DeliveryIds /\ body[r] \in Bodies
        /\ rqpc[r] \in {"start", "create", "publish", "enqueued", "run"} => body[r] \in Shas

\* A request is about to publish, or to run, only what has its row.
RowBeforeEvent ==
    \A r \in Requests : rqpc[r] \in {"publish", "enqueued", "run"} => rows[body[r]] # NoRow

\* The audit events that are one commit with what they tell.
AuditedWithCommit ==
    /\ \A d \in DeliveryIds :
        audit[<<"processed", d>>] = IF deliveries[d] = None THEN 0 ELSE 1
    /\ \A a \in Shas : audit[<<"started", a>>] = IF rows[a] = NoRow THEN 0 ELSE 1

\* The events of a commit on the topic, and the requests that have published
\* one and not said so.
EventsOf(a) == {i \in DOMAIN log : log[i] = a}

Announcing(a) == {r \in Requests : rqpc[r] = "enqueued" /\ body[r] = a}

\* Every audit event of a publication has an event of its own on the topic,
\* and so has every request that is about to write one.
EnqueuedWasPublished ==
    \A a \in Shas :
        /\ IsFiniteSet(Announcing(a))
        /\ audit[<<"enqueued", a>>] + Cardinality(Announcing(a)) <= Cardinality(EventsOf(a))

IngressInv ==
    /\ TypeOK /\ Carries /\ RowBeforeEvent
    /\ DispatchedOnce /\ AnnouncedIsRecorded
    /\ AuditedWithCommit /\ EnqueuedWasPublished

-----------------------------------------------------------------------------
\* The kinds of audit event are different, whatever they are about.
LEMMA AuditKindsApart ==
    /\ \A d \in DeliveryIds : <<"processed", d>> \in AuditKinds /\ <<"rejected", d>> \in AuditKinds
    /\ \A a \in Shas : <<"started", a>> \in AuditKinds /\ <<"enqueued", a>> \in AuditKinds
  BY DEF AuditKinds

\* One audit event more of one kind, and no other.
LEMMA RecordOne ==
    ASSUME TypeOK, NEW action, NEW subject, <<action, subject>> \in AuditKinds,
           Record(action, subject)
    PROVE  /\ audit' \in [AuditKinds -> Nat]
           /\ audit'[<<action, subject>>] = audit[<<action, subject>>] + 1
           /\ \A k \in AuditKinds : k # <<action, subject>> => audit'[k] = audit[k]
<1> DEFINE kind == <<action, subject>>
<1>1. audit' = [audit EXCEPT ![kind] = @ + 1]
  BY DEF Record
<1>2. audit \in [AuditKinds -> Nat] /\ kind \in AuditKinds
  BY DEF TypeOK
<1> HIDE DEF kind
<1>3. /\ audit' \in [AuditKinds -> Nat]
      /\ audit'[kind] = audit[kind] + 1
      /\ \A k \in AuditKinds : k # kind => audit'[k] = audit[k]
  BY <1>1, <1>2
<1> QED
  BY <1>3 DEF kind

\* The events of a commit are a finite set.
LEMMA EventsFinite ==
    ASSUME TypeOK, NEW a \in Shas
    PROVE  IsFiniteSet(EventsOf(a)) /\ Cardinality(EventsOf(a)) \in Nat
<1>1. IsFiniteSet(1 .. Len(log))
  BY FS_Interval DEF TypeOK
<1>2. EventsOf(a) \subseteq 1 .. Len(log)
  BY DEF TypeOK, EventsOf
<1> QED
  BY <1>1, <1>2, FS_Subset, FS_CardinalityType

\* One more event is one more event of its commit, and no less of another.
LEMMA AppendEvents ==
    ASSUME TypeOK, NEW b \in Shas, log' = Append(log, b), NEW a \in Shas
    PROVE  Cardinality(EventsOf(a)') = Cardinality(EventsOf(a)) + (IF a = b THEN 1 ELSE 0)
<1> DEFINE n == Len(log) + 1
<1>1. /\ DOMAIN log' = DOMAIN log \cup {n} /\ n \notin DOMAIN log
      /\ log'[n] = b /\ \A i \in DOMAIN log : log'[i] = log[i]
  BY DEF TypeOK
<1>2. CASE a = b
  <2>1. EventsOf(a)' = EventsOf(a) \cup {n} /\ n \notin EventsOf(a)
    BY <1>1, <1>2 DEF EventsOf
  <2> QED
    BY <1>2, <2>1, EventsFinite, FS_AddElement
<1>3. CASE a # b
  <2>1. EventsOf(a)' = EventsOf(a)
    BY <1>1, <1>3 DEF EventsOf
  <2> QED
    BY <1>3, <2>1, EventsFinite
<1> QED
  BY <1>2, <1>3

LEMMA InitInv == Init => IngressInv
<1> SUFFICES ASSUME Init PROVE IngressInv
  OBVIOUS
<1>1. TypeOK /\ Carries /\ RowBeforeEvent /\ DispatchedOnce /\ AnnouncedIsRecorded
  BY DEF Init, TypeOK, Labels, Carries, RowBeforeEvent, DispatchedOnce, Dispatched,
         AnnouncedIsRecorded
<1>2. AuditedWithCommit
  BY AuditKindsApart DEF Init, AuditedWithCommit
<1>3. EnqueuedWasPublished
  <2> SUFFICES ASSUME NEW a \in Shas
               PROVE  /\ IsFiniteSet(Announcing(a))
                      /\ audit[<<"enqueued", a>>] + Cardinality(Announcing(a))
                             <= Cardinality(EventsOf(a))
    BY DEF EnqueuedWasPublished
  <2>1. Announcing(a) = {}
    BY DEF Init, Announcing
  <2>2. EventsOf(a) = {}
    BY DEF Init, EventsOf
  <2>3. audit[<<"enqueued", a>>] = 0
    BY AuditKindsApart DEF Init
  <2> QED
    BY <2>1, <2>2, <2>3, FS_EmptySet
<1> QED
  BY <1>1, <1>2, <1>3 DEF IngressInv

-----------------------------------------------------------------------------
(* Facts the steps share                                                   *)

\* An audit event about a delivery or a start says nothing of publications.
LEMMA RecordKeepsEnqueued ==
    ASSUME TypeOK, NEW action \in {"processed", "rejected", "started"}, NEW subject,
           <<action, subject>> \in AuditKinds, Record(action, subject)
    PROVE  \A a \in Shas : audit'[<<"enqueued", a>>] = audit[<<"enqueued", a>>]
<1> SUFFICES ASSUME NEW a \in Shas
             PROVE  audit'[<<"enqueued", a>>] = audit[<<"enqueued", a>>]
  OBVIOUS
<1>1. <<"enqueued", a>> # <<action, subject>>
  OBVIOUS
<1> QED
  BY <1>1, RecordOne, AuditKindsApart

\* The books of the publications are as they were when nobody publishes and
\* nobody begins or ends to tell of a publication.
LEMMA NothingPublished ==
    ASSUME EnqueuedWasPublished, log' = log,
           \A a \in Shas : audit'[<<"enqueued", a>>] = audit[<<"enqueued", a>>],
           \A r \in Requests : (rqpc[r] = "enqueued") = (rqpc'[r] = "enqueued"),
           \A r \in Requests : rqpc[r] = "enqueued" => body'[r] = body[r]
    PROVE  EnqueuedWasPublished'
<1> SUFFICES ASSUME NEW a \in Shas
             PROVE  /\ IsFiniteSet(Announcing(a)')
                    /\ audit'[<<"enqueued", a>>] + Cardinality(Announcing(a)')
                           <= Cardinality(EventsOf(a)')
  BY DEF EnqueuedWasPublished
<1>1. Announcing(a)' = Announcing(a)
  BY DEF Announcing
<1>2. EventsOf(a)' = EventsOf(a)
  BY DEF EventsOf
<1> QED
  BY <1>1, <1>2 DEF EnqueuedWasPublished

-----------------------------------------------------------------------------
(* One lemma for every action                                              *)

\* A request that arrives carries what it came with; nobody else is touched.
LEMMA ArriveInv ==
    ASSUME IngressInv, NEW r \in Requests, Arrive(r)
    PROVE  IngressInv'
<1> PICK d \in DeliveryIds, b \in Bodies, signed \in BOOLEAN : Receive(r, d, b, signed)
  BY DEF Arrive
<1>1. audit' = audit \/ Record("rejected", d)
  BY DEF Receive
<1>2. <<"rejected", d>> \in AuditKinds
  BY AuditKindsApart
<1>3. audit' \in [AuditKinds -> Nat]
  BY <1>1, <1>2, RecordOne DEF IngressInv, TypeOK
<1>4. TypeOK'
  BY <1>3 DEF IngressInv, TypeOK, Labels, Receive, Goto
<1>5. Carries'
  BY DEF IngressInv, Carries, TypeOK, Receive, Goto
<1>6. RowBeforeEvent'
  BY DEF IngressInv, RowBeforeEvent, TypeOK, Receive, Goto
<1>7. DispatchedOnce'
  BY DEF IngressInv, DispatchedOnce, Dispatched, TypeOK, Receive, Goto
<1>8. AnnouncedIsRecorded'
  BY DEF IngressInv, AnnouncedIsRecorded, Dispatched, TypeOK, Receive, Goto
<1>9. AuditedWithCommit'
  <2>1. \A k \in AuditKinds : k # <<"rejected", d>> => audit'[k] = audit[k]
    BY <1>1, <1>2, RecordOne DEF IngressInv
  <2>2. /\ \A e \in DeliveryIds : /\ <<"processed", e>> \in AuditKinds
                                  /\ <<"processed", e>> # <<"rejected", d>>
        /\ \A a \in Shas : /\ <<"started", a>> \in AuditKinds
                           /\ <<"started", a>> # <<"rejected", d>>
    BY AuditKindsApart
  <2> QED
    BY <2>1, <2>2 DEF IngressInv, AuditedWithCommit, Receive
<1>10. EnqueuedWasPublished'
  <2>1. \A a \in Shas : audit'[<<"enqueued", a>>] = audit[<<"enqueued", a>>]
    BY <1>1, <1>2, RecordKeepsEnqueued DEF IngressInv
  <2>2. \A s \in Requests : /\ (rqpc[s] = "enqueued") = (rqpc'[s] = "enqueued")
                            /\ rqpc[s] = "enqueued" => body'[s] = body[s]
    BY DEF IngressInv, TypeOK, Receive, At, Goto
  <2> QED
    BY <2>1, <2>2, NothingPublished DEF IngressInv, Receive
<1> QED
  BY <1>4, <1>5, <1>6, <1>7, <1>8, <1>9, <1>10 DEF IngressInv

\* The check before the insert sends a redelivery away and audits a conflict.
LEMMA CheckInv ==
    ASSUME IngressInv, NEW r \in Requests, Check(r)
    PROVE  IngressInv'
<1>1. audit' = audit \/ Record("rejected", rqid[r])
  BY DEF Check
<1>2. rqid[r] \in DeliveryIds /\ body[r] \in Bodies
  BY DEF IngressInv, Carries, Check, At
<1>3. <<"rejected", rqid[r]>> \in AuditKinds
  BY <1>2, AuditKindsApart
<1>4. audit' \in [AuditKinds -> Nat]
  BY <1>1, <1>3, RecordOne DEF IngressInv, TypeOK
<1>5. TypeOK'
  BY <1>4 DEF IngressInv, TypeOK, Labels, Check, Goto
<1>6. Carries'
  BY DEF IngressInv, Carries, TypeOK, Check, At, Goto
<1>7. RowBeforeEvent'
  BY DEF IngressInv, RowBeforeEvent, TypeOK, Check, Goto
<1>8. DispatchedOnce'
  BY DEF IngressInv, DispatchedOnce, Dispatched, TypeOK, Check, Goto
<1>9. AnnouncedIsRecorded'
  BY DEF IngressInv, AnnouncedIsRecorded, Dispatched, TypeOK, Check, Goto
<1>10. AuditedWithCommit'
  <2>1. \A k \in AuditKinds : k # <<"rejected", rqid[r]>> => audit'[k] = audit[k]
    BY <1>1, <1>3, RecordOne DEF IngressInv
  <2>2. /\ \A e \in DeliveryIds : /\ <<"processed", e>> \in AuditKinds
                                  /\ <<"processed", e>> # <<"rejected", rqid[r]>>
        /\ \A a \in Shas : /\ <<"started", a>> \in AuditKinds
                           /\ <<"started", a>> # <<"rejected", rqid[r]>>
    BY AuditKindsApart
  <2> QED
    BY <2>1, <2>2 DEF IngressInv, AuditedWithCommit, Check
<1>11. EnqueuedWasPublished'
  <2>1. \A a \in Shas : audit'[<<"enqueued", a>>] = audit[<<"enqueued", a>>]
    BY <1>1, <1>3, RecordKeepsEnqueued DEF IngressInv
  <2>2. \A s \in Requests : (rqpc[s] = "enqueued") = (rqpc'[s] = "enqueued")
    BY DEF IngressInv, TypeOK, Check, At, Goto
  <2> QED
    BY <2>1, <2>2, NothingPublished DEF IngressInv, Check
<1> QED
  BY <1>5, <1>6, <1>7, <1>8, <1>9, <1>10, <1>11 DEF IngressInv

\* Only the request that finds the delivery id free goes on to dispatch it.
LEMMA InsertInv ==
    ASSUME IngressInv, NEW r \in Requests, Insert(r)
    PROVE  IngressInv'
<1>1. rqid[r] \in DeliveryIds /\ body[r] \in Bodies
  BY DEF IngressInv, Carries, Insert, At
<1>2. <<"processed", rqid[r]>> \in AuditKinds
  BY <1>1, AuditKindsApart
<1>3. \/ /\ deliveries[rqid[r]] = None
         /\ deliveries' = [deliveries EXCEPT ![rqid[r]] = body[r]]
         /\ Record("processed", rqid[r])
      \/ UNCHANGED <<deliveries, audit>>
  BY DEF Insert
<1>4. audit' \in [AuditKinds -> Nat]
  BY <1>2, <1>3, RecordOne DEF IngressInv, TypeOK
<1>5. TypeOK'
  BY <1>1, <1>4 DEF IngressInv, TypeOK, Labels, Insert, Goto
<1>6. Carries'
  BY <1>1 DEF IngressInv, Carries, Bodies, TypeOK, Insert, Goto
<1>7. RowBeforeEvent'
  BY DEF IngressInv, RowBeforeEvent, TypeOK, Insert, Goto
<1>8. DispatchedOnce'
  <2>1. \A s \in Requests : Dispatched(s) => deliveries[rqid[s]] \in Bodies
    BY DEF IngressInv, AnnouncedIsRecorded, Carries, Dispatched
  <2>2. deliveries[rqid[r]] = None => \A s \in Requests : Dispatched(s) => rqid[s] # rqid[r]
    BY <2>1, IngressAssumption DEF Bodies
  <2> QED
    BY <2>2 DEF IngressInv, DispatchedOnce, Dispatched, TypeOK, Insert, Goto
<1>9. AnnouncedIsRecorded'
  <2>1. \A s \in Requests : s # r /\ (Dispatched(s) \/ rqpc[s] = "duplicate") =>
                                deliveries'[rqid[s]] = body[s]
    <3> SUFFICES ASSUME NEW s \in Requests, Dispatched(s) \/ rqpc[s] = "duplicate"
                 PROVE  deliveries'[rqid[s]] = body[s]
      OBVIOUS
    <3>1. deliveries[rqid[s]] = body[s] /\ rqid[s] \in DeliveryIds /\ body[s] \in Bodies
      BY DEF IngressInv, AnnouncedIsRecorded, Carries, Dispatched
    <3>2. body[s] # None
      BY <3>1, IngressAssumption DEF Bodies
    <3> QED
      BY <1>1, <1>3, <3>1, <3>2 DEF IngressInv, TypeOK
  <2>2. \A s \in Requests \ {r} : rqpc'[s] = rqpc[s]
    BY DEF IngressInv, TypeOK, Insert, Goto
  <2>3. Dispatched(r)' \/ rqpc'[r] = "duplicate" => deliveries'[rqid[r]] = body[r]
    BY <1>1 DEF IngressInv, TypeOK, Insert, Goto, Dispatched
  <2> QED
    BY <2>1, <2>2, <2>3 DEF IngressInv, AnnouncedIsRecorded, Dispatched, Insert
<1>10. AuditedWithCommit'
  <2>1. CASE UNCHANGED <<deliveries, audit>>
    BY <2>1 DEF IngressInv, AuditedWithCommit, Insert
  <2>2. CASE /\ deliveries[rqid[r]] = None
             /\ deliveries' = [deliveries EXCEPT ![rqid[r]] = body[r]]
             /\ Record("processed", rqid[r])
    <3>1. body[r] # None
      BY <1>1, IngressAssumption DEF Bodies
    <3>2. audit[<<"processed", rqid[r]>>] = 0
      BY <1>1, <2>2 DEF IngressInv, AuditedWithCommit
    <3>3. audit'[<<"processed", rqid[r]>>] = 1 /\ deliveries'[rqid[r]] # None
      BY <1>1, <1>2, <2>2, <3>1, <3>2, RecordOne DEF IngressInv, TypeOK
    <3>4. ASSUME NEW d \in DeliveryIds, d # rqid[r]
          PROVE  audit'[<<"processed", d>>] = audit[<<"processed", d>>]
                     /\ deliveries'[d] = deliveries[d]
      <4>1. <<"processed", d>> # <<"processed", rqid[r]>>
        BY <3>4
      <4> QED
        BY <1>2, <2>2, <3>4, <4>1, RecordOne, AuditKindsApart DEF IngressInv, TypeOK
    <3>5. \A a \in Shas : audit'[<<"started", a>>] = audit[<<"started", a>>]
      BY <1>2, <2>2, RecordOne, AuditKindsApart DEF IngressInv
    <3> QED
      BY <3>3, <3>4, <3>5 DEF IngressInv, AuditedWithCommit, Insert
  <2> QED
    BY <1>3, <2>1, <2>2
<1>11. EnqueuedWasPublished'
  <2>1. \A a \in Shas : audit'[<<"enqueued", a>>] = audit[<<"enqueued", a>>]
    BY <1>2, <1>3, RecordKeepsEnqueued DEF IngressInv
  <2>2. \A s \in Requests : (rqpc[s] = "enqueued") = (rqpc'[s] = "enqueued")
    BY DEF IngressInv, TypeOK, Insert, At, Goto
  <2> QED
    BY <2>1, <2>2, NothingPublished DEF IngressInv, Insert
<1> QED
  BY <1>5, <1>6, <1>7, <1>8, <1>9, <1>10, <1>11 DEF IngressInv

\* The reads of _start_or_get lead to the publication of a row that is there.
LEMMA StartOrGetInv ==
    ASSUME IngressInv, NEW r \in Requests, StartOrGet(r)
    PROVE  IngressInv'
<1>1. TypeOK'
  BY DEF IngressInv, TypeOK, Labels, StartOrGet, Goto
<1>2. Carries'
  BY DEF IngressInv, Carries, TypeOK, StartOrGet, At, Goto
<1>3. RowBeforeEvent'
  BY DEF IngressInv, RowBeforeEvent, TypeOK, StartOrGet, Goto
<1>4. DispatchedOnce'
  BY DEF IngressInv, DispatchedOnce, Dispatched, TypeOK, StartOrGet, At, Goto
<1>5. AnnouncedIsRecorded'
  BY DEF IngressInv, AnnouncedIsRecorded, Dispatched, TypeOK, StartOrGet, At, Goto
<1>6. AuditedWithCommit'
  BY DEF IngressInv, AuditedWithCommit, StartOrGet
<1>7. EnqueuedWasPublished'
  <2>1. \A s \in Requests : (rqpc[s] = "enqueued") = (rqpc'[s] = "enqueued")
    BY DEF IngressInv, TypeOK, StartOrGet, At, Goto
  <2> QED
    BY <2>1, NothingPublished DEF IngressInv, StartOrGet
<1> QED
  BY <1>1, <1>2, <1>3, <1>4, <1>5, <1>6, <1>7 DEF IngressInv

\* The row and its audit event are there together, and the row stays.
LEMMA CreateRowInv ==
    ASSUME IngressInv, NEW r \in Requests, CreateRow(r)
    PROVE  IngressInv'
<1>1. body[r] \in Shas
  BY DEF IngressInv, Carries, CreateRow, At
<1>2. <<"started", body[r]>> \in AuditKinds
  BY <1>1, AuditKindsApart
<1>3. \/ /\ rows[body[r]] = NoRow
         /\ rows' = [rows EXCEPT ![body[r]] = NewRow]
         /\ Record("started", body[r])
      \/ UNCHANGED <<rows, audit>>
  BY DEF CreateRow
<1>4. audit' \in [AuditKinds -> Nat]
  BY <1>2, <1>3, RecordOne DEF IngressInv, TypeOK
<1>5. TypeOK'
  BY <1>1, <1>4 DEF IngressInv, TypeOK, Labels, CreateRow, Goto
<1>6. Carries'
  BY <1>1 DEF IngressInv, Carries, TypeOK, CreateRow, At, Goto
<1>7. \A a \in Shas : rows[a] # NoRow => rows'[a] # NoRow
  BY <1>1, <1>3, IngressAssumption DEF IngressInv, TypeOK
<1>8. RowBeforeEvent'
  <2>1. \A s \in Requests : rqpc[s] \in {"publish", "enqueued", "run"} => rows'[body[s]] # NoRow
    BY <1>7 DEF IngressInv, RowBeforeEvent, Carries
  <2> QED
    BY <1>1, <2>1, IngressAssumption DEF IngressInv, RowBeforeEvent, TypeOK, CreateRow, Goto
<1>9. DispatchedOnce'
  BY DEF IngressInv, DispatchedOnce, Dispatched, TypeOK, CreateRow, At, Goto
<1>10. AnnouncedIsRecorded'
  <2>1. \A i \in DOMAIN log : log[i] \in Shas
    BY DEF IngressInv, TypeOK
  <2>2. \A i \in DOMAIN log : rows'[log[i]] # NoRow
    BY <1>7, <2>1 DEF IngressInv, AnnouncedIsRecorded
  <2>3. \A s \in Requests : Dispatched(s)' \/ rqpc'[s] = "duplicate" =>
                                Dispatched(s) \/ rqpc[s] = "duplicate"
    BY DEF IngressInv, TypeOK, Dispatched, CreateRow, At, Goto
  <2> QED
    BY <2>2, <2>3 DEF IngressInv, AnnouncedIsRecorded, CreateRow
<1>11. AuditedWithCommit'
  <2>1. CASE UNCHANGED <<rows, audit>>
    BY <2>1 DEF IngressInv, AuditedWithCommit, CreateRow
  <2>2. CASE /\ rows[body[r]] = NoRow
             /\ rows' = [rows EXCEPT ![body[r]] = NewRow]
             /\ Record("started", body[r])
    <3>1. audit[<<"started", body[r]>>] = 0
      BY <1>1, <2>2 DEF IngressInv, AuditedWithCommit
    <3>2. audit'[<<"started", body[r]>>] = 1 /\ rows'[body[r]] # NoRow
      BY <1>1, <1>2, <2>2, <3>1, RecordOne, IngressAssumption DEF IngressInv, TypeOK
    <3>3. ASSUME NEW a \in Shas, a # body[r]
          PROVE  audit'[<<"started", a>>] = audit[<<"started", a>>] /\ rows'[a] = rows[a]
      <4>1. <<"started", a>> # <<"started", body[r]>>
        BY <3>3
      <4> QED
        BY <1>2, <2>2, <3>3, <4>1, RecordOne, AuditKindsApart DEF IngressInv, TypeOK
    <3>4. \A d \in DeliveryIds : audit'[<<"processed", d>>] = audit[<<"processed", d>>]
      BY <1>2, <2>2, RecordOne, AuditKindsApart DEF IngressInv
    <3> QED
      BY <3>2, <3>3, <3>4 DEF IngressInv, AuditedWithCommit, CreateRow
  <2> QED
    BY <1>3, <2>1, <2>2
<1>12. EnqueuedWasPublished'
  <2>1. \A a \in Shas : audit'[<<"enqueued", a>>] = audit[<<"enqueued", a>>]
    BY <1>2, <1>3, RecordKeepsEnqueued DEF IngressInv
  <2>2. \A s \in Requests : (rqpc[s] = "enqueued") = (rqpc'[s] = "enqueued")
    BY DEF IngressInv, TypeOK, CreateRow, At, Goto
  <2> QED
    BY <2>1, <2>2, NothingPublished DEF IngressInv, CreateRow
<1> QED
  BY <1>5, <1>6, <1>8, <1>9, <1>10, <1>11, <1>12 DEF IngressInv

\* An event more on the topic is one of a commit with a row, and leaves room
\* for one audit event more, which the request now owes.
LEMMA PublishRequestInv ==
    ASSUME IngressInv, NEW r \in Requests, PublishRequest(r)
    PROVE  IngressInv'
<1>1. body[r] \in Shas /\ rows[body[r]] # NoRow
  BY DEF IngressInv, Carries, RowBeforeEvent, PublishRequest, At
<1>2. TypeOK'
  BY <1>1 DEF IngressInv, TypeOK, Labels, PublishRequest, Goto
<1>3. Carries'
  BY <1>1 DEF IngressInv, Carries, TypeOK, PublishRequest, At, Goto
<1>4. RowBeforeEvent'
  BY <1>1 DEF IngressInv, RowBeforeEvent, TypeOK, PublishRequest, Goto
<1>5. DispatchedOnce'
  BY DEF IngressInv, DispatchedOnce, Dispatched, TypeOK, PublishRequest, At, Goto
<1>6. AnnouncedIsRecorded'
  <2>1. \A i \in DOMAIN log' : rows[log'[i]] # NoRow
    BY <1>1 DEF IngressInv, AnnouncedIsRecorded, TypeOK, PublishRequest
  <2>2. \A s \in Requests : Dispatched(s)' \/ rqpc'[s] = "duplicate" =>
                                Dispatched(s) \/ rqpc[s] = "duplicate"
    BY DEF IngressInv, TypeOK, Dispatched, PublishRequest, At, Goto
  <2> QED
    BY <2>1, <2>2 DEF IngressInv, AnnouncedIsRecorded, PublishRequest
<1>7. AuditedWithCommit'
  BY DEF IngressInv, AuditedWithCommit, PublishRequest
<1>8. EnqueuedWasPublished'
  <2> SUFFICES ASSUME NEW a \in Shas
               PROVE  /\ IsFiniteSet(Announcing(a)')
                      /\ audit'[<<"enqueued", a>>] + Cardinality(Announcing(a)')
                             <= Cardinality(EventsOf(a)')
    BY DEF EnqueuedWasPublished
  <2>1. /\ IsFiniteSet(Announcing(a))
        /\ audit[<<"enqueued", a>>] + Cardinality(Announcing(a)) <= Cardinality(EventsOf(a))
        /\ audit'[<<"enqueued", a>>] = audit[<<"enqueued", a>>]
    BY DEF IngressInv, EnqueuedWasPublished, PublishRequest
  <2>2. audit[<<"enqueued", a>>] \in Nat
    BY AuditKindsApart DEF IngressInv, TypeOK
  <2>3. Cardinality(EventsOf(a)) \in Nat /\ Cardinality(Announcing(a)) \in Nat
    BY <2>1, EventsFinite, FS_CardinalityType DEF IngressInv
  <2>4. Cardinality(EventsOf(a)') = Cardinality(EventsOf(a)) + (IF a = body[r] THEN 1 ELSE 0)
    BY <1>1, AppendEvents DEF IngressInv, PublishRequest
  <2>5. CASE a = body[r]
    <3>1. Announcing(a)' = Announcing(a) \cup {r} /\ r \notin Announcing(a)
      BY <2>5 DEF IngressInv, TypeOK, Announcing, PublishRequest, At, Goto
    <3>2. /\ IsFiniteSet(Announcing(a)')
          /\ Cardinality(Announcing(a)') = Cardinality(Announcing(a)) + 1
      BY <2>1, <3>1, FS_AddElement
    <3> QED
      BY <2>1, <2>2, <2>3, <2>4, <2>5, <3>2
  <2>6. CASE a # body[r]
    <3>1. Announcing(a)' = Announcing(a)
      BY <2>6 DEF IngressInv, TypeOK, Announcing, PublishRequest, At, Goto
    <3> QED
      BY <2>1, <2>2, <2>3, <2>4, <2>6, <3>1
  <2> QED
    BY <2>5, <2>6
<1> QED
  BY <1>2, <1>3, <1>4, <1>5, <1>6, <1>7, <1>8 DEF IngressInv

\* A failed publication may have left its event on the topic; no audit event
\* will tell of it.
LEMMA PublishRequestFailsInv ==
    ASSUME IngressInv, NEW r \in Requests, PublishRequestFails(r)
    PROVE  IngressInv'
<1>1. body[r] \in Shas /\ rows[body[r]] # NoRow
  BY DEF IngressInv, Carries, RowBeforeEvent, PublishRequestFails, At
<1>2. TypeOK'
  <2>1. log' \in Seq(Shas)
    <3>1. log \in Seq(Shas) /\ (log' = log \/ log' = Append(log, body[r]))
      BY DEF IngressInv, TypeOK, PublishRequestFails
    <3> QED
      BY <1>1, <3>1
  <2> QED
    BY <2>1 DEF IngressInv, TypeOK, Labels, PublishRequestFails, Goto
<1>3. Carries'
  BY <1>1 DEF IngressInv, Carries, TypeOK, PublishRequestFails, At, Goto
<1>4. RowBeforeEvent'
  BY <1>1 DEF IngressInv, RowBeforeEvent, TypeOK, PublishRequestFails, Goto
<1>5. DispatchedOnce'
  BY DEF IngressInv, DispatchedOnce, Dispatched, TypeOK, PublishRequestFails, At, Goto
<1>6. AnnouncedIsRecorded'
  <2>1. \A i \in DOMAIN log' : rows[log'[i]] # NoRow
    <3>1. log \in Seq(Shas) /\ (log' = log \/ log' = Append(log, body[r]))
      BY DEF IngressInv, TypeOK, PublishRequestFails
    <3>2. \A i \in DOMAIN log : rows[log[i]] # NoRow
      BY DEF IngressInv, AnnouncedIsRecorded
    <3> QED
      BY <1>1, <3>1, <3>2
  <2>2. \A s \in Requests : Dispatched(s)' \/ rqpc'[s] = "duplicate" =>
                                Dispatched(s) \/ rqpc[s] = "duplicate"
    BY DEF IngressInv, TypeOK, Dispatched, PublishRequestFails, At, Goto
  <2> QED
    BY <2>1, <2>2 DEF IngressInv, AnnouncedIsRecorded, PublishRequestFails
<1>7. AuditedWithCommit'
  BY DEF IngressInv, AuditedWithCommit, PublishRequestFails
<1>8. EnqueuedWasPublished'
  <2> SUFFICES ASSUME NEW a \in Shas
               PROVE  /\ IsFiniteSet(Announcing(a)')
                      /\ audit'[<<"enqueued", a>>] + Cardinality(Announcing(a)')
                             <= Cardinality(EventsOf(a)')
    BY DEF EnqueuedWasPublished
  <2>1. /\ IsFiniteSet(Announcing(a))
        /\ audit[<<"enqueued", a>>] + Cardinality(Announcing(a)) <= Cardinality(EventsOf(a))
        /\ audit'[<<"enqueued", a>>] = audit[<<"enqueued", a>>]
    BY DEF IngressInv, EnqueuedWasPublished, PublishRequestFails
  <2>2. audit[<<"enqueued", a>>] \in Nat
    BY AuditKindsApart DEF IngressInv, TypeOK
  <2>3. Cardinality(EventsOf(a)) \in Nat /\ Cardinality(Announcing(a)) \in Nat
    BY <2>1, EventsFinite, FS_CardinalityType DEF IngressInv
  <2>4. Cardinality(EventsOf(a)) <= Cardinality(EventsOf(a)')
               /\ Cardinality(EventsOf(a)') \in Nat
    <3>1. CASE log' = Append(log, body[r])
      BY <1>1, <2>3, <3>1, AppendEvents DEF IngressInv
    <3>2. CASE UNCHANGED log
      BY <2>3, <3>2 DEF EventsOf
    <3> QED
      BY <3>1, <3>2 DEF PublishRequestFails
  <2>5. Announcing(a)' = Announcing(a)
    BY DEF IngressInv, TypeOK, Announcing, PublishRequestFails, At, Goto
  <2> QED
    BY <2>1, <2>2, <2>3, <2>4, <2>5
<1> QED
  BY <1>2, <1>3, <1>4, <1>5, <1>6, <1>7, <1>8 DEF IngressInv

\* The audit event a request owes is written once.
LEMMA RecordEnqueuedInv ==
    ASSUME IngressInv, NEW r \in Requests, RecordEnqueued(r)
    PROVE  IngressInv'
<1>1. body[r] \in Shas
  BY DEF IngressInv, Carries, RecordEnqueued, At
<1>2. <<"enqueued", body[r]>> \in AuditKinds /\ Record("enqueued", body[r])
  BY <1>1, AuditKindsApart DEF RecordEnqueued
<1>3. audit' \in [AuditKinds -> Nat]
  BY <1>2, RecordOne DEF IngressInv
<1>4. TypeOK'
  BY <1>3 DEF IngressInv, TypeOK, Labels, RecordEnqueued, Goto
<1>5. Carries'
  BY DEF IngressInv, Carries, TypeOK, RecordEnqueued, At, Goto
<1>6. RowBeforeEvent'
  BY DEF IngressInv, RowBeforeEvent, TypeOK, RecordEnqueued, Goto
<1>7. DispatchedOnce'
  BY DEF IngressInv, DispatchedOnce, Dispatched, TypeOK, RecordEnqueued, At, Goto
<1>8. AnnouncedIsRecorded'
  BY DEF IngressInv, AnnouncedIsRecorded, Dispatched, TypeOK, RecordEnqueued, At, Goto
<1>9. AuditedWithCommit'
  <2>1. \A d \in DeliveryIds : audit'[<<"processed", d>>] = audit[<<"processed", d>>]
    BY <1>2, RecordOne, AuditKindsApart DEF IngressInv
  <2>2. \A a \in Shas : audit'[<<"started", a>>] = audit[<<"started", a>>]
    BY <1>2, RecordOne, AuditKindsApart DEF IngressInv
  <2> QED
    BY <2>1, <2>2 DEF IngressInv, AuditedWithCommit, RecordEnqueued
<1>10. EnqueuedWasPublished'
  <2> SUFFICES ASSUME NEW a \in Shas
               PROVE  /\ IsFiniteSet(Announcing(a)')
                      /\ audit'[<<"enqueued", a>>] + Cardinality(Announcing(a)')
                             <= Cardinality(EventsOf(a)')
    BY DEF EnqueuedWasPublished
  <2>1. /\ IsFiniteSet(Announcing(a))
        /\ audit[<<"enqueued", a>>] + Cardinality(Announcing(a)) <= Cardinality(EventsOf(a))
    BY DEF IngressInv, EnqueuedWasPublished
  <2>2. audit[<<"enqueued", a>>] \in Nat
    BY AuditKindsApart DEF IngressInv, TypeOK
  <2>3. Cardinality(EventsOf(a)) \in Nat /\ Cardinality(Announcing(a)) \in Nat
    BY <2>1, EventsFinite, FS_CardinalityType DEF IngressInv
  <2>4. EventsOf(a)' = EventsOf(a)
    BY DEF EventsOf, RecordEnqueued
  <2>5. CASE a = body[r]
    <3>1. Announcing(a)' = Announcing(a) \ {r} /\ r \in Announcing(a)
      BY <2>5 DEF IngressInv, TypeOK, Announcing, RecordEnqueued, At, Goto
    <3>2. /\ IsFiniteSet(Announcing(a)')
          /\ Cardinality(Announcing(a)') = Cardinality(Announcing(a)) - 1
      BY <2>1, <3>1, FS_RemoveElement
    <3>3. audit'[<<"enqueued", a>>] = audit[<<"enqueued", a>>] + 1
      BY <1>2, <2>5, RecordOne DEF IngressInv
    <3> QED
      BY <2>1, <2>2, <2>3, <2>4, <3>2, <3>3
  <2>6. CASE a # body[r]
    <3>1. Announcing(a)' = Announcing(a)
      BY <2>6 DEF IngressInv, TypeOK, Announcing, RecordEnqueued, At, Goto
    <3>2. <<"enqueued", a>> # <<"enqueued", body[r]>>
      BY <2>6
    <3>3. audit'[<<"enqueued", a>>] = audit[<<"enqueued", a>>]
      BY <1>2, <3>2, RecordOne, AuditKindsApart DEF IngressInv
    <3> QED
      BY <2>1, <2>4, <3>1, <3>3
  <2> QED
    BY <2>5, <2>6
<1> QED
  BY <1>4, <1>5, <1>6, <1>7, <1>8, <1>9, <1>10 DEF IngressInv

\* A request that dies after its publication leaves an event that is never
\* audited, and nothing that is audited without an event.
LEMMA DieInv ==
    ASSUME IngressInv, NEW r \in Requests, Die(r)
    PROVE  IngressInv'
<1>1. TypeOK'
  BY DEF IngressInv, TypeOK, Labels, Die, Goto
<1>2. Carries'
  BY DEF IngressInv, Carries, TypeOK, Die, Goto
<1>3. RowBeforeEvent'
  BY DEF IngressInv, RowBeforeEvent, TypeOK, Die, Goto
<1>4. DispatchedOnce'
  BY DEF IngressInv, DispatchedOnce, Dispatched, TypeOK, Die, Goto
<1>5. AnnouncedIsRecorded'
  BY DEF IngressInv, AnnouncedIsRecorded, Dispatched, TypeOK, Die, Goto
<1>6. AuditedWithCommit'
  BY DEF IngressInv, AuditedWithCommit, Die
<1>7. EnqueuedWasPublished'
  <2> SUFFICES ASSUME NEW a \in Shas
               PROVE  /\ IsFiniteSet(Announcing(a)')
                      /\ audit'[<<"enqueued", a>>] + Cardinality(Announcing(a)')
                             <= Cardinality(EventsOf(a)')
    BY DEF EnqueuedWasPublished
  <2>1. /\ IsFiniteSet(Announcing(a))
        /\ audit[<<"enqueued", a>>] + Cardinality(Announcing(a)) <= Cardinality(EventsOf(a))
    BY DEF IngressInv, EnqueuedWasPublished
  <2>2. audit[<<"enqueued", a>>] \in Nat
    BY AuditKindsApart DEF IngressInv, TypeOK
  <2>3. Cardinality(EventsOf(a)) \in Nat /\ Cardinality(Announcing(a)) \in Nat
    BY <2>1, EventsFinite, FS_CardinalityType DEF IngressInv
  <2>4. EventsOf(a)' = EventsOf(a) /\ audit' = audit
    BY DEF EventsOf, Die
  <2>5. Announcing(a)' \subseteq Announcing(a)
    BY DEF IngressInv, TypeOK, Announcing, Die, Goto
  <2>6. /\ IsFiniteSet(Announcing(a)')
        /\ Cardinality(Announcing(a)') <= Cardinality(Announcing(a))
        /\ Cardinality(Announcing(a)') \in Nat
    BY <2>1, <2>5, FS_Subset, FS_CardinalityType
  <2> QED
    BY <2>1, <2>2, <2>3, <2>4, <2>6
<1> QED
  BY <1>1, <1>2, <1>3, <1>4, <1>5, <1>6, <1>7 DEF IngressInv

-----------------------------------------------------------------------------
\* A request that has run the analysis itself has nothing left to record.
LEMMA RunInlineInv ==
    ASSUME IngressInv, NEW r \in Requests, RunInline(r)
    PROVE  IngressInv'
<1>1. TypeOK'
  BY DEF IngressInv, TypeOK, Labels, RunInline, Goto
<1>2. Carries' /\ RowBeforeEvent'
  BY DEF IngressInv, Carries, RowBeforeEvent, TypeOK, RunInline, At, Goto
<1>3. DispatchedOnce'
  BY DEF IngressInv, DispatchedOnce, Dispatched, TypeOK, RunInline, At, Goto
<1>4. AnnouncedIsRecorded'
  BY DEF IngressInv, AnnouncedIsRecorded, Dispatched, TypeOK, RunInline, At, Goto
<1>5. AuditedWithCommit'
  BY DEF IngressInv, AuditedWithCommit, RunInline
<1>6. EnqueuedWasPublished'
  <2>1. \A s \in Requests : (rqpc[s] = "enqueued") = (rqpc'[s] = "enqueued")
    BY DEF IngressInv, TypeOK, RunInline, At, Goto
  <2> QED
    BY <2>1, NothingPublished DEF IngressInv, RunInline
<1> QED
  BY <1>1, <1>2, <1>3, <1>4, <1>5, <1>6 DEF IngressInv

-----------------------------------------------------------------------------
\* What may happen in one step.  Next is such a step; so is every step of a
\* system around the requests that leaves their tables, the topic and the
\* existence of the analysis rows alone, and in which a request may end its
\* own run of the analysis.
IngressMove ==
    \/ \E r \in Requests : Arrive(r) \/ RequestStep(r) \/ RunInline(r) \/ Die(r)
    \/ UNCHANGED <<kafka, rows, log, deliveries, audit, rqpc, rqid, body>>

\* No step of a request, no death of one, and nothing around them breaks the
\* invariant.
LEMMA MoveInv ==
    ASSUME IngressInv, IngressMove
    PROVE  IngressInv'
<1>1. CASE UNCHANGED <<kafka, rows, log, deliveries, audit, rqpc, rqid, body>>
  <2>1. (TypeOK /\ Carries /\ RowBeforeEvent /\ DispatchedOnce)'
    BY <1>1 DEF IngressInv, TypeOK, Carries, RowBeforeEvent, DispatchedOnce, Dispatched
  <2>2. (AnnouncedIsRecorded /\ AuditedWithCommit)'
    BY <1>1 DEF IngressInv, AnnouncedIsRecorded, Dispatched, AuditedWithCommit
  <2>3. EnqueuedWasPublished'
    BY <1>1, NothingPublished DEF IngressInv
  <2> QED
    BY <2>1, <2>2, <2>3 DEF IngressInv
<1>2. ASSUME NEW r \in Requests, Arrive(r) \/ RequestStep(r) \/ RunInline(r) \/ Die(r)
      PROVE  IngressInv'
  BY <1>2, ArriveInv, CheckInv, InsertInv, StartOrGetInv, CreateRowInv, PublishRequestInv,
     PublishRequestFailsInv, RecordEnqueuedInv, RunInlineInv, DieInv DEF RequestStep
<1> QED
  BY <1>1, <1>2 DEF IngressMove

LEMMA StepInv == IngressInv /\ [Next]_ingressVars => IngressInv'
<1>1. [Next]_ingressVars => IngressMove
  BY DEF Next, IngressMove, ingressVars
<1> QED
  BY <1>1, MoveInv

\* Everything above holds in every reachable state.
THEOREM IngressInvariant == Spec => []IngressInv
  BY InitInv, StepInv, PTL DEF Spec

\* A delivery is dispatched by at most one request: GitHubWebhookService.process
\* lets only the request through whose insert found the delivery id free.
THEOREM DeliveryDispatchedOnce == Spec => []DispatchedOnce
<1>1. IngressInv => DispatchedOnce
  BY DEF IngressInv
<1> QED
  BY <1>1, IngressInvariant, PTL

\* What GitHub is told was received is what the ledger stores, and every event
\* on the request topic names a row that exists.
THEOREM AnnouncedWasRecorded == Spec => []AnnouncedIsRecorded
<1>1. IngressInv => AnnouncedIsRecorded
  BY DEF IngressInv
<1> QED
  BY <1>1, IngressInvariant, PTL

\* Only the insertion of a row lets a request run the analysis itself, and what
\* others run has its row already.
LEMMA InlineStep ==
    ASSUME IngressInv, InlineRunsDoNotOverlap, [Next]_ingressVars
    PROVE  InlineRunsDoNotOverlap'
<1>1. CASE UNCHANGED ingressVars
  BY <1>1 DEF InlineRunsDoNotOverlap, ingressVars
<1>2. ASSUME NEW r \in Requests, CreateRow(r)
      PROVE  InlineRunsDoNotOverlap'
  <2>1. rqpc'[r] = "run" => rows[body[r]] = NoRow
    BY <1>2 DEF IngressInv, TypeOK, CreateRow, Goto
  <2>2. \A s \in Requests : s # r => rqpc'[s] = rqpc[s]
    BY <1>2 DEF IngressInv, TypeOK, CreateRow, Goto
  <2>3. \A s \in Requests : rqpc[s] = "run" => rows[body[s]] # NoRow
    BY DEF IngressInv, RowBeforeEvent
  <2> QED
    BY <1>2, <2>1, <2>2, <2>3 DEF InlineRunsDoNotOverlap, CreateRow
<1>3. ASSUME NEW r \in Requests, Arrive(r) \/ RequestStep(r) \/ Die(r), ~CreateRow(r)
      PROVE  InlineRunsDoNotOverlap'
  <2>1. \A s \in Requests : rqpc'[s] = "run" => rqpc[s] = "run" /\ body'[s] = body[s]
    BY <1>3 DEF IngressInv, TypeOK, Arrive, RequestStep, Receive, Check, Insert, StartOrGet,
                PublishRequest, PublishRequestFails, RecordEnqueued, Die, Goto
  <2> QED
    BY <2>1 DEF InlineRunsDoNotOverlap
<1> QED
  BY <1>1, <1>2, <1>3 DEF Next

\* Without Kafka no two requests run the analysis of one commit: _start_or_get
\* inserts the row of a commit once, and only who inserted it runs.
THEOREM CommitRunByOneRequest == Spec => []InlineRunsDoNotOverlap
<1>1. Init => InlineRunsDoNotOverlap
  BY DEF Init, InlineRunsDoNotOverlap
<1> QED
  BY <1>1, InlineStep, IngressInvariant, PTL DEF Spec

\* The books balance: what requests owe the audit trail is never negative.
LEMMA BooksBalance == IngressInv => AuditTrail
<1> SUFFICES ASSUME IngressInv PROVE AuditTrail
  OBVIOUS
<1>1. ASSUME NEW a \in Shas
      PROVE  audit[<<"enqueued", a>>] <= Cardinality({i \in DOMAIN log : log[i] = a})
  <2>1. /\ IsFiniteSet(Announcing(a))
        /\ audit[<<"enqueued", a>>] + Cardinality(Announcing(a)) <= Cardinality(EventsOf(a))
    BY DEF IngressInv, EnqueuedWasPublished
  <2>2. audit[<<"enqueued", a>>] \in Nat
    BY AuditKindsApart DEF IngressInv, TypeOK
  <2>3. Cardinality(EventsOf(a)) \in Nat /\ Cardinality(Announcing(a)) \in Nat
    BY <2>1, EventsFinite, FS_CardinalityType DEF IngressInv
  <2>4. audit[<<"enqueued", a>>] <= Cardinality(EventsOf(a))
    BY <2>1, <2>2, <2>3
  <2> QED
    BY <2>4 DEF EventsOf
<1> QED
  BY <1>1 DEF IngressInv, AuditedWithCommit, AuditTrail

\* The audit trail tells what happened: one "processed" per stored delivery,
\* one "started" per row, and never more "enqueued" than events.
THEOREM AuditTrailTellsTheTruth == Spec => []AuditTrail
  BY BooksBalance, IngressInvariant, PTL

=============================================================================
