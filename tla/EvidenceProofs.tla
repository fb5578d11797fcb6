--------------------------- MODULE EvidenceProofs ---------------------------
(***************************************************************************)
(* What Evidence stores, for any number of clients, replays and versions,  *)
(* for replays of any length, and for any compatibility engine and any     *)
(* comparison of values (Analyze and DiffValues are parameters).           *)
(***************************************************************************)
EXTENDS Evidence, FiniteSetTheorems, TLAPS

-----------------------------------------------------------------------------
(* The inductive invariant                                                 *)

StepLists == {Worlds[i].outcomes[r] : i \in DOMAIN Worlds, r \in Replays} \cup {<<>>}

ReplayRows == [status: {"pending", "completed", "failed"}, steps: StepLists]

\* A world and two of its versions that can be analyzed.
Analyzed ==
    {t \in (DOMAIN Worlds) \X Versions \X Versions :
        LET w == Worlds[t[1]]
        IN  /\ {t[2], t[3]} \subseteq DOMAIN w.contents
            /\ Analyzable(w.kind, w.contents[t[2]], w.contents[t[3]])}

ScanRows ==
    {NewScan(t[2], t[3], Analyze(Worlds[t[1]].kind, Worlds[t[1]].contents[t[2]],
                                 Worlds[t[1]].contents[t[3]])) : t \in Analyzed}

ReportRows ==
    {NewReport(key, DifferentialAnalysis(s, t)) :
        key \in Replays \X Replays, s \in StepLists, t \in StepLists}

AssessmentRows ==
    {NewAssessment(key, blast, Evaluate(BuildContext(scan, report, blast))) :
        key \in Nat \X Nat, scan \in ScanRows \cup {None}, report \in ReportRows \cup {None},
        blast \in BlastRadii \cup {None}}

TypeOK ==
    /\ \E i \in DOMAIN Worlds : world = Worlds[i]
    /\ replays \in [Replays -> ReplayRows]
    /\ scans \in Seq(ScanRows)
    /\ reports \in Seq(ReportRows)
    /\ assessments \in Seq(AssessmentRows)
    /\ call = [c \in Clients |-> call[c]]

\* The replays of the key have ended well, and the report is what a comparison
\* of them says.
Reflects(report, key) ==
    /\ key \in Replays \X Replays
    /\ replays[key[1]].status = "completed" /\ replays[key[2]].status = "completed"
    /\ report = NewReport(key, DifferentialAnalysis(replays[key[1]].steps, replays[key[2]].steps))

KeyOfReport(report) == <<report.baseline, report.candidate>>

\* An assessment is what the engine says of the scan and the report it names.
ScanOf(id) == IF Resolves(id, scans) THEN scans[id] ELSE None

ReportOf(id) == IF Resolves(id, reports) THEN reports[id] ELSE None

Explained(row) ==
    /\ row.scan \in {0} \cup DOMAIN scans
    /\ row.report \in {0} \cup DOMAIN reports
    /\ row.blast \in BlastRadii \cup {None}
    /\ row.result = Evaluate(BuildContext(ScanOf(row.scan), ReportOf(row.report), row.blast))

KeyOfAssessment(row) == <<row.scan, row.report>>

AssessKeys == ({0, Elsewhere} \cup DOMAIN scans) \X ({0, Elsewhere} \cup DOMAIN reports)

\* What is stored.
StoredInv ==
    /\ \A i \in DOMAIN reports : Reflects(reports[i], KeyOfReport(reports[i]))
    /\ \A i \in DOMAIN assessments : Explained(assessments[i])

\* What the transaction of a client knows.
Busy == {"missed", "computed", "flushed"}

ScanAt(c) ==
    Op(c) = "scan" => /\ call[c].pc \in {"idle", "flushed", "done"}
                      /\ call[c].pc = "flushed" => call[c].row \in ScanRows

CompareAt(c) ==
    Op(c) = "compare" =>
        /\ call[c].pc \in Busy => call[c].key \in Replays \X Replays
        /\ call[c].pc \in {"computed", "flushed"} => Reflects(call[c].row, call[c].key)
        /\ call[c].pc = "flushed" =>
              \A i \in DOMAIN reports : KeyOfReport(reports[i]) # call[c].key

AssessAt(c) ==
    Op(c) = "assess" =>
        /\ call[c].pc \in Busy => call[c].key \in AssessKeys
        /\ call[c].pc \in {"computed", "flushed"} =>
              /\ Explained(call[c].row) /\ call[c].row \in AssessmentRows
              /\ KeyOfAssessment(call[c].row) = call[c].key
        /\ call[c].pc = "flushed" /\ Keyed(call[c].key) =>
              \A i \in DOMAIN assessments : KeyOfAssessment(assessments[i]) # call[c].key

NothingAt(c) == Op(c) = "nothing" => call[c].pc = "idle"

ClientAt(c) == ScanAt(c) /\ CompareAt(c) /\ AssessAt(c) /\ NothingAt(c)

\* Two transactions that have inserted a row of one unique key: the second one
\* would have waited.
Exclusive ==
    \A c, d \in Clients :
        /\ call[c].pc = "flushed" /\ call[d].pc = "flushed"
        /\ Op(c) = Op(d) /\ call[c].key = call[d].key
        /\ Op(c) = "compare" \/ (Op(c) = "assess" /\ Keyed(call[c].key))
        => c = d

EvidenceInv ==
    /\ TypeOK /\ StoredInv /\ KeyedOnce /\ Exclusive
    /\ \A c \in Clients : ClientAt(c)

-----------------------------------------------------------------------------
(* Facts the steps share                                                   *)

\* A step changes what one client's request is doing.
LEMMA CallChanges ==
    ASSUME TypeOK, NEW c \in Clients, NEW rec, call' = [call EXCEPT ![c] = rec]
    PROVE  /\ call' = [d \in Clients |-> call'[d]]
           /\ call'[c] = rec
           /\ \A d \in Clients \ {c} : call'[d] = call[d]
<1>1. DOMAIN call = Clients
  BY DEF TypeOK
<1>2. call' = [d \in Clients |-> IF d = c THEN rec ELSE call[d]]
  BY <1>1
<1> QED
  BY <1>2

\* Where the request of a client that asks for something ends, it knows nothing.
LEMMA AnswerEnds ==
    ASSUME TypeOK, NEW c \in Clients, NEW key, NEW answer, Answer(c, key, answer)
    PROVE  /\ call'[c].pc = "done" /\ call'[c].key = key /\ call'[c].answer = answer
           /\ call' = [d \in Clients |-> call'[d]]
           /\ \A d \in Clients \ {c} : call'[d] = call[d]
<1> DEFINE rec == [NoCall EXCEPT !.pc = "done", !.key = key, !.answer = answer]
<1>1. rec.pc = "done" /\ rec.key = key /\ rec.answer = answer
  BY DEF NoCall
<1> HIDE DEF rec
<1>2. call' = [call EXCEPT ![c] = rec]
  BY DEF Answer, rec
<1> QED
  BY <1>1, <1>2, CallChanges

LEMMA ContinueGoesOn ==
    ASSUME TypeOK, NEW c \in Clients, NEW pc, NEW key, NEW row, Continue(c, pc, key, row)
    PROVE  /\ call'[c].pc = pc /\ call'[c].key = key /\ call'[c].row = row
           /\ call' = [d \in Clients |-> call'[d]]
           /\ \A d \in Clients \ {c} : call'[d] = call[d]
<1> DEFINE rec == [NoCall EXCEPT !.pc = pc, !.key = key, !.row = row]
<1>1. rec.pc = pc /\ rec.key = key /\ rec.row = row
  BY DEF NoCall
<1> HIDE DEF rec
<1>2. call' = [call EXCEPT ![c] = rec]
  BY DEF Continue, rec
<1> QED
  BY <1>1, <1>2, CallChanges

\* A step of one client that stores nothing, and does not take a unique key that
\* another one holds.
LEMMA NothingStored ==
    ASSUME EvidenceInv, NEW c \in Clients,
           UNCHANGED <<world, Tables>>,
           call' = [d \in Clients |-> call'[d]],
           \A d \in Clients \ {c} : call'[d] = call[d],
           ClientAt(c)',
           call'[c].pc = "flushed"
               /\ (Op(c) = "compare" \/ (Op(c) = "assess" /\ Keyed(call'[c].key)))
             => ~\E d \in Clients \ {c} : /\ Op(d) = Op(c) /\ call[d].pc = "flushed"
                                          /\ call[d].key = call'[c].key
    PROVE  EvidenceInv'
<1>1. UNCHANGED <<world, replays, scans, reports, assessments>>
  BY DEF Tables
<1>2. TypeOK'
  BY <1>1 DEF EvidenceInv, TypeOK
<1>3. StoredInv'
  BY <1>1 DEF EvidenceInv, StoredInv, Reflects, Explained, ScanOf, ReportOf, Resolves
<1>4. KeyedOnce'
  BY <1>1 DEF EvidenceInv, KeyedOnce
<1>5. \A d \in Clients : Op(d)' = Op(d)
  BY <1>1 DEF Op
<1>6. Exclusive'
  <2> SUFFICES ASSUME NEW d \in Clients, NEW e \in Clients, d # e,
                      call'[d].pc = "flushed", call'[e].pc = "flushed",
                      Op(d) = Op(e), call'[d].key = call'[e].key,
                      Op(d) = "compare" \/ (Op(d) = "assess" /\ Keyed(call'[d].key))
               PROVE  FALSE
    BY <1>5 DEF Exclusive
  <2>1. CASE d = c
    BY <2>1
  <2>2. CASE e = c
    BY <2>2
  <2>3. CASE d # c /\ e # c
    BY <2>3 DEF EvidenceInv, Exclusive
  <2> QED
    BY <2>1, <2>2, <2>3
<1>7. ASSUME NEW d \in Clients, d # c PROVE ClientAt(d)'
  <2>1. ClientAt(d) /\ call'[d] = call[d]
    BY <1>7 DEF EvidenceInv
  <2>2. ScanAt(d)' /\ NothingAt(d)'
    BY <1>5, <2>1 DEF ClientAt, ScanAt, NothingAt
  <2>3. CompareAt(d)'
    BY <1>1, <1>5, <2>1 DEF ClientAt, CompareAt, Reflects
  <2>4. AssessAt(d)'
    BY <1>1, <1>5, <2>1 DEF ClientAt, AssessAt, AssessKeys, Explained, ScanOf, ReportOf, Resolves
  <2> QED
    BY <2>2, <2>3, <2>4 DEF ClientAt
<1> QED
  BY <1>2, <1>3, <1>4, <1>6, <1>7 DEF EvidenceInv

\* The same, for a request that ends.
LEMMA OnlyAnswered ==
    ASSUME EvidenceInv, NEW c \in Clients, Op(c) # "nothing", NEW key, NEW answer,
           Answer(c, key, answer), UNCHANGED <<world, Tables>>
    PROVE  EvidenceInv'
<1>1. /\ call'[c].pc = "done" /\ call' = [d \in Clients |-> call'[d]]
      /\ \A d \in Clients \ {c} : call'[d] = call[d]
  BY AnswerEnds DEF EvidenceInv
<1>2. ClientAt(c)'
  BY <1>1 DEF ClientAt, ScanAt, CompareAt, AssessAt, NothingAt, Busy, Op
<1> QED
  BY <1>1, <1>2, NothingStored

-----------------------------------------------------------------------------
(* Requests                                                                *)

\* A scan is computed and inserted; it has no key.
LEMMA CreateScanInv ==
    ASSUME EvidenceInv, NEW c \in Clients, CreateScan(c)
    PROVE  EvidenceInv'
<1>1. Op(c) = "scan" /\ UNCHANGED <<world, Tables>>
  BY DEF CreateScan, Idle
<1>2. PICK b \in Versions, v \in Versions :
         CASE {b, v} \ DOMAIN world.contents # {} ->
                 Answer(c, <<b, v>>, Error("ComponentVersionNotFound"))
           [] /\ {b, v} \subseteq DOMAIN world.contents
              /\ ~Analyzable(world.kind, world.contents[b], world.contents[v]) ->
                 Answer(c, <<b, v>>, Error("CannotAnalyze"))
           [] OTHER ->
                 Continue(c, "flushed", <<b, v>>,
                     NewScan(b, v, Analyze(world.kind, world.contents[b], world.contents[v])))
  BY DEF CreateScan
<1>3. CASE \E answer : Answer(c, <<b, v>>, answer)
  BY <1>1, <1>3, OnlyAnswered
<1>4. CASE /\ {b, v} \subseteq DOMAIN world.contents
           /\ Analyzable(world.kind, world.contents[b], world.contents[v])
           /\ Continue(c, "flushed", <<b, v>>,
                  NewScan(b, v, Analyze(world.kind, world.contents[b], world.contents[v])))
  <2> DEFINE row == NewScan(b, v, Analyze(world.kind, world.contents[b], world.contents[v]))
  <2>1. row \in ScanRows
    <3>1. PICK i \in DOMAIN Worlds : world = Worlds[i]
      BY DEF EvidenceInv, TypeOK
    <3> DEFINE t == <<i, b, v>>
    <3>2. t \in Analyzed
      BY <1>4, <3>1 DEF Analyzed
    <3> QED
      BY <3>1, <3>2 DEF ScanRows
  <2> HIDE DEF row
  <2>2. Continue(c, "flushed", <<b, v>>, row)
    BY <1>4 DEF row
  <2>3. /\ call'[c].pc = "flushed" /\ call'[c].row = row
        /\ call' = [d \in Clients |-> call'[d]]
        /\ \A d \in Clients \ {c} : call'[d] = call[d]
    BY <2>2, ContinueGoesOn DEF EvidenceInv
  <2>4. ClientAt(c)'
    BY <1>1, <2>1, <2>3 DEF ClientAt, ScanAt, CompareAt, AssessAt, NothingAt, Op
  <2> QED
    BY <1>1, <2>3, <2>4, NothingStored
<1> QED
  <2>1. CASE {b, v} \ DOMAIN world.contents # {}
    BY <1>2, <1>3, <2>1
  <2>2. CASE /\ {b, v} \subseteq DOMAIN world.contents
             /\ ~Analyzable(world.kind, world.contents[b], world.contents[v])
    BY <1>2, <1>3, <2>2
  <2>3. CASE /\ {b, v} \subseteq DOMAIN world.contents
             /\ Analyzable(world.kind, world.contents[b], world.contents[v])
    BY <1>2, <1>4, <2>3
  <2> QED
    BY <2>1, <2>2, <2>3

\* The look for a report of the key.
LEMMA LookupReportInv ==
    ASSUME EvidenceInv, NEW c \in Clients, LookupReport(c)
    PROVE  EvidenceInv'
<1>1. Op(c) = "compare" /\ UNCHANGED <<world, Tables>>
  BY DEF LookupReport, Idle
<1>2. PICK key \in Replays \X Replays :
         IF ReportsFor(key) = {}
         THEN Continue(c, "missed", key, None)
         ELSE \E i \in ReportsFor(key) : Answer(c, key, Row(i))
  BY DEF LookupReport
<1>3. CASE \E answer : Answer(c, key, answer)
  BY <1>1, <1>3, OnlyAnswered
<1>4. CASE Continue(c, "missed", key, None)
  <2>1. /\ call'[c].pc = "missed" /\ call'[c].key = key
        /\ call' = [d \in Clients |-> call'[d]]
        /\ \A d \in Clients \ {c} : call'[d] = call[d]
    BY <1>4, ContinueGoesOn DEF EvidenceInv
  <2>2. ClientAt(c)'
    BY <1>1, <2>1 DEF ClientAt, ScanAt, CompareAt, AssessAt, NothingAt, Op
  <2> QED
    BY <1>1, <2>1, <2>2, NothingStored
<1> QED
  BY <1>2, <1>3, <1>4

\* The comparison is made of replays that have ended, and so stays true.
LEMMA AnalyzeReplaysInv ==
    ASSUME EvidenceInv, NEW c \in Clients, AnalyzeReplays(c)
    PROVE  EvidenceInv'
<1> DEFINE key == call[c].key
           row == NewReport(key, DifferentialAnalysis(replays[key[1]].steps,
                                                      replays[key[2]].steps))
<1>1. Op(c) = "compare" /\ call[c].pc = "missed" /\ UNCHANGED <<world, Tables>>
  BY DEF AnalyzeReplays, At
<1>2. key \in Replays \X Replays
  BY <1>1 DEF EvidenceInv, ClientAt, CompareAt, Busy
<1>3. CASE Ready(key[1]) /\ Ready(key[2]) /\ Continue(c, "computed", key, row)
  <2>1. Reflects(row, key)
    BY <1>2, <1>3 DEF Reflects, Ready
  <2> HIDE DEF row
  <2>2. /\ call'[c].pc = "computed" /\ call'[c].key = key /\ call'[c].row = row
        /\ call' = [d \in Clients |-> call'[d]]
        /\ \A d \in Clients \ {c} : call'[d] = call[d]
    BY <1>3, ContinueGoesOn DEF EvidenceInv
  <2>3. replays' = replays /\ world' = world
    BY <1>1 DEF Tables
  <2>4. CompareAt(c)'
    BY <1>1, <1>2, <2>1, <2>2, <2>3 DEF CompareAt, Op, Reflects
  <2>5. ClientAt(c)'
    BY <1>1, <2>2, <2>4 DEF ClientAt, ScanAt, AssessAt, NothingAt, Op
  <2> QED
    BY <1>1, <2>2, <2>5, NothingStored
<1>4. CASE Answer(c, key, Error("ReplayNotReadyForDifferential"))
  BY <1>1, <1>4, OnlyAnswered
<1> QED
  BY <1>3, <1>4 DEF AnalyzeReplays

\* The insert waits for whoever holds the key, and fails if it is taken.
LEMMA FlushReportInv ==
    ASSUME EvidenceInv, NEW c \in Clients, FlushReport(c)
    PROVE  EvidenceInv'
<1> DEFINE key == call[c].key
<1>1. /\ Op(c) = "compare" /\ call[c].pc = "computed" /\ UNCHANGED <<world, Tables>>
      /\ ~HeldByAnother(c)
  BY DEF FlushReport, At
<1>2. CASE ReportsFor(key) = {} /\ Continue(c, "flushed", key, call[c].row)
  <2>1. /\ call'[c].pc = "flushed" /\ call'[c].key = key /\ call'[c].row = call[c].row
        /\ call' = [d \in Clients |-> call'[d]]
        /\ \A d \in Clients \ {c} : call'[d] = call[d]
    BY <1>2, ContinueGoesOn DEF EvidenceInv
  <2>2. key \in Replays \X Replays /\ Reflects(call[c].row, key)
    BY <1>1 DEF EvidenceInv, ClientAt, CompareAt, Busy
  <2>3. \A i \in DOMAIN reports : KeyOfReport(reports[i]) # key
    BY <1>2 DEF ReportsFor, KeyOfReport
  <2>4. CompareAt(c)'
    BY <1>1, <2>1, <2>2, <2>3 DEF CompareAt, Reflects, Op, Tables
  <2>5. ClientAt(c)'
    BY <1>1, <2>1, <2>4 DEF ClientAt, ScanAt, AssessAt, NothingAt, Op
  <2>6. ~\E d \in Clients \ {c} : /\ Op(d) = Op(c) /\ call[d].pc = "flushed"
                                  /\ call[d].key = call'[c].key
    BY <1>1, <2>1 DEF HeldByAnother
  <2> QED
    BY <1>1, <2>1, <2>5, <2>6, NothingStored
<1>3. CASE Answer(c, key, Error("IntegrityError"))
  BY <1>1, <1>3, OnlyAnswered
<1> QED
  BY <1>2, <1>3 DEF FlushReport

\* The look for an assessment of the key.
LEMMA LookupAssessmentInv ==
    ASSUME EvidenceInv, NEW c \in Clients, LookupAssessment(c)
    PROVE  EvidenceInv'
<1>1. Op(c) = "assess" /\ UNCHANGED <<world, Tables>>
  BY DEF LookupAssessment, Idle
<1>2. PICK scan \in {0, Elsewhere} \cup DOMAIN scans, report \in {0, Elsewhere} \cup DOMAIN reports :
         LET key == <<scan, report>>
         IN  CASE key = <<0, 0>> -> Answer(c, key, Error("RiskAssessmentInputRequired"))
               [] key # <<0, 0>> /\ AssessmentsFor(key) = {} ->
                     Continue(c, "missed", key, None)
               [] Cardinality(AssessmentsFor(key)) = 1 ->
                     \E i \in AssessmentsFor(key) : Answer(c, key, Row(i))
               [] OTHER -> Answer(c, key, Error("MultipleResultsFound"))
  BY DEF LookupAssessment
<1> DEFINE key == <<scan, report>>
<1>3. key \in AssessKeys
  BY DEF AssessKeys
<1>4. (\E answer : Answer(c, key, answer)) \/ Continue(c, "missed", key, None)
  BY <1>2
<1> HIDE DEF key
<1>5. CASE \E answer : Answer(c, key, answer)
  BY <1>1, <1>5, OnlyAnswered
<1>6. CASE Continue(c, "missed", key, None)
  <2>1. /\ call'[c].pc = "missed" /\ call'[c].key = key
        /\ call' = [d \in Clients |-> call'[d]]
        /\ \A d \in Clients \ {c} : call'[d] = call[d]
    BY <1>6, ContinueGoesOn DEF EvidenceInv
  <2>2. ClientAt(c)'
    BY <1>1, <1>3, <2>1 DEF ClientAt, ScanAt, CompareAt, AssessAt, AssessKeys, NothingAt, Op, Tables
  <2> QED
    BY <1>1, <2>1, <2>2, NothingStored
<1> QED
  BY <1>4, <1>5, <1>6

\* The assessment is computed of the scan and the report that are there.
LEMMA AssessInv ==
    ASSUME EvidenceInv, NEW c \in Clients, Assess(c)
    PROVE  EvidenceInv'
<1> DEFINE key == call[c].key
           scan == ScanOf(key[1])
           report == ReportOf(key[2])
<1>1. Op(c) = "assess" /\ call[c].pc = "missed" /\ UNCHANGED <<world, Tables>>
  BY DEF Assess, At
<1>2. key \in AssessKeys
  BY <1>1 DEF EvidenceInv, ClientAt, AssessAt, Busy
<1>3. ASSUME key[1] # Elsewhere, key[2] # Elsewhere, NEW blast \in BlastRadius(scan),
             Continue(c, "computed", key,
                 NewAssessment(key, blast, Evaluate(BuildContext(scan, report, blast))))
      PROVE  EvidenceInv'
  <2> DEFINE row == NewAssessment(key, blast, Evaluate(BuildContext(scan, report, blast)))
  <2>1. blast \in BlastRadii \cup {None}
    BY <1>3 DEF BlastRadius
  <2>2. /\ key[1] \in {0} \cup DOMAIN scans /\ key[2] \in {0} \cup DOMAIN reports
        /\ key = <<key[1], key[2]>>
    BY <1>2, <1>3 DEF AssessKeys
  <2>3. /\ row.scan = key[1] /\ row.report = key[2] /\ row.blast = blast
        /\ row.result = Evaluate(BuildContext(scan, report, blast))
    BY DEF NewAssessment
  <2>4. Explained(row) /\ KeyOfAssessment(row) = key
    BY <2>1, <2>2, <2>3 DEF Explained, KeyOfAssessment
  <2>5. row \in AssessmentRows
    <3>1. key \in Nat \X Nat
      <4>1. DOMAIN scans \subseteq Nat /\ DOMAIN reports \subseteq Nat
        BY DEF EvidenceInv, TypeOK
      <4>2. key[1] \in Nat /\ key[2] \in Nat
        BY <2>2, <4>1
      <4> QED
        BY <2>2, <4>2
    <3>2. scan \in ScanRows \cup {None} /\ report \in ReportRows \cup {None}
      BY DEF ScanOf, ReportOf, Resolves, EvidenceInv, TypeOK
    <3> HIDE DEF key, scan, report
    <3> QED
      BY <2>1, <3>1, <3>2 DEF AssessmentRows
  <2> HIDE DEF row
  <2>6. Continue(c, "computed", key, row)
    BY <1>3 DEF row
  <2>7. /\ call'[c].pc = "computed" /\ call'[c].key = key /\ call'[c].row = row
        /\ call' = [d \in Clients |-> call'[d]]
        /\ \A d \in Clients \ {c} : call'[d] = call[d]
    BY <2>6, ContinueGoesOn DEF EvidenceInv
  <2>8. world' = world /\ scans' = scans /\ reports' = reports
    BY <1>1 DEF Tables
  <2>9. AssessAt(c)'
    <3>1. \A x : Explained(x) => Explained(x)'
      BY <2>8 DEF Explained, ScanOf, ReportOf, Resolves
    <3>2. call'[c].key \in AssessKeys'
      BY <1>2, <2>7, <2>8 DEF AssessKeys
    <3> QED
      BY <2>4, <2>5, <2>7, <3>1, <3>2 DEF AssessAt, KeyOfAssessment
  <2>10. ClientAt(c)'
    BY <1>1, <2>7, <2>8, <2>9 DEF ClientAt, ScanAt, CompareAt, NothingAt, Op
  <2> QED
    BY <1>1, <2>7, <2>10, NothingStored
<1>4. ASSUME NEW answer, Answer(c, key, answer)
      PROVE  EvidenceInv'
  BY <1>1, <1>4, OnlyAnswered
<1>5. \/ \E answer : Answer(c, key, answer)
      \/ /\ key[1] # Elsewhere /\ key[2] # Elsewhere
         /\ \E blast \in BlastRadius(scan) :
                Continue(c, "computed", key,
                    NewAssessment(key, blast, Evaluate(BuildContext(scan, report, blast))))
  <2>1. CASE key[1] = Elsewhere
    BY <2>1 DEF Assess
  <2>2. CASE key[1] # Elsewhere /\ key[2] = Elsewhere
    BY <2>2 DEF Assess
  <2>3. CASE key[1] # Elsewhere /\ key[2] # Elsewhere
    BY <2>3 DEF Assess, ScanOf, ReportOf
  <2> QED
    BY <2>1, <2>2, <2>3
<1> QED
  BY <1>3, <1>4, <1>5

\* The insert of an assessment waits and fails only where both parts of the key
\* are set.
LEMMA FlushAssessmentInv ==
    ASSUME EvidenceInv, NEW c \in Clients, FlushAssessment(c)
    PROVE  EvidenceInv'
<1> DEFINE key == call[c].key
<1>1. /\ Op(c) = "assess" /\ call[c].pc = "computed" /\ UNCHANGED <<world, Tables>>
      /\ Keyed(key) => ~HeldByAnother(c)
  BY DEF FlushAssessment, At
<1>2. CASE (Keyed(key) => AssessmentsFor(key) = {}) /\ Continue(c, "flushed", key, call[c].row)
  <2>1. /\ call'[c].pc = "flushed" /\ call'[c].key = key /\ call'[c].row = call[c].row
        /\ call' = [d \in Clients |-> call'[d]]
        /\ \A d \in Clients \ {c} : call'[d] = call[d]
    BY <1>2, ContinueGoesOn DEF EvidenceInv
  <2>2. /\ key \in AssessKeys /\ Explained(call[c].row) /\ call[c].row \in AssessmentRows
        /\ KeyOfAssessment(call[c].row) = key
    BY <1>1 DEF EvidenceInv, ClientAt, AssessAt, Busy
  <2>3. Keyed(key) => \A i \in DOMAIN assessments : KeyOfAssessment(assessments[i]) # key
    BY <1>2 DEF AssessmentsFor, KeyOfAssessment
  <2>4. world' = world /\ scans' = scans /\ reports' = reports /\ assessments' = assessments
    BY <1>1 DEF Tables
  <2>5. AssessAt(c)'
    <3>1. \A x : Explained(x) => Explained(x)'
      BY <2>4 DEF Explained, ScanOf, ReportOf, Resolves
    <3>2. call'[c].key \in AssessKeys'
      BY <2>1, <2>2, <2>4 DEF AssessKeys
    <3> QED
      BY <2>1, <2>2, <2>3, <2>4, <3>1, <3>2 DEF AssessAt, KeyOfAssessment
  <2>6. ClientAt(c)'
    BY <1>1, <2>1, <2>5 DEF ClientAt, ScanAt, CompareAt, NothingAt, Op
  <2>7. Keyed(key) => ~\E d \in Clients \ {c} : /\ Op(d) = Op(c) /\ call[d].pc = "flushed"
                                                /\ call[d].key = call'[c].key
    BY <1>1, <2>1 DEF HeldByAnother
  <2> QED
    BY <1>1, <2>1, <2>6, <2>7, NothingStored
<1>3. CASE Answer(c, key, Error("IntegrityError"))
  BY <1>1, <1>3, OnlyAnswered
<1> QED
  BY <1>2, <1>3 DEF FlushAssessment

\* A request that dies takes its row with it.
LEMMA RollbackInv ==
    ASSUME EvidenceInv, NEW c \in Clients, Rollback(c)
    PROVE  EvidenceInv'
<1>1. Op(c) # "nothing"
  BY DEF Rollback, EvidenceInv, ClientAt, NothingAt
<1> QED
  BY <1>1, OnlyAnswered DEF Rollback, Tables

\* A replay that ends was PENDING: no report was made of it.
LEMMA ReplayEndsInv ==
    ASSUME EvidenceInv, NEW r \in Replays, ReplayEnds(r)
    PROVE  EvidenceInv'
<1>1. UNCHANGED <<world, scans, reports, assessments, call>>
  BY DEF ReplayEnds
<1>2. /\ replays' \in [Replays -> ReplayRows]
      /\ \A q \in Replays : replays[q].status = "completed" => replays'[q] = replays[q]
  <2>1. Ended(world.outcomes[r]) \in ReplayRows
    BY DEF EvidenceInv, TypeOK, Ended, ReplayRows, StepLists
  <2> QED
    BY <2>1 DEF EvidenceInv, TypeOK, ReplayEnds
<1>3. \A report, key : Reflects(report, key) => Reflects(report, key)'
  BY <1>2 DEF Reflects
<1>4. TypeOK'
  BY <1>1, <1>2 DEF EvidenceInv, TypeOK
<1>5. StoredInv'
  BY <1>1, <1>3 DEF EvidenceInv, StoredInv, Explained, ScanOf, ReportOf, Resolves
<1>6. KeyedOnce' /\ Exclusive'
  BY <1>1 DEF EvidenceInv, KeyedOnce, Exclusive, Op
<1>7. ASSUME NEW c \in Clients PROVE ClientAt(c)'
  <2>1. ClientAt(c)
    BY DEF EvidenceInv
  <2>2. ScanAt(c)' /\ NothingAt(c)'
    BY <1>1, <2>1 DEF ClientAt, ScanAt, NothingAt, Op
  <2>3. CompareAt(c)'
    BY <1>1, <1>3, <2>1 DEF ClientAt, CompareAt, Op
  <2>4. AssessAt(c)'
    BY <1>1, <2>1 DEF ClientAt, AssessAt, AssessKeys, Explained, ScanOf, ReportOf, Resolves, Op
  <2> QED
    BY <2>2, <2>3, <2>4 DEF ClientAt
<1> QED
  BY <1>4, <1>5, <1>6, <1>7 DEF EvidenceInv

-----------------------------------------------------------------------------
(* The commit                                                              *)

\* A row more keeps the identifiers of those before it.
LEMMA RowAdded ==
    ASSUME NEW S, NEW rows \in Seq(S), NEW row \in S, NEW after, after = Append(rows, row)
    PROVE  /\ after \in Seq(S)
           /\ DOMAIN after = DOMAIN rows \cup {Len(rows) + 1}
           /\ after[Len(rows) + 1] = row
           /\ \A i \in DOMAIN rows : i # Len(rows) + 1 /\ after[i] = rows[i]
           /\ 0 \notin DOMAIN rows /\ 0 \notin DOMAIN after
  OBVIOUS

\* What an assessment was made of stays what it was when rows are added.
LEMMA ExplainedKept ==
    ASSUME TypeOK,
           scans' = scans \/ \E row \in ScanRows : scans' = Append(scans, row),
           reports' = reports \/ \E row \in ReportRows : reports' = Append(reports, row)
    PROVE  /\ \A x : Explained(x) => Explained(x)'
           /\ AssessKeys \subseteq AssessKeys'
<1>1. /\ 0 \notin DOMAIN scans /\ 0 \notin DOMAIN scans'
      /\ DOMAIN scans \subseteq DOMAIN scans'
      /\ \A i \in DOMAIN scans : scans'[i] = scans[i]
  <2>1. CASE scans' = scans
    BY <2>1 DEF TypeOK
  <2>2. ASSUME NEW row \in ScanRows, scans' = Append(scans, row) PROVE <1>1!:
    BY <2>2 DEF TypeOK
  <2> QED
    BY <2>1, <2>2
<1>2. /\ 0 \notin DOMAIN reports /\ 0 \notin DOMAIN reports'
      /\ DOMAIN reports \subseteq DOMAIN reports'
      /\ \A i \in DOMAIN reports : reports'[i] = reports[i]
  <2>1. CASE reports' = reports
    BY <2>1 DEF TypeOK
  <2>2. ASSUME NEW row \in ReportRows, reports' = Append(reports, row) PROVE <1>2!:
    BY <2>2 DEF TypeOK
  <2> QED
    BY <2>1, <2>2
<1>3. \A x : Explained(x) => Explained(x)'
  <2> SUFFICES ASSUME NEW x, Explained(x) PROVE Explained(x)'
    OBVIOUS
  <2>1. ScanOf(x.scan)' = ScanOf(x.scan) /\ ReportOf(x.report)' = ReportOf(x.report)
    BY <1>1, <1>2 DEF Explained, ScanOf, ReportOf, Resolves
  <2> QED
    BY <1>1, <1>2, <2>1 DEF Explained
<1>4. AssessKeys \subseteq AssessKeys'
  BY <1>1, <1>2 DEF AssessKeys
<1> QED
  BY <1>3, <1>4

\* The row a transaction has flushed becomes a row of its table.
LEMMA CommitInv ==
    ASSUME EvidenceInv, NEW c \in Clients, Commit(c)
    PROVE  EvidenceInv'
<1> DEFINE row == call[c].row
           key == call[c].key
<1>1. /\ call[c].pc = "flushed" /\ Op(c) # "nothing" /\ ClientAt(c)
      /\ UNCHANGED <<world, replays>>
  BY DEF Commit, EvidenceInv, ClientAt, NothingAt
<1>2. /\ call'[c].pc = "done" /\ call' = [d \in Clients |-> call'[d]]
      /\ \A d \in Clients \ {c} : call'[d] = call[d]
  BY AnswerEnds DEF Commit, EvidenceInv
<1>3. \A d \in Clients : Op(d)' = Op(d)
  BY <1>1 DEF Op
<1>4. Exclusive'
  BY <1>2, <1>3 DEF EvidenceInv, Exclusive
<1>5. ClientAt(c)'
  BY <1>1, <1>2, <1>3 DEF ClientAt, ScanAt, CompareAt, AssessAt, NothingAt, Busy
<1>6. /\ Op(c) = "scan" => row \in ScanRows
      /\ Op(c) = "compare" => Reflects(row, key)
      /\ Op(c) = "assess" => row \in AssessmentRows
  BY <1>1 DEF ClientAt, ScanAt, CompareAt, AssessAt
<1>7. Op(c) = "compare" => row \in ReportRows /\ KeyOfReport(row) = key
  <2> SUFFICES ASSUME Op(c) = "compare" PROVE row \in ReportRows /\ KeyOfReport(row) = key
    OBVIOUS
  <2>1. /\ key \in Replays \X Replays
        /\ replays[key[1]].steps \in StepLists /\ replays[key[2]].steps \in StepLists
    BY <1>6 DEF Reflects, EvidenceInv, TypeOK, ReplayRows
  <2>2. row \in ReportRows
    BY <1>6, <2>1 DEF Reflects, ReportRows
  <2>3. row.baseline = key[1] /\ row.candidate = key[2]
    BY <1>6 DEF Reflects, NewReport
  <2> QED
    BY <2>1, <2>2, <2>3 DEF KeyOfReport
<1>8. Op(c) \in {"scan", "compare", "assess"}
  BY <1>1, WorldsAssumption DEF EvidenceInv, TypeOK, Op
<1>9. /\ scans' = scans \/ \E x \in ScanRows : scans' = Append(scans, x)
      /\ reports' = reports \/ \E x \in ReportRows : reports' = Append(reports, x)
  BY <1>6, <1>7 DEF Commit
<1>10. (\A x : Explained(x) => Explained(x)') /\ AssessKeys \subseteq AssessKeys'
  BY <1>9, ExplainedKept DEF EvidenceInv
<1>11. \A x, k : Reflects(x, k) => Reflects(x, k)'
  BY <1>1 DEF Reflects
<1>12. TypeOK'
  <2>1. scans' \in Seq(ScanRows) /\ reports' \in Seq(ReportRows)
    BY <1>9, RowAdded DEF EvidenceInv, TypeOK
  <2>2. assessments' \in Seq(AssessmentRows)
    BY <1>6, RowAdded DEF EvidenceInv, TypeOK, Commit
  <2> QED
    BY <1>1, <1>2, <2>1, <2>2 DEF EvidenceInv, TypeOK
<1>13. CASE Op(c) = "scan"
  <2>1. UNCHANGED <<reports, assessments>>
    BY <1>13 DEF Commit
  <2>2. StoredInv' /\ KeyedOnce'
    BY <1>10, <1>11, <2>1 DEF EvidenceInv, StoredInv, KeyedOnce
  <2>3. ASSUME NEW d \in Clients, d # c PROVE ClientAt(d)'
    <3>1. ClientAt(d) /\ call'[d] = call[d]
      BY <1>2, <2>3 DEF EvidenceInv
    <3>2. ScanAt(d)' /\ NothingAt(d)' /\ CompareAt(d)'
      BY <1>3, <1>11, <2>1, <3>1 DEF ClientAt, ScanAt, NothingAt, CompareAt
    <3>3. AssessAt(d)'
      BY <1>3, <1>10, <2>1, <3>1 DEF ClientAt, AssessAt
    <3> QED
      BY <3>2, <3>3 DEF ClientAt
  <2> QED
    BY <1>4, <1>5, <1>12, <2>2, <2>3 DEF EvidenceInv
<1>14. CASE Op(c) = "compare"
  <2>1. UNCHANGED assessments /\ reports' = Append(reports, row)
    BY <1>14 DEF Commit
  <2> DEFINE new == Len(reports) + 1
  <2>2. /\ DOMAIN reports' = DOMAIN reports \cup {new} /\ reports'[new] = row
        /\ \A i \in DOMAIN reports : i # new /\ reports'[i] = reports[i]
    BY <1>7, <1>14, <2>1, RowAdded DEF EvidenceInv, TypeOK
  <2>3. KeyOfReport(row) = key /\ Reflects(row, key)
        /\ \A i \in DOMAIN reports : KeyOfReport(reports[i]) # key
    BY <1>1, <1>6, <1>7, <1>14 DEF ClientAt, CompareAt
  <2> HIDE DEF row, key, new
  <2>4. StoredInv'
    BY <1>10, <1>11, <2>1, <2>2, <2>3 DEF EvidenceInv, StoredInv
  <2>5. KeyedOnce'
    <3>1. \A i, j \in DOMAIN reports : KeyOfReport(reports[i]) = KeyOfReport(reports[j]) => i = j
      BY DEF EvidenceInv, KeyedOnce, KeyOfReport
    <3>2. \A i, j \in DOMAIN reports' :
              KeyOfReport(reports'[i]) = KeyOfReport(reports'[j]) => i = j
      BY <2>2, <2>3, <3>1
    <3> QED
      BY <2>1, <3>2 DEF EvidenceInv, KeyedOnce, KeyOfReport
  <2>6. ASSUME NEW d \in Clients, d # c PROVE ClientAt(d)'
    <3>1. ClientAt(d) /\ call'[d] = call[d]
      BY <1>2, <2>6 DEF EvidenceInv
    <3>2. ScanAt(d)' /\ NothingAt(d)'
      BY <1>3, <3>1 DEF ClientAt, ScanAt, NothingAt
    <3>3. Op(d) = "compare" /\ call[d].pc = "flushed" => call[d].key # key
      BY <1>1, <1>14, <2>6 DEF EvidenceInv, Exclusive, key
    <3>4. CompareAt(d)'
      BY <1>3, <1>11, <2>2, <2>3, <3>1, <3>3 DEF ClientAt, CompareAt
    <3>5. AssessAt(d)'
      BY <1>3, <1>10, <2>1, <3>1 DEF ClientAt, AssessAt
    <3> QED
      BY <3>2, <3>4, <3>5 DEF ClientAt
  <2> QED
    BY <1>4, <1>5, <1>12, <2>4, <2>5, <2>6 DEF EvidenceInv
<1>15. CASE Op(c) = "assess"
  <2>1. UNCHANGED reports /\ assessments' = Append(assessments, row)
    BY <1>15 DEF Commit
  <2> DEFINE new == Len(assessments) + 1
  <2>2. /\ DOMAIN assessments' = DOMAIN assessments \cup {new} /\ assessments'[new] = row
        /\ \A i \in DOMAIN assessments : i # new /\ assessments'[i] = assessments[i]
    BY <1>6, <1>15, <2>1, RowAdded DEF EvidenceInv, TypeOK
  <2>3. /\ KeyOfAssessment(row) = key /\ Explained(row)
        /\ Keyed(key) => \A i \in DOMAIN assessments : KeyOfAssessment(assessments[i]) # key
    BY <1>1, <1>15 DEF ClientAt, AssessAt
  <2> HIDE DEF row, key, new
  <2>4. StoredInv'
    BY <1>10, <1>11, <2>1, <2>2, <2>3 DEF EvidenceInv, StoredInv
  <2>5. KeyedOnce'
    <3>1. \A i, j \in DOMAIN assessments :
              (/\ Keyed(KeyOfAssessment(assessments[i]))
               /\ KeyOfAssessment(assessments[i]) = KeyOfAssessment(assessments[j])) => i = j
      BY DEF EvidenceInv, KeyedOnce, KeyOfAssessment
    <3>2. \A i, j \in DOMAIN assessments' :
              (/\ Keyed(KeyOfAssessment(assessments'[i]))
               /\ KeyOfAssessment(assessments'[i]) = KeyOfAssessment(assessments'[j])) => i = j
      BY <2>2, <2>3, <3>1
    <3> QED
      BY <2>1, <3>2 DEF EvidenceInv, KeyedOnce, KeyOfAssessment
  <2>6. ASSUME NEW d \in Clients, d # c PROVE ClientAt(d)'
    <3>1. ClientAt(d) /\ call'[d] = call[d]
      BY <1>2, <2>6 DEF EvidenceInv
    <3>2. ScanAt(d)' /\ NothingAt(d)' /\ CompareAt(d)'
      BY <1>3, <1>11, <2>1, <3>1 DEF ClientAt, ScanAt, NothingAt, CompareAt
    <3>3. Op(d) = "assess" /\ call[d].pc = "flushed" /\ Keyed(call[d].key) => call[d].key # key
      BY <1>1, <1>15, <2>6 DEF EvidenceInv, Exclusive, key
    <3>4. AssessAt(d)'
      BY <1>3, <1>10, <2>2, <2>3, <3>1, <3>3 DEF ClientAt, AssessAt
    <3> QED
      BY <3>2, <3>4 DEF ClientAt
  <2> QED
    BY <1>4, <1>5, <1>12, <2>4, <2>5, <2>6 DEF EvidenceInv
<1> QED
  BY <1>8, <1>13, <1>14, <1>15

-----------------------------------------------------------------------------
\* At first nothing is stored and nobody has asked for anything.
LEMMA InitInv == Init => EvidenceInv
<1> SUFFICES ASSUME Init PROVE EvidenceInv
  OBVIOUS
<1>1. PICK i \in DOMAIN Worlds : world = Worlds[i]
  BY DEF Init
<1>2. replays \in [Replays -> ReplayRows]
  <2>1. \A r \in Replays : Ended(world.outcomes[r]) \in ReplayRows
    BY <1>1 DEF Ended, ReplayRows, StepLists
  <2>2. [status |-> "pending", steps |-> <<>>] \in ReplayRows
    BY DEF ReplayRows, StepLists
  <2> QED
    BY <2>1, <2>2 DEF Init
<1>3. /\ scans = <<>> /\ reports = <<>> /\ assessments = <<>>
      /\ call = [c \in Clients |-> NoCall] /\ NoCall.pc = "idle"
  BY DEF Init, NoCall
<1>4. TypeOK
  BY <1>1, <1>2, <1>3 DEF TypeOK
<1>5. StoredInv /\ KeyedOnce
  BY <1>3 DEF StoredInv, KeyedOnce
<1>6. \A c \in Clients : call[c].pc = "idle"
  BY <1>3
<1>7. Exclusive /\ \A c \in Clients : ClientAt(c)
  BY <1>6 DEF Exclusive, ClientAt, ScanAt, CompareAt, AssessAt, NothingAt, Busy
<1> QED
  BY <1>4, <1>5, <1>7 DEF EvidenceInv

\* No step of a request, no death of one and no end of a replay breaks the
\* invariant.
LEMMA StepInv == EvidenceInv /\ [Next]_vars => EvidenceInv'
<1> SUFFICES ASSUME EvidenceInv, [Next]_vars PROVE EvidenceInv'
  OBVIOUS
<1>1. CASE UNCHANGED vars
  <2>1. UNCHANGED <<world, replays, scans, reports, assessments, call>>
    BY <1>1 DEF vars
  <2>2. TypeOK' /\ KeyedOnce' /\ Exclusive'
    BY <2>1 DEF EvidenceInv, TypeOK, KeyedOnce, Exclusive, Op
  <2>3. StoredInv'
    BY <2>1 DEF EvidenceInv, StoredInv, Reflects, Explained, ScanOf, ReportOf, Resolves
  <2>4. ASSUME NEW c \in Clients PROVE ClientAt(c)'
    <3>1. ClientAt(c)
      BY DEF EvidenceInv
    <3>2. ScanAt(c)' /\ NothingAt(c)' /\ CompareAt(c)'
      BY <2>1, <3>1 DEF ClientAt, ScanAt, NothingAt, CompareAt, Reflects, Op
    <3>3. AssessAt(c)'
      BY <2>1, <3>1 DEF ClientAt, AssessAt, AssessKeys, Explained, ScanOf, ReportOf, Resolves, Op
    <3> QED
      BY <3>2, <3>3 DEF ClientAt
  <2> QED
    BY <2>2, <2>3, <2>4 DEF EvidenceInv
<1>2. ASSUME NEW c \in Clients, Step(c) \/ Rollback(c) PROVE EvidenceInv'
  BY <1>2, CreateScanInv, LookupReportInv, AnalyzeReplaysInv, FlushReportInv,
     LookupAssessmentInv, AssessInv, FlushAssessmentInv, CommitInv, RollbackInv DEF Step
<1>3. ASSUME NEW r \in Replays, ReplayEnds(r) PROVE EvidenceInv'
  BY <1>3, ReplayEndsInv
<1> QED
  BY <1>1, <1>2, <1>3 DEF Next

\* Everything above holds in every reachable state.
THEOREM EvidenceInvariant == Spec => []EvidenceInv
  BY InitInv, StepInv, PTL DEF Spec

\* There is one report of two replays, and one assessment of a scan together
\* with a report, however the requests for them overlap.
THEOREM StoredOnce == Spec => []KeyedOnce
<1>1. EvidenceInv => KeyedOnce
  BY DEF EvidenceInv
<1> QED
  BY <1>1, EvidenceInvariant, PTL

\* A report is what a comparison of its replays would say now: none was made of
\* a replay that had not ended well (DifferentialService._get_ready_replay).
THEOREM ReportsStayTrue == Spec => []ReportReflectsReplays
<1>1. EvidenceInv => ReportReflectsReplays
  <2> SUFFICES ASSUME EvidenceInv, NEW i \in DOMAIN reports
               PROVE  LET b == replays[reports[i].baseline]
                          c == replays[reports[i].candidate]
                      IN  /\ b.status = "completed" /\ c.status = "completed"
                          /\ reports[i].differences = DifferentialAnalysis(b.steps, c.steps).differences
    BY DEF ReportReflectsReplays
  <2>1. Reflects(reports[i], <<reports[i].baseline, reports[i].candidate>>)
    BY DEF EvidenceInv, StoredInv, KeyOfReport
  <2> QED
    BY <2>1 DEF Reflects, NewReport
<1> QED
  BY <1>1, EvidenceInvariant, PTL

-----------------------------------------------------------------------------
(* The risk engine                                                         *)

\* The numbers of a context are numbers.
Counted(ctx) ==
    /\ ctx.breaking_count \in Nat /\ ctx.critical_count \in Nat
    /\ ctx.new_failures \in Nat /\ ctx.schema_changes \in Nat
    /\ ctx.has_removed_required_step \in BOOLEAN
    /\ ctx.tool_invocation_changed \in BOOLEAN
    /\ ctx.error_introduced \in BOOLEAN
    /\ ctx.blast_radius_total_affected \in Nat \cup {None}

\* All that x tells against a change, y tells too.
NoWorse(x, y) ==
    /\ x.compatibility_status = "breaking" => y.compatibility_status = "breaking"
    /\ x.breaking_count <= y.breaking_count
    /\ x.critical_count <= y.critical_count
    /\ x.new_failures <= y.new_failures
    /\ x.schema_changes <= y.schema_changes
    /\ x.has_removed_required_step => y.has_removed_required_step
    /\ x.tool_invocation_changed => y.tool_invocation_changed
    /\ x.error_introduced => y.error_introduced
    /\ x.max_latency_percent_delta \in {None, y.max_latency_percent_delta}
    /\ x.blast_radius_total_affected # None =>
          /\ y.blast_radius_total_affected # None
          /\ x.blast_radius_total_affected <= y.blast_radius_total_affected

\* No rule takes points off, and what a rule adds grows with the evidence.
LEMMA ScoreGrows ==
    ASSUME NEW x, NEW y, Counted(x), Counted(y), NoWorse(x, y), NEW rule \in ScoreRules
    PROVE  /\ Score(rule, x) \in Nat /\ Score(rule, y) \in Nat
           /\ Score(rule, x) <= Score(rule, y)
<1>1. CASE rule = "COMPAT_BREAKING_CHANGE"
  BY <1>1 DEF Counted, NoWorse, Score, Fires, Weight
<1>2. CASE rule = "NEW_REPLAY_FAILURE"
  BY <1>2 DEF Counted, NoWorse, Score, Fires, Weight, AtMost
<1>3. CASE rule = "REMOVED_REQUIRED_STEP"
  BY <1>3 DEF Counted, NoWorse, Score, Fires, Weight
<1>4. CASE rule = "HIGH_BLAST_RADIUS"
  BY <1>4, NumbersAssumption DEF Counted, NoWorse, Score, Fires, Weight
<1>5. CASE rule = "OUTPUT_SCHEMA_BREAK"
  BY <1>5 DEF Counted, NoWorse, Score, Fires, Weight
<1>6. CASE rule = "TOOL_INVOCATION_CHANGED"
  BY <1>6 DEF Counted, NoWorse, Score, Fires, Weight
<1>7. CASE rule = "ERROR_INTRODUCED"
  BY <1>7 DEF Counted, NoWorse, Score, Fires, Weight
<1>8. CASE rule = "SIGNIFICANT_LATENCY_INCREASE"
  BY <1>8 DEF Counted, NoWorse, Score, Fires, Weight
<1> QED
  BY <1>1, <1>2, <1>3, <1>4, <1>5, <1>6, <1>7, <1>8 DEF ScoreRules

\* So does the score, under the caps of the categories and of the total.
LEMMA TotalScoreGrows ==
    ASSUME NEW x, NEW y, Counted(x), Counted(y), NoWorse(x, y)
    PROVE  /\ TotalScore(x) \in 0..100 /\ TotalScore(y) \in 0..100
           /\ TotalScore(x) <= TotalScore(y)
<1>1. \A rule \in ScoreRules : /\ Score(rule, x) \in Nat /\ Score(rule, y) \in Nat
                               /\ Score(rule, x) <= Score(rule, y)
  BY ScoreGrows
<1> DEFINE S(rule) == /\ Score(rule, x) \in Nat /\ Score(rule, y) \in Nat
                      /\ Score(rule, x) <= Score(rule, y)
<1>2. /\ S("COMPAT_BREAKING_CHANGE") /\ S("NEW_REPLAY_FAILURE")
      /\ S("REMOVED_REQUIRED_STEP") /\ S("HIGH_BLAST_RADIUS") /\ S("OUTPUT_SCHEMA_BREAK")
      /\ S("TOOL_INVOCATION_CHANGED") /\ S("ERROR_INTRODUCED")
      /\ S("SIGNIFICANT_LATENCY_INCREASE")
  BY <1>1 DEF ScoreRules
<1>3. \A m, n, cap \in Nat : m <= n => /\ AtMost(m, cap) \in 0..cap /\ AtMost(n, cap) \in 0..cap
                                       /\ AtMost(m, cap) <= AtMost(n, cap)
  BY DEF AtMost
<1> DEFINE Differential(ctx) ==
               Score("REMOVED_REQUIRED_STEP", ctx) + Score("OUTPUT_SCHEMA_BREAK", ctx)
               + Score("TOOL_INVOCATION_CHANGED", ctx) + Score("ERROR_INTRODUCED", ctx)
           Sum(ctx) == AtMost(Score("COMPAT_BREAKING_CHANGE", ctx), 40)
                       + AtMost(Score("NEW_REPLAY_FAILURE", ctx), 45)
                       + AtMost(Differential(ctx), 50)
                       + AtMost(Score("HIGH_BLAST_RADIUS", ctx), 20)
                       + AtMost(Score("SIGNIFICANT_LATENCY_INCREASE", ctx), 15)
<1>4. Differential(x) \in Nat /\ Differential(y) \in Nat /\ Differential(x) <= Differential(y)
  BY <1>2
<1>5. Sum(x) \in Nat /\ Sum(y) \in Nat /\ Sum(x) <= Sum(y)
  <2> DEFINE Capped(m, n, cap) == /\ AtMost(m, cap) \in Nat /\ AtMost(n, cap) \in Nat
                                  /\ AtMost(m, cap) <= AtMost(n, cap)
  <2>1. \A m, n, cap \in Nat : m <= n => Capped(m, n, cap)
    BY <1>3
  <2> HIDE DEF Differential, Capped
  <2>2. /\ Capped(Score("COMPAT_BREAKING_CHANGE", x), Score("COMPAT_BREAKING_CHANGE", y), 40)
        /\ Capped(Score("NEW_REPLAY_FAILURE", x), Score("NEW_REPLAY_FAILURE", y), 45)
        /\ Capped(Differential(x), Differential(y), 50)
        /\ Capped(Score("HIGH_BLAST_RADIUS", x), Score("HIGH_BLAST_RADIUS", y), 20)
        /\ Capped(Score("SIGNIFICANT_LATENCY_INCREASE", x),
                  Score("SIGNIFICANT_LATENCY_INCREASE", y), 15)
    BY <1>2, <1>4, <2>1
  <2> QED
    BY <2>2 DEF Capped
<1>6. TotalScore(x) = AtMost(Sum(x), 100) /\ TotalScore(y) = AtMost(Sum(y), 100)
  BY DEF TotalScore
<1> QED
  <2> HIDE DEF Sum
  <2> QED
    BY ZenonT(30), <1>3, <1>5, <1>6

\* A hard block blocks whatever the score, and more points never decide for less.
LEMMA EvaluateGrows ==
    ASSUME NEW x, NEW y, Counted(x), Counted(y), NoWorse(x, y)
    PROVE  /\ Evaluate(x).score \in 0..100
           /\ Evaluate(x).score <= Evaluate(y).score
           /\ Severity[Evaluate(x).decision] <= Severity[Evaluate(y).decision]
<1> DEFINE Hard(ctx) == \E rule \in HardBlockRules : Fires(rule, ctx)
<1>1. Hard(x) \in BOOLEAN /\ Hard(y) \in BOOLEAN
  OBVIOUS
<1>2. Hard(x) => Hard(y)
  <2>1. \A ctx : Hard(ctx) <=> ctx.critical_count > 0 \/ ctx.new_failures > 0
    BY DEF HardBlockRules, Fires
  <2> HIDE DEF Hard
  <2> QED
    BY <2>1 DEF Counted, NoWorse
<1>3. \A ctx : /\ Evaluate(ctx).score = TotalScore(ctx)
               /\ Evaluate(ctx).decision = Decide(TotalScore(ctx), Hard(ctx))
  BY DEF Evaluate
<1> HIDE DEF Hard
<1>4. /\ TotalScore(x) \in 0..100 /\ TotalScore(y) \in 0..100 /\ TotalScore(x) <= TotalScore(y)
  BY TotalScoreGrows
<1>5. Severity[Decide(TotalScore(x), Hard(x))] <= Severity[Decide(TotalScore(y), Hard(y))]
  <2>1. TotalScore(x) \in Nat /\ TotalScore(y) \in Nat
    BY <1>4
  <2>2. CASE Hard(y)
    BY <1>1, <1>4, <2>1, <2>2 DEF Severity, Decide
  <2>3. CASE ~Hard(y)
    BY <1>1, <1>2, <1>4, <2>1, <2>3 DEF Severity, Decide
  <2> QED
    BY <2>2, <2>3
<1> QED
  BY <1>3, <1>4, <1>5

-----------------------------------------------------------------------------
(* The alignment: each pass adds pairs of steps that no pass before it took *)

\* A set of pairs takes steps of both sides, and no step twice.
OneToOne(A) == \A p, q \in A : p.b = q.b \/ p.c = q.c => p = q

Matching(b, c, A) ==
    /\ \A p \in A : /\ p = Pair(p.method, p.b, p.c) /\ p.method # "unmatched"
                    /\ p.b \in DOMAIN b /\ p.c \in DOMAIN c
    /\ OneToOne(A)

LEMMA PassesAdd ==
    ASSUME NEW b, NEW c, NEW A, NEW N, Matching(b, c, A), Matching(b, c, N),
           \A p \in N : p.b \in RemainingB(b, A) /\ p.c \in RemainingC(c, A),
           0 \notin DOMAIN b, 0 \notin DOMAIN c
    PROVE  Matching(b, c, A \cup N)
<1>1. \A p \in A : p.b \in Baselines(A) /\ p.c \in Candidates(A)
  BY DEF Matching, Baselines, Candidates
<1>2. \A p \in A, q \in N : p.b # q.b /\ p.c # q.c
  BY <1>1 DEF RemainingB, RemainingC
<1>3. OneToOne(A \cup N)
  BY <1>2 DEF Matching, OneToOne
<1> QED
  BY <1>3 DEF Matching

\* Passes 1 and 2 take the first step with a value of the key on either side.
LEMMA FieldPass ==
    ASSUME NEW b, NEW c, IsStepList(b), IsStepList(c), NEW A, NEW field,
           NEW method, method # "unmatched"
    PROVE  LET N == PairByField(method, field, b, c, A)
           IN  /\ Matching(b, c, N)
               /\ \A p \in N : p.b \in RemainingB(b, A) /\ p.c \in RemainingC(c, A)
<1> DEFINE N == PairByField(method, field, b, c, A)
           First(p) == /\ b[p.b][field] = c[p.c][field]
                       /\ FirstWith(b, RemainingB(b, A), field, p.b)
                       /\ FirstWith(c, RemainingC(c, A), field, p.c)
<1>1. \A p \in N : /\ p = Pair(p.method, p.b, p.c) /\ p.method = method
                   /\ p.b \in RemainingB(b, A) /\ p.c \in RemainingC(c, A)
                   /\ First(p)
  BY DEF PairByField, Pair
<1> HIDE DEF N
<1>2. RemainingB(b, A) \subseteq DOMAIN b /\ RemainingC(c, A) \subseteq DOMAIN c
  BY DEF RemainingB, RemainingC
<1>3. DOMAIN b \subseteq Nat /\ DOMAIN c \subseteq Nat
  BY DEF IsStepList
<1>4. ASSUME NEW p \in N, NEW q \in N, p.b = q.b \/ p.c = q.c PROVE p = q
  <2>1. b[p.b][field] = b[q.b][field] /\ c[p.c][field] = c[q.c][field]
    BY <1>1, <1>4
  <2>2. p.b <= q.b /\ q.b <= p.b /\ p.c <= q.c /\ q.c <= p.c
    BY <1>1, <2>1 DEF FirstWith
  <2>3. p.b = q.b /\ p.c = q.c
    BY <1>1, <1>2, <1>3, <2>2
  <2> QED
    BY <1>1, <2>3
<1>5. Matching(b, c, N)
  BY <1>1, <1>2, <1>4 DEF Matching, OneToOne
<1> QED
  BY <1>1, <1>5 DEF N

\* The steps of the component of step i that come before it.
Before(steps, remaining, i) ==
    {k \in remaining : /\ steps[k].component = steps[i].component
                       /\ \/ steps[k].seq < steps[i].seq
                          \/ steps[k].seq = steps[i].seq /\ k < i}

Group(steps, remaining, i) == {k \in remaining : steps[k].component = steps[i].component}

\* The ranks of the steps of a component are 0, 1, 2, ... without a gap: a step
\* comes before another, or after it, and never before itself.
LEMMA RanksOfAComponent ==
    ASSUME NEW steps, IsStepList(steps), NEW R, R \subseteq DOMAIN steps, NEW i \in R
    PROVE  /\ Rank(steps, R, i) \in Nat
           /\ \A j \in Group(steps, R, i) : Rank(steps, R, j) = Rank(steps, R, i) => i = j
           /\ \A n \in 0 .. Rank(steps, R, i) :
                 \E k \in Group(steps, R, i) : Rank(steps, R, k) = n
<1>1. /\ DOMAIN steps = 1 .. Len(steps) /\ Len(steps) \in Nat
      /\ \A k \in DOMAIN steps : steps[k].seq \in Int
  BY DEF IsStepList
<1>2. IsFiniteSet(R)
  <2>1. 1 \in Int /\ Len(steps) \in Int /\ R \in SUBSET (1 .. Len(steps))
    BY <1>1
  <2>2. IsFiniteSet(1 .. Len(steps))
    BY <2>1, FS_Interval
  <2> QED
    BY <2>1, <2>2, FS_Subset
<1>3. \A k : /\ Rank(steps, R, k) = Cardinality(Before(steps, R, k))
             /\ Before(steps, R, k) \in SUBSET R
  BY DEF Rank, Before
<1> DEFINE G == Group(steps, R, i)
<1>4. i \in G /\ G \in SUBSET R
  BY DEF Group
<1>5. IsFiniteSet(G) /\ Cardinality(G) \in Nat
  BY <1>2, <1>4, FS_Subset, FS_CardinalityType
<1>6. ASSUME NEW j \in G, NEW k \in G, j # k,
             steps[j].seq < steps[k].seq \/ (steps[j].seq = steps[k].seq /\ j < k)
      PROVE  Rank(steps, R, j) # Rank(steps, R, k)
  <2>1. j \in Before(steps, R, k) /\ j \notin Before(steps, R, j)
    BY <1>1, <1>6 DEF Before, Group
  <2>2. Before(steps, R, j) \in SUBSET Before(steps, R, k)
    BY <1>1, <1>6 DEF Before, Group
  <2>3. IsFiniteSet(Before(steps, R, k))
    BY <1>2, <1>3, FS_Subset
  <2> QED
    BY <1>3, <2>1, <2>2, <2>3, FS_Subset
<1>7. ASSUME NEW j \in G, NEW k \in G, Rank(steps, R, j) = Rank(steps, R, k) PROVE j = k
  BY <1>1, <1>4, <1>6, <1>7
<1>8. ASSUME NEW j \in G PROVE Rank(steps, R, j) \in 0 .. (Cardinality(G) - 1)
  <2>1. Before(steps, R, j) \in SUBSET G /\ j \notin Before(steps, R, j)
    BY <1>1, <1>4 DEF Before, Group
  <2>2. /\ Cardinality(Before(steps, R, j)) <= Cardinality(G)
        /\ Cardinality(Before(steps, R, j)) # Cardinality(G)
        /\ Cardinality(Before(steps, R, j)) \in Nat
    BY <1>5, <2>1, FS_Subset, FS_CardinalityType
  <2> QED
    BY <1>3, <1>5, <2>2
<1>9. ASSUME NEW n \in 0 .. (Cardinality(G) - 1) PROVE \E k \in G : Rank(steps, R, k) = n
  <2> DEFINE T == 0 .. (Cardinality(G) - 1)
             f == [k \in G |-> Rank(steps, R, k)]
  <2>1. f \in [G -> T]
    BY <1>8
  <2>2. f \in Injection(G, T)
    BY <1>7, <2>1 DEF Injection, IsInjective
  <2>3. IsFiniteSet(T) /\ Cardinality(T) = Cardinality(G)
    <3>1. Cardinality(G) > 0
      BY <1>4, <1>5, FS_EmptySet
    <3> QED
      BY <1>5, <3>1, FS_Interval
  <2>4. f \in Surjection(G, T)
    BY <2>2, <2>3, FS_Injection
  <2> QED
    BY <2>4 DEF Surjection
<1>10. Rank(steps, R, i) \in Nat /\ 0 .. Rank(steps, R, i) \subseteq 0 .. (Cardinality(G) - 1)
  BY <1>4, <1>5, <1>8
<1> QED
  BY <1>4, <1>7, <1>9, <1>10

\* Pass 3 takes the steps of a component rank by rank.
LEMMA ComponentPass ==
    ASSUME NEW b, NEW c, IsStepList(b), IsStepList(c), NEW A
    PROVE  LET N == PairByComponent(b, c, A)
           IN  /\ Matching(b, c, N)
               /\ \A p \in N : p.b \in RemainingB(b, A) /\ p.c \in RemainingC(c, A)
<1> DEFINE N == PairByComponent(b, c, A)
           RB == RemainingB(b, A)
           RC == RemainingC(c, A)
<1>1. \A p \in N : /\ p = Pair("component_identity", p.b, p.c)
                   /\ p.method = "component_identity"
                   /\ p.b \in RB /\ p.c \in RC
                   /\ b[p.b].component = c[p.c].component
                   /\ Rank(b, RB, p.b) = Rank(c, RC, p.c)
  BY DEF PairByComponent, Pair
<1>2. RB \subseteq DOMAIN b /\ RC \subseteq DOMAIN c
  BY DEF RemainingB, RemainingC
<1> HIDE DEF N, RB, RC
<1>3. ASSUME NEW p \in N, NEW q \in N, p.b = q.b \/ p.c = q.c PROVE p = q
  <2>1. /\ b[p.b].component = b[q.b].component /\ c[p.c].component = c[q.c].component
        /\ Rank(b, RB, p.b) = Rank(b, RB, q.b) /\ Rank(c, RC, p.c) = Rank(c, RC, q.c)
    BY <1>1, <1>3
  <2>2. q.b \in Group(b, RB, p.b) /\ q.c \in Group(c, RC, p.c)
    BY <1>1, <2>1 DEF Group
  <2>3. p.b = q.b
    BY <1>1, <1>2, <2>1, <2>2, RanksOfAComponent
  <2>4. p.c = q.c
    BY <1>1, <1>2, <2>1, <2>2, RanksOfAComponent
  <2> QED
    BY <1>1, <2>3, <2>4
<1>4. Matching(b, c, N)
  BY <1>1, <1>2, <1>3 DEF Matching, OneToOne
<1> QED
  BY <1>1, <1>4 DEF N, RB, RC

\* The passes of AlignSteps
ByEvent(b, c) == PairByField("source_event_id", "event", b, c, {})

BySeq(b, c) == ByEvent(b, c) \cup PairByField("sequence_number", "seq", b, c, ByEvent(b, c))

Matched(b, c) == BySeq(b, c) \cup PairByComponent(b, c, BySeq(b, c))

LEMMA AlignmentIsOneToOne ==
    ASSUME NEW b, NEW c, IsStepList(b), IsStepList(c)
    PROVE  /\ Matching(b, c, Matched(b, c))
           /\ AlignSteps(b, c) = Matched(b, c) \cup Unmatched(b, c, Matched(b, c))
<1>1. 0 \notin DOMAIN b /\ 0 \notin DOMAIN c
  BY DEF IsStepList
<1>2. Matching(b, c, ByEvent(b, c))
  BY FieldPass DEF ByEvent
<1>3. Matching(b, c, BySeq(b, c))
  <2> DEFINE N == PairByField("sequence_number", "seq", b, c, ByEvent(b, c))
  <2>1. /\ Matching(b, c, N)
        /\ \A p \in N : p.b \in RemainingB(b, ByEvent(b, c)) /\ p.c \in RemainingC(c, ByEvent(b, c))
    BY FieldPass
  <2> HIDE DEF N
  <2>2. Matching(b, c, ByEvent(b, c) \cup N)
    BY <1>1, <1>2, <2>1, PassesAdd
  <2> QED
    BY <2>2 DEF N, BySeq
<1>4. Matching(b, c, Matched(b, c))
  <2> DEFINE N == PairByComponent(b, c, BySeq(b, c))
  <2>1. /\ Matching(b, c, N)
        /\ \A p \in N : p.b \in RemainingB(b, BySeq(b, c)) /\ p.c \in RemainingC(c, BySeq(b, c))
    BY ComponentPass
  <2> HIDE DEF N
  <2>2. Matching(b, c, BySeq(b, c) \cup N)
    BY <1>1, <1>3, <2>1, PassesAdd
  <2> QED
    BY <2>2 DEF N, Matched
<1>5. AlignSteps(b, c) = Matched(b, c) \cup Unmatched(b, c, Matched(b, c))
  BY DEF AlignSteps, Matched, BySeq, ByEvent
<1> QED
  BY <1>4, <1>5

\* Every step is in exactly one pair of A.
Aligned(b, c, A) ==
    /\ \A p \in A : /\ p.b \in {0} \cup DOMAIN b /\ p.c \in {0} \cup DOMAIN c
                    /\ p = Pair(p.method, p.b, p.c)
                    /\ p.method # "unmatched" => p.b # 0 /\ p.c # 0
                    /\ p.method = "unmatched" => (p.b = 0 <=> p.c # 0)
    /\ \A k \in DOMAIN b : \E p \in A : p.b = k
    /\ \A k \in DOMAIN c : \E p \in A : p.c = k
    /\ \A p, q \in A : (p.b # 0 /\ p.b = q.b) \/ (p.c # 0 /\ p.c = q.c) => p = q

\* Pass 4 takes each step that is left.
LEMMA AlignmentIsTotal ==
    ASSUME NEW b, NEW c, IsStepList(b), IsStepList(c)
    PROVE  Aligned(b, c, AlignSteps(b, c))
<1> DEFINE M == Matched(b, c)
           U == Unmatched(b, c, M)
<1>1. Matching(b, c, M) /\ AlignSteps(b, c) = M \cup U
  BY AlignmentIsOneToOne
<1> HIDE DEF M
<1>2. 0 \notin DOMAIN b /\ 0 \notin DOMAIN c
  BY DEF IsStepList
<1>3. \A p \in U : /\ p = Pair(p.method, p.b, p.c) /\ p.method = "unmatched"
                   /\ \/ p.b \in RemainingB(b, M) /\ p.c = 0
                      \/ p.b = 0 /\ p.c \in RemainingC(c, M)
  BY DEF Unmatched, Pair
<1>4. /\ \A k \in RemainingB(b, M) : \E p \in U : p.b = k
      /\ \A k \in RemainingC(c, M) : \E p \in U : p.c = k
  <2>1. /\ \A k \in RemainingB(b, M) : Pair("unmatched", k, 0) \in U
        /\ \A k \in RemainingC(c, M) : Pair("unmatched", 0, k) \in U
    BY DEF Unmatched
  <2>2. \A k : Pair("unmatched", k, 0).b = k /\ Pair("unmatched", 0, k).c = k
    BY DEF Pair
  <2> HIDE DEF U
  <2> QED
    BY <2>1, <2>2
<1>5. /\ RemainingB(b, M) \subseteq DOMAIN b /\ RemainingC(c, M) \subseteq DOMAIN c
      /\ \A k \in DOMAIN b \ RemainingB(b, M) : \E p \in M : p.b = k
      /\ \A k \in DOMAIN c \ RemainingC(c, M) : \E p \in M : p.c = k
      /\ \A p \in M : p.b \notin RemainingB(b, M) /\ p.c \notin RemainingC(c, M)
  <2>1. \A p \in M : p.b \in Baselines(M) /\ p.c \in Candidates(M)
    BY <1>1, <1>2 DEF Matching, Baselines, Candidates
  <2> QED
    BY <2>1 DEF RemainingB, RemainingC, Baselines, Candidates
<1> HIDE DEF U
<1>6. \A p \in M : p.b \in DOMAIN b /\ p.c \in DOMAIN c /\ p.method # "unmatched"
                   /\ p = Pair(p.method, p.b, p.c)
  BY <1>1 DEF Matching
<1>7. \A p, q \in M : p.b = q.b \/ p.c = q.c => p = q
  BY <1>1 DEF Matching, OneToOne
<1>8. \A p, q \in U : (p.b # 0 /\ p.b = q.b) \/ (p.c # 0 /\ p.c = q.c) => p = q
  <2> SUFFICES ASSUME NEW p \in U, NEW q \in U,
                      (p.b # 0 /\ p.b = q.b) \/ (p.c # 0 /\ p.c = q.c)
               PROVE  p = q
    OBVIOUS
  <2>1. p.b = q.b /\ p.c = q.c /\ p.method = q.method
    BY <1>2, <1>3, <1>5
  <2> QED
    BY <1>3, <2>1
<1>9. \A p \in M, q \in U : ~(p.b = q.b) /\ ~(p.c = q.c)
  BY <1>2, <1>3, <1>5, <1>6
<1>10. \A p, q \in M \cup U : (p.b # 0 /\ p.b = q.b) \/ (p.c # 0 /\ p.c = q.c) => p = q
  BY <1>7, <1>8, <1>9
<1>11. \A p \in M \cup U : /\ p.b \in {0} \cup DOMAIN b /\ p.c \in {0} \cup DOMAIN c
                           /\ p = Pair(p.method, p.b, p.c)
                           /\ p.method # "unmatched" => p.b # 0 /\ p.c # 0
                           /\ p.method = "unmatched" => (p.b = 0 <=> p.c # 0)
  BY <1>2, <1>3, <1>5, <1>6
<1>12. /\ \A k \in DOMAIN b : \E p \in M \cup U : p.b = k
       /\ \A k \in DOMAIN c : \E p \in M \cup U : p.c = k
  BY <1>4, <1>5
<1>13. Aligned(b, c, M \cup U)
  BY <1>10, <1>11, <1>12 DEF Aligned
<1> QED
  BY <1>1, <1>13

\* Two steps of the same event are paired by pass 1.
LEMMA SameEventPaired ==
    ASSUME NEW b, NEW c, IsStepList(b), IsStepList(c),
           NEW j \in DOMAIN b, NEW k \in DOMAIN c, b[j].event = c[k].event
    PROVE  Pair("source_event_id", j, k) \in AlignSteps(b, c)
<1>1. RemainingB(b, {}) = DOMAIN b /\ RemainingC(c, {}) = DOMAIN c
  BY DEF RemainingB, RemainingC, Baselines, Candidates
<1>2. FirstWith(b, DOMAIN b, "event", j) /\ FirstWith(c, DOMAIN c, "event", k)
  BY DEF FirstWith, IsStepList
<1>3. b[j]["event"] = c[k]["event"]
  OBVIOUS
<1>4. Pair("source_event_id", j, k) \in PairByField("source_event_id", "event", b, c, {})
  <2> DEFINE xy == <<j, k>>
             S == {ij \in RemainingB(b, {}) \X RemainingC(c, {}) :
                     /\ b[ij[1]]["event"] = c[ij[2]]["event"]
                     /\ FirstWith(b, RemainingB(b, {}), "event", ij[1])
                     /\ FirstWith(c, RemainingC(c, {}), "event", ij[2])}
  <2>1. xy[1] = j /\ xy[2] = k /\ xy \in RemainingB(b, {}) \X RemainingC(c, {})
    BY <1>1
  <2> HIDE DEF xy
  <2>2. xy \in S
    BY <1>1, <1>2, <1>3, <2>1
  <2>3. PairByField("source_event_id", "event", b, c, {}) =
          {Pair("source_event_id", ij[1], ij[2]) : ij \in S}
    BY DEF PairByField
  <2> HIDE DEF S
  <2> QED
    BY <2>1, <2>2, <2>3
<1> QED
  BY <1>4, AlignmentIsOneToOne DEF Matched, BySeq, ByEvent

\* A step left over by pass 3 has a component that the other side has no step
\* left of: the shorter side has used up its ranks.
LEMMA NoComponentLeft ==
    ASSUME NEW b, NEW c, IsStepList(b), IsStepList(c),
           NEW i \in RemainingB(b, Matched(b, c)), NEW j \in RemainingC(c, Matched(b, c))
    PROVE  b[i].component = None \/ b[i].component # c[j].component
<1> DEFINE A == BySeq(b, c)
           RB == RemainingB(b, A)
           RC == RemainingC(c, A)
           N == PairByComponent(b, c, A)
<1> SUFFICES ASSUME b[i].component # None, b[i].component = c[j].component PROVE FALSE
  OBVIOUS
<1>1. 0 \notin DOMAIN b /\ 0 \notin DOMAIN c
  BY DEF IsStepList
<1>2. Baselines(A) \subseteq Baselines(Matched(b, c)) /\ Candidates(A) \subseteq Candidates(Matched(b, c))
  BY DEF Matched, Baselines, Candidates
<1>3. i \in RB /\ j \in RC /\ RB \subseteq DOMAIN b /\ RC \subseteq DOMAIN c
  BY <1>2 DEF RemainingB, RemainingC
<1>4. \A k \in RB, l \in RC :
          b[k].component # None /\ b[k].component = c[l].component /\ Rank(b, RB, k) = Rank(c, RC, l)
          => Pair("component_identity", k, l) \in N
  <2> SUFFICES ASSUME NEW k \in RB, NEW l \in RC,
                      b[k].component # None, b[k].component = c[l].component,
                      Rank(b, RB, k) = Rank(c, RC, l)
               PROVE  Pair("component_identity", k, l) \in N
    OBVIOUS
  <2> DEFINE xy == <<k, l>>
  <2>1. xy[1] = k /\ xy[2] = l /\ xy \in RB \X RC
    OBVIOUS
  <2> HIDE DEF xy, RB, RC
  <2>2. xy \in {ij \in RB \X RC : /\ b[ij[1]].component # None
                                  /\ b[ij[1]].component = c[ij[2]].component
                                  /\ Rank(b, RB, ij[1]) = Rank(c, RC, ij[2])}
    BY <2>1
  <2> QED
    BY <2>1, <2>2 DEF PairByComponent, RB, RC
<1>5. \A k \in RB, l \in RC : Pair("component_identity", k, l) \in N => k # i /\ l # j
  <2>1. \A k, l : /\ Pair("component_identity", k, l).b = k
                  /\ Pair("component_identity", k, l).c = l
    BY DEF Pair
  <2>2. \A p \in N : p.b # i /\ p.c # j
    BY <1>1, <1>3 DEF Matched, RemainingB, RemainingC, Baselines, Candidates
  <2> HIDE DEF N, RB, RC
  <2> QED
    BY <2>1, <2>2
<1>6. Rank(b, RB, i) \in Nat /\ Rank(c, RC, j) \in Nat
  BY <1>3, RanksOfAComponent
<1>7. CASE Rank(b, RB, i) <= Rank(c, RC, j)
  <2>1. PICK l \in Group(c, RC, j) : Rank(c, RC, l) = Rank(b, RB, i)
    <3>1. Rank(b, RB, i) \in 0 .. Rank(c, RC, j)
      BY <1>6, <1>7
    <3> QED
      BY <1>3, <3>1, RanksOfAComponent
  <2>2. l \in RC /\ c[l].component = c[j].component
    BY DEF Group
  <2> HIDE DEF N, RB, RC
  <2> QED
    BY <1>3, <1>4, <1>5, <2>1, <2>2
<1>8. CASE Rank(c, RC, j) <= Rank(b, RB, i)
  <2>1. PICK k \in Group(b, RB, i) : Rank(b, RB, k) = Rank(c, RC, j)
    <3>1. Rank(c, RC, j) \in 0 .. Rank(b, RB, i)
      BY <1>6, <1>8
    <3> QED
      BY <1>3, <3>1, RanksOfAComponent
  <2>2. k \in RB /\ b[k].component = b[i].component
    BY DEF Group
  <2> HIDE DEF N, RB, RC
  <2> QED
    BY <1>3, <1>4, <1>5, <2>1, <2>2
<1> QED
  BY <1>6, <1>7, <1>8

-----------------------------------------------------------------------------
(* The report of two replays                                               *)

\* The steps of b and c are those of the differences D, each in one of them.
Accounted(b, c, D) ==
    /\ \A d \in D : /\ d.b \in {0} \cup DOMAIN b /\ d.c \in {0} \cup DOMAIN c
                    /\ d.method # "unmatched" => d.b # 0 /\ d.c # 0
                    /\ d.method = "unmatched" => (d.b = 0 <=> d.c # 0)
    /\ \A k \in DOMAIN b : \E d \in D : d.b = k
    /\ \A k \in DOMAIN c : \E d \in D : d.c = k
    /\ \A d, e \in D : (d.b # 0 /\ d.b = e.b) \/ (d.c # 0 /\ d.c = e.c) => d = e

LEMMA DifferencesOfPairs ==
    ASSUME NEW b, NEW c
    PROVE  \A p : /\ StepDifference(b, c, p).method = p.method
                  /\ StepDifference(b, c, p).b = p.b
                  /\ StepDifference(b, c, p).c = p.c
  BY DEF StepDifference

LEMMA DifferencesAccountForSteps ==
    ASSUME NEW b, NEW c, IsStepList(b), IsStepList(c)
    PROVE  Accounted(b, c, DifferentialAnalysis(b, c).differences)
<1> DEFINE A == AlignSteps(b, c)
           D == DifferentialAnalysis(b, c).differences
<1>1. Aligned(b, c, A)
  BY AlignmentIsTotal
<1>2. D = {StepDifference(b, c, p) : p \in A}
  BY DEF DifferentialAnalysis
<1> HIDE DEF A, D
<1>3. /\ \A d \in D : \E p \in A : /\ d = StepDifference(b, c, p)
                                   /\ d.method = p.method /\ d.b = p.b /\ d.c = p.c
      /\ \A p \in A : \E d \in D : d = StepDifference(b, c, p) /\ d.b = p.b /\ d.c = p.c
  BY <1>2, DifferencesOfPairs
<1>4. /\ \A k \in DOMAIN b : \E d \in D : d.b = k
      /\ \A k \in DOMAIN c : \E d \in D : d.c = k
  BY <1>1, <1>3 DEF Aligned
<1>5. \A d, e \in D : (d.b # 0 /\ d.b = e.b) \/ (d.c # 0 /\ d.c = e.c) => d = e
  BY <1>1, <1>3 DEF Aligned
<1>6. \A d \in D : /\ d.b \in {0} \cup DOMAIN b /\ d.c \in {0} \cup DOMAIN c
                   /\ d.method # "unmatched" => d.b # 0 /\ d.c # 0
                   /\ d.method = "unmatched" => (d.b = 0 <=> d.c # 0)
  BY <1>1, <1>3 DEF Aligned
<1>7. Accounted(b, c, D)
  BY <1>4, <1>5, <1>6 DEF Accounted
<1> QED
  BY <1>7 DEF D

\* One side of the differences: as many as the side has steps, one for each.
Side(D, side) == {d \in D : d[side] # 0}

OneEach(D, side, n) ==
    /\ \A d \in D : d[side] \in {0} \cup 1 .. n
    /\ \A k \in 1 .. n : \E d \in D : d[side] = k
    /\ \A d, e \in D : d[side] # 0 /\ d[side] = e[side] => d = e

LEMMA SideCounted ==
    ASSUME NEW n \in Nat, NEW side, NEW D, OneEach(D, side, n)
    PROVE  /\ IsFiniteSet(Side(D, side)) /\ Cardinality(Side(D, side)) = n
           /\ \A k \in 1 .. n : \E d \in D : {e \in D : e[side] = k} = {d}
<1> DEFINE S == Side(D, side)
           f == [d \in S |-> d[side]]
<1>1. f \in [S -> 1 .. n]
  BY DEF Side, OneEach
<1>2. f \in Injection(S, 1 .. n)
  BY <1>1 DEF Injection, IsInjective, Side, OneEach
<1>3. f \in Surjection(S, 1 .. n)
  BY <1>1 DEF Surjection, Side, OneEach
<1>4. IsFiniteSet(1 .. n) /\ Cardinality(1 .. n) = n
  BY FS_Interval
<1>5. IsFiniteSet(S) /\ Cardinality(S) = n
  <2> HIDE DEF S, f
  <2> QED
    BY <1>2, <1>3, <1>4, FS_Injection
<1>6. ASSUME NEW k \in 1 .. n PROVE \E d \in D : {e \in D : e[side] = k} = {d}
  <2>1. PICK d \in D : d[side] = k
    BY DEF OneEach
  <2>2. {e \in D : e[side] = k} = {d}
    BY <2>1 DEF OneEach
  <2> QED
    BY <2>2
<1> QED
  BY <1>5, <1>6

\* The counts of a summary, and what its sets are.
LEMMA ReportCounts ==
    ASSUME NEW b, NEW c, IsStepList(b), IsStepList(c)
    PROVE  LET D == DifferentialAnalysis(b, c).differences
               s == DifferentialAnalysis(b, c).summary
           IN  /\ IsFiniteSet(D)
               /\ \A k \in DOMAIN b : Cardinality({d \in D : d.b = k}) = 1
               /\ \A k \in DOMAIN c : Cardinality({d \in D : d.c = k}) = 1
               /\ s.matched + s.removed = s.total_baseline
               /\ s.matched + s.added = s.total_candidate
               /\ s.new_failures \in Nat /\ s.schema_changes \in Nat
<1> DEFINE D == DifferentialAnalysis(b, c).differences
           s == DifferentialAnalysis(b, c).summary
           M == {d \in D : d.method # "unmatched"}
           Added == {d \in D \ M : d.b = 0}
           Removed == {d \in D \ M : d.b # 0}
<1>1. Accounted(b, c, D)
  BY DifferencesAccountForSteps
<1>2. /\ s.total_baseline = Len(b) /\ s.total_candidate = Len(c)
      /\ s.matched = Cardinality(M)
      /\ s.added = Cardinality(Added) /\ s.removed = Cardinality(Removed)
      /\ s.new_failures = Cardinality({d \in M : "ERROR_INTRODUCED" \in d.types})
      /\ s.schema_changes = Cardinality({d \in M : "SCHEMA_CHANGED" \in d.types})
  BY DEF DifferentialAnalysis, Summarize, Count
<1> HIDE DEF D, s
<1>3. /\ DOMAIN b = 1 .. Len(b) /\ Len(b) \in Nat
      /\ DOMAIN c = 1 .. Len(c) /\ Len(c) \in Nat
  BY DEF IsStepList
<1>4. OneEach(D, "b", Len(b)) /\ OneEach(D, "c", Len(c))
  BY <1>1, <1>3 DEF Accounted, OneEach
<1>5. /\ IsFiniteSet(Side(D, "b")) /\ Cardinality(Side(D, "b")) = Len(b)
      /\ IsFiniteSet(Side(D, "c")) /\ Cardinality(Side(D, "c")) = Len(c)
  BY <1>3, <1>4, SideCounted
<1>6. /\ Side(D, "b") = M \cup Removed /\ M \cap Removed = {}
      /\ Side(D, "c") = M \cup Added /\ M \cap Added = {}
      /\ D = Side(D, "b") \cup Added
  BY <1>1 DEF Accounted, Side
<1> HIDE DEF M, Added, Removed
<1>7. IsFiniteSet(M) /\ IsFiniteSet(Removed) /\ IsFiniteSet(Added)
  BY <1>5, <1>6, FS_Subset
<1>8. /\ Cardinality(M) \in Nat /\ Cardinality(Removed) \in Nat /\ Cardinality(Added) \in Nat
      /\ Cardinality({}) = 0
  BY <1>7, FS_CardinalityType, FS_EmptySet
<1>9. Cardinality(M) + Cardinality(Removed) = Len(b)
  <2>1. Cardinality(M \cup Removed) =
            Cardinality(M) + Cardinality(Removed) - Cardinality(M \cap Removed)
    BY <1>7, FS_Union
  <2>2. Cardinality(Side(D, "b")) = Cardinality(M) + Cardinality(Removed) - Cardinality({})
    BY <1>6, <2>1, Zenon
  <2> QED
    BY <1>5, <1>8, <2>2
<1>10. Cardinality(M) + Cardinality(Added) = Len(c)
  <2>1. Cardinality(M \cup Added) =
            Cardinality(M) + Cardinality(Added) - Cardinality(M \cap Added)
    BY <1>7, FS_Union
  <2>2. Cardinality(Side(D, "c")) = Cardinality(M) + Cardinality(Added) - Cardinality({})
    BY <1>6, <2>1, Zenon
  <2> QED
    BY <1>5, <1>8, <2>2
<1>11. IsFiniteSet(D)
  BY ZenonT(30), <1>5, <1>6, <1>7, FS_Union
<1>12. s.new_failures \in Nat /\ s.schema_changes \in Nat
  <2>1. \A T \in SUBSET M : Cardinality(T) \in Nat
    BY <1>7, FS_Subset, FS_CardinalityType
  <2> QED
    BY <1>2, <2>1
<1>13. \A k \in DOMAIN b : Cardinality({d \in D : d.b = k}) = 1
  <2> SUFFICES ASSUME NEW k \in DOMAIN b PROVE Cardinality({d \in D : d.b = k}) = 1
    OBVIOUS
  <2>1. PICK x \in D : {d \in D : d["b"] = k} = {x}
    BY <1>3, <1>4, SideCounted
  <2> QED
    BY <2>1, FS_Singleton
<1>14. \A k \in DOMAIN c : Cardinality({d \in D : d.c = k}) = 1
  <2> SUFFICES ASSUME NEW k \in DOMAIN c PROVE Cardinality({d \in D : d.c = k}) = 1
    OBVIOUS
  <2>1. PICK x \in D : {d \in D : d["c"] = k} = {x}
    BY <1>3, <1>4, SideCounted
  <2> QED
    BY <2>1, FS_Singleton
<1> QED
  BY <1>2, <1>9, <1>10, <1>11, <1>12, <1>13, <1>14 DEF D, s

LEMMA StepListsAreStepLists == \A s \in StepLists : IsStepList(s)
<1>1. IsStepList(<<>>)
  BY DEF IsStepList
<1> QED
  BY <1>1, WorldsAssumption DEF StepLists

\* What the invariant says of a stored report.
LEMMA StoredReport ==
    ASSUME EvidenceInv, NEW i \in DOMAIN reports
    PROVE  LET b == replays[reports[i].baseline].steps
               c == replays[reports[i].candidate].steps
           IN  /\ IsStepList(b) /\ IsStepList(c)
               /\ reports[i].differences = DifferentialAnalysis(b, c).differences
               /\ reports[i].summary = DifferentialAnalysis(b, c).summary
<1>1. Reflects(reports[i], <<reports[i].baseline, reports[i].candidate>>)
  BY DEF EvidenceInv, StoredInv, KeyOfReport
<1>2. reports[i].baseline \in Replays /\ reports[i].candidate \in Replays
  BY <1>1 DEF Reflects
<1>3. \A r \in Replays : IsStepList(replays[r].steps)
  BY StepListsAreStepLists DEF EvidenceInv, TypeOK, ReplayRows
<1> QED
  BY <1>1, <1>2, <1>3 DEF Reflects, NewReport

\* The alignment of two replays is one-to-one and total, pairs the steps of one
\* recorded event, and leaves no component with steps on both sides: whatever
\* the four passes of differential/alignment.py take from each other.
THEOREM AlignmentIsSound == Spec => []AlignmentSound
<1>1. EvidenceInv => StepsAccountedFor
  <2> SUFFICES ASSUME EvidenceInv, NEW i \in DOMAIN reports
               PROVE  LET r == reports[i]
                      IN  /\ \A k \in StepsOf(r.baseline) :
                                Cardinality({d \in r.differences : d.b = k}) = 1
                          /\ \A k \in StepsOf(r.candidate) :
                                Cardinality({d \in r.differences : d.c = k}) = 1
                          /\ r.summary.matched + r.summary.removed = r.summary.total_baseline
                          /\ r.summary.matched + r.summary.added = r.summary.total_candidate
    BY DEF StepsAccountedFor
  <2> DEFINE b == replays[reports[i].baseline].steps
             c == replays[reports[i].candidate].steps
  <2>1. /\ IsStepList(b) /\ IsStepList(c)
        /\ reports[i].differences = DifferentialAnalysis(b, c).differences
        /\ reports[i].summary = DifferentialAnalysis(b, c).summary
    BY StoredReport
  <2>2. StepsOf(reports[i].baseline) = DOMAIN b /\ StepsOf(reports[i].candidate) = DOMAIN c
    BY DEF StepsOf
  <2> HIDE DEF b, c
  <2>3. LET D == reports[i].differences
            s == reports[i].summary
        IN  /\ \A k \in DOMAIN b : Cardinality({d \in D : d.b = k}) = 1
            /\ \A k \in DOMAIN c : Cardinality({d \in D : d.c = k}) = 1
            /\ s.matched + s.removed = s.total_baseline
            /\ s.matched + s.added = s.total_candidate
    BY <2>1, ReportCounts
  <2> QED
    BY <2>2, <2>3
<1>2. EvidenceInv => SameEventCompared
  <2> SUFFICES ASSUME EvidenceInv, NEW i \in DOMAIN reports,
                      NEW j \in StepsOf(reports[i].baseline),
                      NEW k \in StepsOf(reports[i].candidate),
                      replays[reports[i].baseline].steps[j].event
                        = replays[reports[i].candidate].steps[k].event
               PROVE  \E d \in reports[i].differences : d.b = j /\ d.c = k
    BY DEF SameEventCompared
  <2> DEFINE b == replays[reports[i].baseline].steps
             c == replays[reports[i].candidate].steps
             p == Pair("source_event_id", j, k)
  <2>1. /\ IsStepList(b) /\ IsStepList(c)
        /\ reports[i].differences = DifferentialAnalysis(b, c).differences
    BY StoredReport
  <2>2. j \in DOMAIN b /\ k \in DOMAIN c /\ b[j].event = c[k].event
    BY DEF StepsOf
  <2>3. p.b = j /\ p.c = k
    BY DEF Pair
  <2> HIDE DEF b, c
  <2>4. p \in AlignSteps(b, c)
    BY <2>1, <2>2, SameEventPaired
  <2> HIDE DEF p
  <2>5. StepDifference(b, c, p) \in reports[i].differences
    BY <2>1, <2>4 DEF DifferentialAnalysis
  <2> QED
    BY <2>3, <2>5, DifferencesOfPairs
<1>3. EvidenceInv => NothingLeftUnpaired
  <2> SUFFICES ASSUME EvidenceInv, NEW i \in DOMAIN reports,
                      NEW d \in reports[i].differences, NEW e \in reports[i].differences,
                      d.c = 0, e.b = 0
               PROVE  \/ replays[reports[i].baseline].steps[d.b].component = None
                      \/ replays[reports[i].baseline].steps[d.b].component
                           # replays[reports[i].candidate].steps[e.c].component
    BY DEF NothingLeftUnpaired
  <2> DEFINE b == replays[reports[i].baseline].steps
             c == replays[reports[i].candidate].steps
  <2>1. /\ IsStepList(b) /\ IsStepList(c)
        /\ reports[i].differences = DifferentialAnalysis(b, c).differences
    BY StoredReport
  <2> HIDE DEF b, c
  <2>2. \A x \in reports[i].differences : \E q \in AlignSteps(b, c) : x.b = q.b /\ x.c = q.c
    <3>1. reports[i].differences = {StepDifference(b, c, q) : q \in AlignSteps(b, c)}
      BY <2>1 DEF DifferentialAnalysis
    <3> QED
      BY <3>1, DifferencesOfPairs
  <2>3. PICK p \in AlignSteps(b, c) : d.b = p.b /\ d.c = p.c
    BY <2>2
  <2>4. PICK q \in AlignSteps(b, c) : e.b = q.b /\ e.c = q.c
    BY <2>2
  <2>5. 0 \notin DOMAIN b /\ 0 \notin DOMAIN c
    BY <2>1 DEF IsStepList
  <2>6. /\ Matching(b, c, Matched(b, c))
        /\ AlignSteps(b, c) = Matched(b, c) \cup Unmatched(b, c, Matched(b, c))
    BY <2>1, AlignmentIsOneToOne
  <2>7. \A x \in Unmatched(b, c, Matched(b, c)) :
            \/ x.b \in RemainingB(b, Matched(b, c)) /\ x.c = 0
            \/ x.b = 0 /\ x.c \in RemainingC(c, Matched(b, c))
    BY DEF Unmatched, Pair
  <2>8. RemainingB(b, Matched(b, c)) \subseteq DOMAIN b /\ RemainingC(c, Matched(b, c)) \subseteq DOMAIN c
    BY DEF RemainingB, RemainingC
  <2>9. d.b \in RemainingB(b, Matched(b, c)) /\ e.c \in RemainingC(c, Matched(b, c))
    BY <2>3, <2>4, <2>5, <2>6, <2>7, <2>8 DEF Matching
  <2>10. b[d.b].component = None \/ b[d.b].component # c[e.c].component
    BY <2>1, <2>9, NoComponentLeft
  <2> QED
    BY <2>10 DEF b, c
<1>4. EvidenceInv => AlignmentSound
  BY <1>1, <1>2, <1>3 DEF AlignmentSound
<1> QED
  BY <1>4, EvidenceInvariant, PTL

-----------------------------------------------------------------------------
(* The evidence of an assessment                                           *)

LEMMA ScanCounted ==
    ASSUME NEW scan \in ScanRows \cup {None}
    PROVE  ScanEvidence(scan).breaking \in Nat /\ ScanEvidence(scan).critical \in Nat
<1>1. CASE scan = None
  BY <1>1 DEF ScanEvidence
<1>2. CASE scan # None
  <2>1. PICK t \in Analyzed :
            scan = NewScan(t[2], t[3], Analyze(Worlds[t[1]].kind, Worlds[t[1]].contents[t[2]],
                                               Worlds[t[1]].contents[t[3]]))
    BY <1>2 DEF ScanRows
  <2>2. IsFiniteSet(scan.changes)
    BY <2>1, AnalyzeAssumption DEF Analyzed, NewScan
  <2>3. \A T \in SUBSET scan.changes : Cardinality(T) \in Nat
    BY <2>2, FS_Subset, FS_CardinalityType
  <2>4. /\ ScanEvidence(scan).breaking =
              Cardinality({x \in scan.changes : x.classification = "breaking"})
        /\ ScanEvidence(scan).critical =
              Cardinality({x \in scan.changes : x.severity = "critical"})
    BY <1>2 DEF ScanEvidence
  <2> QED
    BY <2>3, <2>4
<1> QED
  BY <1>1, <1>2

\* What ReportEvidence says where there is no report.
LEMMA NoReport ==
    /\ ReportEvidence(None).new_failures = 0 /\ ReportEvidence(None).schema_changes = 0
    /\ ~ReportEvidence(None).removed /\ ~ReportEvidence(None).tool
    /\ ~ReportEvidence(None).error /\ ReportEvidence(None).latency = None
<1>1. WorstLatency({}) = None
  <2>1. {d.latency_percent : d \in {}} \ {None} = {}
    OBVIOUS
  <2> QED
    BY <2>1 DEF WorstLatency
<1> QED
  BY <1>1 DEF ReportEvidence

LEMMA ReportFlags ==
    ASSUME NEW report
    PROVE  /\ ReportEvidence(report).removed \in BOOLEAN
           /\ ReportEvidence(report).tool \in BOOLEAN
           /\ ReportEvidence(report).error \in BOOLEAN
  BY DEF ReportEvidence

LEMMA StoredContext ==
    ASSUME EvidenceInv, NEW i \in DOMAIN assessments
    PROVE  LET row == assessments[i]
               ctx == BuildContext(ScanOf(row.scan), ReportOf(row.report), row.blast)
           IN  /\ Counted(ctx) /\ row.result = Evaluate(ctx)
               /\ row.scan \in {0} \cup DOMAIN scans /\ row.report \in {0} \cup DOMAIN reports
<1> DEFINE row == assessments[i]
           scan == ScanOf(row.scan)
           report == ReportOf(row.report)
           ctx == BuildContext(scan, report, row.blast)
<1>1. Explained(row)
  BY DEF EvidenceInv, StoredInv
<1>2. scan \in ScanRows \cup {None}
  BY DEF ScanOf, Resolves, EvidenceInv, TypeOK
<1>3. ReportEvidence(report).new_failures \in Nat /\ ReportEvidence(report).schema_changes \in Nat
  <2>1. CASE report = None
    BY <2>1, NoReport
  <2>2. CASE report # None
    <3>1. row.report \in DOMAIN reports /\ report = reports[row.report]
      BY <2>2 DEF ReportOf, Resolves
    <3> DEFINE b == replays[reports[row.report].baseline].steps
               c == replays[reports[row.report].candidate].steps
    <3>2. /\ IsStepList(b) /\ IsStepList(c)
          /\ report.summary = DifferentialAnalysis(b, c).summary
      BY <3>1, StoredReport
    <3> HIDE DEF b, c, report
    <3>3. report.summary.new_failures \in Nat /\ report.summary.schema_changes \in Nat
      BY <3>2, ReportCounts
    <3>4. /\ ReportEvidence(report).new_failures = report.summary.new_failures
          /\ ReportEvidence(report).schema_changes = report.summary.schema_changes
      BY <2>2 DEF ReportEvidence
    <3> QED
      BY <3>3, <3>4
  <2> QED
    BY <2>1, <2>2
<1>4. ScanEvidence(scan).breaking \in Nat /\ ScanEvidence(scan).critical \in Nat
  BY <1>2, ScanCounted
<1>5. row.blast \in Nat \cup {None}
  BY <1>1, NumbersAssumption DEF Explained
<1> HIDE DEF scan, report, row
<1>6. Counted(ctx)
  BY <1>3, <1>4, <1>5, ReportFlags DEF Counted, BuildContext
<1> QED
  BY <1>1, <1>6 DEF Explained, scan, report, row

\* More evidence never makes an assessment milder, and the score is one of 0 to
\* 100: the caps of risk/engine.py bend the sum, they never turn it.
THEOREM EvidenceOnlyAdds == Spec => []MoreEvidenceNeverMilder
<1>1. ASSUME EvidenceInv, NEW i \in DOMAIN assessments, NEW j \in DOMAIN assessments
      PROVE  LET less == assessments[i]
                 more == assessments[j]
             IN  /\ less.result.score \in 0..100
                 /\ (/\ less.scan \in {0, more.scan}
                     /\ less.report \in {0, more.report}
                     /\ less.blast # None => more.blast # None /\ less.blast <= more.blast)
                    => /\ less.result.score <= more.result.score
                       /\ Severity[less.result.decision] <= Severity[more.result.decision]
  <2> DEFINE less == assessments[i]
             more == assessments[j]
             x == BuildContext(ScanOf(less.scan), ReportOf(less.report), less.blast)
             y == BuildContext(ScanOf(more.scan), ReportOf(more.report), more.blast)
  <2>1. Counted(x) /\ less.result = Evaluate(x) /\ Counted(y) /\ more.result = Evaluate(y)
    BY <1>1, StoredContext
  <2>2. ScanOf(0) = None /\ ReportOf(0) = None
    <3>1. 0 \notin DOMAIN scans /\ 0 \notin DOMAIN reports
      BY <1>1 DEF EvidenceInv, TypeOK
    <3> QED
      BY <3>1 DEF ScanOf, ReportOf, Resolves
  <2> HIDE DEF less, more
  <2>3. NoWorse(x, x)
    BY <2>1, NumbersAssumption DEF Counted, NoWorse
  <2>4. less.result.score \in 0..100
    <3> HIDE DEF x
    <3> QED
      BY <2>1, <2>3, EvaluateGrows
  <2>5. ASSUME less.scan \in {0, more.scan}, less.report \in {0, more.report},
               less.blast # None => more.blast # None /\ less.blast <= more.blast
        PROVE  NoWorse(x, y)
    <3> DEFINE s == ScanEvidence(ScanOf(less.scan))
               t == ScanEvidence(ScanOf(more.scan))
               r == ReportEvidence(ReportOf(less.report))
               q == ReportEvidence(ReportOf(more.report))
    <3>1. /\ x.compatibility_status = s.status /\ y.compatibility_status = t.status
          /\ x.breaking_count = s.breaking /\ y.breaking_count = t.breaking
          /\ x.critical_count = s.critical /\ y.critical_count = t.critical
          /\ x.new_failures = r.new_failures /\ y.new_failures = q.new_failures
          /\ x.schema_changes = r.schema_changes /\ y.schema_changes = q.schema_changes
          /\ x.has_removed_required_step = r.removed /\ y.has_removed_required_step = q.removed
          /\ x.tool_invocation_changed = r.tool /\ y.tool_invocation_changed = q.tool
          /\ x.error_introduced = r.error /\ y.error_introduced = q.error
          /\ x.max_latency_percent_delta = r.latency /\ y.max_latency_percent_delta = q.latency
          /\ x.blast_radius_total_affected = less.blast
          /\ y.blast_radius_total_affected = more.blast
      BY DEF BuildContext
    <3>2. \/ s = t
          \/ s.status = None /\ s.breaking = 0 /\ s.critical = 0
      BY <2>2, <2>5 DEF ScanEvidence
    <3>3. \/ r = q
          \/ /\ r.new_failures = 0 /\ r.schema_changes = 0
             /\ ~r.removed /\ ~r.tool /\ ~r.error /\ r.latency = None
      BY <2>2, <2>5, NoReport
    <3> HIDE DEF x, y, s, t, r, q
    <3>4. /\ x.compatibility_status = "breaking" => y.compatibility_status = "breaking"
          /\ x.breaking_count <= y.breaking_count
          /\ x.critical_count <= y.critical_count
      BY <2>1, <3>1, <3>2, NumbersAssumption DEF Counted
    <3>5. /\ x.new_failures <= y.new_failures
          /\ x.schema_changes <= y.schema_changes
      BY <2>1, <3>1, <3>3 DEF Counted
    <3>6. /\ x.has_removed_required_step => y.has_removed_required_step
          /\ x.tool_invocation_changed => y.tool_invocation_changed
          /\ x.error_introduced => y.error_introduced
          /\ x.max_latency_percent_delta \in {None, y.max_latency_percent_delta}
      BY <3>1, <3>3
    <3>7. x.blast_radius_total_affected # None =>
              /\ y.blast_radius_total_affected # None
              /\ x.blast_radius_total_affected <= y.blast_radius_total_affected
      BY <2>5, <3>1
    <3> QED
      BY <3>4, <3>5, <3>6, <3>7 DEF NoWorse
  <2> HIDE DEF x, y
  <2>6. NoWorse(x, y) => /\ less.result.score <= more.result.score
                         /\ Severity[less.result.decision] <= Severity[more.result.decision]
    BY <2>1, EvaluateGrows
  <2> QED
    BY <2>4, <2>5, <2>6 DEF less, more
<1>2. EvidenceInv => MoreEvidenceNeverMilder
  BY <1>1 DEF MoreEvidenceNeverMilder
<1> QED
  BY <1>2, EvidenceInvariant, PTL

=============================================================================
