-------------------------- MODULE PRPipelineProofs --------------------------
(***************************************************************************)
(* Part 1, AnalysisRun, for any number of runners, commits, runs and       *)
(* faults, and whichever baseline the mapping configures: what is visible  *)
(* on GitHub is backed by committed evidence, a row that claims to be done *)
(* has it, and a check run is only ever written by its own commit.         *)
(*                                                                         *)
(* Part 2, the same runs when no two of one commit overlap: they implement *)
(* AnalysisLife.                                                           *)
(*                                                                         *)
(* Part 3, PRPipeline: requests, topic, workers and runs together.  There  *)
(* it is a theorem that runs do not overlap, without Kafka for any number  *)
(* of requests, and with it for one worker.                                *)
(*                                                                         *)
(* Part 4, the invariants of EventConsumer and of WebhookIngress, carried  *)
(* over to PRPipeline from the proofs of those modules.                    *)
(***************************************************************************)
EXTENDS PRPipeline, TLAPS

\* A committed assessment of commit a, and a check run of commit a.
Evidence(i, a) == i \in DOMAIN assessments /\ assessments[i].sha = a

CheckOf(i, a) == i \in DOMAIN checks /\ checks[i].sha = a

\* The same of the next state, for an i and an a of the current one.
EvidenceNext(i, a) == i \in DOMAIN assessments' /\ assessments'[i].sha = a

CheckNext(i, a) == i \in DOMAIN checks' /\ checks'[i].sha = a

RowSound(a) ==
    /\ rows[a].assessment # None => Evidence(rows[a].assessment, a)
    /\ rows[a].status \in {"completed", "publish_failed"} => rows[a].assessment # None
    /\ rows[a].check # None => CheckOf(rows[a].check, a)

\* A runner's copy of the row may be stale, but what it refers to exists, and
\* evidence it knows of is known to the row as well: no runner takes a
\* reference to evidence out of a row.
CopySound(p) ==
    /\ local[p].assessment # None =>
          Evidence(local[p].assessment, job[p]) /\ rows[job[p]].assessment # None
    /\ local[p].check # None => CheckOf(local[p].check, job[p])
    /\ posted[p] # None => CheckOf(posted[p], job[p])

\* What a runner has in hand at each point of run_analysis.
Prepared(p) ==
    /\ rpc[p] # "idle" => job[p] \in Shas
    /\ rpc[p] \in {"idle", "load"} => local[p] = NoRow /\ posted[p] = None
    /\ rpc[p] \in {"announce", "save_check"} => local[p].status = "in_progress"
    /\ rpc[p] = "complete" => verdict[p] \in Decisions
    /\ rpc[p] \in {"publish", "save_published", "save_unpublished"} =>
          local[p].assessment # None
    /\ rpc[p] \in {"save_check", "save_published"} => posted[p] # None

RunnerSound(p) == CopySound(p) /\ Prepared(p)

RunInv ==
    /\ TypeOK
    /\ registry # <<>>
    /\ \A a \in Shas : RowSound(a)
    /\ \A p \in Runners : RunnerSound(p)
    /\ EvidenceBeforePublish

-----------------------------------------------------------------------------
(* What a flush and a call to GitHub do. *)

\* Flush writes the row of the runner's job and no other, and each column
\* either as the runner has it or not at all.
LEMMA FlushWrites ==
    ASSUME TypeOK, NEW p \in Runners, job[p] \in Shas, NEW new \in Rows, Flush(p, new)
    PROVE  /\ rows' \in [Shas -> Rows]
           /\ local' \in [Runners -> Rows]
           /\ local'[p] = new
           /\ \A q \in Runners \ {p} : local'[q] = local[q]
           /\ \A a \in Shas \ {job[p]} : rows'[a] = rows[a]
           /\ rows'[job[p]].status \in {new.status, rows[job[p]].status}
           /\ rows'[job[p]].assessment =
                 IF new.assessment # local[p].assessment
                 THEN new.assessment ELSE rows[job[p]].assessment
           /\ rows'[job[p]].check =
                 IF new.check # local[p].check
                 THEN new.check ELSE rows[job[p]].check
<1> DEFINE row == [c \in DOMAIN new |->
                      IF new[c] # local[p][c] THEN new[c] ELSE rows[job[p]][c]]
<1>1. DOMAIN new = {"status", "decision", "assessment", "check"}
  BY DEF Rows
<1>2. row \in Rows
  BY <1>1 DEF Rows, TypeOK
<1>3. rows' = [rows EXCEPT ![job[p]] = row] /\ local' = [local EXCEPT ![p] = new]
  BY DEF Flush
<1>4. rows' \in [Shas -> Rows] /\ rows'[job[p]] = row
  BY <1>2, <1>3 DEF TypeOK
<1>5. /\ row.status \in {new.status, rows[job[p]].status}
      /\ row.assessment = IF new.assessment # local[p].assessment
                          THEN new.assessment ELSE rows[job[p]].assessment
      /\ row.check = IF new.check # local[p].check
                     THEN new.check ELSE rows[job[p]].check
  BY <1>1
<1>6. \A a \in Shas \ {job[p]} : rows'[a] = rows[a]
  BY <1>3 DEF TypeOK
<1>7. /\ local' \in [Runners -> Rows]
      /\ local'[p] = new
      /\ \A q \in Runners \ {p} : local'[q] = local[q]
  BY <1>3 DEF TypeOK
<1> QED
  BY <1>4, <1>5, <1>6, <1>7

\* check runs are never removed, keep their head_sha, and differ from before
\* only where they are what the request says.
ChecksAccept(check) ==
    /\ checks' \in Seq(CheckRuns)
    /\ \A i \in DOMAIN checks : i \in DOMAIN checks' /\ checks'[i].sha = checks[i].sha
    /\ \A i \in DOMAIN checks' :
          (i \in DOMAIN checks /\ checks'[i] = checks[i]) \/ checks'[i] = check

\* t is s followed by n copies of x.
CopiesAppended(s, n, x, t) ==
    /\ t \in Seq(CheckRuns)
    /\ Len(t) = Len(s) + n
    /\ \A i \in DOMAIN s : i \in DOMAIN t /\ t[i] = s[i]
    /\ \A i \in DOMAIN t \ DOMAIN s : t[i] = x

\* Copies, appended to the check runs, leaves those there are alone.
LEMMA AppendCopies ==
    ASSUME NEW s \in Seq(CheckRuns), NEW x \in CheckRuns, NEW n \in Nat
    PROVE  CopiesAppended(s, n, x, s \o Copies(n, x))
<1> DEFINE t == s \o Copies(n, x)
<1>1. Copies(n, x) \in Seq(CheckRuns) /\ Len(Copies(n, x)) = n
  BY DEF Copies
<1>2. \A i \in 1 .. n : Copies(n, x)[i] = x
  BY DEF Copies
<1>3. t \in Seq(CheckRuns) /\ Len(t) = Len(s) + n
  BY <1>1
<1>4. \A i \in 1 .. Len(t) : t[i] = IF i <= Len(s) THEN s[i] ELSE Copies(n, x)[i - Len(s)]
  BY <1>1
<1>5. DOMAIN s = 1 .. Len(s) /\ DOMAIN t = 1 .. Len(t) /\ Len(s) \in Nat
  BY <1>3
<1> HIDE DEF t
<1>6. CopiesAppended(s, n, x, t)
  BY <1>2, <1>3, <1>4, <1>5 DEF CopiesAppended
<1> QED
  BY <1>6 DEF t

\* create_check_run answers with the id of a check run it has just made.
LEMMA CreateAccepts ==
    ASSUME TypeOK, RunAssumption, NEW p \in Runners, NEW check \in CheckRuns,
           CreateCheckRun(p, check)
    PROVE  /\ ChecksAccept(check)
           /\ faults' \in Nat
           /\ posted' \in [Runners -> Nat \cup {None}]
           /\ \A q \in Runners \ {p} : posted'[q] = posted[q]
           /\ posted'[p] \in Nat
           /\ posted'[p] \in DOMAIN checks' /\ checks'[posted'[p]] = check
<1>1. PICK n \in 0 .. MaxRetries :
          /\ faults' = faults + n
          /\ checks' = checks \o Copies(n + 1, check)
          /\ posted' = [posted EXCEPT ![p] = Len(checks) + n + 1]
  BY DEF CreateCheckRun
<1>2. n \in Nat /\ n + 1 \in Nat /\ faults \in Nat /\ checks \in Seq(CheckRuns)
  BY DEF RunAssumption, TypeOK
<1>3. /\ checks' \in Seq(CheckRuns)
      /\ Len(checks') = Len(checks) + (n + 1)
      /\ \A i \in DOMAIN checks : i \in DOMAIN checks' /\ checks'[i] = checks[i]
      /\ \A i \in DOMAIN checks' \ DOMAIN checks : checks'[i] = check
  <2>1. CopiesAppended(checks, n + 1, check, checks \o Copies(n + 1, check))
    BY <1>2, AppendCopies
  <2>2. CopiesAppended(checks, n + 1, check, checks')
    BY <1>1, <2>1
  <2> QED
    BY <2>2 DEF CopiesAppended
<1>4. ChecksAccept(check)
  BY <1>3 DEF ChecksAccept
<1>5. posted'[p] = Len(checks) + n + 1
  BY <1>1 DEF TypeOK
<1>6. posted'[p] \in Nat /\ posted'[p] \in DOMAIN checks' \ DOMAIN checks
  BY <1>2, <1>3, <1>5
<1>7. posted' \in [Runners -> Nat \cup {None}] /\ \A q \in Runners \ {p} : posted'[q] = posted[q]
  BY <1>1, <1>2 DEF TypeOK
<1>8. faults' \in Nat
  BY <1>1, <1>2
<1> QED
  BY <1>3, <1>4, <1>6, <1>7, <1>8

\* When create_check_run raises, check runs may have been made all the same.
LEMMA CreateFailsAccepts ==
    ASSUME TypeOK, RunAssumption, NEW p \in Runners, NEW check \in CheckRuns,
           CreateCheckRunFails(p, check)
    PROVE  ChecksAccept(check) /\ faults' \in Nat /\ posted' = posted
<1>1. PICK n \in 0 .. (MaxRetries + 1) :
          /\ faults' = faults + n + 1
          /\ checks' = checks \o Copies(n, check)
          /\ posted' = posted
  BY DEF CreateCheckRunFails
<1>2. n \in Nat /\ faults \in Nat /\ checks \in Seq(CheckRuns)
  BY DEF RunAssumption, TypeOK
<1>3. /\ checks' \in Seq(CheckRuns)
      /\ \A i \in DOMAIN checks : i \in DOMAIN checks' /\ checks'[i] = checks[i]
      /\ \A i \in DOMAIN checks' \ DOMAIN checks : checks'[i] = check
  <2>1. CopiesAppended(checks, n, check, checks \o Copies(n, check))
    BY <1>2, AppendCopies
  <2>2. CopiesAppended(checks, n, check, checks')
    BY <1>1, <2>1
  <2> QED
    BY <2>2 DEF CopiesAppended
<1>4. ChecksAccept(check)
  BY <1>3 DEF ChecksAccept
<1> QED
  BY <1>1, <1>2, <1>4

\* update_check_run writes the check run its caller names, which is one of the
\* commit the request is for.
LEMMA UpdateAccepts ==
    ASSUME TypeOK, NEW p \in Runners, NEW check \in CheckRuns,
           CheckOf(local[p].check, check.sha),
           checks' = [checks EXCEPT ![local[p].check] =
                         [check EXCEPT !.sha = checks[local[p].check].sha]]
    PROVE  /\ ChecksAccept(check)
           /\ DOMAIN checks' = DOMAIN checks
           /\ checks'[local[p].check] = check
<1>1. [check EXCEPT !.sha = checks[local[p].check].sha] = check
  BY DEF CheckOf, CheckRuns
<1>2. checks' = [checks EXCEPT ![local[p].check] = check]
  BY <1>1
<1>3. checks \in Seq(CheckRuns) /\ local[p].check \in DOMAIN checks
  BY DEF TypeOK, CheckOf
<1>4. checks' \in Seq(CheckRuns) /\ DOMAIN checks' = DOMAIN checks
  BY <1>2, <1>3
<1>5. \A i \in DOMAIN checks :
          checks'[i] = IF i = local[p].check THEN check ELSE checks[i]
  BY <1>2, <1>3
<1> QED
  BY <1>3, <1>4, <1>5 DEF ChecksAccept, CheckOf

-----------------------------------------------------------------------------
(* What every step leaves in place. *)

AssessmentsKept ==
    \A i \in DOMAIN assessments :
        i \in DOMAIN assessments' /\ assessments'[i] = assessments[i]

ChecksKept ==
    \A i \in DOMAIN checks : i \in DOMAIN checks' /\ checks'[i].sha = checks[i].sha

EvidenceKept ==
    \A a \in Shas : rows[a].assessment # None => rows'[a].assessment # None

SameRunner(q) ==
    /\ rpc'[q] = rpc[q] /\ job'[q] = job[q] /\ local'[q] = local[q]
    /\ verdict'[q] = verdict[q] /\ posted'[q] = posted[q]

\* A runner that does not move stays sound, whatever another one does, as long
\* as nothing it refers to is taken away.
LEMMA OthersStaySound ==
    ASSUME RunInv, NEW q \in Runners, SameRunner(q),
           AssessmentsKept, ChecksKept, EvidenceKept
    PROVE  RunnerSound(q)'
<1>1. RunnerSound(q)
  BY DEF RunInv
<1>2. Prepared(q)'
  BY <1>1 DEF RunnerSound, Prepared, SameRunner
<1>3. local[q].assessment # None => job[q] \in Shas
  BY <1>1 DEF RunnerSound, Prepared, NoRow
<1>4. CopySound(q)'
  BY <1>1, <1>3 DEF RunnerSound, CopySound, SameRunner, Evidence, CheckOf,
                    AssessmentsKept, ChecksKept, EvidenceKept
<1> QED
  BY <1>2, <1>4 DEF RunnerSound

\* So does a row that is not written.
LEMMA RowStaysSound ==
    ASSUME RunInv, NEW a \in Shas, rows'[a] = rows[a], AssessmentsKept, ChecksKept
    PROVE  RowSound(a)'
<1>1. RowSound(a)
  BY DEF RunInv
<1> QED
  BY <1>1 DEF RowSound, Evidence, CheckOf, AssessmentsKept, ChecksKept

\* A flush keeps all rows sound if what it adds to the runner's copy is sound
\* and nothing is cleared.
LEMMA FlushStaysSound ==
    ASSUME RunInv, NEW p \in Runners, job[p] \in Shas, NEW new \in Rows, Flush(p, new),
           AssessmentsKept, ChecksKept,
           new.assessment # None => EvidenceNext(new.assessment, job[p]),
           local[p].assessment # None => new.assessment # None,
           new.status \in {"completed", "publish_failed"} => new.assessment # None,
           new.check # None => CheckNext(new.check, job[p]),
           local[p].check # None => new.check # None
    PROVE  /\ \A a \in Shas : RowSound(a)'
           /\ EvidenceKept
           /\ new.assessment # None => rows'[job[p]].assessment # None
<1>1. /\ \A a \in Shas \ {job[p]} : rows'[a] = rows[a]
      /\ rows'[job[p]].status \in {new.status, rows[job[p]].status}
      /\ rows'[job[p]].assessment =
            IF new.assessment # local[p].assessment
            THEN new.assessment ELSE rows[job[p]].assessment
      /\ rows'[job[p]].check =
            IF new.check # local[p].check THEN new.check ELSE rows[job[p]].check
  BY FlushWrites DEF RunInv
<1>2. RowSound(job[p]) /\ CopySound(p)
  BY DEF RunInv, RunnerSound
<1>3. /\ rows[job[p]].assessment # None => EvidenceNext(rows[job[p]].assessment, job[p])
      /\ rows[job[p]].check # None => CheckNext(rows[job[p]].check, job[p])
  BY <1>2 DEF RowSound, Evidence, CheckOf, EvidenceNext, CheckNext, AssessmentsKept, ChecksKept
<1>4. new.assessment # None => rows'[job[p]].assessment # None
  BY <1>1, <1>2 DEF CopySound
<1>5. rows[job[p]].assessment # None => rows'[job[p]].assessment # None
  BY <1>1
<1>6. /\ rows'[job[p]].assessment # None => EvidenceNext(rows'[job[p]].assessment, job[p])
      /\ rows'[job[p]].check # None => CheckNext(rows'[job[p]].check, job[p])
  BY <1>1, <1>3
<1>7. rows'[job[p]].status \in {"completed", "publish_failed"} =>
          rows'[job[p]].assessment # None
  BY <1>1, <1>2, <1>4, <1>5 DEF RowSound
<1>8. \A a \in Shas \ {job[p]} : RowSound(a)'
  BY <1>1, RowStaysSound
<1>9. EvidenceKept
  BY <1>1, <1>5 DEF EvidenceKept
<1>10. \A a \in Shas : RowSound(a)'
  <2> SUFFICES ASSUME NEW a \in Shas
               PROVE  RowSound(a)'
    OBVIOUS
  <2>1. CASE a = job[p]
    BY <2>1, <1>6, <1>7 DEF RowSound, Evidence, CheckOf, EvidenceNext, CheckNext
  <2>2. CASE a # job[p]
    BY <2>2, <1>8
  <2> QED
    BY <2>1, <2>2
<1> QED
  BY <1>4, <1>9, <1>10

\* Evidence stays ahead of GitHub when no check run changes.
LEMMA EvidenceStaysAhead ==
    ASSUME RunInv, AssessmentsKept, checks' = checks
    PROVE  EvidenceBeforePublish'
  BY DEF RunInv, EvidenceBeforePublish, AssessmentsKept

\* A step of one runner preserves the invariant if it leaves in place what it
\* must and the runner itself stays sound.
LEMMA RunnerMoves ==
    ASSUME RunInv, NEW p \in Runners, TypeOK', registry' = registry,
           AssessmentsKept, ChecksKept, EvidenceKept,
           \A a \in Shas : RowSound(a)',
           \A q \in Runners \ {p} : SameRunner(q),
           RunnerSound(p)',
           EvidenceBeforePublish'
    PROVE  RunInv'
<1>1. \A q \in Runners : RunnerSound(q)'
  BY OthersStaySound
<1> QED
  BY <1>1 DEF RunInv

\* The same for a step that touches no row, assessment or check run.
LEMMA RunnerMovesAlone ==
    ASSUME RunInv, NEW p \in Runners, TypeOK',
           UNCHANGED <<registry, rows, assessments, checks>>,
           \A q \in Runners \ {p} : SameRunner(q),
           RunnerSound(p)'
    PROVE  RunInv'
<1>1. AssessmentsKept /\ ChecksKept /\ EvidenceKept
  BY DEF AssessmentsKept, ChecksKept, EvidenceKept
<1>2. \A a \in Shas : RowSound(a)'
  BY <1>1, RowStaysSound
<1>3. EvidenceBeforePublish'
  BY <1>1, EvidenceStaysAhead
<1> QED
  BY <1>1, <1>2, <1>3, RunnerMoves

\* The same for a step that flushes the runner's copy and no more.
LEMMA RunnerFlushes ==
    ASSUME RunInv, NEW p \in Runners, TypeOK', NEW new \in Rows, Flush(p, new),
           job[p] \in Shas,
           UNCHANGED <<registry, assessments, checks, job, verdict, posted>>,
           \A q \in Runners \ {p} : rpc'[q] = rpc[q],
           new.assessment = local[p].assessment,
           new.status \in {"completed", "publish_failed"} => new.assessment # None,
           new.check # None => CheckOf(new.check, job[p]),
           local[p].check # None => new.check # None,
           Prepared(p)'
    PROVE  RunInv'
<1>1. AssessmentsKept /\ ChecksKept
  BY DEF AssessmentsKept, ChecksKept
<1>2. CopySound(p) /\ TypeOK
  BY DEF RunInv, RunnerSound
<1>3. /\ new.assessment # None => EvidenceNext(new.assessment, job[p])
      /\ new.check # None => CheckNext(new.check, job[p])
  BY <1>2 DEF CopySound, Evidence, CheckOf, EvidenceNext, CheckNext
<1>4. /\ \A a \in Shas : RowSound(a)'
      /\ EvidenceKept
      /\ new.assessment # None => rows'[job[p]].assessment # None
  BY <1>1, <1>3, FlushStaysSound
<1>5. local'[p] = new /\ \A q \in Runners \ {p} : local'[q] = local[q]
  BY <1>2, FlushWrites
<1>6. CopySound(p)'
  BY <1>2, <1>3, <1>4, <1>5 DEF CopySound, Evidence, CheckOf, EvidenceNext, CheckNext
<1>7. \A q \in Runners \ {p} : SameRunner(q)
  BY <1>5 DEF SameRunner
<1>8. EvidenceBeforePublish'
  BY <1>1, EvidenceStaysAhead
<1> QED
  BY <1>1, <1>4, <1>6, <1>7, <1>8, RunnerMoves DEF RunnerSound

-----------------------------------------------------------------------------
(* The actions. *)

\* The mapping, the registry and _start_or_get.
LEMMA EnvironmentKeepsInv ==
    ASSUME RunInv, RunAssumption, Environment
    PROVE  RunInv'
<1>1. TypeOK
  BY DEF RunInv
<1>2. ASSUME UNCHANGED <<rows, assessments, checks, rpc, job, local, verdict, posted>>,
             TypeOK', registry' # <<>>
      PROVE  RunInv'
  <2>1. AssessmentsKept /\ ChecksKept /\ EvidenceKept
    BY <1>2 DEF AssessmentsKept, ChecksKept, EvidenceKept
  <2>2. \A a \in Shas : RowSound(a)'
    BY <1>2, <2>1, RowStaysSound
  <2>3. \A q \in Runners : RunnerSound(q)'
    BY <1>2, <2>1, OthersStaySound DEF SameRunner
  <2> QED
    BY <1>2, <2>1, <2>2, <2>3, EvidenceStaysAhead DEF RunInv
<1>3. CASE CreateMapping \/ DeleteMapping
  <2>1. TypeOK'
    BY <1>1, <1>3 DEF CreateMapping, DeleteMapping, TypeOK
  <2> QED
    BY <1>2, <1>3, <2>1 DEF CreateMapping, DeleteMapping, RunInv
<1>4. ASSUME NEW v \in Shas, RegisterVersion(v)
      PROVE  RunInv'
  <2>1. registry' \in Seq(Versions) /\ registry' # <<>>
    <3>1. registry \in Seq(Versions) /\ v \in Versions /\ registry' = Append(registry, v)
      BY <1>1, <1>4 DEF RegisterVersion, TypeOK, Versions
    <3> QED
      BY <3>1
  <2>2. TypeOK'
    BY <1>1, <1>4, <2>1 DEF RegisterVersion, TypeOK
  <2> QED
    BY <1>2, <1>4, <2>1, <2>2 DEF RegisterVersion
<1>5. ASSUME NEW a \in Shas, CreateRow(a)
      PROVE  RunInv'
  <2>1. NewRow \in Rows /\ NewRow.assessment = None /\ NewRow.check = None
        /\ NewRow.status = "pending" /\ NoRow.assessment = None
    BY DEF NewRow, NoRow, Rows, Statuses
  <2>2. rows' = [rows EXCEPT ![a] = NewRow] /\ rows[a] = NoRow
    BY <1>5 DEF CreateRow, Exists
  <2>3. rows' \in [Shas -> Rows] /\ rows'[a] = NewRow /\ \A b \in Shas \ {a} : rows'[b] = rows[b]
    BY <1>1, <2>1, <2>2 DEF TypeOK
  <2>4. TypeOK'
    BY <1>1, <1>5, <2>3 DEF CreateRow, TypeOK
  <2>5. AssessmentsKept /\ ChecksKept /\ EvidenceKept
    BY <1>5, <2>1, <2>2, <2>3 DEF CreateRow, AssessmentsKept, ChecksKept, EvidenceKept
  <2>6. \A b \in Shas : RowSound(b)'
    <3>1. RowSound(a)'
      BY <2>1, <2>3 DEF RowSound
    <3>2. \A b \in Shas \ {a} : RowSound(b)'
      BY <2>3, <2>5, RowStaysSound
    <3> QED
      BY <3>1, <3>2
  <2>7. \A q \in Runners : RunnerSound(q)'
    BY <1>5, <2>5, OthersStaySound DEF CreateRow, SameRunner
  <2> QED
    BY <1>5, <2>4, <2>5, <2>6, <2>7, EvidenceStaysAhead DEF CreateRow, RunInv
<1> QED
  BY <1>3, <1>4, <1>5 DEF Environment

\* Goto moves one runner.
LEMMA GotoMoves ==
    ASSUME TypeOK, NEW p \in Runners, NEW label \in Labels, Goto(p, label)
    PROVE  /\ rpc' \in [Runners -> Labels]
           /\ rpc'[p] = label
           /\ \A q \in Runners \ {p} : rpc'[q] = rpc[q]
  BY DEF TypeOK, Goto

\* run_analysis is called.
LEMMA BeginKeepsInv ==
    ASSUME RunInv, NEW p \in Runners, NEW a \in Shas, NEW e \in Shas, Begin(p, a, e)
    PROVE  RunInv'
<1>1. TypeOK /\ RunnerSound(p) /\ rpc[p] = "idle" /\ "load" \in Labels
  BY DEF RunInv, Begin, Labels
<1>2. /\ rpc' \in [Runners -> Labels]
      /\ rpc'[p] = "load"
      /\ \A q \in Runners \ {p} : rpc'[q] = rpc[q]
  BY <1>1, GotoMoves DEF Begin
<1>3. job' \in [Runners -> Shas \cup {None}] /\ job'[p] = a
      /\ \A q \in Runners \ {p} : job'[q] = job[q]
  BY <1>1 DEF Begin, TypeOK
<1>4. TypeOK'
  BY <1>1, <1>2, <1>3 DEF Begin, TypeOK
<1>5. Prepared(p)'
  BY <1>1, <1>2, <1>3 DEF Begin, RunnerSound, Prepared
<1>6. CopySound(p)'
  BY <1>1 DEF Begin, RunnerSound, Prepared, CopySound, NoRow
<1>7. \A q \in Runners \ {p} : SameRunner(q)
  BY <1>2, <1>3 DEF Begin, SameRunner
<1> QED
  BY <1>4, <1>5, <1>6, <1>7, RunnerMovesAlone DEF Begin, RunnerSound

\* The reads at the head of _run_analysis_impl.
LEMMA LoadKeepsInv ==
    ASSUME RunInv, NEW p \in Runners, Load(p)
    PROVE  RunInv'
<1> DEFINE row == rows[job[p]]
<1>1. TypeOK /\ RunnerSound(p) /\ rpc[p] = "load"
  BY DEF RunInv, Load
<1>2. job[p] \in Shas /\ RowSound(job[p]) /\ posted[p] = None
  BY <1>1 DEF RunInv, RunnerSound, Prepared
<1>3. \E label \in {"rejected", "returned", "mark", "publish"} :
          Goto(p, label) /\ (label = "publish" => row.assessment # None)
  BY DEF Load, Resume
<1>4. PICK label \in {"rejected", "returned", "mark", "publish"} :
          Goto(p, label) /\ (label = "publish" => row.assessment # None)
  BY <1>3
<1>5. label \in Labels
  BY DEF Labels, Finished
<1>6. /\ rpc' \in [Runners -> Labels]
      /\ rpc'[p] = label
      /\ \A q \in Runners \ {p} : rpc'[q] = rpc[q]
  BY <1>1, <1>4, <1>5, GotoMoves
<1>7. /\ local' \in [Runners -> Rows]
      /\ local'[p] = row
      /\ \A q \in Runners \ {p} : local'[q] = local[q]
  BY <1>1, <1>2 DEF Load, TypeOK
<1>8. component' \in [Runners -> BOOLEAN]
  BY <1>1 DEF Load, TypeOK
<1>9. TypeOK'
  BY <1>1, <1>6, <1>7, <1>8 DEF Load, TypeOK
<1>10. Prepared(p)'
  BY <1>2, <1>4, <1>6, <1>7 DEF Load, Prepared
<1>11. CopySound(p)'
  BY <1>2, <1>7 DEF Load, CopySound, RowSound, Evidence, CheckOf
<1>12. \A q \in Runners \ {p} : SameRunner(q)
  BY <1>6, <1>7 DEF Load, SameRunner
<1> QED
  BY <1>9, <1>10, <1>11, <1>12, RunnerMovesAlone DEF Load, RunnerSound

\* The engines, and the two ways in which they fail.
LEMMA PipelineKeepsInv ==
    ASSUME RunInv, RunAssumption, NEW p \in Runners,
           RunPipeline(p) \/ MissingConfiguration(p) \/ PipelineError(p)
    PROVE  RunInv'
<1>1. TypeOK /\ RunnerSound(p) /\ rpc[p] = "pipeline" /\ registry # <<>>
  BY DEF RunInv, RunPipeline, MissingConfiguration, PipelineError
<1>2. job[p] \in Shas
  BY <1>1 DEF RunnerSound, Prepared
<1>3. ASSUME NEW label \in {"complete", "fail_config", "fail_error"}, Goto(p, label),
             verdict' \in [Runners -> Decisions \cup {None}],
             label = "complete" => verdict'[p] \in Decisions,
             \A q \in Runners \ {p} : verdict'[q] = verdict[q],
             faults' \in Nat,
             UNCHANGED <<mapping, registry, rows, assessments, checks, job, component,
                         expected, local, posted, runs>>
      PROVE  RunInv'
  <2>1. /\ rpc' \in [Runners -> Labels]
        /\ rpc'[p] = label
        /\ \A q \in Runners \ {p} : rpc'[q] = rpc[q]
    BY <1>1, <1>3, GotoMoves DEF Labels
  <2>2. TypeOK'
    BY <1>1, <1>3, <2>1 DEF TypeOK
  <2>3. Prepared(p)'
    BY <1>2, <1>3, <2>1 DEF Prepared
  <2>4. CopySound(p)'
    BY <1>1, <1>3 DEF RunnerSound, CopySound, Evidence, CheckOf
  <2>5. \A q \in Runners \ {p} : SameRunner(q)
    BY <1>3, <2>1 DEF SameRunner
  <2> QED
    BY <1>3, <2>2, <2>3, <2>4, <2>5, RunnerMovesAlone DEF RunnerSound
<1>4. CASE RunPipeline(p)
  <2>1. registry[Len(registry)] \in Versions
    BY <1>1 DEF TypeOK
  <2>2. Baseline \in Versions /\ job[p] \in Versions
    BY <1>2, <2>1 DEF Baseline, Versions
  <2>3. Verdict[<<Baseline, job[p]>>] \in Decisions
    BY <2>2 DEF RunAssumption
  <2>4. verdict' = [verdict EXCEPT ![p] = Verdict[<<Baseline, job[p]>>]]
    BY <1>4 DEF RunPipeline
  <2>5. /\ verdict' \in [Runners -> Decisions \cup {None}]
        /\ verdict'[p] \in Decisions
        /\ \A q \in Runners \ {p} : verdict'[q] = verdict[q]
    BY <1>1, <2>3, <2>4 DEF TypeOK
  <2>6. Goto(p, "complete") /\ faults' \in Nat
        /\ UNCHANGED <<mapping, registry, rows, assessments, checks, job, component,
                       expected, local, posted, runs>>
    BY <1>1, <1>4 DEF RunPipeline, TypeOK
  <2> QED
    BY <1>3, <2>5, <2>6
<1>5. CASE MissingConfiguration(p)
  <2>1. Goto(p, "fail_config") /\ faults' \in Nat
        /\ verdict' \in [Runners -> Decisions \cup {None}] /\ verdict' = verdict
        /\ UNCHANGED <<mapping, registry, rows, assessments, checks, job, component,
                       expected, local, posted, runs>>
    BY <1>1, <1>5 DEF MissingConfiguration, TypeOK
  <2> QED
    BY <1>3, <2>1
<1>6. CASE PipelineError(p)
  <2>1. Goto(p, "fail_error") /\ faults' \in Nat
        /\ verdict' \in [Runners -> Decisions \cup {None}] /\ verdict' = verdict
        /\ UNCHANGED <<mapping, registry, rows, assessments, checks, job, component,
                       expected, local, posted, runs>>
    BY <1>1, <1>6 DEF PipelineError, TypeOK
  <2> QED
    BY <1>3, <2>1
<1> QED
  BY <1>4, <1>5, <1>6

\* The five flushes that write the status or the check run of the row.
LEMMA SaveKeepsInv ==
    ASSUME RunInv, NEW p \in Runners,
           \/ MarkInProgress(p) \/ SaveCheckRun(p) \/ SaveFailed(p)
           \/ SavePublished(p) \/ SaveUnpublished(p)
    PROVE  RunInv'
<1>1. TypeOK /\ RunnerSound(p)
  BY DEF RunInv
<1>2. rpc[p] \in {"mark", "save_check", "fail_config", "fail_error", "save_published",
                  "save_unpublished"}
  BY DEF MarkInProgress, SaveCheckRun, SaveFailed, SavePublished, SaveUnpublished
<1>3. job[p] \in Shas /\ local[p] \in Rows
  BY <1>1, <1>2 DEF RunnerSound, Prepared, TypeOK
<1>4. ASSUME NEW new \in Rows, Flush(p, new),
             NEW label \in {"announce", "pipeline", "raised_config", "raised_error",
                            "returned"},
             Goto(p, label),
             UNCHANGED <<mapping, registry, assessments, checks, job, component, expected,
                         verdict, posted, runs, faults>>,
             label = "announce" => new.status = "in_progress",
             new.assessment = local[p].assessment,
             new.status \in {"completed", "publish_failed"} => new.assessment # None,
             new.check = local[p].check \/ (new.check = posted[p] /\ posted[p] # None)
      PROVE  RunInv'
  <2>1. rows' \in [Shas -> Rows] /\ local' \in [Runners -> Rows] /\ local'[p] = new
    BY <1>1, <1>3, <1>4, FlushWrites
  <2>2. /\ rpc' \in [Runners -> Labels]
        /\ rpc'[p] = label
        /\ \A q \in Runners \ {p} : rpc'[q] = rpc[q]
    BY <1>1, <1>4, GotoMoves DEF Labels, Finished
  <2>3. TypeOK'
    BY <1>1, <1>4, <2>1, <2>2 DEF TypeOK
  <2>4. Prepared(p)'
    BY <1>3, <1>4, <2>1, <2>2 DEF Prepared
  <2>5. /\ new.check # None => CheckOf(new.check, job[p])
        /\ local[p].check # None => new.check # None
    BY <1>1, <1>4 DEF RunnerSound, CopySound
  <2> QED
    BY <1>3, <1>4, <2>2, <2>3, <2>4, <2>5, RunnerFlushes
<1>5. CASE MarkInProgress(p)
  <2> DEFINE new == [local[p] EXCEPT !.status = "in_progress"]
  <2>1. /\ new \in Rows /\ new.assessment = local[p].assessment
        /\ new.status = "in_progress" /\ new.check = local[p].check
    BY <1>3 DEF Rows, Statuses
  <2>2. Flush(p, new) /\ Goto(p, "announce")
        /\ UNCHANGED <<mapping, registry, assessments, checks, job, component, expected,
                       verdict, posted, runs, faults>>
    BY <1>5 DEF MarkInProgress
  <2> HIDE DEF new
  <2> QED
    BY <1>4, <2>1, <2>2
<1>6. CASE SaveCheckRun(p)
  <2> DEFINE new == [local[p] EXCEPT !.check = posted[p]]
  <2>1. posted[p] # None /\ posted[p] \in Nat \cup {None}
    BY <1>1, <1>6 DEF SaveCheckRun, RunnerSound, Prepared, TypeOK
  <2>2. /\ new \in Rows /\ new.assessment = local[p].assessment
        /\ new.status = local[p].status /\ new.check = posted[p]
    BY <1>3, <2>1 DEF Rows
  <2>3. Flush(p, new) /\ Goto(p, "pipeline")
        /\ UNCHANGED <<mapping, registry, assessments, checks, job, component, expected,
                       verdict, posted, runs, faults>>
    BY <1>6 DEF SaveCheckRun
  <2>4. local[p].status = "in_progress"
    BY <1>1, <1>6 DEF SaveCheckRun, RunnerSound, Prepared
  <2> HIDE DEF new
  <2> QED
    BY <1>4, <2>1, <2>2, <2>3, <2>4
<1>7. CASE SaveFailed(p)
  <2> DEFINE new == [local[p] EXCEPT !.status = "failed"]
  <2>1. /\ new \in Rows /\ new.assessment = local[p].assessment
        /\ new.status = "failed" /\ new.check = local[p].check
    BY <1>3 DEF Rows, Statuses
  <2>2. Flush(p, new) /\ (Goto(p, "raised_config") \/ Goto(p, "raised_error"))
        /\ UNCHANGED <<mapping, registry, assessments, checks, job, component, expected,
                       verdict, posted, runs, faults>>
    BY <1>7 DEF SaveFailed
  <2> HIDE DEF new
  <2> QED
    BY <1>4, <2>1, <2>2
<1>8. CASE SavePublished(p)
  <2> DEFINE new == [local[p] EXCEPT !.status = "completed", !.check = posted[p]]
  <2>1. posted[p] # None /\ posted[p] \in Nat \cup {None} /\ local[p].assessment # None
    BY <1>1, <1>8 DEF SavePublished, RunnerSound, Prepared, TypeOK
  <2>2. /\ new \in Rows /\ new.assessment = local[p].assessment
        /\ new.status = "completed" /\ new.check = posted[p]
    BY <1>3, <2>1 DEF Rows, Statuses
  <2>3. Flush(p, new) /\ Goto(p, "returned")
        /\ UNCHANGED <<mapping, registry, assessments, checks, job, component, expected,
                       verdict, posted, runs, faults>>
    BY <1>8 DEF SavePublished
  <2> HIDE DEF new
  <2> QED
    BY <1>4, <2>1, <2>2, <2>3
<1>9. CASE SaveUnpublished(p)
  <2> DEFINE new == [local[p] EXCEPT !.status = "publish_failed"]
  <2>1. local[p].assessment # None
    BY <1>1, <1>9 DEF SaveUnpublished, RunnerSound, Prepared
  <2>2. /\ new \in Rows /\ new.assessment = local[p].assessment
        /\ new.status = "publish_failed" /\ new.check = local[p].check
    BY <1>3 DEF Rows, Statuses
  <2>3. Flush(p, new) /\ Goto(p, "returned")
        /\ UNCHANGED <<mapping, registry, assessments, checks, job, component, expected,
                       verdict, posted, runs, faults>>
    BY <1>9 DEF SaveUnpublished
  <2> HIDE DEF new
  <2> QED
    BY <1>4, <2>1, <2>2, <2>3
<1> QED
  BY <1>5, <1>6, <1>7, <1>8, <1>9

\* A step that calls GitHub preserves the invariant if a conclusion it sends
\* is backed and the id it is answered with is that of its own commit.
LEMMA CallKeepsInv ==
    ASSUME RunInv, NEW p \in Runners, job[p] \in Shas,
           NEW check \in CheckRuns, check.sha = job[p], ChecksAccept(check),
           check.status = "completed" =>
               \E j \in DOMAIN assessments :
                   /\ assessments[j].sha = job[p]
                   /\ check.conclusion = Conclusion(assessments[j].decision),
           posted' \in [Runners -> Nat \cup {None}],
           \A q \in Runners \ {p} : posted'[q] = posted[q],
           posted'[p] # None => CheckNext(posted'[p], job[p]),
           faults' \in Nat,
           NEW label \in {"save_check", "pipeline", "save_published", "save_unpublished"},
           Goto(p, label),
           label \in {"save_check", "save_published"} => posted'[p] # None,
           label = "save_check" => local[p].status = "in_progress",
           label \in {"save_published", "save_unpublished"} => local[p].assessment # None,
           UNCHANGED <<mapping, registry, rows, assessments, job, component, expected,
                       local, verdict, runs>>
    PROVE  RunInv'
<1>1. TypeOK /\ RunnerSound(p)
  BY DEF RunInv
<1>2. /\ rpc' \in [Runners -> Labels]
      /\ rpc'[p] = label
      /\ \A q \in Runners \ {p} : rpc'[q] = rpc[q]
  BY <1>1, GotoMoves DEF Labels
<1>3. TypeOK'
  BY <1>1, <1>2 DEF TypeOK, ChecksAccept
<1>4. AssessmentsKept /\ ChecksKept /\ EvidenceKept
  BY DEF AssessmentsKept, ChecksKept, EvidenceKept, ChecksAccept
<1>5. \A a \in Shas : RowSound(a)'
  BY <1>4, RowStaysSound
<1>6. Prepared(p)'
  BY <1>2 DEF Prepared
<1>7. CopySound(p)'
  BY <1>1, <1>4 DEF RunnerSound, CopySound, Evidence, CheckOf, CheckNext, ChecksKept
<1>8. \A q \in Runners \ {p} : SameRunner(q)
  BY <1>2 DEF SameRunner
<1>9. EvidenceBeforePublish'
  <2> SUFFICES ASSUME NEW i \in DOMAIN checks', checks'[i].status = "completed"
               PROVE  \E j \in DOMAIN assessments :
                          /\ assessments[j].sha = checks'[i].sha
                          /\ checks'[i].conclusion = Conclusion(assessments[j].decision)
    BY DEF EvidenceBeforePublish, Conclusion
  <2>1. CASE i \in DOMAIN checks /\ checks'[i] = checks[i]
    BY <2>1 DEF RunInv, EvidenceBeforePublish
  <2>2. CASE checks'[i] = check
    BY <2>2
  <2> QED
    BY <2>1, <2>2 DEF ChecksAccept
<1> QED
  BY <1>3, <1>4, <1>5, <1>6, <1>7, <1>8, <1>9, RunnerMoves DEF RunnerSound

\* _publish_in_progress.
LEMMA AnnounceKeepsInv ==
    ASSUME RunInv, RunAssumption, NEW p \in Runners, Announce(p)
    PROVE  RunInv'
<1> DEFINE check == CheckRun(job[p], "in_progress", None)
<1>1. TypeOK /\ RunnerSound(p) /\ rpc[p] = "announce"
  BY DEF RunInv, Announce
<1>2. job[p] \in Shas /\ local[p].status = "in_progress"
  BY <1>1 DEF RunnerSound, Prepared
<1>3. check \in CheckRuns /\ check.sha = job[p] /\ check.status = "in_progress"
  BY <1>2 DEF CheckRun, CheckRuns
<1>4. \/ CreateCheckRun(p, check) /\ Goto(p, "save_check")
      \/ CreateCheckRunFails(p, check) /\ Goto(p, "pipeline")
  BY DEF Announce
<1>5. UNCHANGED <<mapping, registry, rows, assessments, job, component, expected, local,
                  verdict, runs>>
  BY DEF Announce
<1> HIDE DEF check
<1>6. CASE CreateCheckRun(p, check) /\ Goto(p, "save_check")
  <2>1. /\ ChecksAccept(check) /\ faults' \in Nat
        /\ posted' \in [Runners -> Nat \cup {None}]
        /\ \A q \in Runners \ {p} : posted'[q] = posted[q]
        /\ posted'[p] \in Nat
        /\ posted'[p] \in DOMAIN checks' /\ checks'[posted'[p]] = check
    BY <1>1, <1>3, <1>6, CreateAccepts
  <2>2. posted'[p] # None /\ CheckNext(posted'[p], job[p])
    BY <1>3, <2>1 DEF CheckNext, RunAssumption
  <2> QED
    BY <1>2, <1>3, <1>5, <1>6, <2>1, <2>2, CallKeepsInv
<1>7. CASE CreateCheckRunFails(p, check) /\ Goto(p, "pipeline")
  <2>1. ChecksAccept(check) /\ faults' \in Nat /\ posted' = posted
    BY <1>1, <1>3, <1>7, CreateFailsAccepts
  <2>2. posted' \in [Runners -> Nat \cup {None}]
    BY <1>1, <2>1 DEF TypeOK
  <2>3. posted'[p] # None => CheckNext(posted'[p], job[p])
    BY <1>1, <2>1 DEF RunnerSound, CopySound, CheckOf, CheckNext, ChecksAccept
  <2> QED
    BY <1>2, <1>3, <1>5, <1>7, <2>1, <2>2, <2>3, CallKeepsInv
<1> QED
  BY <1>4, <1>6, <1>7

\* _publish_result.
LEMMA PublishKeepsInv ==
    ASSUME RunInv, RunAssumption, NEW p \in Runners, Publish(p)
    PROVE  RunInv'
<1> DEFINE evidence == assessments[local[p].assessment]
           check == CheckRun(job[p], "completed", Conclusion(evidence.decision))
<1>1. TypeOK /\ RunnerSound(p) /\ rpc[p] = "publish"
  BY DEF RunInv, Publish
<1>2. job[p] \in Shas /\ local[p].assessment # None
  BY <1>1 DEF RunnerSound, Prepared
<1>3. local[p].assessment \in DOMAIN assessments /\ evidence.sha = job[p]
  BY <1>1, <1>2 DEF RunnerSound, CopySound, Evidence
<1>4. evidence.decision \in Decisions
  <2>1. assessments \in Seq([sha : Shas, decision : Decisions])
    BY <1>1 DEF TypeOK
  <2> DEFINE Records == [sha : Shas, decision : Decisions]
  <2>2. \A r \in Records : r.decision \in Decisions
    OBVIOUS
  <2>3. assessments \in Seq(Records)
    BY <2>1
  <2> HIDE DEF Records
  <2>4. \A i \in DOMAIN assessments : assessments[i] \in Records
    BY <2>3
  <2> QED
    BY <1>3, <2>2, <2>4
<1>5. check \in CheckRuns /\ check.sha = job[p]
      /\ check.conclusion = Conclusion(evidence.decision)
  <2>1. Conclusion(evidence.decision) \in {"success", "neutral", "failure"}
    BY <1>4 DEF Conclusion, Decisions
  <2> QED
    BY <1>2, <2>1 DEF CheckRun, CheckRuns
<1>6. \E j \in DOMAIN assessments :
          /\ assessments[j].sha = job[p]
          /\ check.conclusion = Conclusion(assessments[j].decision)
  BY <1>3, <1>5
<1>7. UNCHANGED <<mapping, registry, rows, assessments, job, component, expected, local,
                  verdict, runs>>
  BY DEF Publish
<1>8. \/ /\ IF local[p].check # None THEN UpdateCheckRun(p, check)
                                     ELSE CreateCheckRun(p, check)
         /\ Goto(p, "save_published")
      \/ /\ IF local[p].check # None THEN UpdateCheckRunFails(p, check)
                                     ELSE CreateCheckRunFails(p, check)
         /\ Goto(p, "save_unpublished")
  BY DEF Publish
<1> HIDE DEF check
<1>9. local[p].check # None => CheckOf(local[p].check, check.sha)
  BY <1>1, <1>5 DEF RunnerSound, CopySound
<1>10. ASSUME ChecksAccept(check), faults' \in Nat, posted' = posted,
              Goto(p, "save_unpublished")
       PROVE  RunInv'
  <2>1. posted' \in [Runners -> Nat \cup {None}]
    BY <1>1, <1>10 DEF TypeOK
  <2>2. posted'[p] # None => CheckNext(posted'[p], job[p])
    BY <1>1, <1>10 DEF RunnerSound, CopySound, CheckOf, CheckNext, ChecksAccept
  <2> QED
    BY <1>2, <1>5, <1>6, <1>7, <1>10, <2>1, <2>2, CallKeepsInv
<1>11. ASSUME CreateCheckRun(p, check), Goto(p, "save_published")
       PROVE  RunInv'
  <2>1. /\ ChecksAccept(check) /\ faults' \in Nat
        /\ posted' \in [Runners -> Nat \cup {None}]
        /\ \A q \in Runners \ {p} : posted'[q] = posted[q]
        /\ posted'[p] \in Nat
        /\ posted'[p] \in DOMAIN checks' /\ checks'[posted'[p]] = check
    BY <1>1, <1>5, <1>11, CreateAccepts
  <2>2. posted'[p] # None /\ CheckNext(posted'[p], job[p])
    BY <1>5, <2>1 DEF CheckNext, RunAssumption
  <2> QED
    BY <1>2, <1>5, <1>6, <1>7, <1>11, <2>1, <2>2, CallKeepsInv
<1>12. ASSUME local[p].check # None, UpdateCheckRun(p, check), Goto(p, "save_published")
       PROVE  RunInv'
  <2>1. ChecksAccept(check) /\ DOMAIN checks' = DOMAIN checks
    BY <1>1, <1>5, <1>9, <1>12, UpdateAccepts DEF UpdateCheckRun
  <2>2. local[p].check \in Nat \cup {None} /\ faults' \in Nat
    BY <1>1, <1>12 DEF TypeOK, Rows, UpdateCheckRun
  <2>3. /\ posted' \in [Runners -> Nat \cup {None}]
        /\ posted'[p] = local[p].check
        /\ \A q \in Runners \ {p} : posted'[q] = posted[q]
    BY <1>1, <1>12, <2>2 DEF TypeOK, UpdateCheckRun
  <2>4. posted'[p] # None /\ CheckNext(posted'[p], job[p])
    BY <1>5, <1>9, <1>12, <2>1, <2>3 DEF CheckOf, CheckNext, ChecksAccept
  <2> QED
    BY <1>2, <1>5, <1>6, <1>7, <1>12, <2>1, <2>2, <2>3, <2>4, CallKeepsInv
<1>13. ASSUME local[p].check # None, UpdateCheckRunFails(p, check),
              Goto(p, "save_unpublished")
       PROVE  RunInv'
  <2>1. faults' \in Nat /\ posted' = posted
    BY <1>1, <1>13 DEF TypeOK, UpdateCheckRunFails
  <2>2. CASE checks' = checks
    <3>1. ChecksAccept(check)
      BY <1>1, <2>2 DEF ChecksAccept, TypeOK
    <3> QED
      BY <1>10, <1>13, <2>1, <3>1
  <2>3. CASE checks' = [checks EXCEPT ![local[p].check] =
                           [check EXCEPT !.sha = checks[local[p].check].sha]]
    <3>1. ChecksAccept(check)
      BY <1>1, <1>5, <1>9, <1>13, <2>3, UpdateAccepts
    <3> QED
      BY <1>10, <1>13, <2>1, <3>1
  <2> QED
    BY <1>13, <2>2, <2>3 DEF UpdateCheckRunFails
<1>14. ASSUME CreateCheckRunFails(p, check), Goto(p, "save_unpublished")
       PROVE  RunInv'
  <2>1. ChecksAccept(check) /\ faults' \in Nat /\ posted' = posted
    BY <1>1, <1>5, <1>14, CreateFailsAccepts
  <2> QED
    BY <1>10, <1>14, <2>1
<1> QED
  BY <1>8, <1>11, <1>12, <1>13, <1>14

\* The commit of the evidence together with the row that refers to it.
LEMMA CompleteKeepsInv ==
    ASSUME RunInv, RunAssumption, NEW p \in Runners, Complete(p)
    PROVE  RunInv'
<1> DEFINE new == CompletedRow(p)
           record == [sha |-> job[p], decision |-> verdict[p]]
           n == Len(assessments) + 1
<1>1. TypeOK /\ RunnerSound(p) /\ rpc[p] = "complete"
  BY DEF RunInv, Complete
<1>2. job[p] \in Shas /\ verdict[p] \in Decisions /\ local[p] \in Rows
  BY <1>1 DEF RunnerSound, Prepared, TypeOK
<1>3. Len(assessments) \in Nat /\ n \in Nat /\ n # None
  BY <1>1 DEF TypeOK, RunAssumption
<1>4. /\ new \in Rows /\ new.assessment = n /\ new.status = "completed"
      /\ new.check = local[p].check
  BY <1>2, <1>3 DEF CompletedRow, Rows, Statuses
<1>5. /\ assessments' \in Seq([sha : Shas, decision : Decisions])
      /\ n \in DOMAIN assessments' /\ assessments'[n].sha = job[p]
      /\ AssessmentsKept
  <2>1. record \in [sha : Shas, decision : Decisions] /\ record.sha = job[p]
    BY <1>2
  <2>2. assessments' = Append(assessments, record)
    BY DEF Complete
  <2> HIDE DEF record
  <2> QED
    BY <1>1, <2>1, <2>2 DEF TypeOK, AssessmentsKept
<1>6. Flush(p, new) /\ Goto(p, "publish") /\ verdict' = [verdict EXCEPT ![p] = None]
      /\ UNCHANGED <<mapping, registry, checks, job, component, expected, posted, runs,
                     faults>>
  BY DEF Complete
<1> HIDE DEF new, n
<1>7. ChecksKept
  BY <1>6 DEF ChecksKept
<1>8. /\ EvidenceNext(new.assessment, job[p]) /\ new.assessment # None
      /\ new.check # None => CheckNext(new.check, job[p])
  BY <1>1, <1>3, <1>4, <1>5, <1>6 DEF EvidenceNext, CheckNext, RunnerSound, CopySound, CheckOf
<1>9. /\ \A a \in Shas : RowSound(a)'
      /\ EvidenceKept
      /\ rows'[job[p]].assessment # None
  BY <1>2, <1>4, <1>5, <1>6, <1>7, <1>8, FlushStaysSound
<1>10. /\ rows' \in [Shas -> Rows]
       /\ local' \in [Runners -> Rows]
       /\ local'[p] = new
       /\ \A q \in Runners \ {p} : local'[q] = local[q]
  BY <1>1, <1>2, <1>4, <1>6, FlushWrites
<1>11. /\ rpc' \in [Runners -> Labels]
       /\ rpc'[p] = "publish"
       /\ \A q \in Runners \ {p} : rpc'[q] = rpc[q]
  BY <1>1, <1>6, GotoMoves DEF Labels
<1>12. /\ verdict' \in [Runners -> Decisions \cup {None}]
       /\ \A q \in Runners \ {p} : verdict'[q] = verdict[q]
  BY <1>1, <1>6 DEF TypeOK
<1>13. TypeOK'
  BY <1>1, <1>5, <1>6, <1>10, <1>11, <1>12 DEF TypeOK
<1>14. Prepared(p)'
  BY <1>2, <1>6, <1>8, <1>10, <1>11 DEF Prepared
<1>15. CopySound(p)'
  BY <1>1, <1>6, <1>8, <1>9, <1>10 DEF RunnerSound, CopySound, Evidence, CheckOf,
                                       EvidenceNext, CheckNext
<1>16. \A q \in Runners \ {p} : SameRunner(q)
  BY <1>6, <1>10, <1>11, <1>12 DEF SameRunner
<1>17. EvidenceBeforePublish'
  BY <1>5, <1>6, EvidenceStaysAhead
<1> QED
  BY <1>5, <1>6, <1>7, <1>9, <1>13, <1>14, <1>15, <1>16, <1>17, RunnerMoves DEF RunnerSound

\* The call ends, or the process dies.
LEMMA EndKeepsInv ==
    ASSUME RunInv, NEW p \in Runners, Idle(p), faults' \in Nat
    PROVE  RunInv'
<1>1. TypeOK
  BY DEF RunInv
<1>2. NoRow \in Rows /\ NoRow.assessment = None /\ NoRow.check = None
  BY DEF NoRow, Rows
<1>3. /\ rpc' \in [Runners -> Labels]
      /\ rpc'[p] = "idle"
      /\ \A q \in Runners \ {p} : rpc'[q] = rpc[q]
  BY <1>1, GotoMoves DEF Idle, Labels
<1>4. /\ local' \in [Runners -> Rows] /\ local'[p] = NoRow
      /\ posted' \in [Runners -> Nat \cup {None}] /\ posted'[p] = None
      /\ \A q \in Runners \ {p} : local'[q] = local[q] /\ posted'[q] = posted[q]
  BY <1>1, <1>2 DEF Idle, TypeOK
<1>5. /\ job' \in [Runners -> Shas \cup {None}]
      /\ verdict' \in [Runners -> Decisions \cup {None}]
      /\ component' \in [Runners -> BOOLEAN]
      /\ expected' \in [Runners -> Shas \cup {None}]
      /\ \A q \in Runners \ {p} : job'[q] = job[q] /\ verdict'[q] = verdict[q]
  BY <1>1 DEF Idle, TypeOK
<1>6. TypeOK'
  BY <1>1, <1>3, <1>4, <1>5 DEF Idle, TypeOK
<1>7. RunnerSound(p)'
  BY <1>2, <1>3, <1>4 DEF RunnerSound, CopySound, Prepared
<1>8. \A q \in Runners \ {p} : SameRunner(q)
  BY <1>3, <1>4, <1>5 DEF SameRunner
<1> QED
  BY <1>1, <1>6, <1>7, <1>8, RunnerMovesAlone DEF Idle

-----------------------------------------------------------------------------
(* The theorems. *)

\* No row, no check run and nobody running: the invariant holds.
LEMMA InitHasInv ==
    ASSUME RunInit
    PROVE  RunInv
<1>1. NoRow \in Rows /\ NoRow.assessment = None /\ NoRow.check = None
      /\ (None \notin Statuses => NoRow.status \notin Statuses)
  BY DEF NoRow, Rows
<1>2. None \notin {"completed", "publish_failed"}
  BY RunAssumption DEF Statuses, RunAssumption
<1>3. TypeOK
  BY <1>1 DEF RunInit, TypeOK, Labels, Versions
<1>4. \A a \in Shas : RowSound(a)
  BY <1>1, <1>2 DEF RunInit, RowSound, NoRow
<1>5. \A p \in Runners : RunnerSound(p)
  BY <1>1 DEF RunInit, RunnerSound, CopySound, Prepared
<1>6. EvidenceBeforePublish /\ registry # <<>>
  BY DEF RunInit, EvidenceBeforePublish
<1> QED
  BY <1>3, <1>4, <1>5, <1>6 DEF RunInv

\* A step as run_analysis sees it, whatever surrounds it: one of its own, the
\* end of a call, or a fault of somebody else.
RunMove ==
    \/ RunNext
    \/ \E p \in Runners : Idle(p) /\ faults' \in Nat
    \/ UNCHANGED <<mapping, rows, runOnly>> /\ faults' \in Nat

\* By itself, it makes no other step.
LEMMA RunMoves ==
    ASSUME TypeOK, [RunNext]_runVars
    PROVE  RunMove
BY DEF RunMove, runVars, runOnly, TypeOK

\* Every such step keeps the invariant.
LEMMA RunMoveKeepsInv ==
    ASSUME RunInv, RunMove
    PROVE  RunInv'
<1>1. CASE Environment
  BY <1>1, EnvironmentKeepsInv, RunAssumption
<1>2. ASSUME NEW p \in Runners, NEW a \in Shas, NEW e \in Shas, Begin(p, a, e)
      PROVE  RunInv'
  BY <1>2, BeginKeepsInv
<1>3. ASSUME NEW p \in Runners, RunStep(p)
      PROVE  RunInv'
  <2>1. CASE Load(p)
    BY <2>1, LoadKeepsInv
  <2>2. CASE RunPipeline(p) \/ MissingConfiguration(p) \/ PipelineError(p)
    BY <2>2, PipelineKeepsInv, RunAssumption
  <2>3. CASE \/ MarkInProgress(p) \/ SaveCheckRun(p) \/ SaveFailed(p)
             \/ SavePublished(p) \/ SaveUnpublished(p)
    BY <2>3, SaveKeepsInv
  <2>4. CASE Announce(p)
    BY <2>4, AnnounceKeepsInv, RunAssumption
  <2>5. CASE Publish(p)
    BY <2>5, PublishKeepsInv, RunAssumption
  <2>6. CASE Complete(p)
    BY <2>6, CompleteKeepsInv, RunAssumption
  <2> QED
    BY <1>3, <2>1, <2>2, <2>3, <2>4, <2>5, <2>6 DEF RunStep
<1>4. ASSUME NEW p \in Runners, Idle(p), faults' \in Nat
      PROVE  RunInv'
  BY <1>4, EndKeepsInv
<1>5. ASSUME NEW p \in Runners, Finish(p) \/ Crash(p)
      PROVE  RunInv'
  <2>1. Idle(p) /\ faults' \in Nat
    BY <1>5 DEF RunInv, TypeOK, Finish, Crash
  <2> QED
    BY <2>1, EndKeepsInv
<1>6. CASE UNCHANGED <<mapping, rows, runOnly>> /\ faults' \in Nat
  BY <1>6 DEF runOnly, RunInv, TypeOK, RowSound, RunnerSound, CopySound, Prepared,
              Evidence, CheckOf, EvidenceBeforePublish
<1> QED
  BY <1>1, <1>2, <1>3, <1>4, <1>5, <1>6 DEF RunMove, RunNext

\* RunInv is an invariant of run_analysis.
THEOREM RunInvariant == RunSpec => []RunInv
<1>1. RunInit => RunInv
  BY InitHasInv
<1>2. RunInv /\ [RunNext]_runVars => RunInv'
  BY RunMoves, RunMoveKeepsInv DEF RunInv
<1> QED
  BY <1>1, <1>2, PTL DEF RunSpec

\* Every variable of run_analysis keeps its type.
THEOREM RunTypeOK == RunSpec => []TypeOK
<1>1. RunInv => TypeOK
  BY DEF RunInv
<1> QED
  BY <1>1, RunInvariant, PTL

\* A conclusion on GitHub is that of an assessment committed before it for the
\* same commit, for any number of runners that overlap, crash and lose answers.
THEOREM RunPublishesEvidence == RunSpec => []EvidenceBeforePublish
<1>1. RunInv => EvidenceBeforePublish
  BY DEF RunInv
<1> QED
  BY <1>1, RunInvariant, PTL

\* A row that is COMPLETED or PUBLISH_FAILED refers to a committed assessment
\* of its own commit.
THEOREM RunStatusBacked == RunSpec => []StatusBackedByEvidence
<1>1. RunInv => StatusBackedByEvidence
  BY DEF RunInv, RowSound, Evidence, StatusBackedByEvidence
<1> QED
  BY <1>1, RunInvariant, PTL

\* Rows, and runners about to call GitHub, name check runs of their own commit.
THEOREM RunPinsSha == RunSpec => []ExactShaPinning
<1>1. RunInv => ExactShaPinning
  BY DEF RunInv, RowSound, RunnerSound, CopySound, CheckOf, ExactShaPinning
<1> QED
  BY <1>1, RunInvariant, PTL

-----------------------------------------------------------------------------
(* Runs that do not overlap: the life of an analysis. *)

\* No two calls of run_analysis are for the same commit at the same time.
RunsApart ==
    \A p, q \in Runners :
        rpc[p] # "idle" /\ rpc[q] # "idle" /\ job[p] = job[q] => p = q

\* The columns of a row go together, and its decision is that of its evidence.
RowAgrees(a) ==
    /\ rows[a].status = None => rows[a] = NoRow
    /\ rows[a].status \notin {"completed", "publish_failed"} =>
          rows[a].decision = None /\ rows[a].assessment = None
    /\ rows[a].status \in {"completed", "publish_failed"} =>
          /\ rows[a].decision \in Decisions
          /\ assessments[rows[a].assessment].decision = rows[a].decision

\* The evidence of a commit is what its row refers to, and GitHub shows no
\* other decision than the row's.
NoOtherEvidence(a) ==
    \A i \in DOMAIN assessments : assessments[i].sha = a => rows[a].assessment = i

NoOtherConclusion(a) ==
    \A i \in DOMAIN checks :
        Concluded(checks[i], a) =>
            rows[a].decision \in Decisions /\ checks[i].conclusion = Conclusion(rows[a].decision)

CommitInv(a) == RowAgrees(a) /\ NoOtherEvidence(a) /\ NoOtherConclusion(a)

\* A runner between its reads and its last write, before and after the commit
\* of the evidence.
Assessing == {"announce", "save_check", "pipeline", "fail_config", "fail_error", "complete"}

Publishing == {"publish", "save_published", "save_unpublished"}

Working == {"mark"} \cup Assessing \cup Publishing

\* Its copy is the row, and it knows how far the analysis has come.
FreshCopy(p) ==
    /\ rpc[p] \in Working => local[p] = rows[job[p]]
    /\ rpc[p] = "mark" => rows[job[p]].status \in {"pending", "in_progress"}
    /\ rpc[p] \in Assessing => rows[job[p]].status = "in_progress"
    /\ rpc[p] \in Publishing => rows[job[p]].status \in {"completed", "publish_failed"}
    /\ rpc[p] = "save_published" => \E i \in DOMAIN checks : Concluded(checks[i], job[p])

LifeInv == (\A a \in Shas : CommitInv(a)) /\ (\A p \in Runners : FreshCopy(p))

\* What every step has to show.
Lives == LifeInv' /\ (Life!Next \/ UNCHANGED <<StageOf, DecisionOf, ShownOf>>)

-----------------------------------------------------------------------------
\* What GitHub shows of a commit whose check runs all say d is d or nothing.
LEMMA ShownIs ==
    ASSUME NEW s, NEW a, NEW d,
           \A i \in DOMAIN s : Concluded(s[i], a) =>
               d \in Decisions /\ s[i].conclusion = Conclusion(d)
    PROVE  ShownIn(s, a) = IF \E i \in DOMAIN s : Concluded(s[i], a) THEN {d} ELSE {}
<1>1. \A x, y \in Decisions : Conclusion(x) = Conclusion(y) => x = y
  BY DEF Decisions, Conclusion
<1>2. CASE \E i \in DOMAIN s : Concluded(s[i], a)
  <2>1. PICK i \in DOMAIN s : Concluded(s[i], a)
    BY <1>2
  <2>2. d \in Decisions /\ s[i].conclusion = Conclusion(d)
    BY <2>1
  <2>3. d \in ShownIn(s, a)
    BY <2>1, <2>2 DEF ShownIn
  <2>4. ASSUME NEW x \in ShownIn(s, a) PROVE x = d
    <3>1. PICK j \in DOMAIN s : Concluded(s[j], a) /\ s[j].conclusion = Conclusion(x)
      BY DEF ShownIn
    <3>2. x \in Decisions
      BY DEF ShownIn
    <3> QED
      BY <1>1, <2>2, <3>1, <3>2
  <2> QED
    BY <1>2, <2>3, <2>4
<1>3. CASE ~ \E i \in DOMAIN s : Concluded(s[i], a)
  BY <1>3 DEF ShownIn
<1> QED
  BY <1>2, <1>3

\* A step on the analysis of commit a leaves every other commit alone.
OnlyCommit(a) ==
    /\ \A b \in Shas \ {a} : rows'[b] = rows[b]
    /\ AssessmentsKept
    /\ \A i \in DOMAIN assessments' : i \in DOMAIN assessments \/ assessments'[i].sha = a
    /\ \A i \in DOMAIN checks' :
          checks'[i].sha # a => i \in DOMAIN checks /\ checks'[i] = checks[i]
    /\ \A i \in DOMAIN checks :
          checks[i].sha # a => i \in DOMAIN checks' /\ checks'[i] = checks[i]

\* No step, or a step on one commit, as the abstract specification sees it.
LEMMA OthersLiveOn ==
    ASSUME NEW a \in Shas, OnlyCommit(a)
    PROVE  /\ StageOf' = [StageOf EXCEPT ![a] = Stage(rows'[a].status)]
           /\ DecisionOf' = [DecisionOf EXCEPT ![a] = rows'[a].decision]
           /\ ShownOf' = [ShownOf EXCEPT ![a] = ShownIn(checks', a)]
<1>1. \A b \in Shas : b # a => rows'[b] = rows[b]
  BY DEF OnlyCommit
<1>2. ASSUME NEW b \in Shas, b # a PROVE ShownIn(checks', b) = ShownIn(checks, b)
  <2>1. ASSUME NEW d \in Decisions
        PROVE  (\E i \in DOMAIN checks' : /\ Concluded(checks'[i], b)
                                          /\ checks'[i].conclusion = Conclusion(d))
               <=> (\E i \in DOMAIN checks : /\ Concluded(checks[i], b)
                                             /\ checks[i].conclusion = Conclusion(d))
    BY <1>2 DEF OnlyCommit, Concluded
  <2> QED
    BY <2>1 DEF ShownIn
<1>3. StageOf' = [b \in Shas |-> Stage(rows'[b].status)]
      /\ DecisionOf' = [b \in Shas |-> rows'[b].decision]
      /\ ShownOf' = [b \in Shas |-> ShownIn(checks', b)]
  BY DEF StageOf, DecisionOf, ShownOf, Stage, ShownIn, Concluded
<1>4. StageOf' = [StageOf EXCEPT ![a] = Stage(rows'[a].status)]
  BY <1>1, <1>3 DEF StageOf
<1>5. DecisionOf' = [DecisionOf EXCEPT ![a] = rows'[a].decision]
  BY <1>1, <1>3 DEF DecisionOf
<1>6. ShownOf' = [ShownOf EXCEPT ![a] = ShownIn(checks', a)]
  BY <1>2, <1>3 DEF ShownOf
<1> QED
  BY <1>4, <1>5, <1>6

\* Nor does it change what is known of another commit.
LEMMA OtherCommitsAgree ==
    ASSUME RunInv, NEW a \in Shas, OnlyCommit(a), NEW b \in Shas, b # a, CommitInv(b)
    PROVE  CommitInv(b)'
<1>1. rows'[b] = rows[b]
  BY DEF OnlyCommit
<1>2. rows[b].status \in {"completed", "publish_failed"} =>
          rows[b].assessment \in DOMAIN assessments
  BY DEF RunInv, RowSound, Evidence
<1>3. RowAgrees(b)'
  BY <1>1, <1>2 DEF CommitInv, RowAgrees, OnlyCommit, AssessmentsKept
<1>4. NoOtherEvidence(b)'
  BY <1>1 DEF CommitInv, NoOtherEvidence, OnlyCommit, AssessmentsKept
<1>5. NoOtherConclusion(b)'
  BY <1>1 DEF CommitInv, NoOtherConclusion, OnlyCommit, Concluded, Conclusion
<1> QED
  BY <1>3, <1>4, <1>5 DEF CommitInv

\* A runner of another commit still has a fresh copy.
LEMMA OtherCopiesStayFresh ==
    ASSUME RunInv, NEW a \in Shas, OnlyCommit(a), NEW q \in Runners, FreshCopy(q),
           SameRunner(q), rpc[q] # "idle" => job[q] # a
    PROVE  FreshCopy(q)'
<1>1. CASE rpc[q] \notin Working
  BY <1>1 DEF FreshCopy, SameRunner, Working, Assessing, Publishing
<1>2. CASE rpc[q] \in Working
  <2>1. rpc[q] # "idle"
    BY <1>2 DEF Working, Assessing, Publishing
  <2>2. PICK b \in Shas : b = job[q] /\ b # a
    BY <2>1 DEF RunInv, RunnerSound, Prepared
  <2>3. rows'[b] = rows[b]
    BY <2>2 DEF OnlyCommit
  <2>4. (\E i \in DOMAIN checks : Concluded(checks[i], b)) =>
            \E i \in DOMAIN checks' : Concluded(checks'[i], b)
    BY <2>2 DEF OnlyCommit, Concluded
  <2> QED
    BY <2>2, <2>3, <2>4 DEF FreshCopy, SameRunner, Concluded
<1> QED
  BY <1>1, <1>2

\* A step of a runner on its commit.
LEMMA RunnerLives ==
    ASSUME RunInv, LifeInv, RunsApart, NEW p \in Runners, rpc[p] # "idle",
           NEW a \in Shas, a = job[p], OnlyCommit(a),
           \A q \in Runners \ {p} : SameRunner(q), CommitInv(a)', FreshCopy(p)'
    PROVE  LifeInv'
<1>1. \A b \in Shas : CommitInv(b)'
  BY OtherCommitsAgree DEF LifeInv
<1>2. ASSUME NEW q \in Runners PROVE FreshCopy(q)'
  <2>1. CASE q = p
    BY <2>1
  <2>2. CASE q # p
    <3>1. FreshCopy(q) /\ SameRunner(q) /\ (rpc[q] # "idle" => job[q] # a)
      BY <2>2 DEF LifeInv, RunsApart
    <3> QED
      BY <3>1, OtherCopiesStayFresh
  <2> QED
    BY <2>1, <2>2
<1> QED
  BY <1>1, <1>2 DEF LifeInv

\* A step that writes no row, evidence or check run is none of the life of an
\* analysis; the runner that takes it must see to its copy.
LEMMA QuietLives ==
    ASSUME RunInv, LifeInv, UNCHANGED <<rows, assessments, checks>>,
           \A q \in Runners : SameRunner(q) \/ FreshCopy(q)'
    PROVE  Lives
<1>1. UNCHANGED <<StageOf, DecisionOf, ShownOf>>
  BY DEF StageOf, DecisionOf, ShownOf, Stage, ShownIn, Concluded
<1>2. ASSUME NEW a \in Shas PROVE CommitInv(a)'
  <2>1. CommitInv(a)
    BY DEF LifeInv
  <2> QED
    BY <2>1 DEF CommitInv, RowAgrees, NoOtherEvidence, NoOtherConclusion, Concluded,
                Conclusion
<1>3. ASSUME NEW q \in Runners PROVE FreshCopy(q)'
  <2>1. FreshCopy(q)
    BY DEF LifeInv
  <2>2. CASE SameRunner(q)
    BY <2>1, <2>2 DEF SameRunner, FreshCopy, Concluded
  <2> QED
    BY <2>2
<1> QED
  BY <1>1, <1>2, <1>3 DEF Lives, LifeInv

\* _start_or_get is the request: no evidence and no conclusion precede it.
LEMMA CreateRowLives ==
    ASSUME RunInv, LifeInv, RunAssumption, NEW a \in Shas, CreateRow(a)
    PROVE  Lives
<1>1. TypeOK /\ CommitInv(a) /\ rows[a] = NoRow
  BY DEF RunInv, LifeInv, CreateRow, Exists
<1>2. /\ rows'[a] = NewRow
      /\ \A b \in Shas \ {a} : rows'[b] = rows[b]
      /\ assessments' = assessments /\ checks' = checks
  BY <1>1 DEF CreateRow, TypeOK
<1>3. OnlyCommit(a)
  BY <1>2 DEF OnlyCommit, AssessmentsKept
<1>4. /\ NoRow.status = None /\ NoRow.decision = None /\ NoRow.assessment = None
      /\ NewRow.status = "pending" /\ NewRow.decision = None /\ NewRow.assessment = None
      /\ None \notin Statuses /\ None \notin Decisions /\ None \notin Nat
  BY DEF NoRow, NewRow, RunAssumption
<1>5. \A i \in DOMAIN assessments : assessments[i].sha # a
  <2>1. DOMAIN assessments \subseteq Nat
    BY <1>1 DEF TypeOK
  <2> QED
    BY <1>1, <1>4, <2>1 DEF CommitInv, NoOtherEvidence
<1>6. \A i \in DOMAIN checks : ~Concluded(checks[i], a)
  BY <1>1, <1>4 DEF CommitInv, NoOtherConclusion
<1>7. CommitInv(a)'
  <2>1. RowAgrees(a)'
    BY <1>2, <1>4 DEF RowAgrees, Statuses
  <2>2. NoOtherEvidence(a)'
    BY <1>2, <1>5 DEF NoOtherEvidence
  <2>3. NoOtherConclusion(a)'
    BY <1>2, <1>6 DEF NoOtherConclusion, Concluded
  <2> QED
    BY <2>1, <2>2, <2>3 DEF CommitInv
<1>8. \A b \in Shas : CommitInv(b)'
  BY <1>3, <1>7, OtherCommitsAgree DEF LifeInv
<1>9. ASSUME NEW q \in Runners PROVE FreshCopy(q)'
  <2>1. SameRunner(q) /\ FreshCopy(q)
    BY DEF CreateRow, SameRunner, LifeInv
  <2>2. CASE rpc[q] \in Working
    <3>1. job[q] # a
      BY <1>1, <1>4, <2>1, <2>2 DEF FreshCopy, Working, Statuses
    <3> QED
      BY <1>3, <2>1, <3>1, OtherCopiesStayFresh
  <2>3. CASE rpc[q] \notin Working
    BY <2>1, <2>3 DEF FreshCopy, SameRunner, Working, Assessing, Publishing
  <2> QED
    BY <2>2, <2>3
<1>10. Life!Request(a)
  <2>1. /\ StageOf' = [StageOf EXCEPT ![a] = Stage(rows'[a].status)]
        /\ DecisionOf' = [DecisionOf EXCEPT ![a] = rows'[a].decision]
        /\ ShownOf' = [ShownOf EXCEPT ![a] = ShownIn(checks', a)]
    BY <1>3, OthersLiveOn
  <2>2. Stage(rows'[a].status) = "open" /\ StageOf[a] = "none"
    BY <1>1, <1>2, <1>4 DEF Stage, StageOf, Statuses
  <2>3. DecisionOf' = DecisionOf
    BY <1>1, <1>2, <1>4, <2>1 DEF DecisionOf
  <2>4. ShownOf' = ShownOf
    BY <1>2, <2>1 DEF ShownOf
  <2> QED
    BY <2>1, <2>2, <2>3, <2>4 DEF Life!Request, Life!Moves
<1> QED
  BY <1>8, <1>9, <1>10 DEF Lives, LifeInv, Life!Next

\* A fresh copy is flushed: the row is what the runner wants it to be.
LEMMA FreshFlush ==
    ASSUME RunInv, NEW p \in Runners, rpc[p] \in Working, FreshCopy(p),
           NEW new \in Rows, Flush(p, new)
    PROVE  /\ job[p] \in Shas
           /\ rows'[job[p]] = new
           /\ \A b \in Shas \ {job[p]} : rows'[b] = rows[b]
           /\ local'[p] = new
           /\ \A q \in Runners \ {p} : local'[q] = local[q]
<1>1. TypeOK /\ job[p] \in Shas /\ local[p] = rows[job[p]]
  BY DEF RunInv, RunnerSound, Prepared, FreshCopy, Working, Assessing, Publishing
<1>2. /\ \A b \in Shas \ {job[p]} : rows'[b] = rows[b]
      /\ local'[p] = new
      /\ \A q \in Runners \ {p} : local'[q] = local[q]
  BY <1>1, FlushWrites
<1>3. rows' = [rows EXCEPT ![job[p]] =
                  [c \in DOMAIN new |->
                      IF new[c] # local[p][c] THEN new[c] ELSE rows[job[p]][c]]]
  BY DEF Flush
<1>4. rows'[job[p]] = [c \in DOMAIN new |->
                          IF new[c] # local[p][c] THEN new[c] ELSE rows[job[p]][c]]
  BY <1>1, <1>3 DEF TypeOK
<1>5. rows'[job[p]] = [c \in DOMAIN new |-> new[c]]
  BY <1>1, <1>4
<1>6. new = [c \in DOMAIN new |-> new[c]]
  BY DEF Rows
<1> QED
  BY <1>1, <1>2, <1>5, <1>6

\* A flush of the status or of the check run moves at most the stage.
LEMMA SaveLives ==
    ASSUME RunInv, LifeInv, RunsApart, NEW p \in Runners, rpc[p] \in Working,
           NEW new \in Rows, Flush(p, new), NEW label \in Labels, Goto(p, label),
           UNCHANGED <<assessments, checks, job, verdict, posted>>,
           new.decision = local[p].decision, new.assessment = local[p].assessment,
           new.status \in Statuses, None \notin Statuses,
           new.status \in {"completed", "publish_failed"} <=>
               local[p].status \in {"completed", "publish_failed"},
           \/ label \in {"announce", "pipeline"} /\ new.status = "in_progress"
           \/ label \in Finished
    PROVE  /\ LifeInv'
           /\ job[p] \in Shas
           /\ StageOf[job[p]] = Stage(local[p].status)
           /\ StageOf' = [StageOf EXCEPT ![job[p]] = Stage(new.status)]
           /\ UNCHANGED <<DecisionOf, ShownOf>>
<1>1. TypeOK /\ FreshCopy(p)
  BY DEF RunInv, LifeInv
<1>2. /\ job[p] \in Shas
      /\ rows'[job[p]] = new
      /\ \A b \in Shas \ {job[p]} : rows'[b] = rows[b]
      /\ local'[p] = new
      /\ \A q \in Runners \ {p} : local'[q] = local[q]
  BY <1>1, FreshFlush
<1>3. PICK a \in Shas : a = job[p]
  BY <1>2
<1>4. CommitInv(a) /\ local[p] = rows[a]
  BY <1>1, <1>3 DEF LifeInv, FreshCopy
<1>5. OnlyCommit(a)
  BY <1>2, <1>3 DEF OnlyCommit, AssessmentsKept
<1>6. rpc'[p] = label /\ \A q \in Runners \ {p} : SameRunner(q)
  BY <1>1, <1>2, GotoMoves DEF SameRunner
<1>7. CommitInv(a)'
  <2>1. RowAgrees(a)'
    BY <1>2, <1>3, <1>4 DEF CommitInv, RowAgrees
  <2>2. NoOtherEvidence(a)'
    BY <1>2, <1>3, <1>4 DEF CommitInv, NoOtherEvidence
  <2>3. NoOtherConclusion(a)'
    BY <1>2, <1>3, <1>4 DEF CommitInv, NoOtherConclusion, Concluded, Conclusion
  <2> QED
    BY <2>1, <2>2, <2>3 DEF CommitInv
<1>8. FreshCopy(p)'
  BY <1>2, <1>6 DEF FreshCopy, Working, Assessing, Publishing, Finished
<1>9. rpc[p] # "idle"
  BY DEF Working, Assessing, Publishing
<1>10. LifeInv'
  BY <1>3, <1>5, <1>6, <1>7, <1>8, <1>9, RunnerLives
<1>11. /\ StageOf' = [StageOf EXCEPT ![a] = Stage(rows'[a].status)]
       /\ DecisionOf' = [DecisionOf EXCEPT ![a] = rows'[a].decision]
       /\ ShownOf' = [ShownOf EXCEPT ![a] = ShownIn(checks', a)]
  BY <1>5, OthersLiveOn
<1>12. DecisionOf' = DecisionOf
  BY <1>2, <1>3, <1>4, <1>11 DEF DecisionOf
<1>13. ShownOf' = ShownOf
  BY <1>11 DEF ShownOf
<1>14. StageOf[a] = Stage(local[p].status)
  BY <1>4 DEF StageOf
<1> QED
  BY <1>2, <1>3, <1>10, <1>11, <1>12, <1>13, <1>14

\* MarkInProgress and SaveCheckRun: the analysis stays open.
LEMMA OpenSavesLive ==
    ASSUME RunInv, LifeInv, RunsApart, RunAssumption, NEW p \in Runners,
           MarkInProgress(p) \/ SaveCheckRun(p)
    PROVE  Lives
<1>1. TypeOK /\ FreshCopy(p) /\ rpc[p] \in {"mark", "save_check"}
  BY DEF RunInv, LifeInv, MarkInProgress, SaveCheckRun
<1>2. /\ rpc[p] \in Working /\ local[p] \in Rows
      /\ local[p].status \in {"pending", "in_progress"}
      /\ rpc[p] = "save_check" => local[p].status = "in_progress"
  BY <1>1 DEF FreshCopy, Working, Assessing, TypeOK
<1>3. posted[p] \in Nat \cup {None} /\ None \notin Statuses
  BY <1>1 DEF TypeOK, RunAssumption
<1>4. \E new \in Rows, label \in {"announce", "pipeline"} :
          /\ Flush(p, new) /\ Goto(p, label)
          /\ UNCHANGED <<assessments, checks, job, verdict, posted>>
          /\ new.decision = local[p].decision /\ new.assessment = local[p].assessment
          /\ new.status = "in_progress"
  <2>1. CASE MarkInProgress(p)
    <3> DEFINE new == [local[p] EXCEPT !.status = "in_progress"]
    <3>1. /\ new \in Rows /\ new.status = "in_progress"
          /\ new.decision = local[p].decision /\ new.assessment = local[p].assessment
      BY <1>2 DEF Rows, Statuses
    <3>2. /\ Flush(p, new) /\ Goto(p, "announce")
          /\ UNCHANGED <<assessments, checks, job, verdict, posted>>
      BY <2>1 DEF MarkInProgress
    <3> HIDE DEF new
    <3> QED
      BY <3>1, <3>2
  <2>2. CASE SaveCheckRun(p)
    <3> DEFINE new == [local[p] EXCEPT !.check = posted[p]]
    <3>1. /\ new \in Rows /\ new.status = local[p].status
          /\ new.decision = local[p].decision /\ new.assessment = local[p].assessment
      BY <1>2, <1>3 DEF Rows
    <3>2. /\ Flush(p, new) /\ Goto(p, "pipeline") /\ local[p].status = "in_progress"
          /\ UNCHANGED <<assessments, checks, job, verdict, posted>>
      BY <1>2, <2>2 DEF SaveCheckRun
    <3> HIDE DEF new
    <3> QED
      BY <3>1, <3>2
  <2> QED
    BY <2>1, <2>2
<1>5. PICK new \in Rows, label \in {"announce", "pipeline"} :
          /\ Flush(p, new) /\ Goto(p, label)
          /\ UNCHANGED <<assessments, checks, job, verdict, posted>>
          /\ new.decision = local[p].decision /\ new.assessment = local[p].assessment
          /\ new.status = "in_progress"
  BY <1>4
<1>6. /\ new.status \in Statuses /\ label \in Labels
      /\ new.status \notin {"completed", "publish_failed"}
      /\ local[p].status \notin {"completed", "publish_failed"}
  BY <1>2, <1>5 DEF Statuses, Labels
<1>7. /\ LifeInv'
      /\ job[p] \in Shas
      /\ StageOf[job[p]] = Stage(local[p].status)
      /\ StageOf' = [StageOf EXCEPT ![job[p]] = Stage(new.status)]
      /\ UNCHANGED <<DecisionOf, ShownOf>>
  BY <1>2, <1>3, <1>5, <1>6, SaveLives
<1>8. Stage(new.status) = "open" /\ Stage(local[p].status) = "open"
  BY <1>2, <1>3, <1>5 DEF Stage, Statuses
<1>9. StageOf' = StageOf
  BY <1>7, <1>8 DEF StageOf
<1> QED
  BY <1>7, <1>9 DEF Lives

\* SaveFailed: the analysis fails for good.
LEMMA SaveFailedLives ==
    ASSUME RunInv, LifeInv, RunsApart, RunAssumption, NEW p \in Runners, SaveFailed(p)
    PROVE  Lives
<1> DEFINE new == [local[p] EXCEPT !.status = "failed"]
<1>1. TypeOK /\ FreshCopy(p) /\ rpc[p] \in {"fail_config", "fail_error"}
  BY DEF RunInv, LifeInv, SaveFailed
<1>2. rpc[p] \in Working /\ local[p] \in Rows /\ local[p].status = "in_progress"
  BY <1>1 DEF FreshCopy, Working, Assessing, TypeOK
<1>3. /\ new \in Rows /\ new.status = "failed"
      /\ new.decision = local[p].decision /\ new.assessment = local[p].assessment
      /\ new.status \in Statuses /\ None \notin Statuses
  BY <1>2 DEF Rows, Statuses, RunAssumption
<1>4. /\ Flush(p, new)
      /\ UNCHANGED <<assessments, checks, job, verdict, posted>>
      /\ \E label \in Finished : Goto(p, label)
  BY DEF SaveFailed, Finished
<1> HIDE DEF new
<1>5. PICK label \in Finished : Goto(p, label)
  BY <1>4
<1>6. label \in Labels
  BY DEF Labels
<1>7. /\ LifeInv'
      /\ job[p] \in Shas
      /\ StageOf[job[p]] = Stage(local[p].status)
      /\ StageOf' = [StageOf EXCEPT ![job[p]] = Stage(new.status)]
      /\ UNCHANGED <<DecisionOf, ShownOf>>
  BY <1>2, <1>3, <1>4, <1>5, <1>6, SaveLives
<1>8. Stage(new.status) = "failed" /\ Stage(local[p].status) = "open"
  BY <1>2, <1>3 DEF Stage, Statuses
<1>9. Life!Fail(job[p])
  BY <1>7, <1>8 DEF Life!Fail, Life!Moves
<1> QED
  BY <1>7, <1>9 DEF Lives, Life!Next

\* SavePublished: GitHub shows the decision by then.
LEMMA SavePublishedLives ==
    ASSUME RunInv, LifeInv, RunsApart, RunAssumption, NEW p \in Runners, SavePublished(p)
    PROVE  Lives
<1> DEFINE new == [local[p] EXCEPT !.status = "completed", !.check = posted[p]]
<1>1. TypeOK /\ FreshCopy(p) /\ rpc[p] = "save_published"
  BY DEF RunInv, LifeInv, SavePublished
<1>2. /\ rpc[p] \in Working /\ local[p] \in Rows
      /\ local[p].status \in {"completed", "publish_failed"}
      /\ local[p] = rows[job[p]] /\ posted[p] \in Nat \cup {None}
  BY <1>1 DEF FreshCopy, Working, Publishing, TypeOK
<1>3. /\ new \in Rows /\ new.status = "completed"
      /\ new.decision = local[p].decision /\ new.assessment = local[p].assessment
      /\ new.status \in Statuses /\ None \notin Statuses
  BY <1>2 DEF Rows, Statuses, RunAssumption
<1>4. /\ Flush(p, new) /\ Goto(p, "returned")
      /\ UNCHANGED <<assessments, checks, job, verdict, posted>>
  BY DEF SavePublished
<1> HIDE DEF new
<1>5. "returned" \in Labels /\ "returned" \in Finished
  BY DEF Labels, Finished
<1>6. /\ LifeInv'
      /\ job[p] \in Shas
      /\ StageOf[job[p]] = Stage(local[p].status)
      /\ StageOf' = [StageOf EXCEPT ![job[p]] = Stage(new.status)]
      /\ UNCHANGED <<DecisionOf, ShownOf>>
  BY <1>2, <1>3, <1>4, <1>5, SaveLives
<1>7. Stage(new.status) = "decided"
  BY <1>3 DEF Stage, Statuses
<1>8. CASE local[p].status = "completed"
  <2>1. StageOf' = StageOf
    BY <1>3, <1>6, <1>8 DEF StageOf
  <2> QED
    BY <1>6, <2>1 DEF Lives
<1>9. CASE local[p].status = "publish_failed"
  <2>1. StageOf[job[p]] = "unpublished"
    BY <1>3, <1>6, <1>9 DEF Stage, Statuses
  <2>2. \E i \in DOMAIN checks : Concluded(checks[i], job[p])
    BY <1>1 DEF FreshCopy
  <2>3. ShownIn(checks, job[p]) = {rows[job[p]].decision}
    <3>1. \A i \in DOMAIN checks : Concluded(checks[i], job[p]) =>
              /\ rows[job[p]].decision \in Decisions
              /\ checks[i].conclusion = Conclusion(rows[job[p]].decision)
      BY <1>6 DEF LifeInv, CommitInv, NoOtherConclusion
    <3> QED
      BY <2>2, <3>1, ShownIs
  <2>4. DecisionOf[job[p]] \in ShownOf[job[p]]
    BY <1>6, <2>3 DEF DecisionOf, ShownOf
  <2>5. Life!PublicationSucceeds(job[p])
    BY <1>6, <1>7, <2>1, <2>4 DEF Life!PublicationSucceeds, Life!Moves
  <2> QED
    BY <1>6, <2>5 DEF Lives, Life!Next
<1> QED
  BY <1>2, <1>8, <1>9

\* SaveUnpublished: the decision stands, whatever GitHub shows.
LEMMA SaveUnpublishedLives ==
    ASSUME RunInv, LifeInv, RunsApart, RunAssumption, NEW p \in Runners, SaveUnpublished(p)
    PROVE  Lives
<1> DEFINE new == [local[p] EXCEPT !.status = "publish_failed"]
<1>1. TypeOK /\ FreshCopy(p) /\ rpc[p] = "save_unpublished"
  BY DEF RunInv, LifeInv, SaveUnpublished
<1>2. /\ rpc[p] \in Working /\ local[p] \in Rows
      /\ local[p].status \in {"completed", "publish_failed"}
  BY <1>1 DEF FreshCopy, Working, Publishing, TypeOK
<1>3. /\ new \in Rows /\ new.status = "publish_failed"
      /\ new.decision = local[p].decision /\ new.assessment = local[p].assessment
      /\ new.status \in Statuses /\ None \notin Statuses
  BY <1>2 DEF Rows, Statuses, RunAssumption
<1>4. /\ Flush(p, new) /\ Goto(p, "returned")
      /\ UNCHANGED <<assessments, checks, job, verdict, posted>>
  BY DEF SaveUnpublished
<1> HIDE DEF new
<1>5. "returned" \in Labels /\ "returned" \in Finished
  BY DEF Labels, Finished
<1>6. /\ LifeInv'
      /\ job[p] \in Shas
      /\ StageOf[job[p]] = Stage(local[p].status)
      /\ StageOf' = [StageOf EXCEPT ![job[p]] = Stage(new.status)]
      /\ UNCHANGED <<DecisionOf, ShownOf>>
  BY <1>2, <1>3, <1>4, <1>5, SaveLives
<1>7. CASE local[p].status = "publish_failed"
  <2>1. StageOf' = StageOf
    BY <1>3, <1>6, <1>7 DEF StageOf
  <2> QED
    BY <1>6, <2>1 DEF Lives
<1>8. CASE local[p].status = "completed"
  <2>1. StageOf[job[p]] = "decided" /\ Stage(new.status) = "unpublished"
    BY <1>3, <1>6, <1>8 DEF Stage, Statuses
  <2>2. Life!PublicationFails(job[p])
    BY <1>6, <2>1 DEF Life!PublicationFails, Life!Moves
  <2> QED
    BY <1>6, <2>2 DEF Lives, Life!Next
<1> QED
  BY <1>2, <1>7, <1>8

\* The commit of the evidence is the decision.
LEMMA CompleteLives ==
    ASSUME RunInv, LifeInv, RunsApart, RunAssumption, NEW p \in Runners, Complete(p)
    PROVE  Lives
<1> DEFINE new == CompletedRow(p)
           record == [sha |-> job[p], decision |-> verdict[p]]
           n == Len(assessments) + 1
<1>1. TypeOK /\ FreshCopy(p) /\ rpc[p] = "complete" /\ RunnerSound(p)
  BY DEF RunInv, LifeInv, Complete
<1>2. /\ rpc[p] \in Working /\ rpc[p] # "idle" /\ local[p] \in Rows
      /\ rows[job[p]].status = "in_progress"
      /\ local[p] = rows[job[p]] /\ verdict[p] \in Decisions
  BY <1>1 DEF FreshCopy, Working, Assessing, TypeOK, RunnerSound, Prepared
<1>3. Len(assessments) \in Nat /\ n \in Nat /\ n # None
  BY <1>1 DEF TypeOK, RunAssumption
<1>4. /\ new \in Rows /\ new.status = "completed"
      /\ new.decision = verdict[p] /\ new.assessment = n
  BY <1>2, <1>3 DEF CompletedRow, Rows, Statuses
<1>5. /\ DOMAIN assessments = 1 .. Len(assessments)
      /\ DOMAIN assessments' = 1 .. n
      /\ assessments'[n].sha = job[p] /\ assessments'[n].decision = verdict[p]
      /\ \A i \in DOMAIN assessments : assessments'[i] = assessments[i]
  <2>1. record.sha = job[p] /\ record.decision = verdict[p]
    OBVIOUS
  <2>2. assessments' = Append(assessments, record)
    BY DEF Complete
  <2> HIDE DEF record
  <2> QED
    BY <1>1, <2>1, <2>2 DEF TypeOK
<1>6. /\ Flush(p, new) /\ Goto(p, "publish") /\ verdict' = [verdict EXCEPT ![p] = None]
      /\ UNCHANGED <<checks, job, posted>>
  BY DEF Complete
<1> HIDE DEF new, n
<1>7. /\ job[p] \in Shas
      /\ rows'[job[p]] = new
      /\ \A b \in Shas \ {job[p]} : rows'[b] = rows[b]
      /\ local'[p] = new
      /\ \A q \in Runners \ {p} : local'[q] = local[q]
  BY <1>1, <1>2, <1>4, <1>6, FreshFlush
<1>8. PICK a \in Shas : a = job[p]
  BY <1>7
<1>9. AssessmentsKept /\ \A i \in DOMAIN assessments' : i \in DOMAIN assessments \/ i = n
  BY <1>3, <1>5 DEF AssessmentsKept, n
<1>10. OnlyCommit(a)
  BY <1>5, <1>6, <1>7, <1>8, <1>9 DEF OnlyCommit
<1>11. CommitInv(a) /\ rows[a].decision = None /\ rows[a].assessment = None
  BY <1>2, <1>8 DEF LifeInv, CommitInv, RowAgrees
<1>12. \A i \in DOMAIN assessments : assessments[i].sha # a
  <2>1. \A i \in DOMAIN assessments : i \in Nat
    BY <1>5
  <2> QED
    BY <1>11, <2>1 DEF CommitInv, NoOtherEvidence, RunAssumption
<1>13. \A i \in DOMAIN checks : ~Concluded(checks[i], a)
  BY <1>11 DEF CommitInv, NoOtherConclusion, RunAssumption
<1>14. CommitInv(a)'
  <2>1. RowAgrees(a)'
    BY <1>2, <1>4, <1>5, <1>7, <1>8 DEF RowAgrees, RunAssumption, Statuses
  <2>2. NoOtherEvidence(a)'
    BY <1>4, <1>5, <1>7, <1>8, <1>9, <1>12 DEF NoOtherEvidence
  <2>3. NoOtherConclusion(a)'
    BY <1>6, <1>13 DEF NoOtherConclusion, Concluded
  <2> QED
    BY <2>1, <2>2, <2>3 DEF CommitInv
<1>15. rpc'[p] = "publish" /\ \A q \in Runners \ {p} : rpc'[q] = rpc[q]
  BY <1>1, <1>6, GotoMoves DEF Labels
<1>16. \A q \in Runners \ {p} : SameRunner(q)
  BY <1>1, <1>6, <1>7, <1>15 DEF SameRunner, TypeOK
<1>17. FreshCopy(p)'
  BY <1>4, <1>6, <1>7, <1>15 DEF FreshCopy, Working, Assessing, Publishing
<1>18. LifeInv'
  BY <1>2, <1>8, <1>10, <1>14, <1>16, <1>17, RunnerLives
<1>19. /\ StageOf' = [StageOf EXCEPT ![a] = Stage(rows'[a].status)]
       /\ DecisionOf' = [DecisionOf EXCEPT ![a] = rows'[a].decision]
       /\ ShownOf' = [ShownOf EXCEPT ![a] = ShownIn(checks', a)]
  BY <1>10, OthersLiveOn
<1>20. ShownOf' = ShownOf
  BY <1>6, <1>19 DEF ShownOf
<1>21. None \notin Statuses
  BY DEF RunAssumption
<1>22. Stage(rows'[a].status) = "decided" /\ StageOf[a] = "open"
  BY <1>2, <1>4, <1>7, <1>8, <1>21 DEF Stage, StageOf, Statuses
<1>23. DecisionOf' = [DecisionOf EXCEPT ![a] = verdict[p]]
  BY <1>4, <1>7, <1>8, <1>19
<1>24. Life!Decide(a)
  BY <1>2, <1>19, <1>20, <1>22, <1>23 DEF Life!Decide, Life!Moves
<1> QED
  BY <1>18, <1>24 DEF Lives, Life!Next

\* A request to GitHub reaches check runs of the runner's commit only.
LEMMA CallsOneCommit ==
    ASSUME NEW a \in Shas, NEW check, check.sha = a, ChecksAccept(check),
           UNCHANGED <<rows, assessments>>
    PROVE  OnlyCommit(a)
  BY DEF OnlyCommit, ChecksAccept, AssessmentsKept

\* _publish_in_progress concludes nothing.
LEMMA AnnounceLives ==
    ASSUME RunInv, LifeInv, RunsApart, RunAssumption, NEW p \in Runners, Announce(p)
    PROVE  Lives
<1> DEFINE check == CheckRun(job[p], "in_progress", None)
<1>1. TypeOK /\ FreshCopy(p) /\ rpc[p] = "announce" /\ RunnerSound(p)
  BY DEF RunInv, LifeInv, Announce
<1>2. /\ rpc[p] # "idle" /\ rows[job[p]].status = "in_progress"
      /\ local[p] = rows[job[p]] /\ job[p] \in Shas
  BY <1>1 DEF FreshCopy, Working, Assessing, RunnerSound, Prepared
<1>3. check \in CheckRuns /\ check.sha = job[p] /\ check.status = "in_progress"
  BY <1>2 DEF CheckRun, CheckRuns
<1>4. \/ CreateCheckRun(p, check) /\ Goto(p, "save_check")
      \/ CreateCheckRunFails(p, check) /\ Goto(p, "pipeline")
  BY DEF Announce
<1>5. UNCHANGED <<rows, assessments, job, local, verdict>>
  BY DEF Announce
<1> HIDE DEF check
<1>6. ChecksAccept(check) /\ \A q \in Runners \ {p} : posted'[q] = posted[q]
  BY <1>1, <1>3, <1>4, CreateAccepts, CreateFailsAccepts
<1>7. PICK label \in {"save_check", "pipeline"} : Goto(p, label)
  BY <1>4
<1>8. rpc'[p] = label /\ \A q \in Runners \ {p} : rpc'[q] = rpc[q]
  BY <1>1, <1>7, GotoMoves DEF Labels
<1>9. \A q \in Runners \ {p} : SameRunner(q)
  BY <1>5, <1>6, <1>8 DEF SameRunner
<1>10. PICK a \in Shas : a = job[p]
  BY <1>2
<1>11. OnlyCommit(a)
  BY <1>3, <1>5, <1>6, <1>10, CallsOneCommit
<1>12. CommitInv(a) /\ rows[a].decision = None
  BY <1>2, <1>10 DEF LifeInv, CommitInv, RowAgrees
<1>13. \A i \in DOMAIN checks : ~Concluded(checks[i], a)
  BY <1>12 DEF CommitInv, NoOtherConclusion, RunAssumption
<1>14. \A i \in DOMAIN checks' : ~Concluded(checks'[i], a)
  BY <1>3, <1>6, <1>13 DEF ChecksAccept, Concluded
<1>15. CommitInv(a)'
  <2>1. RowAgrees(a)'
    BY <1>5, <1>12 DEF CommitInv, RowAgrees
  <2>2. NoOtherEvidence(a)'
    BY <1>5, <1>12 DEF CommitInv, NoOtherEvidence
  <2>3. NoOtherConclusion(a)'
    BY <1>14 DEF NoOtherConclusion, Concluded
  <2> QED
    BY <2>1, <2>2, <2>3 DEF CommitInv
<1>16. FreshCopy(p)'
  BY <1>2, <1>5, <1>8 DEF FreshCopy, Working, Assessing, Publishing
<1>17. LifeInv'
  BY <1>2, <1>9, <1>10, <1>11, <1>15, <1>16, RunnerLives
<1>18. /\ StageOf' = [StageOf EXCEPT ![a] = Stage(rows'[a].status)]
       /\ DecisionOf' = [DecisionOf EXCEPT ![a] = rows'[a].decision]
       /\ ShownOf' = [ShownOf EXCEPT ![a] = ShownIn(checks', a)]
  BY <1>11, OthersLiveOn
<1>19. ShownIn(checks', a) = ShownIn(checks, a)
  BY <1>13, <1>14 DEF ShownIn
<1>20. StageOf' = StageOf /\ DecisionOf' = DecisionOf
  BY <1>5, <1>18 DEF StageOf, DecisionOf
<1>21. ShownOf' = ShownOf
  BY <1>18, <1>19 DEF ShownOf
<1> QED
  BY <1>17, <1>20, <1>21 DEF Lives

\* What _publish_result leaves on GitHub.
LEMMA PublishCalls ==
    ASSUME TypeOK, RunAssumption, NEW p \in Runners, NEW check \in CheckRuns,
           local[p].check # None => CheckOf(local[p].check, check.sha),
           \/ /\ IF local[p].check # None THEN UpdateCheckRun(p, check)
                                          ELSE CreateCheckRun(p, check)
              /\ Goto(p, "save_published")
           \/ /\ IF local[p].check # None THEN UpdateCheckRunFails(p, check)
                                          ELSE CreateCheckRunFails(p, check)
              /\ Goto(p, "save_unpublished")
    PROVE  /\ ChecksAccept(check)
           /\ \A q \in Runners \ {p} : posted'[q] = posted[q]
           /\ \/ Goto(p, "save_published") /\ \E i \in DOMAIN checks' : checks'[i] = check
              \/ Goto(p, "save_unpublished")
<1>1. CASE CreateCheckRun(p, check) /\ Goto(p, "save_published")
  BY <1>1, CreateAccepts
<1>2. CASE CreateCheckRunFails(p, check) /\ Goto(p, "save_unpublished")
  BY <1>2, CreateFailsAccepts
<1>3. CASE local[p].check # None /\ UpdateCheckRun(p, check) /\ Goto(p, "save_published")
  <2>1. /\ ChecksAccept(check) /\ DOMAIN checks' = DOMAIN checks
        /\ checks'[local[p].check] = check
    BY <1>3, UpdateAccepts DEF UpdateCheckRun
  <2>2. local[p].check \in DOMAIN checks'
    BY <1>3, <2>1 DEF CheckOf
  <2>3. \A q \in Runners \ {p} : posted'[q] = posted[q]
    BY <1>3 DEF UpdateCheckRun, TypeOK
  <2> QED
    BY <1>3, <2>1, <2>2, <2>3
<1>4. CASE local[p].check # None /\ UpdateCheckRunFails(p, check) /\ Goto(p, "save_unpublished")
  <2>1. CASE checks' = checks
    BY <1>4, <2>1 DEF ChecksAccept, TypeOK, UpdateCheckRunFails
  <2>2. CASE checks' = [checks EXCEPT ![local[p].check] =
                           [check EXCEPT !.sha = checks[local[p].check].sha]]
    BY <1>4, <2>2, UpdateAccepts DEF UpdateCheckRunFails
  <2> QED
    BY <1>4, <2>1, <2>2 DEF UpdateCheckRunFails
<1> QED
  BY <1>1, <1>2, <1>3, <1>4

\* _publish_result shows the decision of the row, or nothing.
LEMMA PublishLives ==
    ASSUME RunInv, LifeInv, RunsApart, RunAssumption, NEW p \in Runners, Publish(p)
    PROVE  Lives
<1> DEFINE evidence == assessments[local[p].assessment]
           check == CheckRun(job[p], "completed", Conclusion(evidence.decision))
<1>1. TypeOK /\ FreshCopy(p) /\ rpc[p] = "publish" /\ RunnerSound(p)
  BY DEF RunInv, LifeInv, Publish
<1>2. /\ rpc[p] # "idle" /\ rows[job[p]].status \in {"completed", "publish_failed"}
      /\ local[p] = rows[job[p]] /\ job[p] \in Shas
  BY <1>1 DEF FreshCopy, Working, Publishing, RunnerSound, Prepared
<1>3. PICK a \in Shas : a = job[p]
  BY <1>2
<1> DEFINE d == rows[a].decision
<1>4. CommitInv(a) /\ d \in Decisions /\ evidence.decision = d
  BY <1>2, <1>3 DEF LifeInv, CommitInv, RowAgrees
<1>5. /\ check \in CheckRuns /\ check.sha = a /\ check.status = "completed"
      /\ check.conclusion = Conclusion(d)
  <2>1. Conclusion(d) \in {"success", "neutral", "failure"}
    BY <1>4 DEF Conclusion, Decisions
  <2> QED
    BY <1>3, <1>4, <2>1 DEF CheckRun, CheckRuns
<1>6. UNCHANGED <<rows, assessments, job, local, verdict>>
  BY DEF Publish
<1>7. \/ /\ IF local[p].check # None THEN UpdateCheckRun(p, check)
                                     ELSE CreateCheckRun(p, check)
         /\ Goto(p, "save_published")
      \/ /\ IF local[p].check # None THEN UpdateCheckRunFails(p, check)
                                     ELSE CreateCheckRunFails(p, check)
         /\ Goto(p, "save_unpublished")
  BY DEF Publish
<1> HIDE DEF check, evidence
<1>8. local[p].check # None => CheckOf(local[p].check, check.sha)
  BY <1>1, <1>3, <1>5 DEF RunnerSound, CopySound
<1>9. /\ ChecksAccept(check)
      /\ \A q \in Runners \ {p} : posted'[q] = posted[q]
      /\ \/ Goto(p, "save_published") /\ \E i \in DOMAIN checks' : checks'[i] = check
         \/ Goto(p, "save_unpublished")
  BY <1>1, <1>5, <1>7, <1>8, PublishCalls
<1>10. PICK label \in {"save_published", "save_unpublished"} :
           /\ Goto(p, label)
           /\ label = "save_published" => \E i \in DOMAIN checks' : checks'[i] = check
  BY <1>9
<1>11. rpc'[p] = label /\ \A q \in Runners \ {p} : rpc'[q] = rpc[q]
  BY <1>1, <1>10, GotoMoves DEF Labels
<1>12. \A q \in Runners \ {p} : SameRunner(q)
  BY <1>6, <1>9, <1>11 DEF SameRunner
<1>13. OnlyCommit(a)
  BY <1>5, <1>6, <1>9, CallsOneCommit
<1>14. \A i \in DOMAIN checks : Concluded(checks[i], a) =>
           d \in Decisions /\ checks[i].conclusion = Conclusion(d)
  BY <1>4 DEF CommitInv, NoOtherConclusion
<1>15. \A i \in DOMAIN checks' : Concluded(checks'[i], a) =>
           d \in Decisions /\ checks'[i].conclusion = Conclusion(d)
  BY <1>4, <1>5, <1>9, <1>14 DEF ChecksAccept
<1>16. CommitInv(a)'
  <2>1. RowAgrees(a)'
    BY <1>4, <1>6 DEF CommitInv, RowAgrees
  <2>2. NoOtherEvidence(a)'
    BY <1>4, <1>6 DEF CommitInv, NoOtherEvidence
  <2>3. NoOtherConclusion(a)'
    BY <1>6, <1>15 DEF NoOtherConclusion, Concluded, Conclusion
  <2> QED
    BY <2>1, <2>2, <2>3 DEF CommitInv
<1>17. label = "save_published" => \E i \in DOMAIN checks' : Concluded(checks'[i], a)
  BY <1>5, <1>10 DEF Concluded
<1>18. FreshCopy(p)'
  BY <1>2, <1>3, <1>6, <1>11, <1>17 DEF FreshCopy, Working, Assessing, Publishing, Concluded
<1>19. LifeInv'
  BY <1>2, <1>3, <1>12, <1>13, <1>16, <1>18, RunnerLives
<1>20. /\ StageOf' = [StageOf EXCEPT ![a] = Stage(rows'[a].status)]
       /\ DecisionOf' = [DecisionOf EXCEPT ![a] = rows'[a].decision]
       /\ ShownOf' = [ShownOf EXCEPT ![a] = ShownIn(checks', a)]
  BY <1>13, OthersLiveOn
<1>21. StageOf' = StageOf /\ DecisionOf' = DecisionOf
  BY <1>6, <1>20 DEF StageOf, DecisionOf
<1>22. /\ ShownIn(checks, a) = IF \E i \in DOMAIN checks : Concluded(checks[i], a)
                               THEN {d} ELSE {}
       /\ ShownIn(checks', a) = IF \E i \in DOMAIN checks' : Concluded(checks'[i], a)
                                THEN {d} ELSE {}
  BY <1>14, <1>15, ShownIs
<1>23. DecisionOf[a] = d /\ ShownOf[a] = ShownIn(checks, a)
  BY DEF DecisionOf, ShownOf
<1>24. CASE \E i \in DOMAIN checks' : Concluded(checks'[i], a)
  <2>1. ShownIn(checks', a) = ShownOf[a] \cup {DecisionOf[a]}
    BY <1>22, <1>23, <1>24
  <2>2. ShownOf' = [ShownOf EXCEPT ![a] = ShownOf[a] \cup {DecisionOf[a]}]
    BY <1>20, <2>1
  <2>3. StageOf[a] \in {"decided", "unpublished"}
    <3>1. None \notin Statuses
      BY DEF RunAssumption
    <3> QED
      BY <1>2, <1>3, <3>1 DEF StageOf, Stage, Statuses
  <2>4. Life!Show(a)
    BY <1>21, <2>2, <2>3 DEF Life!Show
  <2> QED
    BY <1>19, <2>4 DEF Lives, Life!Next
<1>25. CASE ~ \E i \in DOMAIN checks' : Concluded(checks'[i], a)
  <2>1. ~ \E i \in DOMAIN checks : Concluded(checks[i], a)
    BY <1>5, <1>9, <1>25 DEF ChecksAccept, Concluded
  <2>2. ShownIn(checks', a) = ShownIn(checks, a)
    BY <1>22, <1>25, <2>1
  <2>3. ShownOf' = ShownOf
    BY <1>20, <1>23, <2>2 DEF ShownOf
  <2> QED
    BY <1>19, <1>21, <2>3 DEF Lives
<1> QED
  BY <1>24, <1>25

\* Load takes a fresh copy.
LEMMA LoadLives ==
    ASSUME RunInv, LifeInv, RunAssumption, NEW p \in Runners, Load(p)
    PROVE  Lives
<1> DEFINE row == rows[job[p]]
<1>1. TypeOK /\ RunnerSound(p) /\ rpc[p] = "load"
  BY DEF RunInv, Load
<1>2. job[p] \in Shas /\ row \in Rows
  BY <1>1 DEF RunnerSound, Prepared, TypeOK
<1>3. RowSound(job[p]) /\ RowAgrees(job[p])
  BY <1>2 DEF RunInv, LifeInv, CommitInv
<1>4. UNCHANGED <<rows, assessments, checks, job, verdict, posted>>
  BY DEF Load
<1>5. /\ local'[p] = row
      /\ \A q \in Runners \ {p} : local'[q] = local[q]
  BY <1>1 DEF Load, TypeOK
<1>6. \/ \E label \in {"rejected", "returned"} : Goto(p, label)
      \/ Exists(job[p]) /\ row.status \notin TerminalStatuses /\ Goto(p, Resume(row))
  BY DEF Load
<1> HIDE DEF row
<1>7. Resume(row) \in {"mark", "publish"}
  BY DEF Resume
<1>8. PICK label \in {"rejected", "returned", "mark", "publish"} :
          /\ Goto(p, label)
          /\ label \in {"mark", "publish"} =>
                Exists(job[p]) /\ row.status \notin TerminalStatuses /\ label = Resume(row)
  BY <1>6, <1>7
<1>9. rpc'[p] = label /\ \A q \in Runners \ {p} : rpc'[q] = rpc[q]
  BY <1>1, <1>8, GotoMoves DEF Labels, Finished
<1>10. \A q \in Runners \ {p} : SameRunner(q)
  BY <1>4, <1>5, <1>9 DEF SameRunner
<1>11. label = "publish" => row.status = "publish_failed"
  BY <1>8 DEF Resume
<1>12. label = "mark" => row.status \in {"pending", "in_progress"}
  <2> SUFFICES ASSUME label = "mark" PROVE row.status \in {"pending", "in_progress"}
    OBVIOUS
  <2>1. row # NoRow /\ row.status \notin {"completed", "failed"} /\ Resume(row) = "mark"
    BY <1>8 DEF Exists, TerminalStatuses, row
  <2>2. row.status # None
    BY <1>3, <2>1 DEF RowAgrees, row
  <2>3. row.status # "publish_failed"
    BY <1>3, <2>1 DEF RowSound, Resume, row
  <2>4. row.status \in Statuses \cup {None}
    BY <1>2 DEF Rows
  <2> QED
    BY <2>1, <2>2, <2>3, <2>4 DEF Statuses
<1>13. FreshCopy(p)'
  BY <1>4, <1>5, <1>8, <1>9, <1>11, <1>12
     DEF FreshCopy, Working, Assessing, Publishing, row
<1> QED
  BY <1>4, <1>10, <1>13, QuietLives

\* The engines leave nothing behind before Complete.
LEMMA PipelineLives ==
    ASSUME RunInv, LifeInv, NEW p \in Runners,
           RunPipeline(p) \/ MissingConfiguration(p) \/ PipelineError(p)
    PROVE  Lives
<1>1. TypeOK /\ FreshCopy(p) /\ rpc[p] = "pipeline"
  BY DEF RunInv, LifeInv, RunPipeline, MissingConfiguration, PipelineError
<1>2. UNCHANGED <<rows, assessments, checks, job, local, posted>>
  BY DEF RunPipeline, MissingConfiguration, PipelineError
<1>3. PICK label \in {"complete", "fail_config", "fail_error"} : Goto(p, label)
  BY DEF RunPipeline, MissingConfiguration, PipelineError
<1>4. rpc'[p] = label /\ \A q \in Runners \ {p} : rpc'[q] = rpc[q]
  BY <1>1, <1>3, GotoMoves DEF Labels
<1>5. \A q \in Runners \ {p} : verdict'[q] = verdict[q]
  BY <1>1 DEF RunPipeline, MissingConfiguration, PipelineError, TypeOK
<1>6. \A q \in Runners \ {p} : SameRunner(q)
  BY <1>2, <1>4, <1>5 DEF SameRunner
<1>7. FreshCopy(p)'
  BY <1>1, <1>2, <1>4 DEF FreshCopy, Working, Assessing, Publishing
<1> QED
  BY <1>2, <1>6, <1>7, QuietLives

\* Nor do the start and the end of a call.
LEMMA CallLives ==
    ASSUME RunInv, LifeInv, NEW p \in Runners,
           (\E a, e \in Shas : Begin(p, a, e)) \/ Idle(p)
    PROVE  Lives
<1>1. TypeOK
  BY DEF RunInv
<1>2. UNCHANGED <<rows, assessments, checks>>
  BY DEF Begin, Idle
<1>3. PICK label \in {"load", "idle"} : Goto(p, label)
  BY DEF Begin, Idle
<1>4. rpc'[p] = label /\ \A q \in Runners \ {p} : rpc'[q] = rpc[q]
  BY <1>1, <1>3, GotoMoves DEF Labels
<1>5. \A q \in Runners \ {p} : SameRunner(q)
  BY <1>1, <1>4 DEF Begin, Idle, SameRunner, TypeOK
<1>6. FreshCopy(p)'
  BY <1>4 DEF FreshCopy, Working, Assessing, Publishing
<1> QED
  BY <1>2, <1>5, <1>6, QuietLives

\* Every step of run_analysis and of what surrounds it is a step of the life
\* of an analysis or none, as long as no two runs are for one commit.
LEMMA StepLives ==
    ASSUME RunInv, LifeInv, RunsApart, RunAssumption, RunMove
    PROVE  Lives
<1>1. CASE Environment
  <2>1. ASSUME NEW a \in Shas, CreateRow(a) PROVE Lives
    BY <2>1, CreateRowLives
  <2>2. CASE CreateMapping \/ DeleteMapping \/ \E v \in Shas : RegisterVersion(v)
    <3>1. UNCHANGED <<rows, assessments, checks>> /\ \A q \in Runners : SameRunner(q)
      BY <2>2 DEF CreateMapping, DeleteMapping, RegisterVersion, SameRunner
    <3> QED
      BY <3>1, QuietLives
  <2> QED
    BY <1>1, <2>1, <2>2 DEF Environment
<1>2. ASSUME NEW p \in Runners, RunStep(p) PROVE Lives
  <2>1. CASE Load(p)
    BY <2>1, LoadLives
  <2>2. CASE MarkInProgress(p) \/ SaveCheckRun(p)
    BY <2>2, OpenSavesLive
  <2>3. CASE Announce(p)
    BY <2>3, AnnounceLives
  <2>4. CASE RunPipeline(p) \/ MissingConfiguration(p) \/ PipelineError(p)
    BY <2>4, PipelineLives
  <2>5. CASE SaveFailed(p)
    BY <2>5, SaveFailedLives
  <2>6. CASE Complete(p)
    BY <2>6, CompleteLives
  <2>7. CASE Publish(p)
    BY <2>7, PublishLives
  <2>8. CASE SavePublished(p)
    BY <2>8, SavePublishedLives
  <2>9. CASE SaveUnpublished(p)
    BY <2>9, SaveUnpublishedLives
  <2> QED
    BY <1>2, <2>1, <2>2, <2>3, <2>4, <2>5, <2>6, <2>7, <2>8, <2>9 DEF RunStep
<1>3. ASSUME NEW p \in Runners,
             (\E a, e \in Shas : Begin(p, a, e)) \/ Idle(p) \/ Finish(p) \/ Crash(p)
      PROVE  Lives
  BY <1>3, CallLives DEF Finish, Crash
<1>4. CASE UNCHANGED <<mapping, rows, runOnly>>
  <2>1. UNCHANGED <<rows, assessments, checks>> /\ \A q \in Runners : SameRunner(q)
    BY <1>4 DEF runOnly, SameRunner
  <2> QED
    BY <2>1, QuietLives
<1> QED
  BY <1>1, <1>2, <1>3, <1>4 DEF RunMove, RunNext

\* Before anything is requested.
LEMMA InitLives ==
    ASSUME RunInit, RunAssumption
    PROVE  LifeInv /\ Life!Init
<1>1. None \notin Statuses /\ NoRow.status = None /\ NoRow.decision = None
      /\ NoRow.assessment = None
  BY DEF RunAssumption, NoRow
<1>2. \A a \in Shas : CommitInv(a)
  BY <1>1 DEF RunInit, CommitInv, RowAgrees, NoOtherEvidence, NoOtherConclusion, Statuses
<1>3. \A p \in Runners : FreshCopy(p)
  BY DEF RunInit, FreshCopy, Working, Assessing, Publishing
<1>4. StageOf = [a \in Shas |-> "none"]
  <2>1. Stage(None) = "none"
    BY <1>1 DEF Stage, Statuses
  <2> QED
    BY <1>1, <2>1 DEF RunInit, StageOf
<1>5. DecisionOf = [a \in Shas |-> None]
  BY <1>1 DEF RunInit, DecisionOf
<1>6. ShownOf = [a \in Shas |-> {}]
  BY DEF RunInit, ShownOf, ShownIn
<1> QED
  BY <1>2, <1>3, <1>4, <1>5, <1>6 DEF LifeInv, Life!Init

\* LifeInv holds while runs of one commit do not overlap, across crashes,
\* repeated runs and lost answers of GitHub.
THEOREM LifeInvariant == RunSpec /\ []RunsApart => []LifeInv
<1>1. RunInit => LifeInv
  BY InitLives, RunAssumption
<1>2. RunInv /\ LifeInv /\ RunsApart /\ [RunNext]_runVars => LifeInv'
  BY RunMoves, StepLives, RunAssumption DEF Lives, RunInv
<1> QED
  BY <1>1, <1>2, RunInvariant, PTL DEF RunSpec

\* run_analysis implements the life of an analysis: as long as runs of one
\* commit do not overlap, an analysis is decided once or failed for good, and
\* GitHub shows its decision or nothing, whatever crashes and is repeated.
THEOREM RunImplementsLife == RunSpec /\ []RunsApart => Life!Spec
<1>1. RunInit => LifeInv /\ Life!Init
  BY InitLives, RunAssumption
<1>2. RunInv /\ LifeInv /\ RunsApart /\ [RunNext]_runVars =>
          LifeInv' /\ [Life!Next]_(Life!lifeVars)
  BY RunMoves, StepLives, RunAssumption DEF Lives, RunInv, Life!lifeVars
<1> QED
  BY <1>1, <1>2, RunInvariant, PTL DEF RunSpec, Life!Spec

\* Then risk is assessed once per commit: its row refers to all its evidence.
LEMMA LifeAssessesOnce ==
    ASSUME RunInv, LifeInv
    PROVE  AssessedOnce
<1> SUFFICES ASSUME NEW i \in DOMAIN assessments, NEW j \in DOMAIN assessments,
                    assessments[i].sha = assessments[j].sha
             PROVE  i = j
  BY DEF AssessedOnce
<1> DEFINE Records == [sha : Shas, decision : Decisions]
<1>1. \A r \in Records : r.sha \in Shas
  OBVIOUS
<1>2. assessments \in Seq(Records)
  BY DEF RunInv, TypeOK
<1> HIDE DEF Records
<1>3. assessments[i].sha \in Shas
  BY <1>1, <1>2
<1> QED
  BY <1>3 DEF LifeInv, CommitInv, NoOtherEvidence

\* Risk is assessed once per commit, however often run_analysis is repeated
\* after crashes and failed publications, as long as the runs do not overlap.
THEOREM RunAssessesOnce == RunSpec /\ []RunsApart => []AssessedOnce
BY LifeAssessesOnce, RunInvariant, LifeInvariant, PTL

-----------------------------------------------------------------------------
(* Part 3.  Requests, topic, workers and runs together. *)

\* A row that was inserted is never taken away, and a run that got past its
\* first read has one.
HasRow(a) == rows[a].status \in Statuses

RowsInv ==
    /\ \A a \in Shas : rows[a] = NoRow \/ HasRow(a)
    /\ \A p \in Runners : rpc[p] \notin {"idle", "load", "rejected"} => HasRow(job[p])

\* The variables of the surroundings, as far as the proofs need their types.
PipelineTypes ==
    /\ kafka \in BOOLEAN
    /\ log \in Seq(Shas)
    /\ rqpc \in [Requests -> {"new", "check", "insert", "start", "create", "publish",
                              "enqueued", "run", "died"} \cup Ingress!Answers]
    /\ body \in [Requests -> Shas \cup {Other, None}]
    /\ committed \in Nat
    /\ owner \in Workers \cup {NoOwner}
    /\ position \in [Workers -> Nat]
    /\ current \in [Workers -> Nat]
    /\ wpc \in [Workers -> {"down", "ready", "handling", "dlq", "commit"}]

\* A request publishes with Kafka and runs the analysis itself without it, and
\* then it has inserted the row; it is a runner only at that point.
RequestAt(r) ==
    /\ rqpc[r] # "new" => body[r] \in Shas \cup {Other}
    /\ rqpc[r] \in {"start", "create", "publish", "enqueued", "run"} => body[r] \in Shas
    /\ rqpc[r] = "publish" => kafka
    /\ rqpc[r] = "run" => ~kafka /\ HasRow(body[r])
    /\ rpc[r] # "idle" => rqpc[r] = "run" /\ job[r] = body[r]

\* A worker is a runner only while it handles a message, for the commit of
\* that message.
WorkerAt(w) ==
    /\ wpc[w] = "handling" => current[w] < Len(log)
    /\ rpc[w] # "idle" => wpc[w] = "handling" /\ job[w] = log[current[w] + 1]

PipelineInv ==
    /\ RunInv
    /\ RowsInv
    /\ PipelineTypes
    /\ ~kafka => log = <<>>
    /\ \A r \in Requests : RequestAt(r)
    /\ \A w \in Workers : WorkerAt(w)
    /\ InlineRunsDoNotOverlap

\* Either requests run their analysis themselves, or the group has one member.
SingleRunner == kafka => \A v, w \in Workers : v = w

\* The message at offset i needs no further delivery.
Settles(i) == Decided(log[i + 1]) \/ GivenUp(i)

\* The owner has seen to everything below its position, but for the message in
\* hand.
OwnerAt(w) ==
    /\ committed <= position[w]
    /\ position[w] <= Len(log)
    /\ \A i \in 0 .. (position[w] - 1) :
          Settles(i) \/ (wpc[w] \in {"handling", "dlq"} /\ i = current[w])

\* And what a run returns from is decided.
DecidedInv ==
    /\ committed <= Len(log)
    /\ \A i \in 0 .. (committed - 1) : Settles(i)
    /\ \A w \in Workers : owner = w => OwnerAt(w)
    /\ \A p \in Runners : rpc[p] = "returned" => Decided(job[p])

\* What a step of a run does to its own label and job, and to no other's.
LEMMA RunStepStays ==
    ASSUME TypeOK, NEW p \in Runners, RunStep(p)
    PROVE  /\ rpc[p] # "idle"
           /\ UNCHANGED <<job, mapping, runs, expected>>
           /\ \A q \in Runners \ {p} : rpc'[q] = rpc[q]
<1>1. rpc[p] # "idle" /\ UNCHANGED <<job, mapping, runs, expected>>
  BY DEF RunStep, Load, MarkInProgress, Announce, SaveCheckRun, RunPipeline,
         MissingConfiguration, PipelineError, SaveFailed, Complete, Publish, SavePublished,
         SaveUnpublished
<1>2. \E label : Goto(p, label)
  <2>1. CASE Load(p)
    BY <2>1 DEF Load
  <2>2. CASE Announce(p)
    BY <2>2 DEF Announce
  <2>3. CASE Publish(p)
    BY <2>3 DEF Publish
  <2>4. CASE MarkInProgress(p) \/ SaveCheckRun(p) \/ SaveFailed(p)
    BY <2>4 DEF MarkInProgress, SaveCheckRun, SaveFailed
  <2>5. CASE RunPipeline(p) \/ MissingConfiguration(p) \/ PipelineError(p)
    BY <2>5 DEF RunPipeline, MissingConfiguration, PipelineError
  <2>6. CASE Complete(p) \/ SavePublished(p) \/ SaveUnpublished(p)
    BY <2>6 DEF Complete, SavePublished, SaveUnpublished
  <2> QED
    BY <2>1, <2>2, <2>3, <2>4, <2>5, <2>6 DEF RunStep
<1>3. \A q \in Runners \ {p} : rpc'[q] = rpc[q]
  BY <1>2 DEF Goto, TypeOK
<1> QED
  BY <1>1, <1>3

\* A flush leaves a status in the row.
LEMMA FlushKeepsRows ==
    ASSUME TypeOK, RowsInv, NEW p \in Runners, job[p] \in Shas,
           rpc[p] \notin {"idle", "load", "rejected"},
           NEW new \in Rows, new.status \in Statuses, Flush(p, new)
    PROVE  /\ \A a \in Shas : HasRow(a) => rows'[a].status \in Statuses
           /\ \A a \in Shas : rows[a] = NoRow => rows'[a] = NoRow
<1>1. /\ \A a \in Shas \ {job[p]} : rows'[a] = rows[a]
      /\ rows'[job[p]].status \in {new.status, rows[job[p]].status}
  BY FlushWrites
<1>2. rows'[job[p]].status \in Statuses /\ HasRow(job[p])
  BY <1>1 DEF RowsInv, HasRow
<1>3. NoRow.status \in Statuses => FALSE
  BY RunAssumption DEF NoRow, RunAssumption
<1> QED
  BY <1>1, <1>2, <1>3 DEF HasRow

\* No step takes a row away.
LEMMA RowsStay ==
    ASSUME RunInv, RowsInv, NEW p \in Runners, RunStep(p)
    PROVE  /\ \A a \in Shas : HasRow(a) => rows'[a].status \in Statuses
           /\ \A a \in Shas : rows[a] = NoRow => rows'[a] = NoRow
<1>1. TypeOK /\ Prepared(p) /\ local[p] \in Rows
  BY DEF RunInv, RunnerSound, TypeOK
<1>2. CASE Load(p) \/ Announce(p) \/ Publish(p)
           \/ RunPipeline(p) \/ MissingConfiguration(p) \/ PipelineError(p)
  BY <1>2 DEF Load, Announce, Publish, RunPipeline, MissingConfiguration, PipelineError, HasRow
<1>3. ASSUME NEW new \in Rows, new.status \in Statuses, Flush(p, new),
             rpc[p] \notin {"idle", "load", "rejected"}
      PROVE  /\ \A a \in Shas : HasRow(a) => rows'[a].status \in Statuses
             /\ \A a \in Shas : rows[a] = NoRow => rows'[a] = NoRow
  <2>1. job[p] \in Shas
    BY <1>1, <1>3 DEF Prepared
  <2> QED
    BY <1>1, <1>3, <2>1, FlushKeepsRows
<1>4. CASE MarkInProgress(p)
  <2>1. [local[p] EXCEPT !.status = "in_progress"] \in Rows
    BY <1>1 DEF Rows, Statuses
  <2>2. [local[p] EXCEPT !.status = "in_progress"].status \in Statuses
    BY <1>1 DEF Rows, Statuses
  <2> QED
    BY <1>3, <1>4, <2>1, <2>2 DEF MarkInProgress
<1>5. CASE SaveCheckRun(p)
  <2>1. posted[p] \in Nat \cup {None} /\ local[p].status = "in_progress"
    BY <1>1, <1>5 DEF TypeOK, SaveCheckRun, Prepared
  <2>2. [local[p] EXCEPT !.check = posted[p]] \in Rows
    BY <1>1, <2>1 DEF Rows
  <2>3. [local[p] EXCEPT !.check = posted[p]].status \in Statuses
    BY <1>1, <2>1 DEF Rows, Statuses
  <2> QED
    BY <1>3, <1>5, <2>2, <2>3 DEF SaveCheckRun
<1>6. CASE SaveFailed(p)
  <2>1. [local[p] EXCEPT !.status = "failed"] \in Rows
    BY <1>1 DEF Rows, Statuses
  <2>2. [local[p] EXCEPT !.status = "failed"].status \in Statuses
    BY <1>1 DEF Rows, Statuses
  <2> QED
    BY <1>3, <1>6, <2>1, <2>2 DEF SaveFailed
<1>7. CASE Complete(p)
  <2>1. verdict[p] \in Decisions /\ Len(assessments) + 1 \in Nat
    BY <1>1, <1>7 DEF TypeOK, Complete, Prepared
  <2>2. CompletedRow(p) \in Rows
    BY <1>1, <2>1 DEF CompletedRow, Rows, Statuses
  <2>3. CompletedRow(p).status \in Statuses
    BY <1>1 DEF CompletedRow, Rows, Statuses
  <2> QED
    BY <1>3, <1>7, <2>2, <2>3 DEF Complete
<1>8. CASE SavePublished(p)
  <2>1. posted[p] \in Nat \cup {None}
    BY <1>1 DEF TypeOK
  <2>2. [local[p] EXCEPT !.status = "completed", !.check = posted[p]] \in Rows
    BY <1>1, <2>1 DEF Rows, Statuses
  <2>3. [local[p] EXCEPT !.status = "completed", !.check = posted[p]].status \in Statuses
    BY <1>1 DEF Rows, Statuses
  <2> QED
    BY <1>3, <1>8, <2>2, <2>3 DEF SavePublished
<1>9. CASE SaveUnpublished(p)
  <2>1. [local[p] EXCEPT !.status = "publish_failed"] \in Rows
    BY <1>1 DEF Rows, Statuses
  <2>2. [local[p] EXCEPT !.status = "publish_failed"].status \in Statuses
    BY <1>1 DEF Rows, Statuses
  <2> QED
    BY <1>3, <1>9, <2>1, <2>2 DEF SaveUnpublished
<1> QED
  BY <1>2, <1>4, <1>5, <1>6, <1>7, <1>8, <1>9 DEF RunStep

\* Rows stay, whoever moves, and every run past its first read has one.
LEMMA RowsMove ==
    ASSUME RunInv, RowsInv, RunMove
    PROVE  RowsInv' /\ \A a \in Shas : HasRow(a) => HasRow(a)'
<1>1. TypeOK /\ RunAssumption
  BY RunAssumption DEF RunInv
<1>2. ASSUME \A a \in Shas : HasRow(a) => rows'[a].status \in Statuses,
             \A a \in Shas : rows[a] = NoRow => rows'[a] = NoRow \/ rows'[a].status \in Statuses,
             \A p \in Runners : rpc'[p] \notin {"idle", "load", "rejected"} =>
                 job'[p] = job[p] /\ job[p] \in Shas /\ HasRow(job[p])
      PROVE  RowsInv' /\ \A a \in Shas : HasRow(a) => HasRow(a)'
  <2>1. \A a \in Shas : (rows[a] = NoRow \/ HasRow(a))'
    BY <1>2 DEF RowsInv, HasRow
  <2>2. \A p \in Runners : (rpc[p] \notin {"idle", "load", "rejected"} => HasRow(job[p]))'
    BY <1>2 DEF HasRow
  <2> QED
    BY <1>2, <2>1, <2>2 DEF RowsInv, HasRow
<1>3. \A p \in Runners : rpc[p] \notin {"idle", "load", "rejected"} =>
          job[p] \in Shas /\ HasRow(job[p])
  BY DEF RunInv, RunnerSound, Prepared, RowsInv
<1>4. CASE \/ CreateMapping \/ DeleteMapping \/ \E v \in Shas : RegisterVersion(v)
           \/ UNCHANGED <<mapping, rows, runOnly>>
  <2>1. UNCHANGED <<rows, rpc, job>>
    BY <1>4 DEF CreateMapping, DeleteMapping, RegisterVersion, runOnly
  <2> QED
    BY <1>2, <1>3, <2>1 DEF HasRow
<1>5. ASSUME NEW a \in Shas, CreateRow(a)
      PROVE  RowsInv' /\ \A b \in Shas : HasRow(b) => HasRow(b)'
  <2>1. UNCHANGED <<rpc, job>> /\ NewRow.status \in Statuses
    BY <1>5 DEF CreateRow, NewRow, Statuses
  <2>2. rows'[a] = NewRow /\ \A b \in Shas \ {a} : rows'[b] = rows[b]
    BY <1>1, <1>5 DEF CreateRow, TypeOK
  <2>3. \A b \in Shas : HasRow(b) => rows'[b].status \in Statuses
    BY <2>1, <2>2 DEF HasRow
  <2>4. \A b \in Shas : rows[b] = NoRow => rows'[b] = NoRow \/ rows'[b].status \in Statuses
    BY <2>1, <2>2
  <2> QED
    BY <1>2, <1>3, <2>1, <2>3, <2>4
<1>6. ASSUME NEW p \in Runners, (\E a, e \in Shas : Begin(p, a, e)) \/ Idle(p)
      PROVE  RowsInv' /\ \A b \in Shas : HasRow(b) => HasRow(b)'
  <2>1. /\ rows' = rows
        /\ rpc'[p] \in {"load", "idle"}
        /\ \A q \in Runners \ {p} : rpc'[q] = rpc[q] /\ job'[q] = job[q]
    BY <1>1, <1>6 DEF Begin, Idle, Goto, TypeOK
  <2>2. \A q \in Runners : rpc'[q] \notin {"idle", "load", "rejected"} =>
            job'[q] = job[q] /\ job[q] \in Shas /\ HasRow(job[q])
    BY <1>3, <2>1
  <2> QED
    BY <1>2, <2>1, <2>2 DEF HasRow
<1>7. ASSUME NEW p \in Runners, RunStep(p)
      PROVE  RowsInv' /\ \A b \in Shas : HasRow(b) => HasRow(b)'
  <2>1. /\ rpc[p] # "idle" /\ job' = job
        /\ \A q \in Runners \ {p} : rpc'[q] = rpc[q]
    BY <1>1, <1>7, RunStepStays
  <2>2. rpc'[p] \notin {"idle", "load", "rejected"} => job[p] \in Shas /\ HasRow(job[p])
    <3>1. job[p] \in Shas
      BY <2>1 DEF RunInv, RunnerSound, Prepared
    <3>2. CASE Load(p)
      <4>1. rpc'[p] # "rejected" => Exists(job[p])
        BY <1>1, <3>2 DEF Load, Goto, TypeOK
      <4> QED
        BY <3>1, <4>1 DEF Exists, RowsInv
    <3>3. CASE ~Load(p)
      <4>1. rpc[p] \notin {"load", "rejected"}
        BY <1>7, <3>3
        DEF RunStep, MarkInProgress, Announce, SaveCheckRun, RunPipeline,
            MissingConfiguration, PipelineError, SaveFailed, Complete, Publish,
            SavePublished, SaveUnpublished
      <4> QED
        BY <1>3, <2>1, <4>1
    <3> QED
      BY <3>2, <3>3
  <2>3. \A q \in Runners : rpc'[q] \notin {"idle", "load", "rejected"} =>
            job'[q] = job[q] /\ job[q] \in Shas /\ HasRow(job[q])
    BY <1>3, <2>1, <2>2
  <2> QED
    BY <1>2, <1>7, <2>3, RowsStay
<1>8. ASSUME NEW p \in Runners, Finish(p) \/ Crash(p)
      PROVE  RowsInv' /\ \A b \in Shas : HasRow(b) => HasRow(b)'
  BY <1>6, <1>8 DEF Finish, Crash
<1> QED
  BY <1>4, <1>5, <1>6, <1>7, <1>8 DEF RunMove, RunNext, Environment

-----------------------------------------------------------------------------
(* What the steps of the composition do to the surroundings. *)

\* What the other parts of the invariant refer to stays in place.
Keeps ==
    /\ kafka' = kafka
    /\ log' \in Seq(Shas) /\ Len(log) <= Len(log')
    /\ \A i \in 1 .. Len(log) : log'[i] = log[i]
    /\ ~kafka => log' = log

SameRequest(r) ==
    /\ rqpc'[r] = rqpc[r] /\ body'[r] = body[r]
    /\ rpc'[r] # "idle" => rpc[r] # "idle" /\ job'[r] = job[r]

SameWorker(w) ==
    /\ wpc'[w] = wpc[w] /\ current'[w] = current[w]
    /\ rpc'[w] # "idle" => rpc[w] # "idle" /\ job'[w] = job[w]

\* A request and a worker that do not move stay where they are.
LEMMA OtherRequestsStay ==
    ASSUME PipelineInv, RunMove, Keeps, NEW r \in Requests, SameRequest(r)
    PROVE  RequestAt(r)'
<1>1. RequestAt(r) /\ \A a \in Shas : HasRow(a) => HasRow(a)'
  BY RowsMove DEF PipelineInv
<1>2. rqpc[r] = "run" => rows'[body[r]].status \in Statuses
  BY <1>1 DEF RequestAt, HasRow
<1> QED
  BY <1>1, <1>2 DEF RequestAt, SameRequest, Keeps, HasRow

LEMMA OtherWorkersStay ==
    ASSUME PipelineInv, Keeps, NEW w \in Workers, SameWorker(w)
    PROVE  WorkerAt(w)'
<1>1. WorkerAt(w) /\ current[w] \in Nat /\ Len(log) \in Nat /\ Len(log') \in Nat
  BY DEF PipelineInv, PipelineTypes, Keeps
<1>2. wpc[w] = "handling" => current[w] + 1 \in 1 .. Len(log)
  BY <1>1 DEF WorkerAt
<1> QED
  BY <1>1, <1>2 DEF WorkerAt, SameWorker, Keeps

\* A step of one request, of one worker or of a run keeps the invariant if the
\* one that moves ends up where it should.
LEMMA RequestMoves ==
    ASSUME PipelineInv, RunMove, Keeps, PipelineTypes', NEW r \in Requests,
           \A q \in Requests \ {r} : SameRequest(q), \A w \in Workers : SameWorker(w),
           RequestAt(r)',
           \A q \in Requests \ {r} :
               rqpc'[r] = "run" /\ rqpc[q] = "run" => body[q] # body'[r]
    PROVE  PipelineInv'
<1>1. RunInv' /\ RowsInv'
  BY RunMoveKeepsInv, RowsMove DEF PipelineInv
<1>2. \A q \in Requests : RequestAt(q)'
  BY OtherRequestsStay
<1>3. \A w \in Workers : WorkerAt(w)'
  BY OtherWorkersStay
<1>4. (~kafka => log = <<>>)'
  BY DEF Keeps, PipelineInv
<1>5. InlineRunsDoNotOverlap'
  BY DEF PipelineInv, InlineRunsDoNotOverlap, Ingress!InlineRunsDoNotOverlap, SameRequest
<1> QED
  BY <1>1, <1>2, <1>3, <1>4, <1>5 DEF PipelineInv

LEMMA WorkerMoves ==
    ASSUME PipelineInv, RunMove, Keeps, PipelineTypes', NEW w \in Workers,
           \A r \in Requests : SameRequest(r), \A v \in Workers \ {w} : SameWorker(v),
           WorkerAt(w)'
    PROVE  PipelineInv'
<1>1. RunInv' /\ RowsInv'
  BY RunMoveKeepsInv, RowsMove DEF PipelineInv
<1>2. \A q \in Requests : RequestAt(q)'
  BY OtherRequestsStay
<1>3. \A v \in Workers : WorkerAt(v)'
  BY OtherWorkersStay
<1>4. (~kafka => log = <<>>)'
  BY DEF Keeps, PipelineInv
<1>5. InlineRunsDoNotOverlap'
  BY DEF PipelineInv, InlineRunsDoNotOverlap, Ingress!InlineRunsDoNotOverlap, SameRequest
<1> QED
  BY <1>1, <1>2, <1>3, <1>4, <1>5 DEF PipelineInv

LEMMA OnlyRunMoves ==
    ASSUME PipelineInv, RunMove, UNCHANGED <<log, consumerOnly, ingressOnly>>,
           \A q \in Runners : rpc'[q] # "idle" => rpc[q] # "idle" /\ job'[q] = job[q]
    PROVE  PipelineInv' /\ Keeps
<1>1. RunInv' /\ RowsInv'
  BY RunMoveKeepsInv, RowsMove DEF PipelineInv
<1>2. Keeps /\ PipelineTypes'
  BY DEF Keeps, PipelineInv, PipelineTypes, consumerOnly, ingressOnly
<1>3. \A q \in Requests : SameRequest(q)
  BY PipelineAssumption DEF PipelineAssumption, SameRequest, ingressOnly
<1>4. \A v \in Workers : SameWorker(v)
  BY PipelineAssumption DEF PipelineAssumption, SameWorker, consumerOnly
<1>5. \A q \in Requests : RequestAt(q)'
  BY <1>2, <1>3, OtherRequestsStay
<1>6. \A v \in Workers : WorkerAt(v)'
  BY <1>2, <1>4, OtherWorkersStay
<1>7. (~kafka => log = <<>>)' /\ InlineRunsDoNotOverlap'
  BY DEF PipelineInv, InlineRunsDoNotOverlap, Ingress!InlineRunsDoNotOverlap, ingressOnly
<1> QED
  BY <1>1, <1>2, <1>5, <1>6, <1>7 DEF PipelineInv

\* The mapping, the registry, and the steps of run_analysis.
LEMMA RunsKeepPipelineInv ==
    ASSUME PipelineInv, MappingAndRegistry \/ \E p \in Workers \cup Requests : Analyse(p)
    PROVE  PipelineInv' /\ RunMove /\ Keeps
<1>1. TypeOK
  BY DEF PipelineInv, RunInv
<1>2. CASE MappingAndRegistry
  <2>1. RunMove /\ UNCHANGED <<rpc, job, log, consumerOnly, ingressOnly>>
    BY <1>2 DEF MappingAndRegistry, RunMove, RunNext, Environment, CreateMapping,
                DeleteMapping, RegisterVersion
  <2> QED
    BY <2>1, OnlyRunMoves
<1>3. ASSUME NEW p \in Workers \cup Requests, Analyse(p)
      PROVE  PipelineInv' /\ RunMove /\ Keeps
  <2>1. p \in Runners /\ RunStep(p) /\ UNCHANGED <<log, consumerOnly, ingressOnly>>
    BY <1>3, PipelineAssumption DEF Analyse, PipelineAssumption
  <2>2. RunMove
    BY <2>1 DEF RunMove, RunNext
  <2>3. rpc[p] # "idle" /\ job' = job /\ \A q \in Runners \ {p} : rpc'[q] = rpc[q]
    BY <1>1, <2>1, RunStepStays
  <2> QED
    BY <2>1, <2>2, <2>3, OnlyRunMoves
<1> QED
  BY <1>2, <1>3

\* The steps of a request before it runs anything.
LEMMA IngressKeepsPipelineInv ==
    ASSUME PipelineInv, NEW r \in Requests, IngressArrive(r) \/ IngressStep(r)
    PROVE  PipelineInv' /\ RunMove /\ Keeps
<1>1. /\ PipelineTypes /\ RequestAt(r) /\ TypeOK
      /\ UNCHANGED <<runOnly, consumerOnly, results>>
  BY DEF PipelineInv, RunInv, IngressArrive, IngressStep
<1>2. \A w \in Workers : SameWorker(w)
  BY <1>1 DEF runOnly, consumerOnly, SameWorker
<1>3. ASSUME mapping' = mapping, rows' = rows, faults' \in Nat
      PROVE  RunMove
  BY <1>1, <1>3 DEF RunMove
<1>4. CASE IngressArrive(r)
  <2>1. PICK b \in Shas \cup {Other}, l \in {"check", "unsigned"} :
            /\ rqpc[r] = "new"
            /\ rqpc' = [rqpc EXCEPT ![r] = l]
            /\ body' = [body EXCEPT ![r] = b]
            /\ UNCHANGED <<kafka, mapping, rows, log, faults>>
    BY <1>4 DEF IngressArrive, Ingress!Arrive, Ingress!Receive, Ingress!At, Ingress!Goto,
                Ingress!Bodies
  <2>2. RunMove
    BY <1>1, <1>3, <2>1 DEF TypeOK
  <2>3. Keeps
    BY <1>1, <2>1 DEF Keeps, PipelineTypes
  <2>4. PipelineTypes'
    BY <1>1, <2>1 DEF PipelineTypes, consumerOnly, Ingress!Answers
  <2>5. \A q \in Requests \ {r} : SameRequest(q)
    BY <1>1, <2>1 DEF SameRequest, PipelineTypes, runOnly
  <2>6. rqpc'[r] = l /\ body'[r] = b /\ rpc'[r] = "idle"
    BY <1>1, <2>1 DEF PipelineTypes, runOnly, RequestAt
  <2>7. RequestAt(r)'
    BY <2>6 DEF RequestAt
  <2> QED
    BY <1>2, <2>2, <2>3, <2>4, <2>5, <2>6, <2>7, RequestMoves
<1>5. CASE IngressStep(r)
  <2>1. rqpc[r] # "run" /\ rqpc[r] # "new" /\ UNCHANGED <<kafka, mapping, body>>
    BY <1>5 DEF IngressStep, Ingress!RequestStep, Ingress!Check, Ingress!Insert,
                Ingress!StartOrGet, Ingress!CreateRow, Ingress!PublishRequest,
                Ingress!PublishRequestFails, Ingress!RecordEnqueued, Ingress!At
  <2>2. rpc[r] = "idle" /\ rpc'[r] = "idle" /\ body[r] \in Shas \cup {Other}
    BY <1>1, <2>1 DEF RequestAt, runOnly
  <2>3. ASSUME NEW l \in {"insert", "start", "create", "publish", "enqueued", "run"}
                         \cup Ingress!Answers,
               rqpc' = [rqpc EXCEPT ![r] = l],
               l \in {"start", "create", "publish", "enqueued", "run"} => body[r] \in Shas,
               l = "publish" => kafka,
               l = "run" => /\ ~kafka /\ rows'[body[r]].status \in Statuses
                            /\ rows[body[r]] = NoRow,
               RunMove, Keeps
        PROVE  PipelineInv'
    <3>1. PipelineTypes'
      BY <1>1, <2>1, <2>3 DEF PipelineTypes, consumerOnly, Keeps
    <3>2. rqpc'[r] = l /\ \A q \in Requests \ {r} : SameRequest(q)
      BY <1>1, <2>1, <2>3 DEF SameRequest, PipelineTypes, runOnly
    <3>3. RequestAt(r)'
      BY <2>1, <2>2, <2>3, <3>2 DEF RequestAt, HasRow
    <3>4. \A q \in Requests \ {r} :
              rqpc'[r] = "run" /\ rqpc[q] = "run" => body[q] # body'[r]
      <4>1. NoRow.status \notin Statuses
        BY RunAssumption DEF NoRow, RunAssumption
      <4>2. \A q \in Requests : rqpc[q] = "run" => rows[body[q]] # NoRow
        BY <4>1 DEF PipelineInv, RequestAt, HasRow
      <4> QED
        BY <2>1, <2>3, <3>2, <4>2
    <3> QED
      BY <1>2, <2>3, <3>1, <3>2, <3>3, <3>4, RequestMoves
  <2>4. ASSUME UNCHANGED <<rows, log, faults>>
        PROVE  RunMove /\ Keeps
    BY <1>1, <1>3, <2>1, <2>4 DEF Keeps, PipelineTypes, TypeOK
  <2>5. CASE Ingress!Check(r)
    <3>1. PICK l \in {"insert", "duplicate", "conflict"} :
              rqpc' = [rqpc EXCEPT ![r] = l] /\ UNCHANGED <<rows, log, faults>>
      BY <2>5 DEF Ingress!Check, Ingress!Goto
    <3> QED
      BY <2>3, <2>4, <3>1 DEF Ingress!Answers
  <2>6. CASE Ingress!Insert(r)
    <3>1. PICK l \in {"start", "accepted", "duplicate", "conflict"} :
              /\ rqpc' = [rqpc EXCEPT ![r] = l] /\ UNCHANGED <<rows, log, faults>>
              /\ l = "start" => body[r] # Other
      BY <2>6 DEF Ingress!Insert, Ingress!Goto
    <3> QED
      BY <2>2, <2>3, <2>4, <3>1 DEF Ingress!Answers
  <2>7. CASE Ingress!StartOrGet(r)
    <3>1. PICK l \in {"accepted", "publish", "create"} :
              /\ rqpc' = [rqpc EXCEPT ![r] = l] /\ UNCHANGED <<rows, log, faults>>
              /\ l = "publish" => kafka
      BY <2>7 DEF Ingress!StartOrGet, Ingress!Goto
    <3>2. body[r] \in Shas
      BY <1>1, <2>7 DEF Ingress!StartOrGet, Ingress!At, RequestAt
    <3> QED
      BY <2>3, <2>4, <3>1, <3>2 DEF Ingress!Answers
  <2>8. CASE Ingress!CreateRow(r)
    <3>1. body[r] \in Shas /\ UNCHANGED <<log, faults>>
      BY <1>1, <2>8 DEF Ingress!CreateRow, Ingress!At, RequestAt
    <3>2. CASE rows[body[r]] = NoRow
      <4>1. PICK l \in {"publish", "run"} :
                /\ rqpc' = [rqpc EXCEPT ![r] = l]
                /\ l = "publish" <=> kafka
                /\ rows' = [rows EXCEPT ![body[r]] = NewRow]
        BY <1>1, <2>8, <3>2 DEF Ingress!CreateRow, Ingress!Goto, PipelineTypes
      <4>2. CreateRow(body[r])
        BY <1>1, <2>1, <3>1, <3>2, <4>1 DEF CreateRow, Exists, runOnly
      <4>3. RunMove
        BY <3>1, <4>2 DEF RunMove, RunNext, Environment
      <4>4. rows'[body[r]].status \in Statuses
        BY <1>1, <3>1, <4>1 DEF TypeOK, NewRow, Statuses
      <4>5. Keeps
        BY <1>1, <2>1, <3>1 DEF Keeps, PipelineTypes
      <4> QED
        BY <2>3, <3>1, <3>2, <4>1, <4>3, <4>4, <4>5
    <3>3. CASE rows[body[r]] # NoRow
      <4>1. rqpc' = [rqpc EXCEPT ![r] = "error"] /\ rows' = rows
        BY <2>8, <3>3 DEF Ingress!CreateRow, Ingress!Goto
      <4> QED
        BY <2>3, <2>4, <3>1, <4>1 DEF Ingress!Answers
    <3> QED
      BY <3>2, <3>3
  <2>9. CASE Ingress!PublishRequest(r) \/ Ingress!PublishRequestFails(r)
    <3>1. body[r] \in Shas /\ kafka /\ rows' = rows
      BY <1>1, <2>9 DEF Ingress!PublishRequest, Ingress!PublishRequestFails, Ingress!At, RequestAt
    <3>2. PICK l \in {"enqueued", "accepted"} : rqpc' = [rqpc EXCEPT ![r] = l]
      BY <2>9 DEF Ingress!PublishRequest, Ingress!PublishRequestFails, Ingress!Goto
    <3>3. log' = log \/ log' = Append(log, body[r])
      BY <2>9 DEF Ingress!PublishRequest, Ingress!PublishRequestFails
    <3>4. faults' \in Nat
      BY <1>1, <2>9 DEF Ingress!PublishRequest, Ingress!PublishRequestFails, TypeOK
    <3>5. Keeps
      <4>1. log \in Seq(Shas)
        BY <1>1 DEF PipelineTypes
      <4>2. CASE log' = Append(log, body[r])
        <5>1. log' \in Seq(Shas) /\ Len(log') = Len(log) + 1 /\ Len(log) \in Nat
          BY <3>1, <4>1, <4>2
        <5>2. \A i \in 1 .. Len(log) : log'[i] = log[i]
          BY <3>1, <4>1, <4>2
        <5> QED
          BY <2>1, <3>1, <5>1, <5>2 DEF Keeps
      <4>3. CASE log' = log
        BY <2>1, <4>1, <4>3 DEF Keeps
      <4> QED
        BY <3>3, <4>2, <4>3
    <3> QED
      BY <1>3, <2>1, <2>3, <3>1, <3>2, <3>4, <3>5 DEF Ingress!Answers
  <2>10. CASE Ingress!RecordEnqueued(r)
    <3>1. rqpc' = [rqpc EXCEPT ![r] = "accepted"] /\ UNCHANGED <<rows, log, faults>>
      BY <2>10 DEF Ingress!RecordEnqueued, Ingress!Goto
    <3> QED
      BY <2>3, <2>4, <3>1 DEF Ingress!Answers
  <2> QED
    BY <1>5, <2>5, <2>6, <2>7, <2>8, <2>9, <2>10 DEF IngressStep, Ingress!RequestStep
<1> QED
  BY <1>4, <1>5

\* A request runs its analysis, finishes it, or dies.
LEMMA InlineKeepsPipelineInv ==
    ASSUME PipelineInv, NEW r \in Requests, RunInline(r) \/ RunInlineEnds(r) \/ RequestDies(r)
    PROVE  PipelineInv' /\ RunMove /\ Keeps
<1>1. /\ PipelineTypes /\ RequestAt(r) /\ TypeOK
      /\ UNCHANGED <<kafka, body, log, consumerOnly>>
  BY DEF PipelineInv, RunInv, RunInline, RunInlineEnds, RequestDies, Ingress!RunInline,
         Ingress!Die, ingressOnly
<1>2. r \in Runners /\ r \notin Workers /\ Workers \subseteq Runners /\ Requests \subseteq Runners
  BY PipelineAssumption DEF PipelineAssumption
<1>3. Keeps
  BY <1>1 DEF Keeps, PipelineTypes
<1>4. \A q \in Runners \ {r} : rpc'[q] = rpc[q] /\ job'[q] = job[q]
  BY <1>1, <1>2 DEF RunInline, RunInlineEnds, RequestDies, Begin, Finish, Idle, Goto, TypeOK
<1>5. \A w \in Workers : SameWorker(w)
  BY <1>1, <1>2, <1>4 DEF SameWorker, consumerOnly
<1>6. \A q \in Requests \ {r} : SameRequest(q)
  BY <1>1, <1>2, <1>4
  DEF SameRequest, RunInline, RunInlineEnds, RequestDies, Ingress!RunInline, Ingress!Die,
      Ingress!Goto, ingressOnly, PipelineTypes
<1>7. CASE RunInline(r)
  <2>1. rqpc' = rqpc /\ rqpc[r] = "run" /\ Begin(r, body[r], body[r]) /\ body[r] \in Shas
    BY <1>1, <1>7 DEF RunInline, ingressOnly, RequestAt
  <2>2. RunMove
    BY <1>2, <2>1 DEF RunMove, RunNext
  <2>3. PipelineTypes'
    BY <1>1, <2>1 DEF PipelineTypes, consumerOnly
  <2>4. job'[r] = body[r]
    BY <1>1, <1>2, <2>1 DEF Begin, TypeOK
  <2>5. HasRow(body[r])'
    <3>1. HasRow(body[r])
      BY <1>1, <2>1 DEF RequestAt
    <3>2. \A a \in Shas : HasRow(a) => HasRow(a)'
      BY <2>2, RowsMove DEF PipelineInv
    <3>3. rows'[body[r]].status \in Statuses
      BY <2>1, <3>1, <3>2 DEF HasRow
    <3> QED
      BY <1>1, <3>3 DEF HasRow
  <2>6. RequestAt(r)'
    BY <1>1, <2>1, <2>4, <2>5 DEF RequestAt
  <2>7. \A q \in Requests \ {r} :
            rqpc'[r] = "run" /\ rqpc[q] = "run" => body[q] # body'[r]
    BY <1>1, <2>1 DEF PipelineInv, InlineRunsDoNotOverlap, Ingress!InlineRunsDoNotOverlap
  <2> QED
    BY <1>3, <1>5, <1>6, <2>2, <2>3, <2>6, <2>7, RequestMoves
<1>8. CASE RunInlineEnds(r) \/ RequestDies(r)
  <2>1. PICK l \in {"accepted", "died"} :
            rqpc' = [rqpc EXCEPT ![r] = l] /\ rqpc[r] # "new" /\ Idle(r)
    BY <1>8 DEF RunInlineEnds, RequestDies, Finish, Ingress!RunInline, Ingress!Die,
                Ingress!Goto, Ingress!At
  <2>2. faults' \in Nat
    BY <1>1, <1>8 DEF RunInlineEnds, RequestDies, Finish, Ingress!Die, TypeOK
  <2>3. RunMove
    BY <1>2, <2>1, <2>2 DEF RunMove
  <2>4. PipelineTypes'
    BY <1>1, <2>1 DEF PipelineTypes, consumerOnly, Ingress!Answers
  <2>5. rpc'[r] = "idle" /\ rqpc'[r] = l
    BY <1>1, <1>2, <2>1 DEF Idle, Goto, TypeOK, PipelineTypes
  <2>6. RequestAt(r)'
    BY <1>1, <2>1, <2>5 DEF RequestAt
  <2> QED
    BY <1>3, <1>5, <1>6, <2>3, <2>4, <2>5, <2>6, RequestMoves
<1> QED
  BY <1>7, <1>8

\* The consumer loop between two messages.
LEMMA ConsumerKeepsPipelineInv ==
    ASSUME PipelineInv, NEW w \in Workers, ConsumerStep(w)
    PROVE  PipelineInv' /\ RunMove /\ Keeps
<1>1. /\ PipelineTypes /\ WorkerAt(w) /\ TypeOK
      /\ UNCHANGED <<mapping, rows, runOnly, ingressOnly, log>>
  BY DEF PipelineInv, RunInv, ConsumerStep, Consumer!Start, Consumer!Assign, Consumer!Poll,
         Consumer!ToDlq, Consumer!Commit
<1>2. faults' \in Nat
  BY <1>1 DEF TypeOK, ConsumerStep, Consumer!Start, Consumer!Assign, Consumer!Poll,
              Consumer!ToDlq, Consumer!Commit
<1>3. RunMove
  BY <1>1, <1>2 DEF RunMove
<1>4. Keeps
  BY <1>1 DEF Keeps, PipelineTypes, ingressOnly
<1>5. \A r \in Requests : SameRequest(r)
  BY <1>1 DEF SameRequest, runOnly, ingressOnly
<1>6. \A v \in Workers \ {w} : SameWorker(v)
  BY <1>1 DEF SameWorker, runOnly, PipelineTypes, ConsumerStep, Consumer!Start,
              Consumer!Assign, Consumer!Poll, Consumer!ToDlq, Consumer!Commit
<1>7. PipelineTypes' /\ WorkerAt(w)'
  <2>1. kafka' \in BOOLEAN /\ log' \in Seq(Shas) /\ UNCHANGED <<rqpc, body>>
    BY <1>1 DEF PipelineTypes, ingressOnly
  <2>2. ASSUME committed' \in Nat, owner' \in Workers \cup {NoOwner},
               position' \in [Workers -> Nat], current' \in [Workers -> Nat],
               wpc' \in [Workers -> {"down", "ready", "handling", "dlq", "commit"}]
        PROVE  PipelineTypes'
    BY <1>1, <2>1, <2>2 DEF PipelineTypes
  <2>3. CASE Consumer!Start(w)
    BY <1>1, <2>2, <2>3 DEF Consumer!Start, PipelineTypes, WorkerAt, runOnly
  <2>4. CASE Consumer!Assign(w)
    <3>1. committed # NoOffset /\ Consumer!StartOffset = committed
      BY <1>1, PipelineAssumption DEF PipelineAssumption, PipelineTypes, Consumer!StartOffset
    <3> QED
      BY <1>1, <2>2, <2>4, <3>1 DEF Consumer!Assign, PipelineTypes, WorkerAt, runOnly
  <2>5. CASE Consumer!Poll(w)
    <3>1. PipelineTypes'
      BY <1>1, <2>2, <2>5 DEF Consumer!Poll, PipelineTypes
    <3>2. current'[w] = position[w] /\ position[w] < Len(log) /\ rpc[w] = "idle"
      BY <1>1, <2>5 DEF Consumer!Poll, PipelineTypes, WorkerAt
    <3> QED
      BY <1>1, <3>1, <3>2 DEF WorkerAt, runOnly
  <2>6. CASE Consumer!ToDlq(w)
    BY <1>1, <2>2, <2>6 DEF Consumer!ToDlq, PipelineTypes, WorkerAt, runOnly
  <2>7. CASE Consumer!Commit(w)
    BY <1>1, <2>2, <2>7 DEF Consumer!Commit, PipelineTypes, WorkerAt, runOnly
  <2> QED
    BY <2>3, <2>4, <2>5, <2>6, <2>7 DEF ConsumerStep
<1> QED
  BY <1>3, <1>4, <1>5, <1>6, <1>7, WorkerMoves

\* AnalysisRequestHandler, and the end of a worker.
LEMMA HandlerKeepsPipelineInv ==
    ASSUME PipelineInv, NEW w \in Workers, HandlerStep(w) \/ WorkerCrashes(w)
    PROVE  PipelineInv' /\ RunMove /\ Keeps
<1>1. PipelineTypes /\ WorkerAt(w) /\ TypeOK
  BY DEF PipelineInv, RunInv
<1>2. w \in Runners /\ w \notin Requests /\ Workers \subseteq Runners /\ Requests \subseteq Runners
  BY PipelineAssumption DEF PipelineAssumption
<1>3. CASE Handle(w)
  <2>1. /\ UNCHANGED <<log, consumerOnly, ingressOnly>> /\ wpc[w] = "handling"
        /\ Begin(w, log[current[w] + 1], log[current[w] + 1])
    BY <1>3 DEF Handle
  <2>2. current[w] + 1 \in 1 .. Len(log)
    BY <1>1, <2>1 DEF WorkerAt, PipelineTypes
  <2>3. log[current[w] + 1] \in Shas
    BY <1>1, <2>2 DEF PipelineTypes
  <2>4. RunMove
    BY <1>2, <2>1, <2>3 DEF RunMove, RunNext
  <2>5. Keeps /\ PipelineTypes'
    BY <1>1, <2>1 DEF Keeps, PipelineTypes, consumerOnly, ingressOnly
  <2>6. \A q \in Runners \ {w} : rpc'[q] = rpc[q] /\ job'[q] = job[q]
    BY <1>1, <2>1 DEF Begin, Goto, TypeOK
  <2>7. \A r \in Requests : SameRequest(r)
    BY <1>2, <2>1, <2>6 DEF SameRequest, ingressOnly
  <2>8. \A v \in Workers \ {w} : SameWorker(v)
    BY <1>2, <2>1, <2>6 DEF SameWorker, consumerOnly
  <2>9. job'[w] = log[current[w] + 1]
    BY <1>1, <1>2, <2>1 DEF Begin, TypeOK
  <2>10. WorkerAt(w)'
    BY <1>1, <2>1, <2>9 DEF WorkerAt, consumerOnly
  <2> QED
    BY <2>4, <2>5, <2>7, <2>8, <2>10, WorkerMoves
<1>4. CASE HandlerReturns(w) \/ HandlerGivesUp(w) \/ HandlerBreaksLoop(w) \/ WorkerCrashes(w)
  <2>1. Idle(w) /\ UNCHANGED <<ingressOnly, log, committed>>
    BY <1>4 DEF HandlerReturns, HandlerGivesUp, HandlerBreaksLoop, WorkerCrashes, EndRun,
                Consumer!HandlerReturns, Consumer!HandlerFailsPermanently, Consumer!LoopEnds,
                Consumer!Crash
  <2>2. faults' \in Nat
    BY <1>1, <1>4 DEF HandlerReturns, HandlerGivesUp, HandlerBreaksLoop, WorkerCrashes,
                Consumer!HandlerReturns, Consumer!HandlerFailsPermanently, Consumer!Crash,
                TypeOK
  <2>3. PICK l \in {"commit", "dlq", "down"} :
            /\ wpc' = [wpc EXCEPT ![w] = l]
            /\ \/ UNCHANGED <<owner, position, current>>
               \/ /\ owner' \in {owner, NoOwner}
                  /\ position' = [position EXCEPT ![w] = 0]
                  /\ current' = [current EXCEPT ![w] = 0]
    BY <1>4 DEF HandlerReturns, HandlerGivesUp, HandlerBreaksLoop, WorkerCrashes,
                Consumer!HandlerReturns, Consumer!HandlerFailsPermanently, Consumer!LoopEnds,
                Consumer!Crash
  <2>4. RunMove
    BY <1>2, <2>1, <2>2 DEF RunMove
  <2>5. Keeps
    BY <1>1, <2>1 DEF Keeps, PipelineTypes, ingressOnly
  <2>6. PipelineTypes'
    BY <1>1, <2>1, <2>3 DEF PipelineTypes, ingressOnly
  <2>7. rpc'[w] = "idle" /\ \A q \in Runners \ {w} : rpc'[q] = rpc[q] /\ job'[q] = job[q]
    BY <1>1, <1>2, <2>1 DEF Idle, Goto, TypeOK
  <2>8. \A r \in Requests : SameRequest(r)
    BY <1>2, <2>1, <2>7 DEF SameRequest, ingressOnly
  <2>9. \A v \in Workers \ {w} : SameWorker(v)
    BY <1>1, <1>2, <2>3, <2>7 DEF SameWorker, PipelineTypes
  <2>10. WorkerAt(w)'
    BY <1>1, <2>3, <2>7 DEF WorkerAt, PipelineTypes
  <2> QED
    BY <2>4, <2>5, <2>6, <2>8, <2>9, <2>10, WorkerMoves
<1> QED
  BY <1>3, <1>4 DEF HandlerStep

\* Every step of the pipeline keeps the invariant, and is for run_analysis a
\* step it knows.
LEMMA PipelineStep ==
    ASSUME PipelineInv, [Next]_vars
    PROVE  PipelineInv' /\ RunMove /\ Keeps
<1>1. ASSUME NEW r \in Requests, RequestNext(r)
      PROVE  PipelineInv' /\ RunMove /\ Keeps
  BY <1>1, IngressKeepsPipelineInv, InlineKeepsPipelineInv DEF RequestNext
<1>2. ASSUME NEW w \in Workers, WorkerNext(w)
      PROVE  PipelineInv' /\ RunMove /\ Keeps
  BY <1>2, ConsumerKeepsPipelineInv, HandlerKeepsPipelineInv DEF WorkerNext
<1>3. CASE UNCHANGED vars
  <2>1. RunMove
    BY <1>3 DEF vars, RunMove, PipelineInv, RunInv, TypeOK
  <2>2. UNCHANGED <<log, consumerOnly, ingressOnly>> /\ UNCHANGED <<rpc, job>>
    BY <1>3 DEF vars, runOnly
  <2> QED
    BY <2>1, <2>2, OnlyRunMoves
<1> QED
  BY <1>1, <1>2, <1>3, RunsKeepPipelineInv DEF Next

LEMMA PipelineBegins ==
    ASSUME Init
    PROVE  PipelineInv
<1>1. RunInit /\ RunInv
  BY InitHasInv DEF Init
<1>2. RowsInv
  BY <1>1 DEF RunInit, RowsInv
<1>3. PipelineTypes
  BY PipelineAssumption
  DEF Init, Consumer!Init, Ingress!Init, PipelineTypes, PipelineAssumption
<1>4. \A r \in Requests : rqpc[r] = "new" /\ rpc[r] = "idle"
  BY <1>1, PipelineAssumption DEF Init, Ingress!Init, RunInit, PipelineAssumption
<1>5. \A w \in Workers : wpc[w] = "down" /\ rpc[w] = "idle"
  BY <1>1, PipelineAssumption DEF Init, Consumer!Init, RunInit, PipelineAssumption
<1>6. (\A r \in Requests : RequestAt(r)) /\ InlineRunsDoNotOverlap
  BY <1>4 DEF RequestAt, InlineRunsDoNotOverlap, Ingress!InlineRunsDoNotOverlap
<1>7. \A w \in Workers : WorkerAt(w)
  BY <1>5 DEF WorkerAt
<1>8. log = <<>>
  BY DEF Init, Ingress!Init
<1> QED
  BY <1>1, <1>2, <1>3, <1>6, <1>7, <1>8 DEF PipelineInv

\* The invariant of the composition, for any number of requests and workers,
\* with Kafka and without.
THEOREM PipelineInvariant == Spec => []PipelineInv
<1>1. Init => PipelineInv
  BY PipelineBegins
<1>2. PipelineInv /\ [Next]_vars => PipelineInv'
  BY PipelineStep
<1> QED
  BY <1>1, <1>2, PTL DEF Spec

\* Without Kafka no two requests run the analysis of one commit, for any number
\* of deliveries that race and requests that die (InlineRunsDoNotOverlap): a
\* request runs only what it has inserted, and a row is never taken away.
THEOREM InlineRunsAreApart == Spec => []InlineRunsDoNotOverlap
<1>1. PipelineInv => InlineRunsDoNotOverlap
  BY DEF PipelineInv
<1> QED
  BY <1>1, PipelineInvariant, PTL

-----------------------------------------------------------------------------
(* Where there is one worker, or none is used. *)

\* Then no two runs are for one commit: with Kafka only the worker runs, and
\* without it a commit is run by the request that inserted its row.
LEMMA PipelineRunsApart ==
    ASSUME PipelineInv, SingleRunner
    PROVE  RunsApart
<1> SUFFICES ASSUME NEW p \in Runners, NEW q \in Runners,
                    rpc[p] # "idle", rpc[q] # "idle", job[p] = job[q]
             PROVE  p = q
  BY DEF RunsApart
<1>1. p \in Workers \cup Requests /\ q \in Workers \cup Requests
  BY PipelineAssumption DEF PipelineAssumption
<1>2. \A w \in Workers : rpc[w] # "idle" => kafka
  <2> SUFFICES ASSUME NEW w \in Workers, rpc[w] # "idle"
               PROVE  kafka
    OBVIOUS
  <2>1. current[w] \in Nat /\ current[w] < Len(log)
    BY DEF PipelineInv, PipelineTypes, WorkerAt
  <2>2. log # <<>>
    BY <2>1
  <2> QED
    BY <2>2 DEF PipelineInv
<1>3. \A r \in Requests : rpc[r] # "idle" => ~kafka /\ rqpc[r] = "run" /\ job[r] = body[r]
  BY DEF PipelineInv, RequestAt
<1>4. CASE p \in Workers
  BY <1>1, <1>2, <1>3, <1>4 DEF SingleRunner
<1>5. CASE p \in Requests
  <2>1. q \in Requests
    BY <1>1, <1>2, <1>3, <1>5
  <2> QED
    BY <1>3, <1>5, <2>1 DEF PipelineInv, InlineRunsDoNotOverlap, Ingress!InlineRunsDoNotOverlap
<1> QED
  BY <1>1, <1>4, <1>5

\* Kafka is enabled for the life of a deployment or not at all.
LEMMA SingleRunnerStays ==
    ASSUME PipelineInv, SingleRunner, [Next]_vars
    PROVE  SingleRunner'
BY PipelineStep DEF Keeps, SingleRunner

LEMMA PipelineLifeStep ==
    ASSUME PipelineInv, SingleRunner, LifeInv, [Next]_vars
    PROVE  Lives
BY PipelineStep, PipelineRunsApart, StepLives, RunAssumption DEF PipelineInv

\* The runs of the pipeline keep the invariant of runs that do not overlap.
THEOREM PipelineLifeInvariant == Spec /\ SingleRunner => [](SingleRunner /\ LifeInv)
<1>1. Init => LifeInv
  BY InitLives, RunAssumption DEF Init
<1>2. PipelineInv /\ SingleRunner /\ LifeInv /\ [Next]_vars => SingleRunner' /\ LifeInv'
  BY PipelineLifeStep, SingleRunnerStays DEF Lives
<1> QED
  BY <1>1, <1>2, PipelineInvariant, PTL DEF Spec

\* With one worker, or without Kafka, the pipeline implements AnalysisLife
\* (ImplementsAnalysisLife), for any number of requests, commits, redeliveries,
\* crashes and lost answers: as far as a row and GitHub tell, a commit is
\* decided once or has failed for good, and only its decision is shown.
THEOREM PipelineImplementsLife == Spec /\ SingleRunner => ImplementsAnalysisLife
<1>1. Init => Life!Init
  BY InitLives, RunAssumption DEF Init
<1>2. PipelineInv /\ SingleRunner /\ LifeInv /\ [Next]_vars => [Life!Next]_(Life!lifeVars)
  BY PipelineLifeStep DEF Lives, Life!lifeVars
<1> QED
  BY <1>1, <1>2, PipelineInvariant, PipelineLifeInvariant, PTL
  DEF Spec, ImplementsAnalysisLife, Life!Spec

\* With one worker, or without Kafka, risk is assessed once per commit
\* (AssessedOnce), however often its request is delivered.
THEOREM PipelineAssessesOnce == Spec /\ SingleRunner => []AssessedOnce
<1>1. PipelineInv /\ LifeInv => AssessedOnce
  BY LifeAssessesOnce DEF PipelineInv
<1> QED
  BY <1>1, PipelineInvariant, PipelineLifeInvariant, PTL

-----------------------------------------------------------------------------
(* What is committed is decided. *)

\* The status of a row and its stage.
LEMMA StageDecides ==
    ASSUME NEW s \in Statuses \cup {None}, None \notin Statuses
    PROVE  Stage(s) \in {"decided", "unpublished", "failed"} <=>
               s \in {"completed", "publish_failed", "failed"}
BY DEF Stage, Statuses

\* In the life of an analysis there is no way back from a decision.
LEMMA DecidedStays ==
    ASSUME RunInv, RunInv', Lives, NEW a \in Shas, Decided(a)
    PROVE  Decided(a)'
<1> DEFINE Late == {"decided", "unpublished", "failed"}
<1>1. None \notin Statuses
  BY RunAssumption DEF RunAssumption
<1>2. rows \in [Shas -> Rows] /\ rows' \in [Shas -> Rows]
  BY DEF RunInv, TypeOK
<1>3. rows[a].status \in Statuses \cup {None} /\ rows'[a].status \in Statuses \cup {None}
  BY <1>2 DEF Rows
<1>4. StageOf[a] = Stage(rows[a].status) /\ StageOf'[a] = Stage(rows'[a].status)
  BY DEF StageOf
<1>5. StageOf[a] \in Late
  BY <1>1, <1>3, <1>4, StageDecides DEF Decided
<1>6. StageOf'[a] \in Late
  <2>1. CASE Life!Next
    <3>1. PICK b \in Shas :
              \/ Life!Request(b) \/ Life!Decide(b) \/ Life!Fail(b) \/ Life!Show(b)
              \/ Life!PublicationFails(b) \/ Life!PublicationSucceeds(b)
      BY <2>1 DEF Life!Next
    <3>2. a \in DOMAIN StageOf
      BY DEF StageOf
    <3>3. \/ StageOf[b] \in {"none", "open"} /\ \E s : StageOf' = [StageOf EXCEPT ![b] = s]
          \/ StageOf' = StageOf
          \/ \E s \in {"decided", "unpublished"} : StageOf' = [StageOf EXCEPT ![b] = s]
      BY <3>1 DEF Life!Request, Life!Decide, Life!Fail, Life!Show, Life!PublicationFails,
                  Life!PublicationSucceeds, Life!Moves
    <3> QED
      BY <1>5, <3>2, <3>3
  <2>2. CASE UNCHANGED <<StageOf, DecisionOf, ShownOf>>
    BY <1>5, <2>2
  <2> QED
    BY <2>1, <2>2 DEF Lives
<1> QED
  BY <1>1, <1>3, <1>4, <1>6, StageDecides DEF Decided

\* A run returns only from an analysis that is decided.
LEMMA ReturnsDecided ==
    ASSUME RunInv, LifeInv, NEW p \in Runners, RunStep(p), rpc'[p] = "returned"
    PROVE  Decided(job[p])'
<1>1. TypeOK /\ FreshCopy(p) /\ local[p] \in Rows /\ job'[p] = job[p] /\ job[p] \in Shas
  <2>1. TypeOK /\ FreshCopy(p) /\ local[p] \in Rows
    BY DEF RunInv, LifeInv, TypeOK
  <2>2. rpc[p] # "idle" /\ job' = job
    BY <2>1, RunStepStays
  <2> QED
    BY <2>1, <2>2 DEF RunInv, RunnerSound, Prepared
<1>2. rows'[job[p]].status \in {"completed", "publish_failed", "failed"}
  <2>1. CASE Load(p)
    <3>1. rows[job[p]].status \in TerminalStatuses /\ rows' = rows
      BY <1>1, <2>1 DEF Load, Goto, Resume, TypeOK
    <3> QED
      BY <3>1 DEF TerminalStatuses
  <2>2. CASE SavePublished(p)
    <3> DEFINE new == [local[p] EXCEPT !.status = "completed", !.check = posted[p]]
    <3>1. posted[p] \in Nat \cup {None}
      BY <1>1 DEF TypeOK
    <3>2. new \in Rows
      BY <1>1, <3>1 DEF Rows, Statuses
    <3>3. new.status = "completed"
      BY <1>1 DEF Rows
    <3>4. Flush(p, new) /\ rpc[p] \in Working
      BY <2>2 DEF SavePublished, Working, Publishing
    <3> HIDE DEF new
    <3>5. rows'[job[p]] = new
      BY <1>1, <3>2, <3>4, FreshFlush
    <3> QED
      BY <3>3, <3>5
  <2>3. CASE SaveUnpublished(p)
    <3> DEFINE new == [local[p] EXCEPT !.status = "publish_failed"]
    <3>1. new \in Rows
      BY <1>1 DEF Rows, Statuses
    <3>2. new.status = "publish_failed"
      BY <1>1 DEF Rows
    <3>3. Flush(p, new) /\ rpc[p] \in Working
      BY <2>3 DEF SaveUnpublished, Working, Publishing
    <3> HIDE DEF new
    <3>4. rows'[job[p]] = new
      BY <1>1, <3>1, <3>3, FreshFlush
    <3> QED
      BY <3>2, <3>4
  <2>4. CASE Announce(p) \/ Publish(p)
    BY <1>1, <2>4 DEF Announce, Publish, Goto, TypeOK
  <2>5. CASE MarkInProgress(p) \/ SaveCheckRun(p) \/ SaveFailed(p) \/ Complete(p)
    BY <1>1, <2>5 DEF MarkInProgress, SaveCheckRun, SaveFailed, Complete, Goto, TypeOK
  <2>6. CASE RunPipeline(p) \/ MissingConfiguration(p) \/ PipelineError(p)
    BY <1>1, <2>6 DEF RunPipeline, MissingConfiguration, PipelineError, Goto, TypeOK
  <2> QED
    BY <2>1, <2>2, <2>3, <2>4, <2>5, <2>6 DEF RunStep
<1> QED
  BY <1>1, <1>2 DEF Decided

LEMMA ReturnsStayDecided ==
    ASSUME RunInv, RunInv', LifeInv, RunMove, Lives,
           \A p \in Runners : rpc[p] = "returned" => Decided(job[p])
    PROVE  \A p \in Runners : (rpc[p] = "returned" => Decided(job[p]))'
<1> SUFFICES ASSUME NEW p \in Runners, rpc'[p] = "returned"
             PROVE  Decided(job[p])'
  OBVIOUS
<1>1. ASSUME rpc[p] = rpc'[p], job'[p] = job[p]
      PROVE  Decided(job[p])'
  <2>1. job[p] \in Shas /\ Decided(job[p])
    BY <1>1 DEF RunInv, RunnerSound, Prepared
  <2>2. \A a \in Shas : Decided(a) => Decided(a)'
    BY DecidedStays
  <2>3. \A a \in Shas : a = job[p] => rows'[a].status \in {"completed", "publish_failed", "failed"}
    BY <2>1, <2>2 DEF Decided
  <2> QED
    BY <1>1, <2>1, <2>3 DEF Decided
<1>2. TypeOK
  BY DEF RunInv
<1>3. CASE Environment \/ UNCHANGED <<mapping, rows, runOnly>>
  <2>1. UNCHANGED <<rpc, job>>
    BY <1>3 DEF Environment, CreateMapping, DeleteMapping, RegisterVersion, CreateRow, runOnly
  <2> QED
    BY <1>1, <2>1
<1>4. ASSUME NEW q \in Runners, (\E a, e \in Shas : Begin(q, a, e)) \/ Idle(q)
      PROVE  Decided(job[p])'
  <2>1. rpc'[q] # "returned" /\ \A v \in Runners \ {q} : rpc'[v] = rpc[v] /\ job'[v] = job[v]
    BY <1>2, <1>4 DEF Begin, Idle, Goto, TypeOK
  <2> QED
    BY <1>1, <2>1
<1>5. ASSUME NEW q \in Runners, RunStep(q)
      PROVE  Decided(job[p])'
  <2>1. CASE q = p
    BY <1>5, <2>1, ReturnsDecided
  <2>2. CASE q # p
    BY <1>1, <1>2, <1>5, <2>2, RunStepStays
  <2> QED
    BY <2>1, <2>2
<1> QED
  BY <1>3, <1>4, <1>5 DEF RunMove, RunNext, Finish, Crash

\* Nothing that is settled becomes unsettled.
SettledStays == \A i \in 0 .. (Len(log) - 1) : Settles(i) => Settles(i)'

\* The owner keeps its duty if its offsets stay, and if it lets go of the
\* message in hand only when that is settled.
LEMMA OwnerStays ==
    ASSUME PipelineInv, PipelineInv', Keeps, SettledStays, NEW w \in Workers, OwnerAt(w),
           committed' = committed, position'[w] = position[w], current'[w] = current[w],
           wpc[w] \in {"handling", "dlq"} =>
               \/ wpc'[w] \in {"handling", "dlq"}
               \/ \A i \in Nat : i = current[w] => Settles(i)'
    PROVE  OwnerAt(w)'
<1>1. /\ committed \in Nat /\ position[w] \in Nat /\ current[w] \in Nat
      /\ Len(log) \in Nat /\ Len(log') \in Nat /\ Len(log) <= Len(log')
  BY DEF PipelineInv, PipelineTypes, Keeps
<1>2. committed' <= position'[w] /\ position'[w] <= Len(log')
  BY <1>1 DEF OwnerAt
<1>3. ASSUME NEW i \in 0 .. (position[w] - 1)
      PROVE  Settles(i)' \/ (wpc'[w] \in {"handling", "dlq"} /\ i = current'[w])
  <2>1. i \in Nat /\ i \in 0 .. (Len(log) - 1)
    BY <1>1 DEF OwnerAt
  <2>2. Settles(i) \/ (wpc[w] \in {"handling", "dlq"} /\ i = current[w])
    BY DEF OwnerAt
  <2> QED
    BY <2>1, <2>2 DEF SettledStays
<1> QED
  BY <1>2, <1>3 DEF OwnerAt

\* A step that commits nothing keeps the invariant if whoever owns the
\* partition after it keeps or takes up the duty.
LEMMA DutyStays ==
    ASSUME PipelineInv, PipelineInv', DecidedInv, Keeps, SettledStays,
           committed' = committed,
           \A w \in Workers : owner' = w => OwnerAt(w)',
           \A p \in Runners : (rpc[p] = "returned" => Decided(job[p]))'
    PROVE  DecidedInv'
<1>1. /\ committed \in Nat /\ Len(log) \in Nat /\ Len(log') \in Nat
      /\ Len(log) <= Len(log') /\ committed <= Len(log)
  BY DEF PipelineInv, PipelineTypes, Keeps, DecidedInv
<1>2. ASSUME NEW i \in 0 .. (committed - 1)
      PROVE  Settles(i)'
  <2>1. i \in 0 .. (Len(log) - 1) /\ Settles(i)
    BY <1>1 DEF DecidedInv
  <2> QED
    BY <2>1 DEF SettledStays
<1>3. (committed <= Len(log))'
  BY <1>1
<1>4. (\A i \in 0 .. (committed - 1) : Settles(i))'
  BY <1>2
<1> QED
  BY <1>3, <1>4 DEF DecidedInv

\* Steps that leave the consumer alone: runs, requests, and the call of the
\* handler.
LEMMA IdleLoopKeepsDuty ==
    ASSUME PipelineInv, PipelineInv', DecidedInv, Keeps, SettledStays,
           UNCHANGED consumerOnly,
           \A p \in Runners : (rpc[p] = "returned" => Decided(job[p]))'
    PROVE  DecidedInv'
<1>1. UNCHANGED <<committed, owner, position, wpc, current>>
  BY DEF consumerOnly
<1>2. ASSUME NEW w \in Workers, owner' = w
      PROVE  OwnerAt(w)'
  BY <1>1, <1>2, OwnerStays DEF DecidedInv
<1> QED
  BY <1>1, <1>2, DutyStays

\* The consumer loop.
LEMMA ConsumerKeepsDuty ==
    ASSUME PipelineInv, PipelineInv', DecidedInv, Keeps, SettledStays,
           NEW w \in Workers, ConsumerStep(w),
           \A p \in Runners : (rpc[p] = "returned" => Decided(job[p]))'
    PROVE  DecidedInv'
<1>1. /\ PipelineTypes /\ log' = log /\ committed \in Nat /\ position[w] \in Nat
      /\ Len(log) \in Nat /\ current[w] \in Nat
  BY DEF PipelineInv, PipelineTypes, ConsumerStep, Consumer!Start, Consumer!Assign,
         Consumer!Poll, Consumer!ToDlq, Consumer!Commit
<1>2. \A v \in Workers \ {w} :
          position'[v] = position[v] /\ wpc'[v] = wpc[v] /\ current'[v] = current[v]
  BY <1>1 DEF PipelineTypes, ConsumerStep, Consumer!Start, Consumer!Assign, Consumer!Poll,
              Consumer!ToDlq, Consumer!Commit
<1>3. ASSUME NEW v \in Workers, v # w, owner = v, committed' = committed
      PROVE  OwnerAt(v)'
  BY <1>2, <1>3, OwnerStays DEF DecidedInv
<1>4. CASE Consumer!Start(w)
  <2>1. /\ UNCHANGED <<committed, owner, position, current>>
        /\ wpc[w] \notin {"handling", "dlq"}
    BY <1>4 DEF Consumer!Start
  <2>2. ASSUME NEW v \in Workers, owner' = v
        PROVE  OwnerAt(v)'
    BY <1>3, <2>1, <2>2, OwnerStays DEF DecidedInv
  <2> QED
    BY <2>1, <2>2, DutyStays
<1>5. CASE Consumer!Assign(w)
  <2>1. committed' = committed /\ owner' = w /\ Consumer!StartOffset = committed
    BY <1>1, <1>5, PipelineAssumption
    DEF Consumer!Assign, Consumer!StartOffset, PipelineAssumption
  <2>2. position'[w] = committed
    BY <1>1, <1>5, <2>1 DEF Consumer!Assign, PipelineTypes
  <2>3. committed <= Len(log) /\ \A i \in 0 .. (committed - 1) : i \in 0 .. (Len(log) - 1)
    BY <1>1 DEF DecidedInv
  <2>4. \A i \in 0 .. (committed - 1) : Settles(i)'
    BY <2>3 DEF DecidedInv, SettledStays
  <2>5. OwnerAt(w)'
    BY <1>1, <2>1, <2>2, <2>3, <2>4 DEF OwnerAt
  <2> QED
    BY <2>1, <2>5, DutyStays
<1>6. CASE Consumer!Poll(w)
  <2>1. /\ UNCHANGED <<committed, owner>> /\ owner = w
        /\ wpc[w] = "ready" /\ position[w] < Len(log)
        /\ position'[w] = position[w] + 1 /\ current'[w] = position[w]
        /\ wpc'[w] \in {"handling", "dlq"}
    BY <1>1, <1>6 DEF Consumer!Poll, PipelineTypes
  <2>2. committed <= position[w] /\ \A i \in 0 .. (position[w] - 1) : Settles(i)
    BY <2>1 DEF DecidedInv, OwnerAt
  <2>3. \A i \in 0 .. (position[w] - 1) : Settles(i)'
    BY <1>1, <2>1, <2>2 DEF SettledStays
  <2>4. \A i \in 0 .. (position'[w] - 1) : i \in 0 .. (position[w] - 1) \/ i = current'[w]
    BY <1>1, <2>1
  <2>5. OwnerAt(w)'
    BY <1>1, <2>1, <2>2, <2>3, <2>4 DEF OwnerAt
  <2> QED
    BY <2>1, <2>5, DutyStays
<1>7. CASE Consumer!ToDlq(w)
  <2>1. /\ UNCHANGED <<committed, owner, position, current>>
        /\ current[w] \in dead' \cup dropped'
    BY <1>7 DEF Consumer!ToDlq
  <2>2. \A i \in Nat : i = current[w] => Settles(i)'
    BY <2>1 DEF Settles, GivenUp
  <2>3. ASSUME NEW v \in Workers, owner' = v
        PROVE  OwnerAt(v)'
    BY <1>3, <2>1, <2>2, <2>3, OwnerStays DEF DecidedInv
  <2> QED
    BY <2>1, <2>3, DutyStays
<1>8. CASE Consumer!Commit(w)
  <2>1. /\ UNCHANGED <<owner, position, current>>
        /\ wpc[w] \notin {"handling", "dlq"}
        /\ committed' = IF owner = w THEN position[w] ELSE committed
    BY <1>8 DEF Consumer!Commit
  <2>2. CASE owner = w
    <3>1. /\ committed <= position[w] /\ position[w] <= Len(log)
          /\ \A i \in 0 .. (position[w] - 1) : Settles(i)
      BY <2>1, <2>2 DEF DecidedInv, OwnerAt
    <3>2. \A i \in 0 .. (position[w] - 1) : Settles(i)'
      BY <1>1, <3>1 DEF SettledStays
    <3>3. committed' = position[w] /\ position'[w] = position[w]
      BY <2>1, <2>2
    <3>4. OwnerAt(w)'
      BY <1>1, <3>1, <3>2, <3>3 DEF OwnerAt
    <3>5. \A v \in Workers : owner' = v => OwnerAt(v)'
      BY <2>1, <2>2, <3>4
    <3>6. (\A i \in 0 .. (committed - 1) : Settles(i))' /\ (committed <= Len(log))'
      BY <1>1, <3>1, <3>2, <3>3
    <3> QED
      BY <3>5, <3>6 DEF DecidedInv
  <2>3. CASE owner # w
    <3>1. ASSUME NEW v \in Workers, owner' = v
          PROVE  OwnerAt(v)'
      BY <1>3, <2>1, <2>3, <3>1
    <3> QED
      BY <2>1, <2>3, <3>1, DutyStays
  <2> QED
    BY <2>2, <2>3
<1> QED
  BY <1>4, <1>5, <1>6, <1>7, <1>8 DEF ConsumerStep

\* The outcome of the handler, and the end of a worker.
LEMMA HandlerKeepsDuty ==
    ASSUME PipelineInv, PipelineInv', DecidedInv, Keeps, SettledStays, NEW w \in Workers,
           HandlerReturns(w) \/ HandlerGivesUp(w) \/ HandlerBreaksLoop(w) \/ WorkerCrashes(w),
           \A p \in Runners : (rpc[p] = "returned" => Decided(job[p]))'
    PROVE  DecidedInv'
<1>1. PipelineTypes /\ log' = log /\ committed' = committed
  BY DEF PipelineInv, HandlerReturns, HandlerGivesUp, HandlerBreaksLoop, WorkerCrashes,
         Consumer!HandlerReturns, Consumer!HandlerFailsPermanently, Consumer!LoopEnds,
         Consumer!Crash
<1>2. CASE HandlerReturns(w) \/ HandlerGivesUp(w)
  <2>1. /\ UNCHANGED <<owner, position, current>>
        /\ \A v \in Workers \ {w} : wpc'[v] = wpc[v]
    BY <1>1, <1>2 DEF HandlerReturns, HandlerGivesUp, Consumer!HandlerReturns,
                      Consumer!HandlerFailsPermanently, PipelineTypes
  <2>2. wpc'[w] \in {"handling", "dlq"} \/ \A i \in Nat : i = current[w] => Settles(i)'
    <3>1. CASE HandlerGivesUp(w)
      BY <1>1, <3>1 DEF HandlerGivesUp, Consumer!HandlerFailsPermanently, PipelineTypes
    <3>2. CASE HandlerReturns(w)
      <4>1. rpc[w] = "returned" /\ rows' = rows
        BY <3>2 DEF HandlerReturns, EndRun, Idle
      <4>2. Decided(job[w]) /\ job[w] = log[current[w] + 1]
        BY <4>1, PipelineAssumption DEF DecidedInv, PipelineInv, WorkerAt, PipelineAssumption
      <4> QED
        BY <1>1, <4>1, <4>2 DEF Settles, Decided
    <3> QED
      BY <1>2, <3>1, <3>2
  <2>3. ASSUME NEW v \in Workers, owner' = v
        PROVE  OwnerAt(v)'
    BY <1>1, <2>1, <2>2, <2>3, OwnerStays DEF DecidedInv
  <2> QED
    BY <1>1, <2>3, DutyStays
<1>3. CASE HandlerBreaksLoop(w) \/ WorkerCrashes(w)
  <2>1. Consumer!LoopEnds(w)
    BY <1>3 DEF HandlerBreaksLoop, WorkerCrashes, Consumer!Crash
  <2>2. /\ owner' = IF owner = w THEN NoOwner ELSE owner
        /\ \A v \in Workers \ {w} :
              position'[v] = position[v] /\ wpc'[v] = wpc[v] /\ current'[v] = current[v]
    BY <1>1, <2>1 DEF Consumer!LoopEnds, PipelineTypes
  <2>3. ASSUME NEW v \in Workers, owner' = v
        PROVE  OwnerAt(v)'
    <3>1. v # w /\ owner = v
      BY <2>2, <2>3, PipelineAssumption DEF PipelineAssumption
    <3> QED
      BY <1>1, <2>2, <3>1, OwnerStays DEF DecidedInv
  <2> QED
    BY <1>1, <2>3, DutyStays
<1> QED
  BY <1>2, <1>3

\* What has been given up stays so, and a decision is never taken back.
LEMMA PipelineSettledStays ==
    ASSUME PipelineInv, PipelineInv', Keeps, Lives, [Next]_vars
    PROVE  SettledStays
<1>1. dead \subseteq dead' /\ dropped \subseteq dropped'
  <2>1. ASSUME UNCHANGED consumerOnly
        PROVE  dead \subseteq dead' /\ dropped \subseteq dropped'
    BY <2>1 DEF consumerOnly
  <2>2. CASE \/ MappingAndRegistry \/ UNCHANGED vars
             \/ \E p \in Workers \cup Requests : Analyse(p)
    BY <2>1, <2>2 DEF MappingAndRegistry, Analyse, vars
  <2>3. ASSUME NEW r \in Requests, RequestNext(r)
        PROVE  dead \subseteq dead' /\ dropped \subseteq dropped'
    BY <2>1, <2>3 DEF RequestNext, IngressArrive, IngressStep, RunInline, RunInlineEnds,
                      RequestDies
  <2>4. ASSUME NEW w \in Workers, WorkerNext(w)
        PROVE  dead \subseteq dead' /\ dropped \subseteq dropped'
    <3>1. CASE ConsumerStep(w)
      BY <3>1 DEF ConsumerStep, Consumer!Start, Consumer!Assign, Consumer!Poll,
                  Consumer!ToDlq, Consumer!Commit
    <3>2. CASE Handle(w)
      BY <2>1, <3>2 DEF Handle
    <3>3. CASE HandlerReturns(w) \/ HandlerGivesUp(w) \/ HandlerBreaksLoop(w) \/ WorkerCrashes(w)
      BY <3>3 DEF HandlerReturns, HandlerGivesUp, HandlerBreaksLoop, WorkerCrashes,
                  Consumer!HandlerReturns, Consumer!HandlerFailsPermanently,
                  Consumer!LoopEnds, Consumer!Crash
    <3> QED
      BY <2>4, <3>1, <3>2, <3>3 DEF WorkerNext, HandlerStep
  <2> QED
    BY <2>2, <2>3, <2>4 DEF Next
<1>2. \A a \in Shas : Decided(a) => Decided(a)'
  BY DecidedStays DEF PipelineInv
<1>3. ASSUME NEW i \in 0 .. (Len(log) - 1), Settles(i)
      PROVE  Settles(i)'
  <2>1. log \in Seq(Shas) /\ Len(log) \in Nat
    BY DEF PipelineInv, PipelineTypes
  <2>2. i + 1 \in 1 .. Len(log)
    BY <2>1
  <2>3. log'[i + 1] = log[i + 1] /\ log[i + 1] \in Shas
    BY <2>1, <2>2 DEF Keeps
  <2>4. CASE Decided(log[i + 1])
    <3>1. \A a \in Shas : a = log[i + 1] =>
              rows'[a].status \in {"completed", "publish_failed", "failed"}
      BY <1>2, <2>4 DEF Decided
    <3> QED
      BY <2>3, <3>1 DEF Settles, Decided
  <2>5. CASE GivenUp(i)
    BY <1>1, <2>5 DEF Settles, GivenUp
  <2> QED
    BY <1>3, <2>4, <2>5 DEF Settles
<1> QED
  BY <1>3 DEF SettledStays

LEMMA PipelineKeepsDuty ==
    ASSUME PipelineInv, SingleRunner, LifeInv, DecidedInv, [Next]_vars
    PROVE  DecidedInv'
<1>1. PipelineInv' /\ RunMove /\ Keeps /\ Lives
  BY PipelineStep, PipelineLifeStep
<1>2. SettledStays
  BY <1>1, PipelineSettledStays
<1>3. \A p \in Runners : (rpc[p] = "returned" => Decided(job[p]))'
  BY <1>1, ReturnsStayDecided DEF PipelineInv, DecidedInv
<1>4. CASE \/ MappingAndRegistry \/ UNCHANGED vars
           \/ \E p \in Workers \cup Requests : Analyse(p)
  <2>1. UNCHANGED consumerOnly
    BY <1>4 DEF MappingAndRegistry, Analyse, vars
  <2> QED
    BY <1>1, <1>2, <1>3, <2>1, IdleLoopKeepsDuty
<1>5. ASSUME NEW r \in Requests, RequestNext(r)
      PROVE  DecidedInv'
  <2>1. UNCHANGED consumerOnly
    BY <1>5 DEF RequestNext, IngressArrive, IngressStep, RunInline, RunInlineEnds, RequestDies
  <2> QED
    BY <1>1, <1>2, <1>3, <2>1, IdleLoopKeepsDuty
<1>6. ASSUME NEW w \in Workers, WorkerNext(w)
      PROVE  DecidedInv'
  <2>1. CASE ConsumerStep(w)
    BY <1>1, <1>2, <1>3, <2>1, ConsumerKeepsDuty
  <2>2. CASE Handle(w)
    <3>1. UNCHANGED consumerOnly
      BY <2>2 DEF Handle
    <3> QED
      BY <1>1, <1>2, <1>3, <3>1, IdleLoopKeepsDuty
  <2>3. CASE HandlerReturns(w) \/ HandlerGivesUp(w) \/ HandlerBreaksLoop(w) \/ WorkerCrashes(w)
    BY <1>1, <1>2, <1>3, <2>3, HandlerKeepsDuty
  <2> QED
    BY <1>6, <2>1, <2>2, <2>3 DEF WorkerNext, HandlerStep
<1> QED
  BY <1>4, <1>5, <1>6 DEF Next

LEMMA DutyBegins ==
    ASSUME Init
    PROVE  DecidedInv
<1>1. log = <<>> /\ committed = 0 /\ owner = NoOwner
  BY DEF Init, Consumer!Init
<1>2. \A p \in Runners : rpc[p] = "idle"
  BY DEF Init, RunInit
<1> QED
  BY <1>1, <1>2, PipelineAssumption DEF DecidedInv, PipelineAssumption

\* With one worker, nothing is left behind (NothingLeftBehind): a request whose
\* offset is committed is decided or was handed to the dead-letter path,
\* wherever the worker crashed, whatever GitHub answered and however often the
\* request was delivered.
THEOREM PipelineLeavesNothingBehind == Spec /\ SingleRunner => []NothingLeftBehind
<1>1. Init => DecidedInv
  BY DutyBegins
<1>2. PipelineInv /\ SingleRunner /\ LifeInv /\ DecidedInv /\ [Next]_vars => DecidedInv'
  BY PipelineKeepsDuty
<1>3. PipelineInv /\ DecidedInv => NothingLeftBehind
  <2> SUFFICES ASSUME PipelineInv, DecidedInv, NEW i \in DOMAIN log, i <= committed
               PROVE  Decided(log[i]) \/ GivenUp(i - 1)
    BY DEF NothingLeftBehind
  <2>1. committed \in Nat /\ log \in Seq(Shas)
    BY DEF PipelineInv, PipelineTypes
  <2>2. i \in 1 .. Len(log) /\ Len(log) \in Nat
    BY <2>1
  <2>3. i - 1 \in 0 .. (committed - 1) /\ (i - 1) + 1 = i
    BY <2>1, <2>2
  <2>4. Settles(i - 1)
    BY <2>3 DEF DecidedInv
  <2> QED
    BY <2>3, <2>4 DEF Settles
<1> QED
  BY <1>1, <1>2, <1>3, PipelineInvariant, PipelineLifeInvariant, PTL DEF Spec

\* In the pipeline as a whole too, for any number of workers, a conclusion on
\* GitHub is backed by evidence committed before it, a finished row refers to
\* its evidence, and a check run belongs to the commit that names it.
THEOREM PipelinePublishesEvidence ==
    Spec => [](EvidenceBeforePublish /\ StatusBackedByEvidence /\ ExactShaPinning)
<1>1. PipelineInv => EvidenceBeforePublish /\ StatusBackedByEvidence /\ ExactShaPinning
  BY DEF PipelineInv, RunInv, RowSound, RunnerSound, CopySound, Evidence, CheckOf,
         StatusBackedByEvidence, ExactShaPinning
<1> QED
  BY <1>1, PipelineInvariant, PTL

-----------------------------------------------------------------------------
(* Part 4.  What the components promise by themselves holds in the pipeline. *)

ConsumerLoop == INSTANCE EventConsumerProofs WITH Events <- Shas, InitialCommitted <- 0

LEMMA ConsumerLoopAssumption == ConsumerLoop!ConsumerAssumption
BY PipelineAssumption, RunAssumption
DEF PipelineAssumption, RunAssumption, ConsumerLoop!ConsumerAssumption

\* To the loop a step of the pipeline is one of its own, an end of the loop by
\* an error it does not classify, or the arrival of a message.
LEMMA LoopMoves ==
    ASSUME PipelineInv, PipelineInv', [Next]_vars
    PROVE  ConsumerLoop!ConsumerMove
<1>1. faults' \in Nat
  BY DEF PipelineInv, RunInv, TypeOK
<1>2. ASSUME log' = log \/ \E m \in Shas : log' = Append(log, m), UNCHANGED consumerOnly
      PROVE  ConsumerLoop!ConsumerMove
  BY <1>1, <1>2 DEF consumerOnly, ConsumerLoop!ConsumerMove, ConsumerLoop!Arrives,
                    ConsumerLoop!Messages
<1>3. CASE UNCHANGED vars \/ MappingAndRegistry \/ \E p \in Workers \cup Requests : Analyse(p)
  <2>1. UNCHANGED <<log, consumerOnly>>
    BY <1>3 DEF vars, MappingAndRegistry, Analyse
  <2> QED
    BY <1>2, <2>1
<1>4. ASSUME NEW r \in Requests, RequestNext(r)
      PROVE  ConsumerLoop!ConsumerMove
  <2>1. UNCHANGED consumerOnly
    BY <1>4 DEF RequestNext, IngressArrive, IngressStep, RunInline, RunInlineEnds, RequestDies
  <2>2. log' = log \/ (rqpc[r] = "publish" /\ log' = Append(log, body[r]))
    BY <1>4 DEF RequestNext, IngressArrive, IngressStep, RunInline, RunInlineEnds, RequestDies,
                Ingress!Arrive, Ingress!Receive, Ingress!RequestStep, Ingress!Check,
                Ingress!Insert, Ingress!StartOrGet, Ingress!CreateRow, Ingress!PublishRequest,
                Ingress!PublishRequestFails, Ingress!RecordEnqueued, Ingress!RunInline,
                Ingress!Die, Ingress!At
  <2>3. rqpc[r] = "publish" => body[r] \in Shas
    BY DEF PipelineInv, RequestAt
  <2> QED
    BY <1>2, <2>1, <2>2, <2>3
<1>5. ASSUME NEW w \in Workers, WorkerNext(w)
      PROVE  ConsumerLoop!ConsumerMove
  <2>1. CASE ConsumerStep(w)
    <3>1. ConsumerLoop!WorkerStep(w)
      BY <2>1
      DEF ConsumerStep, Consumer!Start, Consumer!Assign, Consumer!StartOffset, Consumer!Poll,
          Consumer!ToDlq, Consumer!Commit, ConsumerLoop!WorkerStep, ConsumerLoop!Start,
          ConsumerLoop!Assign, ConsumerLoop!StartOffset, ConsumerLoop!Poll,
          ConsumerLoop!ToDlq, ConsumerLoop!Commit
    <3> QED
      BY <3>1 DEF ConsumerLoop!ConsumerMove
  <2>2. CASE Handle(w)
    BY <1>2, <2>2 DEF Handle
  <2>3. CASE HandlerReturns(w) \/ HandlerGivesUp(w)
    <3>1. ConsumerLoop!WorkerStep(w)
      BY <2>3
      DEF HandlerReturns, HandlerGivesUp, Consumer!HandlerReturns,
          Consumer!HandlerFailsPermanently, ConsumerLoop!WorkerStep, ConsumerLoop!HandlerStep,
          ConsumerLoop!HandlerReturns, ConsumerLoop!HandlerFailsPermanently
    <3> QED
      BY <3>1 DEF ConsumerLoop!ConsumerMove
  <2>4. CASE HandlerBreaksLoop(w) \/ WorkerCrashes(w)
    <3>1. ConsumerLoop!LoopEnds(w)
      BY <2>4
      DEF HandlerBreaksLoop, WorkerCrashes, Consumer!Crash, Consumer!LoopEnds,
          ConsumerLoop!LoopEnds
    <3> QED
      BY <1>1, <3>1 DEF ConsumerLoop!ConsumerMove
  <2> QED
    BY <1>5, <2>1, <2>2, <2>3, <2>4 DEF WorkerNext, HandlerStep
<1> QED
  BY <1>3, <1>4, <1>5 DEF Next

\* In the pipeline too, with the real handler and any number of workers, no
\* message is skipped and the committed offset never moves back
\* (NothingSkipped and CommittedMonotonic of EventConsumer), although an error
\* of the analysis may end the loop at any message.
THEOREM PipelineSkipsNothing ==
    Spec => []Consumer!NothingSkipped /\ Consumer!CommittedMonotonic
<1>1. Init => ConsumerLoop!ConsumerInv
  <2>1. Init => ConsumerLoop!Init
    BY DEF Init, Consumer!Init, ConsumerLoop!Init
  <2> QED
    BY <2>1, ConsumerLoop!ConsumerBegins, ConsumerLoopAssumption
<1>2. PipelineInv /\ PipelineInv' /\ ConsumerLoop!ConsumerInv /\ [Next]_vars =>
          /\ ConsumerLoop!ConsumerInv'
          /\ committed' \in Nat /\ committed' >= committed
  BY LoopMoves, ConsumerLoop!ConsumerStep, ConsumerLoopAssumption
<1>3. PipelineInv /\ PipelineInv' /\ ConsumerLoop!ConsumerInv /\ [Next]_vars =>
          [committed # NoOffset => committed' # NoOffset /\ committed' >= committed]_(Consumer!consumerVars)
  BY <1>2, PipelineAssumption DEF PipelineAssumption
<1>4. ConsumerLoop!ConsumerInv => Consumer!NothingSkipped
  BY DEF ConsumerLoop!ConsumerInv, ConsumerLoop!NothingSkipped, ConsumerLoop!Settled,
         Consumer!NothingSkipped, Consumer!Settled
<1> QED
  BY <1>1, <1>2, <1>3, <1>4, PipelineInvariant, PTL
  DEF Spec, Consumer!CommittedMonotonic

\* Of a row the requests only see whether it is there.
RowsSeen == [a \in Shas |-> IF rows[a] = NoRow THEN NoRow ELSE NewRow]

Requested == INSTANCE WebhookIngressProofs WITH rows <- RowsSeen

LEMMA RequestedAssumption == Requested!IngressAssumption
<1>1. NoRow # NewRow
  BY RunAssumption DEF RunAssumption, NoRow, NewRow, Statuses
<1> QED
  BY <1>1, PipelineAssumption, RunAssumption
  DEF PipelineAssumption, RunAssumption, Requested!IngressAssumption

\* Both instances count the elements of a set alike.
LEMMA SameCardinality ==
    ASSUME NEW S
    PROVE  Ingress!Cardinality(S) = Requested!Cardinality(S)
BY DEF Ingress!Cardinality, Requested!Cardinality

\* No run takes a row away or adds one.
LEMMA RunsLeaveRowsSeen ==
    ASSUME PipelineInv, NEW p \in Runners, RunStep(p)
    PROVE  UNCHANGED RowsSeen
<1>1. /\ \A a \in Shas : HasRow(a) => rows'[a].status \in Statuses
      /\ \A a \in Shas : rows[a] = NoRow => rows'[a] = NoRow
  BY RowsStay DEF PipelineInv
<1>2. \A a \in Shas : rows[a] = NoRow \/ HasRow(a)
  BY DEF PipelineInv, RowsInv
<1>3. NoRow.status \notin Statuses
  BY RunAssumption DEF NoRow, RunAssumption
<1>4. \A a \in Shas : (rows'[a] = NoRow) <=> (rows[a] = NoRow)
  BY <1>1, <1>2, <1>3
<1> QED
  BY <1>4 DEF RowsSeen

\* To the requests a step of the pipeline is one of their own, the end of a run
\* inside a request, or nothing they could notice.
LEMMA RequestsMove ==
    ASSUME PipelineInv, [Next]_vars
    PROVE  Requested!IngressMove
<1>1. ASSUME UNCHANGED <<log, ingressOnly>>, UNCHANGED RowsSeen
      PROVE  Requested!IngressMove
  BY <1>1 DEF ingressOnly, Requested!IngressMove
<1>2. rows' = rows => UNCHANGED RowsSeen
  BY DEF RowsSeen
<1>3. CASE UNCHANGED vars \/ MappingAndRegistry
  <2>1. UNCHANGED <<log, ingressOnly, rows>>
    BY <1>3 DEF vars, MappingAndRegistry, CreateMapping, DeleteMapping, RegisterVersion
  <2> QED
    BY <1>1, <1>2, <2>1
<1>4. ASSUME NEW p \in Workers \cup Requests, Analyse(p)
      PROVE  Requested!IngressMove
  BY <1>1, <1>4, RunsLeaveRowsSeen, PipelineAssumption DEF Analyse, PipelineAssumption
<1>5. ASSUME NEW w \in Workers, WorkerNext(w)
      PROVE  Requested!IngressMove
  <2>1. CASE ConsumerStep(w)
    BY <1>1, <1>2, <2>1 DEF ConsumerStep, Consumer!Start, Consumer!Assign, Consumer!Poll,
          Consumer!ToDlq, Consumer!Commit
  <2>2. CASE HandlerStep(w) \/ WorkerCrashes(w)
    BY <1>1, <1>2, <2>2
    DEF HandlerStep, Handle, Begin, HandlerReturns, HandlerGivesUp, HandlerBreaksLoop,
        WorkerCrashes, EndRun, Idle, Consumer!HandlerReturns,
        Consumer!HandlerFailsPermanently, Consumer!LoopEnds, Consumer!Crash
  <2> QED
    BY <1>5, <2>1, <2>2 DEF WorkerNext
<1>6. ASSUME NEW r \in Requests, RequestNext(r)
      PROVE  Requested!IngressMove
  <2>1. CASE RunInline(r)
    BY <1>1, <1>2, <2>1 DEF RunInline, Begin
  <2>2. CASE RunInlineEnds(r)
    <3>1. Requested!RunInline(r)
      BY <1>2, <2>2 DEF RunInlineEnds, Ingress!RunInline, Ingress!At, Ingress!Goto,
                        Requested!RunInline, Requested!At, Requested!Goto
    <3> QED
      BY <3>1 DEF Requested!IngressMove
  <2>3. CASE RequestDies(r)
    <3>1. Requested!Die(r)
      BY <1>2, <2>3 DEF RequestDies, Ingress!Die, Ingress!Answers, Ingress!Goto,
                        Requested!Die, Requested!Answers, Requested!Goto
    <3> QED
      BY <3>1 DEF Requested!IngressMove
  <2>4. CASE IngressArrive(r)
    <3>1. Requested!Arrive(r)
      BY <1>2, <2>4
      DEF IngressArrive, Ingress!Arrive, Ingress!Receive, Ingress!At, Ingress!Goto,
          Ingress!Record, Ingress!Bodies, Requested!Arrive, Requested!Receive, Requested!At,
          Requested!Goto, Requested!Record, Requested!Bodies
    <3> QED
      BY <3>1 DEF Requested!IngressMove
  <2>5. CASE IngressStep(r)
    <3>1. Requested!RequestStep(r)
      <4>1. CASE Ingress!StartOrGet(r)
        <5>1. body[r] \in Shas
          BY <4>1 DEF Ingress!StartOrGet, Ingress!At, PipelineInv, RequestAt
        <5>2. (RowsSeen[body[r]] = NoRow) <=> (rows[body[r]] = NoRow)
          BY <5>1, RequestedAssumption DEF RowsSeen, Requested!IngressAssumption
        <5>3. Requested!StartOrGet(r)
          BY <1>2, <4>1, <5>2
          DEF Ingress!StartOrGet, Ingress!At, Ingress!Goto, Requested!StartOrGet,
              Requested!At, Requested!Goto
        <5> QED
          BY <5>3 DEF Requested!RequestStep
      <4>2. CASE Ingress!CreateRow(r)
        <5>1. body[r] \in Shas /\ rows \in [Shas -> Rows]
          BY <4>2 DEF Ingress!CreateRow, Ingress!At, PipelineInv, RequestAt, RunInv, TypeOK
        <5>2. (RowsSeen[body[r]] = NoRow) <=> (rows[body[r]] = NoRow)
          BY <5>1, RequestedAssumption DEF RowsSeen, Requested!IngressAssumption
        <5>3. rows' = [rows EXCEPT ![body[r]] = NewRow] =>
                  RowsSeen' = [RowsSeen EXCEPT ![body[r]] = NewRow]
          BY <5>1, RequestedAssumption DEF RowsSeen, Requested!IngressAssumption
        <5>4. Requested!CreateRow(r)
          BY <1>2, <4>2, <5>2, <5>3
          DEF Ingress!CreateRow, Ingress!At, Ingress!Goto, Ingress!Record,
              Requested!CreateRow, Requested!At, Requested!Goto, Requested!Record
        <5> QED
          BY <5>4 DEF Requested!RequestStep
      <4>3. CASE Ingress!Check(r) \/ Ingress!Insert(r)
        BY <1>2, <4>3
        DEF Ingress!Check, Ingress!Insert, Ingress!At, Ingress!Goto, Ingress!Record,
            Requested!Check, Requested!Insert, Requested!At, Requested!Goto,
            Requested!Record, Requested!RequestStep
      <4>4. CASE \/ Ingress!PublishRequest(r) \/ Ingress!PublishRequestFails(r)
                 \/ Ingress!RecordEnqueued(r)
        BY <1>2, <4>4
        DEF Ingress!PublishRequest, Ingress!PublishRequestFails, Ingress!RecordEnqueued,
            Ingress!At, Ingress!Goto, Ingress!Record, Requested!PublishRequest,
            Requested!PublishRequestFails, Requested!RecordEnqueued, Requested!At,
            Requested!Goto, Requested!Record, Requested!RequestStep
      <4> QED
        BY <2>5, <4>1, <4>2, <4>3, <4>4 DEF IngressStep, Ingress!RequestStep
    <3> QED
      BY <3>1 DEF Requested!IngressMove
  <2> QED
    BY <1>6, <2>1, <2>2, <2>3, <2>4, <2>5 DEF RequestNext
<1> QED
  BY <1>3, <1>4, <1>5, <1>6 DEF Next

\* In the pipeline too, where workers and requests rewrite the rows at the same
\* time, a delivery is dispatched once, what is announced to GitHub or to a
\* worker is on record, and the audit trail tells what happened
\* (DispatchedOnce, AnnouncedIsRecorded and AuditTrail of WebhookIngress).
THEOREM PipelineRecordsRequests ==
    Spec => [](Ingress!DispatchedOnce /\ Ingress!AnnouncedIsRecorded /\ Ingress!AuditTrail)
<1>1. Init => Requested!IngressInv
  <2>1. Init => RowsSeen = [a \in Shas |-> NoRow]
    BY DEF Init, RunInit, RowsSeen
  <2>2. Init => Requested!Init
    BY <2>1 DEF Init, Ingress!Init, Ingress!AuditKinds, Requested!Init, Requested!AuditKinds
  <2> QED
    BY <2>2, Requested!InitInv, RequestedAssumption
<1>2. PipelineInv /\ Requested!IngressInv /\ [Next]_vars => Requested!IngressInv'
  BY RequestsMove, Requested!MoveInv, RequestedAssumption
<1>3. PipelineInv /\ Requested!IngressInv =>
          Ingress!DispatchedOnce /\ Ingress!AnnouncedIsRecorded /\ Ingress!AuditTrail
  <2> SUFFICES ASSUME PipelineInv, Requested!IngressInv
               PROVE  Ingress!DispatchedOnce /\ Ingress!AnnouncedIsRecorded /\ Ingress!AuditTrail
    OBVIOUS
  <2>1. \A a \in Shas : (RowsSeen[a] = NoRow) <=> (rows[a] = NoRow)
    BY RequestedAssumption DEF RowsSeen, Requested!IngressAssumption
  <2>2. Ingress!DispatchedOnce
    BY DEF Requested!IngressInv, Requested!DispatchedOnce, Requested!Dispatched,
           Ingress!DispatchedOnce, Ingress!Dispatched
  <2>3. Ingress!AnnouncedIsRecorded
    <3>1. \A i \in DOMAIN log : log[i] \in Shas
      BY DEF PipelineInv, PipelineTypes
    <3> QED
      BY <2>1, <3>1
      DEF Requested!IngressInv, Requested!AnnouncedIsRecorded, Requested!Dispatched,
          Ingress!AnnouncedIsRecorded, Ingress!Dispatched
  <2>4. Ingress!AuditTrail
    <3>1. Requested!AuditTrail
      BY Requested!BooksBalance, RequestedAssumption DEF Requested!IngressAssumption
    <3>2. \A d \in DeliveryIds :
              audit[<<"processed", d>>] = IF deliveries[d] = None THEN 0 ELSE 1
      BY <3>1 DEF Requested!AuditTrail
    <3>3. ASSUME NEW a \in Shas
          PROVE  /\ audit[<<"started", a>>] = IF rows[a] = NoRow THEN 0 ELSE 1
                 /\ audit[<<"enqueued", a>>] <=
                        Ingress!Cardinality({i \in DOMAIN log : log[i] = a})
      <4>1. audit[<<"started", a>>] = IF RowsSeen[a] = NoRow THEN 0 ELSE 1
        BY <3>1 DEF Requested!AuditTrail
      <4>2. audit[<<"enqueued", a>>] <=
                Requested!Cardinality({i \in DOMAIN log : log[i] = a})
        BY <3>1 DEF Requested!AuditTrail
      <4> QED
        BY <2>1, <4>1, <4>2, SameCardinality
    <3> QED
      BY <3>2, <3>3 DEF Ingress!AuditTrail
  <2> QED
    BY <2>2, <2>3, <2>4
<1> QED
  BY <1>1, <1>2, <1>3, PipelineInvariant, PTL DEF Spec

=============================================================================
