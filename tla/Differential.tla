---------------------------- MODULE Differential ----------------------------
(***************************************************************************)
(* The differential analyzer (app/differential/): the steps of a baseline  *)
(* and of a candidate replay are aligned, each aligned pair is compared,   *)
(* and the differences are summed up.  A pure function of the two lists of *)
(* steps; the service that stores its result is Evidence.                  *)
(*                                                                         *)
(* A pair names its steps by their positions in the two lists, 0 for a     *)
(* side without one.  A report is a set of step differences: the order in  *)
(* which they are shown is left out.  A step is a record of its event, seq *)
(* (sequence number), kind, status, component, version, input, output,     *)
(* error and duration; an error has up to three labels.                    *)
(***************************************************************************)
EXTENDS Integers, Sequences, FiniteSets

CONSTANTS
    None,              \* no component, no version, no error, no duration
    DiffValues(_, _)   \* value_diff.diff_values: a set of records with a type

-----------------------------------------------------------------------------
(* alignment.py *)

Pair(method, i, j) == [method |-> method, b |-> i, c |-> j]

Baselines(pairs) == {p.b : p \in pairs} \ {0}

Candidates(pairs) == {p.c : p \in pairs} \ {0}

\* The steps no pair has taken yet.
RemainingB(b, pairs) == DOMAIN b \ Baselines(pairs)

RemainingC(c, pairs) == DOMAIN c \ Candidates(pairs)

\* _index: position i is the first of the remaining ones with its value of the key.
FirstWith(steps, remaining, field, i) ==
    \A k \in remaining : steps[k][field] = steps[i][field] => i <= k

\* Passes 1 and 2: the steps that agree on field are paired.
PairByField(method, field, b, c, pairs) ==
    {Pair(method, ij[1], ij[2]) :
        ij \in {xy \in RemainingB(b, pairs) \X RemainingC(c, pairs) :
                  /\ b[xy[1]][field] = c[xy[2]][field]
                  /\ FirstWith(b, RemainingB(b, pairs), field, xy[1])
                  /\ FirstWith(c, RemainingC(c, pairs), field, xy[2])}}

\* _group_by_component: how many of the remaining steps of the same component
\* come before step i.
Rank(steps, remaining, i) ==
    Cardinality({k \in remaining : /\ steps[k].component = steps[i].component
                                   /\ \/ steps[k].seq < steps[i].seq
                                      \/ steps[k].seq = steps[i].seq /\ k < i})

\* Pass 3: the steps of a component, in order, until one side has no more.
PairByComponent(b, c, pairs) ==
    {Pair("component_identity", ij[1], ij[2]) :
        ij \in {xy \in RemainingB(b, pairs) \X RemainingC(c, pairs) :
                  /\ b[xy[1]].component # None
                  /\ b[xy[1]].component = c[xy[2]].component
                  /\ Rank(b, RemainingB(b, pairs), xy[1]) = Rank(c, RemainingC(c, pairs), xy[2])}}

\* Pass 4: what is left.
Unmatched(b, c, pairs) ==
    {Pair("unmatched", i, 0) : i \in RemainingB(b, pairs)}
    \cup {Pair("unmatched", 0, j) : j \in RemainingC(c, pairs)}

\* Mutant of AlignSteps: the pass by component is missing.
AlignStepsShort(b, c) ==
    LET byEvent == PairByField("source_event_id", "event", b, c, {})
        bySeq == byEvent \cup PairByField("sequence_number", "seq", b, c, byEvent)
    IN  bySeq \cup Unmatched(b, c, bySeq)

AlignSteps(b, c) ==
    LET byEvent == PairByField("source_event_id", "event", b, c, {})
        bySeq == byEvent \cup PairByField("sequence_number", "seq", b, c, byEvent)
        byComponent == bySeq \cup PairByComponent(b, c, bySeq)
    IN  byComponent \cup Unmatched(b, c, byComponent)

-----------------------------------------------------------------------------
(* analyzer.py *)

\* The first label that is set; an error without one is "unknown".
ErrorCategory(error) ==
    CASE error.category # None -> error.category
      [] error.category = None /\ error.type # None -> error.type
      [] error.category = None /\ error.type = None /\ error.code # None -> error.code
      [] OTHER -> "unknown"

DiffErrors(b, c) ==
    CASE b.error # None /\ c.error = None -> {"ERROR_RESOLVED"}
      [] b.error = None /\ c.error # None -> {"ERROR_INTRODUCED"}
      [] b.error # None /\ c.error # None ->
            IF ErrorCategory(b.error) = ErrorCategory(c.error) THEN {} ELSE {"ERROR_CHANGED"}
      [] OTHER -> {}

LatencyChanged(b, c) == b.duration # None /\ c.duration # None /\ b.duration # c.duration

\* percent_delta, rounded down; None where the baseline took no time.
LatencyPercent(b, c) ==
    IF LatencyChanged(b, c) /\ b.duration > 0
    THEN (100 * (c.duration - b.duration)) \div b.duration
    ELSE None

\* The types of an aligned pair of steps.
DiffPair(b, c) ==
    LET outputs == DiffValues(b.output, c.output)
        when(condition, type) == IF condition THEN {type} ELSE {}
    IN  UNION {when(b.status # c.status, "STEP_STATUS_CHANGED"),
               when(b.kind # c.kind, "PROVIDER_INVOCATION_CHANGED"),
               when(b.component # c.component \/ b.version # c.version, "TOOL_CHANGED"),
               when(DiffValues(b.input, c.input) # {}, "INPUT_CHANGED"),
               when(outputs # {}, "OUTPUT_CHANGED"),
               when(\E d \in outputs : d.type = "SCHEMA_CHANGED", "SCHEMA_CHANGED"),
               DiffErrors(b, c),
               when(LatencyChanged(b, c), "LATENCY_CHANGED")}

\* A StepDifference as it is stored: fields are its output_differences, which
\* are those of the input too.
StepDifference(b, c, p) ==
    [method |-> p.method, b |-> p.b, c |-> p.c,
     types |-> CASE p.b = 0 -> {"STEP_ADDED"}
                 [] p.b # 0 /\ p.c = 0 -> {"STEP_REMOVED"}
                 [] OTHER -> DiffPair(b[p.b], c[p.c]),
     baseline_status |-> IF p.b = 0 THEN None ELSE b[p.b].status,
     latency_percent |-> IF 0 \in {p.b, p.c} THEN None ELSE LatencyPercent(b[p.b], c[p.c]),
     fields |-> IF 0 \in {p.b, p.c} THEN [input |-> {}, output |-> {}]
                ELSE [input |-> DiffValues(b[p.b].input, c[p.c].input),
                      output |-> DiffValues(b[p.b].output, c[p.c].output)]]

Count(differences, type) == Cardinality({d \in differences : type \in d.types})

Summarize(b, c, differences) ==
    LET matched == {d \in differences : d.method # "unmatched"}
    IN  [total_baseline |-> Len(b),
         total_candidate |-> Len(c),
         matched |-> Cardinality(matched),
         added |-> Cardinality({d \in differences \ matched : d.b = 0}),
         removed |-> Cardinality({d \in differences \ matched : d.b # 0}),
         changed |-> Cardinality({d \in matched : d.types # {}}),
         new_failures |-> Count(matched, "ERROR_INTRODUCED"),
         resolved_failures |-> Count(matched, "ERROR_RESOLVED"),
         changed_outputs |-> Count(matched, "OUTPUT_CHANGED"),
         schema_changes |-> Count(matched, "SCHEMA_CHANGED")]

DifferentialAnalysis(b, c) ==
    LET differences == {StepDifference(b, c, p) : p \in AlignSteps(b, c)}
    IN  [differences |-> differences, summary |-> Summarize(b, c, differences)]

=============================================================================
