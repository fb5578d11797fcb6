--------------------------- MODULE EvidenceChain ----------------------------
(***************************************************************************)
(* Evidence with the compatibility engine and the comparison of values in  *)
(* place (a configuration gives Analyze, Analyzable and DiffValues their   *)
(* values): what the stored evidence says of the contracts themselves,     *)
(* from the two schemas and the two replays to the decision.               *)
(***************************************************************************)
EXTENDS Evidence, Compatibility

CONSTANT TestValues     \* the JSON values the schemas are tried on

Content(version) == world.contents[version]

\* The changes of a scan to the contract of one side of a tool.
ChangesOf(scan, side) == {x \in scan.changes : Head(x.path) = side}

OnlyCompatible(changes) == \A x \in changes : x.classification = "compatible"

\* What a caller of the baseline sends is accepted by the candidate.
CallersKeepWorking(b, c) ==
    LET before == Normalize(b)
        after == Normalize(c)
    IN  \A v \in TestValues : Conforms(before, v, TRUE) => Conforms(after, v, FALSE)

RECURSIVE Respelled(_, _)

\* The same schema up to the order and the repetition of its lists.
Respelled(b, c) ==
    IF b.dict /\ c.dict
    THEN /\ ToSet(b.type) = ToSet(c.type) /\ ToSet(b.enum) = ToSet(c.enum)
         /\ ToSet(b.required) = ToSet(c.required)
         /\ b.nullable = c.nullable /\ b.limits = c.limits
         /\ DOMAIN b.properties = DOMAIN c.properties
         /\ \A f \in DOMAIN b.properties : Respelled(b.properties[f], c.properties[f])
         /\ (b.items = {}) = (c.items = {})
         /\ \A x \in b.items, y \in c.items : Respelled(x, y)
    ELSE b.dict = c.dict /\ b = c

SameMeaning(b, c) ==
    CASE world.kind = "tool" ->
            /\ Respelled(b.input_schema, c.input_schema)
            /\ Respelled(b.output_schema, c.output_schema)
            /\ b.description = c.description
      [] world.kind = "schema" ->
            Respelled(b.schema_definition, c.schema_definition) /\ b.schema_format = c.schema_format
      [] world.kind = "prompt" ->
            /\ ToSet(b.variables) = ToSet(c.variables)
            /\ [b EXCEPT !.variables = {}] = [c EXCEPT !.variables = {}]
      [] world.kind = "agent" ->
            ToSet(b.tools) = ToSet(c.tools) /\ [b EXCEPT !.tools = {}] = [c EXCEPT !.tools = {}]
      [] OTHER -> b = c

RECURSIVE NewlyRequires(_, _)

\* The candidate declares and requires, somewhere, a field the baseline does
\* not require there.
NewlyRequires(b, c) ==
    /\ b.dict /\ c.dict
    /\ \/ (c.required \cap DOMAIN c.properties) \ b.required # {}
       \/ \E f \in DOMAIN b.properties \cap DOMAIN c.properties :
             NewlyRequires(b.properties[f], c.properties[f])
       \/ \E x \in b.items, y \in c.items : NewlyRequires(x, y)

\* How a change looks from the other side; the changes that are left out here
\* stay what they are.
Opposite ==
    [FIELD_ADDED |-> "FIELD_REMOVED", FIELD_REMOVED |-> "FIELD_ADDED",
     REQUIRED_FIELD_ADDED |-> "REQUIRED_FIELD_REMOVED",
     REQUIRED_FIELD_REMOVED |-> "REQUIRED_FIELD_ADDED",
     NULLABLE_TO_NON_NULLABLE |-> "NON_NULLABLE_TO_NULLABLE",
     NON_NULLABLE_TO_NULLABLE |-> "NULLABLE_TO_NON_NULLABLE",
     ENUM_VALUE_ADDED |-> "ENUM_VALUE_REMOVED", ENUM_VALUE_REMOVED |-> "ENUM_VALUE_ADDED",
     CONFIG_FIELD_ADDED |-> "CONFIG_FIELD_REMOVED", CONFIG_FIELD_REMOVED |-> "CONFIG_FIELD_ADDED",
     VARIABLE_ADDED |-> "VARIABLE_REMOVED", VARIABLE_REMOVED |-> "VARIABLE_ADDED",
     TOOL_ADDED |-> "TOOL_REMOVED", TOOL_REMOVED |-> "TOOL_ADDED",
     RULE_ADDED |-> "RULE_REMOVED", RULE_REMOVED |-> "RULE_ADDED",
     STEP_ADDED |-> "STEP_REMOVED", STEP_REMOVED |-> "STEP_ADDED",
     REQUIRED_STEP_REMOVED |-> "STEP_ADDED"]

\* STEP_ADDED of a required step is the opposite of REQUIRED_STEP_REMOVED.
Reversed(change) ==
    <<IF change.type \in DOMAIN Opposite THEN Opposite[change.type] ELSE change.type,
      change.path, change.about>>

Plainly(change) ==
    <<IF change.type = "REQUIRED_STEP_REMOVED" THEN "STEP_REMOVED" ELSE change.type,
      change.path, change.about>>

-----------------------------------------------------------------------------
(* Properties *)

\* A scan that finds nothing but compatible changes in a tool's input keeps
\* the callers of the baseline working, and in its output its consumers: the
\* values of the one contract are values of the other.  The two schemas must
\* declare types and enums in the same places.
CompatibleKeepsCallers ==
    world.kind = "tool" =>
        \A i \in DOMAIN scans :
            LET b == Content(scans[i].baseline)
                c == Content(scans[i].candidate)
            IN  /\ (/\ OnlyCompatible(ChangesOf(scans[i], "input_schema"))
                    /\ SameDeclarations(Normalize(b.input_schema), Normalize(c.input_schema)))
                   => CallersKeepWorking(b.input_schema, c.input_schema)
                /\ (/\ OnlyCompatible(ChangesOf(scans[i], "output_schema"))
                    /\ SameDeclarations(Normalize(b.output_schema), Normalize(c.output_schema)))
                   => CallersKeepWorking(c.output_schema, b.output_schema)

\* Contents that differ only in the order or the repetition of lists are not
\* a change, nor is a replay compared with itself: no finding, and no more
\* than a PASS.
SpellingIsNoChange ==
    /\ \A i \in DOMAIN scans :
          SameMeaning(Content(scans[i].baseline), Content(scans[i].candidate)) =>
              /\ scans[i].changes = {}
              /\ \A j \in DOMAIN assessments :
                    (assessments[j].scan = i /\ assessments[j].report = 0) =>
                        assessments[j].result.decision = "PASS"
    /\ \A i \in DOMAIN reports :
          reports[i].baseline = reports[i].candidate =>
              \A d \in reports[i].differences : d.types = {}

\* Two scans of the same versions, one each way round, find the same places:
\* what is added in one is removed in the other.
ScanMirrored ==
    \A i, j \in DOMAIN scans :
        /\ scans[i].baseline = scans[j].candidate
        /\ scans[i].candidate = scans[j].baseline
        => {Plainly(x) : x \in {y \in scans[i].changes : y.type # "ENUM_NARROWED"}}
             = {Reversed(x) : x \in {y \in scans[j].changes : y.type # "ENUM_NARROWED"}}

\* Comparing is symmetric: a version or a replay compared with itself, or with
\* another spelling of itself, shows no change, and a comparison the other way
\* round shows the mirror image.
ComparisonsAreSymmetric == SpellingIsNoChange /\ ScanMirrored /\ ReportMirrored

\* A candidate that requires an input field the baseline did not require is
\* blocked, whatever other evidence the assessment has.
NewRequiredInputBlocks ==
    world.kind = "tool" =>
        \A i \in DOMAIN assessments :
            (/\ assessments[i].scan # 0
             /\ LET scan == scans[assessments[i].scan]
                IN  NewlyRequires(Normalize(Content(scan.baseline).input_schema),
                                  Normalize(Content(scan.candidate).input_schema)))
            => assessments[i].result.decision = "BLOCK"

\* A stored difference shows no value from under a sensitive key: not inside
\* a value it displays, and not where both replays have one.
DifferencesAreRedacted ==
    \A i \in DOMAIN reports :
        \A d \in reports[i].differences :
            \A f \in d.fields.input \cup d.fields.output :
                /\ \A v \in f.old \cup f.new : ~ShowsSecret(v)
                /\ (f.path # <<>> /\ f.old # {} /\ f.new # {}) =>
                      (Last(f.path) \in SensitiveKeys => f.old = {Redacted} /\ f.new = {Redacted})

=============================================================================
