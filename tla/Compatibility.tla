--------------------------- MODULE Compatibility ----------------------------
(***************************************************************************)
(* The compatibility engine (app/compatibility/): what changed between the *)
(* contents of two versions of a component, and how bad each change is.    *)
(* It is a pure function; the service that stores its result is Evidence.  *)
(*                                                                         *)
(* A schema as it is stored is a record with the lists of the JSON         *)
(* document as sequences (an absent list, and an absent enum, is empty),   *)
(* limits and properties as functions on the keys that are present, and    *)
(* items a set of at most one schema.  A boolean schema has dict = FALSE.  *)
(* A change keeps what it is about (the value, the constraint) in about;   *)
(* messages and the order of display are left out.                         *)
(*                                                                         *)
(* diff_schemas and diff_mapping are RECURSIVE, so that this module is for *)
(* TLC's runs only.                                                        *)
(***************************************************************************)
EXTENDS ValueDiff, Integers, FiniteSets, FiniteSetsExt, SequencesExt, TLC

CONSTANT MaxSchemaDepth    \* _MAX_DEPTH of the normalizer

-----------------------------------------------------------------------------
(* rules.py *)

\* _SCHEMA_RULES: <<input, output, neutral>>, each <<classification, severity>>.
SchemaRules ==
    LET ok(s) == <<"compatible", s>>
        maybe(s) == <<"potentially_breaking", s>>
        breaks(s) == <<"breaking", s>>
    IN  [FIELD_ADDED |-> <<ok("info"), ok("info"), maybe("low")>>,
         FIELD_REMOVED |-> <<maybe("medium"), breaks("high"), maybe("medium")>>,
         REQUIRED_FIELD_ADDED |-> <<breaks("critical"), ok("info"), maybe("medium")>>,
         REQUIRED_FIELD_REMOVED |-> <<ok("low"), maybe("medium"), maybe("low")>>,
         TYPE_CHANGED |-> <<breaks("high"), breaks("high"), breaks("high")>>,
         NULLABLE_TO_NON_NULLABLE |-> <<breaks("high"), ok("info"), maybe("medium")>>,
         NON_NULLABLE_TO_NULLABLE |-> <<ok("info"), maybe("medium"), maybe("low")>>,
         ENUM_VALUE_ADDED |-> <<ok("info"), maybe("medium"), maybe("low")>>,
         ENUM_VALUE_REMOVED |-> <<breaks("high"), ok("low"), maybe("medium")>>,
         ENUM_NARROWED |-> <<breaks("high"), ok("low"), maybe("medium")>>,
         ARRAY_ITEM_TYPE_CHANGED |-> <<breaks("high"), breaks("high"), breaks("high")>>]

Reading == [input |-> 1, output |-> 2, neutral |-> 3]

\* _GENERIC_RULES
GenericRule(type) ==
    CASE type \in {"VARIABLE_ADDED", "METHOD_CHANGED", "REQUIRED_STEP_REMOVED"} ->
            <<"breaking", "high">>
      [] type \in {"CONFIG_FIELD_ADDED", "TOOL_ADDED", "DESCRIPTION_CHANGED",
                   "SERVER_NAME_CHANGED", "STEP_ADDED"} ->
            <<"compatible", "info">>
      [] type = "VARIABLE_REMOVED" -> <<"compatible", "low">>
      [] type \in {"CONFIG_FIELD_REMOVED", "PARAMETER_CHANGED", "STEP_ORDER_CHANGED",
                   "WORKFLOW_CONFIG_CHANGED"} ->
            <<"potentially_breaking", "low">>
      [] OTHER -> <<"potentially_breaking", "medium">>

\* Mutant of Classify: input and output are confused.
ClassifySwapped(type, direction) ==
    IF type \in DOMAIN SchemaRules
    THEN SchemaRules[type][CASE direction = "input" -> 2
                             [] direction = "output" -> 1
                             [] OTHER -> 3]
    ELSE GenericRule(type)

Classify(type, direction) ==
    IF type \in DOMAIN SchemaRules
    THEN SchemaRules[type][Reading[direction]]
    ELSE GenericRule(type)

TightensWhenLarger ==
    {"minimum", "exclusiveMinimum", "minLength", "minItems", "minProperties"}

TightensWhenSmaller ==
    {"maximum", "exclusiveMaximum", "maxLength", "maxItems", "maxProperties"}

\* _CONSTRAINT_KEYS: a schema's other keys are not compared.
ConstraintKeys ==
    TightensWhenLarger \cup TightensWhenSmaller \cup {"pattern", "uniqueItems", "multipleOf"}

\* True, False and None of the code are "yes", "no" and "unknown": only a bound
\* that is there on both sides has a direction.
ConstraintTightened(key, b, c) ==
    LET yes(condition) == IF condition THEN "yes" ELSE "no"
    IN  IF key \in DOMAIN b /\ key \in DOMAIN c
        THEN CASE key \in TightensWhenLarger -> yes(c[key] > b[key])
               [] key \in TightensWhenSmaller -> yes(c[key] < b[key])
               [] key = "uniqueItems" -> yes(c[key])
               [] OTHER -> "unknown"
        ELSE "unknown"

ClassifyConstraint(direction, tightened) ==
    CASE tightened = "unknown" -> <<"potentially_breaking", "medium">>
      [] tightened # "unknown" /\ direction = "input" ->
            IF tightened = "yes" THEN <<"potentially_breaking", "medium">>
            ELSE <<"compatible", "info">>
      [] tightened # "unknown" /\ direction = "output" ->
            IF tightened = "yes" THEN <<"compatible", "low">>
            ELSE <<"potentially_breaking", "medium">>
      [] OTHER -> <<"potentially_breaking", "low">>

DeriveStatus(changes) ==
    CASE \E c \in changes : c.classification = "breaking" -> "breaking"
      [] /\ \A c \in changes : c.classification # "breaking"
         /\ \E c \in changes : c.classification = "potentially_breaking" -> "warning"
      [] OTHER -> "compatible"

MakeChange(type, path, direction, about) ==
    [type |-> type, path |-> path, about |-> about,
     classification |-> Classify(type, direction)[1],
     severity |-> Classify(type, direction)[2]]

-----------------------------------------------------------------------------
(* schema_normalizer.py *)

RECURSIVE SchemaDepth(_), Normalize(_)

NestedSchemas(schema) ==
    IF schema.dict
    THEN {schema.properties[f] : f \in DOMAIN schema.properties} \cup schema.items
    ELSE {}

\* A single type, a limit and "nullable" are scalars, one level further down.
HasScalar(schema) ==
    schema.dict /\ (Len(schema.type) = 1 \/ DOMAIN schema.limits # {} \/ schema.nullable)

SchemaDepth(schema) ==
    Max({IF HasScalar(schema) THEN 1 ELSE 0}
        \cup {1 + SchemaDepth(s) : s \in NestedSchemas(schema)})

\* Past the depth limit SchemaNormalizationError is raised.
CanNormalize(schema) == SchemaDepth(schema) <= MaxSchemaDepth

\* The lists become sets: neither their order nor a repeated entry matters.
Normalize(schema) ==
    IF schema.dict
    THEN [schema EXCEPT
            !.type = ToSet(schema.type),
            !.enum = ToSet(schema.enum),
            !.required = ToSet(schema.required),
            !.properties = [f \in DOMAIN schema.properties |-> Normalize(schema.properties[f])],
            !.items = {Normalize(s) : s \in schema.items}]
    ELSE schema

-----------------------------------------------------------------------------
(* diff.py, on normalized schemas *)

\* A single "null" is a type like any other: only a list with another type
\* next to it makes the schema nullable.
Nullable(s) == s.nullable \/ ("null" \in s.type /\ s.type # {"null"})

NonNullType(s) == IF s.type = {"null"} THEN s.type ELSE s.type \ {"null"}

TypeChanges(b, c, direction, path) ==
    IF {} \notin {NonNullType(b), NonNullType(c)} /\ NonNullType(b) # NonNullType(c)
    THEN {MakeChange("TYPE_CHANGED", path, direction, "type")}
    ELSE {}

NullabilityChanges(b, c, direction, path) ==
    CASE Nullable(b) /\ ~Nullable(c) ->
            {MakeChange("NULLABLE_TO_NON_NULLABLE", path, direction, "type")}
      [] ~Nullable(b) /\ Nullable(c) ->
            {MakeChange("NON_NULLABLE_TO_NULLABLE", path, direction, "type")}
      [] OTHER -> {}

EnumChanges(b, c, direction, path) ==
    {MakeChange("ENUM_VALUE_REMOVED", path, direction, v) : v \in b.enum \ c.enum}
    \cup {MakeChange("ENUM_VALUE_ADDED", path, direction, v) : v \in c.enum \ b.enum}
    \cup IF c.enum # {} /\ c.enum \subseteq b.enum /\ c.enum # b.enum
         THEN {MakeChange("ENUM_NARROWED", path, direction, "enum")}
         ELSE {}

ConstraintChanges(b, c, direction, path) ==
    {LET rule == ClassifyConstraint(direction, ConstraintTightened(key, b.limits, c.limits))
     IN  [type |-> "CONSTRAINT_CHANGED", path |-> path, about |-> key,
          classification |-> rule[1], severity |-> rule[2]] :
        key \in {k \in ConstraintKeys \cap (DOMAIN b.limits \cup DOMAIN c.limits) :
                    k \in DOMAIN b.limits \cap DOMAIN c.limits => b.limits[k] # c.limits[k]}}

RECURSIVE DiffSchemas(_, _, _, _)

PropertyChanges(b, c, direction, path, f) ==
    LET at == path \o <<"properties", f>>
    IN  CASE f \notin DOMAIN c.properties ->
                {MakeChange(IF f \in b.required THEN "REQUIRED_FIELD_REMOVED" ELSE "FIELD_REMOVED",
                            at, direction, "presence")}
          [] f \notin DOMAIN b.properties ->
                {MakeChange(IF f \in c.required THEN "REQUIRED_FIELD_ADDED" ELSE "FIELD_ADDED",
                            at, direction, "presence")}
          [] OTHER ->
                DiffSchemas(b.properties[f], c.properties[f], direction, at)
                \cup {MakeChange("REQUIRED_FIELD_ADDED", at, direction, "required") :
                         x \in {f} \cap (c.required \ b.required)}
                \cup {MakeChange("REQUIRED_FIELD_REMOVED", at, direction, "required") :
                         x \in {f} \cap (b.required \ c.required)}

\* The type change of the items themselves is relabelled.
Relabel(change, direction, at) ==
    IF change.path = at /\ change.type = "TYPE_CHANGED"
    THEN MakeChange("ARRAY_ITEM_TYPE_CHANGED", at, direction, change.about)
    ELSE change

ItemChanges(b, c, direction, path) ==
    LET at == Append(path, "[]")
    IN  IF b.items # {} /\ c.items # {}
        THEN {Relabel(change, direction, at) :
                change \in DiffSchemas(CHOOSE s \in b.items : TRUE,
                                       CHOOSE s \in c.items : TRUE, direction, at)}
        ELSE IF b.items = c.items THEN {}
        ELSE {MakeChange("ARRAY_ITEM_TYPE_CHANGED", at, direction, "presence")}

DiffSchemas(b, c, direction, path) ==
    IF b.dict /\ c.dict
    THEN UNION {TypeChanges(b, c, direction, path),
                NullabilityChanges(b, c, direction, path),
                EnumChanges(b, c, direction, path),
                ConstraintChanges(b, c, direction, path),
                UNION {PropertyChanges(b, c, direction, path, f) :
                          f \in DOMAIN b.properties \cup DOMAIN c.properties},
                ItemChanges(b, c, direction, path)}
    ELSE IF b = c THEN {}
    ELSE {MakeChange("TYPE_CHANGED", path, direction, "schema")}

diff_schemas(b, c, direction, path) ==
    DiffSchemas(Normalize(b), Normalize(c), direction, path)

RECURSIVE DiffMapping(_, _, _, _)

\* types = <<added, removed, changed>>; values are JSON values of ValueDiff.
DiffMapping(b, c, path, types) ==
    {MakeChange(types[1], Append(path, k), "neutral", "presence") : k \in DOMAIN c \ DOMAIN b}
    \cup {MakeChange(types[2], Append(path, k), "neutral", "presence") : k \in DOMAIN b \ DOMAIN c}
    \cup UNION {CASE b[k].type = "object" /\ c[k].type = "object" ->
                        DiffMapping(b[k].content, c[k].content, Append(path, k), types)
                  [] {b[k].type, c[k].type} # {"object"} /\ ~SameValue(b[k], c[k]) ->
                        {MakeChange(types[3], Append(path, k), "neutral", "value")}
                  [] OTHER -> {} :
                     k \in DOMAIN b \cap DOMAIN c}

ConfigTypes(changed) == <<"CONFIG_FIELD_ADDED", "CONFIG_FIELD_REMOVED", changed>>

-----------------------------------------------------------------------------
(* analyzer.py *)

\* A field of the content with another value.
FieldChange(b, c, field, type) ==
    IF b[field] = c[field] THEN {} ELSE {MakeChange(type, <<field>>, "neutral", "value")}

AnalyzeSchema(b, c) ==
    diff_schemas(b.schema_definition, c.schema_definition, "neutral", <<>>)
    \cup FieldChange(b, c, "schema_format", "VALUE_CHANGED")

AnalyzeTool(b, c) ==
    diff_schemas(b.input_schema, c.input_schema, "input", <<"input_schema">>)
    \cup diff_schemas(b.output_schema, c.output_schema, "output", <<"output_schema">>)
    \cup FieldChange(b, c, "description", "DESCRIPTION_CHANGED")

AnalyzeMcpServer(b, c) ==
    FieldChange(b, c, "server_name", "SERVER_NAME_CHANGED")
    \cup FieldChange(b, c, "transport", "TRANSPORT_CHANGED")
    \cup FieldChange(b, c, "endpoint", "ENDPOINT_CHANGED")
    \cup DiffMapping(b.settings, c.settings, <<"settings">>, ConfigTypes("VALUE_CHANGED"))

AnalyzeModel(b, c) ==
    FieldChange(b, c, "provider", "PROVIDER_CHANGED")
    \cup FieldChange(b, c, "model_identifier", "MODEL_IDENTIFIER_CHANGED")
    \cup DiffMapping(b.parameters, c.parameters, <<"parameters">>,
                     ConfigTypes("PARAMETER_CHANGED"))

AnalyzePrompt(b, c) ==
    FieldChange(b, c, "template", "CONTENT_CHANGED")
    \cup {MakeChange("VARIABLE_ADDED", <<"variables", v>>, "neutral", "presence") :
             v \in ToSet(c.variables) \ ToSet(b.variables)}
    \cup {MakeChange("VARIABLE_REMOVED", <<"variables", v>>, "neutral", "presence") :
             v \in ToSet(b.variables) \ ToSet(c.variables)}
    \cup DiffMapping(b.settings, c.settings, <<"settings">>, ConfigTypes("VALUE_CHANGED"))

AnalyzeApi(b, c) ==
    FieldChange(b, c, "base_url", "BASE_URL_CHANGED")
    \cup FieldChange(b, c, "method", "METHOD_CHANGED")
    \cup DiffMapping(b.auth, c.auth, <<"auth">>, ConfigTypes("AUTH_CHANGED"))

\* A step is known by its id (or name), and by its position without one.
StepKeys(steps) ==
    [i \in DOMAIN steps |-> IF steps[i].id = "" THEN ToString(i - 1) ELSE steps[i].id]

\* Of two steps with one key the later is kept.
StepByKey(steps, k) == steps[Max({i \in DOMAIN steps : StepKeys(steps)[i] = k})]

\* Mutant of StepChanges: only the steps of the baseline are looked at.
StepChangesRemovedOnly(b, c) ==
    {MakeChange("STEP_REMOVED", <<"steps", k>>, "neutral", "presence") :
        k \in ToSet(StepKeys(b)) \ ToSet(StepKeys(c))}

StepChanges(b, c) ==
    LET bKeys == ToSet(StepKeys(b))
        cKeys == ToSet(StepKeys(c))
        common(k) == k \in bKeys \cap cKeys
    IN  {MakeChange(IF StepByKey(b, k).required THEN "REQUIRED_STEP_REMOVED" ELSE "STEP_REMOVED",
                    <<"steps", k>>, "neutral", "presence") : k \in bKeys \ cKeys}
        \cup {MakeChange("STEP_ADDED", <<"steps", k>>, "neutral", "presence") :
                 k \in cKeys \ bKeys}
        \cup IF SelectSeq(StepKeys(b), common) = SelectSeq(StepKeys(c), common) THEN {}
             ELSE {MakeChange("STEP_ORDER_CHANGED", <<"steps">>, "neutral", "order")}

\* Without a list of steps on both sides (hasSteps), steps is a key like any
\* other of the definition, and only its presence and value count.
AnalyzeWorkflow(b, c) ==
    DiffMapping(b.rest, c.rest, <<"definition">>, ConfigTypes("WORKFLOW_CONFIG_CHANGED"))
    \cup CASE b.hasSteps /\ c.hasSteps -> StepChanges(b.steps, c.steps)
           [] b.hasSteps /\ ~c.hasSteps ->
                 {MakeChange("CONFIG_FIELD_REMOVED", <<"definition", "steps">>, "neutral",
                             "presence")}
           [] ~b.hasSteps /\ c.hasSteps ->
                 {MakeChange("CONFIG_FIELD_ADDED", <<"definition", "steps">>, "neutral",
                             "presence")}
           [] OTHER -> {}

AnalyzePolicy(b, c) ==
    DiffMapping(b.rules, c.rules, <<"rules">>, <<"RULE_ADDED", "RULE_REMOVED", "RULE_CHANGED">>)

AnalyzeAgent(b, c) ==
    FieldChange(b, c, "model_ref", "MODEL_REF_CHANGED")
    \cup FieldChange(b, c, "prompt_ref", "PROMPT_REF_CHANGED")
    \cup {MakeChange("TOOL_REMOVED", <<"tools", t>>, "neutral", "presence") :
             t \in ToSet(b.tools) \ ToSet(c.tools)}
    \cup {MakeChange("TOOL_ADDED", <<"tools", t>>, "neutral", "presence") :
             t \in ToSet(c.tools) \ ToSet(b.tools)}
    \cup DiffMapping(b.system_config, c.system_config, <<"system_config">>,
                     ConfigTypes("VALUE_CHANGED"))

Schemas(kind, content) ==
    CASE kind = "tool" -> {content.input_schema, content.output_schema}
      [] kind = "schema" -> {content.schema_definition}
      [] OTHER -> {}

\* A "provider" has no comparison (UnsupportedCompatibilityType), and a schema
\* may be too deep to normalize.
CanAnalyze(kind, b, c) ==
    /\ kind # "provider"
    /\ \A s \in Schemas(kind, b) \cup Schemas(kind, c) : CanNormalize(s)

Dispatch(kind, b, c) ==
    CASE kind = "schema" -> AnalyzeSchema(b, c)
      [] kind = "tool" -> AnalyzeTool(b, c)
      [] kind = "mcp_server" -> AnalyzeMcpServer(b, c)
      [] kind = "model" -> AnalyzeModel(b, c)
      [] kind = "prompt" -> AnalyzePrompt(b, c)
      [] kind = "api" -> AnalyzeApi(b, c)
      [] kind = "workflow" -> AnalyzeWorkflow(b, c)
      [] kind = "policy" -> AnalyzePolicy(b, c)
      [] kind = "agent" -> AnalyzeAgent(b, c)

CompatibilityAnalysis(kind, b, c) ==
    LET changes == Dispatch(kind, b, c)
    IN  [status |-> DeriveStatus(changes), changes |-> changes]

-----------------------------------------------------------------------------
(* Reference: what a schema accepts. *)

RECURSIVE Conforms(_, _, _)

WithinLimits(s, v) ==
    v.type = "integer" =>
        /\ "minimum" \in DOMAIN s.limits => v.content >= s.limits["minimum"]
        /\ "maximum" \in DOMAIN s.limits => v.content <= s.limits["maximum"]

\* The JSON value v conforms to the normalized schema s.  With closed, an
\* object has no fields but the declared ones: what a caller that knows s sends.
Conforms(s, v, closed) ==
    IF ~s.dict THEN s.accepts
    ELSE \/ v.type = "null" /\ Nullable(s)
         \/ /\ NonNullType(s) = {} \/ v.type \in NonNullType(s)
            /\ s.enum = {} \/ v.content \in s.enum
            /\ WithinLimits(s, v)
            /\ v.type = "object" =>
                  /\ s.required \subseteq DOMAIN v.content
                  /\ \A f \in DOMAIN v.content :
                        IF f \in DOMAIN s.properties
                        THEN Conforms(s.properties[f], v.content[f], closed)
                        ELSE ~closed
            /\ v.type = "array" =>
                  \A i \in DOMAIN v.content, item \in s.items :
                      Conforms(item, v.content[i], closed)

RECURSIVE SameDeclarations(_, _)

\* Both schemas declare a type or neither does, and an enum likewise; what is
\* required is declared.
SameDeclarations(b, c) ==
    (b.dict /\ c.dict) =>
        /\ (b.type = {}) = (c.type = {})
        /\ (b.enum = {}) = (c.enum = {})
        /\ b.required \subseteq DOMAIN b.properties
        /\ c.required \subseteq DOMAIN c.properties
        /\ \A f \in DOMAIN b.properties \cap DOMAIN c.properties :
              SameDeclarations(b.properties[f], c.properties[f])
        /\ \A x \in b.items, y \in c.items : SameDeclarations(x, y)

=============================================================================
