----------------------------- MODULE MCEvidence -----------------------------
(***************************************************************************)
(* Instances of EvidenceChain for TLC: pairs of contents of every kind of  *)
(* component, pairs of replays, and who asks for what.                     *)
(***************************************************************************)
EXTENDS EvidenceChain

CONSTANTS v1, v2, r1, r2, ann, bob, cal, dee, tool, other

Str(x) == Json("string", x)

Int1(n) == Json("integer", n)

Obj(fields) == Json("object", fields)

-----------------------------------------------------------------------------
(* Schemas *)

AnySchema == [dict |-> TRUE, type |-> <<>>, nullable |-> FALSE, enum |-> <<>>, limits |-> <<>>,
        properties |-> <<>>, required |-> <<>>, items |-> {}]

Typed(t) == [AnySchema EXCEPT !.type = <<t>>]

EnumOf(values) == [Typed("string") EXCEPT !.enum = values]

Bounded(limits) == [Typed("integer") EXCEPT !.limits = limits]

ObjectOf(properties, required) ==
    [Typed("object") EXCEPT !.properties = properties, !.required = required]

ArrayOf(schema) == [Typed("array") EXCEPT !.items = {schema}]

Boolean(accepts) == [dict |-> FALSE, accepts |-> accepts]

\* Neighbours differ in what the rules tell apart; some only in spelling.
SchemaList ==
    <<Typed("string"), Typed("integer"), [Typed("string") EXCEPT !.type = <<"null", "string">>],
      [Typed("string") EXCEPT !.nullable = TRUE],
      EnumOf(<<"a">>), EnumOf(<<"a", "b">>), EnumOf(<<"b", "a", "b">>),
      Bounded("minimum" :> 0), Bounded("minimum" :> 1), Bounded("maximum" :> 1),
      ObjectOf("f" :> Typed("string"), <<>>), ObjectOf("f" :> Typed("string"), <<"f">>),
      ObjectOf("f" :> Typed("string"), <<"f", "f">>), ObjectOf("f" :> EnumOf(<<"a">>), <<"f">>),
      ObjectOf(<<>>, <<>>),
      ObjectOf("f" :> Typed("string") @@ "g" :> Typed("integer"), <<"f">>),
      ObjectOf("f" :> Typed("string") @@ "g" :> Typed("integer"), <<"g", "f">>),
      ArrayOf(Typed("string")), ArrayOf(EnumOf(<<"a", "b">>)), Typed("array"),
      ArrayOf(ObjectOf("f" :> Typed("string"), <<"f">>)),
      ArrayOf(ObjectOf("f" :> Typed("string"), <<>>)),
      Boolean(TRUE)>>

MCTestValues ==
    LET leaves == {Json("null", "null"), Str("a"), Str("b"), Str("c"),
                   Int1(0), Int1(1), Int1(2)}
    IN  leaves
        \cup {Obj(<<>>)} \cup {Obj("f" :> v) : v \in leaves}
        \cup {Obj("f" :> v @@ "g" :> w) : v \in leaves, w \in {Int1(0), Str("a")}}
        \cup {Json("array", <<>>), Json("array", <<Obj(<<>>)>>)}
        \cup {Json("array", <<v>>) : v \in leaves} \cup {Json("array", <<Obj("f" :> Str("a"))>>)}

-----------------------------------------------------------------------------
(* Contents *)

ToolContent(input, output, description) ==
    [input_schema |-> input, output_schema |-> output, description |-> description]

Versioned(x, y) == v1 :> x @@ v2 :> y

Step1(event, seq, component, status, output, error, duration) ==
    [event |-> event, seq |-> seq, kind |-> IF component = tool THEN "substituted" ELSE "reused",
     status |-> status, component |-> component, version |-> component,
     input |-> Obj("q" :> Str("a")), output |-> output, error |-> error, duration |-> duration]

Fine == Step1("e1", 1, tool, "executed", Obj("x" :> Str("a") @@ "key" :> Str("k")), None, 10)

Slow == [Fine EXCEPT !.duration = 30, !.output = Obj("x" :> Str("b") @@ "key" :> Str("l"))]

Broken == [Fine EXCEPT !.error = [category |-> None, type |-> "timeout", code |-> None],
                       !.output = Obj("x" :> Obj("key" :> Str("k") @@ "y" :> Str("b")))]

Refused == [Fine EXCEPT !.error = [category |-> None, type |-> None, code |-> None],
                        !.duration = 0]

Second == Step1("e2", 2, other, "executed", Json("array", <<Obj("key" :> Str("k"))>>), None, None)

Late == [Second EXCEPT !.event = "e3", !.seq = 3, !.status = "skipped",
                       !.output = Json("array", <<>>)]

Again(step, event, seq) == [step EXCEPT !.event = event, !.seq = seq]

NoReplays == r1 :> <<Fine>> @@ r2 :> <<Fine>>

StepLists ==
    <<<<Fine>>, <<Slow>>, <<Broken>>, <<Refused>>, <<>>, <<Fine, Second>>,
      <<Again(Second, "e2", 1), Again(Fine, "e1", 2)>>, <<Second, Late>>,
      <<Again(Fine, "e4", 4), Late>>, <<Fine, Late, Again(Second, "e5", 5)>>,
      <<Again(Late, "e2", 6), Again(Fine, "e3", 2)>>>>

-----------------------------------------------------------------------------
(* Worlds *)

Asking(a, b, c, d) == ann :> a @@ bob :> b @@ cal :> c @@ dee :> d

\* The contents of two versions, scanned twice.
Scanned(kind, contents) ==
    [kind |-> kind, contents |-> contents, outcomes |-> NoReplays, ended |-> {r1, r2},
     ops |-> Asking("scan", "scan", "nothing", "nothing")]

\* The first request only, and an assessment.
Assessed(w) == [w EXCEPT !.ops = [w.ops EXCEPT ![bob] = "assess"]]


Compared(b, c, ended, ops) ==
    [kind |-> "tool", contents |-> v1 :> ToolContent(AnySchema, AnySchema, "d"),
     outcomes |-> r1 :> b @@ r2 :> c, ended |-> ended, ops |-> ops]

Listed(set) == FoldSet(LAMBDA x, list : Append(list, x), <<>>, set)

SchemaPairs ==
    {<<i, j>> \in (1..Len(SchemaList)) \X (1..Len(SchemaList)) : i < j /\ (j - i <= 3 \/ i = 1)}

SchemaWorlds ==
    LET pairs == Listed(SchemaPairs)
    IN  [k \in DOMAIN pairs |->
           LET x == SchemaList[pairs[k][1]]
               y == SchemaList[pairs[k][2]]
           IN  Scanned("tool", Versioned(ToolContent(x, y, "d"), ToolContent(y, x, "d")))]

StepPairs == {<<i, j>> \in (1..Len(StepLists)) \X (1..Len(StepLists)) : i < j}

ReplayWorlds ==
    LET pairs == Listed(StepPairs)
    IN  [k \in DOMAIN pairs |->
           Compared(StepLists[pairs[k][1]], StepLists[pairs[k][2]], {r1, r2},
                    Asking("compare", "compare", "nothing", "nothing"))]

Deep == ArrayOf(ArrayOf(ArrayOf(Typed("string"))))

Settings(x) == "a" :> Obj("b" :> Str(x)) @@ "c" :> Str("x")

\* Two contents of each of the other kinds, then two that cannot be analyzed,
\* and a component with one version.
OtherWorlds ==
    <<Scanned("schema", Versioned(
        [schema_definition |-> EnumOf(<<"a", "b">>), schema_format |-> "json"],
        [schema_definition |-> EnumOf(<<"b", "a">>), schema_format |-> "json"])),
      Scanned("mcp_server", Versioned(
        [server_name |-> "m", transport |-> "t", endpoint |-> "e", settings |-> Settings("x")],
        [server_name |-> "n", transport |-> "u", endpoint |-> "e", settings |-> Settings("y")])),
      Scanned("model", Versioned(
        [provider |-> "p", model_identifier |-> "m", parameters |-> Settings("x")],
        [provider |-> "p", model_identifier |-> "n", parameters |-> "c" :> Int1(1)])),
      Scanned("prompt", Versioned(
        [template |-> "t", variables |-> <<"x", "y">>, settings |-> Settings("x")],
        [template |-> "t", variables |-> <<"y", "x", "y">>, settings |-> Settings("x")])),
      Scanned("prompt", Versioned(
        [template |-> "t", variables |-> <<"x">>, settings |-> <<>>],
        [template |-> "u", variables |-> <<"y">>, settings |-> Settings("x")])),
      Scanned("api", Versioned(
        [base_url |-> "u", method |-> "GET", auth |-> Settings("x")],
        [base_url |-> "u", method |-> "PUT", auth |-> Settings("y")])),
      Scanned("workflow", Versioned(
        [hasSteps |-> TRUE, rest |-> Settings("x"),
         steps |-> <<[id |-> "x", required |-> TRUE], [id |-> "", required |-> FALSE],
                     [id |-> "y", required |-> FALSE]>>],
        [hasSteps |-> TRUE, rest |-> Settings("y"),
         steps |-> <<[id |-> "y", required |-> FALSE], [id |-> "", required |-> TRUE]>>])),
      Scanned("workflow", Versioned(
        [hasSteps |-> FALSE, rest |-> Settings("x"), steps |-> <<>>],
        [hasSteps |-> TRUE, rest |-> Settings("x"), steps |-> <<>>])),
      Scanned("policy", Versioned([rules |-> Settings("x")], [rules |-> "d" :> Str("y")])),
      Scanned("agent", Versioned(
        [model_ref |-> "m", prompt_ref |-> "p", tools |-> <<"x", "y">>, system_config |-> <<>>],
        [model_ref |-> "n", prompt_ref |-> "p", tools |-> <<"z", "y">>,
         system_config |-> Settings("x")])),
      Scanned("provider", Versioned([name |-> "a"], [name |-> "b"])),
      Scanned("tool", Versioned(ToolContent(Deep, AnySchema, "d"),
                                ToolContent(ArrayOf(Deep), AnySchema, "d"))),
      Scanned("tool", v1 :> ToolContent(AnySchema, AnySchema, "d"))>>

Breaking == Versioned(ToolContent(SchemaList[11], SchemaList[11], "d"),
                      ToolContent(SchemaList[12], SchemaList[12], "e"))

\* Requests that race: for one report, for an assessment of one scan, of one
\* report, and of both together; replays that end meanwhile, one of them badly.
RacingWorlds ==
    <<Compared(<<Fine>>, <<Slow>>, {r1}, Asking("compare", "compare", "compare", "nothing")),
      Compared(<<Fine>>, <<[Fine EXCEPT !.status = "failed"]>>, {r1},
               Asking("compare", "compare", "nothing", "nothing")),
      [Scanned("tool", Breaking) EXCEPT !.ops = Asking("scan", "assess", "assess", "assess")],
      [kind |-> "tool", contents |-> Breaking, ended |-> {r1, r2},
       outcomes |-> r1 :> <<Fine, Second>> @@ r2 :> <<Broken>>,
       ops |-> Asking("scan", "compare", "assess", "assess")]>>

PairWorlds == SchemaWorlds \o ReplayWorlds

AssessedWorlds == [k \in 1..Len(PairWorlds) |-> Assessed(PairWorlds[k])]

MCWorlds == PairWorlds \o AssessedWorlds \o OtherWorlds \o RacingWorlds

=============================================================================
