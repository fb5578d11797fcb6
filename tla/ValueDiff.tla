----------------------------- MODULE ValueDiff ------------------------------
(***************************************************************************)
(* The values of a recorded step (app/differential/value_diff.py): JSON    *)
(* values, what redaction makes of them (app/trajectory/redaction.py), and *)
(* diff_values, which lists where two of them differ.                      *)
(*                                                                         *)
(* A JSON value is a record of its type and its content: the content of an *)
(* object is a function on its keys, that of an array a sequence.  A path  *)
(* is a sequence of keys and of positions, all of them strings.            *)
(*                                                                         *)
(* The operators are RECURSIVE, so that this module is for TLC's runs; the *)
(* modules with theorems take diff_values as a parameter.                  *)
(***************************************************************************)
EXTENDS Naturals, Sequences, TLC

CONSTANTS
    SensitiveKeys,    \* DEFAULT_SENSITIVE_KEYS
    MaxDepth          \* _MAX_DEPTH

Json(type, content) == [type |-> type, content |-> content]

\* A position as it is shown in a path.
Position(i) == ToString(i - 1)

SameValue(v, w) == v.type = w.type /\ v.content = w.content

Redacted == Json("string", "***REDACTED***")

-----------------------------------------------------------------------------
(* redaction.sanitize *)

RECURSIVE Sanitize(_)

Sanitize(v) ==
    CASE v.type = "object" ->
            Json("object",
                 [k \in DOMAIN v.content |->
                       IF k \in SensitiveKeys THEN Redacted ELSE Sanitize(v.content[k])])
      [] v.type = "array" ->
            Json("array", [i \in DOMAIN v.content |-> Sanitize(v.content[i])])
      [] OTHER -> v

-----------------------------------------------------------------------------
(* diff_values *)

\* old and new are sets of at most one value: empty for a side without one.
FieldDifference(type, path, old, new) ==
    [type |-> type, path |-> path, old |-> old, new |-> new]

Displayed(v) == {Sanitize(v)}

RemovedField(path, v) == FieldDifference("SCHEMA_CHANGED", path, Displayed(v), {})

AddedField(path, v) == FieldDifference("SCHEMA_CHANGED", path, {}, Displayed(v))

\* Mutant of SensitiveField: the values are shown.
SensitiveFieldShown(path, b, c) ==
    IF SameValue(b, c) THEN {} ELSE {FieldDifference("VALUE_CHANGED", path, {b}, {c})}

\* A sensitive value is compared and never shown.
SensitiveField(path, b, c) ==
    IF SameValue(b, c) THEN {} ELSE {FieldDifference("VALUE_CHANGED", path, {Redacted}, {Redacted})}

RECURSIVE DiffAt(_, _, _, _)

DiffObject(b, c, path, depth) ==
    UNION {{RemovedField(Append(path, k), b[k]) : k \in DOMAIN b \ DOMAIN c},
           {AddedField(Append(path, k), c[k]) : k \in DOMAIN c \ DOMAIN b},
           UNION {IF k \in SensitiveKeys
                  THEN SensitiveField(Append(path, k), b[k], c[k])
                  ELSE DiffAt(b[k], c[k], Append(path, k), depth + 1) :
                     k \in DOMAIN b \cap DOMAIN c}}

DiffArray(b, c, path, depth) ==
    UNION {UNION {DiffAt(b[i], c[i], Append(path, Position(i)), depth + 1) :
                     i \in DOMAIN b \cap DOMAIN c},
           {RemovedField(Append(path, Position(i)), b[i]) : i \in DOMAIN b \ DOMAIN c},
           {AddedField(Append(path, Position(i)), c[i]) : i \in DOMAIN c \ DOMAIN b}}

DiffAt(b, c, path, depth) ==
    CASE depth > MaxDepth -> {}
      [] depth <= MaxDepth /\ b.type # c.type ->
            {FieldDifference("SCHEMA_CHANGED", path, Displayed(b), Displayed(c))}
      [] depth <= MaxDepth /\ b.type = c.type /\ b.type = "object" ->
            DiffObject(b.content, c.content, path, depth)
      [] depth <= MaxDepth /\ b.type = c.type /\ b.type = "array" ->
            DiffArray(b.content, c.content, path, depth)
      [] OTHER ->
            IF SameValue(b, c) THEN {}
            ELSE {FieldDifference("VALUE_CHANGED", path, Displayed(b), Displayed(c))}

diff_values(b, c) == DiffAt(b, c, <<>>, 0)

-----------------------------------------------------------------------------
(* Reference: what a reader of a difference may see. *)

RECURSIVE ShowsSecret(_)

\* A value with something under a sensitive key, at whatever depth.
ShowsSecret(v) ==
    \/ /\ v.type = "object"
       /\ \E k \in DOMAIN v.content :
             IF k \in SensitiveKeys THEN v.content[k] # Redacted ELSE ShowsSecret(v.content[k])
    \/ v.type = "array" /\ \E i \in DOMAIN v.content : ShowsSecret(v.content[i])

=============================================================================
