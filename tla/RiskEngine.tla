----------------------------- MODULE RiskEngine -----------------------------
(***************************************************************************)
(* The risk engine (app/risk/): the rules, their weights and caps, and the *)
(* decision.  A pure function of a RiskContext; the fields of the context  *)
(* that no rule reads are left out.                                        *)
(*                                                                         *)
(* A latency regression is a whole percentage, rounded down: the rule only *)
(* compares it with a whole number.                                        *)
(***************************************************************************)
EXTENDS Integers

CONSTANT None     \* "not computed", as opposed to 0

Contexts ==
    [compatibility_status: {None, "compatible", "warning", "breaking"},
     breaking_count: Nat,
     critical_count: Nat,
     new_failures: Nat,
     schema_changes: Nat,
     has_removed_required_step: BOOLEAN,
     tool_invocation_changed: BOOLEAN,
     error_introduced: BOOLEAN,
     max_latency_percent_delta: Int \cup {None},
     blast_radius_total_affected: Nat \cup {None}]

AtMost(n, cap) == IF n <= cap THEN n ELSE cap

-----------------------------------------------------------------------------
(* rules.py: a rule that does not fire adds nothing. *)

Fires(rule, ctx) ==
    CASE rule = "COMPAT_BREAKING_CHANGE" ->
            ctx.compatibility_status = "breaking" \/ ctx.breaking_count > 0
      [] rule = "NEW_REPLAY_FAILURE" -> ctx.new_failures > 0
      [] rule = "REMOVED_REQUIRED_STEP" -> ctx.has_removed_required_step
      [] rule = "HIGH_BLAST_RADIUS" ->
            /\ ctx.blast_radius_total_affected # None
            /\ ctx.blast_radius_total_affected >= 3
      [] rule = "OUTPUT_SCHEMA_BREAK" -> ctx.schema_changes > 0
      [] rule = "TOOL_INVOCATION_CHANGED" -> ctx.tool_invocation_changed
      [] rule = "ERROR_INTRODUCED" -> ctx.error_introduced
      [] rule = "SIGNIFICANT_LATENCY_INCREASE" ->
            /\ ctx.max_latency_percent_delta # None
            /\ ctx.max_latency_percent_delta >= 50
      [] rule = "HARD_BLOCK_CRITICAL_COMPAT_BREAK" -> ctx.critical_count > 0
      [] rule = "HARD_BLOCK_NEW_REPLAY_FAILURE" -> ctx.new_failures > 0

\* Mutant of Weight: the high band of the blast radius is below the moderate one.
WeightBandsSwapped(rule, ctx) ==
    CASE rule = "HIGH_BLAST_RADIUS" -> IF ctx.blast_radius_total_affected >= 10 THEN 10 ELSE 20
      [] OTHER -> 20

Weight(rule, ctx) ==
    CASE rule = "COMPAT_BREAKING_CHANGE" -> 30
      [] rule = "NEW_REPLAY_FAILURE" -> AtMost(15 * ctx.new_failures, 45)
      [] rule = "REMOVED_REQUIRED_STEP" -> 20
      [] rule = "HIGH_BLAST_RADIUS" -> IF ctx.blast_radius_total_affected >= 10 THEN 20 ELSE 10
      [] rule = "OUTPUT_SCHEMA_BREAK" -> 20
      [] rule = "TOOL_INVOCATION_CHANGED" -> 10
      [] rule = "ERROR_INTRODUCED" -> 15
      [] rule = "SIGNIFICANT_LATENCY_INCREASE" -> 10

Score(rule, ctx) == IF Fires(rule, ctx) THEN Weight(rule, ctx) ELSE 0

ScoreRules ==
    {"COMPAT_BREAKING_CHANGE", "NEW_REPLAY_FAILURE", "REMOVED_REQUIRED_STEP",
     "HIGH_BLAST_RADIUS", "OUTPUT_SCHEMA_BREAK", "TOOL_INVOCATION_CHANGED",
     "ERROR_INTRODUCED", "SIGNIFICANT_LATENCY_INCREASE"}

HardBlockRules == {"HARD_BLOCK_CRITICAL_COMPAT_BREAK", "HARD_BLOCK_NEW_REPLAY_FAILURE"}

-----------------------------------------------------------------------------
(* engine.evaluate *)

\* The sum over the categories, each under its cap, under the cap of them all.
TotalScore(ctx) ==
    LET differential == Score("REMOVED_REQUIRED_STEP", ctx) + Score("OUTPUT_SCHEMA_BREAK", ctx)
                        + Score("TOOL_INVOCATION_CHANGED", ctx) + Score("ERROR_INTRODUCED", ctx)
    IN  AtMost(AtMost(Score("COMPAT_BREAKING_CHANGE", ctx), 40)
               + AtMost(Score("NEW_REPLAY_FAILURE", ctx), 45)
               + AtMost(differential, 50)
               + AtMost(Score("HIGH_BLAST_RADIUS", ctx), 20)
               + AtMost(Score("SIGNIFICANT_LATENCY_INCREASE", ctx), 15),
               100)

\* Mutant of Decide: the score decides alone.
DecideByScore(score, hardBlock) ==
    CASE score <= 29 -> "PASS"
      [] score > 29 /\ score <= 69 -> "WARN"
      [] OTHER -> "BLOCK"

Decide(score, hardBlock) ==
    CASE hardBlock -> "BLOCK"
      [] ~hardBlock /\ score <= 29 -> "PASS"
      [] ~hardBlock /\ score > 29 /\ score <= 69 -> "WARN"
      [] OTHER -> "BLOCK"

Evaluate(ctx) ==
    LET hardBlock == \E rule \in HardBlockRules : Fires(rule, ctx)
    IN  [score |-> TotalScore(ctx),
         hard_block |-> hardBlock,
         decision |-> Decide(TotalScore(ctx), hardBlock),
         triggered |-> {rule \in ScoreRules \cup HardBlockRules : Fires(rule, ctx)}]

=============================================================================
