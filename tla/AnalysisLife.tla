---------------------------- MODULE AnalysisLife ----------------------------
(***************************************************************************)
(* What the pipeline promises of the analysis of a commit, without topic,  *)
(* workers, sessions and retries: it is requested, decided once or failed  *)
(* for good, and then shown on GitHub, where nothing but the decision ever *)
(* appears.  PRPipeline implements it.                                     *)
(***************************************************************************)

CONSTANTS Shas, Decisions, None

VARIABLES
    stage,      \* of each commit: "none", "open", "decided", "unpublished", "failed"
    decision,   \* of each commit, None before there is one
    shown       \* the decisions GitHub shows for each commit

lifeVars == <<stage, decision, shown>>

Init ==
    /\ stage = [a \in Shas |-> "none"]
    /\ decision = [a \in Shas |-> None]
    /\ shown = [a \in Shas |-> {}]

Moves(a, from, to) == stage[a] = from /\ stage' = [stage EXCEPT ![a] = to]

Request(a) == Moves(a, "none", "open") /\ UNCHANGED <<decision, shown>>

Decide(a) ==
    /\ Moves(a, "open", "decided")
    /\ \E d \in Decisions : decision' = [decision EXCEPT ![a] = d]
    /\ UNCHANGED shown

Fail(a) == Moves(a, "open", "failed") /\ UNCHANGED <<decision, shown>>

\* GitHub shows the decision; whether the answer arrives is another matter.
Show(a) ==
    /\ stage[a] \in {"decided", "unpublished"}
    /\ shown' = [shown EXCEPT ![a] = @ \cup {decision[a]}]
    /\ UNCHANGED <<stage, decision>>

PublicationFails(a) == Moves(a, "decided", "unpublished") /\ UNCHANGED <<decision, shown>>

\* An analysis counts as published again only when GitHub shows its decision.
PublicationSucceeds(a) ==
    /\ Moves(a, "unpublished", "decided")
    /\ decision[a] \in shown[a]
    /\ UNCHANGED <<decision, shown>>

Next ==
    \E a \in Shas :
        \/ Request(a) \/ Decide(a) \/ Fail(a) \/ Show(a)
        \/ PublicationFails(a) \/ PublicationSucceeds(a)

Spec == Init /\ [][Next]_lifeVars

=============================================================================
