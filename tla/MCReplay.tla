------------------------------ MODULE MCReplay ------------------------------
(***************************************************************************)
(* Instances of Replay for TLC.                                            *)
(***************************************************************************)
EXTENDS Replay

CONSTANTS base, i1, i2, tool2

Event(type, version, invocation) ==
    [type |-> type, version |-> version, invocation |-> invocation]

\* One call of the baseline between a call of another tool and a model
\* request, with the responses in another order; two calls of the baseline,
\* one of which, and its response, without an invocation id; a trajectory that never calls it; one that is
\* still running.
MCTrajectories ==
    {[completed |-> TRUE,
      events |-> <<Event("invocation", tool2, i2), Event("invocation", base, i1),
                   Event("response", base, i1), Event("response", tool2, i2)>>],
     [completed |-> TRUE,
      events |-> <<Event("invocation", base, None), Event("response", base, None),
                   Event("provider", None, None), Event("invocation", base, i1), Event("response", base, i1)>>],
     [completed |-> TRUE, events |-> <<Event("other", None, None)>>],
     [completed |-> FALSE, events |-> <<Event("invocation", base, i1)>>]}

=============================================================================
