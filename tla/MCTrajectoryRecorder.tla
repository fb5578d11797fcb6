------------------------ MODULE MCTrajectoryRecorder ------------------------
(***************************************************************************)
(* Instances of TrajectoryRecorder for TLC: two payloads that are stored   *)
(* as they are and one that is refused.                                    *)
(***************************************************************************)
EXTENDS TrajectoryRecorder

CONSTANTS small, other, oversize

MCStored == [p \in {small, other, oversize} |-> IF p = oversize THEN Rejected ELSE p]

=============================================================================
