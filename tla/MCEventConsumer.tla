--------------------------- MODULE MCEventConsumer ---------------------------
(***************************************************************************)
(* The instance of EventConsumer for TLC: its constants are in the cfg.    *)
(***************************************************************************)
EXTENDS EventConsumer

=============================================================================
