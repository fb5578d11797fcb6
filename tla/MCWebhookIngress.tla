-------------------------- MODULE MCWebhookIngress --------------------------
(***************************************************************************)
(* Instances of WebhookIngress for TLC.                                    *)
(***************************************************************************)
EXTENDS WebhookIngress, TLC

IngressSymmetry == Permutations(Requests) \cup Permutations(DeliveryIds)

=============================================================================
