-------------------------- MODULE MCExternalActions -------------------------
(* Two requests of one integration, for two tools.                           *)
EXTENDS ExternalActions

MCRequests == {"refund", "mail"}
MCTool == [refund |-> "refund_payment", mail |-> "send_external_email"]

=============================================================================
