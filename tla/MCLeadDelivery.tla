--------------------------- MODULE MCLeadDelivery ---------------------------
(* Two overlapping tasks of a lead: the first delivery and retries. *)
EXTENDS LeadDelivery
=============================================================================
