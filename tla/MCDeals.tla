------------------------------ MODULE MCDeals ------------------------------
(* Deals with a few requests on one or two deals of one member. *)
EXTENDS Deals
=============================================================================
