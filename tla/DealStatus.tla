----------------------------- MODULE DealStatus -----------------------------
(***************************************************************************)
(* The statuses of a deal (app/models/enums.py) and the moves the broker   *)
(* may ask for (ALLOWED_TRANSITIONS, app/routes/deals.py).                 *)
(***************************************************************************)

DealStatus == {"inquiry", "broker_review", "offer_ready", "locked",
               "docs_pending", "delivered", "cancelled"}

\* Mutant: an offer may be locked before it is ready.
SkippingTransitions ==
    { <<"inquiry", "broker_review">>, <<"broker_review", "offer_ready">>,
      <<"broker_review", "locked">>, <<"offer_ready", "locked">>,
      <<"locked", "docs_pending">>, <<"docs_pending", "delivered">> }

\* Any open status may also be cancelled; delivered and cancelled are final.
AllowedTransitions ==
    { <<"inquiry", "broker_review">>, <<"broker_review", "offer_ready">>,
      <<"offer_ready", "locked">>, <<"locked", "docs_pending">>,
      <<"docs_pending", "delivered">>,
      <<"inquiry", "cancelled">>, <<"broker_review", "cancelled">>,
      <<"offer_ready", "cancelled">>, <<"locked", "cancelled">>,
      <<"docs_pending", "cancelled">> }

\* A request may also repeat the status the deal already has.
MayMove(from, to) == from = to \/ <<from, to>> \in AllowedTransitions

\* The statuses create_deal counts as an open deal.
OpenStatus == {"inquiry", "broker_review", "offer_ready", "locked",
               "docs_pending"}
=============================================================================
