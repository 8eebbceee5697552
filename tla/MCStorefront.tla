---------------------------- MODULE MCStorefront ----------------------------
(* Storefront with three vehicles. Vehicle 1 comes from the feed in two rows   *)
(* that disagree on its line: 3, with a price, or 2, without one but seen      *)
(* later. Vehicle 2 is listed twice on line 2: as a new car of the feed that   *)
(* is gone, though it was seen later, and as a used one. Vehicle 3 comes from  *)
(* the feed on line 1, which names no model. An administrator may enter        *)
(* vehicle 3, or a used one in place of vehicle 2. A page shows two vehicles,  *)
(* and two are the most that are fetched for a limit on the payment or as      *)
(* specials, so that three are too many.                                       *)
EXTENDS Storefront

R(v, l, miles, msrp, listed, feed, active, seen) ==
    [vin |-> v, line |-> l, mileage |-> miles, condition |-> "unknown",
     flag |-> "new", msrp |-> msrp, listed |-> listed, feed |-> feed,
     active |-> active, seen |-> seen]

MCRows == {R(1, 3, "few", 0, 1, TRUE, TRUE, 1),
           R(1, 2, "few", 0, 0, TRUE, TRUE, 3),
           R(2, 2, "zero", 2, 1, TRUE, FALSE, 2),
           R(2, 2, "many", 2, 1, FALSE, TRUE, 1),
           R(3, 1, "few", 0, 2, TRUE, TRUE, 1)}

M(l, type, listed) == [line |-> l, type |-> type, msrp |-> 0, listed |-> listed]

MCManualRows == {<<3, M(1, "new", 1)>>, <<2, M(2, "used", 1)>>}

MCTerms == {[monthly |-> TRUE, discounted |-> 0],
            [monthly |-> FALSE, discounted |-> 1]}

Q(type, line, price, payment) ==
    [type |-> type, line |-> line, maxPrice |-> price, maxPayment |-> payment,
     offersOnly |-> FALSE]

MCQueries == {Q("all", 0, 1, 0), Q("all", 2, 0, 0),
              Q("all", 0, 0, 11), Q("used", 0, 0, 11), Q("new", 1, 1, 11)}

MCCaps == [used |-> 2, other |-> 2, broad |-> 2]

MCLists == {<<>>, <<3, 3>>, <<1, 2, 3>>}

MCOlder == {<<2, 1>>}
=============================================================================
