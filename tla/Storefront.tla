------------------------------ MODULE Storefront ------------------------------
(***************************************************************************)
(* What the public pages show of the vehicles: the search, its filters,    *)
(* the page of one vehicle and the homepage (app/routes/inventory.py, over *)
(* app/services/legacy_tables.py and app/services/offers.py), the dealers' *)
(* list (app/routes/frontend_compat.py), and the requests that write the   *)
(* tables they read (app/routes/admin.py, app/routes/dealer.py).           *)
(*                                                                         *)
(* The pages are operators over the tables: each handler computes its      *)
(* answer from one snapshot.  A year, make and model is one value, a line; *)
(* VINs and lines are numbered in the order the database sorts them; 0     *)
(* stands for NULL.  The rows of a query that asks for no order come in    *)
(* any order, another one each time.  A monthly estimate is proportional   *)
(* to its price (10% of tax are added to a new one), so the factor is left *)
(* out.                                                                    *)
(***************************************************************************)
EXTENDS Naturals, Sequences, SequencesExt, FiniteSetsExt

CONSTANTS Vins, Lines, Prices,
          Named,        \* lines whose model is not just the name of the make
          Rows,         \* the rows the scrapers may put into vehicle_listings
          ManualRows,   \* what administrators enter: a vehicle and its VIN
          Terms,        \* what offers may say
          Queries,      \* the searches that are tried
          Lists,        \* homepage lists that administrators send
          Older,        \* homepage lists of earlier months, without cards
          PageSize,
          Caps,         \* the most rows that are fetched for a search
          Limit         \* vehicles of the homepage: eight, in the code

Price == Prices \cup {0}
Line == Lines \cup {0}

Row == [vin : Vins, line : Line, mileage : {"zero", "few", "many", "unknown"},
        condition : {"new", "used", "cpo", "unknown"},
        flag : {"new", "used", "unknown"}, msrp : Price, listed : Price,
        feed : BOOLEAN, active : BOOLEAN, seen : Nat]

Manual == [line : Line, type : {"new", "used"}, msrp : Price, listed : Price]

\* monthly: is there a monthly payment?
Offer == [monthly : BOOLEAN, discounted : Price]

\* line = 0, maxPrice = 0, maxPayment = 0: no such filter.
Query == [type : {"all", "new", "used"}, line : Line, maxPrice : Nat,
          maxPayment : Nat, offersOnly : BOOLEAN]

\* used, other: with a limit on the payment; broad: for all specials.
CapSet == [used : Nat \ {0}, other : Nat \ {0}, broad : Nat \ {0}]

ASSUME TablesAllowed == /\ Vins \subseteq Nat \ {0} /\ Lines \subseteq Nat \ {0}
                        /\ Prices \subseteq Nat \ {0} /\ Named \subseteq Lines
                        /\ Rows \subseteq Row
                        /\ IsFiniteSet(Vins) /\ IsFiniteSet(Rows)
                        /\ ManualRows \subseteq Vins \X Manual
                        /\ Terms \subseteq Offer
                        /\ Queries \subseteq Query
                        /\ Lists \subseteq Seq(Vins) /\ Older \subseteq Seq(Vins)
                        /\ \A list \in Older : IsInjective(list) /\ Len(list) <= Limit
                        /\ {PageSize, Limit} \subseteq Nat \ {0}
                        /\ Caps \in CapSet

VARIABLES listings,  \* vehicle_listings, the scrapers' table
          manual,    \* VIN -> manual_vehicles row
          offers,    \* VIN -> offer_overrides row
          featured,  \* the homepage's list: VINs, and have they cards?
          older      \* an earlier month's list

vars == <<listings, manual, offers, featured, older>>
-----------------------------------------------------------------------------
NoManual == [type |-> "none"]
NoOffer == [monthly |-> FALSE, discounted |-> 0, none |-> TRUE]
NoRow == [vin |-> 0]

TypeOK == /\ listings \in SUBSET Rows
          /\ manual \in [Vins -> Manual \cup {NoManual}]
          /\ offers \in [Vins -> Offer \cup {NoOffer}]
          /\ \A v \in Vins : manual[v] # NoManual => <<v, manual[v]>> \in ManualRows
          /\ featured \in [vins : Seq(Vins), cards : BOOLEAN]
          /\ IsInjective(featured.vins) /\ Len(featured.vins) <= Limit
          /\ older \in Older

Init == /\ listings \in SUBSET Rows
        /\ manual = [v \in Vins |-> NoManual]
        /\ offers = [v \in Vins |-> NoOffer]
        /\ featured \in [vins : Older, cards : {FALSE}]
        /\ older \in Older
-----------------------------------------------------------------------------
\* A finite set in the order of a relation: the i-th element has i - 1 before
\* it.
InOrder(set, before) ==
    [i \in 1 .. Cardinality(set) |->
        CHOOSE x \in set : Cardinality({y \in set : <<y, x>> \in before}) = i - 1]

Ascending(set) == InOrder(set, {p \in set \X set : p[1] < p[2]})

\* What a sequence has at some of its places, and where it passes a test.
At(s, places) == LET place == Ascending(places)
                 IN [i \in 1 .. Cardinality(places) |-> s[place[i]]]

Where(s, Test(_)) == At(s, {i \in 1 .. Len(s) : Test(s[i])})
-----------------------------------------------------------------------------
\* _normalized_vehicle_type_expr: a car with no miles is new whatever else is
\* said of it, one with many is used; then the condition, then the flag.
EffectiveType(r) ==
    IF r.mileage = "zero" /\ (r.condition \in {"used", "cpo"} \/ r.flag = "used")
    THEN "new"
    ELSE IF r.mileage = "many" THEN "used"
    ELSE IF r.condition = "unknown" THEN r.flag
    ELSE IF r.condition = "new" THEN "new" ELSE "used"

Coalesce(a, b) == IF a # 0 THEN a ELSE b

\* The price that max_price limits.
AskedPrice(type, r) == CASE type = "new" -> Coalesce(r.msrp, r.listed)
                         [] type = "used" -> r.listed
                         [] OTHER -> 0

\* The filters that are applied before the best row of a VIN is picked.
Passes(r, q) == /\ q.type # "all" => EffectiveType(r) = q.type
                /\ q.maxPrice # 0 => AskedPrice(EffectiveType(r), r) \in 1 .. q.maxPrice

\* Active rows come first, then the one seen last.
Better(r, s) == IF r.active # s.active THEN r.active ELSE r.seen >= s.seen

Best(rows) ==
    IF rows = {} THEN NoRow ELSE CHOOSE r \in rows : \A s \in rows : Better(r, s)

\* The row that stands for a VIN among those that pass, if any.
BestRow(v, q) == Best({r \in listings : r.vin = v /\ Passes(r, q)})

All == [type |-> "all", line |-> 0, maxPrice |-> 0, maxPayment |-> 0,
        offersOnly |-> FALSE]

Listing(v) == BestRow(v, All)
Listed(v) == Listing(v) # NoRow
HasManual(v) == manual[v] # NoManual

\* build_inventory_count_query: what comes after the best row is left out.
Count(q) == Cardinality({v \in Vins : BestRow(v, q) # NoRow})

\* build_inventory_query for a search.
OnLine(row, q) == row # NoRow /\ (q.line # 0 => row.line = q.line)

Matching(q) == {v \in Vins : OnLine(BestRow(v, q), q)}

\* query_active_feed_new_vins.
FeedNew == {r.vin : r \in {s \in listings :
                              s.feed /\ s.active /\ EffectiveType(s) = "new"}}

\* Mutant: only vehicles with an offer are specials.
OfferedVins == {v \in Vins : offers[v].monthly}

\* _lease_special_search_vins.
LeaseVins == {v \in Vins : offers[v].monthly} \cup FeedNew
-----------------------------------------------------------------------------
\* _offer_priority, without who entered the offer and when, which break ties.
Priority(o) == (IF o.monthly THEN 2 ELSE 0) + (IF o.discounted # 0 THEN 1 ELSE 0)

\* The line a vehicle's offer may stand for: a manual vehicle's own only if it
\* is not listed.
OfferedLine(v, row) == IF row # NoRow THEN row.line
                       ELSE IF HasManual(v) THEN manual[v].line ELSE 0

BestOffer(vins) ==
    IF vins = {} THEN NoOffer
    ELSE offers[CHOOSE v \in vins :
                   \A u \in vins : Priority(offers[v]) >= Priority(offers[u])]

\* _load_offer_ymm_map: the offer that stands for a line.
LineOffer(line) ==
    IF line = 0 THEN NoOffer
    ELSE BestOffer({v \in Vins : /\ offers[v] # NoOffer
                                 /\ OfferedLine(v, Listing(v)) = line})

\* _resolve_offer_for_vehicle: its own offer, if it was loaded, comes first,
\* even one that says nothing.
Resolved(v, line, own, fallback) ==
    IF own /\ offers[v] # NoOffer THEN offers[v]
    ELSE IF fallback THEN LineOffer(line) ELSE NoOffer

\* apply_offer_visibility, where a monthly payment is required.
Visible(o) == o.monthly

\* The monthly estimate without a down payment: 0 if there is no price to start
\* from.
Estimate(type, msrp, discounted, listed) ==
    CASE type = "new" -> 11 * Coalesce(Coalesce(discounted, msrp), listed)
      [] type = "used" -> 10 * listed
      [] OTHER -> 0

RowEstimate(r, o) == Estimate(EffectiveType(r), r.msrp, o.discounted, r.listed)

\* _visible_for_lease_specials: an offer with a monthly payment, or a feed
\* listing with an estimate.
VisibleSpecial(r, o, estimate) == Visible(o) \/ (r.feed /\ estimate # 0)
-----------------------------------------------------------------------------
\* search_inventory.  An item: whose vehicle, its estimate, is it a special?
Each(s, Op(_)) == [i \in 1 .. Len(s) |-> Op(s[i])]
VinsOf(items) == Each(items, LAMBDA i : i.vin)

Wanted(q) == {v \in Matching(q) : q.offersOnly => v \in LeaseVins}

\* lease_broad: all specials at once, sorted by line, then VIN.
Broad(q) == q.offersOnly /\ q.line = 0

BroadOrder(q) ==
    LET line == [v \in Wanted(q) |-> BestRow(v, q).line]
    IN InOrder(Wanted(q), {p \in Wanted(q) \X Wanted(q) :
                              \/ line[p[1]] < line[p[2]]
                              \/ line[p[1]] = line[p[2]] /\ p[1] < p[2]})

\* The orders in which the database may return the rows of a search: one if
\* they are sorted.  (A sort by price is one of the others.)
RowOrders(q) == IF Broad(q) THEN {BroadOrder(q)} ELSE SetToSeqs(Wanted(q))

Slice(s, from, n) == SubSeq(s, from + 1, Min({from + n, Len(s)}))

\* With a limit on the payment pages are cut when everything is fetched.
CutLater(q) == ~q.offersOnly /\ q.maxPayment # 0

FetchSize(q) == CASE Broad(q) -> Min({Caps.broad, Cardinality(LeaseVins)})
                  [] CutLater(q) -> IF q.type = "used" THEN Caps.used ELSE Caps.other
                  [] OTHER -> PageSize

\* The part of the rows that the database is asked for.
Window(rows, q, page) ==
    Slice(rows, IF CutLater(q) THEN 0 ELSE (page - 1) * PageSize, FetchSize(q))

Priced(v, row, offer) ==
    [vin |-> v, monthly |-> RowEstimate(row, offer),
     special |-> VisibleSpecial(row, offer, RowEstimate(row, offer))]

\* The line's offer is looked up only if the search names a line.
ItemOf(v, row, q) == Priced(v, row, Resolved(v, row.line, TRUE, q.line # 0))

\* The items of the listings.
ListingItems(q, page, rows) ==
    Where(Each(Window(rows, q, page), LAMBDA v : ItemOf(v, BestRow(v, q), q)),
          LAMBDA i : q.offersOnly => i.special)

\* _manual_vehicle_matches: a vehicle without a price passes any limit.
ManualMatches(v, q) ==
    /\ HasManual(v)
    /\ q.line # 0 => manual[v].line = q.line
    /\ q.type # "all" => manual[v].type = q.type
    /\ q.maxPrice # 0 => Coalesce(manual[v].listed, manual[v].msrp) <= q.maxPrice

\* Specials never come from manual vehicles.
ManualMatching(q) == IF q.offersOnly THEN {} ELSE {v \in Vins : ManualMatches(v, q)}

ManualItem(v, q) ==
    [vin |-> v, special |-> FALSE,
     monthly |-> Estimate(manual[v].type, manual[v].msrp,
                          Resolved(v, manual[v].line, TRUE, q.line # 0).discounted,
                          manual[v].listed)]

\* entered: the manual vehicles that match, in the order of their rows.
ManualItems(q, entered) == Each(entered, LAMBDA v : ManualItem(v, q))

\* Mutant: a manual vehicle does not replace the listing of its VIN.
Prepended(front, rest) == front \o rest

\* Manual items come first and replace the listings of their VINs.
InFront(front, rest) ==
    front \o Where(rest, LAMBDA i : \A j \in 1 .. Len(front) : front[j].vin # i.vin)

Within(i, q) == i.monthly # 0 /\ i.monthly <= q.maxPayment

Affordable(items, q) == Where(items, LAMBDA i : Within(i, q))

ShownSize(q) == IF Broad(q) THEN FetchSize(q) ELSE PageSize

PaidPage(items, q, page) ==
    [total |-> Len(items),
     items |-> Slice(items, (page - 1) * PageSize, ShownSize(q))]

\* With a limit on the payment what was fetched is filtered and then cut into
\* pages (once more, when the search is for specials).
PaidAnswer(q, page, rows, entered) ==
    PaidPage(InFront(Affordable(ManualItems(q, entered), q),
                     Affordable(ListingItems(q, page, rows), q)), q, page)

\* Without one the manual items stand on the first page, which is then cut to
\* its size.
PlainAnswer(q, page, rows, entered) ==
    [total |-> IF q.offersOnly THEN Cardinality(LeaseVins)
               ELSE Count(q) + Cardinality(ManualMatching(q)),
     items |-> Slice(InFront(IF page = 1 THEN ManualItems(q, entered) ELSE <<>>,
                             ListingItems(q, page, rows)), 0, ShownSize(q))]

Search(q, page, rows, entered) ==
    IF q.maxPayment # 0 THEN PaidAnswer(q, page, rows, entered)
    ELSE PlainAnswer(q, page, rows, entered)

\* The answers a page of a search may get.
Answers(q, page) ==
    {Search(q, page, rows, entered) :
        rows \in RowOrders(q), entered \in SetToSeqs(ManualMatching(q))}

\* The first page of the specials, which is sorted if no line is named.
Specials(q) == Search(q, 1, BroadOrder(q), <<>>)

CutPage(rows) == [items |-> Slice(rows, 0, PageSize), more |-> Len(rows) > PageSize]

\* Mutant: one row less is fetched.
DealerPageShort(page, rows) == CutPage(Slice(rows, (page - 1) * PageSize, PageSize))

\* dealer_inventory: one row more than a page tells whether there is another.
DealerPage(page, rows) ==
    CutPage(Slice(rows, (page - 1) * PageSize, PageSize + 1))
-----------------------------------------------------------------------------
\* A listing's estimate counts in the filters only if it is new.
FilteredSpecial(row, offer) ==
    VisibleSpecial(row, offer,
                   IF EffectiveType(row) = "new" THEN RowEstimate(row, offer) ELSE 0)

\* A line that names no model is left out.
ShownListing(v, row) ==
    /\ row # NoRow /\ row.line \in Named
    /\ FilteredSpecial(row, Resolved(v, row.line, TRUE, TRUE))

\* Offers are loaded for the VINs of the listings only, so a manual vehicle's
\* own may be missed.
ShownManual(v, row, type) ==
    /\ HasManual(v) /\ manual[v].line \in Named
    /\ type # "all" => manual[v].type = type
    /\ Visible(Resolved(v, manual[v].line, row # NoRow, TRUE))

\* inventory_filters, offers_only: the lines offered.
FilterLines(type) ==
    LET row == [v \in Vins |-> BestRow(v, [All EXCEPT !.type = type, !.offersOnly = TRUE])]
    IN {row[v].line : v \in {u \in Vins : ShownListing(u, row[u])}}
       \cup {manual[v].line : v \in {u \in Vins : ShownManual(u, row[u], type)}}

\* get_inventory_item: is there a page for this VIN?
HasPage(v) == Listed(v) \/ HasManual(v)

\* homepage_specials reads the administrator's list, or else that of an
\* earlier month.
FeaturedVins == IF featured.vins # <<>> THEN featured.vins ELSE older
FeaturedCards == featured.vins # <<>> /\ featured.cards

\* Featured vehicles that are gone are skipped, unless their card is stored.
FeaturedShown ==
    Slice(Where(FeaturedVins, LAMBDA v : FeaturedCards \/ HasPage(v)), 0, Limit)

HomeQuery == [All EXCEPT !.type = "new", !.offersOnly = TRUE]

SpecialVins == VinsOf(Specials(HomeQuery).items)

\* Mutant: the specials that fill up may repeat a featured vehicle.
HomepageRepeating ==
    Slice(FeaturedShown \o (IF FeaturedCards THEN <<>> ELSE SpecialVins), 0, Limit)

\* Without a stored card the homepage is filled up with specials.
Homepage ==
    LET more == Where(SpecialVins, LAMBDA v : v \notin ToSet(FeaturedShown))
    IN Slice(FeaturedShown \o (IF FeaturedCards THEN <<>> ELSE more), 0, Limit)
-----------------------------------------------------------------------------
\* The scrapers write vehicle_listings.
Scrape(rows) == /\ listings' = rows
                /\ UNCHANGED <<manual, offers, featured, older>>

\* upsert_manual_vehicle: the offer is overwritten if the form names one.
PutManual(v, row, terms) ==
    /\ manual' = [manual EXCEPT ![v] = row]
    /\ offers' = IF terms = NoOffer THEN offers ELSE [offers EXCEPT ![v] = terms]
    /\ UNCHANGED <<listings, featured, older>>

\* delete_manual_vehicle, bulk_delete_manual_vehicles: their offers stay.
DeleteManual(vins) ==
    /\ \E v \in vins : HasManual(v)
    /\ manual' = [v \in Vins |-> IF v \in vins THEN NoManual ELSE manual[v]]
    /\ UNCHANGED <<listings, offers, featured, older>>

\* Every one of these offers gets the terms, or those a dealer gives: he may
\* leave a term as it is.
SetOffers(vins, terms, given) ==
    /\ vins # {}
    /\ offers' = [v \in Vins |->
           IF v \notin vins THEN offers[v]
           ELSE [monthly |-> IF "monthly" \in given THEN terms.monthly
                             ELSE offers[v].monthly,
                 discounted |-> IF "discounted" \in given THEN terms.discounted
                                ELSE offers[v].discounted]]
    /\ UNCHANGED <<listings, manual, featured, older>>

Everything == {"monthly", "discounted"}

\* upsert_offer_override, for any VIN; update_offer, for one that is listed.
PutOffer(v, terms) == SetOffers({v}, terms, Everything)

DealerOffer(v, terms, given) == /\ \E r \in listings : r.vin = v
                                /\ SetOffers({v}, terms, given)

\* upsert_offer_override_by_ymm and update_offer_by_ymm.
PutLineOffer(line, type) ==
    LET vins == Matching([All EXCEPT !.line = line, !.type = type])
    IN \E terms \in Terms, given \in SUBSET Everything : SetOffers(vins, terms, given)

\* delete_offer_override, and the clean-up of the sheet's sync.
DropOffer(v) == /\ offers[v] # NoOffer
                /\ offers' = [offers EXCEPT ![v] = NoOffer]
                /\ UNCHANGED <<listings, manual, featured, older>>

\* Mutant: the list is stored as it was given.
Given(vins) == vins

\* A VIN that is given again is skipped.
Distinct(vins) ==
    At(vins, {i \in 1 .. Len(vins) : \A j \in 1 .. i - 1 : vins[j] # vins[i]})

\* set_homepage_featured: at most eight distinct vehicles, all with a page;
\* their cards are stored with them.
SetFeatured(given) ==
    LET vins == Distinct(given) IN
    /\ Len(vins) <= Limit
    /\ \A v \in ToSet(vins) : HasPage(v)
    /\ featured' = [vins |-> vins, cards |-> vins # <<>>]
    /\ UNCHANGED <<listings, manual, offers, older>>

Next == \/ \E rows \in SUBSET Rows : Scrape(rows)
        \/ \E m \in ManualRows, t \in Terms \cup {NoOffer} : PutManual(m[1], m[2], t)
        \/ \E vins \in SUBSET Vins : DeleteManual(vins)
        \/ \E v \in Vins : DropOffer(v) \/ \E t \in Terms : PutOffer(v, t)
        \/ \E v \in Vins, t \in Terms, given \in SUBSET Everything : DealerOffer(v, t, given)
        \/ \E l \in Lines, k \in {"all", "new", "used"} : PutLineOffer(l, k)
        \/ \E vins \in Lists : SetFeatured(vins)

Spec == Init /\ [][Next]_vars
-----------------------------------------------------------------------------
Pages(total) == (total + PageSize - 1) \div PageSize

\* How many of n vehicles are on a page.
OnPage(n, page) ==
    LET before == (page - 1) * PageSize
    IN IF n <= before THEN 0 ELSE Min({PageSize, n - before})

AffordableVins(q) ==
    {v \in ManualMatching(q) : Within(ManualItem(v, q), q)}
    \cup {v \in Matching(q) : Within(ItemOf(v, BestRow(v, q), q), q)}

\* search_inventory, whatever order the rows come in for each page: no page
\* shows a vehicle twice.  With a limit on the payment every page, turned to
\* in any order, announces the number of vehicles within it, listed or entered
\* by hand, and holds its share of them, unless more match than are fetched.
\* Without one a page holds at least its share of the listed vehicles, which
\* the total never undercounts, and never more than its share of the total.
TotalsHold ==
    \A q \in {p \in Queries : ~p.offersOnly} :
    \A page \in 1 .. 1 + Pages(Count(q) + Cardinality(ManualMatching(q))) :
    \A answer \in Answers(q, page) :
        LET listed == Cardinality(Matching(q))
            cards == Len(answer.items)
        IN /\ IsInjective(VinsOf(answer.items))
           /\ (q.maxPayment # 0 /\ listed <= FetchSize(q)) =>
                 /\ answer.total = Cardinality(AffordableVins(q))
                 /\ cards = OnPage(answer.total, page)
           /\ q.maxPayment = 0 =>
                 /\ listed <= answer.total
                 /\ OnPage(listed, page) <= cards
                 /\ cards <= OnPage(answer.total, page)

\* dealer_inventory, whatever order the rows come in for each page: a dealer is
\* told of more exactly when the next page will not be empty, and where that
\* ends he has been shown as many cards as the total counts.
DealerPagesEnd ==
    \A page \in 1 .. 1 + Pages(Count(All)) :
    \A rows, later \in SetToSeqs(Matching(All)) :
        LET shown == DealerPage(page, rows)
        IN /\ IsInjective(shown.items)
           /\ shown.more <=> DealerPage(page + 1, later).items # <<>>
           /\ shown.more => Len(shown.items) = PageSize
           /\ (~shown.more /\ (page = 1 \/ shown.items # <<>>)) =>
                 (page - 1) * PageSize + Len(shown.items) = Count(All)

LinesOfSpecials(type) ==
    LET q == [All EXCEPT !.type = type, !.offersOnly = TRUE]
    IN {BestRow(v, q).line : v \in ToSet(VinsOf(Specials(q).items))} \ {0}

\* The filters of the lease specials name the line of every new vehicle that is
\* shown as one, unless that names no model; where no manual vehicle is entered,
\* no listing is reported gone, every listing of the feed has a price and no
\* more can be specials than are fetched, each line they name leads to a
\* special.  Filters and search decide each on its own what a special is.
FiltersMatchSpecials ==
    /\ LinesOfSpecials("new") \cap Named \subseteq FilterLines("new")
    /\ (/\ \A v \in Vins : ~HasManual(v)
        /\ \A r \in listings : r.active /\ (r.feed => r.msrp # 0 \/ r.listed # 0)
        /\ Cardinality(LeaseVins) <= Caps.broad)
          => FilterLines("all") \subseteq LinesOfSpecials("all")

\* The homepage shows no vehicle twice and, unless its card is stored, none
\* without a page; where no card is stored it is as full as the featured
\* vehicles and the specials can make it.
HomepageIsFull ==
    /\ IsInjective(Homepage)
    /\ \A v \in ToSet(Homepage) : FeaturedCards \/ HasPage(v)
    /\ FeaturedCards \/ Len(Homepage) =
          Min({Limit, Cardinality({v \in ToSet(FeaturedVins) : HasPage(v)}
                                  \cup ToSet(SpecialVins))})
=============================================================================
