------------------------------- MODULE Deals -------------------------------
(***************************************************************************)
(* The deals table and its event log (app/routes/deals.py).  A request is  *)
(* served by a thread with its own database session: everything it reads   *)
(* comes from the snapshot MySQL opens at its first query (REPEATABLE      *)
(* READ), and everything it writes becomes visible at its commit.  So a    *)
(* request is two steps, Begin (it reads, checks and decides) and Commit   *)
(* (it writes over whatever the rows hold by then); between the two the    *)
(* other threads run.  A request that fails after Begin rolls back.        *)
(*                                                                         *)
(* An UPDATE names only the columns the request changed from the value it  *)
(* read, and only the id in its WHERE clause.                              *)
(***************************************************************************)
EXTENDS DealStatus

CONSTANTS Workers,     \* request threads
          Members,     \* users a deal can belong to
          Vins,        \* vehicles
          Approvals,   \* credit-union approvals a new deal can be tied to
          Brokers,     \* users with role broker_admin
          Dates,       \* delivery dates a payload gives; None when it clears it
          DealIds,     \* ids the deals table can hand out
          None,        \* NULL
          Keep         \* "not in the payload"

ASSUME ConstantsDistinct ==
    /\ None # Keep
    /\ Keep \notin Dates
    /\ {None, Keep} \cap (Brokers \cup DealStatus) = {}

VARIABLES deals,     \* deal id -> its row, or Absent
          log,       \* deal id -> what its deal_events rows say
          brokers,   \* the broker accounts that exist
          work       \* worker -> the request it is serving

vars == <<deals, log, brokers, work>>
-----------------------------------------------------------------------------
\* A row of deals.  The two time stamps are kept as "is it set".
Row == [user : Members, vin : Vins, approval : Approvals \cup {None},
        status : DealStatus, broker : Brokers \cup {None},
        date : Dates \cup {None}, locked_at : BOOLEAN, delivered_at : BOOLEAN]

Absent == [status |-> None]

Exists(d) == deals[d] # Absent

\* What the entries of one deal's event log say: every status logged, and the
\* last status, broker and delivery date logged (None: none yet, or cleared).
LogRow == [statuses : SUBSET DealStatus, status : DealStatus \cup {None},
           broker : Brokers \cup {None}, date : Dates \cup {None}]

EmptyLog == [statuses |-> {}, status |-> None, broker |-> None, date |-> None]

Idle == [op |-> "idle"]

\* create_deal past its check; update_deal past its checks: the row it read
\* and the fields its payload carries.
CreateTxn == [op : {"create"}, user : Members, vin : Vins,
              approval : Approvals \cup {None}]
UpdateTxn == [op : {"update"}, deal : DealIds, seen : Row,
              status : DealStatus \cup {Keep},
              broker : Brokers \cup {None, Keep},
              date : Dates \cup {Keep}]

TypeOK == /\ deals \in [DealIds -> Row \cup {Absent}]
          /\ log \in [DealIds -> LogRow]
          /\ brokers \subseteq Brokers
          /\ work \in [Workers -> {Idle} \cup CreateTxn \cup UpdateTxn]

Init == /\ deals = [d \in DealIds |-> Absent]
        /\ log = [d \in DealIds |-> EmptyLog]
        /\ brokers = Brokers
        /\ work = [w \in Workers |-> Idle]
-----------------------------------------------------------------------------
\* The open deals create_deal looks for before it inserts one.
OpenDeals(u, v) ==
    {d \in DealIds : /\ Exists(d)
                     /\ deals[d].user = u
                     /\ deals[d].vin = v
                     /\ deals[d].status \in OpenStatus}

\* create_deal: with no open deal for this member and vehicle the request
\* goes on to insert one, tied to approval a if the query finds one.  (With
\* an open deal it returns that deal and changes nothing.)
BeginCreate(w, u, v, a) ==
    /\ work[w] = Idle
    /\ OpenDeals(u, v) = {}
    /\ work' = [work EXCEPT ![w] = [op |-> "create", user |-> u, vin |-> v,
                                    approval |-> a]]
    /\ UNCHANGED <<deals, log, brokers>>

\* create_deal: insert the row and its deal_created entry, commit.
CommitCreate(w, d) ==
    /\ work[w].op = "create"
    /\ ~Exists(d)
    /\ deals' = [deals EXCEPT ![d] =
           [user |-> work[w].user, vin |-> work[w].vin,
            approval |-> work[w].approval, status |-> "inquiry",
            broker |-> None, date |-> None,
            locked_at |-> FALSE, delivered_at |-> FALSE]]
    /\ log' = [log EXCEPT ![d].statuses = {"inquiry"},
                          ![d].status = "inquiry"]
    /\ work' = [work EXCEPT ![w] = Idle]
    /\ UNCHANGED brokers
-----------------------------------------------------------------------------
\* Mutant: the move is not checked.
BeginUncheckedUpdate(w, d, s, b, t) ==
    /\ work[w] = Idle
    /\ Exists(d)
    /\ b \in brokers \cup {None, Keep}
    /\ work' = [work EXCEPT ![w] = [op |-> "update", deal |-> d,
                                    seen |-> deals[d], status |-> s,
                                    broker |-> b, date |-> t]]
    /\ UNCHANGED <<deals, log, brokers>>

\* update_deal: read the row, check the move against the status read and the
\* broker against the users table.
BeginUpdate(w, d, s, b, t) ==
    /\ work[w] = Idle
    /\ Exists(d)
    /\ s # Keep => MayMove(deals[d].status, s)
    /\ b \in brokers \cup {None, Keep}
    /\ work' = [work EXCEPT ![w] = [op |-> "update", deal |-> d,
                                    seen |-> deals[d], status |-> s,
                                    broker |-> b, date |-> t]]
    /\ UNCHANGED <<deals, log, brokers>>

\* Mutant: every field of the payload is written, changed or not.
EmitAlways(given, read, current) == IF given = Keep THEN current ELSE given

\* Mutant: a field the payload leaves out is written too.
EmitMissing(given, read, current) == IF given = read THEN current ELSE given

\* The column an UPDATE leaves: the payload's value when it differs from the
\* value read, else whatever the row holds at that moment.
Emit(given, read, current) == IF given \in {Keep, read} THEN current ELSE given

\* Mutant: the stamp is written from the row the request read.
WrittenUnstamped(r, row) ==
    [row EXCEPT
        !.status = Emit(r.status, r.seen.status, @),
        !.broker = Emit(r.broker, r.seen.broker, @),
        !.date = Emit(r.date, r.seen.date, @),
        !.locked_at = r.status = "locked" \/ r.seen.locked_at,
        !.delivered_at = @ \/ (r.status = "delivered" /\ ~r.seen.delivered_at)]

\* The row after the UPDATE of request r.  A stamp is set at the first move to
\* its status, as far as the request can see.
Written(r, row) ==
    [row EXCEPT
        !.status = Emit(r.status, r.seen.status, @),
        !.broker = Emit(r.broker, r.seen.broker, @),
        !.date = Emit(r.date, r.seen.date, @),
        !.locked_at = @ \/ (r.status = "locked" /\ ~r.seen.locked_at),
        !.delivered_at = @ \/ (r.status = "delivered" /\ ~r.seen.delivered_at)]

\* Mutant: a broker assigned in the same request as a move is not logged.
LoggedOnce(r, l) ==
    [statuses |-> l.statuses \cup ({r.status} \ {Keep}),
     status |-> IF r.status = Keep THEN l.status ELSE r.status,
     broker |-> IF r.broker = Keep \/ r.status # Keep THEN l.broker ELSE r.broker,
     date |-> IF r.date = Keep THEN l.date ELSE r.date]

\* The log after request r: one entry for each of the three fields its payload
\* carries, repeated and unchanged values included.
Logged(r, l) ==
    [statuses |-> l.statuses \cup ({r.status} \ {Keep}),
     status |-> IF r.status = Keep THEN l.status ELSE r.status,
     broker |-> IF r.broker = Keep THEN l.broker ELSE r.broker,
     date |-> IF r.date = Keep THEN l.date ELSE r.date]

\* The assigned broker is a foreign key: assigning a deleted account fails.
BrokerKnown(r) == r.broker \in {Keep, r.seen.broker, None} \cup brokers

\* update_deal: the UPDATE and the INSERTs of its log entries, commit.
CommitUpdate(w) ==
    LET r == work[w] IN
    /\ r.op = "update"
    /\ BrokerKnown(r)
    /\ deals' = [deals EXCEPT ![r.deal] = Written(r, @)]
    /\ log' = [log EXCEPT ![r.deal] = Logged(r, @)]
    /\ work' = [work EXCEPT ![w] = Idle]
    /\ UNCHANGED brokers
-----------------------------------------------------------------------------
\* The request fails after its reads (a bad field, a foreign key, a dropped
\* connection, a killed worker): the session closes and nothing is written.
Rollback(w) ==
    /\ work[w] # Idle
    /\ work' = [work EXCEPT ![w] = Idle]
    /\ UNCHANGED <<deals, log, brokers>>

\* admin_delete_user of a broker: the account goes, the deals assigned to it
\* are cleared, and no entry is logged for them.
DeleteBroker(b) ==
    /\ b \in brokers
    /\ brokers' = brokers \ {b}
    /\ deals' = [d \in DealIds |->
                    IF Exists(d) /\ deals[d].broker = b
                    THEN [deals[d] EXCEPT !.broker = None] ELSE deals[d]]
    /\ UNCHANGED <<log, work>>

Next ==
    \/ \E w \in Workers :
          \/ \E u \in Members, v \in Vins, a \in Approvals \cup {None} :
                BeginCreate(w, u, v, a)
          \/ \E d \in DealIds : CommitCreate(w, d)
          \/ \E d \in DealIds, s \in DealStatus \cup {Keep},
                b \in Brokers \cup {None, Keep}, t \in Dates \cup {Keep} :
                BeginUpdate(w, d, s, b, t)
          \/ CommitUpdate(w)
          \/ Rollback(w)
    \/ \E b \in Brokers : DeleteBroker(b)

Spec == Init /\ [][Next]_vars
-----------------------------------------------------------------------------
\* Whatever requests overlap, a stage is logged only after the stage before
\* it: no delivery without docs_pending, no docs_pending without a lock, no
\* lock without a ready offer (update_deal checks its move against a row that
\* may be stale by the time it writes).
StagesLoggedInOrder ==
    \A d \in DealIds :
        LET stages == log[d].statuses IN
        /\ stages # {} => "inquiry" \in stages
        /\ "offer_ready" \in stages => "broker_review" \in stages
        /\ "locked" \in stages => "offer_ready" \in stages
        /\ "docs_pending" \in stages => "locked" \in stages
        /\ "delivered" \in stages => "docs_pending" \in stages

\* A row past the lock carries its stamps, and a stamp is backed by a logged
\* status, even when the request that wrote the status had read an old row.
StampsMatchStatus ==
    \A d \in DealIds : Exists(d) =>
        /\ deals[d].status \in {"locked", "docs_pending", "delivered"}
               => deals[d].locked_at
        /\ deals[d].status = "delivered" => deals[d].delivered_at
        /\ deals[d].locked_at => "locked" \in log[d].statuses
        /\ deals[d].delivered_at => "delivered" \in log[d].statuses

\* No deal is left assigned to a deleted account, however a deletion falls
\* between the reads and the commit of an assignment.
AssignedBrokerExists ==
    \A d \in DealIds : Exists(d) => deals[d].broker \in brokers \cup {None}

\* The status column and the log together behave as DealLifecycle says.
Lifecycle == INSTANCE DealLifecycle
    WITH NoStatus <- None,
         status <- [d \in DealIds |-> deals[d].status],
         logged <- [d \in DealIds |-> log[d].statuses]
LifecycleSpec == Lifecycle!Spec

\* What holds when requests do not overlap (one worker).

\* The last entry of each kind tells what the row holds; a broker is missing
\* from the row only when the assignment was cleared or the account deleted.
LogTellsRow ==
    \A d \in DealIds : Exists(d) =>
        /\ deals[d].status = log[d].status
        /\ deals[d].date = log[d].date
        /\ deals[d].broker = IF log[d].broker \in brokers
                             THEN log[d].broker ELSE None
=============================================================================
