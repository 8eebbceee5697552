---------------------------- MODULE DealsProofs ----------------------------
(***************************************************************************)
(* Proofs about Deals, for any number of workers, members, brokers, deals. *)
(*                                                                         *)
(* The safety invariants are not inductive alone: what a commit writes     *)
(* depends on the row its request read, so the invariant must say how that *)
(* old row relates to the present one (ReadRowsHold): its status was       *)
(* logged, its stamps are still set, and it obeyed the stamp rule itself.  *)
(***************************************************************************)
EXTENDS Deals, TLAPS

\* A row whose status and stamps agree.
Stamped(row) ==
    /\ row.status \in {"locked", "docs_pending", "delivered"} => row.locked_at
    /\ row.status = "delivered" => row.delivered_at

\* How the row an update read relates to the row it will write over.
ReadRowHolds(r) ==
    /\ Exists(r.deal)
    /\ r.seen.status \in log[r.deal].statuses
    /\ r.status # Keep => MayMove(r.seen.status, r.status)
    /\ Stamped(r.seen)
    /\ r.seen.locked_at => deals[r.deal].locked_at
    /\ r.seen.delivered_at => deals[r.deal].delivered_at

ReadRowsHold == \A w \in Workers : work[w].op = "update" => ReadRowHolds(work[w])

\* The row's status is in the log, and only deals that exist have a log.
StatusLogged ==
    \A d \in DealIds :
        /\ Exists(d) => deals[d].status \in log[d].statuses
        /\ ~Exists(d) => log[d].statuses = {}
-----------------------------------------------------------------------------
\* NULL is not a status, so an absent row is not a row.
LEMMA AbsentNotRow == Absent \notin Row
  BY ConstantsDistinct DEF Absent, Row

\* A column an UPDATE writes keeps the type of the column.
LEMMA EmitType ==
  ASSUME NEW S, NEW given \in S \cup {Keep}, NEW read, NEW current \in S
  PROVE  Emit(given, read, current) \in S
  BY DEF Emit

\* An UPDATE of a row yields a row.
LEMMA WrittenType ==
  ASSUME NEW r \in UpdateTxn, NEW row \in Row
  PROVE  Written(r, row) \in Row
  <1>1. Emit(r.status, r.seen.status, row.status) \in DealStatus
    BY EmitType DEF UpdateTxn, Row
  <1>2. Emit(r.broker, r.seen.broker, row.broker) \in Brokers \cup {None}
    BY EmitType, r.broker \in (Brokers \cup {None}) \cup {Keep} DEF UpdateTxn, Row
  <1>3. Emit(r.date, r.seen.date, row.date) \in Dates \cup {None}
    BY EmitType, r.date \in (Dates \cup {None}) \cup {Keep} DEF UpdateTxn, Row
  <1>4. QED
    BY <1>1, <1>2, <1>3 DEF Written, Row

\* The log of an update is a log.
LEMMA LoggedType ==
  ASSUME NEW r \in UpdateTxn, NEW l \in LogRow
  PROVE  Logged(r, l) \in LogRow
  BY DEF Logged, LogRow, UpdateTxn

\* A worker between BeginUpdate and its commit holds an update.
LEMMA UpdateTxnOf ==
  ASSUME TypeOK, NEW w \in Workers, work[w].op = "update"
  PROVE  work[w] \in UpdateTxn
  BY DEF TypeOK, Idle, CreateTxn, UpdateTxn

\* A worker between BeginCreate and its commit holds a create.
LEMMA CreateTxnOf ==
  ASSUME TypeOK, NEW w \in Workers, work[w].op = "create"
  PROVE  work[w] \in CreateTxn
  BY DEF TypeOK, Idle, CreateTxn, UpdateTxn
-----------------------------------------------------------------------------
\* Every step keeps the types; an UPDATE yields a row because the deal it was
\* read from is still there.
LEMMA TypeStep ==
  ASSUME TypeOK, ReadRowsHold, [Next]_vars
  PROVE  TypeOK'
  <1>1. ASSUME NEW w \in Workers, NEW u \in Members, NEW v \in Vins,
               NEW a \in Approvals \cup {None}, BeginCreate(w, u, v, a)
        PROVE  TypeOK'
    <2>1. [op |-> "create", user |-> u, vin |-> v, approval |-> a] \in CreateTxn
      BY DEF CreateTxn
    <2>2. QED
      BY <1>1, <2>1 DEF BeginCreate, TypeOK
  <1>2. ASSUME NEW w \in Workers, NEW d \in DealIds, CommitCreate(w, d)
        PROVE  TypeOK'
    <2>1. work[w] \in CreateTxn
      BY <1>2, CreateTxnOf DEF CommitCreate
    <2>2. deals'[d] \in Row
      BY <1>2, <2>1 DEF CommitCreate, TypeOK, CreateTxn, Row, DealStatus
    <2>3. log'[d] \in LogRow
      BY <1>2 DEF CommitCreate, TypeOK, LogRow, DealStatus
    <2>4. QED
      BY <1>2, <2>2, <2>3 DEF CommitCreate, TypeOK
  <1>3. ASSUME NEW w \in Workers, NEW d \in DealIds,
               NEW s \in DealStatus \cup {Keep},
               NEW b \in Brokers \cup {None, Keep},
               NEW t \in Dates \cup {Keep}, BeginUpdate(w, d, s, b, t)
        PROVE  TypeOK'
    <2>1. deals[d] \in Row
      BY <1>3 DEF BeginUpdate, TypeOK, Exists
    <2>2. [op |-> "update", deal |-> d, seen |-> deals[d], status |-> s,
           broker |-> b, date |-> t] \in UpdateTxn
      BY <2>1 DEF UpdateTxn
    <2>3. QED
      BY <1>3, <2>2 DEF BeginUpdate, TypeOK
  <1>4. ASSUME NEW w \in Workers, CommitUpdate(w)
        PROVE  TypeOK'
    <2>1. work[w] \in UpdateTxn /\ Exists(work[w].deal)
      BY <1>4, UpdateTxnOf DEF CommitUpdate, ReadRowsHold, ReadRowHolds
    <2> DEFINE r == work[w]
    <2>2. r.deal \in DealIds /\ deals[r.deal] \in Row /\ log[r.deal] \in LogRow
      BY <2>1 DEF TypeOK, UpdateTxn, Exists
    <2>3. Written(r, deals[r.deal]) \in Row
      BY <2>1, <2>2, WrittenType
    <2>4. Logged(r, log[r.deal]) \in LogRow
      BY <2>1, <2>2, LoggedType
    <2> HIDE DEF r
    <2>5. /\ deals' = [deals EXCEPT ![r.deal] = Written(r, deals[r.deal])]
          /\ log' = [log EXCEPT ![r.deal] = Logged(r, log[r.deal])]
          /\ work' = [work EXCEPT ![w] = Idle]
          /\ brokers' = brokers
      BY <1>4 DEF CommitUpdate, r
    <2>6. QED
      BY <2>2, <2>3, <2>4, <2>5 DEF TypeOK
  <1>5. ASSUME NEW w \in Workers, Rollback(w)
        PROVE  TypeOK'
    BY <1>5 DEF Rollback, TypeOK
  <1>6. ASSUME NEW b \in Brokers, DeleteBroker(b)
        PROVE  TypeOK'
    <2>1. ASSUME NEW d \in DealIds PROVE deals'[d] \in Row \cup {Absent}
      <3>1. CASE Exists(d) /\ deals[d].broker = b
        <4>1. deals[d] \in Row
          BY <3>1 DEF Exists, TypeOK
        <4>2. [deals[d] EXCEPT !.broker = None] \in Row
          BY <4>1 DEF Row
        <4>3. QED
          BY <1>6, <3>1, <4>2 DEF DeleteBroker
      <3>2. CASE ~(Exists(d) /\ deals[d].broker = b)
        BY <1>6, <3>2 DEF DeleteBroker, TypeOK
      <3>3. QED
        BY <3>1, <3>2
    <2>2. deals' = [d \in DealIds |-> deals'[d]]
      BY <1>6 DEF DeleteBroker
    <2>3. QED
      BY <1>6, <2>1, <2>2 DEF DeleteBroker, TypeOK
  <1>7. CASE UNCHANGED vars
    BY <1>7 DEF vars, TypeOK
  <1>8. QED
    BY <1>1, <1>2, <1>3, <1>4, <1>5, <1>6, <1>7 DEF Next
-----------------------------------------------------------------------------
\* The part of the invariant that speaks of statuses and stamps.
StatusInv == /\ StatusLogged
             /\ ReadRowsHold
             /\ StagesLoggedInOrder
             /\ StampsMatchStatus

\* A new deal is an inquiry whose log says so; the reads of other requests
\* cannot be of this deal, which did not exist.
LEMMA CreateKeepsStatusInv ==
  ASSUME TypeOK, StatusInv, NEW w \in Workers, NEW d \in DealIds,
         CommitCreate(w, d)
  PROVE  StatusInv'
  <1>1. /\ ~Exists(d)
        /\ \A e \in DealIds \ {d} : deals'[e] = deals[e] /\ log'[e] = log[e]
    BY DEF CommitCreate, TypeOK
  <1>2. /\ deals'[d].status = "inquiry" /\ log'[d].statuses = {"inquiry"}
        /\ deals'[d].locked_at = FALSE /\ deals'[d].delivered_at = FALSE
        /\ Exists(d)'
    BY ConstantsDistinct DEF CommitCreate, TypeOK, LogRow, Exists, Absent, DealStatus
  <1>3. StatusLogged'
    BY <1>1, <1>2 DEF StatusInv, StatusLogged, Exists
  <1>4. ReadRowsHold'
    <2> SUFFICES ASSUME NEW v \in Workers, work'[v].op = "update"
                 PROVE  ReadRowHolds(work[v])' /\ work'[v] = work[v]
      BY DEF ReadRowsHold
    <2>1. v # w /\ work'[v] = work[v]
      BY DEF CommitCreate, TypeOK, Idle
    <2>2. ReadRowHolds(work[v]) /\ work[v].deal \in DealIds
      BY <2>1, UpdateTxnOf DEF StatusInv, ReadRowsHold, UpdateTxn
    <2>3. work[v].deal # d
      BY <1>1, <2>2 DEF ReadRowHolds
    <2>4. QED
      BY <1>1, <2>1, <2>2, <2>3 DEF ReadRowHolds, Exists
  <1>5. StagesLoggedInOrder'
    BY <1>1, <1>2 DEF StatusInv, StagesLoggedInOrder
  <1>6. StampsMatchStatus'
    BY <1>1, <1>2 DEF StatusInv, StampsMatchStatus, Exists
  <1>7. QED
    BY <1>3, <1>4, <1>5, <1>6 DEF StatusInv

\* What a request reads at its begin holds of the rows at that moment.
LEMMA BeginKeepsStatusInv ==
  ASSUME TypeOK, StatusInv, NEW w \in Workers, NEW d \in DealIds,
         NEW s \in DealStatus \cup {Keep}, NEW b \in Brokers \cup {None, Keep},
         NEW t \in Dates \cup {Keep}, BeginUpdate(w, d, s, b, t)
  PROVE  StatusInv'
  <1>1. /\ work'[w] = [op |-> "update", deal |-> d, seen |-> deals[d],
                       status |-> s, broker |-> b, date |-> t]
        /\ \A v \in Workers \ {w} : work'[v] = work[v]
        /\ UNCHANGED <<deals, log>>
    BY DEF BeginUpdate, TypeOK
  <1>2. Exists(d) /\ Stamped(deals[d]) /\ deals[d].status \in log[d].statuses
    BY DEF BeginUpdate, StatusInv, StampsMatchStatus, StatusLogged, Stamped
  <1>3. ReadRowHolds(work[w])'
    BY <1>1, <1>2 DEF ReadRowHolds, BeginUpdate, Exists
  <1>4. ReadRowsHold'
    BY <1>1, <1>3 DEF StatusInv, ReadRowsHold, ReadRowHolds, Exists
  <1>5. QED
    BY <1>1, <1>4
       DEF StatusInv, StatusLogged, StagesLoggedInOrder, StampsMatchStatus, Exists

\* A commit writes over a row that may have changed since it was read.  The
\* status it logs follows one that was logged; the stamps it relies on are
\* still set; the stamps it sets are of the status it logs.
LEMMA CommitKeepsStatusInv ==
  ASSUME TypeOK, StatusInv, NEW w \in Workers, CommitUpdate(w)
  PROVE  StatusInv'
  <1> DEFINE r == work[w]
             d == r.deal
             row == Written(r, deals[d])
             entry == Logged(r, log[d])
  <1>1. r \in UpdateTxn /\ ReadRowHolds(r)
    BY UpdateTxnOf DEF CommitUpdate, StatusInv, ReadRowsHold
  <1>2. /\ d \in DealIds
        /\ deals[d] \in Row /\ log[d] \in LogRow
        /\ r.seen \in Row /\ r.status \in DealStatus \cup {Keep}
    BY <1>1 DEF UpdateTxn, ReadRowHolds, TypeOK, Exists
  <1>3. /\ deals' = [deals EXCEPT ![d] = row]
        /\ log' = [log EXCEPT ![d] = entry]
        /\ work' = [work EXCEPT ![w] = Idle]
    BY DEF CommitUpdate
  <1>4. /\ row.status = Emit(r.status, r.seen.status, deals[d].status)
        /\ row.locked_at = (deals[d].locked_at
                              \/ (r.status = "locked" /\ ~r.seen.locked_at))
        /\ row.delivered_at = (deals[d].delivered_at
                              \/ (r.status = "delivered" /\ ~r.seen.delivered_at))
        /\ row \in Row
    BY <1>1, <1>2, WrittenType DEF Written, Row
  <1>5. entry.statuses = log[d].statuses \cup ({r.status} \ {Keep})
    BY DEF Logged
  <1>6. /\ deals[d].status \in log[d].statuses
        /\ Stamped(deals[d])
        /\ deals[d].locked_at => "locked" \in log[d].statuses
        /\ deals[d].delivered_at => "delivered" \in log[d].statuses
    BY <1>1, <1>2
       DEF StatusInv, StatusLogged, StampsMatchStatus, Stamped, ReadRowHolds
  <1>7. row # Absent
    BY <1>4, AbsentNotRow
  <1> HIDE DEF r, d, row, entry
  <1>8. /\ deals'[d] = row /\ log'[d] = entry
        /\ \A e \in DealIds \ {d} : deals'[e] = deals[e] /\ log'[e] = log[e]
    BY <1>2, <1>3 DEF TypeOK
  <1>9. Stamped(row) /\ row.status \in entry.statuses
    <2>1. CASE r.status \in {Keep, r.seen.status}
      BY <2>1, <1>1, <1>2, <1>4, <1>5, <1>6 DEF Emit, Stamped, Row
    <2>2. CASE r.status \notin {Keep, r.seen.status}
      <3>1. row.status = r.status /\ <<r.seen.status, r.status>> \in AllowedTransitions
        BY <2>2, <1>1, <1>4 DEF Emit, ReadRowHolds, MayMove
      <3>2. row.locked_at <=> \/ deals[d].locked_at
                              \/ r.status = "locked" /\ ~r.seen.locked_at
        BY <1>4
      <3>3. row.delivered_at <=> \/ deals[d].delivered_at
                                 \/ r.status = "delivered" /\ ~r.seen.delivered_at
        BY <1>4
      <3>4. r.seen.locked_at => deals[d].locked_at
        BY <1>1 DEF ReadRowHolds, d
      <3>5. r.seen.delivered_at => deals[d].delivered_at
        BY <1>1 DEF ReadRowHolds, d
      <3>6. row.status \in {"docs_pending", "delivered"} => r.seen.locked_at
        BY <3>1, <1>1 DEF ReadRowHolds, Stamped, AllowedTransitions
      <3>7. Stamped(row)
        BY <3>1, <3>2, <3>3, <3>4, <3>5, <3>6 DEF Stamped
      <3>8. QED
        BY <3>1, <3>7, <2>2, <1>5
    <2>3. QED
      BY <2>1, <2>2
  <1>10. StatusLogged'
    BY <1>2, <1>7, <1>8, <1>9 DEF StatusInv, StatusLogged, Exists
  <1>11. ReadRowsHold'
    <2> SUFFICES ASSUME NEW v \in Workers, work'[v].op = "update"
                 PROVE  ReadRowHolds(work[v])'
      BY DEF ReadRowsHold
    <2>1. v # w /\ work'[v] = work[v]
      BY <1>3 DEF TypeOK, Idle
    <2>2. ReadRowHolds(work[v]) /\ work[v].deal \in DealIds
      BY <2>1, UpdateTxnOf DEF StatusInv, ReadRowsHold, UpdateTxn
    <2>3. CASE work[v].deal = d
      BY <2>1, <2>2, <2>3, <1>4, <1>5, <1>7, <1>8 DEF ReadRowHolds, Exists
    <2>4. CASE work[v].deal # d
      BY <2>1, <2>2, <2>4, <1>8 DEF ReadRowHolds, Exists
    <2>5. QED
      BY <2>3, <2>4
  <1>12. StagesLoggedInOrder'
    <2>1. r.status # Keep => MayMove(r.seen.status, r.status)
      BY <1>1 DEF ReadRowHolds
    <2>2. r.seen.status \in log[d].statuses
      BY <1>1 DEF ReadRowHolds, d
    <2>3. QED
      BY <2>1, <2>2, <1>2, <1>5, <1>8
         DEF StatusInv, StagesLoggedInOrder, MayMove, AllowedTransitions
  <1>13. StampsMatchStatus'
    <2>1. row.locked_at => "locked" \in entry.statuses
      BY <1>4, <1>5, <1>6, ConstantsDistinct DEF DealStatus
    <2>2. row.delivered_at => "delivered" \in entry.statuses
      BY <1>4, <1>5, <1>6, ConstantsDistinct DEF DealStatus
    <2>3. QED
      BY <2>1, <2>2, <1>8, <1>9 DEF StatusInv, StampsMatchStatus, Stamped, Exists
  <1>14. QED
    BY <1>10, <1>11, <1>12, <1>13 DEF StatusInv

\* Deleting a broker account touches no status and no stamp.
LEMMA DeleteKeepsStatusInv ==
  ASSUME TypeOK, StatusInv, NEW b \in Brokers, DeleteBroker(b)
  PROVE  StatusInv'
  <1>1. ASSUME NEW d \in DealIds
        PROVE  /\ Exists(d)' <=> Exists(d)
               /\ Exists(d) => /\ deals'[d].status = deals[d].status
                               /\ deals'[d].locked_at = deals[d].locked_at
                               /\ deals'[d].delivered_at = deals[d].delivered_at
    <2>1. CASE Exists(d) /\ deals[d].broker = b
      <3>1. deals[d] \in Row
        BY <2>1 DEF TypeOK, Exists
      <3>2. deals'[d] = [deals[d] EXCEPT !.broker = None]
        BY <2>1 DEF DeleteBroker
      <3>3. deals'[d] \in Row
        BY <3>1, <3>2 DEF Row
      <3>4. QED
        BY <2>1, <3>1, <3>2, <3>3, AbsentNotRow DEF Row, Exists
    <2>2. CASE ~(Exists(d) /\ deals[d].broker = b)
      BY <2>2 DEF DeleteBroker, Exists
    <2>3. QED
      BY <2>1, <2>2
  <1>2. UNCHANGED <<log, work>>
    BY DEF DeleteBroker
  <1>3. ReadRowsHold'
    <2> SUFFICES ASSUME NEW v \in Workers, work'[v].op = "update"
                 PROVE  ReadRowHolds(work[v])'
      BY DEF ReadRowsHold
    <2>1. ReadRowHolds(work[v]) /\ work[v].deal \in DealIds
      BY <1>2, UpdateTxnOf DEF StatusInv, ReadRowsHold, UpdateTxn
    <2>2. QED
      BY <1>1, <1>2, <2>1 DEF ReadRowHolds
  <1>4. QED
    BY <1>1, <1>2, <1>3
       DEF StatusInv, StatusLogged, StagesLoggedInOrder, StampsMatchStatus

\* Every step keeps the status part of the invariant.
LEMMA StatusStep ==
  ASSUME TypeOK, StatusInv, [Next]_vars
  PROVE  StatusInv'
  <1>1. ASSUME NEW w \in Workers, UNCHANGED <<deals, log>>,
               \A v \in Workers : \/ work'[v] = work[v]
                                  \/ work'[v].op # "update"
        PROVE  StatusInv'
    BY <1>1 DEF StatusInv, StatusLogged, ReadRowsHold, ReadRowHolds,
                StagesLoggedInOrder, StampsMatchStatus, Exists
  <1>2. ASSUME NEW w \in Workers, NEW u \in Members, NEW v \in Vins,
               NEW a \in Approvals \cup {None}, BeginCreate(w, u, v, a)
        PROVE  StatusInv'
    BY <1>1, <1>2 DEF BeginCreate, TypeOK
  <1>3. ASSUME NEW w \in Workers, Rollback(w)
        PROVE  StatusInv'
    BY <1>1, <1>3 DEF Rollback, TypeOK, Idle
  <1>4. CASE UNCHANGED vars
    BY <1>4 DEF vars, StatusInv, StatusLogged, ReadRowsHold, ReadRowHolds,
                StagesLoggedInOrder, StampsMatchStatus, Exists
  <1>5. QED
    BY <1>2, <1>3, <1>4, CreateKeepsStatusInv, BeginKeepsStatusInv,
       CommitKeepsStatusInv, DeleteKeepsStatusInv DEF Next
-----------------------------------------------------------------------------
\* The inductive invariant, from the first state on.
THEOREM Invariance == Spec => [](TypeOK /\ StatusInv)
  <1>1. Init => TypeOK /\ StatusInv
    BY DEF Init, TypeOK, StatusInv, StatusLogged, ReadRowsHold,
           StagesLoggedInOrder, StampsMatchStatus, Exists, EmptyLog, LogRow, Idle
  <1>2. TypeOK /\ StatusInv /\ [Next]_vars => (TypeOK /\ StatusInv)'
    BY TypeStep, StatusStep DEF StatusInv
  <1>3. QED
    BY <1>1, <1>2, PTL DEF Spec

\* The tables and the requests keep their types.
THEOREM TypeCorrect == Spec => []TypeOK
  BY Invariance, PTL

\* The event log never skips a stage, for any overlap of requests.
THEOREM StagesInOrder == Spec => []StagesLoggedInOrder
  <1>1. TypeOK /\ StatusInv => StagesLoggedInOrder
    BY DEF StatusInv
  <1>2. QED
    BY <1>1, Invariance, PTL

\* A row past the lock carries its stamps, and no stamp is without an entry.
THEOREM StampsMatch == Spec => []StampsMatchStatus
  <1>1. TypeOK /\ StatusInv => StampsMatchStatus
    BY DEF StatusInv
  <1>2. QED
    BY <1>1, Invariance, PTL
-----------------------------------------------------------------------------
(***************************************************************************)
(* The assigned broker.  Whatever an update read, it writes a broker only  *)
(* after the foreign key found the account, and a deletion clears the deals *)
(* of the account it removes.                                              *)
(***************************************************************************)
LEMMA BrokerStep ==
  ASSUME TypeOK, ReadRowsHold, AssignedBrokerExists, [Next]_vars
  PROVE  AssignedBrokerExists'
  <1>1. ASSUME NEW w \in Workers, NEW d \in DealIds, CommitCreate(w, d)
        PROVE  AssignedBrokerExists'
    BY <1>1 DEF CommitCreate, AssignedBrokerExists, TypeOK, Exists
  <1>2. ASSUME NEW w \in Workers, CommitUpdate(w)
        PROVE  AssignedBrokerExists'
    <2> DEFINE r == work[w]
    <2>1. r \in UpdateTxn /\ Exists(r.deal)
      BY <1>2, UpdateTxnOf DEF CommitUpdate, ReadRowsHold, ReadRowHolds
    <2>2. r.deal \in DealIds /\ deals[r.deal] \in Row
      BY <2>1 DEF UpdateTxn, TypeOK, Exists
    <2>3. /\ deals' = [deals EXCEPT ![r.deal] = Written(r, deals[r.deal])]
          /\ brokers' = brokers
          /\ BrokerKnown(r)
      BY <1>2 DEF CommitUpdate
    <2>4. Written(r, deals[r.deal]).broker
             = Emit(r.broker, r.seen.broker, deals[r.deal].broker)
      BY <2>2 DEF Written, Row
    <2>5. deals[r.deal].broker \in brokers \cup {None}
      BY <2>1, <2>2 DEF AssignedBrokerExists
    <2>6. Written(r, deals[r.deal]).broker \in brokers \cup {None}
      BY <2>3, <2>4, <2>5 DEF Emit, BrokerKnown
    <2> HIDE DEF r
    <2>7. \A d \in DealIds \ {r.deal} : deals'[d] = deals[d]
      BY <2>3 DEF TypeOK
    <2>8. deals'[r.deal] = Written(r, deals[r.deal])
      BY <2>2, <2>3 DEF TypeOK
    <2>9. QED
      BY <2>3, <2>6, <2>7, <2>8 DEF AssignedBrokerExists, Exists
  <1>3. ASSUME NEW b \in Brokers, DeleteBroker(b)
        PROVE  AssignedBrokerExists'
    <2> SUFFICES ASSUME NEW d \in DealIds, Exists(d)'
                 PROVE  deals'[d].broker \in brokers' \cup {None}
      BY DEF AssignedBrokerExists
    <2>1. CASE Exists(d) /\ deals[d].broker = b
      <3>1. deals[d] \in Row
        BY <2>1 DEF TypeOK, Exists
      <3>2. deals'[d] = [deals[d] EXCEPT !.broker = None]
        BY <1>3, <2>1 DEF DeleteBroker
      <3>3. QED
        BY <3>1, <3>2 DEF Row
    <2>2. CASE ~(Exists(d) /\ deals[d].broker = b)
      BY <1>3, <2>2 DEF DeleteBroker, AssignedBrokerExists, Exists
    <2>3. QED
      BY <2>1, <2>2
  <1>4. ASSUME UNCHANGED <<deals, brokers>>
        PROVE  AssignedBrokerExists'
    BY <1>4 DEF AssignedBrokerExists, Exists
  <1>5. QED
    BY <1>1, <1>2, <1>3, <1>4
       DEF Next, vars, BeginCreate, BeginUpdate, Rollback

\* No deal stays assigned to a deleted account.
THEOREM BrokerExists == Spec => []AssignedBrokerExists
  <1>1. Init => AssignedBrokerExists
    BY DEF Init, AssignedBrokerExists, Exists
  <1>2. TypeOK /\ StatusInv /\ AssignedBrokerExists /\ [Next]_vars
           => AssignedBrokerExists'
    BY BrokerStep DEF StatusInv
  <1>3. QED
    BY <1>1, <1>2, Invariance, PTL DEF Spec
-----------------------------------------------------------------------------
(***************************************************************************)
(* Refinement: the status column and the logged statuses implement         *)
(* DealLifecycle.  A create maps to Open, an update that carries a status  *)
(* to Log (the successor of the status the request read, which the log     *)
(* holds), every other step to a stutter.                                  *)
(***************************************************************************)
StatusOf == [d \in DealIds |-> deals[d].status]
StatusesOf == [d \in DealIds |-> log[d].statuses]

\* A create is the step that opens the deal.
LEMMA CreateOpens ==
  ASSUME TypeOK, StatusInv, NEW w \in Workers, NEW d \in DealIds,
         CommitCreate(w, d)
  PROVE  Lifecycle!Open(d)
  <1>1. deals[d] = Absent /\ log[d] \in LogRow
    BY DEF CommitCreate, Exists, TypeOK
  <1>2. deals'[d].status = "inquiry" /\ log'[d].statuses = {"inquiry"}
    BY <1>1 DEF CommitCreate, TypeOK, LogRow
  <1>3. \A e \in DealIds \ {d} : deals'[e] = deals[e] /\ log'[e] = log[e]
    BY DEF CommitCreate, TypeOK
  <1>4. [StatusOf EXCEPT ![d] = "inquiry"] = StatusOf'
    BY <1>2, <1>3 DEF StatusOf
  <1>5. [StatusesOf EXCEPT ![d] = {"inquiry"}] = StatusesOf'
    BY <1>2, <1>3 DEF StatusesOf
  <1>6. StatusOf[d] = None
    BY <1>1 DEF StatusOf, Absent
  <1>7. QED
    BY <1>4, <1>5, <1>6 DEF Lifecycle!Open, StatusOf, StatusesOf

\* An update that carries a status is a step that logs it; any other leaves the
\* statuses and the logs alone.
LEMMA CommitLogs ==
  ASSUME TypeOK, StatusInv, NEW w \in Workers, CommitUpdate(w)
  PROVE  \/ \E d \in DealIds, s \in DealStatus : Lifecycle!Log(d, s)
         \/ UNCHANGED <<StatusOf, StatusesOf>>
  <1> DEFINE r == work[w]
             d == r.deal
  <1>1. r \in UpdateTxn /\ ReadRowHolds(r)
    BY UpdateTxnOf DEF CommitUpdate, StatusInv, ReadRowsHold
  <1>2. /\ d \in DealIds /\ deals[d] \in Row
        /\ r.status \in DealStatus \cup {Keep}
    BY <1>1 DEF UpdateTxn, ReadRowHolds, TypeOK, Exists
  <1>3. /\ deals'[d].status = Emit(r.status, r.seen.status, deals[d].status)
        /\ log'[d].statuses = log[d].statuses \cup ({r.status} \ {Keep})
        /\ \A e \in DealIds \ {d} : deals'[e] = deals[e] /\ log'[e] = log[e]
    BY <1>2 DEF CommitUpdate, TypeOK, Written, Logged, Row
  <1>4. r.status # Keep => \E from \in log[d].statuses : MayMove(from, r.status)
    BY <1>1 DEF ReadRowHolds
  <1> HIDE DEF d, r
  <1>5. CASE r.status = Keep
    <2>1. \A e \in DealIds : /\ deals'[e].status = deals[e].status
                             /\ log'[e].statuses = log[e].statuses
      BY <1>3, <1>5 DEF Emit
    <2>2. QED
      BY <2>1 DEF StatusOf, StatusesOf
  <1>6. CASE r.status # Keep
    <2>1. [StatusesOf EXCEPT ![d] = @ \cup {r.status}] = StatusesOf'
      BY <1>2, <1>3, <1>6 DEF StatusesOf
    <2>2. \/ [StatusOf EXCEPT ![d] = r.status] = StatusOf'
          \/ StatusOf' = StatusOf
      <3>1. CASE r.status = r.seen.status
        BY <1>2, <1>3, <3>1 DEF StatusOf, Emit
      <3>2. CASE r.status # r.seen.status
        BY <1>2, <1>3, <1>6, <3>2 DEF StatusOf, Emit
      <3>3. QED
        BY <3>1, <3>2
    <2>3. \E from \in StatusesOf[d] : MayMove(from, r.status)
      BY <1>2, <1>4, <1>6 DEF StatusesOf
    <2>4. Lifecycle!Log(d, r.status)
      BY <2>1, <2>2, <2>3
         DEF Lifecycle!Log, StatusOf, StatusesOf, Lifecycle!MayMove, MayMove,
             Lifecycle!AllowedTransitions, AllowedTransitions
    <2>5. d \in DealIds /\ r.status \in DealStatus
      BY <1>2, <1>6
    <2>6. QED
      BY <2>4, <2>5 DEF Lifecycle!Log
  <1>7. QED
    BY <1>5, <1>6

\* Deleting a broker changes no status and logs nothing.
LEMMA DeleteStutters ==
  ASSUME TypeOK, NEW b \in Brokers, DeleteBroker(b)
  PROVE  UNCHANGED <<StatusOf, StatusesOf>>
  <1>1. ASSUME NEW d \in DealIds PROVE deals'[d].status = deals[d].status
    BY DEF DeleteBroker, TypeOK, Row, Absent, Exists
  <1>2. QED
    BY <1>1 DEF DeleteBroker, StatusOf, StatusesOf

\* The deal endpoints implement the abstract lifecycle.
THEOREM Refinement == Spec => LifecycleSpec
  <1>1. Init => Lifecycle!Init
    BY DEF Init, Lifecycle!Init, Absent, EmptyLog
  <1>2. ASSUME TypeOK, StatusInv, [Next]_vars
        PROVE  Lifecycle!Next \/ UNCHANGED <<StatusOf, StatusesOf>>
    <2>1. ASSUME UNCHANGED <<deals, log>>
          PROVE  UNCHANGED <<StatusOf, StatusesOf>>
      BY <2>1 DEF StatusOf, StatusesOf
    <2>2. ASSUME NEW w \in Workers, CommitUpdate(w)
          PROVE  Lifecycle!Next \/ UNCHANGED <<StatusOf, StatusesOf>>
      BY <1>2, <2>2, CommitLogs DEF Lifecycle!Next, DealStatus, Lifecycle!DealStatus
    <2>3. ASSUME NEW w \in Workers, NEW d \in DealIds, CommitCreate(w, d)
          PROVE  Lifecycle!Next
      BY <1>2, <2>3, CreateOpens DEF Lifecycle!Next
    <2>4. QED
      BY <1>2, <2>1, <2>2, <2>3, DeleteStutters
         DEF Next, vars, BeginCreate, BeginUpdate, Rollback
  <1>3. TypeOK /\ StatusInv /\ [Next]_vars => [Lifecycle!Next]_(Lifecycle!vars)
    BY <1>2 DEF Lifecycle!vars, StatusOf, StatusesOf
  <1>4. QED
    BY <1>1, <1>3, Invariance, PTL DEF Spec, LifecycleSpec, Lifecycle!Spec
-----------------------------------------------------------------------------
(***************************************************************************)
(* The log and the row, while requests do not overlap.  What an update     *)
(* read is then what it writes over, but for a broker whose account has    *)
(* been deleted in between.                                                *)
(***************************************************************************)
\* Requests do not overlap.
OneWorker == \A v, w \in Workers : v = w

\* The row is as the update read it.
AsRead(r) ==
    /\ deals[r.deal].status = r.seen.status
    /\ deals[r.deal].date = r.seen.date
    /\ deals[r.deal].broker # r.seen.broker =>
          deals[r.deal].broker = None /\ r.seen.broker \notin brokers

\* A deal that is yet to open has an empty log.
UnopenedHasNoLog ==
    \A d \in DealIds : ~Exists(d) => log[d].broker = None /\ log[d].date = None

SerialInv == /\ LogTellsRow
             /\ UnopenedHasNoLog
             /\ \A w \in Workers : work[w].op = "update" => AsRead(work[w])

\* A create opens a deal, and logs what it inserts.
LEMMA CreateSerial ==
  ASSUME OneWorker, TypeOK, SerialInv, NEW w \in Workers, NEW d \in DealIds,
         CommitCreate(w, d)
  PROVE  SerialInv'
  <1>1. /\ deals'[d].status = "inquiry" /\ deals'[d].broker = None
        /\ deals'[d].date = None
    BY DEF CommitCreate, TypeOK
  <1>2. log[d] \in LogRow /\ log[d].broker = None /\ log[d].date = None
    BY DEF CommitCreate, SerialInv, UnopenedHasNoLog, TypeOK
  <1>3. /\ log'[d].status = "inquiry" /\ log'[d].broker = None
        /\ log'[d].date = None
    BY <1>2 DEF CommitCreate, TypeOK, LogRow
  <1>4. \A e \in DealIds \ {d} : deals'[e] = deals[e] /\ log'[e] = log[e]
    BY DEF CommitCreate, TypeOK
  <1>5. brokers' = brokers /\ \A v \in Workers : work'[v] = Idle
    BY DEF CommitCreate, TypeOK, OneWorker
  <1>6. LogTellsRow'
    BY <1>1, <1>3, <1>4, <1>5 DEF SerialInv, LogTellsRow, Exists
  <1>7. Exists(d)'
    BY <1>1, ConstantsDistinct DEF Exists, Absent, DealStatus
  <1>8. UnopenedHasNoLog'
    BY <1>4, <1>7 DEF SerialInv, UnopenedHasNoLog, Exists
  <1>9. QED
    BY <1>5, <1>6, <1>8 DEF SerialInv, Idle

\* An update reads the row.
LEMMA BeginSerial ==
  ASSUME OneWorker, TypeOK, SerialInv, NEW w \in Workers, NEW d \in DealIds,
         NEW s, NEW b, NEW t, BeginUpdate(w, d, s, b, t)
  PROVE  SerialInv'
  <1>1. PICK r : r = [op |-> "update", deal |-> d, seen |-> deals[d],
                      status |-> s, broker |-> b, date |-> t]
    OBVIOUS
  <1>2. \A v \in Workers : work'[v] = r
    BY <1>1 DEF BeginUpdate, TypeOK, OneWorker
  <1>3. AsRead(r)
    BY <1>1 DEF AsRead
  <1>4. UNCHANGED <<deals, log, brokers>>
    BY DEF BeginUpdate
  <1>5. \A v \in Workers : (work[v].op = "update" => AsRead(work[v]))'
    BY <1>2, <1>3, <1>4 DEF AsRead
  <1>6. QED
    BY <1>4, <1>5 DEF SerialInv, LogTellsRow, UnopenedHasNoLog, Exists

\* An update logs what its payload carries, and that is what it leaves in the
\* row: what it does not write is so already.
LEMMA CommitSerial ==
  ASSUME OneWorker, TypeOK, StatusInv, SerialInv, NEW w \in Workers,
         CommitUpdate(w)
  PROVE  SerialInv'
  <1>1. PICK r : r = work[w] /\ r \in UpdateTxn /\ Exists(r.deal) /\ AsRead(r)
    BY UpdateTxnOf DEF CommitUpdate, StatusInv, ReadRowsHold, ReadRowHolds, SerialInv
  <1>2. PICK d : d = r.deal /\ d \in DealIds /\ deals[d] \in Row
    BY <1>1 DEF UpdateTxn, TypeOK, Exists
  <1>3. /\ deals' = [deals EXCEPT ![d] = Written(r, deals[d])]
        /\ log' = [log EXCEPT ![d] = Logged(r, log[d])]
        /\ brokers' = brokers /\ BrokerKnown(r)
    BY <1>1, <1>2 DEF CommitUpdate
  <1>4. \A e \in DealIds \ {d} : deals'[e] = deals[e] /\ log'[e] = log[e]
    BY <1>3 DEF TypeOK
  <1>5. deals'[d] = Written(r, deals[d]) /\ log'[d] = Logged(r, log[d])
    BY <1>2, <1>3 DEF TypeOK
  <1>6. /\ deals'[d].status = Emit(r.status, r.seen.status, deals[d].status)
        /\ deals'[d].broker = Emit(r.broker, r.seen.broker, deals[d].broker)
        /\ deals'[d].date = Emit(r.date, r.seen.date, deals[d].date)
        /\ deals'[d] \in Row
    <2>1. PICK row \in Row : row = deals[d]
      BY <1>2
    <2>2. /\ Written(r, row).status = Emit(r.status, r.seen.status, row.status)
          /\ Written(r, row).broker = Emit(r.broker, r.seen.broker, row.broker)
          /\ Written(r, row).date = Emit(r.date, r.seen.date, row.date)
      BY DEF Written, Row
    <2>3. Written(r, row) \in Row
      BY <1>1, WrittenType
    <2>4. QED
      BY <1>5, <2>1, <2>2, <2>3
  <1>7. /\ log'[d].status = IF r.status = Keep THEN log[d].status ELSE r.status
        /\ log'[d].broker = IF r.broker = Keep THEN log[d].broker ELSE r.broker
        /\ log'[d].date = IF r.date = Keep THEN log[d].date ELSE r.date
    BY <1>5 DEF Logged
  <1>8. /\ deals[d].status = log[d].status /\ deals[d].date = log[d].date
        /\ deals[d].broker = IF log[d].broker \in brokers THEN log[d].broker ELSE None
    BY <1>1, <1>2 DEF SerialInv, LogTellsRow
  <1>9. /\ deals[d].status = r.seen.status /\ deals[d].date = r.seen.date
        /\ deals[d].broker # r.seen.broker =>
              deals[d].broker = None /\ r.seen.broker \notin brokers
    BY <1>1, <1>2 DEF AsRead
  <1>10. deals'[d].status = log'[d].status /\ deals'[d].date = log'[d].date
    BY <1>6, <1>7, <1>8, <1>9 DEF Emit
  <1>11. deals'[d].broker = IF log'[d].broker \in brokers THEN log'[d].broker ELSE None
    <2>1. CASE r.broker = Keep
      BY <1>6, <1>7, <1>8, <2>1 DEF Emit
    <2>2. CASE r.broker # Keep /\ r.broker = r.seen.broker
      BY <1>6, <1>7, <1>8, <1>9, <2>2 DEF Emit
    <2>3. CASE r.broker # Keep /\ r.broker # r.seen.broker
      BY <1>3, <1>6, <1>7, <2>3 DEF Emit, BrokerKnown
    <2>4. QED
      BY <2>1, <2>2, <2>3
  <1>12. LogTellsRow'
    BY <1>3, <1>4, <1>10, <1>11 DEF SerialInv, LogTellsRow, Exists
  <1>13. UnopenedHasNoLog'
    BY <1>4, <1>6, AbsentNotRow DEF SerialInv, UnopenedHasNoLog, Exists
  <1>14. \A v \in Workers : work'[v] = Idle
    BY DEF CommitUpdate, TypeOK, OneWorker
  <1>15. QED
    BY <1>12, <1>13, <1>14 DEF SerialInv, Idle

\* A deletion clears the broker that the log still names.
LEMMA DeleteSerial ==
  ASSUME TypeOK, StatusInv, SerialInv, NEW b \in Brokers, DeleteBroker(b)
  PROVE  SerialInv'
  <1>1. brokers' = brokers \ {b} /\ UNCHANGED <<log, work>>
    BY DEF DeleteBroker
  <1>2. ASSUME NEW d \in DealIds
        PROVE  /\ Exists(d)' <=> Exists(d)
               /\ Exists(d) => /\ deals'[d].status = deals[d].status
                               /\ deals'[d].date = deals[d].date
                               /\ deals'[d].broker = IF deals[d].broker = b THEN None
                                                     ELSE deals[d].broker
    <2>1. CASE Exists(d) /\ deals[d].broker = b
      <3>1. PICK row \in Row : row = deals[d]
        BY <2>1 DEF TypeOK, Exists
      <3>2. PICK n : n = [row EXCEPT !.broker = None]
        OBVIOUS
      <3>3. /\ n \in Row /\ n.status = row.status /\ n.date = row.date
            /\ n.broker = None
        BY <3>1, <3>2 DEF Row
      <3>4. deals'[d] = n
        BY <2>1, <3>1, <3>2 DEF DeleteBroker
      <3>5. QED
        BY <2>1, <3>1, <3>3, <3>4, AbsentNotRow DEF Exists
    <2>2. CASE ~(Exists(d) /\ deals[d].broker = b)
      BY <2>2 DEF DeleteBroker, Exists
    <2>3. QED
      BY <2>1, <2>2
  <1>3. LogTellsRow'
    BY <1>1, <1>2 DEF SerialInv, LogTellsRow
  <1>4. UnopenedHasNoLog'
    BY <1>1, <1>2 DEF SerialInv, UnopenedHasNoLog
  <1>5. ASSUME NEW w \in Workers, work[w].op = "update"
        PROVE  AsRead(work[w])'
    <2>1. PICK r : /\ r = work[w] /\ r.deal \in DealIds /\ Exists(r.deal)
                   /\ AsRead(r)
      BY <1>5, UpdateTxnOf DEF StatusInv, ReadRowsHold, ReadRowHolds, SerialInv,
                               UpdateTxn
    <2>2. QED
      BY <1>1, <1>2, <2>1 DEF AsRead
  <1>6. QED
    BY <1>1, <1>3, <1>4, <1>5 DEF SerialInv

\* Every step of requests that do not overlap keeps log and row together.
LEMMA SerialStep ==
  ASSUME OneWorker, TypeOK, StatusInv, SerialInv, [Next]_vars
  PROVE  SerialInv'
  <1>1. ASSUME UNCHANGED <<deals, log, brokers>>,
               \A w \in Workers : work'[w] = work[w] \/ work'[w].op # "update"
        PROVE  SerialInv'
    <2>1. LogTellsRow' /\ UnopenedHasNoLog'
      BY <1>1 DEF SerialInv, LogTellsRow, UnopenedHasNoLog, Exists
    <2>2. \A w \in Workers : (work[w].op = "update" => AsRead(work[w]))'
      BY <1>1 DEF SerialInv, AsRead
    <2>3. QED
      BY <2>1, <2>2 DEF SerialInv
  <1>2. ASSUME NEW w \in Workers, NEW u, NEW v, NEW a, BeginCreate(w, u, v, a)
        PROVE  SerialInv'
    BY <1>1, <1>2 DEF BeginCreate, TypeOK
  <1>3. ASSUME NEW w \in Workers, Rollback(w) PROVE SerialInv'
    BY <1>1, <1>3 DEF Rollback, TypeOK, Idle
  <1>4. CASE UNCHANGED vars
    BY <1>1, <1>4 DEF vars
  <1>5. QED
    BY <1>2, <1>3, <1>4, CreateSerial, BeginSerial, CommitSerial, DeleteSerial DEF Next

\* While requests do not overlap, the last entry of each kind tells what the
\* row of its deal holds.
THEOREM LogTells == ASSUME OneWorker PROVE Spec => []LogTellsRow
  <1>1. Init => SerialInv
    BY DEF Init, SerialInv, LogTellsRow, UnopenedHasNoLog, Exists, EmptyLog, Idle
  <1>2. TypeOK /\ StatusInv /\ SerialInv /\ [Next]_vars => SerialInv'
    BY OneWorker, SerialStep
  <1>3. SerialInv => LogTellsRow
    BY DEF SerialInv
  <1>4. QED
    BY <1>1, <1>2, <1>3, Invariance, PTL DEF Spec
=============================================================================
