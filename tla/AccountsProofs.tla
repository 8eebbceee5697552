--------------------------- MODULE AccountsProofs ---------------------------
(***************************************************************************)
(* What Accounts guarantees for any number of accounts, addresses,         *)
(* invitations and codes.  The types hold however requests overlap.  What  *)
(* a request has made sure of before it writes is still so when it writes  *)
(* only if no other request is served meanwhile.                           *)
(***************************************************************************)
EXTENDS Accounts, SequenceTheorems, TLAPS

\* Requests do not overlap.
OneWorker == \A v, w \in Workers : v = w

\* What request t has made sure of, and relies on when it writes.
Sure(t) ==
    /\ t.op \in {"insert", "verify"} => Valid(t.link)
    /\ t.op = "replace" => ~Complete(t.id)
    /\ t.op = "start" /\ t.seen # None => ~Complete(t.seen)
    /\ t.op = "update" /\ t.role \notin {Keep, "super_admin"} => SuperAdmins # {t.id}
    /\ t.op = "remove" => SuperAdmins \ {t.id} # {}

\* The inductive invariant of requests that do not overlap.
IInv == TypeOK /\ \A w \in Workers : Sure(work[w])
-----------------------------------------------------------------------------
\* An id that is unused or gone has no address; an invitation that is not made
\* is no row.
LEMMA RowsApart ==
    /\ Unused.address = None /\ Gone.address = Keep /\ None # Keep
    /\ None \notin Addresses /\ Keep \notin Addresses
    /\ Unused \notin Account /\ Gone \notin Account /\ Unused # Gone
    /\ Unmade \notin Invite
    /\ \A r \in Account : r.address \in Addresses /\ r.role \in Role
  BY ConstantsDistinct DEF Unused, Gone, Account, Unmade, Invite

\* Who is live has a row.
LEMMA LiveRow ==
    ASSUME TypeOK, NEW id \in Ids
    PROVE  /\ Live(id) <=> accounts[id] \in Account
           /\ Live(id) <=> accounts[id].address \in Addresses
           /\ Complete(id) => Live(id)
<1>1. accounts[id] \in Account \cup {Unused, Gone}
  BY DEF TypeOK
<1> QED BY <1>1, RowsApart DEF Live, Complete

\* A customer's row.
LEMMA CustomerRow ==
    ASSUME NEW a \in Addresses, NEW p \in Passwords \cup {None},
           NEW v \in BOOLEAN, NEW r \in Role
    PROVE  /\ Customer(a, p, v) \in Account
           /\ [Customer(a, p, v) EXCEPT !.role = r] \in Account
  BY DEF Customer, Account, Role

\* What a request that is not idle carries.
LEMMA TxnParts ==
    ASSUME NEW t \in {Idle} \cup Txn
    PROVE  /\ t.op = "idle" <=> t = Idle
           /\ t.op \in {"idle", "replace", "check", "insert", "start", "code", "mark",
                        "remove", "verify", "password", "update"}
           /\ t.op \in {"replace", "code", "mark", "remove", "verify", "password", "update"}
                 => t.id \in Ids
           /\ t.op \in {"replace", "check", "insert", "start"} => t.row \in Account
           /\ t.op \in {"replace", "check"} => t.link \in Links
           /\ t.op \in {"insert", "verify"} => t.link \in Links \cup {None}
           /\ t.op = "start" => t.seen \in Ids \cup {None}
           /\ t.op = "verify" => t.code \in 1 .. MaxCodes /\ t.done \in BOOLEAN
           /\ t.op = "password" => t.password \in Passwords
           /\ t.op = "update" => /\ t.seen \in Account /\ t.role \in Role \cup {Keep}
                                 /\ t.verified \in BOOLEAN \cup {Keep}
<1>1. CASE t = Idle
  BY <1>1 DEF Idle
<1>2. CASE t \in [op : {"replace"}, id : Ids, row : Account, link : Links]
  BY <1>2 DEF Idle
<1>3. CASE t \in [op : {"check"}, row : Account, link : Links]
  BY <1>3 DEF Idle
<1>4. CASE t \in [op : {"insert"}, row : Account, link : Links \cup {None}]
  BY <1>4 DEF Idle
<1>5. CASE t \in [op : {"start"}, row : Account, seen : Ids \cup {None}]
  BY <1>5 DEF Idle
<1>6. CASE t \in [op : {"code", "mark", "remove"}, id : Ids]
  BY <1>6 DEF Idle
<1>7. CASE t \in [op : {"verify"}, id : Ids, code : 1 .. MaxCodes, done : BOOLEAN,
                  link : Links \cup {None}]
  BY <1>7 DEF Idle
<1>8. CASE t \in [op : {"password"}, id : Ids, password : Passwords]
  BY <1>8 DEF Idle
<1>9. CASE t \in [op : {"update"}, id : Ids, seen : Account, role : Role \cup {Keep},
                  verified : BOOLEAN \cup {Keep}]
  BY <1>9 DEF Idle
<1> QED BY <1>1, <1>2, <1>3, <1>4, <1>5, <1>6, <1>7, <1>8, <1>9 DEF Txn

\* The requests that the steps make.
LEMMA TxnsMade ==
    /\ Idle.op = "idle"
    /\ \A id \in Ids, row \in Account, l \in Links :
          [op |-> "replace", id |-> id, row |-> row, link |-> l] \in Txn
    /\ \A row \in Account, l \in Links :
          [op |-> "check", row |-> row, link |-> l] \in Txn
    /\ \A row \in Account, l \in Links \cup {None} :
          [op |-> "insert", row |-> row, link |-> l] \in Txn
    /\ \A row \in Account, seen \in Ids \cup {None} :
          [op |-> "start", row |-> row, seen |-> seen] \in Txn
    /\ \A op \in {"code", "mark", "remove"}, id \in Ids : [op |-> op, id |-> id] \in Txn
    /\ \A id \in Ids, n \in 1 .. MaxCodes, d \in BOOLEAN, l \in Links \cup {None} :
          [op |-> "verify", id |-> id, code |-> n, link |-> l, done |-> d] \in Txn
    /\ \A id \in Ids, p \in Passwords :
          [op |-> "password", id |-> id, password |-> p] \in Txn
    /\ \A id \in Ids, row \in Account, r \in Role \cup {Keep}, v \in BOOLEAN \cup {Keep} :
          [op |-> "update", id |-> id, seen |-> row, role |-> r, verified |-> v] \in Txn
  BY DEF Txn, Idle
-----------------------------------------------------------------------------
\* The request worker w serves.
LEMMA WorkTyped ==
    ASSUME TypeOK, NEW w \in Workers
    PROVE  work[w] \in {Idle} \cup Txn
  BY DEF TypeOK

\* A request begins: what it writes later, it has made sure of.
LEMMA BeginsSure ==
    ASSUME TypeOK, NEW w \in Workers,
           \/ \E a \in Addresses, p \in Passwords, l \in Links :
                 BeginRegister(w, a, p, l) \/ BeginStart(w, a, p, l)
           \/ \E a \in Addresses, v \in BOOLEAN : BeginGoogle(w, a, v)
           \/ \E a \in Addresses, n \in 1 .. MaxCodes, l \in Links \cup {None} :
                 BeginVerify(w, a, n, l)
           \/ \E a \in Addresses, p \in Passwords, r \in Role : BeginCreate(w, a, p, r)
           \/ \E id \in Ids, p \in Passwords : BeginPassword(w, id, p)
           \/ \E id \in Ids, r \in Role \cup {Keep}, v \in BOOLEAN \cup {Keep} :
                 BeginUpdate(w, id, r, v)
           \/ \E id \in Ids : BeginRemove(w, id)
    PROVE  \E t \in Txn : Begin(w, t) /\ Sure(t)
<1>1. \A a \in Addresses : \A id \in AccountsAt(a) : id \in Ids /\ Live(id)
  BY LiveRow DEF AccountsAt
<1>2. ASSUME NEW a \in Addresses, NEW p \in Passwords, NEW l \in Links,
             BeginRegister(w, a, p, l)
      PROVE  \E t \in Txn : Begin(w, t) /\ Sure(t)
  <2>1. PICK row \in Account : row = Customer(a, p, TRUE)
    BY CustomerRow DEF Role
  <2>2. CASE Valid(l) /\ Begin(w, [op |-> "insert", row |-> row, link |-> l])
    <3>1. PICK t : t = [op |-> "insert", row |-> row, link |-> l]
      OBVIOUS
    <3>2. t \in Txn /\ t.op = "insert" /\ t.link = l
      BY <3>1, TxnsMade
    <3> QED BY <2>2, <3>1, <3>2 DEF Sure
  <2>3. ASSUME NEW id \in AccountsAt(a), accounts[id].password = None,
               Begin(w, [op |-> "replace", id |-> id, row |-> row, link |-> l])
        PROVE  \E t \in Txn : Begin(w, t) /\ Sure(t)
    <3>1. PICK t : t = [op |-> "replace", id |-> id, row |-> row, link |-> l]
      OBVIOUS
    <3>2. t \in Txn /\ t.op = "replace" /\ t.id = id
      BY <1>1, <3>1, TxnsMade
    <3>3. ~Complete(id)
      BY <2>3 DEF Complete
    <3> QED BY <2>3, <3>1, <3>2, <3>3 DEF Sure
  <2> QED BY <1>2, <2>1, <2>2, <2>3 DEF BeginRegister
<1>3. ASSUME NEW a \in Addresses, NEW p \in Passwords, NEW l \in Links,
             BeginStart(w, a, p, l)
      PROVE  \E t \in Txn : Begin(w, t) /\ Sure(t)
  <2>1. PICK row \in Account : row = Customer(a, p, FALSE)
    BY CustomerRow DEF Role
  <2>2. PICK seen \in Ids \cup {None} :
            /\ seen # None => ~Complete(seen)
            /\ Begin(w, [op |-> "start", row |-> row, seen |-> seen])
    BY <1>1, <1>3, <2>1 DEF BeginStart
  <2>3. PICK t : t = [op |-> "start", row |-> row, seen |-> seen]
    OBVIOUS
  <2>4. t \in Txn /\ t.op = "start" /\ t.seen = seen
    BY <2>3, TxnsMade
  <2> QED BY <2>2, <2>3, <2>4 DEF Sure
<1>4. ASSUME NEW a \in Addresses, NEW v \in BOOLEAN, BeginGoogle(w, a, v)
      PROVE  \E t \in Txn : Begin(w, t) /\ Sure(t)
  <2>1. PICK row \in Account : row = Customer(a, None, v)
    BY CustomerRow DEF Role
  <2>2. CASE Begin(w, [op |-> "insert", row |-> row, link |-> None])
    <3>1. PICK t : t = [op |-> "insert", row |-> row, link |-> None]
      OBVIOUS
    <3>2. t \in Txn /\ t.op = "insert" /\ t.link = None
      BY <3>1, TxnsMade
    <3>3. Valid(None)
      BY ConstantsDistinct DEF Valid
    <3> QED BY <2>2, <3>1, <3>2, <3>3 DEF Sure
  <2>3. ASSUME NEW id \in AccountsAt(a), Begin(w, [op |-> "mark", id |-> id])
        PROVE  \E t \in Txn : Begin(w, t) /\ Sure(t)
    <3>1. PICK t : t = [op |-> "mark", id |-> id]
      OBVIOUS
    <3>2. t \in Txn /\ t.op = "mark"
      BY <1>1, <3>1, TxnsMade
    <3> QED BY <2>3, <3>1, <3>2 DEF Sure
  <2> QED BY <1>4, <2>1, <2>2, <2>3 DEF BeginGoogle
<1>5. ASSUME NEW a \in Addresses, NEW n \in 1 .. MaxCodes, NEW l \in Links \cup {None},
             BeginVerify(w, a, n, l)
      PROVE  \E t \in Txn : Begin(w, t) /\ Sure(t)
  <2>1. PICK id \in AccountsAt(a) :
            /\ Valid(l) /\ accounts[id].password # None
            /\ Begin(w, [op |-> "verify", id |-> id, code |-> n, link |-> l,
                         done |-> accounts[id].verified])
    BY <1>5 DEF BeginVerify
  <2>2. PICK d \in BOOLEAN : d = accounts[id].verified
    <3>1. id \in Ids /\ accounts[id] \in Account
      BY <1>1, LiveRow
    <3> QED BY <3>1 DEF Account
  <2>3. PICK t : t = [op |-> "verify", id |-> id, code |-> n, link |-> l, done |-> d]
    OBVIOUS
  <2>4. t \in Txn /\ t.op = "verify" /\ t.link = l
    BY <1>1, <2>3, TxnsMade
  <2> QED BY <2>1, <2>2, <2>3, <2>4 DEF Sure
<1>6. ASSUME NEW a \in Addresses, NEW p \in Passwords, NEW r \in Role,
             BeginCreate(w, a, p, r)
      PROVE  \E t \in Txn : Begin(w, t) /\ Sure(t)
  <2>1. PICK row \in Account : row = [Customer(a, p, TRUE) EXCEPT !.role = r]
    BY CustomerRow
  <2>2. PICK t : t = [op |-> "insert", link |-> None, row |-> row]
    OBVIOUS
  <2>3. t \in Txn /\ t.op = "insert" /\ t.link = None
    BY <2>2, TxnsMade
  <2>4. Valid(None)
    BY ConstantsDistinct DEF Valid
  <2> QED BY <1>6, <2>1, <2>2, <2>3, <2>4 DEF Sure, BeginCreate
<1>7. ASSUME NEW id \in Ids, NEW p \in Passwords, BeginPassword(w, id, p)
      PROVE  \E t \in Txn : Begin(w, t) /\ Sure(t)
  <2>1. PICK t : t = [op |-> "password", id |-> id, password |-> p]
    OBVIOUS
  <2>2. t \in Txn /\ t.op = "password"
    BY <2>1, TxnsMade
  <2> QED BY <1>7, <2>1, <2>2 DEF Sure, BeginPassword
<1>8. ASSUME NEW id \in Ids, NEW r \in Role \cup {Keep}, NEW v \in BOOLEAN \cup {Keep},
             BeginUpdate(w, id, r, v)
      PROVE  \E t \in Txn : Begin(w, t) /\ Sure(t)
  <2>1. PICK row \in Account : row = accounts[id]
    BY <1>8, LiveRow DEF BeginUpdate
  <2>2. PICK t : t = [op |-> "update", id |-> id, seen |-> row, role |-> r, verified |-> v]
    OBVIOUS
  <2>3. t \in Txn /\ t.op = "update" /\ t.role = r /\ t.id = id
    BY <2>2, TxnsMade
  <2> QED BY <1>8, <2>1, <2>2, <2>3 DEF Sure, BeginUpdate
<1>9. ASSUME NEW id \in Ids, BeginRemove(w, id)
      PROVE  \E t \in Txn : Begin(w, t) /\ Sure(t)
  <2>1. PICK t : t = [op |-> "remove", id |-> id]
    OBVIOUS
  <2>2. t \in Txn /\ t.op = "remove" /\ t.id = id
    BY <2>1, TxnsMade
  <2> QED BY <1>9, <2>1, <2>2 DEF Sure, BeginRemove
<1> QED BY <1>2, <1>3, <1>4, <1>5, <1>6, <1>7, <1>8, <1>9
-----------------------------------------------------------------------------
\* The ways in which a request of worker w writes the users table: a row is
\* deleted, by a registration or an admin;
Removes(w) == /\ work[w].op \in {"replace", "remove"}
              /\ accounts' = [accounts EXCEPT ![work[w].id] = Gone]

\* or inserted;
Inserts(w) == \E id \in Ids, row \in Account :
    accounts[id] = Unused /\ accounts' = [accounts EXCEPT ![id] = row]

\* or written, and then stays at its address; only some requests write its
\* password or take the role of a super admin.
Rewrites(w) == \E id \in Ids, row \in Account :
    /\ Live(id) /\ accounts' = [accounts EXCEPT ![id] = row]
    /\ row.address = accounts[id].address
    /\ row.password # accounts[id].password =>
          \/ work[w].op = "password" /\ work[w].id = id
          \/ work[w].op = "start" /\ work[w].seen = id
    /\ (accounts[id].role = "super_admin" /\ row.role # "super_admin") =>
          /\ work[w].op = "update" /\ work[w].id = id
          /\ work[w].role \notin {Keep, "super_admin"}

\* And the invitations: one that is used stays used by whom it is, while he is
\* there, unless the request uses it itself.
KeepsInvites(w) == \A i \in Invites :
    \/ invites'[i] = invites[i]
    \/ /\ invites[i] \in Invite /\ invites'[i] \in Invite
       /\ invites'[i].used = invites[i].used /\ invites'[i].by = None
    \/ work[w].op \in {"insert", "verify"} /\ work[w].link = i

\* What the second step of a request does.
Writes(w) ==
    /\ Removes(w) \/ Inserts(w) \/ Rewrites(w) \/ UNCHANGED accounts
    /\ codes' \in [Ids -> Seq(BOOLEAN)] /\ \A id \in Ids : Len(codes'[id]) <= MaxCodes
    /\ invites' \in [Invites -> Invite \cup {Unmade}] /\ KeepsInvites(w)
    /\ \E t \in {Idle} \cup Txn : Goto(w, t) /\ Sure(t)'

\* Codes as they are have their types, and so have invitations.
LEMMA SameTables ==
    ASSUME TypeOK
    PROVE  /\ UNCHANGED codes => /\ codes' \in [Ids -> Seq(BOOLEAN)]
                                 /\ \A id \in Ids : Len(codes'[id]) <= MaxCodes
           /\ UNCHANGED invites => /\ invites' \in [Invites -> Invite \cup {Unmade}]
                                   /\ \A w \in Workers : KeepsInvites(w)
  BY DEF TypeOK, KeepsInvites

\* A request that is over relies on nothing.
LEMMA IdleSure == ASSUME NEW w \in Workers, Goto(w, Idle)
                  PROVE  \E t \in {Idle} \cup Txn : Goto(w, t) /\ Sure(t)'
  BY TxnsMade DEF Sure

\* An account is deleted: invitations it used stay used.
LEMMA InvitesForget ==
    ASSUME TypeOK, NEW id \in Ids, NEW w \in Workers,
           invites' = [i \in Invites |-> IF invites[i] # Unmade /\ invites[i].by = id
                                         THEN [invites[i] EXCEPT !.by = None]
                                         ELSE invites[i]]
    PROVE  invites' \in [Invites -> Invite \cup {Unmade}] /\ KeepsInvites(w)
<1>1. ASSUME NEW i \in Invites
      PROVE  /\ invites'[i] \in Invite \cup {Unmade}
             /\ \/ invites'[i] = invites[i]
                \/ /\ invites[i] \in Invite /\ invites'[i] \in Invite
                   /\ invites'[i].used = invites[i].used /\ invites'[i].by = None
  <2>1. invites[i] \in Invite \cup {Unmade}
    BY DEF TypeOK
  <2>2. CASE invites[i] # Unmade /\ invites[i].by = id
    <3>1. PICK v \in Invite : v = invites[i]
      BY <2>1, <2>2
    <3>2. PICK n : n = [v EXCEPT !.by = None]
      OBVIOUS
    <3>3. n \in Invite /\ n.used = v.used /\ n.by = None
      BY <3>2 DEF Invite
    <3> QED BY <2>2, <3>1, <3>2, <3>3
  <2>3. CASE ~(invites[i] # Unmade /\ invites[i].by = id)
    BY <2>1, <2>3
  <2> QED BY <2>2, <2>3
<1>2. invites' = [i \in Invites |-> invites'[i]]
  OBVIOUS
<1> QED BY <1>1, <1>2 DEF KeepsInvites

\* A link is redeemed.
LEMMA InvitesRedeemed ==
    ASSUME TypeOK, NEW w \in Workers, NEW id \in Ids, work[w].op \in {"insert", "verify"},
           invites' = Redeemed(work[w].link, id)
    PROVE  invites' \in [Invites -> Invite \cup {Unmade}] /\ KeepsInvites(w)
<1>1. PICK l : l = work[w].link
  OBVIOUS
<1>2. PICK n : n = [used |-> TRUE, by |-> id]
  OBVIOUS
<1>3. n \in Invite
  BY <1>2 DEF Invite
<1>4. CASE l \in Invites
  <2>1. invites' = [invites EXCEPT ![l] = n]
    BY <1>1, <1>2, <1>4 DEF Redeemed
  <2>2. invites' \in [Invites -> Invite \cup {Unmade}]
    BY <1>3, <2>1 DEF TypeOK
  <2>3. \A i \in Invites : i # l => invites'[i] = invites[i]
    BY <2>1 DEF TypeOK
  <2> QED BY <1>1, <2>2, <2>3 DEF KeepsInvites
<1>5. CASE l \notin Invites
  <2>1. invites' = invites
    BY <1>1, <1>5 DEF Redeemed
  <2> QED BY <2>1, SameTables
<1> QED BY <1>4, <1>5

\* register deletes an account without a password, if it has no codes.
LEMMA ReplaceWrites ==
    ASSUME TypeOK, NEW w \in Workers, CommitReplace(w) PROVE Writes(w)
<1>1. PICK t \in {Idle} \cup Txn : t = work[w]
  BY WorkTyped
<1>2. t.op = "replace" /\ t.id \in Ids /\ t.row \in Account /\ t.link \in Links
  BY <1>1, TxnParts DEF CommitReplace
<1>3. PICK c : c = [op |-> "check", row |-> t.row, link |-> t.link]
  OBVIOUS
<1>4. c \in Txn /\ c.op = "check" /\ Goto(w, c)
  BY <1>1, <1>2, <1>3, TxnsMade DEF CommitReplace
<1>5. Removes(w)
  BY <1>1, <1>2 DEF Removes, CommitReplace
<1>6. invites' \in [Invites -> Invite \cup {Unmade}] /\ KeepsInvites(w)
  BY <1>1, <1>2, InvitesForget DEF CommitReplace
<1>7. UNCHANGED codes
  BY DEF CommitReplace
<1> QED BY <1>4, <1>5, <1>6, <1>7, SameTables DEF Writes, Sure

\* register looks at the link again after that.
LEMMA CheckWrites ==
    ASSUME TypeOK, NEW w \in Workers, CheckLink(w) PROVE Writes(w)
<1>1. PICK t \in {Idle} \cup Txn : t = work[w]
  BY WorkTyped
<1>2. t.op = "check" /\ t.row \in Account /\ t.link \in Links
  BY <1>1, TxnParts DEF CheckLink
<1>3. UNCHANGED <<accounts, codes, invites>>
  BY DEF CheckLink
<1>4. CASE Valid(t.link)
  <2>1. PICK c : c = [op |-> "insert", row |-> t.row, link |-> t.link]
    OBVIOUS
  <2>2. c \in Txn /\ c.op = "insert" /\ c.link = t.link /\ Goto(w, c)
    BY <1>1, <1>2, <1>4, <2>1, TxnsMade DEF CheckLink
  <2>3. Valid(c.link)'
    BY <1>3, <1>4, <2>2 DEF Valid
  <2> QED BY <1>3, <2>2, <2>3, SameTables DEF Writes, Sure
<1>5. CASE ~Valid(t.link)
  <2>1. Goto(w, Idle)
    BY <1>1, <1>5 DEF CheckLink
  <2> QED BY <1>3, <2>1, IdleSure, SameTables DEF Writes
<1> QED BY <1>4, <1>5

\* An account is inserted.
LEMMA InsertWrites ==
    ASSUME TypeOK, NEW w \in Workers, NEW id \in Ids, CommitInsert(w, id) PROVE Writes(w)
<1>1. PICK t \in {Idle} \cup Txn : t = work[w]
  BY WorkTyped
<1>2. t.op = "insert" /\ t.row \in Account
  BY <1>1, TxnParts DEF CommitInsert
<1>3. Inserts(w)
  BY <1>1, <1>2 DEF Inserts, CommitInsert
<1>4. invites' \in [Invites -> Invite \cup {Unmade}] /\ KeepsInvites(w)
  BY <1>1, <1>2, InvitesRedeemed DEF CommitInsert
<1>5. Goto(w, Idle) /\ UNCHANGED codes
  BY DEF CommitInsert
<1> QED BY <1>3, <1>4, <1>5, IdleSure, SameTables DEF Writes

\* The row of an account is marked verified, gets a password, or a role.
LEMMA RowWritten ==
    ASSUME NEW row \in Account
    PROVE  /\ \A v \in BOOLEAN : LET n == [row EXCEPT !.verified = v] IN
                 n \in Account /\ n.address = row.address /\ n.password = row.password
                 /\ n.role = row.role
           /\ \A p \in Passwords \cup {None} : LET n == [row EXCEPT !.password = p] IN
                 n \in Account /\ n.address = row.address /\ n.role = row.role
           /\ \A r \in Role, v \in BOOLEAN :
                 LET n == [row EXCEPT !.role = r, !.verified = v] IN
                 n \in Account /\ n.address = row.address /\ n.password = row.password
                 /\ n.role = r
  BY DEF Account

\* A code that is spent leaves as many.
LEMMA CodeSpent ==
    ASSUME TypeOK, NEW id \in Ids, NEW n, codes' = [codes EXCEPT ![id][n] = FALSE]
    PROVE  codes' \in [Ids -> Seq(BOOLEAN)] /\ \A i \in Ids : Len(codes'[i]) <= MaxCodes
<1>1. PICK c : c = codes[id]
  OBVIOUS
<1>2. c \in Seq(BOOLEAN) /\ Len(c) <= MaxCodes /\ Len(c) \in Nat
  BY <1>1 DEF TypeOK
<1>3. PICK f \in BOOLEAN : f = FALSE
  OBVIOUS
<1>4. PICK d : d = [c EXCEPT ![n] = f]
  OBVIOUS
<1>5. d \in [1 .. Len(c) -> BOOLEAN]
  <2>1. c \in [1 .. Len(c) -> BOOLEAN]
    BY <1>2
  <2> QED BY <1>4, <2>1
<1>6. d \in Seq(BOOLEAN)
  BY <1>2, <1>5, SeqDef
<1>7. DOMAIN d = 1 .. Len(c) /\ DOMAIN d = 1 .. Len(d) /\ Len(d) \in Nat
  BY <1>5, <1>6
<1>8. Len(d) = Len(c)
  BY <1>2, <1>7
<1>9. codes' = [codes EXCEPT ![id] = d]
  BY <1>1, <1>3, <1>4
<1> QED BY <1>2, <1>6, <1>8, <1>9 DEF TypeOK

\* Google marks an account verified.
LEMMA MarkWrites ==
    ASSUME TypeOK, NEW w \in Workers, CommitMark(w) PROVE Writes(w)
<1>1. PICK t \in {Idle} \cup Txn : t = work[w]
  BY WorkTyped
<1>2. t.op = "mark" /\ t.id \in Ids /\ Live(t.id)
  BY <1>1, TxnParts DEF CommitMark
<1>3. PICK old \in Account : old = accounts[t.id]
  BY <1>2, LiveRow
<1>4. PICK n : n = [old EXCEPT !.verified = TRUE]
  OBVIOUS
<1>5. /\ n \in Account /\ n.address = old.address /\ n.password = old.password
      /\ n.role = old.role
  BY <1>4, RowWritten
<1>6. accounts' = [accounts EXCEPT ![t.id] = n]
  BY <1>1, <1>3, <1>4 DEF CommitMark
<1>7. Rewrites(w)
  BY <1>2, <1>3, <1>5, <1>6 DEF Rewrites
<1>8. Goto(w, Idle) /\ UNCHANGED <<codes, invites>>
  BY DEF CommitMark
<1> QED BY <1>7, <1>8, IdleSure, SameTables DEF Writes

\* request_otp inserts an account or writes its password.
LEMMA StartWrites ==
    ASSUME TypeOK, NEW w \in Workers, NEW id \in Ids, CommitStart(w, id) PROVE Writes(w)
<1>1. PICK t \in {Idle} \cup Txn : t = work[w]
  BY WorkTyped
<1>2. t.op = "start" /\ t.row \in Account
  BY <1>1, TxnParts DEF CommitStart
<1>3. PICK c : c = [op |-> "code", id |-> id]
  OBVIOUS
<1>4. c \in Txn /\ c.op = "code" /\ Goto(w, c) /\ UNCHANGED <<codes, invites>>
  BY <1>3, TxnsMade DEF CommitStart
<1>5. CASE accounts[id] = Unused /\ accounts' = [accounts EXCEPT ![id] = t.row]
  <2>1. Inserts(w)
    BY <1>2, <1>5 DEF Inserts
  <2> QED BY <1>4, <2>1, SameTables DEF Writes, Sure
<1>6. CASE /\ t.seen = id /\ Live(id)
           /\ accounts' = [accounts EXCEPT ![id].password = t.row.password]
  <2>1. PICK old \in Account : old = accounts[id]
    BY <1>6, LiveRow
  <2>2. PICK p \in Passwords \cup {None} : p = t.row.password
    BY <1>2 DEF Account
  <2>3. PICK n : n = [old EXCEPT !.password = p]
    OBVIOUS
  <2>4. n \in Account /\ n.address = old.address /\ n.role = old.role
    BY <2>3, RowWritten
  <2>5. accounts' = [accounts EXCEPT ![id] = n]
    BY <1>6, <2>1, <2>2, <2>3
  <2>6. Rewrites(w)
    BY <1>1, <1>2, <1>6, <2>1, <2>4, <2>5 DEF Rewrites
  <2> QED BY <1>4, <2>6, SameTables DEF Writes, Sure
<1> QED BY <1>1, <1>5, <1>6 DEF CommitStart

\* A code is stored.
LEMMA CodeWrites ==
    ASSUME TypeOK, NEW w \in Workers, CommitCode(w) PROVE Writes(w)
<1>1. PICK id \in Ids : id = work[w].id
  BY WorkTyped, TxnParts DEF CommitCode
<1>2. Goto(w, Idle) /\ UNCHANGED <<accounts, invites>>
  BY DEF CommitCode
<1>3. PICK c \in Seq(BOOLEAN) : c = codes[id]
  BY DEF TypeOK
<1>4. codes' = [codes EXCEPT ![id] = Append(c, TRUE)] /\ Len(c) < MaxCodes
  BY <1>1, <1>3 DEF CommitCode
<1>5. /\ Append(c, TRUE) \in Seq(BOOLEAN) /\ Len(Append(c, TRUE)) = Len(c) + 1
      /\ Len(c) \in Nat
  BY <1>3
<1>6. Len(Append(c, TRUE)) <= MaxCodes
  BY <1>4, <1>5, ConstantsDistinct
<1>7. codes' \in [Ids -> Seq(BOOLEAN)] /\ \A i \in Ids : Len(codes'[i]) <= MaxCodes
  BY <1>4, <1>5, <1>6 DEF TypeOK
<1> QED BY <1>2, <1>7, IdleSure, SameTables DEF Writes

\* verify_otp marks an account verified and redeems the link.
LEMMA VerifyWrites ==
    ASSUME TypeOK, NEW w \in Workers, CommitVerify(w) PROVE Writes(w)
<1>1. PICK t \in {Idle} \cup Txn : t = work[w]
  BY WorkTyped
<1>2. t.op = "verify" /\ t.id \in Ids /\ t.done \in BOOLEAN /\ Live(t.id)
  BY <1>1, TxnParts DEF CommitVerify
<1>3. PICK old \in Account : old = accounts[t.id]
  BY <1>2, LiveRow
<1>4. PICK v \in BOOLEAN : v = (old.verified \/ ~t.done)
  OBVIOUS
<1>5. PICK n : n = [old EXCEPT !.verified = v]
  OBVIOUS
<1>6. /\ n \in Account /\ n.address = old.address /\ n.password = old.password
      /\ n.role = old.role
  BY <1>5, RowWritten
<1>7. accounts' = [accounts EXCEPT ![t.id] = n]
  BY <1>1, <1>3, <1>4, <1>5 DEF CommitVerify
<1>8. Rewrites(w)
  BY <1>2, <1>3, <1>6, <1>7 DEF Rewrites
<1>9. invites' \in [Invites -> Invite \cup {Unmade}] /\ KeepsInvites(w)
  BY <1>1, <1>2, InvitesRedeemed DEF CommitVerify
<1>10. codes' \in [Ids -> Seq(BOOLEAN)] /\ \A i \in Ids : Len(codes'[i]) <= MaxCodes
  BY <1>1, <1>2, CodeSpent DEF CommitVerify
<1>11. Goto(w, Idle)
  BY DEF CommitVerify
<1> QED BY <1>8, <1>9, <1>10, <1>11, IdleSure DEF Writes

\* A password is changed.
LEMMA PasswordWrites ==
    ASSUME TypeOK, NEW w \in Workers, CommitPassword(w) PROVE Writes(w)
<1>1. PICK t \in {Idle} \cup Txn : t = work[w]
  BY WorkTyped
<1>2. t.op = "password" /\ t.id \in Ids /\ t.password \in Passwords /\ Live(t.id)
  BY <1>1, TxnParts DEF CommitPassword
<1>3. PICK old \in Account : old = accounts[t.id]
  BY <1>2, LiveRow
<1>4. PICK n : n = [old EXCEPT !.password = t.password]
  OBVIOUS
<1>5. n \in Account /\ n.address = old.address /\ n.role = old.role
  BY <1>2, <1>4, RowWritten
<1>6. accounts' = [accounts EXCEPT ![t.id] = n]
  BY <1>1, <1>3, <1>4 DEF CommitPassword
<1>7. Rewrites(w)
  BY <1>1, <1>2, <1>3, <1>5, <1>6 DEF Rewrites
<1>8. Goto(w, Idle) /\ UNCHANGED <<codes, invites>>
  BY DEF CommitPassword
<1> QED BY <1>7, <1>8, IdleSure, SameTables DEF Writes

\* An admin writes a role or the mark of verification.
LEMMA UpdateWrites ==
    ASSUME TypeOK, NEW w \in Workers, CommitUpdate(w) PROVE Writes(w)
<1>1. PICK t \in {Idle} \cup Txn : t = work[w]
  BY WorkTyped
<1>2. /\ t.op = "update" /\ t.id \in Ids /\ Live(t.id) /\ t.role \in Role \cup {Keep}
      /\ t.verified \in BOOLEAN \cup {Keep}
  BY <1>1, TxnParts DEF CommitUpdate
<1>3. PICK old \in Account : old = accounts[t.id]
  BY <1>2, LiveRow
<1>4. PICK r : r = Emit(t.role, t.seen.role, old.role)
  OBVIOUS
<1>5. /\ r \in Role
      /\ (old.role = "super_admin" /\ r # "super_admin") => t.role \notin {Keep, "super_admin"}
  BY <1>2, <1>4 DEF Emit, Account
<1>6. PICK v : v = Emit(t.verified, t.seen.verified, old.verified)
  OBVIOUS
<1>7. v \in BOOLEAN
  BY <1>2, <1>6 DEF Emit, Account
<1>8. PICK n : n = [old EXCEPT !.role = r, !.verified = v]
  OBVIOUS
<1>9. n \in Account /\ n.address = old.address /\ n.password = old.password /\ n.role = r
  BY <1>5, <1>7, <1>8 DEF Account
<1>10. accounts' = [accounts EXCEPT ![t.id] = n]
  BY <1>1, <1>3, <1>4, <1>6, <1>8 DEF CommitUpdate
<1>11. Rewrites(w)
  BY <1>1, <1>2, <1>3, <1>5, <1>9, <1>10 DEF Rewrites
<1>12. Goto(w, Idle) /\ UNCHANGED <<codes, invites>>
  BY DEF CommitUpdate
<1> QED BY <1>11, <1>12, IdleSure, SameTables DEF Writes

\* An admin deletes an account, with its codes.
LEMMA RemoveWrites ==
    ASSUME TypeOK, NEW w \in Workers, CommitRemove(w) PROVE Writes(w)
<1>1. PICK t \in {Idle} \cup Txn : t = work[w]
  BY WorkTyped
<1>2. t.op = "remove" /\ t.id \in Ids
  BY <1>1, TxnParts DEF CommitRemove
<1>3. Removes(w)
  BY <1>1, <1>2 DEF Removes, CommitRemove
<1>4. invites' \in [Invites -> Invite \cup {Unmade}] /\ KeepsInvites(w)
  BY <1>1, <1>2, InvitesForget DEF CommitRemove
<1>5. codes' = [codes EXCEPT ![t.id] = <<>>] /\ Goto(w, Idle)
  BY <1>1 DEF CommitRemove
<1>6. codes' \in [Ids -> Seq(BOOLEAN)] /\ \A i \in Ids : Len(codes'[i]) <= MaxCodes
  <2>1. PICK none \in Seq(BOOLEAN) : none = <<>> /\ Len(none) = 0
    BY EmptySeq
  <2>2. 0 <= MaxCodes
    BY ConstantsDistinct
  <2> QED BY <1>5, <2>1, <2>2 DEF TypeOK
<1> QED BY <1>3, <1>4, <1>5, <1>6, IdleSure DEF Writes

\* A request fails.
LEMMA RollbackWrites ==
    ASSUME TypeOK, NEW w \in Workers, Rollback(w) PROVE Writes(w)
  BY IdleSure, SameTables DEF Writes, Rollback
-----------------------------------------------------------------------------
\* The first steps of requests.
BeginStep(w) ==
    \/ \E a \in Addresses, p \in Passwords, l \in Links :
          BeginRegister(w, a, p, l) \/ BeginStart(w, a, p, l)
    \/ \E a \in Addresses, v \in BOOLEAN : BeginGoogle(w, a, v)
    \/ \E a \in Addresses, n \in 1 .. MaxCodes, l \in Links \cup {None} :
          BeginVerify(w, a, n, l)
    \/ \E a \in Addresses, p \in Passwords, r \in Role : BeginCreate(w, a, p, r)
    \/ \E id \in Ids, p \in Passwords : BeginPassword(w, id, p)
    \/ \E id \in Ids, r \in Role \cup {Keep}, v \in BOOLEAN \cup {Keep} :
          BeginUpdate(w, id, r, v)
    \/ \E id \in Ids : BeginRemove(w, id)

\* A step begins a request, or writes, or makes an invitation, or lets a code
\* expire.
LEMMA Steps ==
    ASSUME TypeOK, Next
    PROVE  \/ \E w \in Workers : \/ \E t \in Txn : Begin(w, t) /\ Sure(t)
                                 \/ Writes(w)
           \/ \E i \in Invites : MakeInvite(i)
           \/ \E id \in Ids, n \in 1 .. MaxCodes : ExpireCode(id, n)
<1>1. ASSUME NEW w \in Workers, BeginStep(w)
      PROVE  \E t \in Txn : Begin(w, t) /\ Sure(t)
  BY <1>1, BeginsSure DEF BeginStep
<1>2. ASSUME NEW w \in Workers,
             \/ \E id \in Ids : CommitInsert(w, id) \/ CommitStart(w, id)
             \/ CommitReplace(w) \/ CheckLink(w) \/ CommitMark(w) \/ CommitCode(w)
             \/ CommitVerify(w) \/ CommitPassword(w) \/ CommitUpdate(w) \/ CommitRemove(w)
             \/ Rollback(w)
      PROVE  Writes(w)
  BY <1>2, InsertWrites, StartWrites, ReplaceWrites, CheckWrites, MarkWrites, CodeWrites,
     VerifyWrites, PasswordWrites, UpdateWrites, RemoveWrites, RollbackWrites
<1>3. \/ \E w \in Workers : BeginStep(w)
      \/ \E w \in Workers :
             \/ \E id \in Ids : CommitInsert(w, id) \/ CommitStart(w, id)
             \/ CommitReplace(w) \/ CheckLink(w) \/ CommitMark(w) \/ CommitCode(w)
             \/ CommitVerify(w) \/ CommitPassword(w) \/ CommitUpdate(w) \/ CommitRemove(w)
             \/ Rollback(w)
      \/ \E i \in Invites : MakeInvite(i)
      \/ \E id \in Ids, n \in 1 .. MaxCodes : ExpireCode(id, n)
  BY DEF Next, BeginStep
<1> QED BY <1>1, <1>2, <1>3

\* What is written to the users table are rows.
LEMMA AccountsTyped ==
    ASSUME TypeOK, NEW w \in Workers,
           Removes(w) \/ Inserts(w) \/ Rewrites(w) \/ UNCHANGED accounts
    PROVE  accounts' \in [Ids -> Account \cup {Unused, Gone}]
  BY DEF TypeOK, Removes, Inserts, Rewrites

\* Making an invitation, or letting a code expire, keeps the types.
LEMMA OthersTyped ==
    ASSUME TypeOK
    PROVE  /\ \A i \in Invites : MakeInvite(i) => TypeOK'
           /\ \A id \in Ids, n \in 1 .. MaxCodes : ExpireCode(id, n) => TypeOK'
<1>1. ASSUME NEW i \in Invites, MakeInvite(i) PROVE TypeOK'
  <2>1. PICK n : n = [used |-> FALSE, by |-> None]
    OBVIOUS
  <2>2. n \in Invite
    BY <2>1 DEF Invite
  <2>3. invites' = [invites EXCEPT ![i] = n] /\ UNCHANGED <<accounts, codes, work>>
    BY <1>1, <2>1 DEF MakeInvite
  <2> QED BY <2>2, <2>3 DEF TypeOK
<1>2. ASSUME NEW id \in Ids, NEW n \in 1 .. MaxCodes, ExpireCode(id, n) PROVE TypeOK'
  <2>1. codes' \in [Ids -> Seq(BOOLEAN)] /\ \A i \in Ids : Len(codes'[i]) <= MaxCodes
    BY <1>2, CodeSpent DEF ExpireCode
  <2> QED BY <1>2, <2>1 DEF TypeOK, ExpireCode
<1> QED BY <1>1, <1>2

\* Every step keeps the types, however requests overlap.
LEMMA StepTyped == TypeOK /\ [Next]_vars => TypeOK'
<1> SUFFICES ASSUME TypeOK, [Next]_vars PROVE TypeOK'
  OBVIOUS
<1>1. ASSUME NEW w \in Workers, NEW t \in Txn, Begin(w, t) PROVE TypeOK'
  BY <1>1 DEF TypeOK, Begin, Goto
<1>2. ASSUME NEW w \in Workers, Writes(w) PROVE TypeOK'
  <2>1. accounts' \in [Ids -> Account \cup {Unused, Gone}]
    BY <1>2, AccountsTyped DEF Writes
  <2>2. work' \in [Workers -> {Idle} \cup Txn]
    BY <1>2 DEF Writes, TypeOK, Goto
  <2> QED BY <1>2, <2>1, <2>2 DEF Writes, TypeOK
<1>3. CASE UNCHANGED vars
  BY <1>3 DEF TypeOK, vars
<1> QED BY <1>1, <1>2, <1>3, Steps, OthersTyped

\* The table starts with a super admin.
LEMMA InitTyped == Init => TypeOK
<1> SUFFICES ASSUME Init PROVE TypeOK
  OBVIOUS
<1>1. PICK first \in Ids, a \in Addresses, p \in Passwords :
          accounts = [i \in Ids |-> IF i = first
                                    THEN [address |-> a, password |-> p,
                                          verified |-> TRUE, role |-> "super_admin"]
                                    ELSE Unused]
  BY DEF Init
<1>2. [address |-> a, password |-> p, verified |-> TRUE, role |-> "super_admin"] \in Account
  BY DEF Account, Role
<1>3. accounts \in [Ids -> Account \cup {Unused, Gone}]
  BY <1>1, <1>2
<1>4. PICK none \in Seq(BOOLEAN) : none = <<>> /\ Len(none) = 0
  BY EmptySeq
<1>5. codes \in [Ids -> Seq(BOOLEAN)] /\ \A i \in Ids : Len(codes[i]) <= MaxCodes
  BY <1>4, ConstantsDistinct DEF Init
<1> QED BY <1>3, <1>5 DEF Init, TypeOK

\* Rows, codes, invitations and requests have their types, however requests
\* overlap.
THEOREM TypeCorrect == Spec => []TypeOK
  BY InitTyped, StepTyped, PTL DEF Spec
-----------------------------------------------------------------------------
\* While no other request is served, what a request has made sure of stays so.
LEMMA StepIInv == OneWorker /\ IInv /\ [Next]_vars => IInv'
<1> SUFFICES ASSUME OneWorker, IInv, [Next]_vars PROVE IInv'
  OBVIOUS
<1> USE DEF IInv
<1>1. TypeOK'
  BY StepTyped
<1>2. ASSUME NEW w \in Workers, NEW t \in Txn, Begin(w, t), Sure(t)
      PROVE  \A v \in Workers : Sure(work[v])'
  <2> SUFFICES ASSUME NEW v \in Workers PROVE Sure(work[v])'
    OBVIOUS
  <2>1. work'[v] = t /\ UNCHANGED <<accounts, codes, invites>>
    BY <1>2 DEF OneWorker, Begin, Goto, TypeOK
  <2>2. Sure(t)'
    BY <1>2, <2>1 DEF Sure, Valid, Complete, Live, SuperAdmins
  <2> QED BY <2>1, <2>2 DEF Sure, Valid, Complete, Live, SuperAdmins
<1>3. ASSUME NEW w \in Workers, Writes(w)
      PROVE  \A v \in Workers : Sure(work[v])'
  <2> SUFFICES ASSUME NEW v \in Workers PROVE Sure(work[v])'
    OBVIOUS
  <2>1. PICK t \in {Idle} \cup Txn : Goto(w, t) /\ Sure(t)'
    BY <1>3 DEF Writes
  <2>2. work'[v] = t
    BY <2>1 DEF OneWorker, Goto, TypeOK
  <2> QED BY <2>1, <2>2 DEF Sure, Valid, Complete, Live, SuperAdmins
<1>4. ASSUME NEW i \in Invites, MakeInvite(i)
      PROVE  \A v \in Workers : Sure(work[v])'
  <2> SUFFICES ASSUME NEW v \in Workers PROVE Sure(work[v])'
    OBVIOUS
  <2>1. PICK t : t = work[v]
    OBVIOUS
  <2>2. work'[v] = t /\ Sure(t) /\ UNCHANGED accounts
    BY <1>4, <2>1 DEF MakeInvite
  <2>3. \A l : Valid(l) => Valid(l)'
    BY <1>4 DEF Valid, MakeInvite, TypeOK
  <2>4. Sure(t)'
    BY <2>2, <2>3 DEF Sure, Complete, Live, SuperAdmins
  <2> QED BY <2>2, <2>4 DEF Sure, Valid, Complete, Live, SuperAdmins
<1>5. ASSUME UNCHANGED <<accounts, invites, work>>
      PROVE  \A v \in Workers : Sure(work[v])'
  BY <1>5 DEF Sure, Valid, Complete, Live, SuperAdmins
<1>6. \A id \in Ids, n \in 1 .. MaxCodes :
          ExpireCode(id, n) => UNCHANGED <<accounts, invites, work>>
  BY DEF ExpireCode
<1>7. ASSUME Next PROVE \A v \in Workers : Sure(work[v])'
  <2>1. CASE \E w \in Workers : \/ \E t \in Txn : Begin(w, t) /\ Sure(t)
                                \/ Writes(w)
    BY <1>2, <1>3, <2>1
  <2>2. CASE \E i \in Invites : MakeInvite(i)
    BY <1>4, <2>2
  <2>3. CASE \E id \in Ids, n \in 1 .. MaxCodes : ExpireCode(id, n)
    BY <1>5, <1>6, <2>3
  <2> QED BY <1>7, <2>1, <2>2, <2>3, Steps
<1>8. ASSUME UNCHANGED vars PROVE \A v \in Workers : Sure(work[v])'
  BY <1>5, <1>8 DEF vars
<1>9. \A v \in Workers : Sure(work[v])'
  BY <1>7, <1>8
<1> QED BY <1>1, <1>9

\* At first no request is served.
LEMMA InitIInv == Init => IInv
  BY InitTyped, TxnsMade DEF Init, IInv, Sure

\* The invariant of requests that do not overlap holds.
THEOREM Invariance == ASSUME OneWorker PROVE Spec => []IInv
<1>1. IInv /\ [Next]_vars => IInv'
  BY OneWorker, StepIInv
<1> QED BY <1>1, InitIInv, PTL DEF Spec

\* An invitation that somebody has used is used by nobody else: it is only
\* redeemed by a request that found it unused.
THEOREM InvitesAreOneTime == ASSUME OneWorker PROVE Spec => OneTimeInvites
<1> DEFINE Once == \A i \in Invites :
          (invites[i] # Unmade /\ invites[i].used)
              => invites'[i].used /\ invites'[i].by \in {invites[i].by, None}
<1>1. IInv /\ [Next]_vars => [Once]_vars
  <2> SUFFICES ASSUME IInv, Next, NEW i \in Invites, invites[i] # Unmade, invites[i].used
               PROVE  invites'[i].used /\ invites'[i].by \in {invites[i].by, None}
    OBVIOUS
  <2>1. ASSUME NEW w \in Workers, Writes(w)
        PROVE  invites'[i].used /\ invites'[i].by \in {invites[i].by, None}
    <3>1. ~(work[w].op \in {"insert", "verify"} /\ work[w].link = i)
      BY DEF IInv, Sure, Valid
    <3> QED BY <2>1, <3>1 DEF Writes, KeepsInvites
  <2>2. ASSUME NEW j \in Invites, MakeInvite(j)
        PROVE  invites'[i].used /\ invites'[i].by \in {invites[i].by, None}
    BY <2>2 DEF MakeInvite, IInv, TypeOK
  <2>3. ASSUME UNCHANGED invites
        PROVE  invites'[i].used /\ invites'[i].by \in {invites[i].by, None}
    BY <2>3
  <2>4. TypeOK
    BY DEF IInv
  <2> QED BY <2>1, <2>2, <2>3, <2>4, Steps DEF Begin, ExpireCode
<1> HIDE DEF Once
<1>2. Spec => [][Once]_vars
  BY <1>1, Invariance, PTL DEF Spec
<1> QED BY <1>2 DEF OneTimeInvites, Once

\* Administration leaves a super admin: who is demoted or deleted is not the
\* last.  Only a registration, which looks at no role, can take him away.
THEOREM AdministrationIsSafe ==
    ASSUME OneWorker PROVE Spec => AdministrationKeepsSuperAdmin
<1> DEFINE Replaced == \E w \in Workers :
                          work[w].op = "replace" /\ SuperAdmins = {work[w].id}
           Keeps == SuperAdmins # {} /\ SuperAdmins' = {} => Replaced
<1>1. IInv /\ [Next]_vars => [Keeps]_vars
  <2> SUFFICES ASSUME IInv, Next, SuperAdmins # {}, SuperAdmins' = {} PROVE Replaced
    OBVIOUS
  <2>1. PICK last \in Ids : Live(last) /\ accounts[last].role = "super_admin"
    BY DEF SuperAdmins
  <2>2. TypeOK /\ accounts' # accounts
    BY DEF IInv, SuperAdmins, Live
  <2>3. PICK w \in Workers : Writes(w)
    BY <2>2, Steps DEF Begin, MakeInvite, ExpireCode
  <2>4. Sure(work[w]) /\ work[w] \in {Idle} \cup Txn
    BY <2>2, WorkTyped DEF IInv
  <2>5. \A id \in Ids : accounts'[id] \in Account => accounts'[id].role # "super_admin"
    BY RowsApart DEF SuperAdmins, Live
  <2>6. accounts[last] \in Account
    BY <2>1, <2>2, LiveRow
  <2>7. CASE Removes(w)
    <3>1. \A id \in Ids : id # work[w].id => accounts'[id] = accounts[id]
      BY <2>2, <2>7 DEF Removes, TypeOK
    <3>2. SuperAdmins \subseteq {work[w].id}
      BY <2>2, <2>5, <3>1, LiveRow DEF SuperAdmins
    <3>3. SuperAdmins = {work[w].id}
      BY <3>2
    <3>4. work[w].op = "replace"
      BY <2>4, <2>7, <3>3 DEF Removes, Sure
    <3> QED BY <3>3, <3>4
  <2>8. CASE Inserts(w)
    <3>1. accounts'[last] = accounts[last]
      BY <2>2, <2>6, <2>8, RowsApart DEF Inserts, TypeOK
    <3> QED BY <2>1, <2>5, <2>6, <3>1
  <2>9. CASE Rewrites(w)
    <3>1. PICK id \in Ids, row \in Account :
              /\ Live(id) /\ accounts' = [accounts EXCEPT ![id] = row]
              /\ (accounts[id].role = "super_admin" /\ row.role # "super_admin") =>
                    /\ work[w].op = "update" /\ work[w].id = id
                    /\ work[w].role \notin {Keep, "super_admin"}
      BY <2>9 DEF Rewrites
    <3>2. \A i \in Ids : i # id => accounts'[i] = accounts[i]
      BY <2>2, <3>1 DEF TypeOK
    <3>3. SuperAdmins = {id}
      BY <2>2, <2>5, <3>2, LiveRow DEF SuperAdmins
    <3>4. accounts'[id] = row /\ accounts[id].role = "super_admin"
      BY <2>2, <3>1, <3>3 DEF TypeOK, SuperAdmins
    <3>5. row.role # "super_admin"
      BY <2>5, <3>4
    <3> QED BY <2>4, <3>1, <3>3, <3>4, <3>5 DEF Sure
  <2> QED BY <2>2, <2>3, <2>7, <2>8, <2>9 DEF Writes
<1> HIDE DEF Keeps
<1>2. Spec => [][Keeps]_vars
  BY <1>1, Invariance, PTL DEF Spec
<1> QED BY <1>2 DEF AdministrationKeepsSuperAdmin, Keeps

\* A complete account keeps its row and its password, but for its owner and for
\* an admin: a registration replaces, and a request for a code restarts, only
\* an account that it has found incomplete.
THEOREM CompleteIsKept == ASSUME OneWorker PROVE Spec => CompleteAccountsKept
<1> DEFINE Keeps == \A id \in Ids : Complete(id) =>
                    \/ accounts'[id].address = accounts[id].address
                          /\ accounts'[id].password = accounts[id].password
                    \/ \E w \in Workers : /\ work[w].op \in {"password", "remove"}
                                          /\ work[w].id = id
<1>1. IInv /\ [Next]_vars => [Keeps]_vars
  <2> DEFINE Kept(id) ==
             \/ accounts'[id].address = accounts[id].address
                   /\ accounts'[id].password = accounts[id].password
             \/ \E w \in Workers : /\ work[w].op \in {"password", "remove"}
                                   /\ work[w].id = id
  <2> SUFFICES ASSUME IInv, Next, NEW id \in Ids, Complete(id) PROVE Kept(id)
    OBVIOUS
  <2>1. TypeOK
    BY DEF IInv
  <2>2. CASE accounts' = accounts
    BY <2>2
  <2>3. ASSUME NEW w \in Workers, Writes(w) PROVE Kept(id)
    <3>1. Sure(work[w]) /\ work[w] \in {Idle} \cup Txn
      BY <2>1, WorkTyped DEF IInv
    <3>2. accounts[id] # Unused
      BY <2>1, LiveRow, RowsApart
    <3>3. CASE Removes(w)
      <4>1. CASE work[w].id = id
        BY <3>1, <3>3, <4>1 DEF Removes, Sure
      <4>2. CASE work[w].id # id
        BY <2>1, <3>3, <4>2 DEF Removes, TypeOK
      <4> QED BY <4>1, <4>2
    <3>4. CASE Inserts(w)
      BY <2>1, <3>2, <3>4 DEF Inserts, TypeOK
    <3>5. CASE Rewrites(w)
      <4>1. PICK i \in Ids, row \in Account :
                /\ accounts' = [accounts EXCEPT ![i] = row]
                /\ row.address = accounts[i].address
                /\ row.password # accounts[i].password =>
                      \/ work[w].op = "password" /\ work[w].id = i
                      \/ work[w].op = "start" /\ work[w].seen = i
        BY <3>5 DEF Rewrites
      <4>2. CASE i # id
        BY <2>1, <4>1, <4>2 DEF TypeOK
      <4>3. CASE i = id
        <5>1. accounts'[id] = row
          BY <2>1, <4>1, <4>3 DEF TypeOK
        <5>2. ~(work[w].op = "start" /\ work[w].seen = id)
          BY <3>1, ConstantsDistinct DEF Sure
        <5> QED BY <4>1, <4>3, <5>1, <5>2
      <4> QED BY <4>2, <4>3
    <3> QED BY <2>2, <2>3, <3>3, <3>4, <3>5 DEF Writes
  <2>4. (\E w \in Workers : Writes(w)) \/ UNCHANGED accounts
    BY <2>1, Steps DEF Begin, MakeInvite, ExpireCode
  <2> QED BY <2>2, <2>3, <2>4
<1> HIDE DEF Keeps
<1>2. Spec => [][Keeps]_vars
  BY <1>1, Invariance, PTL DEF Spec
<1> QED BY <1>2 DEF CompleteAccountsKept, Keeps
=============================================================================
