------------------------------ MODULE Accounts ------------------------------
(***************************************************************************)
(* Accounts, the links that open one and the codes that verify one         *)
(* (app/routes/auth.py), and their administration (app/routes/admin.py).   *)
(*                                                                         *)
(* As in Deals a request reads in one step, from its session's snapshot,   *)
(* and writes in another.  register and request_otp commit twice and so    *)
(* take more steps; what the first commit did stays when the rest fails.   *)
(***************************************************************************)
EXTENDS Naturals, Sequences

CONSTANTS Workers,    \* request threads
          Ids,        \* ids the users table can hand out
          Addresses,  \* an email on one of the two sites (its auth_realm)
          Market,     \* those on the marketplace site, where Google opens accounts
          Invites,    \* tokens of one-time invitations
          Passwords,
          MaxCodes,   \* one-time codes an account may be sent
          Token,      \* a credit union's reusable signup token, or an approval code
          Keep,       \* "not in the payload"
          None        \* NULL, no link

ASSUME ConstantsDistinct ==
    /\ Market \subseteq Addresses
    /\ Token \notin Invites
    /\ None \notin Ids \cup Passwords \cup Invites \cup Addresses \cup {Token, Keep}
    /\ Keep \notin Addresses
    /\ MaxCodes \in Nat

VARIABLES accounts,  \* id -> row, Unused or Gone
          codes,     \* id -> the codes sent, in order: may it still be used?
          invites,   \* token -> row, or Unmade
          work       \* worker -> the request it is serving

vars == <<accounts, codes, invites, work>>
-----------------------------------------------------------------------------
Role == {"customer", "super_admin"}
Account == [address : Addresses, password : Passwords \cup {None},
            verified : BOOLEAN, role : Role]
Unused == [address |-> None]
Gone == [address |-> Keep]

Invite == [used : BOOLEAN, by : Ids \cup {None}]
Unmade == [by |-> None]

Links == Invites \cup {Token}

Idle == [op |-> "idle"]

\* "replace", "check", "insert": the steps of register ("insert" also of the
\* others that open an account); "start", "code": those of request_otp.
Txn == [op : {"replace"}, id : Ids, row : Account, link : Links]
       \cup [op : {"check"}, row : Account, link : Links]
       \cup [op : {"insert"}, row : Account, link : Links \cup {None}]
       \cup [op : {"start"}, row : Account, seen : Ids \cup {None}]
       \cup [op : {"code", "mark", "remove"}, id : Ids]
       \cup [op : {"verify"}, id : Ids, code : 1 .. MaxCodes, done : BOOLEAN,
             link : Links \cup {None}]
       \cup [op : {"password"}, id : Ids, password : Passwords]
       \cup [op : {"update"}, id : Ids, seen : Account, role : Role \cup {Keep},
             verified : BOOLEAN \cup {Keep}]

TypeOK == /\ accounts \in [Ids -> Account \cup {Unused, Gone}]
          /\ codes \in [Ids -> Seq(BOOLEAN)]
          /\ \A id \in Ids : Len(codes[id]) <= MaxCodes
          /\ invites \in [Invites -> Invite \cup {Unmade}]
          /\ work \in [Workers -> {Idle} \cup Txn]

\* The first super admin is made by hand.
Init == /\ \E id \in Ids, a \in Addresses, p \in Passwords :
              accounts = [i \in Ids |->
                  IF i = id THEN [address |-> a, password |-> p,
                                  verified |-> TRUE, role |-> "super_admin"]
                  ELSE Unused]
        /\ codes = [id \in Ids |-> <<>>]
        /\ invites = [i \in Invites |-> Unmade]
        /\ work = [w \in Workers |-> Idle]

Live(id) == accounts[id] \notin {Unused, Gone}
AccountsAt(a) == {id \in Ids : accounts[id].address = a}
Complete(id) == /\ Live(id)
                /\ accounts[id].verified
                /\ accounts[id].password # None
SuperAdmins == {id \in Ids : Live(id) /\ accounts[id].role = "super_admin"}

Customer(a, p, v) ==
    [address |-> a, password |-> p, verified |-> v, role |-> "customer"]

\* What a link must be when it is presented: the token of an invitation that
\* has not been used, or a credit union's own token.
Valid(l) == l \in Invites => invites[l] # Unmade /\ ~invites[l].used

\* The invitations once account id has used link l.
Redeemed(l, id) ==
    IF l \in Invites THEN [invites EXCEPT ![l] = [used |-> TRUE, by |-> id]]
    ELSE invites

\* An invitation that is to be marked used must still be there.
Redeemable(l) == l \in Invites => invites[l] # Unmade

Goto(w, s) == work' = [work EXCEPT ![w] = s]
Begin(w, s) == /\ work[w] = Idle
               /\ Goto(w, s)
               /\ UNCHANGED <<accounts, codes, invites>>
-----------------------------------------------------------------------------
\* create_credit_union_member_invite, by staff of a credit union.
MakeInvite(i) ==
    /\ invites[i] = Unmade
    /\ invites' = [invites EXCEPT ![i] = [used |-> FALSE, by |-> None]]
    /\ UNCHANGED <<accounts, codes, work>>

\* register: an account at this address that has a password refuses it; one
\* that has none is to be replaced.
BeginRegister(w, a, p, l) ==
    LET row == Customer(a, p, TRUE) IN
    \/ /\ AccountsAt(a) = {}
       /\ Valid(l)
       /\ Begin(w, [op |-> "insert", row |-> row, link |-> l])
    \/ \E id \in AccountsAt(a) :
          /\ accounts[id].password = None
          /\ Begin(w, [op |-> "replace", id |-> id, row |-> row, link |-> l])

\* register: the old account is deleted, and that is committed.  (Codes that
\* refer to it would forbid it.)
CommitReplace(w) ==
    LET t == work[w] IN
    /\ t.op = "replace"
    /\ codes[t.id] = <<>>
    /\ accounts' = [accounts EXCEPT ![t.id] = Gone]
    /\ invites' = [i \in Invites |-> IF invites[i] # Unmade /\ invites[i].by = t.id
                                     THEN [invites[i] EXCEPT !.by = None]
                                     ELSE invites[i]]
    /\ Goto(w, [op |-> "check", row |-> t.row, link |-> t.link])
    /\ UNCHANGED codes

\* register: only now is the link looked at.
CheckLink(w) ==
    LET t == work[w] IN
    /\ t.op = "check"
    /\ Goto(w, IF Valid(t.link)
               THEN [op |-> "insert", row |-> t.row, link |-> t.link] ELSE Idle)
    /\ UNCHANGED <<accounts, codes, invites>>

\* register, google_auth, admin_create_user: the account is inserted (its
\* address must be free), the invitation marked used, commit.
CommitInsert(w, id) ==
    LET t == work[w] IN
    /\ t.op = "insert"
    /\ accounts[id] = Unused
    /\ AccountsAt(t.row.address) = {}
    /\ Redeemable(t.link)
    /\ accounts' = [accounts EXCEPT ![id] = t.row]
    /\ invites' = Redeemed(t.link, id)
    /\ Goto(w, Idle)
    /\ UNCHANGED codes

\* google_auth: opens an account on the marketplace, or marks one verified.
BeginGoogle(w, a, v) ==
    \/ /\ AccountsAt(a) = {}
       /\ a \in Market
       /\ Begin(w, [op |-> "insert", row |-> Customer(a, None, v), link |-> None])
    \/ \E id \in AccountsAt(a) :
          /\ v /\ ~accounts[id].verified
          /\ Begin(w, [op |-> "mark", id |-> id])

CommitMark(w) ==
    LET t == work[w] IN
    /\ t.op = "mark"
    /\ Live(t.id)
    /\ accounts' = [accounts EXCEPT ![t.id].verified = TRUE]
    /\ Goto(w, Idle)
    /\ UNCHANGED <<codes, invites>>
-----------------------------------------------------------------------------
\* Mutant: an account that has been verified can be started again.
BeginStartAgain(w, a, p, l) ==
    /\ Valid(l)
    /\ \/ /\ AccountsAt(a) = {}
          /\ Begin(w, [op |-> "start", row |-> Customer(a, p, FALSE), seen |-> None])
       \/ \E id \in AccountsAt(a) :
             Begin(w, [op |-> "start", row |-> Customer(a, p, FALSE), seen |-> id])

\* request_otp: refused only to an account that is complete.
BeginStart(w, a, p, l) ==
    /\ Valid(l)
    /\ \/ /\ AccountsAt(a) = {}
          /\ Begin(w, [op |-> "start", row |-> Customer(a, p, FALSE), seen |-> None])
       \/ \E id \in AccountsAt(a) :
             /\ ~Complete(id)
             /\ Begin(w, [op |-> "start", row |-> Customer(a, p, FALSE), seen |-> id])

\* request_otp: the account is inserted, or gets the new password; commit.
CommitStart(w, id) ==
    LET t == work[w] IN
    /\ t.op = "start"
    /\ \/ /\ t.seen = None
          /\ accounts[id] = Unused
          /\ AccountsAt(t.row.address) = {}
          /\ accounts' = [accounts EXCEPT ![id] = t.row]
       \/ /\ t.seen = id
          /\ Live(id)
          /\ accounts' = [accounts EXCEPT ![id].password = t.row.password]
    /\ Goto(w, [op |-> "code", id |-> id])
    /\ UNCHANGED <<codes, invites>>

\* request_otp: a code is stored and sent.
CommitCode(w) ==
    LET t == work[w] IN
    /\ t.op = "code"
    /\ Live(t.id)
    /\ Len(codes[t.id]) < MaxCodes
    /\ codes' = [codes EXCEPT ![t.id] = Append(@, TRUE)]
    /\ Goto(w, Idle)
    /\ UNCHANGED <<accounts, invites>>

\* Ten minutes pass.
ExpireCode(id, n) ==
    /\ n \in DOMAIN codes[id]
    /\ codes[id][n]
    /\ codes' = [codes EXCEPT ![id][n] = FALSE]
    /\ UNCHANGED <<accounts, invites, work>>

\* Mutant: a used invitation is accepted.
BeginVerifyUsedLink(w, a, n, l) ==
    \E id \in AccountsAt(a) :
       /\ accounts[id].password # None
       /\ n \in DOMAIN codes[id] /\ codes[id][n]
       /\ \A m \in DOMAIN codes[id] : codes[id][m] => m <= n
       /\ Redeemable(l)
       /\ Begin(w, [op |-> "verify", id |-> id, code |-> n, link |-> l,
                    done |-> accounts[id].verified])

\* verify_otp: the newest code that can be used must be the one given, and
\* the link, if one is given, valid.  (All codes are of one channel, and no two
\* were stored within the same second.)
BeginVerify(w, a, n, l) ==
    \E id \in AccountsAt(a) :
       /\ accounts[id].password # None
       /\ n \in DOMAIN codes[id] /\ codes[id][n]
       /\ \A m \in DOMAIN codes[id] : codes[id][m] => m <= n
       /\ Valid(l)
       /\ Begin(w, [op |-> "verify", id |-> id, code |-> n, link |-> l,
                    done |-> accounts[id].verified])

\* verify_otp: the code is used, the account verified (a column that is not
\* written if the account read was verified), the invitation used; commit.
CommitVerify(w) ==
    LET t == work[w] IN
    /\ t.op = "verify"
    /\ Live(t.id)
    /\ Redeemable(t.link)
    /\ codes' = [codes EXCEPT ![t.id][t.code] = FALSE]
    /\ accounts' = [accounts EXCEPT ![t.id].verified = @ \/ ~t.done]
    /\ invites' = Redeemed(t.link, t.id)
    /\ Goto(w, Idle)

\* change_password by its owner, admin_reset_user_password by an admin.
BeginPassword(w, id, p) ==
    /\ Live(id)
    /\ accounts[id].password # None \/ SuperAdmins # {}
    /\ Begin(w, [op |-> "password", id |-> id, password |-> p])

CommitPassword(w) ==
    LET t == work[w] IN
    /\ t.op = "password"
    /\ Live(t.id)
    /\ accounts' = [accounts EXCEPT ![t.id].password = t.password]
    /\ Goto(w, Idle)
    /\ UNCHANGED <<codes, invites>>
-----------------------------------------------------------------------------
\* admin_create_user, on the credit unions' site.
BeginCreate(w, a, p, r) ==
    /\ SuperAdmins # {}
    /\ a \notin Market
    /\ AccountsAt(a) = {}
    /\ Begin(w, [op |-> "insert", link |-> None,
                 row |-> [Customer(a, p, TRUE) EXCEPT !.role = r]])

\* Mutant: the last super admin may step down.
BeginUpdateLast(w, id, r, v) ==
    /\ SuperAdmins # {}
    /\ Live(id)
    /\ Begin(w, [op |-> "update", id |-> id, seen |-> accounts[id],
                 role |-> r, verified |-> v])

\* admin_update_user: the last super admin keeps the role.
BeginUpdate(w, id, r, v) ==
    /\ SuperAdmins # {}
    /\ Live(id)
    /\ (r \notin {Keep, "super_admin"}) => SuperAdmins # {id}
    /\ Begin(w, [op |-> "update", id |-> id, seen |-> accounts[id],
                 role |-> r, verified |-> v])

\* Mutant: what the payload leaves out is written too.
EmitAll(given, read, current) == given

\* The value an UPDATE leaves in a column.
Emit(given, read, current) == IF given \in {Keep, read} THEN current ELSE given

CommitUpdate(w) ==
    LET t == work[w] IN
    /\ t.op = "update"
    /\ Live(t.id)
    /\ accounts' = [accounts EXCEPT
           ![t.id].role = Emit(t.role, t.seen.role, @),
           ![t.id].verified = Emit(t.verified, t.seen.verified, @)]
    /\ Goto(w, Idle)
    /\ UNCHANGED <<codes, invites>>

\* admin_delete_user: never one's own account, nor the last super admin's.
BeginRemove(w, id) ==
    /\ Live(id)
    /\ SuperAdmins \ {id} # {}
    /\ Begin(w, [op |-> "remove", id |-> id])

\* admin_delete_user: the codes go with the account, invitations it used stay
\* used.
CommitRemove(w) ==
    LET t == work[w] IN
    /\ t.op = "remove"
    /\ accounts' = [accounts EXCEPT ![t.id] = Gone]
    /\ codes' = [codes EXCEPT ![t.id] = <<>>]
    /\ invites' = [i \in Invites |-> IF invites[i] # Unmade /\ invites[i].by = t.id
                                     THEN [invites[i] EXCEPT !.by = None]
                                     ELSE invites[i]]
    /\ Goto(w, Idle)

\* The request fails after its reads, or between its two commits.
Rollback(w) ==
    /\ work[w] # Idle
    /\ Goto(w, Idle)
    /\ UNCHANGED <<accounts, codes, invites>>
-----------------------------------------------------------------------------
Next ==
    \/ \E w \in Workers :
          \/ \E a \in Addresses, p \in Passwords, l \in Links :
                BeginRegister(w, a, p, l) \/ BeginStart(w, a, p, l)
          \/ \E a \in Addresses, v \in BOOLEAN : BeginGoogle(w, a, v)
          \/ \E a \in Addresses, n \in 1 .. MaxCodes, l \in Links \cup {None} :
                BeginVerify(w, a, n, l)
          \/ \E a \in Addresses, p \in Passwords, r \in Role : BeginCreate(w, a, p, r)
          \/ \E id \in Ids, p \in Passwords : BeginPassword(w, id, p)
          \/ \E id \in Ids, r \in Role \cup {Keep}, v \in BOOLEAN \cup {Keep} :
                BeginUpdate(w, id, r, v)
          \/ \E id \in Ids : BeginRemove(w, id) \/ CommitInsert(w, id) \/ CommitStart(w, id)
          \/ CommitReplace(w) \/ CheckLink(w) \/ CommitMark(w) \/ CommitCode(w)
          \/ CommitVerify(w) \/ CommitPassword(w) \/ CommitUpdate(w) \/ CommitRemove(w)
          \/ Rollback(w)
    \/ \E i \in Invites : MakeInvite(i)
    \/ \E id \in Ids, n \in 1 .. MaxCodes : ExpireCode(id, n)

Spec == Init /\ [][Next]_vars
-----------------------------------------------------------------------------
\* What holds when requests do not overlap (one worker).

\* An invitation that has been used is never used by somebody else
\* (CreditUnionMemberInvite: "One-time signup link for a specific member").
OneTimeInvites ==
    [][\A i \in Invites :
          (invites[i] # Unmade /\ invites[i].used)
              => invites'[i].used /\ invites'[i].by \in {invites[i].by, None}]_vars

\* No change of role and no deletion by an admin takes the last super admin away
\* ("At least one super_admin is required."), only a registration that replaces
\* an account which has no password: it does not look at the role.
AdministrationKeepsSuperAdmin ==
    [][SuperAdmins # {} /\ SuperAdmins' = {} =>
          \E w \in Workers : work[w].op = "replace" /\ SuperAdmins = {work[w].id}]_vars

\* A complete account never loses its row or its password to a registration at
\* its address, however register, request_otp, Google and codes follow one
\* another: only its owner or an admin changes its password, only an admin
\* deletes it.
CompleteAccountsKept ==
    [][\A id \in Ids : Complete(id) =>
          \/ accounts'[id].address = accounts[id].address
                /\ accounts'[id].password = accounts[id].password
          \/ \E w \in Workers : /\ work[w].op \in {"password", "remove"}
                                /\ work[w].id = id]_vars
=============================================================================
