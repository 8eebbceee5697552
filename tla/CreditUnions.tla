---------------------------- MODULE CreditUnions ----------------------------
(***************************************************************************)
(* Credit unions, their staff and members, the pre-approvals they issue    *)
(* and the deals tied to one (app/routes/credit_unions.py, create_deal in  *)
(* app/routes/deals.py, admin_update_user in app/routes/admin.py).         *)
(*                                                                         *)
(* As in Deals, a request reads and checks in one step, from its session's *)
(* snapshot, and writes in another, over whatever the rows hold by then.   *)
(* A bulk UPDATE or DELETE finds its rows when it runs; a list of ids      *)
(* selected before it is as old as the snapshot.                           *)
(***************************************************************************)
EXTENDS Naturals

CONSTANTS Workers,      \* request threads
          Users,        \* accounts of the credit-union site
          Cus,          \* credit unions
          Programs,     \* the lists of loan programs and disclosures given
          ApprovalIds,  \* ids the cu_member_approvals table can hand out
          DealIds,      \* ids the deals table can hand out
          Roles,        \* roles the user administration gives
          Decisions,    \* statuses the staff gives an approval
          ForeignKeys,  \* do foreign keys check and clear references?
          None          \* NULL

Role == {"customer", "credit_union"}
Status == {"pending", "active", "funded", "lost", "canceled", "claimed"}

ASSUME PayloadsAllowed == /\ Roles \subseteq Role
                          /\ Decisions \subseteq Status
                          /\ ForeignKeys \in BOOLEAN
                          /\ None \notin Users \cup Cus \cup ApprovalIds
                          /\ "unopened" \notin Users \cup {None}

VARIABLES users,      \* user -> role and credit_union_id, or Stranger
          cus,        \* credit union -> primary_staff_user_id, Unopened or Gone
          programs,   \* credit union -> its loan programs and disclosures
          approvals,  \* id -> row, Unissued or Gone
          deals,      \* id -> row, or Absent
          work        \* worker -> the request it is serving

vars == <<users, cus, programs, approvals, deals, work>>
-----------------------------------------------------------------------------
User == [role : Role, cu : Cus \cup {None}]
Cu == [primary : Users \cup {None}]
Approval == [cu : Cus, user : Users \cup {None}, status : Status]
Deal == [user : Users, cu : Cus \cup {None}, approval : ApprovalIds \cup {None}]

Stranger == [role |-> "none", cu |-> None]   \* an address without an account
Unopened == [primary |-> "unopened"]
Unissued == [status |-> "unissued"]
Gone == [status |-> "gone"]
Absent == [user |-> None]
Idle == [op |-> "idle"]

Txn == [op : {"open"}, cu : Cus, programs : Programs]
       \cup [op : {"update"}, cu : Cus, programs : Programs]
       \cup [op : {"assign"}, user : Users, cu : Cus, seen : User \cup {Stranger},
             first : BOOLEAN]
       \cup [op : {"primary"}, user : Users, cu : Cus, seen : Cu]
       \cup [op : {"close"}, cu : Cus, staff : SUBSET Users,
             approvals : SUBSET ApprovalIds]
       \cup [op : {"issue"}, cu : Cus]
       \cup [op : {"decide"}, approval : ApprovalIds, seen : Status,
             status : Decisions]
       \cup [op : {"withdraw"}, approval : ApprovalIds]
       \cup [op : {"claim"}, approval : ApprovalIds, user : Users,
             seen : Approval, joins : BOOLEAN]
       \cup [op : {"deal"}, user : Users, cu : Cus \cup {None},
             approval : ApprovalIds \cup {None}]
       \cup [op : {"role"}, user : Users, role : Roles, seen : User]

TypeOK == /\ users \in [Users -> User \cup {Stranger}]
          /\ cus \in [Cus -> Cu \cup {Unopened, Gone}]
          /\ programs \in [Cus -> Programs \cup {{}}]
          /\ approvals \in [ApprovalIds -> Approval \cup {Unissued, Gone}]
          /\ deals \in [DealIds -> Deal \cup {Absent}]
          /\ work \in [Workers -> {Idle} \cup Txn]

Init == /\ users \in [Users -> {Stranger, [role |-> "customer", cu |-> None]}]
        /\ cus = [c \in Cus |-> Unopened]
        /\ programs = [c \in Cus |-> {}]
        /\ approvals = [a \in ApprovalIds |-> Unissued]
        /\ deals = [d \in DealIds |-> Absent]
        /\ work = [w \in Workers |-> Idle]

Open(c) == cus[c] \notin {Unopened, Gone}
Registered(u) == users[u] # Stranger
Issued(a) == approvals[a] \notin {Unissued, Gone}
Staff(c) == {u \in Users : users[u] = [role |-> "credit_union", cu |-> c]}
IssuedBy(c) == {a \in ApprovalIds : Issued(a) /\ approvals[a].cu = c}

\* The value an UPDATE leaves in a column: the new one if the request changed
\* it from what it read, else what the row holds by then.
Emit(new, read, current) == IF new = read THEN current ELSE new

Begin(w, txn) == /\ work[w] = Idle
                 /\ work' = [work EXCEPT ![w] = txn]
                 /\ UNCHANGED <<users, cus, programs, approvals, deals>>
Done(w) == work' = [work EXCEPT ![w] = Idle]
-----------------------------------------------------------------------------
\* admin_create_credit_union; what a clash of its slug does, Rollback does.
BeginOpen(w, c, ps) ==
    /\ cus[c] = Unopened
    /\ Begin(w, [op |-> "open", cu |-> c, programs |-> ps])

CommitOpen(w) ==
    LET t == work[w] IN
    /\ t.op = "open"
    /\ cus[t.cu] = Unopened
    /\ cus' = [cus EXCEPT ![t.cu] = [primary |-> None]]
    /\ programs' = [programs EXCEPT ![t.cu] = t.programs]
    /\ Done(w)
    /\ UNCHANGED <<users, approvals, deals>>

\* admin_update_credit_union: the loan programs and disclosures it names are
\* deleted and inserted again.  Its own row may need no UPDATE.
BeginUpdate(w, c, ps) ==
    /\ Open(c)
    /\ Begin(w, [op |-> "update", cu |-> c, programs |-> ps])

CommitUpdate(w) ==
    LET t == work[w] IN
    /\ t.op = "update"
    /\ ForeignKeys /\ t.programs # {} => Open(t.cu)
    /\ programs' = [programs EXCEPT ![t.cu] = t.programs]
    /\ Done(w)
    /\ UNCHANGED <<users, cus, approvals, deals>>

\* admin_assign_credit_union_staff: the account at an address becomes staff of
\* c, or one is made for it, and its primary login if c has none.
BeginAssign(w, u, c) ==
    /\ Open(c)
    /\ Begin(w, [op |-> "assign", user |-> u, cu |-> c, seen |-> users[u],
                 first |-> cus[c].primary = None])

CommitAssign(w) ==
    LET t == work[w] IN
    /\ t.op = "assign"
    /\ t.seen = Stranger => ~Registered(t.user)
    /\ ForeignKeys /\ t.seen.cu # t.cu => Open(t.cu)
    /\ t.first => Open(t.cu)
    /\ users' = [users EXCEPT
           ![t.user].role = Emit("credit_union", t.seen.role, @),
           ![t.user].cu = Emit(t.cu, t.seen.cu, @)]
    /\ cus' = IF t.first THEN [cus EXCEPT ![t.cu].primary = t.user] ELSE cus
    /\ Done(w)
    /\ UNCHANGED <<programs, approvals, deals>>

\* admin_set_primary_staff.
BeginPrimary(w, u, c) ==
    /\ Open(c)
    /\ u \in Staff(c)
    /\ Begin(w, [op |-> "primary", user |-> u, cu |-> c, seen |-> cus[c]])

CommitPrimary(w) ==
    LET t == work[w] IN
    /\ t.op = "primary"
    /\ Open(t.cu)
    /\ cus' = [cus EXCEPT ![t.cu].primary = Emit(t.user, t.seen.primary, @)]
    /\ Done(w)
    /\ UNCHANGED <<users, programs, approvals, deals>>

\* admin_update_user: a role is given; the credit union stays as it is.
BeginRole(w, u, r) ==
    /\ Registered(u)
    /\ Begin(w, [op |-> "role", user |-> u, role |-> r, seen |-> users[u]])

CommitRole(w) ==
    LET t == work[w] IN
    /\ t.op = "role"
    /\ users' = [users EXCEPT ![t.user].role = Emit(t.role, t.seen.role, @)]
    /\ Done(w)
    /\ UNCHANGED <<cus, programs, approvals, deals>>
-----------------------------------------------------------------------------
\* admin_delete_credit_union: the staff and the approvals are listed.
BeginClose(w, c) ==
    /\ Open(c)
    /\ Begin(w, [op |-> "close", cu |-> c, staff |-> Staff(c),
                 approvals |-> IssuedBy(c)])

\* Mutant: deals keep their reference to the approvals that go.
DealKeepingApproval(t, d) ==
    IF deals[d] = Absent THEN Absent
    ELSE [deals[d] EXCEPT !.cu = IF @ = t.cu THEN None ELSE @]

\* A deal once credit union t.cu and its approvals are deleted: approvals
\* that were not on the list are cleared by the foreign key only.
DealClosed(t, d) ==
    IF deals[d] = Absent THEN Absent
    ELSE [deals[d] EXCEPT
             !.cu = IF @ = t.cu THEN None ELSE @,
             !.approval = IF \/ @ \in t.approvals
                             \/ ForeignKeys /\ @ \in IssuedBy(t.cu)
                          THEN None ELSE @]

\* Mutant: the role is cleared with the credit union.
RoleCleared(t, u) == IF u \in t.staff THEN None ELSE users[u].role

\* The role of user u then: only the staff that was listed lose theirs.
RoleClosed(t, u) == IF u \in t.staff THEN "customer" ELSE users[u].role

\* admin_delete_credit_union: members and deals are cut loose, the staff that
\* was listed become customers, the approvals and the credit union go.
CommitClose(w) ==
    LET t == work[w] IN
    /\ t.op = "close"
    /\ Open(t.cu)
    /\ users' = [u \in Users |->
           [cu |-> IF users[u].cu = t.cu THEN None ELSE users[u].cu,
            role |-> RoleClosed(t, u)]]
    /\ deals' = [d \in DealIds |-> DealClosed(t, d)]
    /\ approvals' = [a \in ApprovalIds |->
                        IF a \in IssuedBy(t.cu) THEN Gone ELSE approvals[a]]
    /\ programs' = [programs EXCEPT ![t.cu] = {}]
    /\ cus' = [cus EXCEPT ![t.cu] = Gone]
    /\ Done(w)
-----------------------------------------------------------------------------
\* create_approval: only staff of the credit union issues one.
BeginIssue(w, c) ==
    /\ Open(c)
    /\ Staff(c) # {}
    /\ Begin(w, [op |-> "issue", cu |-> c])

CommitIssue(w, a) ==
    LET t == work[w] IN
    /\ t.op = "issue"
    /\ approvals[a] = Unissued
    /\ ForeignKeys => Open(t.cu)
    /\ approvals' = [approvals EXCEPT ![a] =
                        [cu |-> t.cu, user |-> None, status |-> "pending"]]
    /\ Done(w)
    /\ UNCHANGED <<users, cus, programs, deals>>

\* update_approval_status: any status may follow any other.
BeginDecide(w, a, s) ==
    /\ Issued(a)
    /\ Begin(w, [op |-> "decide", approval |-> a, seen |-> approvals[a].status,
                 status |-> s])

CommitDecide(w) ==
    LET t == work[w] IN
    /\ t.op = "decide"
    /\ Issued(t.approval)
    /\ approvals' = [approvals EXCEPT ![t.approval].status =
                        Emit(t.status, t.seen, @)]
    /\ Done(w)
    /\ UNCHANGED <<users, cus, programs, deals>>

\* delete_approval, by staff of its credit union.
BeginWithdraw(w, a) ==
    /\ Issued(a)
    /\ Staff(approvals[a].cu) # {}
    /\ Begin(w, [op |-> "withdraw", approval |-> a])

CommitWithdraw(w) ==
    LET t == work[w] IN
    /\ t.op = "withdraw"
    /\ Issued(t.approval)
    /\ approvals' = [approvals EXCEPT ![t.approval] = Gone]
    /\ deals' = [d \in DealIds |->
                    IF ForeignKeys /\ deals[d] # Absent
                       /\ deals[d].approval = t.approval
                    THEN [deals[d] EXCEPT !.approval = None] ELSE deals[d]]
    /\ Done(w)
    /\ UNCHANGED <<users, cus, programs>>
-----------------------------------------------------------------------------
\* claim_approval: the first user to claim it gets it, and joins its credit
\* union unless already in one.  (A later one is told "already_claimed".)
BeginClaim(w, a, u) ==
    /\ Issued(a)
    /\ approvals[a].user = None
    /\ Registered(u)
    /\ Begin(w, [op |-> "claim", approval |-> a, user |-> u,
                 seen |-> approvals[a], joins |-> users[u].cu = None])

CommitClaim(w) ==
    LET t == work[w] IN
    /\ t.op = "claim"
    /\ Issued(t.approval)
    /\ approvals' = [approvals EXCEPT
           ![t.approval].user = t.user,
           ![t.approval].status = Emit("claimed", t.seen.status, @)]
    /\ users' = IF t.joins THEN [users EXCEPT ![t.user].cu = t.seen.cu]
                ELSE users
    /\ Done(w)
    /\ UNCHANGED <<cus, programs, deals>>

\* Mutant: any live approval of the credit union will do.
AttachableOfCu(u) ==
    {a \in ApprovalIds : /\ Issued(a)
                         /\ approvals[a].cu = users[u].cu
                         /\ approvals[a].status \in {"pending", "active", "funded"}}

\* The approvals create_deal looks for.
Attachable(u) ==
    {a \in ApprovalIds : /\ Issued(a)
                         /\ approvals[a].user = u
                         /\ approvals[a].status \in {"pending", "active", "funded"}}

\* Mutant: the deal goes to the member's credit union, not the approval's.
BeginDealOfMember(w, u) ==
    IF Attachable(u) = {}
    THEN Begin(w, [op |-> "deal", user |-> u, cu |-> None, approval |-> None])
    ELSE \E a \in Attachable(u) :
            Begin(w, [op |-> "deal", user |-> u, cu |-> users[u].cu,
                      approval |-> a])

\* create_deal: tied to an approval of the member's if there is one (the
\* latest), and to the credit union of that approval.
BeginDeal(w, u) ==
    IF Attachable(u) = {}
    THEN Begin(w, [op |-> "deal", user |-> u, cu |-> None, approval |-> None])
    ELSE \E a \in Attachable(u) :
            Begin(w, [op |-> "deal", user |-> u, cu |-> approvals[a].cu,
                      approval |-> a])

CommitDeal(w, d) ==
    LET t == work[w] IN
    /\ t.op = "deal"
    /\ deals[d] = Absent
    /\ ForeignKeys /\ t.approval # None => Issued(t.approval)
    /\ ForeignKeys /\ t.cu # None => Open(t.cu)
    /\ deals' = [deals EXCEPT ![d] = [user |-> t.user, cu |-> t.cu,
                                      approval |-> t.approval]]
    /\ Done(w)
    /\ UNCHANGED <<users, cus, programs, approvals>>

\* The request fails after its reads: a row gone, a foreign key, a crash.
Rollback(w) ==
    /\ work[w] # Idle
    /\ Done(w)
    /\ UNCHANGED <<users, cus, programs, approvals, deals>>
-----------------------------------------------------------------------------
Next ==
    \E w \in Workers :
       \/ \E u \in Users, c \in Cus : BeginAssign(w, u, c) \/ BeginPrimary(w, u, c)
       \/ \E u \in Users, r \in Roles : BeginRole(w, u, r)
       \/ \E c \in Cus, ps \in Programs : BeginOpen(w, c, ps) \/ BeginUpdate(w, c, ps)
       \/ \E c \in Cus : BeginClose(w, c) \/ BeginIssue(w, c)
       \/ \E a \in ApprovalIds, s \in Decisions : BeginDecide(w, a, s)
       \/ \E a \in ApprovalIds : BeginWithdraw(w, a) \/ CommitIssue(w, a)
       \/ \E a \in ApprovalIds, u \in Users : BeginClaim(w, a, u)
       \/ \E u \in Users : Registered(u) /\ BeginDeal(w, u)
       \/ \E d \in DealIds : CommitDeal(w, d)
       \/ CommitOpen(w) \/ CommitUpdate(w)
       \/ CommitAssign(w) \/ CommitPrimary(w) \/ CommitRole(w) \/ CommitClose(w)
       \/ CommitDecide(w) \/ CommitWithdraw(w) \/ CommitClaim(w)
       \/ Rollback(w)

Spec == Init /\ [][Next]_vars
-----------------------------------------------------------------------------
\* Whatever credit unions are deleted and approvals withdrawn while deals are
\* being made and approvals issued and claimed, what a deal, an approval or an
\* account refers to is there, and a deal's approval is of its credit union.
ReferencesResolve ==
    /\ \A u \in Users : users[u].cu # None => Open(users[u].cu)
    /\ \A c \in Cus : programs[c] # {} => Open(c)
    /\ \A a \in ApprovalIds : Issued(a) => Open(approvals[a].cu)
    /\ \A d \in DealIds : deals[d] # Absent =>
          /\ deals[d].cu # None => Open(deals[d].cu)
          /\ deals[d].approval # None =>
                Issued(deals[d].approval) /\ approvals[deals[d].approval].cu = deals[d].cu

\* What holds when requests do not overlap (one worker).

\* A deleted credit union leaves nothing behind, even in a database whose
\* foreign keys do not clear references: no program, no member, no deal tied
\* to it or to one of its approvals, and no account of its staff still has the
\* role ("Make deletion resilient across older schemas"; "role cleanup avoids
\* orphaned credit_union users").
DeletionLeavesNothing ==
    [][\A c \in Cus : (Open(c) /\ cus'[c] = Gone) =>
          /\ programs'[c] = {}
          /\ \A u \in Users : users'[u].cu # c
          /\ \A u \in Staff(c) : users'[u].role # "credit_union"
          /\ \A d \in DealIds : deals'[d] # Absent =>
                /\ deals'[d].cu # c
                /\ deals'[d].approval \notin IssuedBy(c)]_vars

\* A deal is never tied to the pre-approval of somebody else.
DealApprovalIsMembers ==
    \A d \in DealIds :
        (deals[d] # Absent /\ deals[d].approval # None /\ Issued(deals[d].approval))
            => approvals[deals[d].approval].user = deals[d].user
=============================================================================
