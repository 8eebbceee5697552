------------------------- MODULE CreditUnionsProofs -------------------------
(***************************************************************************)
(* What CreditUnions guarantees for any number of workers, accounts,       *)
(* credit unions, approvals and deals.  Besides the types, the inductive   *)
(* invariant says what the request under way still knows of the rows it    *)
(* read, however old its snapshot: an account does not go away, and an     *)
(* approval belongs to one credit union as long as it lives.  The commits  *)
(* of a database with foreign keys check the rest.                         *)
(***************************************************************************)
EXTENDS CreditUnions, TLAPS

\* The accounts request w is to write are there.
KnownAccounts(w) ==
    LET t == work[w] IN
    /\ t.op = "assign" /\ t.seen # Stranger => Registered(t.user)
    /\ t.op \in {"role", "claim"} => Registered(t.user)
    /\ t.op = "close" => \A u \in t.staff : Registered(u)

\* The approval request w is to write or to refer to was issued, and if it is
\* still there it is one of the credit union the request took it to be of.
KnownApproval(w) ==
    LET t == work[w] IN
    /\ t.op = "claim" =>
          /\ approvals[t.approval] # Unissued
          /\ Issued(t.approval) => approvals[t.approval].cu = t.seen.cu
    /\ t.op = "deal" /\ t.approval # None =>
          /\ approvals[t.approval] # Unissued
          /\ Issued(t.approval) => approvals[t.approval].cu = t.cu

\* Every request knows its rows.
RowsKnown == \A w \in Workers : KnownAccounts(w) /\ KnownApproval(w)

\* The inductive invariant.
IInv == TypeOK /\ RowsKnown
-----------------------------------------------------------------------------
\* An account is told from no account; its columns have their types.
LEMMA UserShape ==
    ASSUME NEW u \in User
    PROVE  u # Stranger /\ u.role \in Role /\ u.cu \in Cus \cup {None}
  BY DEF User, Role, Stranger

\* A row of credit_unions is told from no row.
LEMMA CuShape ==
    ASSUME NEW c \in Cu
    PROVE  c # Unopened /\ c # Gone /\ c.primary \in Users \cup {None}
  BY PayloadsAllowed DEF Cu, Unopened, Gone

\* An issued approval is told from one that is not.
LEMMA ApprovalShape ==
    ASSUME NEW a \in Approval
    PROVE  /\ a # Unissued /\ a # Gone
           /\ a.cu \in Cus /\ a.user \in Users \cup {None} /\ a.status \in Status
  BY DEF Approval, Unissued, Gone, Status

\* An approval stays one, of its credit union, when its columns are written.
LEMMA ApprovalWritten ==
    ASSUME NEW a \in Approval, NEW u \in Users \cup {None}, NEW s \in Status
    PROVE  /\ [a EXCEPT !.user = u, !.status = s] \in Approval
           /\ [a EXCEPT !.user = u, !.status = s].cu = a.cu
           /\ [a EXCEPT !.user = u, !.status = s].user = u
           /\ [a EXCEPT !.status = s] \in Approval
           /\ [a EXCEPT !.status = s].cu = a.cu
           /\ [a EXCEPT !.status = s].user = a.user
  BY DEF Approval

\* A deal is told from no deal.
LEMMA DealShape ==
    ASSUME NEW d \in Deal
    PROVE  /\ d # Absent
           /\ d.user \in Users /\ d.cu \in Cus \cup {None}
           /\ d.approval \in ApprovalIds \cup {None}
  BY DEF Deal, Absent

\* The marks of rows that are not there are different.
LEMMA Markers == Unopened # Gone /\ Unissued # Gone
  BY DEF Unopened, Gone, Unissued

\* What a request under way holds.
LEMMA TxnShape ==
    ASSUME NEW t \in {Idle} \cup Txn
    PROVE  /\ t # Idle => t \in Txn
           /\ t.op = "idle" <=> t = Idle
           /\ t.op \in {"open", "update"} => t.cu \in Cus /\ t.programs \in Programs
           /\ t.op = "assign" => /\ t.user \in Users /\ t.cu \in Cus
                                 /\ t.seen \in User \cup {Stranger}
                                 /\ t.first \in BOOLEAN
           /\ t.op = "primary" => t.user \in Users /\ t.cu \in Cus /\ t.seen \in Cu
           /\ t.op = "close" => /\ t.cu \in Cus /\ t.staff \in SUBSET Users
                                /\ t.approvals \in SUBSET ApprovalIds
           /\ t.op = "issue" => t.cu \in Cus
           /\ t.op = "decide" => /\ t.approval \in ApprovalIds /\ t.seen \in Status
                                 /\ t.status \in Decisions
           /\ t.op = "withdraw" => t.approval \in ApprovalIds
           /\ t.op = "claim" => /\ t.approval \in ApprovalIds /\ t.user \in Users
                                /\ t.seen \in Approval /\ t.joins \in BOOLEAN
           /\ t.op = "deal" => /\ t.user \in Users /\ t.cu \in Cus \cup {None}
                               /\ t.approval \in ApprovalIds \cup {None}
           /\ t.op = "role" => /\ t.user \in Users /\ t.role \in Roles
                               /\ t.seen \in User
  BY DEF Txn, Idle

\* The initial states satisfy the invariant.
LEMMA InitIInv == Init => IInv
<1> SUFFICES ASSUME Init PROVE IInv
  OBVIOUS
<1>1. TypeOK
  BY DEF Init, TypeOK, User, Role
<1>2. \A w \in Workers : work[w].op = "idle"
  BY DEF Init, Idle
<1> QED BY <1>1, <1>2 DEF IInv, RowsKnown, KnownAccounts, KnownApproval

\* A request that begins leaves the tables alone.
LEMMA BeginTypeOK ==
    ASSUME TypeOK, NEW w \in Workers, NEW txn \in Txn, Begin(w, txn)
    PROVE  TypeOK'
  BY DEF Begin, TypeOK

\* A request that ends leaves its worker idle.
LEMMA DoneTypeOK ==
    ASSUME TypeOK, NEW w \in Workers, Done(w)
    PROVE  work' \in [Workers -> {Idle} \cup Txn]
  BY DEF Done, TypeOK

\* Every step keeps the types.
LEMMA StepTypeOK ==
    ASSUME TypeOK, RowsKnown, [Next]_vars
    PROVE  TypeOK'
<1> USE PayloadsAllowed
<1>1. ASSUME NEW w \in Workers, NEW u \in Users, NEW c \in Cus, BeginAssign(w, u, c)
      PROVE  TypeOK'
  <2>1. [op |-> "assign", user |-> u, cu |-> c, seen |-> users[u],
         first |-> cus[c].primary = None] \in Txn
    BY DEF TypeOK, Txn
  <2> QED BY <1>1, <2>1, BeginTypeOK DEF BeginAssign
<1>2. ASSUME NEW w \in Workers, NEW u \in Users, NEW c \in Cus, BeginPrimary(w, u, c)
      PROVE  TypeOK'
  <2>1. [op |-> "primary", user |-> u, cu |-> c, seen |-> cus[c]] \in Txn
    BY <1>2 DEF BeginPrimary, Open, TypeOK, Txn
  <2> QED BY <1>2, <2>1, BeginTypeOK DEF BeginPrimary
<1>3. ASSUME NEW w \in Workers, NEW u \in Users, NEW r \in Roles, BeginRole(w, u, r)
      PROVE  TypeOK'
  <2>1. [op |-> "role", user |-> u, role |-> r, seen |-> users[u]] \in Txn
    BY <1>3 DEF BeginRole, Registered, TypeOK, Txn
  <2> QED BY <1>3, <2>1, BeginTypeOK DEF BeginRole
<1>4. ASSUME NEW w \in Workers, NEW c \in Cus, NEW ps \in Programs,
             BeginOpen(w, c, ps) \/ BeginUpdate(w, c, ps)
      PROVE  TypeOK'
  <2>1. /\ [op |-> "open", cu |-> c, programs |-> ps] \in Txn
        /\ [op |-> "update", cu |-> c, programs |-> ps] \in Txn
    BY DEF Txn
  <2> QED BY <1>4, <2>1, BeginTypeOK DEF BeginOpen, BeginUpdate
<1>5. ASSUME NEW w \in Workers, NEW c \in Cus, BeginClose(w, c)
      PROVE  TypeOK'
  <2>1. [op |-> "close", cu |-> c, staff |-> Staff(c), approvals |-> IssuedBy(c)]
            \in Txn
    BY DEF Txn, Staff, IssuedBy
  <2> QED BY <1>5, <2>1, BeginTypeOK DEF BeginClose
<1>6. ASSUME NEW w \in Workers, NEW c \in Cus, BeginIssue(w, c)
      PROVE  TypeOK'
  <2>1. [op |-> "issue", cu |-> c] \in Txn
    BY DEF Txn
  <2> QED BY <1>6, <2>1, BeginTypeOK DEF BeginIssue
<1>7. ASSUME NEW w \in Workers, NEW a \in ApprovalIds, NEW s \in Decisions,
             BeginDecide(w, a, s)
      PROVE  TypeOK'
  <2>1. [op |-> "decide", approval |-> a, seen |-> approvals[a].status, status |-> s]
            \in Txn
    BY <1>7, ApprovalShape DEF BeginDecide, Issued, TypeOK, Txn
  <2> QED BY <1>7, <2>1, BeginTypeOK DEF BeginDecide
<1>8. ASSUME NEW w \in Workers, NEW a \in ApprovalIds, BeginWithdraw(w, a)
      PROVE  TypeOK'
  <2>1. [op |-> "withdraw", approval |-> a] \in Txn
    BY DEF Txn
  <2> QED BY <1>8, <2>1, BeginTypeOK DEF BeginWithdraw
<1>9. ASSUME NEW w \in Workers, NEW a \in ApprovalIds, NEW u \in Users,
             BeginClaim(w, a, u)
      PROVE  TypeOK'
  <2>1. [op |-> "claim", approval |-> a, user |-> u, seen |-> approvals[a],
         joins |-> users[u].cu = None] \in Txn
    BY <1>9 DEF BeginClaim, Issued, TypeOK, Txn
  <2> QED BY <1>9, <2>1, BeginTypeOK DEF BeginClaim
<1>10. ASSUME NEW w \in Workers, NEW u \in Users, BeginDeal(w, u)
       PROVE  TypeOK'
  <2>1. [op |-> "deal", user |-> u, cu |-> None, approval |-> None] \in Txn
    BY DEF Txn
  <2>2. \A a \in Attachable(u) :
            [op |-> "deal", user |-> u, cu |-> approvals[a].cu, approval |-> a] \in Txn
    BY ApprovalShape DEF Attachable, Issued, TypeOK, Txn
  <2> QED BY <1>10, <2>1, <2>2, BeginTypeOK DEF BeginDeal
<1>11. ASSUME NEW w \in Workers, CommitOpen(w) PROVE TypeOK'
  <2>1. work[w].cu \in Cus /\ work[w].programs \in Programs
    BY <1>11, TxnShape DEF CommitOpen, TypeOK
  <2>2. cus' \in [Cus -> Cu \cup {Unopened, Gone}]
    BY <1>11, <2>1 DEF CommitOpen, TypeOK, Cu
  <2>3. programs' \in [Cus -> Programs \cup {{}}]
    BY <1>11, <2>1 DEF CommitOpen, TypeOK
  <2> QED BY <1>11, <2>2, <2>3, DoneTypeOK DEF CommitOpen, TypeOK
<1>12. ASSUME NEW w \in Workers, CommitUpdate(w) PROVE TypeOK'
  <2>1. work[w].cu \in Cus /\ work[w].programs \in Programs
    BY <1>12, TxnShape DEF CommitUpdate, TypeOK
  <2>2. programs' \in [Cus -> Programs \cup {{}}]
    BY <1>12, <2>1 DEF CommitUpdate, TypeOK
  <2> QED BY <1>12, <2>2, DoneTypeOK DEF CommitUpdate, TypeOK
<1>13. ASSUME NEW w \in Workers, CommitAssign(w) PROVE TypeOK'
  <2> DEFINE t == work[w]
  <2>1. t.user \in Users /\ t.cu \in Cus /\ t.seen \in User \cup {Stranger}
    BY <1>13, TxnShape DEF CommitAssign, TypeOK
  <2>2. users'[t.user] \in User
    <3> DEFINE role == Emit("credit_union", t.seen.role, users[t.user].role)
               cu == Emit(t.cu, t.seen.cu, users[t.user].cu)
    <3>1. users'[t.user] = [users[t.user] EXCEPT !.role = role, !.cu = cu]
      BY <1>13, <2>1 DEF CommitAssign, TypeOK
    <3>2. CASE t.seen = Stranger
      <4>1. users[t.user] = Stranger
        BY <1>13, <3>2 DEF CommitAssign, Registered
      <4>2. t.seen.role = "none" /\ t.seen.cu = None
        BY <3>2 DEF Stranger
      <4>3. role = "credit_union" /\ cu = t.cu
        <5>1. t.cu # t.seen.cu
          BY <2>1, <4>2, PayloadsAllowed
        <5>2. cu = t.cu
          BY <5>1 DEF Emit
        <5>3. role = "credit_union"
          BY <4>2 DEF Emit
        <5> QED BY <5>2, <5>3
      <4> HIDE DEF role, cu
      <4>4. users'[t.user] = [role |-> role, cu |-> cu]
        BY <3>1, <4>1 DEF Stranger
      <4> QED BY <2>1, <4>3, <4>4 DEF User, Role
    <3>3. CASE t.seen # Stranger
      <4>1. users[t.user] \in User
        BY <1>13, <2>1, <3>3 DEF CommitAssign, RowsKnown, KnownAccounts, Registered, TypeOK
      <4>2. role \in Role /\ cu \in Cus \cup {None}
        BY <2>1, <4>1, UserShape DEF Emit, Role
      <4> HIDE DEF role, cu
      <4> QED BY <3>1, <4>1, <4>2 DEF User
    <3> QED BY <3>2, <3>3
  <2>3. users' \in [Users -> User \cup {Stranger}]
    BY <1>13, <2>1, <2>2 DEF CommitAssign, TypeOK
  <2>4. cus' \in [Cus -> Cu \cup {Unopened, Gone}]
    BY <1>13, <2>1 DEF CommitAssign, TypeOK, Open, Cu
  <2> QED BY <1>13, <2>3, <2>4, DoneTypeOK DEF CommitAssign, TypeOK
<1>14. ASSUME NEW w \in Workers, CommitPrimary(w) PROVE TypeOK'
  <2> DEFINE t == work[w]
             primary == Emit(t.user, t.seen.primary, cus[t.cu].primary)
  <2>1. t.user \in Users /\ t.cu \in Cus
    BY <1>14, TxnShape DEF CommitPrimary, TypeOK
  <2>2. cus[t.cu] \in Cu
    BY <1>14, <2>1 DEF CommitPrimary, Open, TypeOK
  <2>3. primary \in Users \cup {None}
    BY <2>1, <2>2, CuShape DEF Emit
  <2>4. cus' = [cus EXCEPT ![t.cu].primary = primary]
    BY <1>14 DEF CommitPrimary
  <2> HIDE DEF primary
  <2>5. cus' \in [Cus -> Cu \cup {Unopened, Gone}]
    BY <2>1, <2>2, <2>3, <2>4 DEF TypeOK, Cu
  <2> QED BY <1>14, <2>5, DoneTypeOK DEF CommitPrimary, TypeOK
<1>15. ASSUME NEW w \in Workers, CommitRole(w) PROVE TypeOK'
  <2> DEFINE t == work[w]
             role == Emit(t.role, t.seen.role, users[t.user].role)
  <2>1. t.user \in Users /\ t.role \in Role /\ users[t.user] \in User
    BY <1>15, TxnShape DEF CommitRole, TypeOK, RowsKnown, KnownAccounts, Registered
  <2>2. role \in Role
    BY <2>1, UserShape DEF Emit
  <2>3. users' = [users EXCEPT ![t.user].role = role]
    BY <1>15 DEF CommitRole
  <2> HIDE DEF role
  <2>4. [users[t.user] EXCEPT !.role = role] \in User
    BY <2>1, <2>2 DEF User
  <2>5. users' \in [Users -> User \cup {Stranger}]
    BY <2>1, <2>3, <2>4 DEF TypeOK
  <2> QED BY <1>15, <2>5, DoneTypeOK DEF CommitRole, TypeOK
<1>16. ASSUME NEW w \in Workers, CommitClose(w) PROVE TypeOK'
  <2> DEFINE t == work[w]
  <2>1. /\ t.cu \in Cus /\ t.staff \in SUBSET Users
        /\ \A u \in t.staff : users[u] \in User
    BY <1>16, TxnShape DEF CommitClose, TypeOK, RowsKnown, KnownAccounts, Registered
  <2>2. users' \in [Users -> User \cup {Stranger}]
    <3> SUFFICES ASSUME NEW u \in Users PROVE users'[u] \in User \cup {Stranger}
      BY <1>16 DEF CommitClose
    <3> DEFINE cu == IF users[u].cu = t.cu THEN None ELSE users[u].cu
               role == RoleClosed(t, u)
    <3>1. users'[u] = [cu |-> cu, role |-> role]
      BY <1>16 DEF CommitClose
    <3>2. CASE users[u] = Stranger
      <4>1. u \notin t.staff
        BY <2>1, <3>2, UserShape
      <4>2. cu = None /\ role = "none"
        BY <3>2, <4>1 DEF RoleClosed, Stranger
      <4> HIDE DEF cu, role
      <4> QED BY <3>1, <4>2 DEF Stranger
    <3>3. CASE users[u] # Stranger
      <4>1. users[u] \in User
        BY <3>3 DEF TypeOK
      <4>2. cu \in Cus \cup {None} /\ role \in Role
        BY <4>1, UserShape DEF RoleClosed, Role
      <4> HIDE DEF cu, role
      <4> QED BY <3>1, <4>2 DEF User
    <3> QED BY <3>2, <3>3
  <2>3. approvals' \in [ApprovalIds -> Approval \cup {Unissued, Gone}]
    BY <1>16 DEF CommitClose, TypeOK
  <2>4. deals' \in [DealIds -> Deal \cup {Absent}]
    <3> SUFFICES ASSUME NEW d \in DealIds, deals[d] # Absent
                 PROVE  DealClosed(t, d) \in Deal
      BY <1>16 DEF CommitClose, DealClosed
    <3>1. deals[d] \in Deal
      BY DEF TypeOK
    <3> QED BY <3>1, DealShape DEF DealClosed, Deal
  <2>5. programs' \in [Cus -> Programs \cup {{}}]
    BY <1>16, <2>1 DEF CommitClose, TypeOK
  <2>6. cus' \in [Cus -> Cu \cup {Unopened, Gone}]
    BY <1>16, <2>1 DEF CommitClose, TypeOK
  <2> QED BY <1>16, <2>2, <2>3, <2>4, <2>5, <2>6, DoneTypeOK DEF CommitClose, TypeOK
<1>17. ASSUME NEW w \in Workers, NEW a \in ApprovalIds, CommitIssue(w, a) PROVE TypeOK'
  <2>1. work[w].cu \in Cus
    BY <1>17, TxnShape DEF CommitIssue, TypeOK
  <2>2. approvals' \in [ApprovalIds -> Approval \cup {Unissued, Gone}]
    BY <1>17, <2>1 DEF CommitIssue, TypeOK, Approval, Status
  <2> QED BY <1>17, <2>2, DoneTypeOK DEF CommitIssue, TypeOK
<1>18. ASSUME NEW w \in Workers, CommitDecide(w) PROVE TypeOK'
  <2> DEFINE t == work[w]
             a == t.approval
             status == Emit(t.status, t.seen, approvals[a].status)
  <2>1. a \in ApprovalIds /\ t.status \in Status
    BY <1>18, TxnShape DEF CommitDecide, TypeOK
  <2>2. approvals[a] \in Approval
    BY <1>18, <2>1 DEF CommitDecide, Issued, TypeOK
  <2>3. status \in Status
    BY <2>1, <2>2, ApprovalShape DEF Emit
  <2>4. approvals' = [approvals EXCEPT ![a].status = status]
    BY <1>18 DEF CommitDecide
  <2> HIDE DEF status
  <2>5. [approvals[a] EXCEPT !.status = status] \in Approval
    BY <2>2, <2>3, ApprovalWritten
  <2>6. approvals' \in [ApprovalIds -> Approval \cup {Unissued, Gone}]
    BY <2>1, <2>4, <2>5 DEF TypeOK
  <2> QED BY <1>18, <2>6, DoneTypeOK DEF CommitDecide, TypeOK
<1>19. ASSUME NEW w \in Workers, CommitWithdraw(w) PROVE TypeOK'
  <2>1. approvals' \in [ApprovalIds -> Approval \cup {Unissued, Gone}]
    BY <1>19 DEF CommitWithdraw, TypeOK
  <2>2. deals' \in [DealIds -> Deal \cup {Absent}]
    <3> SUFFICES ASSUME NEW d \in DealIds, deals[d] # Absent
                 PROVE  [deals[d] EXCEPT !.approval = None] \in Deal
      BY <1>19 DEF CommitWithdraw, TypeOK
    <3>1. deals[d] \in Deal
      BY DEF TypeOK
    <3> QED BY <3>1 DEF Deal
  <2> QED BY <1>19, <2>1, <2>2, DoneTypeOK DEF CommitWithdraw, TypeOK
<1>20. ASSUME NEW w \in Workers, CommitClaim(w) PROVE TypeOK'
  <2> DEFINE t == work[w]
             a == t.approval
             status == Emit("claimed", t.seen.status, approvals[a].status)
  <2>1. /\ a \in ApprovalIds /\ t.user \in Users /\ t.seen.cu \in Cus
        /\ users[t.user] \in User
    BY <1>20, TxnShape, ApprovalShape
       DEF CommitClaim, TypeOK, RowsKnown, KnownAccounts, Registered
  <2>2. approvals[a] \in Approval
    BY <1>20, <2>1 DEF CommitClaim, Issued, TypeOK
  <2>3. status \in Status
    BY <2>2, ApprovalShape DEF Emit, Status
  <2>4. approvals' = [approvals EXCEPT ![a].user = t.user, ![a].status = status]
    BY <1>20 DEF CommitClaim
  <2> HIDE DEF status
  <2>5. [approvals[a] EXCEPT !.user = t.user, !.status = status] \in Approval
    BY <2>1, <2>2, <2>3, ApprovalWritten
  <2>6. approvals' = [approvals EXCEPT
            ![a] = [approvals[a] EXCEPT !.user = t.user, !.status = status]]
    BY <2>1, <2>4 DEF TypeOK
  <2>7. approvals' \in [ApprovalIds -> Approval \cup {Unissued, Gone}]
    BY <2>1, <2>5, <2>6 DEF TypeOK
  <2>8. [users[t.user] EXCEPT !.cu = t.seen.cu] \in User
    BY <2>1 DEF User
  <2>9. users' \in [Users -> User \cup {Stranger}]
    BY <1>20, <2>1, <2>8 DEF CommitClaim, TypeOK
  <2> QED BY <1>20, <2>7, <2>9, DoneTypeOK DEF CommitClaim, TypeOK
<1>21. ASSUME NEW w \in Workers, NEW d \in DealIds, CommitDeal(w, d) PROVE TypeOK'
  <2>1. [user |-> work[w].user, cu |-> work[w].cu, approval |-> work[w].approval] \in Deal
    BY <1>21, TxnShape DEF CommitDeal, TypeOK, Deal
  <2>2. deals' \in [DealIds -> Deal \cup {Absent}]
    BY <1>21, <2>1 DEF CommitDeal, TypeOK
  <2> QED BY <1>21, <2>2, DoneTypeOK DEF CommitDeal, TypeOK
<1>22. ASSUME NEW w \in Workers, Rollback(w) PROVE TypeOK'
  BY <1>22, DoneTypeOK DEF Rollback, TypeOK
<1>23. CASE UNCHANGED vars
  BY <1>23 DEF vars, TypeOK
<1> QED
  BY <1>1, <1>2, <1>3, <1>4, <1>5, <1>6, <1>7, <1>8, <1>9, <1>10, <1>11, <1>12,
     <1>13, <1>14, <1>15, <1>16, <1>17, <1>18, <1>19, <1>20, <1>21, <1>22, <1>23
     DEF Next
-----------------------------------------------------------------------------
\* An account stays one; an approval is issued once, and by one credit union.
RowsEvolve ==
    /\ \A u \in Users : Registered(u) => Registered(u)'
    /\ \A a \in ApprovalIds : approvals[a] # Unissued =>
          /\ approvals'[a] # Unissued
          /\ Issued(a)' => Issued(a) /\ approvals'[a].cu = approvals[a].cu

\* Every step is such an evolution.
LEMMA StepEvolves ==
    ASSUME TypeOK, RowsKnown, [Next]_vars
    PROVE  RowsEvolve
<1>1. ASSUME UNCHANGED users PROVE \A u \in Users : Registered(u) => Registered(u)'
  BY <1>1 DEF Registered
<1>2. ASSUME UNCHANGED approvals
      PROVE  \A a \in ApprovalIds : approvals[a] # Unissued =>
                /\ approvals'[a] # Unissued
                /\ Issued(a)' => Issued(a) /\ approvals'[a].cu = approvals[a].cu
  BY <1>2 DEF Issued
<1>3. TypeOK'
  BY StepTypeOK
<1>4. ASSUME NEW w \in Workers, CommitAssign(w) PROVE RowsEvolve
  <2> DEFINE t == work[w]
  <2>1. t.user \in Users
    BY <1>4, TxnShape DEF CommitAssign, TypeOK
  <2>2. \A u \in Users \ {t.user} : users'[u] = users[u]
    BY <1>4, <2>1 DEF CommitAssign, TypeOK
  <2>3. ASSUME Registered(t.user) PROVE users'[t.user].role \in Role
    <3> DEFINE role == Emit("credit_union", t.seen.role, users[t.user].role)
               cu == Emit(t.cu, t.seen.cu, users[t.user].cu)
    <3>1. users[t.user] \in User
      BY <2>1, <2>3 DEF Registered, TypeOK
    <3>2. role \in Role
      BY <3>1, UserShape DEF Emit, Role
    <3>3. users'[t.user] = [users[t.user] EXCEPT !.role = role, !.cu = cu]
      BY <1>4, <2>1 DEF CommitAssign, TypeOK
    <3> HIDE DEF role, cu
    <3>4. users'[t.user].role = role
      BY <3>1, <3>3 DEF User
    <3> QED BY <3>2, <3>4
  <2>4. \A u \in Users : Registered(u) => Registered(u)'
    BY <2>2, <2>3 DEF Registered, Role, Stranger
  <2> QED BY <1>2, <1>4, <2>4 DEF CommitAssign, RowsEvolve
<1>5. ASSUME NEW w \in Workers, CommitRole(w) PROVE RowsEvolve
  <2> DEFINE t == work[w]
             role == Emit(t.role, t.seen.role, users[t.user].role)
  <2>1. t.user \in Users /\ t.role \in Role /\ users[t.user] \in User
    BY <1>5, TxnShape, PayloadsAllowed
       DEF CommitRole, TypeOK, RowsKnown, KnownAccounts, Registered
  <2>2. role \in Role
    BY <2>1, UserShape DEF Emit
  <2>3. users' = [users EXCEPT ![t.user].role = role]
    BY <1>5 DEF CommitRole
  <2> HIDE DEF role
  <2>4. [users[t.user] EXCEPT !.role = role] \in User
    BY <2>1, <2>2 DEF User
  <2>5. \A u \in Users : Registered(u) => Registered(u)'
    BY <2>1, <2>3, <2>4, UserShape DEF Registered, TypeOK
  <2> QED BY <1>2, <1>5, <2>5 DEF CommitRole, RowsEvolve
<1>6. ASSUME NEW w \in Workers, CommitClose(w) PROVE RowsEvolve
  <2> DEFINE t == work[w]
  <2>1. \A u \in Users : Registered(u) => Registered(u)'
    <3> SUFFICES ASSUME NEW u \in Users, Registered(u) PROVE Registered(u)'
      OBVIOUS
    <3>1. users[u] \in User
      BY DEF Registered, TypeOK
    <3>2. users'[u].role = RoleClosed(t, u)
      BY <1>6 DEF CommitClose
    <3>3. RoleClosed(t, u) \in Role
      BY <3>1, UserShape DEF RoleClosed, Role
    <3> QED BY <3>2, <3>3 DEF Registered, Role, Stranger
  <2>2. \A a \in ApprovalIds : \/ approvals'[a] = approvals[a]
                               \/ approvals'[a] = Gone
    BY <1>6 DEF CommitClose
  <2> QED BY <2>1, <2>2, Markers DEF RowsEvolve, Issued
<1>7. ASSUME NEW w \in Workers, NEW a \in ApprovalIds, CommitIssue(w, a)
      PROVE  RowsEvolve
  <2>1. approvals[a] = Unissued
    BY <1>7 DEF CommitIssue
  <2>2. \A b \in ApprovalIds \ {a} : approvals'[b] = approvals[b]
    BY <1>7 DEF CommitIssue, TypeOK
  <2> QED BY <1>1, <1>7, <2>1, <2>2 DEF CommitIssue, RowsEvolve, Issued
<1>8. ASSUME NEW w \in Workers, CommitDecide(w) PROVE RowsEvolve
  <2> DEFINE t == work[w]
             a == t.approval
             status == Emit(t.status, t.seen, approvals[a].status)
  <2>1. a \in ApprovalIds /\ t.status \in Status /\ Issued(a)
    BY <1>8, TxnShape, PayloadsAllowed DEF CommitDecide, TypeOK
  <2>2. approvals[a] \in Approval
    BY <2>1 DEF Issued, TypeOK
  <2>3. status \in Status
    BY <2>1, <2>2, ApprovalShape DEF Emit
  <2>4. approvals' = [approvals EXCEPT ![a].status = status]
    BY <1>8 DEF CommitDecide
  <2> HIDE DEF status
  <2>5. [approvals[a] EXCEPT !.status = status].cu = approvals[a].cu
        /\ [approvals[a] EXCEPT !.status = status] \in Approval
    BY <2>2, <2>3, ApprovalWritten
  <2>6. approvals'[a] \in Approval /\ approvals'[a].cu = approvals[a].cu
    BY <2>1, <2>4, <2>5 DEF TypeOK
  <2>7. \A b \in ApprovalIds \ {a} : approvals'[b] = approvals[b]
    BY <2>4 DEF TypeOK
  <2> QED BY <1>1, <1>8, <2>1, <2>6, <2>7, ApprovalShape
             DEF CommitDecide, RowsEvolve, Issued
<1>9. ASSUME NEW w \in Workers, CommitWithdraw(w) PROVE RowsEvolve
  <2>1. \A a \in ApprovalIds : \/ approvals'[a] = approvals[a]
                               \/ approvals'[a] = Gone
    BY <1>9 DEF CommitWithdraw, TypeOK
  <2> QED BY <1>1, <1>9, <2>1, Markers DEF CommitWithdraw, RowsEvolve, Issued
<1>10. ASSUME NEW w \in Workers, CommitClaim(w) PROVE RowsEvolve
  <2> DEFINE t == work[w]
             a == t.approval
             status == Emit("claimed", t.seen.status, approvals[a].status)
  <2>1. /\ a \in ApprovalIds /\ t.user \in Users /\ t.seen.cu \in Cus
        /\ users[t.user] \in User /\ Issued(a)
    BY <1>10, TxnShape, ApprovalShape
       DEF CommitClaim, TypeOK, RowsKnown, KnownAccounts, Registered
  <2>2. approvals[a] \in Approval
    BY <2>1 DEF Issued, TypeOK
  <2>3. approvals'[a].cu = approvals[a].cu
    BY <1>10, <2>1, <2>2 DEF CommitClaim, TypeOK, Approval
  <2>4. approvals'[a] # Unissued
    BY <1>10, <2>1, <2>2 DEF CommitClaim, TypeOK, Approval, Unissued
  <2>5. \A b \in ApprovalIds \ {a} : approvals'[b] = approvals[b]
    BY <1>10, <2>1 DEF CommitClaim, TypeOK
  <2>6. [users[t.user] EXCEPT !.cu = t.seen.cu] \in User
    BY <2>1 DEF User
  <2>7. \A u \in Users : Registered(u) => Registered(u)'
    BY <1>10, <2>1, <2>6, UserShape DEF CommitClaim, TypeOK, Registered
  <2> QED BY <2>1, <2>3, <2>4, <2>5, <2>7 DEF RowsEvolve, Issued
<1>11. ASSUME UNCHANGED <<users, approvals>> PROVE RowsEvolve
  BY <1>1, <1>2, <1>11 DEF RowsEvolve
<1> QED
  BY <1>4, <1>5, <1>6, <1>7, <1>8, <1>9, <1>10, <1>11
     DEF Next, vars, Begin, BeginAssign, BeginPrimary, BeginRole, BeginOpen,
         BeginUpdate, BeginClose, BeginIssue, BeginDecide, BeginWithdraw, BeginClaim,
         BeginDeal, CommitOpen, CommitUpdate, CommitPrimary, CommitDeal, Rollback

\* What a waiting request knows of the rows stays true of them.
LEMMA KnownStays ==
    ASSUME TypeOK, RowsKnown, RowsEvolve, NEW v \in Workers, work'[v] = work[v]
    PROVE  KnownAccounts(v)' /\ KnownApproval(v)'
<1>1. KnownAccounts(v) /\ KnownApproval(v) /\ work[v] \in {Idle} \cup Txn
  BY DEF RowsKnown, TypeOK
<1>2. KnownAccounts(v)'
  <2>1. /\ work[v].op \in {"assign", "role", "claim"} => work[v].user \in Users
        /\ work[v].op = "close" => work[v].staff \in SUBSET Users
    BY <1>1, TxnShape
  <2> QED BY <1>1, <2>1 DEF KnownAccounts, RowsEvolve, Registered
<1>3. KnownApproval(v)'
  <2>1. /\ work[v].op = "claim" => work[v].approval \in ApprovalIds
        /\ work[v].op = "deal" => work[v].approval \in ApprovalIds \cup {None}
    BY <1>1, TxnShape
  <2> QED BY <1>1, <2>1 DEF KnownApproval, RowsEvolve, Issued
<1> QED BY <1>2, <1>3

\* Every step keeps what the requests under way know of the rows.
LEMMA StepRowsKnown ==
    ASSUME TypeOK, RowsKnown, [Next]_vars
    PROVE  RowsKnown'
<1>1. RowsEvolve
  BY StepEvolves
<1>2. ASSUME NEW v \in Workers, work'[v].op \notin {"assign", "role", "claim", "close", "deal"}
      PROVE  KnownAccounts(v)' /\ KnownApproval(v)'
  BY <1>2 DEF KnownAccounts, KnownApproval
<1>3. ASSUME NEW w \in Workers, NEW txn, Begin(w, txn),
             KnownAccounts(w)' /\ KnownApproval(w)'
      PROVE  RowsKnown'
  <2>1. \A v \in Workers \ {w} : work'[v] = work[v]
    BY <1>3 DEF Begin, TypeOK
  <2> QED BY <1>1, <1>3, <2>1, KnownStays DEF RowsKnown
<1>4. ASSUME NEW w \in Workers, Done(w) PROVE RowsKnown'
  <2>1. work'[w].op = "idle" /\ \A v \in Workers \ {w} : work'[v] = work[v]
    BY <1>4 DEF Done, TypeOK, Idle
  <2> QED BY <1>1, <1>2, <2>1, KnownStays DEF RowsKnown
<1>5. ASSUME NEW w \in Workers, NEW txn, Begin(w, txn),
             txn.op \in {"primary", "open", "update", "issue", "decide", "withdraw"}
      PROVE  RowsKnown'
  <2>1. work'[w].op \notin {"assign", "role", "claim", "close", "deal"}
    BY <1>5 DEF Begin, TypeOK
  <2> QED BY <1>2, <1>3, <1>5, <2>1
<1>6. ASSUME NEW w \in Workers, NEW u \in Users, NEW c \in Cus, BeginAssign(w, u, c)
      PROVE  RowsKnown'
  <2>1. KnownAccounts(w)' /\ KnownApproval(w)'
    BY <1>6 DEF BeginAssign, Begin, TypeOK, KnownAccounts, KnownApproval, Registered
  <2> QED BY <1>3, <1>6, <2>1 DEF BeginAssign
<1>7. ASSUME NEW w \in Workers, NEW u \in Users, NEW r \in Roles, BeginRole(w, u, r)
      PROVE  RowsKnown'
  <2>1. KnownAccounts(w)' /\ KnownApproval(w)'
    BY <1>7 DEF BeginRole, Begin, TypeOK, KnownAccounts, KnownApproval, Registered
  <2> QED BY <1>3, <1>7, <2>1 DEF BeginRole
<1>8. ASSUME NEW w \in Workers, NEW c \in Cus, BeginClose(w, c)
      PROVE  RowsKnown'
  <2>1. \A u \in Staff(c) : Registered(u)
    BY DEF Staff, Registered, Stranger
  <2>2. KnownAccounts(w)' /\ KnownApproval(w)'
    BY <1>8, <2>1 DEF BeginClose, Begin, TypeOK, KnownAccounts, KnownApproval, Registered
  <2> QED BY <1>3, <1>8, <2>2 DEF BeginClose
<1>9. ASSUME NEW w \in Workers, NEW a \in ApprovalIds, NEW u \in Users,
             BeginClaim(w, a, u)
      PROVE  RowsKnown'
  <2>1. KnownAccounts(w)' /\ KnownApproval(w)'
    BY <1>9 DEF BeginClaim, Begin, TypeOK, KnownAccounts, KnownApproval, Registered, Issued
  <2> QED BY <1>3, <1>9, <2>1 DEF BeginClaim
<1>10. ASSUME NEW w \in Workers, NEW u \in Users, BeginDeal(w, u)
       PROVE  RowsKnown'
  <2>1. CASE Attachable(u) = {}
    <3>1. KnownAccounts(w)' /\ KnownApproval(w)'
      BY <1>10, <2>1 DEF BeginDeal, Begin, TypeOK, KnownAccounts, KnownApproval
    <3> QED BY <1>3, <1>10, <2>1, <3>1 DEF BeginDeal
  <2>2. CASE Attachable(u) # {}
    <3>1. PICK a \in Attachable(u) :
              Begin(w, [op |-> "deal", user |-> u, cu |-> approvals[a].cu, approval |-> a])
      BY <1>10, <2>2 DEF BeginDeal
    <3>2. a \in ApprovalIds /\ Issued(a)
      BY DEF Attachable
    <3>3. KnownAccounts(w)' /\ KnownApproval(w)'
      BY <3>1, <3>2 DEF Begin, TypeOK, KnownAccounts, KnownApproval, Issued
    <3> QED BY <1>3, <3>1, <3>3
  <2> QED BY <2>1, <2>2
<1>11. CASE UNCHANGED vars
  BY <1>1, <1>11, KnownStays DEF vars, RowsKnown
<1>12. ASSUME NEW w \in Workers,
              \/ \E u \in Users, c \in Cus : BeginPrimary(w, u, c)
              \/ \E c \in Cus, ps \in Programs : BeginOpen(w, c, ps) \/ BeginUpdate(w, c, ps)
              \/ \E c \in Cus : BeginIssue(w, c)
              \/ \E a \in ApprovalIds, s \in Decisions : BeginDecide(w, a, s)
              \/ \E a \in ApprovalIds : BeginWithdraw(w, a)
       PROVE  RowsKnown'
  BY <1>5, <1>12 DEF BeginPrimary, BeginOpen, BeginUpdate, BeginIssue, BeginDecide,
                     BeginWithdraw
<1>13. ASSUME NEW w \in Workers,
              \/ \E a \in ApprovalIds : CommitIssue(w, a)
              \/ \E d \in DealIds : CommitDeal(w, d)
              \/ CommitOpen(w) \/ CommitUpdate(w) \/ CommitAssign(w)
              \/ CommitPrimary(w) \/ CommitRole(w) \/ CommitClose(w)
              \/ CommitDecide(w) \/ CommitWithdraw(w) \/ CommitClaim(w) \/ Rollback(w)
       PROVE  RowsKnown'
  BY <1>4, <1>13 DEF CommitIssue, CommitDeal, CommitOpen, CommitUpdate, CommitAssign,
         CommitPrimary, CommitRole, CommitClose, CommitDecide, CommitWithdraw,
         CommitClaim, Rollback
<1> QED
  BY <1>6, <1>7, <1>8, <1>9, <1>10, <1>11, <1>12, <1>13 DEF Next
-----------------------------------------------------------------------------
\* The four kinds of reference.
MembersResolve == \A u \in Users : users[u].cu # None => Open(users[u].cu)
ProgramsResolve == \A c \in Cus : programs[c] # {} => Open(c)
ApprovalsResolve == \A a \in ApprovalIds : Issued(a) => Open(approvals[a].cu)
DealsResolve ==
    \A d \in DealIds : deals[d] # Absent =>
        /\ deals[d].cu # None => Open(deals[d].cu)
        /\ deals[d].approval # None =>
              Issued(deals[d].approval) /\ approvals[deals[d].approval].cu = deals[d].cu

\* ReferencesResolve is these four.
LEMMA Resolve == ReferencesResolve <=> /\ MembersResolve /\ ProgramsResolve
                                       /\ ApprovalsResolve /\ DealsResolve
  BY DEF ReferencesResolve, MembersResolve, ProgramsResolve, ApprovalsResolve,
         DealsResolve

\* What the columns of the rows of a table hold.
LEMMA Columns ==
    ASSUME TypeOK
    PROVE  /\ \A u \in Users : users[u].cu \in Cus \cup {None}
           /\ \A a \in ApprovalIds : Issued(a) => /\ approvals[a] \in Approval
                                               /\ approvals[a].cu \in Cus
           /\ \A d \in DealIds : deals[d] # Absent =>
                 /\ deals[d] \in Deal
                 /\ deals[d].cu \in Cus \cup {None}
                 /\ deals[d].approval \in ApprovalIds \cup {None}
           /\ \A c \in Cus : Open(c) => cus[c] \in Cu
<1>1. ASSUME NEW u \in Users PROVE users[u].cu \in Cus \cup {None}
  BY UserShape DEF TypeOK, Stranger
<1>2. ASSUME NEW a \in ApprovalIds, Issued(a)
      PROVE  approvals[a] \in Approval /\ approvals[a].cu \in Cus
  BY <1>2, ApprovalShape DEF TypeOK, Issued
<1>3. ASSUME NEW d \in DealIds, deals[d] # Absent
      PROVE  /\ deals[d] \in Deal
             /\ deals[d].cu \in Cus \cup {None}
             /\ deals[d].approval \in ApprovalIds \cup {None}
  BY <1>3, DealShape DEF TypeOK
<1> QED BY <1>1, <1>2, <1>3 DEF TypeOK, Open

\* A credit union whose primary login is written stays open.
LEMMA StaysOpen ==
    ASSUME TypeOK, NEW c \in Cus, NEW u \in Users \cup {None}, Open(c),
           cus' = [cus EXCEPT ![c].primary = u]
    PROVE  \A d \in Cus : Open(d)' <=> Open(d)
<1>1. cus[c] \in Cu
  BY DEF TypeOK, Open
<1>2. [cus[c] EXCEPT !.primary = u] \in Cu
  BY <1>1 DEF Cu
<1> QED BY <1>2, CuShape DEF TypeOK, Open

\* While no credit union closes and the users keep theirs, members resolve, &c.
LEMMA NothingCloses ==
    ASSUME TypeOK, ReferencesResolve, \A c \in Cus : Open(c) => Open(c)'
    PROVE  /\ UNCHANGED users => MembersResolve'
           /\ UNCHANGED programs => ProgramsResolve'
           /\ UNCHANGED approvals => ApprovalsResolve'
           /\ UNCHANGED <<approvals, deals>> => DealsResolve'
<1>1. UNCHANGED users => MembersResolve'
  BY Columns, Resolve DEF MembersResolve
<1>2. UNCHANGED programs => ProgramsResolve'
  BY Resolve DEF ProgramsResolve
<1>3. UNCHANGED approvals => ApprovalsResolve'
  BY Columns, Resolve DEF ApprovalsResolve, Issued
<1>4. UNCHANGED <<approvals, deals>> => DealsResolve'
  BY Columns, Resolve DEF DealsResolve, Issued
<1> QED BY <1>1, <1>2, <1>3, <1>4

\* With foreign keys, no step leaves a reference dangling.
LEMMA StepReferencesResolve ==
    ASSUME ForeignKeys, TypeOK, RowsKnown, ReferencesResolve, [Next]_vars
    PROVE  ReferencesResolve'
<1> DEFINE Kept == \A c \in Cus : Open(c) => Open(c)'
<1>1. UNCHANGED cus => Kept
  BY DEF Open
<1>2. ASSUME UNCHANGED <<users, cus, programs, approvals, deals>>
      PROVE  ReferencesResolve'
  BY <1>2 DEF ReferencesResolve, Open, Issued
<1>3. ASSUME NEW w \in Workers, CommitOpen(w) PROVE ReferencesResolve'
  <2>1. PICK c \in Cus : c = work[w].cu
    BY <1>3, TxnShape DEF CommitOpen, TypeOK
  <2>2. [primary |-> None] \in Cu
    BY DEF Cu
  <2>3. Kept /\ Open(c)'
    BY <1>3, <2>1, <2>2, CuShape DEF CommitOpen, TypeOK, Open
  <2>4. MembersResolve' /\ ApprovalsResolve' /\ DealsResolve'
    BY <1>3, <2>3, NothingCloses DEF CommitOpen
  <2>5. ProgramsResolve'
    BY <1>3, <2>1, <2>3, Resolve DEF CommitOpen, TypeOK, ProgramsResolve
  <2> QED BY <2>4, <2>5, Resolve DEF ReferencesResolve, MembersResolve, ProgramsResolve,
             ApprovalsResolve, DealsResolve
<1>4. ASSUME NEW w \in Workers, CommitUpdate(w) PROVE ReferencesResolve'
  <2>1. PICK c \in Cus : c = work[w].cu
    BY <1>4, TxnShape DEF CommitUpdate, TypeOK
  <2>2. MembersResolve' /\ ApprovalsResolve' /\ DealsResolve'
    BY <1>1, <1>4, NothingCloses DEF CommitUpdate
  <2>3. ProgramsResolve'
    BY <1>1, <1>4, <2>1, Resolve DEF CommitUpdate, TypeOK, ProgramsResolve
  <2> QED BY <2>2, <2>3 DEF ReferencesResolve, MembersResolve, ProgramsResolve,
             ApprovalsResolve, DealsResolve
<1>5. ASSUME NEW w \in Workers, CommitAssign(w) PROVE ReferencesResolve'
  <2> DEFINE t == work[w]
  <2>1. t.user \in Users /\ t.cu \in Cus /\ t.first \in BOOLEAN
    BY <1>5, TxnShape DEF CommitAssign, TypeOK
  <2>2. Kept
    <3>1. CASE t.first
      <4>1. Open(t.cu) /\ cus' = [cus EXCEPT ![t.cu].primary = t.user]
        BY <1>5, <3>1 DEF CommitAssign
      <4> QED BY <2>1, <4>1, StaysOpen
    <3>2. CASE ~t.first
      BY <1>1, <1>5, <3>2 DEF CommitAssign
    <3> QED BY <3>1, <3>2
  <2>3. ProgramsResolve' /\ ApprovalsResolve' /\ DealsResolve'
    BY <1>5, <2>2, NothingCloses DEF CommitAssign
  <2>4. MembersResolve'
    <3> DEFINE cu == Emit(t.cu, t.seen.cu, users[t.user].cu)
               role == Emit("credit_union", t.seen.role, users[t.user].role)
    <3>1. users' = [users EXCEPT ![t.user].role = role, ![t.user].cu = cu]
      BY <1>5 DEF CommitAssign
    <3>2. [users[t.user] EXCEPT !.role = role, !.cu = cu].cu = cu
      <4> HIDE DEF role, cu
      <4>1. CASE users[t.user] \in User
        BY <4>1 DEF User
      <4>2. CASE users[t.user] = Stranger
        BY <4>2 DEF Stranger
      <4> QED BY <2>1, <4>1, <4>2 DEF TypeOK
    <3>3. \A u \in Users : users'[u].cu = IF u = t.user THEN cu ELSE users[u].cu
      <4> HIDE DEF role, cu
      <4> QED BY <2>1, <3>1, <3>2 DEF TypeOK
    <3>4. cu # None => Open(cu)
      BY <1>5, <2>1, Resolve DEF CommitAssign, Emit, MembersResolve
    <3>5. cu \in Cus \cup {None}
      BY <2>1, Columns DEF Emit
    <3>6. \A u \in Users : users'[u].cu # None =>
              users'[u].cu \in Cus /\ Open(users'[u].cu)
      BY <3>3, <3>4, <3>5, Columns, Resolve DEF MembersResolve
    <3> QED BY <2>2, <3>6 DEF MembersResolve
  <2> QED BY <2>3, <2>4 DEF ReferencesResolve, MembersResolve, ProgramsResolve,
             ApprovalsResolve, DealsResolve
<1>6. ASSUME NEW w \in Workers, CommitPrimary(w) PROVE ReferencesResolve'
  <2> DEFINE t == work[w]
             primary == Emit(t.user, t.seen.primary, cus[t.cu].primary)
  <2>1. t.user \in Users /\ t.cu \in Cus /\ Open(t.cu)
    BY <1>6, TxnShape DEF CommitPrimary, TypeOK
  <2>2. primary \in Users \cup {None}
    BY <2>1, Columns, CuShape DEF Emit
  <2>3. cus' = [cus EXCEPT ![t.cu].primary = primary]
    BY <1>6 DEF CommitPrimary
  <2> HIDE DEF primary
  <2>4. Kept
    BY <2>1, <2>2, <2>3, StaysOpen
  <2> QED BY <1>6, <2>4, NothingCloses
             DEF CommitPrimary, ReferencesResolve, MembersResolve, ProgramsResolve,
                 ApprovalsResolve, DealsResolve
<1>7. ASSUME NEW w \in Workers, CommitRole(w) PROVE ReferencesResolve'
  <2> DEFINE t == work[w]
             role == Emit(t.role, t.seen.role, users[t.user].role)
  <2>1. users' = [users EXCEPT ![t.user].role = role]
    BY <1>7 DEF CommitRole
  <2> HIDE DEF role
  <2>2. \A u \in Users : users'[u].cu = users[u].cu
    BY <2>1 DEF TypeOK, User, Stranger
  <2>3. MembersResolve'
    BY <1>1, <1>7, <2>2, Columns, Resolve DEF CommitRole, MembersResolve
  <2> QED BY <1>1, <1>7, <2>3, NothingCloses
             DEF CommitRole, ReferencesResolve, MembersResolve, ProgramsResolve,
                 ApprovalsResolve, DealsResolve
<1>8. ASSUME NEW w \in Workers, CommitClose(w) PROVE ReferencesResolve'
  <2>1. PICK t : t = work[w]
    OBVIOUS
  <2>2. t.cu \in Cus
    BY <1>8, <2>1, TxnShape DEF CommitClose, TypeOK
  <2>3. \A c \in Cus : Open(c)' <=> Open(c) /\ c # t.cu
    BY <1>8, <2>1, <2>2 DEF CommitClose, TypeOK, Open
  <2>4. MembersResolve'
    <3>1. \A u \in Users : users'[u].cu = IF users[u].cu = t.cu THEN None ELSE users[u].cu
      BY <1>8, <2>1 DEF CommitClose
    <3> QED BY <2>3, <3>1, Columns, Resolve DEF MembersResolve
  <2>5. ProgramsResolve'
    BY <1>8, <2>1, <2>2, <2>3, Resolve DEF CommitClose, TypeOK, ProgramsResolve
  <2>6. \A a \in ApprovalIds :
            /\ approvals'[a] = IF a \in IssuedBy(t.cu) THEN Gone ELSE approvals[a]
            /\ Issued(a)' <=> Issued(a) /\ approvals[a].cu # t.cu
    BY <1>8, <2>1 DEF CommitClose, Issued, IssuedBy
  <2>7. ApprovalsResolve'
    BY <2>3, <2>6, Columns, Resolve DEF ApprovalsResolve, IssuedBy
  <2>8. DealsResolve'
    <3> SUFFICES ASSUME NEW d \in DealIds, deals'[d] # Absent
                 PROVE  (/\ deals[d].cu # None => Open(deals[d].cu)
                         /\ deals[d].approval # None =>
                               /\ Issued(deals[d].approval)
                               /\ approvals[deals[d].approval].cu = deals[d].cu)'
      BY DEF DealsResolve
    <3>1. PICK cu : cu = IF deals[d].cu = t.cu THEN None ELSE deals[d].cu
      OBVIOUS
    <3>2. PICK approval : approval =
              IF \/ deals[d].approval \in t.approvals
                 \/ ForeignKeys /\ deals[d].approval \in IssuedBy(t.cu)
              THEN None ELSE deals[d].approval
      OBVIOUS
    <3>3. deals'[d] = DealClosed(t, d)
      BY <1>8, <2>1 DEF CommitClose
    <3>4. deals[d] \in Deal
      BY <3>3 DEF DealClosed, TypeOK
    <3>5. deals'[d] = [deals[d] EXCEPT !.cu = cu, !.approval = approval]
      BY <3>1, <3>2, <3>3, <3>4, DealShape DEF DealClosed
    <3>6. /\ cu \in Cus \cup {None}
          /\ cu # None => cu = deals[d].cu /\ Open(cu) /\ cu # t.cu
      BY <3>1, <3>4, DealShape, Resolve DEF DealsResolve
    <3>7. /\ approval \in ApprovalIds \cup {None}
          /\ approval # None => /\ approval = deals[d].approval /\ Issued(approval)
                                /\ approvals[approval].cu = deals[d].cu
                                /\ approvals[approval].cu # t.cu
      BY <3>2, <3>4, DealShape, Resolve DEF DealsResolve, IssuedBy
    <3>8. approval # None => cu = deals[d].cu
      BY <3>1, <3>4, <3>7, Columns, Resolve DEF DealsResolve
    <3>9. deals'[d].cu = cu /\ deals'[d].approval = approval
      BY <3>4, <3>5 DEF Deal
    <3>10. cu # None => Open(cu)'
      BY <2>3, <3>6
    <3>11. approval # None => Issued(approval)' /\ approvals'[approval].cu = cu
      BY <2>6, <3>7, <3>8 DEF IssuedBy
    <3> QED BY <3>9, <3>10, <3>11 DEF Open, Issued
  <2> QED BY <2>4, <2>5, <2>7, <2>8
             DEF ReferencesResolve, MembersResolve, ProgramsResolve,
                 ApprovalsResolve, DealsResolve
<1>9. ASSUME NEW w \in Workers, NEW a \in ApprovalIds, CommitIssue(w, a)
      PROVE  ReferencesResolve'
  <2>1. PICK c \in Cus : c = work[w].cu
    BY <1>9, TxnShape DEF CommitIssue, TypeOK
  <2>2. /\ approvals[a] = Unissued /\ Open(c)
        /\ approvals' = [approvals EXCEPT ![a] =
                             [cu |-> c, user |-> None, status |-> "pending"]]
    BY <1>9, <2>1 DEF CommitIssue
  <2>3. /\ Issued(a)' /\ approvals'[a].cu = c
        /\ \A b \in ApprovalIds \ {a} : approvals'[b] = approvals[b]
    BY <2>2 DEF TypeOK, Issued, Unissued, Gone
  <2>4. MembersResolve' /\ ProgramsResolve'
    BY <1>1, <1>9, NothingCloses DEF CommitIssue
  <2>5. ApprovalsResolve'
    BY <1>9, <2>2, <2>3, Resolve DEF CommitIssue, ApprovalsResolve, Issued, Open
  <2>6. DealsResolve'
    <3>1. ~Issued(a)
      BY <2>2 DEF Issued
    <3> QED BY <1>9, <2>3, <3>1, Columns, Resolve
               DEF CommitIssue, DealsResolve, Issued, Open
  <2> QED BY <2>4, <2>5, <2>6
             DEF ReferencesResolve, MembersResolve, ProgramsResolve,
                 ApprovalsResolve, DealsResolve
\* An approval that stays one of its credit union's is one for its deals.
<1>10. ASSUME NEW a \in ApprovalIds, Issued(a), Issued(a)',
              approvals'[a].cu = approvals[a].cu,
              \A b \in ApprovalIds \ {a} : approvals'[b] = approvals[b],
              UNCHANGED <<cus, deals>>
       PROVE  ApprovalsResolve' /\ DealsResolve'
  <2>1. \A b \in ApprovalIds : /\ Issued(b)' <=> Issued(b)
                               /\ Issued(b) => approvals'[b].cu = approvals[b].cu
    BY <1>10 DEF Issued
  <2>2. ApprovalsResolve'
    BY <1>10, <2>1, Resolve DEF ApprovalsResolve, Open
  <2>3. DealsResolve'
    BY <1>10, <2>1, Columns, Resolve DEF DealsResolve, Open
  <2> QED BY <2>2, <2>3
<1>11. ASSUME NEW w \in Workers, CommitDecide(w) PROVE ReferencesResolve'
  <2>1. PICK a \in ApprovalIds : a = work[w].approval
    BY <1>11, TxnShape DEF CommitDecide, TypeOK
  <2>2. Issued(a) /\ approvals[a] \in Approval
    BY <1>11, <2>1, Columns DEF CommitDecide
  <2>3. PICK s : approvals' = [approvals EXCEPT ![a].status = s]
    BY <1>11, <2>1 DEF CommitDecide
  <2>4. /\ approvals'[a].cu = approvals[a].cu /\ approvals'[a] # Unissued
        /\ approvals'[a] # Gone
    BY <2>2, <2>3 DEF TypeOK, Approval, Unissued, Gone
  <2>5. \A b \in ApprovalIds \ {a} : approvals'[b] = approvals[b]
    BY <2>3 DEF TypeOK
  <2>6. ApprovalsResolve' /\ DealsResolve'
    BY <1>10, <1>11, <2>2, <2>4, <2>5 DEF CommitDecide, Issued
  <2> QED BY <1>1, <1>11, <2>6, NothingCloses
             DEF CommitDecide, ReferencesResolve, MembersResolve, ProgramsResolve,
                 ApprovalsResolve, DealsResolve
<1>12. ASSUME NEW w \in Workers, CommitWithdraw(w) PROVE ReferencesResolve'
  <2>1. PICK a \in ApprovalIds : a = work[w].approval
    BY <1>12, TxnShape DEF CommitWithdraw, TypeOK
  <2>2. /\ approvals' = [approvals EXCEPT ![a] = Gone]
        /\ \A d \in DealIds : deals'[d] =
              IF deals[d] # Absent /\ deals[d].approval = a
              THEN [deals[d] EXCEPT !.approval = None] ELSE deals[d]
    BY <1>12, <2>1 DEF CommitWithdraw
  <2>3. \A b \in ApprovalIds : /\ Issued(b)' <=> Issued(b) /\ b # a
                               /\ b # a => approvals'[b] = approvals[b]
    BY <2>2 DEF TypeOK, Issued
  <2>4. ApprovalsResolve'
    BY <1>12, <2>3, Resolve DEF CommitWithdraw, ApprovalsResolve, Open
  <2>5. DealsResolve'
    <3>1. \A d \in DealIds : deals'[d] # Absent =>
              /\ deals[d] # Absent
              /\ deals'[d].cu = deals[d].cu
              /\ deals'[d].approval # None =>
                    deals'[d].approval = deals[d].approval /\ deals[d].approval # a
      BY <2>2, Columns DEF Deal
    <3> QED BY <1>12, <2>3, <3>1, Columns, Resolve
               DEF CommitWithdraw, DealsResolve, Open
  <2> QED BY <1>1, <1>12, <2>4, <2>5, NothingCloses
             DEF CommitWithdraw, ReferencesResolve, MembersResolve, ProgramsResolve,
                 ApprovalsResolve, DealsResolve
<1>13. ASSUME NEW w \in Workers, CommitClaim(w) PROVE ReferencesResolve'
  <2>1. /\ work[w].user \in Users /\ work[w].approval \in ApprovalIds
        /\ Issued(work[w].approval)
    BY <1>13, TxnShape DEF CommitClaim, TypeOK
  <2>2. PICK a \in ApprovalIds : a = work[w].approval
    BY <2>1
  <2>3. Issued(a) /\ approvals[a] \in Approval /\ approvals[a].cu = work[w].seen.cu
    BY <1>13, <2>1, <2>2, Columns DEF CommitClaim, RowsKnown, KnownApproval
  <2>4. PICK u, s : approvals' = [approvals EXCEPT ![a].user = u, ![a].status = s]
    BY <1>13, <2>2 DEF CommitClaim
  <2>5. /\ approvals'[a].cu = approvals[a].cu /\ approvals'[a] # Unissued
        /\ approvals'[a] # Gone
    BY <2>3, <2>4 DEF TypeOK, Approval, Unissued, Gone
  <2>6. \A b \in ApprovalIds \ {a} : approvals'[b] = approvals[b]
    BY <2>4 DEF TypeOK
  <2>7. ApprovalsResolve' /\ DealsResolve'
    BY <1>10, <1>13, <2>3, <2>5, <2>6 DEF CommitClaim, Issued
  <2>8. MembersResolve'
    <3>1. \A v \in Users : users'[v].cu \in {users[v].cu, approvals[a].cu}
      BY <1>13, <2>1, <2>3 DEF CommitClaim, TypeOK, User, Stranger
    <3> QED BY <1>13, <2>3, <3>1, Resolve
               DEF CommitClaim, MembersResolve, ApprovalsResolve, Open
  <2> QED BY <1>1, <1>13, <2>7, <2>8, NothingCloses
             DEF CommitClaim, ReferencesResolve, MembersResolve, ProgramsResolve,
                 ApprovalsResolve, DealsResolve
<1>14. ASSUME NEW w \in Workers, NEW d \in DealIds, CommitDeal(w, d)
       PROVE  ReferencesResolve'
  <2> DEFINE t == work[w]
  <2>1. deals' = [deals EXCEPT ![d] = [user |-> t.user, cu |-> t.cu,
                                       approval |-> t.approval]]
    BY <1>14 DEF CommitDeal
  <2>2. /\ t.cu # None => Open(t.cu)
        /\ t.approval # None =>
              Issued(t.approval) /\ approvals[t.approval].cu = t.cu
    BY <1>14 DEF CommitDeal, RowsKnown, KnownApproval
  <2>3. \A e \in DealIds : deals'[e] = IF e = d
            THEN [user |-> t.user, cu |-> t.cu, approval |-> t.approval] ELSE deals[e]
    BY <2>1 DEF TypeOK
  <2>4. DealsResolve'
    BY <1>14, <2>2, <2>3, Resolve DEF CommitDeal, DealsResolve, Issued, Open
  <2> QED BY <1>1, <1>14, <2>4, NothingCloses
             DEF CommitDeal, ReferencesResolve, MembersResolve, ProgramsResolve,
                 ApprovalsResolve, DealsResolve
<1> QED
  BY <1>2, <1>3, <1>4, <1>5, <1>6, <1>7, <1>8, <1>9, <1>11, <1>12, <1>13, <1>14
     DEF Next, vars, Begin, BeginAssign, BeginPrimary, BeginRole, BeginOpen,
         BeginUpdate, BeginClose, BeginIssue, BeginDecide, BeginWithdraw, BeginClaim,
         BeginDeal, Rollback
-----------------------------------------------------------------------------
\* Every reachable state satisfies the inductive invariant: a request's account
\* and approval, read from its snapshot, are known when it commits.
THEOREM Invariance == Spec => []IInv
<1>1. IInv /\ [Next]_vars => IInv'
  BY StepTypeOK, StepRowsKnown DEF IInv
<1> QED BY <1>1, InitIInv, PTL DEF Spec

\* Rows and requests have their types in every reachable state; no account is
\* half there and no closed credit union or deleted approval is written.
THEOREM TypeCorrect == Spec => []TypeOK
  BY Invariance, PTL DEF IInv

\* In a database that checks foreign keys, no deletion of a credit union or of
\* an approval, whatever it overlaps, leaves an account, a program, an approval
\* or a deal with a reference to it; and a deal's approval is of its credit union.
THEOREM NothingDangles ==
    ASSUME ForeignKeys
    PROVE  Spec => []ReferencesResolve
<1>1. Init => ReferencesResolve
  BY DEF Init, ReferencesResolve, Stranger, Issued, Absent, Open
<1>2. IInv /\ ReferencesResolve /\ [Next]_vars => ReferencesResolve'
  BY StepReferencesResolve DEF IInv
<1> QED BY <1>1, <1>2, Invariance, PTL DEF Spec
-----------------------------------------------------------------------------
\* Requests do not overlap.
OneWorker == \A v, w \in Workers : v = w

\* What the request under way has read still holds.
FreshReads ==
    \A w \in Workers : LET t == work[w] IN
        /\ t.op = "close" => t.staff = Staff(t.cu) /\ t.approvals = IssuedBy(t.cu)
        /\ t.op = "claim" => approvals[t.approval].user = None
        /\ t.op = "deal" /\ t.approval # None => approvals[t.approval].user = t.user

\* No deal is tied to an approval yet to be issued.
DealsKnown ==
    \A d \in DealIds : deals[d] # Absent /\ deals[d].approval # None =>
        approvals[deals[d].approval] # Unissued

\* At first no request is under way and there are no deals.
LEMMA InitFreshReads == Init => FreshReads /\ DealsKnown /\ DealApprovalIsMembers
  BY DEF Init, FreshReads, DealsKnown, DealApprovalIsMembers, Idle, Absent

\* Without overlaps no row changes between a request's reads and its writes.
LEMMA StepFreshReads ==
    ASSUME OneWorker, TypeOK, FreshReads, [Next]_vars
    PROVE  FreshReads'
<1>1. ASSUME NEW w \in Workers, NEW txn, Begin(w, txn),
             /\ txn.op = "close" => /\ txn.staff = Staff(txn.cu)
                                    /\ txn.approvals = IssuedBy(txn.cu)
             /\ txn.op = "claim" => approvals[txn.approval].user = None
             /\ txn.op = "deal" /\ txn.approval # None =>
                   approvals[txn.approval].user = txn.user
      PROVE  FreshReads'
  <2>1. \A v \in Workers : work'[v] = txn
    BY <1>1 DEF Begin, TypeOK, OneWorker
  <2> QED BY <1>1, <2>1 DEF Begin, FreshReads, Staff, IssuedBy, Issued
<1>2. ASSUME NEW w \in Workers, Done(w) PROVE FreshReads'
  <2>1. \A v \in Workers : work'[v].op = "idle"
    BY <1>2 DEF Done, TypeOK, OneWorker, Idle
  <2> QED BY <2>1 DEF FreshReads
<1>3. ASSUME NEW w \in Workers, NEW u \in Users, NEW c \in Cus, BeginAssign(w, u, c)
      PROVE  FreshReads'
  BY <1>1, <1>3 DEF BeginAssign
<1>4. ASSUME NEW w \in Workers, NEW u \in Users, NEW c \in Cus, BeginPrimary(w, u, c)
      PROVE  FreshReads'
  BY <1>1, <1>4 DEF BeginPrimary
<1>5. ASSUME NEW w \in Workers, NEW u \in Users, NEW r \in Roles, BeginRole(w, u, r)
      PROVE  FreshReads'
  BY <1>1, <1>5 DEF BeginRole
<1>6. ASSUME NEW w \in Workers, NEW c \in Cus, NEW ps \in Programs,
             BeginOpen(w, c, ps) \/ BeginUpdate(w, c, ps)
      PROVE  FreshReads'
  BY <1>1, <1>6 DEF BeginOpen, BeginUpdate
<1>7. ASSUME NEW w \in Workers, NEW c \in Cus, BeginClose(w, c) \/ BeginIssue(w, c)
      PROVE  FreshReads'
  BY <1>1, <1>7 DEF BeginClose, BeginIssue
<1>8. ASSUME NEW w \in Workers, NEW a \in ApprovalIds, NEW s \in Decisions,
             BeginDecide(w, a, s)
      PROVE  FreshReads'
  BY <1>1, <1>8 DEF BeginDecide
<1>9. ASSUME NEW w \in Workers, NEW a \in ApprovalIds, BeginWithdraw(w, a)
      PROVE  FreshReads'
  BY <1>1, <1>9 DEF BeginWithdraw
<1>10. ASSUME NEW w \in Workers, NEW a \in ApprovalIds, NEW u \in Users,
              BeginClaim(w, a, u)
       PROVE  FreshReads'
  BY <1>1, <1>10 DEF BeginClaim
<1>11. ASSUME NEW w \in Workers, NEW u \in Users, BeginDeal(w, u)
       PROVE  FreshReads'
  BY <1>1, <1>11 DEF BeginDeal, Attachable
<1>12. CASE UNCHANGED vars
  BY <1>12 DEF vars, FreshReads, Staff, IssuedBy, Issued
<1> QED
  BY <1>2, <1>3, <1>4, <1>5, <1>6, <1>7, <1>8, <1>9, <1>10, <1>11, <1>12
     DEF Next, CommitIssue, CommitDeal, CommitOpen, CommitUpdate, CommitAssign,
         CommitPrimary, CommitRole, CommitClose, CommitDecide, CommitWithdraw,
         CommitClaim, Rollback

\* A step creates a deal with what a request knows, or cuts deals loose.
LEMMA DealsStep ==
    ASSUME TypeOK, [Next]_vars
    PROVE  \A d \in DealIds : deals'[d] # Absent =>
              \/ /\ deals[d] # Absent
                 /\ deals'[d].user = deals[d].user
                 /\ deals'[d].approval \in {deals[d].approval, None}
              \/ \E w \in Workers : /\ CommitDeal(w, d)
                                    /\ deals'[d].user = work[w].user
                                    /\ deals'[d].approval = work[w].approval
<1> SUFFICES ASSUME NEW d \in DealIds, deals'[d] # Absent
             PROVE  \/ /\ deals[d] # Absent
                       /\ deals'[d].user = deals[d].user
                       /\ deals'[d].approval \in {deals[d].approval, None}
                    \/ \E w \in Workers : /\ CommitDeal(w, d)
                                          /\ deals'[d].user = work[w].user
                                          /\ deals'[d].approval = work[w].approval
  OBVIOUS
<1>1. CASE UNCHANGED deals
  BY <1>1
<1>2. ASSUME NEW w \in Workers, CommitClose(w)
      PROVE  /\ deals[d] # Absent
             /\ deals'[d].user = deals[d].user
             /\ deals'[d].approval \in {deals[d].approval, None}
  <2>1. deals'[d] = DealClosed(work[w], d) /\ deals[d] \in Deal
    BY <1>2 DEF CommitClose, DealClosed, TypeOK
  <2>2. PICK c, a : /\ deals'[d] = [deals[d] EXCEPT !.cu = c, !.approval = a]
                    /\ a \in {deals[d].approval, None}
    BY <2>1, DealShape DEF DealClosed
  <2> QED BY <2>1, <2>2, DealShape DEF Deal
<1>3. ASSUME NEW w \in Workers, CommitWithdraw(w)
      PROVE  /\ deals[d] # Absent
             /\ deals'[d].user = deals[d].user
             /\ deals'[d].approval \in {deals[d].approval, None}
  <2>1. deals'[d] \in {deals[d], [deals[d] EXCEPT !.approval = None]}
        /\ deals[d] \in Deal
    BY <1>3 DEF CommitWithdraw, TypeOK
  <2> QED BY <2>1, DealShape DEF Deal
<1>4. ASSUME NEW w \in Workers, NEW e \in DealIds, CommitDeal(w, e)
      PROVE  \/ deals'[d] = deals[d]
             \/ /\ CommitDeal(w, d)
                /\ deals'[d].user = work[w].user
                /\ deals'[d].approval = work[w].approval
  <2>1. CASE e = d
    BY <1>4, <2>1 DEF CommitDeal, TypeOK
  <2>2. CASE e # d
    BY <1>4, <2>2 DEF CommitDeal, TypeOK
  <2> QED BY <2>1, <2>2
<1>5. \/ UNCHANGED deals
      \/ \E w \in Workers : \/ CommitClose(w) \/ CommitWithdraw(w)
                            \/ \E e \in DealIds : CommitDeal(w, e)
  BY DEF Next, vars, Begin, BeginAssign, BeginPrimary, BeginRole, BeginOpen,
         BeginUpdate, BeginClose, BeginIssue, BeginDecide, BeginWithdraw, BeginClaim,
         BeginDeal, CommitOpen, CommitUpdate, CommitAssign, CommitPrimary,
         CommitRole, CommitIssue, CommitDecide, CommitClaim, Rollback
<1> QED BY <1>1, <1>2, <1>3, <1>4, <1>5

\* No step ties a deal to an approval yet to be issued.
LEMMA StepDealsKnown ==
    ASSUME TypeOK, RowsKnown, DealsKnown, [Next]_vars
    PROVE  DealsKnown'
<1> SUFFICES ASSUME NEW d \in DealIds, deals'[d] # Absent, deals'[d].approval # None
             PROVE  approvals'[deals'[d].approval] # Unissued
  BY DEF DealsKnown
<1>1. RowsEvolve
  BY StepEvolves
<1>2. CASE /\ deals[d] # Absent
           /\ deals'[d].approval \in {deals[d].approval, None}
  BY <1>1, <1>2, Columns DEF DealsKnown, RowsEvolve
<1>3. ASSUME NEW w \in Workers, CommitDeal(w, d), deals'[d].approval = work[w].approval
      PROVE  approvals'[deals'[d].approval] # Unissued
  <2>1. work[w].approval \in ApprovalIds
    BY <1>3, TxnShape DEF CommitDeal, TypeOK
  <2> QED BY <1>1, <1>3, <2>1 DEF CommitDeal, RowsKnown, KnownApproval, RowsEvolve
<1> QED BY <1>2, <1>3, DealsStep

\* A step gives an approval's user only by a claim, of one without a user.
LEMMA ApprovalUsers ==
    ASSUME TypeOK, RowsKnown, FreshReads, [Next]_vars, NEW a \in ApprovalIds,
           Issued(a)', approvals[a] # Unissued
    PROVE  Issued(a) /\ (approvals'[a].user = approvals[a].user \/ approvals[a].user = None)
<1>1. Issued(a)
  BY StepEvolves DEF RowsEvolve
<1>2. approvals[a] \in Approval
  BY <1>1, Columns
<1>3. ASSUME NEW w \in Workers, NEW b \in ApprovalIds, CommitIssue(w, b)
      PROVE  approvals'[a] = approvals[a]
  BY <1>3 DEF CommitIssue, TypeOK
<1>4. ASSUME NEW w \in Workers, CommitDecide(w)
      PROVE  approvals'[a].user = approvals[a].user
  <2>1. PICK b, s : approvals' = [approvals EXCEPT ![b].status = s]
    BY <1>4 DEF CommitDecide
  <2> QED BY <1>2, <2>1 DEF TypeOK, Approval
<1>5. ASSUME NEW w \in Workers, CommitClose(w) \/ CommitWithdraw(w)
      PROVE  approvals'[a] = approvals[a]
  <2>1. approvals'[a] \in {approvals[a], Gone}
    BY <1>5 DEF CommitClose, CommitWithdraw, TypeOK
  <2> QED BY <2>1 DEF Issued
<1>6. ASSUME NEW w \in Workers, CommitClaim(w)
      PROVE  approvals'[a] = approvals[a] \/ approvals[a].user = None
  BY <1>6 DEF CommitClaim, TypeOK, FreshReads
<1>7. \/ UNCHANGED approvals
      \/ \E w \in Workers : \/ CommitClose(w) \/ CommitWithdraw(w) \/ CommitDecide(w)
                            \/ CommitClaim(w) \/ \E b \in ApprovalIds : CommitIssue(w, b)
  BY DEF Next, vars, Begin, BeginAssign, BeginPrimary, BeginRole, BeginOpen,
         BeginUpdate, BeginClose, BeginIssue, BeginDecide, BeginWithdraw, BeginClaim,
         BeginDeal, CommitOpen, CommitUpdate, CommitAssign, CommitPrimary,
         CommitRole, CommitDeal, Rollback
<1> QED BY <1>1, <1>3, <1>4, <1>5, <1>6, <1>7

\* Without overlaps, no step ties a deal to somebody else's approval.
LEMMA StepDealApprovals ==
    ASSUME TypeOK, RowsKnown, DealsKnown, FreshReads, DealApprovalIsMembers,
           [Next]_vars
    PROVE  DealApprovalIsMembers'
<1>1. ASSUME NEW d \in DealIds, NEW a, a = deals'[d].approval,
             deals'[d] # Absent, a # None, Issued(a)'
      PROVE  approvals'[a].user = deals'[d].user
  <2>1. CASE /\ deals[d] # Absent
             /\ deals'[d].user = deals[d].user
             /\ deals'[d].approval \in {deals[d].approval, None}
    <3>1. /\ a = deals[d].approval /\ a \in ApprovalIds /\ approvals[a] # Unissued
          /\ deals[d].user \in Users
      BY <1>1, <2>1, Columns, DealShape DEF DealsKnown
    <3>2. Issued(a) /\ (approvals'[a].user = approvals[a].user \/ approvals[a].user = None)
      BY <1>1, <3>1, ApprovalUsers
    <3>3. approvals[a].user = deals[d].user
      BY <1>1, <2>1, <3>1, <3>2 DEF DealApprovalIsMembers
    <3> QED BY <2>1, <3>1, <3>2, <3>3, PayloadsAllowed
  <2>2. ASSUME NEW w \in Workers, CommitDeal(w, d),
               deals'[d].user = work[w].user, deals'[d].approval = work[w].approval
        PROVE  approvals'[a].user = deals'[d].user
    BY <1>1, <2>2 DEF CommitDeal, FreshReads
  <2> QED BY <1>1, <2>1, <2>2, DealsStep
<1> QED BY <1>1 DEF DealApprovalIsMembers

\* One step of a deletion leaves nothing of the credit union behind.
LEMMA StepDeletion ==
    ASSUME TypeOK, FreshReads, [Next]_vars, NEW c \in Cus, Open(c), cus'[c] = Gone
    PROVE  /\ programs'[c] = {}
           /\ \A u \in Users : users'[u].cu # c
           /\ \A u \in Staff(c) : users'[u].role # "credit_union"
           /\ \A d \in DealIds : deals'[d] # Absent =>
                 /\ deals'[d].cu # c
                 /\ deals'[d].approval \notin IssuedBy(c)
<1>1. cus[c] \in Cu /\ cus[c] # Gone
  BY Columns, CuShape
<1>2. ASSUME NEW w \in Workers, CommitOpen(w) PROVE FALSE
  BY <1>1, <1>2 DEF CommitOpen, TypeOK, Open
<1>3. ASSUME NEW w \in Workers, CommitAssign(w) PROVE FALSE
  BY <1>1, <1>3 DEF CommitAssign, TypeOK, Cu, Gone
<1>4. ASSUME NEW w \in Workers, CommitPrimary(w) PROVE FALSE
  <2>1. PICK d, u : cus' = [cus EXCEPT ![d].primary = u]
    BY <1>4 DEF CommitPrimary
  <2> QED BY <1>1, <2>1 DEF TypeOK, Cu, Gone
<1>5. PICK w \in Workers : CommitClose(w)
  BY <1>1, <1>2, <1>3, <1>4
     DEF Next, vars, Begin, BeginAssign, BeginPrimary, BeginRole, BeginOpen,
         BeginUpdate, BeginClose, BeginIssue, BeginDecide, BeginWithdraw, BeginClaim,
         BeginDeal, CommitUpdate, CommitRole, CommitIssue, CommitDecide, CommitWithdraw,
         CommitClaim, CommitDeal, Rollback
<1>6. PICK t : t = work[w]
  OBVIOUS
<1>7. t.cu = c /\ t.staff = Staff(c) /\ t.approvals = IssuedBy(c)
  BY <1>1, <1>5, <1>6 DEF CommitClose, TypeOK, FreshReads
<1>8. programs'[c] = {}
  BY <1>5, <1>6, <1>7 DEF CommitClose, TypeOK
<1>9. \A u \in Users : users'[u].cu # c /\ users'[u].role = RoleClosed(t, u)
  BY <1>5, <1>6, <1>7, PayloadsAllowed DEF CommitClose
<1>10. \A u \in Staff(c) : users'[u].role # "credit_union"
  BY <1>7, <1>9 DEF RoleClosed, Staff
<1>11. ASSUME NEW d \in DealIds, deals'[d] # Absent
       PROVE  deals'[d].cu # c /\ deals'[d].approval \notin IssuedBy(c)
  <2>1. deals'[d] = DealClosed(t, d) /\ deals[d] \in Deal
    BY <1>5, <1>6, <1>11 DEF CommitClose, DealClosed, TypeOK
  <2>2. PICK cu, a : /\ deals'[d] = [deals[d] EXCEPT !.cu = cu, !.approval = a]
                     /\ cu # c /\ a \notin IssuedBy(c)
    BY <1>7, <2>1, DealShape, PayloadsAllowed DEF DealClosed, IssuedBy
  <2> QED BY <2>1, <2>2 DEF Deal
<1> QED BY <1>8, <1>9, <1>10, <1>11
-----------------------------------------------------------------------------
\* Without overlapping requests, foreign keys or not, a deal is only ever tied
\* to a pre-approval its buyer claimed, and nobody else claims it afterwards.
THEOREM DealsOfMembers ==
    ASSUME OneWorker
    PROVE  Spec => []DealApprovalIsMembers
<1> DEFINE Inv == IInv /\ FreshReads /\ DealsKnown /\ DealApprovalIsMembers
<1>1. Init => Inv
  BY InitIInv, InitFreshReads
<1>2. Inv /\ [Next]_vars => Inv'
  BY StepTypeOK, StepRowsKnown, StepFreshReads, StepDealsKnown, StepDealApprovals
     DEF IInv
<1> QED BY <1>1, <1>2, PTL DEF Spec

\* Without overlapping requests, admin_delete_credit_union leaves nothing of the
\* credit union behind even where foreign keys clear no references.
THEOREM DeletionIsComplete ==
    ASSUME OneWorker
    PROVE  Spec => DeletionLeavesNothing
<1> DEFINE Inv == IInv /\ FreshReads
<1>1. Init => Inv
  BY InitIInv, InitFreshReads
<1>2. Inv /\ [Next]_vars => Inv'
  BY StepTypeOK, StepRowsKnown, StepFreshReads DEF IInv
<1>3. Inv /\ [Next]_vars =>
        [\A c \in Cus : (Open(c) /\ cus'[c] = Gone) =>
            /\ programs'[c] = {}
            /\ \A u \in Users : users'[u].cu # c
            /\ \A u \in Staff(c) : users'[u].role # "credit_union"
            /\ \A d \in DealIds : deals'[d] # Absent =>
                  /\ deals'[d].cu # c
                  /\ deals'[d].approval \notin IssuedBy(c)]_vars
  BY StepDeletion DEF IInv
<1> QED BY <1>1, <1>2, <1>3, PTL DEF Spec, DeletionLeavesNothing
=============================================================================
