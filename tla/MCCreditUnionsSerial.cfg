SPECIFICATION Spec
CHECK_DEADLOCK FALSE
CONSTANTS
    Workers = {w1}
    Users = {u1, u2}
    Cus = {c1, c2}
    Programs = {{}, {p1}}
    ApprovalIds = {a1}
    DealIds = {d1}
    Roles = {"customer", "credit_union"}
    Decisions = {"active", "lost"}
    ForeignKeys = FALSE
    None = None
INVARIANT DealApprovalIsMembers
PROPERTY DeletionLeavesNothing
