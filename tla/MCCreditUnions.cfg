SPECIFICATION Spec
CHECK_DEADLOCK FALSE
CONSTANTS
    Workers = {w1, w2}
    Users = {u1, u2}
    Cus = {c1, c2}
    Programs = {{p1}}
    ApprovalIds = {a1}
    DealIds = {d1}
    Roles = {}
    Decisions = {"active"}
    ForeignKeys = TRUE
    None = None
INVARIANTS
    TypeOK
    ReferencesResolve
SYMMETRY Symmetry
