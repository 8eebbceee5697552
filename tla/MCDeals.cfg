SPECIFICATION Spec
CONSTANTS
    Workers = {w1, w2}
    Members = {m1}
    Vins = {v1}
    Approvals = {}
    Brokers = {b1}
    Dates = {}
    DealIds = {d1}
    None = None
    Keep = Keep
INVARIANTS
    TypeOK
    StagesLoggedInOrder
    StampsMatchStatus
    AssignedBrokerExists
PROPERTY LifecycleSpec
