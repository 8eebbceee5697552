SPECIFICATION Spec
CONSTANTS
    Workers = {w1}
    Members = {m1}
    Vins = {v1}
    Approvals = {}
    Brokers = {b1}
    Dates = {s1, None}
    DealIds = {d1, d2}
    None = None
    Keep = Keep
INVARIANT LogTellsRow
