SPECIFICATION Spec
CHECK_DEADLOCK FALSE
CONSTANTS
    m1 = m1
    s1 = s1
    w1 = w1
    w2 = w2
    Workers = {w1, w2}
    Members = {m1}
    Staff = {s1}
    Linked <- MCLinked
    Agents = {1, 2}
    Contacts = {m1, s1}
    Words <- MCWords
    Texts <- MCTexts
    Setups <- MCSetups
    MaxAttempts = 2
    MaxTime = 2
    None = None
INVARIANTS
    TypeOK
    RoomKeepsItsOwn
PROPERTY BrokersTakeTurns
