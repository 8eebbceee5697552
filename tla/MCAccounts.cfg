SPECIFICATION Spec
CONSTANTS
    Workers = {w1}
    Ids = {i1, i2, i3}
    Addresses = {member, market}
    Market = {market}
    Invites = {l1}
    Passwords = {p1, p2}
    MaxCodes = 2
    Token = Token
    Keep = Keep
    None = None
SYMMETRY Symmetry
INVARIANTS
    TypeOK
PROPERTIES
    OneTimeInvites
    AdministrationKeepsSuperAdmin
    CompleteAccountsKept
