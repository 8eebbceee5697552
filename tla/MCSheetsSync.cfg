SPECIFICATION FairSpec
CONSTANTS
    Schedulers = {s1}
    Webhooks = {h1}
    Admins = {}
    Scripts = {}
    Editors = {e1}
    Vins = {v1}
    Terms = {a, b}
    Edited = {x, y}
    None = None
INVARIANTS
    TypeOK
    RetiredRowsGone
    TermsFollowSheet
    OneMetaRow
PROPERTY LockReleased
