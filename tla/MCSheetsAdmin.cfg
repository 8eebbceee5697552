SPECIFICATION Spec
CONSTANTS
    Schedulers = {s1}
    Webhooks = {}
    Admins = {a1}
    Scripts = {}
    Editors = {}
    Vins = {v1}
    Terms = {a}
    Edited = {x}
    None = None
INVARIANT RetiredRowsGone
