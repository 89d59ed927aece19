CONSTANTS
    None = None
    Providers = {discord}
    Challenged = {}
    Users = {u1}
    Accounts = {a1}
    Codes = {k1}
    Callbacks = {c1}
    Deletions = {d1}
    Faults = {}
    MaxConfigs = 1
    MaxMishaps = 0
SPECIFICATION Spec
INVARIANT Disconnects
CHECK_DEADLOCK FALSE
