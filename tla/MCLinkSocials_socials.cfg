CONSTANTS
    None = None
    Providers = {discord, twitter}
    Challenged = {twitter}
    Users = {u1, u2}
    Accounts = {a1, a2}
    Codes = {k1, k2}
    Callbacks = {c1, c2}
    Deletions = {d1}
    Faults = {"overlap", "staleRead", "callError", "crash"}
    MaxConfigs = 2
    MaxMishaps = 1
SPECIFICATION Spec
SYMMETRY Symmetry
INVARIANTS TypeOK OneAccount LinkTruthful
CHECK_DEADLOCK FALSE
