CONSTANTS
    None = None
    c1 = c1
    c2 = c2
    u1 = u1
    Clients = {c1, c2}
    Wallets = {u1}
    WalletOf <- UserOf
    Estimates = {2, 4}
    Balances = {0}
    MaxGasAllowed = 3
    MaxTries = 1
    TxIds = {c1, c2}
    Hashes = {1, 2, 3, 4, 5}
    Sales = {}
    Advance = {1}
    Lag = FALSE
    Users = {u1}
    Writers = {c1, c2, h1}
    Hooks = {h1}
    Addresses = {a1, a2}
    Payees = {a1}
    DepositAddress = a1
    a1 = a1
    a2 = a2
    Earlier <- Listed
    PageSize = 2
    MaxFailures = 1
SPECIFICATION Spec
SYMMETRY Symmetry
INVARIANTS TypeOK NeverOverfunded GasGranted AcknowledgedShown HistoryFaithful 
CHECK_DEADLOCK FALSE
