CONSTANTS
    None = None
    Phones = {p1, p2, p3}
    Registrations = {r1, r2}
    Updates = {u1}
    Logins = {l1, l2}
    WithDevice = {l1}
    Whitelisted = {p1}
    Faults = {"overlap", "crash", "callError", "smsFails", "expire"}
    MaxMishaps = 1
SPECIFICATION Spec
SYMMETRY Symmetry
INVARIANTS TypeOK LoginIsOwn StoredIsSent EmptyOnlyInterrupted RetiredForGood
PROPERTY NeverLockedOut
CHECK_DEADLOCK FALSE
