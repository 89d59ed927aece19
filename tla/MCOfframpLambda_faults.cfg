CONSTANTS
    Messages = {m1, m2}
    Users = {u1}
    UserOf <- OneUser
    Workers = {w1, w2}
    Faults = {"putError", "lostResponse", "die", "duplicate"}
    MaxMishaps = 2
    MaxCredits = 2
    MaxLineage = 5
SPECIFICATION Spec
SYMMETRY Symmetry
INVARIANTS NothingLost LineageTruthful SalesTraced
CHECK_DEADLOCK FALSE
