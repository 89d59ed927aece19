CONSTANTS
    Messages = {m1, m2}
    Users = {u1}
    UserOf <- OneUser
    Workers = {w1, w2}
    Faults = {"putError", "lostResponse"}
    MaxMishaps = 1
    MaxCredits = 2
    MaxLineage = 3
SPECIFICATION FairSpec
INVARIANTS TypeOK OneSalePerMessage
PROPERTY MessagesConsumed
CHECK_DEADLOCK FALSE
