SPECIFICATION FairSpec
CONSTANTS
    m1 = m1
    m2 = m2
    w1 = w1
    w2 = w2
    Messages = {m1, m2}
    Workers = {w1, w2}
    OwnerOf <- MCOwnerOf
    Unreadable = {m2}
    MaxAttempts = 3
    MaxCrashes = 1
    MaxStalls = 1
INVARIANTS TypeOK OneLeaseHolder OneMailPerMessage
PROPERTIES DeliverySpec EveryMessageSettles
CHECK_DEADLOCK FALSE
