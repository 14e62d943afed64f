\* Handlers may outlast their records and sessions; one failure or crash.
CONSTANTS
    r1 = r1
    r2 = r2
    t1 = t1
    k1 = k1
    c1 = c1
    w1 = w1
    w2 = w2
    NoRequest = NoRequest
    Requests = {r1, r2}
    Tokens = {t1}
    Keys = {k1}
    Carts = {c1}
    Workers = {w1, w2}
    Copies = 2
    Noise = {}
    MaxFaults = 1
    Stalls = TRUE
SPECIFICATION PaymentSpec
SYMMETRY Symmetry
INVARIANTS PaymentTypeOK PaidTogether ChargedNotFailed PaidAnnouncedOnce
PROPERTIES PaidIsFinal ImplementsPayOnce ImplementsOrderLife
CHECK_DEADLOCK FALSE
