\* Progress through one failure or crash.
CONSTANTS
    r1 = r1
    r2 = r2
    t1 = t1
    k1 = k1
    c1 = c1
    c2 = c2
    w1 = w1
    NoRequest = NoRequest
    Requests = {r1, r2}
    Tokens = {t1}
    Keys = {k1}
    Carts = {c1, c2}
    Workers = {w1}
    Copies = 1
    Noise = {"unsupported"}
    MaxFaults = 1
    Stalls = FALSE
SPECIFICATION PaymentLiveSpec
PROPERTIES ChargedGetsPaid PaidGetsAnnounced KeyFreed
CHECK_DEADLOCK FALSE
