\* Is any well signed event answered 400?
CONSTANTS
    r1 = r1
    r2 = r2
    t1 = t1
    k1 = k1
    c1 = c1
    w1 = w1
    NoRequest = NoRequest
    Requests = {r1, r2}
    Tokens = {t1}
    Keys = {k1}
    Carts = {c1}
    Workers = {w1}
    Copies = 1
    Noise = {}
    MaxFaults = 1
    Stalls = FALSE
SPECIFICATION PaymentSpec
INVARIANT ResponsePolicy
CHECK_DEADLOCK FALSE
