\* Two requests, two webhook workers, duplicated events, one failure.
CONSTANTS
    r1 = r1
    r2 = r2
    t1 = t1
    k1 = k1
    c1 = c1
    w1 = w1
    w2 = w2
    NoRequest = NoRequest
    Requests = {r1, r2}
    Tokens = {t1}
    Keys = {k1}
    Carts = {c1}
    Workers = {w1, w2}
    Copies = 2
    Noise = {"foreign"}
    MaxFaults = 1
    Stalls = FALSE
SPECIFICATION PaymentSpec
SYMMETRY Symmetry
INVARIANTS SingleFlight OneOutcomePerOrder FailedTogether
CHECK_DEADLOCK FALSE
