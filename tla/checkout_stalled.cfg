\* A handler may outlast its record and its session; two failures or crashes.
CONSTANTS
    r1 = r1
    r2 = r2
    r3 = r3
    t1 = t1
    t2 = t2
    k1 = k1
    c1 = c1
    c2 = c2
    NoRequest = NoRequest
    Requests = {r1, r2, r3}
    Tokens = {t1, t2}
    Keys = {k1}
    Carts = {c1, c2}
    Copies = 1
    Noise = {}
    MaxFaults = 2
    Stalls = TRUE
SPECIFICATION Spec
SYMMETRY Symmetry
INVARIANTS UrlMatchesRequest OnePagePerKey CompletedRecordBacked
CHECK_DEADLOCK FALSE
