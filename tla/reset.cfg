\* Password resets of one account, its address changing, one failure or crash.
CONSTANTS
    r1 = r1
    r2 = r2
    r3 = r3
    u1 = u1
    e1 = e1
    e2 = e2
    c1 = c1
    NoRequest = NoRequest
    Requests = {r1, r2, r3}
    Users = {u1}
    Emails = {e1, e2}
    Clients = {c1}
    MaxOpen = 2
    MaxFaults = 1
SPECIFICATION Spec
SYMMETRY Symmetry
INVARIANTS ChangeBacked CodeSpent NewestMailWorks
PROPERTIES CodeAtAddress ImplementsOutbox ImplementsRecovery
CHECK_DEADLOCK FALSE
