\* Requests overlap while a customer changes tables.
CONSTANTS
    r1 = r1
    r2 = r2
    r3 = r3
    r4 = r4
    t1 = t1
    t2 = t2
    m1 = m1
    m2 = m2
    p1 = p1
    p2 = p2
    Requests = {r1, r2, r3, r4}
    Tokens = {t1, t2}
    Tables = {m1, m2}
    Products = {p1, p2}
    Prices = {1}
    Quantities = {1, 2}
    MaxChanges = 0
    MaxFaults = 1
SPECIFICATION Spec
SYMMETRY Symmetry
INVARIANTS TypeOK CartAddsUp NothingLost
PROPERTY TokenKeepsTable
CHECK_DEADLOCK FALSE
