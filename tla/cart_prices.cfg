\* Adds and checkouts overlap while the shop changes a product.
CONSTANTS
    r1 = r1
    r2 = r2
    r3 = r3
    r4 = r4
    t1 = t1
    t2 = t2
    m1 = m1
    m2 = m2
    p1 = p1
    p2 = p2
    Requests = {r1, r2, r3, r4}
    Tokens = {t1}
    Tables = {m1}
    Products = {p1, p2}
    Prices = {1, 2}
    Quantities = {1}
    MaxChanges = 1
    MaxFaults = 0
SPECIFICATION Spec
SYMMETRY Symmetry
CONSTRAINT AboutPrices
INVARIANTS PriceWasReal BillOfOneMoment BillIsSubtotal
CHECK_DEADLOCK FALSE
