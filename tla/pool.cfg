\* More requests than connections, two events about the same order.
CONSTANTS
    r1 = r1
    r2 = r2
    r3 = r3
    r4 = r4
    o1 = o1
    o2 = o2
    Requests = {r1, r2, r3, r4}
    Orders = {o1}
    Copies = 2
    Size = 2
SPECIFICATION FairSpec
INVARIANTS SomebodyRuns OneEach
PROPERTY Served
CHECK_DEADLOCK FALSE
