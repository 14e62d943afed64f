\* Two clients of different speed and a subscription that breaks.
CONSTANTS
    c1 = c1
    c2 = c2
    Clients = {c1, c2}
    Capacity = 2
    MaxMessages = 5
    MaxBreaks = 1
SPECIFICATION Spec
SYMMETRY Symmetry
INVARIANTS TypeOK PendingIsNewest OnlyLateMiss
PROPERTIES ImplementsFeed
CHECK_DEADLOCK FALSE
