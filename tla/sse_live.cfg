\* Streams end and events arrive.
CONSTANTS
    c1 = c1
    c2 = c2
    Clients = {c1, c2}
    Capacity = 1
    MaxMessages = 3
    MaxBreaks = 1
SPECIFICATION FairSpec
PROPERTIES NoLeak EventArrives
CHECK_DEADLOCK FALSE
