\* Two accounts and addresses: races for an address, and mails that go out.
CONSTANTS
    r1 = r1
    r2 = r2
    r3 = r3
    u1 = u1
    u2 = u2
    e1 = e1
    e2 = e2
    c1 = c1
    NoRequest = NoRequest
    Requests = {r1, r2}
    Users = {u1, u2}
    Emails = {e1, e2}
    Clients = {c1}
    MaxOpen = 2
    MaxFaults = 1
SPECIFICATION FairSpec
INVARIANT TypeOK
PROPERTY MailSettled
CHECK_DEADLOCK FALSE
