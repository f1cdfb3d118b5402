SPECIFICATION ClientsSpec
CONSTANTS
    Client = {n1}
    Mail = {i1, i2}
    Clerk = {r1}
CHECK_DEADLOCK FALSE
INVARIANT MailsAccepted
