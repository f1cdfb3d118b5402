SPECIFICATION MergeSpec
CONSTANTS
    Ticket = {t1, t2, t3}
    Email = {e1}
    Reply = {m1}
    Request = {r1, r2}
    MergeSlot = {r1}
    MaxDeleted = 2
    None = None
SYMMETRY Symmetry
CHECK_DEADLOCK FALSE
PROPERTY RepliesBlocked
