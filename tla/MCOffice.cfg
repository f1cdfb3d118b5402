SPECIFICATION OfficeSpec
CONSTANTS
    Visitor = {r1, r2}
    Code = {c1}
    Sign = {m1}
    Session = {s1}
    MaxPassword = 1
    MaxEnrolment = 1
    User = {u1, u2}
    Founder = u1
    Group = {g1, g2}
    Role = {k1, k2}
    Permission = {"manage"}
    View = {v1, v2}
    Clerk = {r1, r2}
    Attachment = {a1, a2}
    Keeper = {r1, r2}
    Evt = {e1}
    Task = {t1}
    Note = {n1, n2}
    File = {f1}
    Crew = {u1}
    Outside = {x1}
    Planner = {r1, r2}
    MaxEntries = 1
SYMMETRY Slots
CHECK_DEADLOCK FALSE
PROPERTY SignInsOnce
INVARIANT AccountsSafe
INVARIANT DirectorySafe
INVARIANT AttachmentsSafe
PROPERTY EventsSafe
