SPECIFICATION Spec
CONSTANTS
    Slot = {s1, s2}
    Mail = {m}
    EventMail = {}
    SpamMail = {}
    Attached = {}
    Flagged = {}
    Refused = {}
    Stuck = {}
    Kinds = {"auto", "manual"}
    NoCursor = NoCursor
    HoursEnabled = FALSE
    PageMax = 1
    History = 1
    MaxInbox = 1
    MaxFaults = 0
INVARIANT ImportedOnce
