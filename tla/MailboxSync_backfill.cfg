SPECIFICATION Spec
CONSTANTS
    Slot = {s1}
    Mail = {m, n}
    EventMail = {}
    SpamMail = {}
    Attached = {}
    Flagged = {}
    Refused = {}
    Stuck = {}
    Kinds = {"auto", "backfill"}
    NoCursor = NoCursor
    HoursEnabled = FALSE
    PageMax = 1
    History = 2
    MaxInbox = 2
    MaxFaults = 0
INVARIANT NothingSkipped
