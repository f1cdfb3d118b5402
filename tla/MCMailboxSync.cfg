SPECIFICATION MailboxSpec
CONSTANTS
    Slot = {s1, s2}
    fileMail = fileMail
    plainMail = plainMail
    eventMail = eventMail
    spamMail = spamMail
    Mail = {fileMail, plainMail, eventMail, spamMail}
    EventMail = {}
    SpamMail = {}
    Attached = {fileMail, plainMail}
    Flagged = {}
    Refused = {plainMail}
    Stuck = {}
    Kinds = {"manual", "backfill"}
    NoCursor = NoCursor
    HoursEnabled = FALSE
    PageMax = 1
    History = 1
    MaxInbox = 1
    MaxFaults = 1
SYMMETRY Slots
INVARIANT TypeOK
INVARIANT NothingSkippedBySyncs
INVARIANT DoneMeansStored
INVARIANT AutoSyncAlone
INVARIANT FilesOnceByTimer
PROPERTY RecordsAtMostOnceByTimer
