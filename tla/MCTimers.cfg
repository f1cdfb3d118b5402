SPECIFICATION TimersSpec
CONSTANTS
    fileMail = fileMail
    plainMail = plainMail
    NoCursor = NoCursor
    Attachment = {a1}
    Keeper = {r1}
    Machine = {m1}
    Id = {i1}
    Customer = {n1}
    Device = {d1}
    Operator = {}
    MaxCrashes = 1
    Definition = {f1}
    Schedule = {s1, s2}
    Ticket = {}
    Editor = {e1}
    Runner = {p1, p2}
    MaxTaken = 1
    Cap = 4
    PageSize = 2
    Instant = {0}
    FirstDay = 3
    GroupBy = {"day"}
CHECK_DEADLOCK FALSE
PROPERTY MailInTime
PROPERTY BinEmptiedInTime
PROPERTY RunsInTime
