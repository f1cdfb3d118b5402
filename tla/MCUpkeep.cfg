SPECIFICATION UpkeepSpec
CONSTANTS
    Machine = {m1, m2}
    Id = {i1, i2, i3}
    Customer = {n1, n2}
    Device = {d1, d2, d3}
    Operator = {r1}
    MaxCrashes = 0
    Definition = {f1}
    Schedule = {n1, n2}
    Ticket = {t1, t2, t3, t4, t5}
    Editor = {e1}
    Runner = {n1, n2}
    MaxTaken = 1
    Cap = 4
    PageSize = 2
    Instant = {13, 140}
    FirstDay = 3
    GroupBy = {"day", "week", "month"}
    Endeavour = {d1, d2, d3, j1}
    Planner = {h1}
    Project = {j1}
    Decision = {c1}
    Person = {u1}
    Manager = {n1, n2}
    Scanner = {n1, n2}
    MaxDay = 2
    MaxFaults = 1
SYMMETRY Interchangeable
CHECK_DEADLOCK FALSE
PROPERTY DevicesSafe
INVARIANT SchedulesSafe
INVARIANT ReportsRead
INVARIANT Acyclic
INVARIANT ToldOnce
PROPERTY BoardSafe
