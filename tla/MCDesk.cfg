SPECIFICATION DeskSpec
CONSTANTS
    Status = {"new", "merged", "custom"}
    Seeded = {"new", "merged"}
    Protected = {"new", "merged"}
    FirstDefault = "new"
    Behaviour <- MCBehaviour
    Rule = {"k1"}
    From <- MCFrom
    SeedRule <- MCSeedRule
    Admin = {r1, r2}
    Client = {n1, n2}
    Mail = {i1, i2}
    Clerk = {r1, r2}
    Template = {t1, t2}
    Customer = {c1}
    Inbox = {x1}
    Thread = {h1}
    Writer = {w1}
    MaxAnswers = 2
    User = {u1, u2}
    Team = {g1}
    Routing = {"k1"}
    Condition = {"c1", "c2"}
    Met = {"c1"}
    Form <- MCForm
    Movable = {u2}
    Agent = {r1, r2}
SYMMETRY Slots
CHECK_DEADLOCK FALSE
PROPERTY CatalogueSafe
PROPERTY ClientsSafe
INVARIANT RepliesSafe
PROPERTY AssignmentSafe
