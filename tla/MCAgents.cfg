SPECIFICATION AgentsSpec
CONSTANTS
    Def <- MCDef
    Sys <- MCSys
    Named <- MCNamed
    NoDef <- MCNoDef
    DefaultDef <- MCDefault
    Rules <- CustomRules
    ByStatus = FALSE
    Ticket = {t1}
    Request = {r1, r2}
    Mortal = {r1, r2}
    RoleEdits = 2
    EditedPermissions <- ViewUsers
    Piece = {p1}
    Suggested = ai
    Completion = hint
    Send = {s1, s2}
    Upload = {f1}
    Hurry = 1
    WebPage <- MCWebPage
    FilterEdits = 1
    Haste = 2
INVARIANT TypeOK
INVARIANT ClosingTimes
INVARIANT AgreesSeeded
INVARIANT AccessSafe
INVARIANT ComposerKeeps
INVARIANT ComposerSends
INVARIANT PageShows
INVARIANT PageActs
CHECK_DEADLOCK FALSE
SYMMETRY AgentSymmetry
