-------------------------- MODULE MCTicketLifecycle --------------------------
(* TicketLifecycle with an administrator's rules and a second CLOSED status,  *)
(* requests overlapping and dying; and, with "seeded", with the statuses and  *)
(* rules an organization starts with, one request after the other, to its     *)
(* end.  Rows do not depend on each other: one ticket is enough.              *)
EXTENDS TicketLifecycle, TLC

MCDef == SystemStatus \cup {"closed_spam"}
MCSys == [d \in MCDef |-> IF d = "closed_spam" THEN "CLOSED" ELSE d]
SeededSys == [d \in SystemStatus |-> d]
MCNamed == [s \in SystemStatus |-> s]
MCNoDef == "none"
MCDefault == "NEW"

AnyFrom(target, prior) ==
    [from |-> {}, target |-> target, prior |-> prior, window |-> FALSE, stop |-> TRUE]

\* The rules the migration and ensureDefaults create.
SeededRules ==
    [g \in Trigger |->
       IF g = "CUSTOMER_REPLIED"
       THEN << [AnyFrom("REOPENED", "any") EXCEPT !.from = Completed],
               AnyFrom("WAITING_ON_TECHNICIAN", "yes") >>
       ELSE IF g = "TECHNICIAN_REPLIED" THEN << AnyFrom("WAITING_ON_CUSTOMER", "any") >>
       ELSE <<>>]

\* An administrator's rules: a reopen window, rules that continue, rules on every
\* trigger, and a rule that closes.
CustomRules ==
    [g \in Trigger |->
       IF g = "CUSTOMER_REPLIED"
       THEN << [AnyFrom("REOPENED", "no") EXCEPT !.window = TRUE, !.stop = FALSE],
               [AnyFrom("OPEN", "any") EXCEPT !.from = {"REOPENED", "NEW"}] >>
       ELSE IF g = "TICKET_ASSIGNED"
       THEN << [AnyFrom("IN_PROGRESS", "any") EXCEPT !.from = {"NEW", "OPEN"}, !.stop = FALSE],
               [AnyFrom("closed_spam", "yes") EXCEPT !.from = {"RESOLVED"}] >>
       ELSE IF g = "MANUAL_REOPEN" THEN << AnyFrom("WAITING_ON_TECHNICIAN", "yes") >>
       ELSE <<>>]

Requests == Permutations(Request)

VARIABLE seeded

Seeded == INSTANCE TicketLifecycle WITH
    Def <- SystemStatus, Sys <- SeededSys, Named <- MCNamed, NoDef <- MCNoDef,
    DefaultDef <- MCDefault, Rules <- SeededRules, ByStatus <- TRUE, Mortal <- {}

LifecycleInit == Init /\ seeded \in BOOLEAN
LifecycleNext ==
    /\ UNCHANGED seeded
    /\ \/ ~seeded /\ (Begin \/ Resume \/ \E r \in Request : Abort(r))
       \/ seeded /\ AllIdle /\ Seeded!Begin
       \/ seeded /\ Seeded!Resume
LifecycleSpec == LifecycleInit /\ [][LifecycleNext]_<<vars, seeded>>

\* With the rules an organization starts with, status and definition say the same, and
\* no active ticket has a closing time.
AgreesSeeded == seeded => Seeded!StatusAgrees /\ Seeded!ActiveUnstamped
==============================================================================
