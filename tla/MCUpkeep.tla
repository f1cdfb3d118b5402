------------------------------ MODULE MCUpkeep -------------------------------
(***************************************************************************)
(* Devices, reports and projects, each on small sets.  A behaviour         *)
(* exercises one part of them, "focus"; with "alone" one request or run    *)
(* ends before the next begins and none dies.                              *)
(***************************************************************************)
EXTENDS Devices, Reports, Dependencies, Decisions, TLC

VARIABLES focus, alone

projectVars == <<dependencyVars, decisionVars>>
upkeepVars == <<deviceVars, reportVars, projectVars, focus, alone>>

Interchangeable ==
    Permutations(Device) \cup Permutations(Id) \cup Permutations(Customer)

\* Tickets are interchangeable: a new one is any that is not there.
TicketsComeAndGo ==
    \/ \E t \in Ticket : Delete(t)
    \/ Live # Ticket /\ \E at \in Instant : Create(CHOOSE t \in Ticket : t \notin Live, at)
    \/ \E asked \in 1 .. (Cap + 1) : ShowPage(asked)

UpkeepInit ==
    /\ focus \in {"devices", "schedules", "pages", "links", "board", "alerts"} /\ alone \in BOOLEAN
    /\ focus \in {"devices", "pages", "links", "alerts"} => alone
    /\ DevicesInit /\ ReportsInit /\ DependenciesInit
    /\ IF focus = "alerts" \/ (focus = "board" /\ ~alone) THEN DecisionsOpen ELSE DecisionsInit

DevicesTurn ==
    /\ focus = "devices" /\ UNCHANGED <<reportVars, projectVars, focus, alone>>
    /\ \/ Lone(sync) /\ (DevicesBegin \/ DevicesWorld \/ Crash)
       \/ DevicesResume
ReportsTurn ==
    /\ UNCHANGED <<deviceVars, projectVars, focus, alone>>
    /\ \/ focus = "schedules" /\ (alone => Lone(runs) /\ Lone(edit)) /\ ReportsBegin
       \/ focus = "schedules" /\ ~alone /\ \E p \in Runner : RunLost(p)
       \/ focus = "schedules" /\ ReportsResume
       \/ focus = "pages" /\ TicketsComeAndGo
LinksTurn ==
    /\ focus = "links" /\ DependenciesNext
    /\ UNCHANGED <<deviceVars, reportVars, decisionVars, focus, alone>>
DecisionsTurn ==
    /\ UNCHANGED <<deviceVars, reportVars, dependencyVars, focus, alone>>
    /\ \/ focus = "board" /\ (alone => Lone(plan)) /\ BoardBegin
       \/ focus = "board" /\ alone /\ Lone(plan) /\ ProjectsChange
       \/ focus = "board" /\ BoardResume
       \/ focus = "alerts" /\ (People \/ Calendar \/ ScansBegin \/ ScansResume)

UpkeepNext == DevicesTurn \/ ReportsTurn \/ LinksTurn \/ DecisionsTurn

UpkeepSpec == UpkeepInit /\ [][UpkeepNext]_upkeepVars

\* With one request at a time an agent is one device; no sync forgets what is known of a
\* device.
DevicesSafe == [](DevicesTypeOK /\ (alone => OneDevicePerAgent)) /\ DetailsKept
\* An active schedule has a next date; one run after the other mails a report once.
SchedulesSafe == ReportsTypeOK /\ ActiveHasNext /\ (alone => MailedOnce)
\* A reader of all pages misses only what a deletion shifted; a chart is in order of time.
ReportsRead == ReaderMissesFew /\ ActivityInOrder

\* Of a decision: it has the time of its closing exactly while it is closed, and with one
\* request at a time is closed with a note.
BoardSafe ==
    /\ [](DecisionsTypeOK /\ DependenciesTypeOK /\ ResolvedWhenClosed)
    /\ [][alone => ClosesNoted]_upkeepVars
==============================================================================
