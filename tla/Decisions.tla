------------------------------ MODULE Decisions ------------------------------
(***************************************************************************)
(* Decisions of projects (projects.service.ts): how they are opened and    *)
(* closed, and runDecisionAutomationSafely, which at start-up and every 15 *)
(* minutes alerts the people in charge of decisions that need attention    *)
(* and sends them a digest of the day.  Nothing keeps two runs from        *)
(* overlapping: what keeps people from being told twice is the unique key  *)
(* of the alert, written before the notification.                          *)
(*                                                                         *)
(* A status is open or closed (RESOLVED or CANCELLED); a project is over   *)
(* when it is COMPLETED or CANCELLED.  Decisions are taken in any order,   *)
(* and the settings and users a run reads one after the other at once.     *)
(***************************************************************************)
EXTENDS Requests

CONSTANTS Project, Decision, Person,     \* ids
          Manager,                       \* request slots
          Scanner,                       \* runs of the timer
          MaxDay, MaxFaults              \* bounds

VARIABLES
    project,        \* projects: over, healthy, owner; Absent when deleted
    decision,       \* project_decisions
    active,         \* users that are active
    escalation,     \* system_settings.operationsDecisionEscalationUserIds
    day, late,      \* today, and whether the time of the digest has come
    noted,          \* project_decision_alerts and project_decision_digests
    told,           \* how often notifyUser was to tell each of them
    faults,
    scan,           \* runs in progress
    plan            \* requests in progress

boardVars == <<project, decision, active, escalation>>
alertVars == <<day, late, noted, told, faults, scan>>
decisionVars == <<boardVars, alertVars, plan>>

Nobody == "nobody"
Owner == Person \cup {Nobody}
ProjectRow == [over : BOOLEAN, healthy : BOOLEAN, owner : Owner]
DecisionRow == [of : Project, open : BOOLEAN, owner : Owner, overdue : BOOLEAN,
                note : BOOLEAN, resolved : BOOLEAN]

Reason == {"unassigned", "overdue", "atRisk", "daily"}
Key == [about : Decision \cup {"digest"}, reason : Reason, person : Person, day : Nat]

Found == [about : Decision, who : Owner, reasons : SUBSET Reason]
Run == [op : {"idle"}]
         \cup [op : {"found"}, found : SUBSET Found, day : Nat]
         \cup [op : {"record"}, part : {"alerts", "digest"}, due : SUBSET Key]
         \cup [op : {"tell"}, part : {"alerts", "digest"}, due : SUBSET Key, key : Key]

DecisionsTypeOK ==
    /\ project \in [Project -> ProjectRow \cup {Absent}]
    /\ decision \in [Decision -> DecisionRow \cup {Absent}]
    /\ active \subseteq Person /\ escalation \subseteq Person
    /\ day \in Nat /\ late \in BOOLEAN /\ faults \in Nat
    /\ scan \in [Scanner -> Run]

DecisionsInit ==
    /\ project = [j \in Project |-> Absent]
    /\ decision = [d \in Decision |-> Absent]
    /\ active = Person /\ escalation = {}
    /\ day = 1 /\ late = FALSE
    /\ noted = {} /\ told = <<>> /\ faults = 0
    /\ scan = [p \in Scanner |-> Idle]
    /\ plan = [m \in Manager |-> Idle]

\* Open decisions of a project that goes on: without an owner, or of a project at risk.
DecisionsOpen ==
    /\ \E j \in Project, who \in Owner :
          /\ project = [i \in Project |->
                          IF i = j THEN [over |-> FALSE, healthy |-> who = Nobody, owner |-> who] ELSE Absent]
          /\ decision = [d \in Decision |->
                            [of |-> j, open |-> TRUE, owner |-> who, overdue |-> FALSE,
                             note |-> FALSE, resolved |-> FALSE]]
    /\ active = Person /\ escalation = {}
    /\ day = 1 /\ late = FALSE
    /\ noted = {} /\ told = <<>> /\ faults = 0
    /\ scan = [p \in Scanner |-> Idle]
    /\ plan = [m \in Manager |-> Idle]

Plans(m, q) == plan' = [plan EXCEPT ![m] = q]
Scans(p, q) == scan' = [scan EXCEPT ![p] = q]

(***************************************************************************)
(* Projects, people and settings.                                          *)
(***************************************************************************)

\* An id that no decision names.
Fresh(j) == project[j] = Absent /\ \A d \in Present(decision) : decision[d].of # j

\* create.
CreateProject(j, over, healthy, owner) ==
    /\ Fresh(j) /\ owner \in active \cup {Nobody}
    /\ project' = [project EXCEPT ![j] = [over |-> over, healthy |-> healthy, owner |-> owner]]
    /\ UNCHANGED <<decision, active, escalation, alertVars, plan>>

\* The row of a new decision.
Opened(j, owner) == [of |-> j, open |-> TRUE, owner |-> owner, overdue |-> FALSE,
                     note |-> FALSE, resolved |-> FALSE]

\* applyTemplate: one transaction, with the decisions of the template, some of them
\* assigned to the owner.
ApplyTemplate(j, over, healthy, owner, made, assigned) ==
    /\ Fresh(j) /\ owner \in active \cup {Nobody}
    /\ made # {} /\ \A d \in made : decision[d] = Absent
    /\ project' = [project EXCEPT ![j] = [over |-> over, healthy |-> healthy, owner |-> owner]]
    /\ decision' = [d \in Decision |-> IF d \in made
                                       THEN Opened(j, IF d \in assigned THEN owner ELSE Nobody)
                                       ELSE decision[d]]
    /\ UNCHANGED <<active, escalation, alertVars, plan>>

\* update; "keep" is the owner left out.
UpdateProject(j, over, healthy, owner) ==
    /\ project[j] # Absent /\ owner \in active \cup {Nobody, "keep"}
    /\ project' = [project EXCEPT ![j] = [over |-> over, healthy |-> healthy,
                                          owner |-> IF owner = "keep" THEN project[j].owner ELSE owner]]
    /\ UNCHANGED <<decision, active, escalation, alertVars, plan>>

\* remove: its decisions stay.
RemoveProject(j) ==
    /\ project[j] # Absent
    /\ project' = [project EXCEPT ![j] = Absent]
    /\ UNCHANGED <<decision, active, escalation, alertVars, plan>>

\* updateOperations: the recipients are active users then (resolveOperationsEscalationUserIds).
ChooseRecipients(people) ==
    /\ people \subseteq active
    /\ escalation' = people
    /\ UNCHANGED <<project, decision, active, alertVars, plan>>

Deactivate(u) ==
    /\ active' = active \ {u}
    /\ UNCHANGED <<project, decision, escalation, alertVars, plan>>

(***************************************************************************)
(* Decisions.                                                              *)
(***************************************************************************)

\* createDecision: after ensureProject, resolveAssignableUserId and the refusal of a
\* closed one.
AskDecision(m, j, owner) ==
    /\ plan[m] = Idle /\ project[j] # Absent /\ owner \in active \cup {Nobody}
    /\ Plans(m, [op |-> "create", of |-> j, owner |-> owner])
    /\ UNCHANGED <<boardVars, alertVars>>

InsertDecision(m, d) ==
    /\ plan[m].op = "create" /\ decision[d] = Absent
    /\ decision' = [decision EXCEPT ![d] = Opened(plan[m].of, plan[m].owner)]
    /\ Plans(m, Idle)
    /\ UNCHANGED <<project, active, escalation, alertVars>>

\* Mutant: the note asked for only when the request brings one.
EditDecisionUnasked(m, d, status, note, owner) ==
    /\ plan[m] = Idle /\ decision[d] # Absent /\ project[decision[d].of] # Absent
    /\ owner \in active \cup {Nobody, "keep"}
    /\ status = "closed" => note # "blank"
    /\ Plans(m, [op |-> "edit", decision |-> d, status |-> status, note |-> note, owner |-> owner])
    /\ UNCHANGED <<boardVars, alertVars>>

\* updateDecision up to its write; "keep" is a field left out.  The note asked for is
\* the one sent, or the one there: a note sent as null passes, and is then cleared.
EditDecision(m, d, status, note, owner) ==
    /\ plan[m] = Idle /\ decision[d] # Absent /\ project[decision[d].of] # Absent
    /\ owner \in active \cup {Nobody, "keep"}
    /\ status = "closed" => note = "text" \/ (note \in {"keep", "null"} /\ decision[d].note)
    /\ Plans(m, [op |-> "edit", decision |-> d, status |-> status, note |-> note, owner |-> owner])
    /\ UNCHANGED <<boardVars, alertVars>>

\* Mutant: a reopened decision keeps the time it was resolved.
CommitKeepingStamp(m) ==
    /\ plan[m].op = "edit"
    /\ LET q == plan[m]
           old == decision[q.decision] IN
       decision' = [decision EXCEPT ![q.decision] =
                      [old EXCEPT !.open = IF q.status = "keep" THEN @ ELSE q.status = "open",
                                  !.resolved = @ \/ q.status = "closed",
                                  !.note = IF q.note = "keep" THEN @ ELSE q.note = "text",
                                  !.owner = IF q.owner = "keep" THEN @ ELSE q.owner]]
    /\ Plans(m, Idle)
    /\ UNCHANGED <<project, active, escalation, alertVars>>

CommitDecision(m) ==
    /\ plan[m].op = "edit"
    /\ LET q == plan[m]
           old == decision[q.decision] IN
       decision' = [decision EXCEPT ![q.decision] =
                      [old EXCEPT !.open = IF q.status = "keep" THEN @ ELSE q.status = "open",
                                  !.resolved = IF q.status = "keep" THEN @ ELSE q.status = "closed",
                                  !.note = IF q.note = "keep" THEN @ ELSE q.note = "text",
                                  !.owner = IF q.owner = "keep" THEN @ ELSE q.owner]]
    /\ Plans(m, Idle)
    /\ UNCHANGED <<project, active, escalation, alertVars>>

\* Its due date passes.
Overrun(d) ==
    /\ decision[d] # Absent
    /\ decision' = [decision EXCEPT ![d].overdue = TRUE]
    /\ UNCHANGED <<project, active, escalation, alertVars, plan>>

(***************************************************************************)
(* The alerts.                                                             *)
(***************************************************************************)

\* What findMany of a scan returns.
Watched ==
    {d \in Present(decision) : /\ decision[d].open /\ project[decision[d].of] # Absent
                               /\ ~project[decision[d].of].over}

ReasonsOf(d) ==
    {r \in {"unassigned", "overdue", "atRisk"} :
       \/ r = "unassigned" /\ decision[d].owner = Nobody
       \/ r = "overdue" /\ decision[d].overdue
       \/ r = "atRisk" /\ ~project[decision[d].of].healthy}

\* runDecisionAlertScan begins: decisions with the person to alert, and the day.
StartScan(p) ==
    /\ scan[p] = Idle
    /\ Scans(p, [op |-> "found", day |-> day,
                 found |-> {[about |-> d, reasons |-> ReasonsOf(d),
                             who |-> IF decision[d].owner # Nobody THEN decision[d].owner
                                     ELSE project[decision[d].of].owner] : d \in Watched}])
    /\ UNCHANGED <<boardVars, day, late, noted, told, faults, plan>>

\* getEscalationRecipientIds, for the first decision of the organization.
Recipients == escalation \cap active

ReadRecipients(p) ==
    /\ scan[p].op = "found"
    /\ LET q == scan[p] IN
       Scans(p, [op |-> "record", part |-> "alerts",
                 due |-> {k \in [about : {f.about : f \in q.found}, reason : Reason, person : Person,
                                 day : {q.day}] :
                            \E f \in q.found : /\ k.about = f.about /\ k.reason \in f.reasons
                                               /\ k.person \in Recipients \cup {f.who}}])
    /\ UNCHANGED <<boardVars, day, late, noted, told, faults, plan>>

\* Mutant: the notification before its record.
NoteAfter(p, k) ==
    /\ scan[p].op = "record" /\ k \in scan[p].due
    /\ LET q == scan[p] IN
       Scans(p, IF k \in noted THEN [q EXCEPT !.due = @ \ {k}]
                ELSE [op |-> "tell", part |-> q.part, due |-> q.due \ {k}, key |-> k])
    /\ UNCHANGED <<boardVars, day, late, noted, told, faults, plan>>

\* The insert: a row with this key makes it fail, and the person is passed over.
Note(p, k) ==
    /\ scan[p].op = "record" /\ k \in scan[p].due
    /\ noted' = noted \cup {k}
    /\ LET q == scan[p] IN
       Scans(p, IF k \in noted THEN [q EXCEPT !.due = @ \ {k}]
                ELSE [op |-> "tell", part |-> q.part, due |-> q.due \ {k}, key |-> k])
    /\ UNCHANGED <<boardVars, day, late, told, faults, plan>>

\* It fails for another reason: a warning, and on with the next.
NoteFails(p, k) ==
    /\ scan[p].op = "record" /\ k \in scan[p].due /\ faults < MaxFaults
    /\ faults' = faults + 1
    /\ Scans(p, [scan[p] EXCEPT !.due = @ \ {k}])
    /\ UNCHANGED <<boardVars, day, late, noted, told, plan>>

Tally(k) == IF k \in DOMAIN told THEN told[k] ELSE 0

\* notifyUser: nothing for somebody no longer active.
Tell(p) ==
    /\ scan[p].op = "tell"
    /\ LET q == scan[p] IN
       /\ told' = IF q.key.person \notin active THEN told
                  ELSE [k \in DOMAIN told \cup {q.key} |->
                          IF k = q.key THEN Tally(k) + 1 ELSE told[k]]
       /\ Scans(p, [op |-> "record", part |-> q.part, due |-> q.due])
    /\ UNCHANGED <<boardVars, day, late, noted, faults, plan>>

\* runDecisionDigestScan begins, after the alerts: who is to have the digest of today.
DigestDue ==
    IF late /\ \E d \in Watched : ReasonsOf(d) # {}
    THEN [about : {"digest"}, reason : {"daily"}, person : Recipients, day : {day}] ELSE {}

NextPart(p) ==
    /\ scan[p].op = "record" /\ scan[p].due = {}
    /\ Scans(p, IF scan[p].part = "alerts" /\ DigestDue # {}
                THEN [op |-> "record", part |-> "digest", due |-> DigestDue] ELSE Idle)
    /\ UNCHANGED <<boardVars, day, late, noted, told, faults, plan>>

\* An awaited call throws (runDecisionAutomationSafely gives up), or the process dies:
\* what was recorded but not told stays so.
ScanLost(p) ==
    /\ scan[p] # Idle /\ faults < MaxFaults
    /\ faults' = faults + 1
    /\ Scans(p, Idle)
    /\ UNCHANGED <<boardVars, day, late, noted, told, plan>>

DigestTime ==
    /\ ~late /\ late' = TRUE
    /\ UNCHANGED <<boardVars, day, noted, told, faults, scan, plan>>
Midnight ==
    /\ day < MaxDay /\ day' = day + 1 /\ late' = FALSE
    /\ UNCHANGED <<boardVars, noted, told, faults, scan, plan>>

ScansBegin == \E p \in Scanner : StartScan(p)
ScansResume ==
    \E p \in Scanner :
       \/ ReadRecipients(p) \/ Tell(p) \/ NextPart(p) \/ ScanLost(p)
       \/ scan[p].op = "record" /\ \E k \in scan[p].due : Note(p, k) \/ NoteFails(p, k)

ProjectsChange ==
    \/ \E j \in Project : RemoveProject(j)
    \/ \E j \in Project, over, healthy \in BOOLEAN, who \in Owner \cup {"keep"} :
          UpdateProject(j, over, healthy, who) \/ CreateProject(j, over, healthy, who)
    \/ \E j \in Project, over, healthy \in BOOLEAN, who \in Owner, made \in SUBSET Decision :
          \E assigned \in SUBSET made : ApplyTemplate(j, over, healthy, who, made, assigned)
    \/ \E d \in Decision : Overrun(d)
BoardBegin ==
    \/ \E m \in Manager, j \in Project, who \in Owner : AskDecision(m, j, who)
    \/ \E m \in Manager, d \in Decision, status \in {"keep", "open", "closed"},
          note \in {"keep", "text", "blank", "null"}, who \in Owner \cup {"keep"} :
             EditDecision(m, d, status, note, who)
BoardResume ==
    \E m \in Manager : CommitDecision(m) \/ \E d \in Decision : InsertDecision(m, d)
People ==
    \/ \E people \in SUBSET Person : ChooseRecipients(people)
    \/ \E u \in Person : Deactivate(u)
Calendar == DigestTime \/ Midnight

DecisionsNext ==
    ProjectsChange \/ BoardBegin \/ BoardResume \/ People \/ Calendar \/ ScansBegin \/ ScansResume

DecisionsSpec == DecisionsInit /\ [][DecisionsNext]_decisionVars

(***************************************************************************)
(* Properties.                                                             *)
(***************************************************************************)

\* However runs overlap, fail or restart: nobody is told twice a day of one reason why a
\* decision needs attention, nor gets two digests a day.
ToldOnce == \A k \in DOMAIN told : told[k] = 1

\* Requests that overlap: a decision is closed exactly when it has the time it was.
ResolvedWhenClosed == \A d \in Present(decision) : decision[d].resolved = ~decision[d].open

\* One request after the other: a request that does not send the note as null closes a
\* decision only with a note.
ClosesNoted ==
    \A m \in Manager : plan[m].op = "edit" /\ plan[m].status = "closed" /\ plan[m].note # "null"
                          /\ plan'[m] = Idle => decision'[plan[m].decision].note

\* The timer goes on: who is to be alerted of a decision without owner, and stays so, has
\* the alert of the last day recorded in the end.
AlertsReach ==
    \A d \in Decision, u \in Person :
       <>[](/\ d \in Watched /\ decision[d].owner = Nobody /\ u \in Recipients /\ day = MaxDay)
          => <>([about |-> d, reason |-> "unassigned", person |-> u, day |-> MaxDay] \in noted)
==============================================================================
