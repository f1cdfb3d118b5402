----------------------------- MODULE Assignment ------------------------------
(***************************************************************************)
(* The people of one ticket: its first assignee, team, assignees and       *)
(* watchers (updateAssignment, bulkUpdate and updateWatchers of            *)
(* tickets.service.ts), the routing rules (ticket-routing*.service.ts) and *)
(* who is notified (notifications.service.ts).                             *)
(*                                                                         *)
(* A group is told like a team and left out, as are status and priority,   *)
(* which TicketLifecycle has.                                              *)
(***************************************************************************)
EXTENDS Requests

CONSTANTS User, Team, Routing,
          Condition,       \* subject, body, sender, domain, client of a rule
          Met,             \* the conditions this ticket meets
          Form,            \* what a rule may say
          Movable,         \* bound: users whose own rows change, and who are asked for
                           \* as watchers and as members of a team
          Agent            \* request slots

VARIABLES
    active,         \* users: isActive and not deleted
    members,        \* ticket_team_members; a team that is not active has none here
    rule,           \* ticket_routing_rules
    preference,     \* user_notification_preferences
    isOpen,         \* the ticket exists
    lead, crew,     \* its assignedUserId and assignedTeamId
    assignees, watchers,
    told,           \* assignees given notice of it since they became one
    missed,         \* history: assignees whose request failed before it told them
    notices,        \* users with an unread notification
    handling            \* requests in progress

peopleVars == <<active, members, rule, preference>>
ticketVars == <<isOpen, lead, crew, assignees, watchers, told, missed, notices>>
assignmentVars == <<peopleVars, ticketVars, handling>>

NoOne == "none"
Preference == {"none", "default", "subscribed", "off"}
RoutingRow == [rank : Nat, all : BOOLEAN, conds : SUBSET Condition, on : BOOLEAN,
            user : User \cup {NoOne}, team : Team \cup {NoOne}, tell : SUBSET User]

ASSUME FormAssumption == Form \subseteq RoutingRow /\ Movable \subseteq User
ASSUME UserAssumption == NoOne \notin User /\ "keep" \notin User

AssignmentTypeOK ==
    /\ members \in [Team -> SUBSET User]
    /\ rule \in [Routing -> RoutingRow \cup {Absent}]
    /\ preference \in [User -> Preference]
    /\ lead \in User \cup {NoOne} /\ crew \in Team \cup {NoOne}
    /\ assignees \cup watchers \cup told \cup missed \cup notices \subseteq User

AssignmentInit ==
    /\ active = User
    /\ members = [t \in Team |-> User]
    /\ rule = [k \in Routing |-> Absent]
    /\ preference = [u \in User |-> "none"]
    /\ isOpen = FALSE
    /\ lead = NoOne /\ crew = NoOne
    /\ assignees = {} /\ watchers = {} /\ told = {} /\ missed = {} /\ notices = {}
    /\ handling = [r \in Agent |-> Idle]

Does(r, q) == handling' = [handling EXCEPT ![r] = q]
\* To tell "left", those of them in "of" that they were assigned; "then" what comes next,
\* "after" whom to tell after the rules.
Telling(left, of, then) ==
    [op |-> "tell", left |-> left, of |-> of, then |-> then, drop |-> {}, after |-> {}]
AfterRules(left, of) == [Telling(left, of, "end") EXCEPT !.op = "rules"]
InBulk(added, team) == [Telling(added, added, "rules") EXCEPT !.after = team]
\* Whom a request in progress has yet to tell of their assignment.
Owed(q) == IF q.op \in {"rules", "tell"} THEN q.left \cap q.of ELSE {}

(***************************************************************************)
(* Assigning.                                                              *)
(***************************************************************************)

\* validateAssignmentTargets.
Available(users) == users \subseteq active

\* updateAssignment up to validateAssignmentTargets; "first" heads the list, or is given
\* beside an empty one, which leaves it unchecked; "keep" is a field the input leaves out.
UpdateAssignment(r, first, users, team) ==
    /\ handling[r] = Idle /\ isOpen
    /\ Available(users) /\ (first \in users \/ users = {})
    /\ Does(r, [op |-> "assign", lead |-> first, users |-> users, team |-> team, was |-> crew,
                how |-> "update"])
    /\ UNCHANGED <<peopleVars, ticketVars>>

\* bulkUpdate for this ticket: with an empty list the first assignee is the one given
\* beside it or stays; without either field only the team changes.
BulkAssign(r, first, users, team, how) ==
    /\ handling[r] = Idle /\ isOpen
    /\ Available(users) /\ (first \in users \/ (users = {} /\ first # NoOne))
    /\ how = "team" => users = {} /\ first = "keep"
    /\ Does(r, [op |-> "assign", lead |-> first, users |-> users, team |-> team, was |-> NoOne,
                how |-> how])
    /\ UNCHANGED <<peopleVars, ticketVars>>

\* The members of the team a request has brought.
Newcomers(q) == IF q.team \in Team /\ q.team # q.was THEN members[q.team] ELSE {}

WriteAssignment(r) ==
    /\ handling[r].op = "assign"
    /\ LET q == handling[r] IN
       /\ lead' = IF q.lead = "keep" THEN lead ELSE q.lead
       /\ crew' = IF q.team = "keep" THEN crew ELSE q.team
       /\ Does(r, IF q.how = "team" THEN Telling(Newcomers(q), {}, "end") ELSE [q EXCEPT !.op = "read"])
    /\ UNCHANGED <<peopleVars, isOpen, assignees, watchers, told, missed, notices>>

\* syncTicketAssignees: read, delete what is not wanted, insert what was not there.
ReadAssignees(r) ==
    /\ handling[r].op = "read"
    /\ LET q == handling[r] IN
       Does(r, [op |-> "drop", current |-> assignees, users |-> q.users, team |-> q.team,
                was |-> q.was, how |-> q.how])
    /\ UNCHANGED <<peopleVars, ticketVars>>

\* Mutant: everyone but the new ones.
DropOthers(r) ==
    /\ handling[r].op = "drop"
    /\ LET dropped == assignees \ handling[r].users IN
       /\ assignees' = assignees \ dropped
       /\ told' = told \ dropped
       /\ missed' = missed \ dropped
    /\ Does(r, [handling[r] EXCEPT !.op = "add"])
    /\ UNCHANGED <<peopleVars, isOpen, lead, crew, watchers, notices>>

DropAssignees(r) ==
    /\ handling[r].op = "drop"
    /\ LET dropped == handling[r].current \ handling[r].users IN
       /\ assignees' = assignees \ dropped
       /\ told' = told \ dropped
       /\ missed' = missed \ dropped
    /\ Does(r, [handling[r] EXCEPT !.op = "add"])
    /\ UNCHANGED <<peopleVars, isOpen, lead, crew, watchers, notices>>

\* Mutant: with a new team, only the team is told.
AddTellingTeam(r) ==
    /\ handling[r].op = "add"
    /\ LET q == handling[r]
           added == q.users \ q.current
           clash == added \cap assignees # {}
           heard == IF Newcomers(q) = {} THEN added ELSE Newcomers(q)
       IN  /\ assignees' = assignees \cup added
           /\ missed' = IF clash THEN missed \cup (added \ assignees) ELSE missed
           /\ Does(r, IF clash THEN Idle
                      ELSE IF q.users = {} THEN Telling(Newcomers(q), {}, "end")
                      ELSE IF q.how = "bulk" THEN InBulk(added, Newcomers(q))
                      ELSE AfterRules(heard, added))
    /\ UNCHANGED <<peopleVars, isOpen, lead, crew, watchers, told, notices>>

\* Inserting one that another request has inserted meanwhile is an error: nobody is told.
\* updateAssignment lets the rules run before it tells the new ones and then the team, a
\* bulk update after the new ones and before the team.
AddAssignees(r) ==
    /\ handling[r].op = "add"
    /\ LET q == handling[r]
           added == q.users \ q.current
           clash == added \cap assignees # {}
       IN  /\ assignees' = assignees \cup added
           /\ missed' = IF clash THEN missed \cup (added \ assignees) ELSE missed
           /\ Does(r, IF clash THEN Idle
                      ELSE IF q.users = {} THEN Telling(Newcomers(q), {}, "end")
                      ELSE IF q.how = "bulk" THEN InBulk(added, Newcomers(q))
                      ELSE AfterRules(added \cup Newcomers(q), added))
    /\ UNCHANGED <<peopleVars, isOpen, lead, crew, watchers, told, notices>>

\* The workflow rules of TICKET_ASSIGNED; one whose target status is gone throws.
RunRules(r) ==
    /\ handling[r].op = "rules"
    /\ \/ Does(r, [handling[r] EXCEPT !.op = "tell"]) /\ UNCHANGED missed
       \/ Does(r, Idle) /\ missed' = missed \cup (Owed(handling[r]) \cap assignees)
    /\ UNCHANGED <<peopleVars, isOpen, lead, crew, assignees, watchers, told, notices>>

(***************************************************************************)
(* Telling.                                                                *)
(***************************************************************************)

\* notifyUser: makes the preferences when there are none; a user no longer active, or
\* with the channels off, gets nothing.
Notified(users) == {u \in users \cap active : preference[u] # "off"}

\* addWatcherAndNotify and notifyTeamMembers, one of the promises at a time.
Tell(r) ==
    /\ handling[r].op = "tell"
    /\ \E u \in handling[r].left :
          /\ watchers' = watchers \cup {u}
          /\ told' = told \cup ({u} \cap handling[r].of \cap assignees)
          /\ notices' = notices \cup Notified({u})
          /\ preference' = [preference EXCEPT ![u] = IF @ = "none" THEN "default" ELSE @]
          /\ Does(r, [handling[r] EXCEPT !.left = @ \ {u}])
    /\ UNCHANGED <<active, members, rule, isOpen, lead, crew, assignees, missed>>

\* All are told: updateWatchers deletes those it found and were not asked for; a new
\* ticket is announced; a bulk update goes on with the rules and the team.
Told(r) ==
    /\ handling[r].op = "tell" /\ handling[r].left = {}
    /\ watchers' = watchers \ handling[r].drop
    /\ Does(r, CASE handling[r].then = "announce" -> [op |-> "announce"]
                 [] handling[r].then = "rules" -> AfterRules(handling[r].after, {})
                 [] OTHER -> Idle)
    /\ UNCHANGED <<peopleVars, isOpen, lead, crew, assignees, told, missed, notices>>

\* notifyNewTicketCreated asks the preferences that exist.
Announce(r) ==
    /\ handling[r].op = "announce"
    /\ notices' = notices \cup Notified({u \in active : preference[u] = "subscribed"})
    /\ Does(r, Idle)
    /\ UNCHANGED <<peopleVars, isOpen, lead, crew, assignees, watchers, told, missed>>

UpdateWatchers(r, users) ==
    /\ handling[r] = Idle /\ isOpen
    /\ Does(r, [Telling(users \ watchers, {}, "end") EXCEPT !.drop = watchers \ users])
    /\ UNCHANGED <<peopleVars, ticketVars>>

(***************************************************************************)
(* Routing.                                                                *)
(***************************************************************************)

\* matchesRule: a rule without conditions matches nothing.
Fires(k) ==
    /\ rule[k] # Absent /\ rule[k].on /\ rule[k].conds # {}
    /\ IF rule[k].all THEN rule[k].conds \subseteq Met ELSE rule[k].conds \cap Met # {}

\* A ticket is created: by hand, or from a mail, which the rules look at.
Open(r, byMail) ==
    /\ handling[r] = Idle /\ ~isOpen
    /\ isOpen' = TRUE
    /\ Does(r, IF byMail THEN [op |-> "match", fresh |-> TRUE] ELSE [op |-> "announce"])
    /\ UNCHANGED <<peopleVars, lead, crew, assignees, watchers, told, missed, notices>>

\* applyRulesToExistingTickets, for this ticket.
ApplyRules(r) ==
    /\ handling[r] = Idle /\ isOpen
    /\ Does(r, [op |-> "match", fresh |-> FALSE])
    /\ UNCHANGED <<peopleVars, ticketVars>>

\* Whom a rule tells.
Audience(k) ==
    rule[k].tell \cup ({rule[k].user} \ {NoOne})
       \cup (IF rule[k].team = NoOne THEN {} ELSE members[rule[k].team])

\* The first by priority; then the members of its team.
MatchRule(r) ==
    /\ handling[r].op = "match"
    /\ LET fires == {k \in Routing : Fires(k)}
           first == {k \in fires : \A j \in fires : rule[k].rank <= rule[j].rank}
       IN  \/ /\ fires = {}
              /\ Does(r, IF handling[r].fresh THEN [op |-> "announce"] ELSE Idle)
           \/ \E k \in first :
                 Does(r, [op |-> "route", user |-> rule[k].user, team |-> rule[k].team,
                          left |-> Audience(k), fresh |-> handling[r].fresh])
    /\ UNCHANGED <<peopleVars, ticketVars>>

\* Whatever the ticket had; a rule without a user takes the first assignee away.
WriteRoute(r) ==
    /\ handling[r].op = "route"
    /\ lead' = handling[r].user /\ crew' = handling[r].team
    /\ Does(r, [handling[r] EXCEPT !.op = "upsert"])
    /\ UNCHANGED <<peopleVars, isOpen, assignees, watchers, told, missed, notices>>

\* The rule's audience, its user among them.
TellRouted(q) == Telling(q.left, {q.user} \ {NoOne}, IF q.fresh THEN "announce" ELSE "end")

\* Mutant: the ticket's field only.
SkipUpsert(r) ==
    /\ handling[r].op = "upsert"
    /\ Does(r, TellRouted(handling[r]))
    /\ UNCHANGED <<peopleVars, ticketVars>>

\* The assignee is added to those there are.
UpsertAssignee(r) ==
    /\ handling[r].op = "upsert"
    /\ assignees' = assignees \cup ({handling[r].user} \ {NoOne})
    /\ Does(r, TellRouted(handling[r]))
    /\ UNCHANGED <<peopleVars, isOpen, lead, crew, watchers, told, missed, notices>>

CreateRule(k, f) ==
    /\ rule[k] = Absent
    /\ rule' = [rule EXCEPT ![k] = f]
    /\ UNCHANGED <<active, members, preference, ticketVars, handling>>

\* update and delete; a user or team is not validated.
UpdateRule(k, f) ==
    /\ rule[k] # Absent
    /\ rule' = [rule EXCEPT ![k] = f]
    /\ UNCHANGED <<active, members, preference, ticketVars, handling>>

(***************************************************************************)
(* The people themselves.                                                  *)
(***************************************************************************)

SetActive(u, on) ==
    /\ active' = IF on THEN active \cup {u} ELSE active \ {u}
    /\ UNCHANGED <<members, rule, preference, ticketVars, handling>>

\* ticket-teams: validMemberIds drops who is not active.
SetMembers(t, users) ==
    /\ members' = [members EXCEPT ![t] = users \cap active]
    /\ UNCHANGED <<active, rule, preference, ticketVars, handling>>

\* updatePreferences and updateUserPreferences.
SetPreference(u, p) ==
    /\ preference' = [preference EXCEPT ![u] = p]
    /\ UNCHANGED <<active, members, rule, ticketVars, handling>>

\* markRead and markAllRead.
MarkRead(u) ==
    /\ notices' = notices \ {u}
    /\ UNCHANGED <<peopleVars, isOpen, lead, crew, assignees, watchers, told, missed, handling>>

AgentLost(r) ==
    /\ handling[r] # Idle
    /\ missed' = missed \cup (Owed(handling[r]) \cap assignees)
    /\ Does(r, Idle)
    /\ UNCHANGED <<peopleVars, isOpen, lead, crew, assignees, watchers, told, notices>>

TicketBegin ==
    \E r \in Agent :
       \/ \E first \in User \cup {NoOne}, users \in SUBSET User, t \in Team \cup {NoOne, "keep"} :
             UpdateAssignment(r, first, users, t)
       \/ \E first \in User \cup {NoOne, "keep"}, users \in SUBSET User, t \in Team \cup {NoOne, "keep"},
             how \in {"bulk", "team"} : BulkAssign(r, first, users, t, how)
       \/ \E users \in SUBSET Movable : UpdateWatchers(r, users)
       \/ \E byMail \in BOOLEAN : Open(r, byMail)
       \/ ApplyRules(r)

PeopleBegin ==
    \/ \E k \in Routing, f \in Form : CreateRule(k, f)
    \/ \E k \in Routing, f \in Form \cup {Absent} : UpdateRule(k, f)
    \/ \E u \in Movable, on \in BOOLEAN : SetActive(u, on)
    \/ \E t \in Team, users \in SUBSET Movable : SetMembers(t, users)
    \/ \E u \in Movable, p \in {"subscribed", "off"} : SetPreference(u, p)
    \/ \E u \in Movable : MarkRead(u)

AssignmentResume ==
    \E r \in Agent :
       \/ WriteAssignment(r) \/ ReadAssignees(r) \/ DropAssignees(r) \/ AddAssignees(r)
       \/ RunRules(r) \/ Tell(r) \/ Told(r) \/ Announce(r)
       \/ MatchRule(r) \/ WriteRoute(r) \/ UpsertAssignee(r)

(***************************************************************************)
(* Properties.                                                             *)
(***************************************************************************)

\* One request after the other, by hand, in bulk or by a rule, rules failing or not: of a
\* ticket that has assignees, the person it shows as assigned is one of them.  (An empty
\* list beside an assignedUserId leaves that person shown and no assignee.)
LeadIsAssignee == Lone(handling) => assignees = {} \/ lead \in assignees \cup {NoOne}

\* Requests overlapping, dying anywhere: an assignee whom nobody has told of it will be
\* told by a request in progress, or was made one by a request that failed before telling;
\* who is assigned in bulk is told even when the rules fail.
AssigneesTold ==
    assignees \subseteq told \cup missed \cup UNION {Owed(handling[r]) : r \in Agent}

\* Overlapping assignments: a request takes off only who was assigned when it looked and
\* whom it does not name; an assignee added since stays.
DropsWhatItSaw ==
    [][\A u \in assignees \ assignees' :
          \E r \in Agent : /\ handling[r].op = "drop"
                           /\ u \in handling[r].current \ handling[r].users]_assignmentVars
==============================================================================
