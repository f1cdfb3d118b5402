----------------------------- MODULE Desk_proofs ------------------------------
(***************************************************************************)
(* What MCDesk checks on small sets, for every set of users, statuses,     *)
(* clients, templates and request slots: that assignments, automatic       *)
(* replies, clients and the status catalogue stay as their modules say.    *)
(*                                                                         *)
(* Each part has an invariant in two halves.  The first holds however the  *)
(* requests overlap: the types, the records that requests in progress      *)
(* hold, and what these may count on because no step takes it back.  The   *)
(* second holds when one request ends before the next begins: there is one *)
(* request in progress at most, and what it has read is still so.          *)
(***************************************************************************)
EXTENDS MCDesk, FiniteSetTheorems, TLAPS

OneAtATime(slots) == \A r, s \in DOMAIN slots : slots[r] # Idle /\ slots[s] # Idle => r = s

(***************************************************************************)
(* Assignment.                                                             *)
(***************************************************************************)

Choice == Team \cup {NoOne, "keep"}
First == User \cup {NoOne, "keep"}
Assigning == [op : {"assign", "read"}, lead : First, users : SUBSET User, team : Choice,
              was : Team \cup {NoOne}, how : {"update", "bulk", "team"}]
Syncing == [op : {"drop", "add"}, current : SUBSET User, users : SUBSET User, team : Choice,
            was : Team \cup {NoOne}, how : {"update", "bulk", "team"}]
Notifying == [op : {"rules", "tell"}, left : SUBSET User, of : SUBSET User, drop : SUBSET User,
              after : SUBSET User, then : {"end", "announce", "rules"}]
Routed == {q \in [op : {"route", "upsert"}, user : User \cup {NoOne}, team : Team \cup {NoOne},
                  left : SUBSET User, fresh : BOOLEAN] : q.user = NoOne \/ q.user \in q.left}
Handling ==
    {Idle} \cup Assigning \cup Syncing \cup Notifying \cup Routed
      \cup [op : {"announce"}] \cup [op : {"match"}, fresh : BOOLEAN]

Staffed == AssignmentTypeOK /\ active \subseteq User /\ handling \in [Agent -> Handling]

\* What a request in progress has already done to the ticket and what is left.
LeadIn(users) == users = {} \/ lead \in users \cup {NoOne}
Pursues(q) ==
    /\ q.op \in {"assign", "announce", "match", "rules", "tell"} => LeadIn(assignees)
    /\ q.op \in {"assign", "read"} => q.users = {} \/ q.lead \in q.users
    /\ q.op = "assign" => q.how # "team" \/ q.lead = "keep"
    /\ q.op \in {"read", "drop", "add"} => q.users = {} \/ lead \in q.users
    /\ q.op = "upsert" => lead = q.user
    /\ q.op = "drop" => q.current = assignees
    /\ q.op = "add" => assignees = q.current \cap q.users

Steady ==
    /\ OneAtATime(handling)
    /\ LeadIsAssignee
    /\ \A r \in Agent : Pursues(handling[r])

AssignmentInv == Staffed /\ AssigneesTold /\ (alone => Steady)

LEMMA StaffTypes ==
  ASSUME Staffed
  PROVE  /\ active \subseteq User /\ members \in [Team -> SUBSET User]
         /\ rule \in [Routing -> RoutingRow \cup {Absent}] /\ preference \in [User -> Preference]
         /\ lead \in User \cup {NoOne} /\ crew \in Team \cup {NoOne}
         /\ assignees \subseteq User /\ watchers \subseteq User /\ told \subseteq User
         /\ missed \subseteq User /\ notices \subseteq User /\ handling \in [Agent -> Handling]
  BY DEF Staffed, AssignmentTypeOK

LEMMA HandFields ==
  ASSUME NEW q \in Handling
  PROVE  /\ q.op \in {"assign", "read"} => q \in Assigning
         /\ q.op \in {"drop", "add"} => q \in Syncing
         /\ q.op \in {"rules", "tell"} => q \in Notifying
         /\ q.op = "match" => q.fresh \in BOOLEAN
         /\ q.op \in {"route", "upsert"} => q \in Routed
  BY DEF Handling, Idle, Assigning, Syncing, Notifying, Routed

LEMMA TellingFields ==
  ASSUME NEW left \in SUBSET User, NEW of \in SUBSET User, NEW then \in {"end", "announce", "rules"},
         NEW q, q = Telling(left, of, then)
  PROVE  /\ q \in Notifying /\ q \in Handling /\ q # Idle
         /\ q.op = "tell" /\ q.left = left /\ q.of = of
<1>1. q \in Notifying /\ q.op = "tell" /\ q.left = left /\ q.of = of
  BY DEF Telling, Notifying
<1> QED
  BY <1>1 DEF Handling, Idle

\* The two other forms of it: the rules come first, or a team comes after them.
LEMMA TellingAfterRules ==
  ASSUME NEW left \in SUBSET User, NEW of \in SUBSET User, NEW q, q = AfterRules(left, of)
  PROVE  q \in Handling /\ q # Idle /\ q.op = "rules" /\ q.left = left /\ q.of = of
<1>1. PICK t : t = Telling(left, of, "end")
  OBVIOUS
<1>2. t \in Notifying /\ t.op = "tell" /\ t.left = left /\ t.of = of
  BY <1>1, TellingFields
<1>3. q \in Notifying /\ q.op = "rules" /\ q.left = left /\ q.of = of
  BY <1>1, <1>2 DEF Notifying, AfterRules
<1> QED
  BY <1>3 DEF Handling, Idle

LEMMA TellingBeforeTeam ==
  ASSUME NEW added \in SUBSET User, NEW team \in SUBSET User, NEW q, q = InBulk(added, team)
  PROVE  q \in Handling /\ q # Idle /\ q.op = "tell" /\ q.left = added /\ q.of = added
<1>1. PICK t : t = Telling(added, added, "rules")
  OBVIOUS
<1>2. t \in Notifying /\ t.op = "tell" /\ t.left = added /\ t.of = added
  BY <1>1, TellingFields
<1>3. q \in Notifying /\ q.op = "tell" /\ q.left = added /\ q.of = added
  BY <1>1, <1>2 DEF Notifying, InBulk
<1> QED
  BY <1>3 DEF Handling, Idle

LEMMA NewcomersAreUsers ==
  ASSUME Staffed, NEW q
  PROVE  Newcomers(q) \subseteq User
  BY StaffTypes DEF Newcomers

LEMMA StaffedMoves ==
  ASSUME Staffed, NEW r \in Agent, NEW q \in Handling, Does(r, q), UNCHANGED <<active, members, rule>>,
         preference' \in [User -> Preference],
         lead' \in User \cup {NoOne}, crew' \in Team \cup {NoOne}, assignees' \subseteq User,
         watchers' \subseteq User, told' \subseteq User, missed' \subseteq User, notices' \subseteq User
  PROVE  Staffed'
<1>1. handling' \in [Agent -> Handling]
  BY StaffTypes DEF Does
<1> QED
  BY <1>1, StaffTypes DEF Staffed, AssignmentTypeOK

LEMMA StaffedBegins ==
  ASSUME Staffed, TicketBegin
  PROVE  Staffed'
<1> USE StaffTypes
<1>0. ASSUME NEW r \in Agent, NEW q \in Handling, Does(r, q), UNCHANGED <<peopleVars, ticketVars>>
      PROVE  Staffed'
  BY <1>0, StaffedMoves DEF peopleVars, ticketVars
<1>1. ASSUME NEW r \in Agent, NEW first \in First, NEW users \in SUBSET User,
             NEW t \in Choice, UpdateAssignment(r, first, users, t)
      PROVE  Staffed'
  <2>1. PICK q : q = [op |-> "assign", lead |-> first, users |-> users, team |-> t, was |-> crew,
                      how |-> "update"]
    OBVIOUS
  <2>2. q \in Assigning
    BY <2>1 DEF Assigning
  <2> QED
    BY <1>0, <1>1, <2>1, <2>2 DEF UpdateAssignment, Handling
<1>2. ASSUME NEW r \in Agent, NEW first \in First, NEW users \in SUBSET User, NEW t \in Choice,
             NEW how \in {"bulk", "team"}, BulkAssign(r, first, users, t, how)
      PROVE  Staffed'
  <2>1. PICK q : q = [op |-> "assign", lead |-> first, users |-> users, team |-> t, was |-> NoOne,
                      how |-> how]
    OBVIOUS
  <2>2. q \in Assigning
    BY <2>1 DEF Assigning
  <2> QED
    BY <1>0, <1>2, <2>1, <2>2 DEF BulkAssign, Handling
<1>3. ASSUME NEW r \in Agent, NEW users \in SUBSET User, UpdateWatchers(r, users) PROVE Staffed'
  <2>1. PICK t : t = Telling(users \ watchers, {}, "end")
    OBVIOUS
  <2>2. t \in Notifying
    BY <2>1, TellingFields
  <2>3. PICK q : q = [t EXCEPT !.drop = watchers \ users]
    OBVIOUS
  <2>4. q \in Notifying
    BY <2>2, <2>3 DEF Notifying
  <2> QED
    BY <1>0, <1>3, <2>1, <2>3, <2>4 DEF UpdateWatchers, Handling
<1>4. ASSUME NEW r \in Agent, NEW byMail \in BOOLEAN, Open(r, byMail) PROVE Staffed'
  <2>1. [op |-> "match", fresh |-> TRUE] \in Handling /\ [op |-> "announce"] \in Handling
    BY DEF Handling
  <2> QED
    BY <1>4, <2>1, StaffedMoves DEF Open, peopleVars
<1>5. ASSUME NEW r \in Agent, ApplyRules(r) PROVE Staffed'
  <2>1. [op |-> "match", fresh |-> FALSE] \in Handling
    BY DEF Handling
  <2> QED
    BY <1>0, <1>5, <2>1 DEF ApplyRules
<1>6. ASSUME NEW r \in Agent, NEW users \in SUBSET Movable, UpdateWatchers(r, users) PROVE Staffed'
  <2>1. users \in SUBSET User
    BY FormAssumption
  <2> QED
    BY <1>3, <1>6, <2>1
<1>7. PICK r \in Agent :
          \/ \E first \in User \cup {NoOne}, users \in SUBSET User, t \in Choice :
                UpdateAssignment(r, first, users, t)
          \/ \E first \in First, users \in SUBSET User, t \in Choice, how \in {"bulk", "team"} :
                BulkAssign(r, first, users, t, how)
          \/ \E users \in SUBSET Movable : UpdateWatchers(r, users)
          \/ \E byMail \in BOOLEAN : Open(r, byMail)
          \/ ApplyRules(r)
  BY DEF TicketBegin, Choice, First
<1>8. User \cup {NoOne} \subseteq First
  BY DEF First
<1> QED
  BY <1>1, <1>2, <1>4, <1>5, <1>6, <1>7, <1>8

LEMMA StaffedPeople ==
  ASSUME Staffed, PeopleBegin
  PROVE  Staffed'
<1> USE StaffTypes DEF peopleVars, ticketVars
<1>1. ASSUME NEW k \in Routing, NEW f \in Form, CreateRule(k, f) PROVE Staffed'
  BY <1>1, FormAssumption DEF CreateRule, Staffed, AssignmentTypeOK
<1>2. ASSUME NEW k \in Routing, NEW f \in Form \cup {Absent}, UpdateRule(k, f) PROVE Staffed'
  BY <1>2, FormAssumption DEF UpdateRule, Staffed, AssignmentTypeOK
<1>3. ASSUME NEW u \in Movable, NEW on \in BOOLEAN, SetActive(u, on) PROVE Staffed'
  BY <1>3, FormAssumption DEF SetActive, Staffed, AssignmentTypeOK
<1>4. ASSUME NEW t \in Team, NEW users \in SUBSET Movable, SetMembers(t, users) PROVE Staffed'
  BY <1>4 DEF SetMembers, Staffed, AssignmentTypeOK
<1>5. ASSUME NEW u \in Movable, NEW p \in {"subscribed", "off"}, SetPreference(u, p) PROVE Staffed'
  BY <1>5 DEF SetPreference, Staffed, AssignmentTypeOK, Preference
<1>6. ASSUME NEW u \in Movable, MarkRead(u) PROVE Staffed'
  BY <1>6 DEF MarkRead, Staffed, AssignmentTypeOK
<1> QED
  BY <1>1, <1>2, <1>3, <1>4, <1>5, <1>6 DEF PeopleBegin

LEMMA StaffedResumes ==
  ASSUME Staffed, AssignmentResume \/ \E r \in Agent : AgentLost(r)
  PROVE  Staffed'
<1> USE StaffTypes DEF peopleVars, ticketVars
<1>0. Idle \in Handling /\ [op |-> "announce"] \in Handling
  BY DEF Handling
<1>a. Assigning \subseteq Handling /\ Syncing \subseteq Handling /\ Notifying \subseteq Handling
      /\ Routed \subseteq Handling
  BY DEF Handling
<1>1. ASSUME NEW r \in Agent, WriteAssignment(r) PROVE Staffed'
  <2>1. PICK v : v = handling[r]
    OBVIOUS
  <2>2. v \in Assigning
    BY <1>1, <2>1, HandFields DEF WriteAssignment
  <2>3. PICK q : q = [v EXCEPT !.op = "read"]
    OBVIOUS
  <2>4. q \in Handling
    BY <1>a, <2>2, <2>3 DEF Assigning
  <2>5. PICK t : t = Telling(Newcomers(v), {}, "end")
    OBVIOUS
  <2>6. t \in Handling
    BY <2>5, NewcomersAreUsers, TellingFields
  <2>7. lead' \in User \cup {NoOne} /\ crew' \in Team \cup {NoOne} /\ (Does(r, q) \/ Does(r, t))
    BY <1>1, <2>1, <2>2, <2>3, <2>5 DEF WriteAssignment, Choice, First, Assigning
  <2> QED
    BY <1>1, <2>4, <2>6, <2>7, StaffedMoves DEF WriteAssignment
<1>2. ASSUME NEW r \in Agent, ReadAssignees(r) PROVE Staffed'
  <2>1. PICK v : v = handling[r]
    OBVIOUS
  <2>2. v \in Assigning
    BY <1>2, <2>1, HandFields DEF ReadAssignees
  <2>3. PICK q : q = [op |-> "drop", current |-> assignees, users |-> v.users, team |-> v.team,
                      was |-> v.was, how |-> v.how]
    OBVIOUS
  <2>4. q \in Handling
    BY <1>a, <2>2, <2>3 DEF Assigning, Syncing
  <2> QED
    BY <1>2, <2>1, <2>3, <2>4, StaffedMoves DEF ReadAssignees
<1>3. ASSUME NEW r \in Agent, DropAssignees(r) PROVE Staffed'
  <2>1. PICK v : v = handling[r]
    OBVIOUS
  <2>2. v \in Syncing
    BY <1>3, <2>1, HandFields DEF DropAssignees
  <2>3. PICK q : q = [v EXCEPT !.op = "add"]
    OBVIOUS
  <2>4. q \in Handling
    BY <1>a, <2>2, <2>3 DEF Syncing
  <2> QED
    BY <1>3, <2>1, <2>3, <2>4, StaffedMoves DEF DropAssignees
<1>4. ASSUME NEW r \in Agent, AddAssignees(r) PROVE Staffed'
  <2>1. PICK v : v = handling[r]
    OBVIOUS
  <2>2. v \in Syncing
    BY <1>4, <2>1, HandFields DEF AddAssignees
  <2>3. PICK added : added = v.users \ v.current
    OBVIOUS
  <2>4. added \in SUBSET User /\ Newcomers(v) \in SUBSET User /\ added \cup Newcomers(v) \in SUBSET User
    BY <2>2, <2>3, NewcomersAreUsers DEF Syncing
  <2>5. /\ Telling(Newcomers(v), {}, "end") \in Handling
        /\ InBulk(added, Newcomers(v)) \in Handling
        /\ AfterRules(added \cup Newcomers(v), added) \in Handling
    BY <2>4, TellingFields, TellingAfterRules, TellingBeforeTeam
  <2>6. PICK q \in Handling : Does(r, q)
    BY <1>0, <1>4, <2>1, <2>3, <2>5 DEF AddAssignees
  <2>7. assignees' \subseteq User /\ missed' \subseteq User
    BY <1>4, <2>1, <2>3, <2>4 DEF AddAssignees
  <2> QED
    BY <1>4, <2>6, <2>7, StaffedMoves DEF AddAssignees
<1>5. ASSUME NEW r \in Agent, RunRules(r) PROVE Staffed'
  <2>1. PICK v : v = handling[r]
    OBVIOUS
  <2>2. v \in Notifying
    BY <1>5, <2>1, HandFields DEF RunRules
  <2>3. PICK q : q = [v EXCEPT !.op = "tell"]
    OBVIOUS
  <2>4. q \in Handling
    BY <1>a, <2>2, <2>3 DEF Notifying
  <2>5. PICK h \in Handling : Does(r, h)
    BY <1>0, <1>5, <2>1, <2>3, <2>4 DEF RunRules
  <2>6. missed' \subseteq User
    BY <1>5 DEF RunRules
  <2> QED
    BY <1>5, <2>5, <2>6, StaffedMoves DEF RunRules
<1>6. ASSUME NEW r \in Agent, Tell(r) PROVE Staffed'
  <2>1. PICK v : v = handling[r]
    OBVIOUS
  <2>2. v \in Notifying
    BY <1>6, <2>1, HandFields DEF Tell
  <2>3. PICK u \in v.left : /\ watchers' = watchers \cup {u}
                            /\ told' = told \cup ({u} \cap v.of \cap assignees)
                            /\ notices' = notices \cup Notified({u})
                            /\ preference' = [preference EXCEPT ![u] = IF @ = "none" THEN "default" ELSE @]
                            /\ Does(r, [v EXCEPT !.left = v.left \ {u}])
    BY <1>6, <2>1 DEF Tell
  <2>4. PICK q : q = [v EXCEPT !.left = v.left \ {u}]
    OBVIOUS
  <2>5. q \in Handling
    BY <1>a, <2>2, <2>4 DEF Notifying
  <2>6. u \in User
    BY <2>2 DEF Notifying
  <2>7. preference' \in [User -> Preference] /\ notices' \subseteq User
    BY <2>3, <2>6 DEF Preference, Notified
  <2>8. Does(r, q) /\ watchers' \subseteq User /\ told' \subseteq User
    BY <2>3, <2>4, <2>6
  <2>9. UNCHANGED <<active, members, rule, isOpen, lead, crew, assignees, missed>>
    BY <1>6 DEF Tell
  <2> QED
    BY <2>5, <2>7, <2>8, <2>9, StaffedMoves
<1>b. ASSUME NEW r \in Agent, Told(r) PROVE Staffed'
  <2>1. PICK v : v = handling[r]
    OBVIOUS
  <2>2. v \in Notifying
    BY <1>b, <2>1, HandFields DEF Told
  <2>3. v.after \in SUBSET User
    BY <2>2 DEF Notifying
  <2>4. AfterRules(v.after, {}) \in Handling
    BY <2>3, TellingAfterRules
  <2>5. PICK q \in Handling : Does(r, q)
    BY <1>0, <1>b, <2>1, <2>4 DEF Told
  <2> QED
    BY <1>b, <2>5, StaffedMoves DEF Told
<1>7. ASSUME NEW r \in Agent, Announce(r) PROVE Staffed'
  <2>1. notices' \subseteq User
    BY <1>7 DEF Announce, Notified
  <2> QED
    BY <1>0, <1>7, <2>1, StaffedMoves DEF Announce
<1>8. ASSUME NEW r \in Agent, MatchRule(r) PROVE Staffed'
  <2>1. PICK v : v = handling[r]
    OBVIOUS
  <2>2. v.fresh \in BOOLEAN
    BY <1>8, <2>1, HandFields DEF MatchRule
  <2>3. CASE Does(r, Idle) \/ Does(r, [op |-> "announce"])
    BY <1>0, <1>8, <2>3, StaffedMoves DEF MatchRule
  <2>4. ASSUME NEW k \in Routing, Fires(k),
               Does(r, [op |-> "route", user |-> rule[k].user, team |-> rule[k].team,
                        left |-> Audience(k), fresh |-> v.fresh])
        PROVE  Staffed'
    <3>1. rule[k] \in RoutingRow
      BY <2>4 DEF Fires
    <3>2. rule[k].user \in User \cup {NoOne} /\ rule[k].team \in Team \cup {NoOne}
          /\ rule[k].tell \subseteq User
      BY <3>1 DEF RoutingRow
    <3>3. Audience(k) \subseteq User
      BY <3>2 DEF Audience
    <3>4. PICK q : q = [op |-> "route", user |-> rule[k].user, team |-> rule[k].team,
                        left |-> Audience(k), fresh |-> v.fresh]
      OBVIOUS
    <3>5. q \in Routed
      BY <2>2, <3>2, <3>3, <3>4 DEF Routed, Audience
    <3>6. q \in Handling
      BY <1>a, <3>5
    <3> QED
      BY <1>8, <2>4, <3>4, <3>6, StaffedMoves DEF MatchRule
  <2> QED
    BY <1>8, <2>1, <2>3, <2>4 DEF MatchRule
<1>9. ASSUME NEW r \in Agent, WriteRoute(r) \/ UpsertAssignee(r) PROVE Staffed'
  <2>1. PICK v : v = handling[r]
    OBVIOUS
  <2>2. v \in Routed
    BY <1>9, <2>1, HandFields DEF WriteRoute, UpsertAssignee
  <2>3. CASE WriteRoute(r)
    <3>1. PICK q : q = [v EXCEPT !.op = "upsert"]
      OBVIOUS
    <3>2. q \in Handling /\ v.user \in User \cup {NoOne} /\ v.team \in Team \cup {NoOne}
      BY <1>a, <2>2, <3>1 DEF Routed
    <3> QED
      BY <2>1, <2>3, <3>1, <3>2, StaffedMoves DEF WriteRoute
  <2>4. CASE UpsertAssignee(r)
    <3>1. v.left \in SUBSET User /\ v.user \in User \cup {NoOne}
      BY <2>2 DEF Routed
    <3>2. {v.user} \ {NoOne} \in SUBSET User
      BY <3>1
    <3>3. TellRouted(v) \in Handling
      BY <3>1, <3>2, TellingFields DEF TellRouted
    <3> QED
      BY <2>1, <2>4, <3>2, <3>3, StaffedMoves DEF UpsertAssignee
  <2> QED
    BY <1>9, <2>3, <2>4
<1>10. ASSUME NEW r \in Agent, AgentLost(r) PROVE Staffed'
  BY <1>0, <1>10, StaffedMoves DEF AgentLost
<1> QED
  BY <1>1, <1>2, <1>3, <1>4, <1>5, <1>6, <1>b, <1>7, <1>8, <1>9, <1>10 DEF AssignmentResume

(***************************************************************************)
(* Who is told, however requests overlap or die.                           *)
(***************************************************************************)

\* A step of one request keeps AssigneesTold when it does for each assignee.
LEMMA ToldMoves ==
  ASSUME Staffed, AssigneesTold, NEW r \in Agent, NEW q, Does(r, q),
         \A u \in assignees' :
            \/ u \in told' \cup missed' \cup Owed(q)
            \/ /\ u \in assignees /\ (u \in told => u \in told') /\ (u \in missed => u \in missed')
               /\ u \in Owed(handling[r]) => u \in told' \cup missed' \cup Owed(q)
  PROVE  AssigneesTold'
<1>1. handling' = [handling EXCEPT ![r] = q] /\ handling'[r] = q
      /\ \A o \in Agent \ {r} : handling'[o] = handling[o]
  BY StaffTypes DEF Does
<1>2. ASSUME NEW u \in assignees'
      PROVE  u \in told' \cup missed' \/ \E o \in Agent : u \in Owed(handling'[o])
  <2>1. CASE u \in told' \cup missed' \cup Owed(q)
    BY <1>1, <2>1
  <2>2. CASE u \in assignees /\ (u \in told => u \in told') /\ (u \in missed => u \in missed')
             /\ (u \in Owed(handling[r]) => u \in told' \cup missed' \cup Owed(q))
    <3>1. u \in told \cup missed \/ \E o \in Agent : u \in Owed(handling[o])
      BY <2>2 DEF AssigneesTold
    <3>2. ASSUME NEW o \in Agent, u \in Owed(handling[o]), o # r
          PROVE  u \in Owed(handling'[o])
      BY <1>1, <3>2
    <3> QED
      BY <1>1, <2>2, <3>1, <3>2
  <2> QED
    BY <2>1, <2>2
<1>3. \A o \in Agent : Owed(handling'[o]) = Owed(handling[o])'
  BY DEF Owed
<1> QED
  BY <1>2, <1>3 DEF AssigneesTold

\* A request that owes nobody a notice moves on.
LEMMA ToldStays ==
  ASSUME Staffed, AssigneesTold, NEW r \in Agent, NEW q, Does(r, q), Owed(handling[r]) = {},
         assignees' \subseteq assignees, UNCHANGED <<told, missed>>
  PROVE  AssigneesTold'
  BY ToldMoves

LEMMA ToldBegins ==
  ASSUME Staffed, AssigneesTold, TicketBegin \/ PeopleBegin
  PROVE  AssigneesTold'
<1> USE DEF peopleVars, ticketVars
<1>0. Owed(Idle) = {}
  BY DEF Owed, Idle
<1>1. ASSUME NEW r \in Agent, NEW q, handling[r] = Idle, Does(r, q), UNCHANGED <<assignees, told, missed>>
      PROVE  AssigneesTold'
  BY <1>0, <1>1, ToldStays
<1>2. CASE TicketBegin
  BY <1>1, <1>2 DEF TicketBegin, UpdateAssignment, BulkAssign, UpdateWatchers, Open, ApplyRules
<1>3. CASE PeopleBegin
  BY <1>3 DEF PeopleBegin, CreateRule, UpdateRule, SetActive, SetMembers, SetPreference, MarkRead,
              AssigneesTold, Owed
<1> QED
  BY <1>2, <1>3

LEMMA ToldResumes ==
  ASSUME Staffed, AssigneesTold, AssignmentResume \/ \E r \in Agent : AgentLost(r)
  PROVE  AssigneesTold'
<1> USE StaffTypes DEF peopleVars, ticketVars
<1>1. ASSUME NEW r \in Agent, WriteAssignment(r) \/ ReadAssignees(r) \/ Announce(r) \/ MatchRule(r) \/ WriteRoute(r)
      PROVE  AssigneesTold'
  <2>1. Owed(handling[r]) = {}
    BY <1>1 DEF WriteAssignment, ReadAssignees, Announce, MatchRule, WriteRoute, Owed
  <2>2. UNCHANGED <<assignees, told, missed>>
    BY <1>1 DEF WriteAssignment, ReadAssignees, Announce, MatchRule, WriteRoute
  <2>3. \E q : Does(r, q)
    BY <1>1 DEF WriteAssignment, ReadAssignees, Announce, MatchRule, WriteRoute
  <2> QED
    BY <2>1, <2>2, <2>3, ToldStays
<1>2. ASSUME NEW r \in Agent, DropAssignees(r) PROVE AssigneesTold'
  <2>1. PICK dropped : /\ assignees' = assignees \ dropped /\ told' = told \ dropped
                       /\ missed' = missed \ dropped
    BY <1>2 DEF DropAssignees
  <2>2. Owed(handling[r]) = {} /\ \E q : Does(r, q)
    BY <1>2 DEF DropAssignees, Owed
  <2>3. \A u \in assignees' : u \in assignees /\ (u \in told => u \in told') /\ (u \in missed => u \in missed')
    BY <2>1
  <2> QED
    BY <2>2, <2>3, ToldMoves
<1>3. ASSUME NEW r \in Agent, AddAssignees(r) PROVE AssigneesTold'
  <2>1. PICK v : v = handling[r]
    OBVIOUS
  <2>2. v \in Syncing /\ Owed(v) = {}
    BY <1>3, <2>1, HandFields DEF AddAssignees, Owed
  <2>3. PICK added : added = v.users \ v.current
    OBVIOUS
  <2>4. added \in SUBSET User /\ Newcomers(v) \in SUBSET User /\ added \cup Newcomers(v) \in SUBSET User
    BY <2>2, <2>3, NewcomersAreUsers DEF Syncing
  <2>5. assignees' = assignees \cup added /\ told' = told
    BY <1>3, <2>1, <2>3 DEF AddAssignees
  <2>6. CASE added \cap assignees # {}
    <3>1. missed' = missed \cup (added \ assignees) /\ Does(r, Idle)
      BY <1>3, <2>1, <2>3, <2>6 DEF AddAssignees
    <3> QED
      BY <2>1, <2>2, <2>5, <3>1, ToldMoves
  <2>7. CASE added \cap assignees = {}
    <3>1. missed' = missed
      BY <1>3, <2>1, <2>3, <2>7 DEF AddAssignees
    <3>2. ASSUME NEW q, Does(r, q), added \subseteq Owed(q) PROVE AssigneesTold'
      BY <2>1, <2>2, <2>5, <3>1, <3>2, ToldMoves
    <3>3. CASE v.users = {}
      <4>1. added = {} /\ Does(r, Telling(Newcomers(v), {}, "end"))
        BY <1>3, <2>1, <2>3, <2>7, <3>3 DEF AddAssignees
      <4> QED
        BY <3>2, <4>1
    <3>4. CASE v.users # {} /\ v.how = "bulk"
      <4>1. PICK q : q = InBulk(added, Newcomers(v))
        OBVIOUS
      <4>2. q.op = "tell" /\ q.left = added /\ q.of = added
        BY <2>4, <4>1, TellingBeforeTeam
      <4>3. Does(r, q)
        BY <1>3, <2>1, <2>3, <2>7, <3>4, <4>1 DEF AddAssignees
      <4> QED
        BY <3>2, <4>2, <4>3 DEF Owed
    <3>5. CASE v.users # {} /\ v.how # "bulk"
      <4>1. PICK q : q = AfterRules(added \cup Newcomers(v), added)
        OBVIOUS
      <4>2. q.op = "rules" /\ q.left = added \cup Newcomers(v) /\ q.of = added
        BY <2>4, <4>1, TellingAfterRules
      <4>3. Does(r, q)
        BY <1>3, <2>1, <2>3, <2>7, <3>5, <4>1 DEF AddAssignees
      <4> QED
        BY <3>2, <4>2, <4>3 DEF Owed
    <3> QED
      BY <3>3, <3>4, <3>5
  <2> QED
    BY <2>6, <2>7
<1>4. ASSUME NEW r \in Agent, RunRules(r) PROVE AssigneesTold'
  <2>1. PICK v : v = handling[r]
    OBVIOUS
  <2>2. v \in Notifying /\ v.op = "rules" /\ UNCHANGED <<assignees, told>>
    BY <1>4, <2>1, HandFields DEF RunRules
  <2>3. PICK q : q = [v EXCEPT !.op = "tell"]
    OBVIOUS
  <2>4. q.op = "tell" /\ q.left = v.left /\ q.of = v.of
    BY <2>2, <2>3 DEF Notifying
  <2>5. Owed(q) = Owed(v)
    BY <2>2, <2>4 DEF Owed
  <2>6. CASE Does(r, q) /\ UNCHANGED missed
    BY <2>1, <2>2, <2>5, <2>6, ToldMoves
  <2>7. CASE Does(r, Idle) /\ missed' = missed \cup (Owed(v) \cap assignees)
    BY <2>1, <2>2, <2>7, ToldMoves
  <2> QED
    BY <1>4, <2>1, <2>3, <2>6, <2>7 DEF RunRules
<1>5. ASSUME NEW r \in Agent, Tell(r) PROVE AssigneesTold'
  <2>1. PICK v : v = handling[r]
    OBVIOUS
  <2>2. v \in Notifying /\ v.op = "tell" /\ UNCHANGED <<assignees, missed>>
    BY <1>5, <2>1, HandFields DEF Tell
  <2>3. PICK u \in v.left : /\ told' = told \cup ({u} \cap v.of \cap assignees)
                            /\ Does(r, [v EXCEPT !.left = v.left \ {u}])
    BY <1>5, <2>1 DEF Tell
  <2>4. PICK q : q = [v EXCEPT !.left = v.left \ {u}]
    OBVIOUS
  <2>5. q.op = "tell" /\ q.left = v.left \ {u} /\ q.of = v.of
    BY <2>2, <2>4 DEF Notifying
  <2>6. \A x \in assignees : x \in Owed(v) => x \in told' \cup Owed(q)
    BY <2>2, <2>3, <2>5 DEF Owed
  <2>7. told \subseteq told'
    BY <2>3
  <2> QED
    BY <2>1, <2>2, <2>3, <2>4, <2>6, <2>7, ToldMoves
<1>6. ASSUME NEW r \in Agent, Told(r) PROVE AssigneesTold'
  <2>1. Owed(handling[r]) = {} /\ UNCHANGED <<assignees, told, missed>> /\ \E q : Does(r, q)
    BY <1>6 DEF Told, Owed
  <2> QED
    BY <2>1, ToldStays
<1>7. ASSUME NEW r \in Agent, UpsertAssignee(r) PROVE AssigneesTold'
  <2>1. PICK v : v = handling[r]
    OBVIOUS
  <2>2. v \in Routed /\ Owed(v) = {}
    BY <1>7, <2>1, HandFields DEF UpsertAssignee, Owed
  <2>3. v.left \in SUBSET User /\ {v.user} \ {NoOne} \subseteq v.left
    BY <2>2 DEF Routed
  <2>4. PICK q : q = TellRouted(v)
    OBVIOUS
  <2>5. q.op = "tell" /\ q.left = v.left /\ q.of = {v.user} \ {NoOne}
    BY <2>3, <2>4, TellingFields DEF TellRouted
  <2>7. {v.user} \ {NoOne} \subseteq Owed(q)
    BY <2>3, <2>5 DEF Owed
  <2>6. Does(r, q) /\ assignees' = assignees \cup ({v.user} \ {NoOne}) /\ UNCHANGED <<told, missed>>
    BY <1>7, <2>1, <2>4 DEF UpsertAssignee
  <2> QED
    BY <2>1, <2>2, <2>6, <2>7, ToldMoves
<1>8. ASSUME NEW r \in Agent, AgentLost(r) PROVE AssigneesTold'
  <2>1. /\ Does(r, Idle) /\ UNCHANGED <<assignees, told>>
        /\ missed' = missed \cup (Owed(handling[r]) \cap assignees)
    BY <1>8 DEF AgentLost
  <2> QED
    BY <2>1, ToldMoves
<1> QED
  BY <1>1, <1>2, <1>3, <1>4, <1>5, <1>6, <1>7, <1>8 DEF AssignmentResume

(***************************************************************************)
(* Who is shown as assigned, one request after the other.                  *)
(***************************************************************************)

\* A request is alone on its way from one step to the next.
LEMMA SteadyMoves ==
  ASSUME Staffed, Steady, NEW r \in Agent, handling[r] # Idle \/ Lone(handling), NEW q, Does(r, q),
         Pursues(q)', q = Idle => LeadIn(assignees)'
  PROVE  Steady'
<1>1. DOMAIN handling = Agent /\ \A o \in Agent \ {r} : handling[o] = Idle
  BY StaffTypes DEF Steady, OneAtATime, Lone
<1>2. DOMAIN handling' = Agent /\ handling'[r] = q /\ \A o \in Agent \ {r} : handling'[o] = Idle
  BY <1>1 DEF Does
<1>3. OneAtATime(handling)'
  BY <1>2 DEF OneAtATime
<1>4. Pursues(Idle)'
  BY DEF Pursues, Idle
<1>5. \A o \in Agent : Pursues(handling[o])'
  BY <1>2, <1>4
<1>6. LeadIsAssignee'
  BY <1>2 DEF LeadIsAssignee, Lone, LeadIn
<1> QED
  BY <1>3, <1>5, <1>6 DEF Steady

\* What goes on, or ends, with nothing but the telling left.
LEMMA SteadyNotifies ==
  ASSUME Staffed, Steady, NEW r \in Agent, handling[r] # Idle \/ Lone(handling), NEW q, Does(r, q),
         q = Idle \/ q.op \in {"rules", "tell", "announce", "match"}, LeadIn(assignees)'
  PROVE  Steady'
<1>1. Pursues(q)'
  BY DEF Pursues, Idle
<1> QED
  BY <1>1, SteadyMoves

LEMMA SteadyBegins ==
  ASSUME Staffed, Steady, Lone(handling), TicketBegin \/ PeopleBegin
  PROVE  Steady'
<1> USE StaffTypes DEF peopleVars, ticketVars
<1>0. LeadIn(assignees) /\ \A r \in Agent : handling[r] = Idle
  BY DEF Steady, LeadIsAssignee, LeadIn, Lone
<1>1. ASSUME NEW r \in Agent, NEW q, Does(r, q), UNCHANGED <<lead, assignees>>, Pursues(q)
      PROVE  Steady'
  <2>1. Pursues(q)'
    BY <1>1 DEF Pursues, LeadIn
  <2>2. LeadIn(assignees)'
    BY <1>0, <1>1 DEF LeadIn
  <2> QED
    BY <1>1, <2>1, <2>2, SteadyMoves
<1>2. ASSUME NEW r \in Agent, NEW first, NEW users \in SUBSET User, NEW t, NEW was, NEW how,
             NEW q, q = [op |-> "assign", lead |-> first, users |-> users, team |-> t, was |-> was,
                         how |-> how],
             first \in users \/ users = {}, how # "team" \/ first = "keep"
      PROVE  Pursues(q)
  <2>1. q.op = "assign" /\ q.lead = first /\ q.users = users /\ q.how = how
    BY <1>2
  <2> QED
    BY <1>0, <1>2, <2>1 DEF Pursues
<1>3. ASSUME NEW r \in Agent, NEW first, NEW users \in SUBSET User, NEW t, UpdateAssignment(r, first, users, t)
      PROVE  Steady'
  <2>1. PICK q : q = [op |-> "assign", lead |-> first, users |-> users, team |-> t, was |-> crew,
                      how |-> "update"]
    OBVIOUS
  <2>2. Pursues(q)
    BY <1>2, <1>3, <2>1 DEF UpdateAssignment
  <2> QED
    BY <1>1, <1>3, <2>1, <2>2 DEF UpdateAssignment
<1>4. ASSUME NEW r \in Agent, NEW first, NEW users \in SUBSET User, NEW t, NEW how,
             BulkAssign(r, first, users, t, how)
      PROVE  Steady'
  <2>1. PICK q : q = [op |-> "assign", lead |-> first, users |-> users, team |-> t, was |-> NoOne,
                      how |-> how]
    OBVIOUS
  <2>2. Pursues(q)
    BY <1>2, <1>4, <2>1 DEF BulkAssign
  <2> QED
    BY <1>1, <1>4, <2>1, <2>2 DEF BulkAssign
<1>5. ASSUME NEW r \in Agent, NEW users \in SUBSET User, UpdateWatchers(r, users) PROVE Steady'
  <2>1. PICK t : t = Telling(users \ watchers, {}, "end")
    OBVIOUS
  <2>2. t \in Notifying /\ t.op = "tell"
    BY <2>1, TellingFields
  <2>3. PICK q : q = [t EXCEPT !.drop = watchers \ users]
    OBVIOUS
  <2>4. q.op = "tell"
    BY <2>2, <2>3 DEF Notifying
  <2>5. Does(r, q) /\ UNCHANGED <<lead, assignees>>
    BY <1>5, <2>1, <2>3 DEF UpdateWatchers
  <2> QED
    BY <1>0, <2>4, <2>5, SteadyNotifies DEF LeadIn
<1>6. ASSUME NEW r \in Agent, NEW byMail \in BOOLEAN, Open(r, byMail) PROVE Steady'
  <2>1. UNCHANGED <<lead, assignees>>
        /\ (Does(r, [op |-> "match", fresh |-> TRUE]) \/ Does(r, [op |-> "announce"]))
    BY <1>6 DEF Open
  <2> QED
    BY <1>0, <2>1, SteadyNotifies DEF LeadIn
<1>7. ASSUME NEW r \in Agent, ApplyRules(r) PROVE Steady'
  <2>1. UNCHANGED <<lead, assignees>> /\ Does(r, [op |-> "match", fresh |-> FALSE])
    BY <1>7 DEF ApplyRules
  <2> QED
    BY <1>0, <2>1, SteadyNotifies DEF LeadIn
<1>8. CASE PeopleBegin
  <2>1. UNCHANGED <<lead, assignees, handling>>
    BY <1>8 DEF PeopleBegin, CreateRule, UpdateRule, SetActive, SetMembers, SetPreference, MarkRead
  <2>2. Pursues(Idle)'
    BY DEF Pursues, Idle
  <2>3. \A r \in Agent : Pursues(handling[r])'
    BY <1>0, <2>1, <2>2
  <2> QED
    BY <2>1, <2>3 DEF Steady, OneAtATime, LeadIsAssignee
<1>9. CASE TicketBegin
  BY <1>3, <1>4, <1>5, <1>6, <1>7, <1>9, FormAssumption DEF TicketBegin
<1> QED
  BY <1>8, <1>9

LEMMA SteadyResumes ==
  ASSUME Staffed, Steady, AssignmentResume
  PROVE  Steady'
<1> USE StaffTypes DEF peopleVars, ticketVars
<1>0. ASSUME NEW r \in Agent
      PROVE  handling[r] \in Handling /\ Pursues(handling[r])
  BY DEF Steady
<1>1. ASSUME NEW r \in Agent, WriteAssignment(r) PROVE Steady'
  <2>1. PICK v : v = handling[r]
    OBVIOUS
  <2>2. v \in Assigning /\ v.op = "assign" /\ Pursues(v) /\ v # Idle
    BY <1>0, <1>1, <2>1, HandFields DEF WriteAssignment, Idle
  <2>3. UNCHANGED assignees /\ lead' = IF v.lead = "keep" THEN lead ELSE v.lead
    BY <1>1, <2>1 DEF WriteAssignment
  <2>4. CASE v.how = "team"
    <3>1. PICK t : t = Telling(Newcomers(v), {}, "end")
      OBVIOUS
    <3>2. t.op = "tell"
      BY <3>1, NewcomersAreUsers, TellingFields
    <3>3. lead' = lead /\ LeadIn(assignees)
      BY <2>2, <2>3, <2>4 DEF Pursues
    <3>4. Does(r, t)
      BY <1>1, <2>1, <2>4, <3>1 DEF WriteAssignment
    <3> QED
      BY <2>1, <2>2, <2>3, <3>2, <3>3, <3>4, SteadyNotifies DEF LeadIn
  <2>5. CASE v.how # "team"
    <3>1. PICK q : q = [v EXCEPT !.op = "read"]
      OBVIOUS
    <3>2. q.op = "read" /\ q.lead = v.lead /\ q.users = v.users
      BY <2>2, <3>1 DEF Assigning
    <3>3. Does(r, q)
      BY <1>1, <2>1, <2>5, <3>1 DEF WriteAssignment
    <3>4. v.users \subseteq User
      BY <2>2 DEF Assigning
    <3>5. v.users = {} \/ (v.lead \in v.users /\ v.lead # "keep")
      BY <2>2, <3>4, UserAssumption DEF Pursues
    <3>6. v.users = {} \/ lead' \in v.users
      BY <2>3, <3>5
    <3>7. Pursues(q)' /\ q # Idle
      BY <3>2, <3>5, <3>6 DEF Pursues, Idle
    <3> QED
      BY <2>1, <2>2, <3>3, <3>7, SteadyMoves
  <2> QED
    BY <2>4, <2>5
<1>2. ASSUME NEW r \in Agent, ReadAssignees(r) PROVE Steady'
  <2>1. PICK v : v = handling[r]
    OBVIOUS
  <2>2. v.op = "read" /\ Pursues(v) /\ v # Idle
    BY <1>0, <1>2, <2>1 DEF ReadAssignees, Idle
  <2>3. PICK q : q = [op |-> "drop", current |-> assignees, users |-> v.users, team |-> v.team,
                      was |-> v.was, how |-> v.how]
    OBVIOUS
  <2>4. q.op = "drop" /\ q.current = assignees /\ q.users = v.users
    BY <2>3
  <2>5. Does(r, q) /\ UNCHANGED <<lead, assignees>>
    BY <1>2, <2>1, <2>3 DEF ReadAssignees
  <2>6. Pursues(q)' /\ q # Idle
    BY <2>2, <2>4, <2>5 DEF Pursues, Idle
  <2> QED
    BY <2>1, <2>2, <2>5, <2>6, SteadyMoves
<1>3. ASSUME NEW r \in Agent, DropAssignees(r) PROVE Steady'
  <2>1. PICK v : v = handling[r]
    OBVIOUS
  <2>2. v \in Syncing /\ v.op = "drop" /\ Pursues(v) /\ v # Idle
    BY <1>0, <1>3, <2>1, HandFields DEF DropAssignees, Idle
  <2>3. PICK q : q = [v EXCEPT !.op = "add"]
    OBVIOUS
  <2>4. q.op = "add" /\ q.current = v.current /\ q.users = v.users
    BY <2>2, <2>3 DEF Syncing
  <2>5. Does(r, q) /\ UNCHANGED lead /\ assignees' = assignees \ (v.current \ v.users)
    BY <1>3, <2>1, <2>3 DEF DropAssignees
  <2>6. assignees' = v.current \cap v.users
    BY <2>2, <2>5 DEF Pursues
  <2>7. Pursues(q)' /\ q # Idle
    BY <2>2, <2>4, <2>5, <2>6 DEF Pursues, Idle
  <2> QED
    BY <2>1, <2>2, <2>5, <2>7, SteadyMoves
<1>4. ASSUME NEW r \in Agent, AddAssignees(r) PROVE Steady'
  <2>1. PICK v : v = handling[r]
    OBVIOUS
  <2>2. v \in Syncing /\ v.op = "add" /\ Pursues(v) /\ v # Idle
    BY <1>0, <1>4, <2>1, HandFields DEF AddAssignees, Idle
  <2>3. PICK added : added = v.users \ v.current
    OBVIOUS
  <2>4. added \in SUBSET User /\ Newcomers(v) \in SUBSET User /\ added \cup Newcomers(v) \in SUBSET User
    BY <2>2, <2>3, NewcomersAreUsers DEF Syncing
  <2>5. assignees' = v.users /\ UNCHANGED lead /\ added \cap assignees = {}
    BY <1>4, <2>1, <2>2, <2>3 DEF AddAssignees, Pursues
  <2>6. LeadIn(assignees)'
    BY <2>2, <2>5 DEF Pursues, LeadIn
  <2>7. PICK s : s = Telling(Newcomers(v), {}, "end")
    OBVIOUS
  <2>8. PICK t : t = InBulk(added, Newcomers(v))
    OBVIOUS
  <2>9. PICK q : q = AfterRules(added \cup Newcomers(v), added)
    OBVIOUS
  <2>10. s.op = "tell" /\ t.op = "tell" /\ q.op = "rules"
    BY <2>4, <2>7, <2>8, <2>9, TellingFields, TellingAfterRules, TellingBeforeTeam
  <2>11. Does(r, s) \/ Does(r, t) \/ Does(r, q)
    BY <1>4, <2>1, <2>3, <2>5, <2>7, <2>8, <2>9 DEF AddAssignees
  <2> QED
    BY <2>1, <2>2, <2>6, <2>10, <2>11, SteadyNotifies
<1>5. ASSUME NEW r \in Agent, RunRules(r) \/ Tell(r) \/ Told(r) \/ Announce(r) PROVE Steady'
  <2>1. PICK v : v = handling[r]
    OBVIOUS
  <2>2. v.op \in {"rules", "tell", "announce"} /\ v \in Handling /\ v # Idle /\ LeadIn(assignees)
    BY <1>0, <1>5, <2>1 DEF RunRules, Tell, Told, Announce, Pursues, Idle
  <2>3. UNCHANGED <<lead, assignees>>
    BY <1>5 DEF RunRules, Tell, Told, Announce
  <2>4. LeadIn(assignees)'
    BY <2>2, <2>3 DEF LeadIn
  <2>5. ASSUME NEW q, Does(r, q), q = Idle \/ q.op \in {"rules", "tell", "announce"} PROVE Steady'
    BY <2>1, <2>2, <2>4, <2>5, SteadyNotifies
  <2>6. CASE RunRules(r)
    <3>1. v \in Notifying
      BY <2>1, <2>2, <2>6, HandFields DEF RunRules
    <3>2. PICK q : q = [v EXCEPT !.op = "tell"]
      OBVIOUS
    <3>3. q.op = "tell"
      BY <3>1, <3>2 DEF Notifying
    <3> QED
      BY <2>1, <2>5, <2>6, <3>2, <3>3 DEF RunRules
  <2>7. CASE Tell(r)
    <3>1. v \in Notifying /\ v.op = "tell"
      BY <2>1, <2>2, <2>7, HandFields DEF Tell
    <3>2. PICK u \in v.left : Does(r, [v EXCEPT !.left = v.left \ {u}])
      BY <2>1, <2>7 DEF Tell
    <3>3. PICK q : q = [v EXCEPT !.left = v.left \ {u}]
      OBVIOUS
    <3>4. q.op = "tell"
      BY <3>1, <3>3 DEF Notifying
    <3> QED
      BY <2>5, <3>2, <3>3, <3>4
  <2>8. CASE Told(r)
    <3>1. v \in Notifying
      BY <2>1, <2>2, <2>8, HandFields DEF Told
    <3>2. v.after \in SUBSET User
      BY <3>1 DEF Notifying
    <3>3. PICK q : q = AfterRules(v.after, {})
      OBVIOUS
    <3>4. q.op = "rules"
      BY <3>2, <3>3, TellingAfterRules
    <3>5. Does(r, Idle) \/ Does(r, [op |-> "announce"]) \/ Does(r, q)
      BY <2>1, <2>8, <3>3 DEF Told
    <3> QED
      BY <2>5, <3>4, <3>5
  <2>9. CASE Announce(r)
    BY <2>5, <2>9 DEF Announce
  <2> QED
    BY <1>5, <2>6, <2>7, <2>8, <2>9
<1>6. ASSUME NEW r \in Agent, MatchRule(r) PROVE Steady'
  <2>1. PICK v : v = handling[r]
    OBVIOUS
  <2>2. v.op = "match" /\ v # Idle /\ LeadIn(assignees)
    BY <1>0, <1>6, <2>1 DEF MatchRule, Pursues, Idle
  <2>3. UNCHANGED <<lead, assignees>>
    BY <1>6 DEF MatchRule
  <2>4. LeadIn(assignees)'
    BY <2>2, <2>3 DEF LeadIn
  <2>5. CASE Does(r, Idle) \/ Does(r, [op |-> "announce"])
    BY <2>1, <2>2, <2>4, <2>5, SteadyNotifies
  <2>6. ASSUME NEW k \in Routing,
               Does(r, [op |-> "route", user |-> rule[k].user, team |-> rule[k].team,
                        left |-> Audience(k), fresh |-> v.fresh])
        PROVE  Steady'
    <3>1. PICK q : q = [op |-> "route", user |-> rule[k].user, team |-> rule[k].team,
                        left |-> Audience(k), fresh |-> v.fresh]
      OBVIOUS
    <3>2. q.op = "route"
      BY <3>1
    <3>3. Pursues(q)' /\ q # Idle
      BY <3>2 DEF Pursues, Idle
    <3> QED
      BY <2>1, <2>2, <2>6, <3>1, <3>3, SteadyMoves
  <2> QED
    BY <1>6, <2>1, <2>5, <2>6 DEF MatchRule
<1>7. ASSUME NEW r \in Agent, WriteRoute(r) PROVE Steady'
  <2>1. PICK v : v = handling[r]
    OBVIOUS
  <2>2. v \in Routed /\ v # Idle
    BY <1>0, <1>7, <2>1, HandFields DEF WriteRoute, Idle
  <2>3. PICK q : q = [v EXCEPT !.op = "upsert"]
    OBVIOUS
  <2>4. q.op = "upsert" /\ q.user = v.user
    BY <2>2, <2>3 DEF Routed
  <2>5. Does(r, q) /\ lead' = v.user
    BY <1>7, <2>1, <2>3 DEF WriteRoute
  <2>6. Pursues(q)' /\ q # Idle
    BY <2>4, <2>5 DEF Pursues, Idle
  <2> QED
    BY <2>1, <2>2, <2>5, <2>6, SteadyMoves
<1>8. ASSUME NEW r \in Agent, UpsertAssignee(r) PROVE Steady'
  <2>1. PICK v : v = handling[r]
    OBVIOUS
  <2>2. v \in Routed /\ v.op = "upsert" /\ Pursues(v) /\ v # Idle
    BY <1>0, <1>8, <2>1, HandFields DEF UpsertAssignee, Idle
  <2>3. v.left \in SUBSET User /\ {v.user} \ {NoOne} \in SUBSET User
    BY <2>2 DEF Routed
  <2>4. PICK q : q = TellRouted(v)
    OBVIOUS
  <2>5. q.op = "tell"
    BY <2>3, <2>4, TellingFields DEF TellRouted
  <2>6. Does(r, q) /\ assignees' = assignees \cup ({v.user} \ {NoOne}) /\ lead' = v.user
    BY <1>8, <2>1, <2>2, <2>4 DEF UpsertAssignee, Pursues
  <2>7. LeadIn(assignees)'
    BY <2>6 DEF LeadIn
  <2> QED
    BY <2>1, <2>2, <2>5, <2>6, <2>7, SteadyNotifies
<1> QED
  BY <1>1, <1>2, <1>3, <1>4, <1>5, <1>6, <1>7, <1>8 DEF AssignmentResume

LEMMA DeskStepsAssignment ==
  ASSUME [DeskNext]_deskVars
  PROVE  /\ \/ TicketBegin \/ PeopleBegin \/ AssignmentResume \/ \E r \in Agent : AgentLost(r)
            \/ UNCHANGED assignmentVars
         /\ alone' = alone
         /\ alone => \/ Lone(handling) /\ (TicketBegin \/ PeopleBegin)
                     \/ AssignmentResume \/ UNCHANGED assignmentVars
<1>1. AssignmentContend => TicketBegin
  BY DEF AssignmentContend, TicketBegin
<1> QED
  BY <1>1 DEF DeskNext, deskVars, StatusesTurn, ClientsTurn, RepliesTurn, AssignmentTurn

LEMMA AssignmentInvInit ==
  ASSUME DeskInit PROVE AssignmentInv
<1> USE DEF DeskInit, AssignmentInit
<1>1. Idle \in Handling /\ Pursues(Idle)
  BY DEF Handling, Pursues, Idle
<1>2. Staffed
  BY <1>1 DEF Staffed, AssignmentTypeOK, Preference
<1>3. Steady /\ AssigneesTold
  BY <1>1 DEF Steady, OneAtATime, LeadIsAssignee, AssigneesTold
<1> QED
  BY <1>2, <1>3 DEF AssignmentInv

LEMMA AssignmentInvStep ==
  ASSUME AssignmentInv, [DeskNext]_deskVars
  PROVE  AssignmentInv'
<1>1. CASE UNCHANGED assignmentVars
  <2>1. Staffed' /\ AssigneesTold'
    BY <1>1 DEF AssignmentInv, Staffed, AssignmentTypeOK, assignmentVars, peopleVars, ticketVars,
                AssigneesTold, Owed
  <2>2. alone => Steady'
    BY <1>1 DEF AssignmentInv, Steady, Pursues, LeadIn, OneAtATime, LeadIsAssignee, Lone,
                assignmentVars, peopleVars, ticketVars
  <2> QED
    BY <2>1, <2>2, DeskStepsAssignment DEF AssignmentInv
<1>2. Staffed' /\ AssigneesTold'
  BY <1>1, DeskStepsAssignment, StaffedBegins, StaffedPeople, StaffedResumes, ToldBegins, ToldResumes
     DEF AssignmentInv
<1>3. alone => Steady'
  BY <1>1, DeskStepsAssignment, SteadyBegins, SteadyResumes DEF AssignmentInv
<1> QED
  BY <1>2, <1>3, DeskStepsAssignment DEF AssignmentInv

\* An assignee is taken off only by a request that has seen the ticket with them.
LEMMA OnlyDropsTakeOff ==
  ASSUME [DeskNext]_deskVars, NEW u \in assignees \ assignees'
  PROVE  \E r \in Agent : handling[r].op = "drop" /\ u \in handling[r].current \ handling[r].users
<1>1. PICK r \in Agent : DropAssignees(r)
  BY DeskStepsAssignment
     DEF assignmentVars, peopleVars, ticketVars, TicketBegin, PeopleBegin, AssignmentResume,
         UpdateAssignment, BulkAssign, UpdateWatchers, Open, ApplyRules, CreateRule, UpdateRule,
         SetActive, SetMembers, SetPreference, MarkRead, WriteAssignment, ReadAssignees, AddAssignees,
         RunRules, Tell, Told, Announce, MatchRule, WriteRoute, UpsertAssignee, AgentLost
<1> QED
  BY <1>1 DEF DropAssignees

\* However requests overlap, fail or die, an assignee who has not been told is owed the
\* notice by a request in progress or was made one by a request that failed first, and
\* requests take off only whom they saw and do not name; one after the other, of a ticket
\* that has assignees the person shown is one of them.
THEOREM AssignmentAlwaysSafe == DeskSpec => AssignmentSafe
<1>1. AssignmentInv => AssignmentTypeOK /\ AssigneesTold /\ (alone => LeadIsAssignee)
  BY DEF AssignmentInv, Staffed, Steady
<1>2. [DeskNext]_deskVars
        => [\A u \in assignees \ assignees' :
              \E r \in Agent : /\ handling[r].op = "drop"
                               /\ u \in handling[r].current \ handling[r].users]_assignmentVars
  BY OnlyDropsTakeOff
<1> QED
  BY <1>1, <1>2, AssignmentInvInit, AssignmentInvStep, PTL DEF DeskSpec, AssignmentSafe, DropsWhatItSaw

(***************************************************************************)
(* Automatic replies, one request after the other.                         *)
(***************************************************************************)

Replying ==
    {Idle}
      \cup [op : {"edit"}, template : Template, scope : {"GLOBAL", "CLIENT", "keep"},
            client : Customer \cup {Nobody, "keep"}]
      \cup [op : {"choose", "history"}, thread : Thread]

\* An edit gives a row whose scope and client fit; who chooses a template has found the
\* thread unanswered.
Results(q) ==
    q.op = "edit" =>
       /\ template[q.template] # Absent
       /\ ((IF q.scope = "keep" THEN template[q.template].scope ELSE q.scope) = "CLIENT")
             = ((IF q.client = "keep" THEN template[q.template].client ELSE q.client) # Nobody)
Choosing(q) ==
    q.op = "choose" => q.thread \notin answered /\ sent[q.thread] = 0 /\ arrived[q.thread] # 0

\* A thread has its answer, and the history of it is there or about to be written.
Remembered(h) ==
    \/ sent[h] = 0
    \/ sent[h] = 1 /\ (h \in answered \/ \E w \in Writer : reply[w].op = "history" /\ reply[w].thread = h)

RepliesInv ==
    /\ RepliesTypeOK /\ ScopeNamesClient
    /\ reply \in [Writer -> Replying] /\ OneAtATime(reply)
    /\ \A w \in Writer : Results(reply[w]) /\ Choosing(reply[w])
    /\ \A h \in Thread : Remembered(h)

LEMMA ReplyFields ==
  ASSUME RepliesTypeOK, reply \in [Writer -> Replying], NEW w \in Writer
  PROVE  /\ reply[w].op = "edit" =>
              reply[w] \in [op : {"edit"}, template : Template, scope : {"GLOBAL", "CLIENT", "keep"},
                            client : Customer \cup {Nobody, "keep"}]
         /\ reply[w].op \in {"choose", "history"} =>
              reply[w] \in [op : {"choose", "history"}, thread : Thread]
<1>1. reply[w] \in Replying
  OBVIOUS
<1> QED
  BY <1>1 DEF Replying, Idle

LEMMA TemplateFields ==
  ASSUME RepliesTypeOK, NEW t \in Template
  PROVE  /\ template[t] = Absent \/ template[t] \in TemplateRow
         /\ Absent \notin TemplateRow
         /\ t \in Present(template) <=> template[t] # Absent
<1>1. Absent \notin TemplateRow
  <2>1. SUFFICES ASSUME Absent \in TemplateRow PROVE FALSE
    OBVIOUS
  <2>2. DOMAIN Absent = {"scope", "client", "inbox", "active"}
    BY <2>1 DEF TemplateRow
  <2> QED
    BY <2>2 DEF Absent
<1> QED
  BY <1>1 DEF RepliesTypeOK, Present

\* A slot moves while the others are idle.
LEMMA ReplyMoves ==
  ASSUME reply \in [Writer -> Replying], NEW w \in Writer, NEW q \in Replying, Replies(w, q),
         \A v \in Writer : v # w => reply[v] = Idle
  PROVE  /\ reply' \in [Writer -> Replying] /\ reply'[w] = q
         /\ \A v \in Writer : v # w => reply'[v] = Idle
         /\ OneAtATime(reply)'
  BY DEF Replies, OneAtATime

\* Its client and mailbox given, a template is in one of four groups, the nearest first.
LEMMA ClosestIsPicked ==
  ASSUME RepliesTypeOK
  PROVE  PicksClosest
<1>1. SUFFICES ASSUME NEW c \in Customer \cup {Nobody}, NEW b \in Inbox \cup {Nobody}
               PROVE  LET fits == {t \in Template : Serves(t, c) /\ template[t].inbox \in {b, Nobody}}
                          near(t) == (IF template[t].scope = "CLIENT" THEN 2 ELSE 0)
                                       + (IF template[t].inbox = b THEN 1 ELSE 0)
                      IN  FindTemplate(c, b) = {t \in fits : \A s \in fits : near(s) <= near(t)}
  BY DEF PicksClosest
<1> DEFINE fits == {t \in Template : Serves(t, c) /\ template[t].inbox \in {b, Nobody}}
           near(t) == (IF template[t].scope = "CLIENT" THEN 2 ELSE 0)
                        + (IF template[t].inbox = b THEN 1 ELSE 0)
           of(scope, box) == {t \in Template : Serves(t, c) /\ template[t].scope = scope
                                                 /\ template[t].inbox = box}
           best == {t \in fits : \A s \in fits : near(s) <= near(t)}
<1>2. \A t \in fits : template[t].scope \in {"GLOBAL", "CLIENT"}
  BY TemplateFields DEF TemplateRow, Serves
<1>3. \A t \in fits : near(t) = IF t \in of("CLIENT", b) THEN 3
                                 ELSE IF t \in of("CLIENT", Nobody) THEN 2
                                 ELSE IF t \in of("GLOBAL", b) THEN 1 ELSE 0
  BY <1>2
<1>4. /\ of("CLIENT", b) \subseteq fits /\ of("CLIENT", Nobody) \subseteq fits
      /\ of("GLOBAL", b) \subseteq fits /\ of("GLOBAL", Nobody) \subseteq fits
  OBVIOUS
<1>5. \A t \in fits : \/ t \in of("CLIENT", b) \/ t \in of("CLIENT", Nobody)
                      \/ t \in of("GLOBAL", b) \/ t \in of("GLOBAL", Nobody)
  BY <1>2
<1>6. /\ of("CLIENT", b) \cap of("GLOBAL", b) = {} /\ of("CLIENT", b) \cap of("GLOBAL", Nobody) = {}
      /\ of("CLIENT", Nobody) \cap of("GLOBAL", b) = {}
      /\ of("CLIENT", Nobody) \cap of("GLOBAL", Nobody) = {}
      /\ \A x \in {"CLIENT", "GLOBAL"} : of(x, b) = of(x, Nobody) \/ of(x, b) \cap of(x, Nobody) = {}
  OBVIOUS
<1>7. FindTemplate(c, b) = IF of("CLIENT", b) # {} THEN of("CLIENT", b)
                           ELSE IF of("CLIENT", Nobody) # {} THEN of("CLIENT", Nobody)
                           ELSE IF of("GLOBAL", b) # {} THEN of("GLOBAL", b)
                           ELSE of("GLOBAL", Nobody)
  BY DEF FindTemplate
<1> HIDE DEF near, of, fits
<1>8. FindTemplate(c, b) = best
  <2>1. CASE of("CLIENT", b) # {}
    <3>1. \A t \in fits : near(t) <= 3
      BY <1>3
    <3>2. PICK x \in fits : near(x) = 3
      BY <1>3, <1>4, <2>1
    <3>3. best = {t \in fits : near(t) = 3}
      <4>1. \A t \in fits : near(t) \in 0 .. 3
        BY <1>3
      <4> QED
        BY <3>1, <3>2, <4>1
    <3> QED
      BY <1>3, <1>4, <1>7, <2>1, <3>3
  <2>2. CASE of("CLIENT", b) = {} /\ of("CLIENT", Nobody) # {}
    <3>1. \A t \in fits : near(t) \in 0 .. 2
      BY <1>3, <2>2
    <3>2. PICK x \in fits : near(x) = 2
      BY <1>3, <1>4, <2>2
    <3>3. best = {t \in fits : near(t) = 2}
      BY <3>1, <3>2
    <3> QED
      BY <1>3, <1>4, <1>7, <2>2, <3>3
  <2>3. CASE of("CLIENT", b) = {} /\ of("CLIENT", Nobody) = {} /\ of("GLOBAL", b) # {}
    <3>1. \A t \in fits : near(t) \in 0 .. 1
      BY <1>3, <2>3
    <3>2. PICK x \in fits : near(x) = 1
      BY <1>3, <1>4, <2>3
    <3>3. best = {t \in fits : near(t) = 1}
      BY <3>1, <3>2
    <3> QED
      BY <1>3, <1>4, <1>7, <2>3, <3>3
  <2>4. CASE of("CLIENT", b) = {} /\ of("CLIENT", Nobody) = {} /\ of("GLOBAL", b) = {}
    <3>1. \A t \in fits : near(t) = 0
      BY <1>3, <2>4
    <3>2. fits = of("GLOBAL", Nobody)
      BY <1>4, <1>5, <2>4
    <3>3. best = fits
      BY <3>1
    <3> QED
      BY <1>7, <2>4, <3>2, <3>3
  <2> QED
    BY <2>1, <2>2, <2>3, <2>4
<1> QED
  BY <1>8 DEF fits, near

\* What a change of the templates has to keep.
LEMMA TemplateChanges ==
  ASSUME RepliesInv, NEW t \in Template, NEW row \in TemplateRow,
         (row.scope = "CLIENT") = (row.client # Nobody),
         template' = [template EXCEPT ![t] = row], UNCHANGED <<answered, sent, arrived>>
  PROVE  (RepliesTypeOK /\ ScopeNamesClient)'
<1>1. template' \in [Template -> TemplateRow \cup {Absent}] /\ template'[t] = row
  BY DEF RepliesInv, RepliesTypeOK
<1>2. ASSUME NEW x \in Present(template)' PROVE (template[x].scope = "CLIENT")' = (template[x].client # Nobody)'
  <2>1. x \in Template /\ (x # t => template'[x] = template[x])
    BY <1>1, <1>2 DEF RepliesInv, RepliesTypeOK, Present
  <2>2. x # t => x \in Present(template)
    BY <1>2, <2>1, TemplateFields DEF RepliesInv, Present
  <2> QED
    BY <1>1, <2>1, <2>2 DEF RepliesInv, ScopeNamesClient
<1> QED
  BY <1>1, <1>2 DEF RepliesInv, RepliesTypeOK, ScopeNamesClient

LEMMA RepliesBegins ==
  ASSUME RepliesInv, Lone(reply), RepliesBegin
  PROVE  RepliesInv'
<1>0. /\ RepliesTypeOK /\ ScopeNamesClient /\ reply \in [Writer -> Replying]
      /\ \A w \in Writer : reply[w] = Idle
      /\ \A h \in Thread : sent[h] = 0 \/ (sent[h] = 1 /\ h \in answered)
  BY DEF RepliesInv, Lone, Remembered, Idle
<1>1. ASSUME NEW t \in Template, NEW scope \in {"GLOBAL", "CLIENT"}, NEW c \in Customer \cup {Nobody},
             NEW b \in Inbox \cup {Nobody}, CreateTemplate(t, scope, c, b)
      PROVE  RepliesInv'
  <2>1. PICK row : row = [scope |-> scope, client |-> IF scope = "CLIENT" THEN c ELSE Nobody,
                          inbox |-> b, active |-> TRUE]
    OBVIOUS
  <2>2. row \in TemplateRow
    BY <2>1 DEF TemplateRow
  <2>3. (row.scope = "CLIENT") = (row.client # Nobody)
    BY <1>1, <2>1 DEF CreateTemplate, ValidScope
  <2>4. (RepliesTypeOK /\ ScopeNamesClient)' /\ UNCHANGED <<answered, sent, arrived, reply>>
    BY <1>1, <2>1, <2>2, <2>3, TemplateChanges DEF CreateTemplate
  <2> QED
    BY <1>0, <2>4 DEF RepliesInv, OneAtATime, Results, Choosing, Remembered, Idle
<1>2. ASSUME NEW w \in Writer, NEW t \in Template, NEW scope \in {"GLOBAL", "CLIENT", "keep"},
             NEW c \in Customer \cup {Nobody, "keep"}, EditTemplate(w, t, scope, c)
      PROVE  RepliesInv'
  <2> DEFINE nextScope == IF scope = "keep" THEN template[t].scope ELSE scope
             nextClient == IF c = "keep" THEN template[t].client ELSE c
  <2>1. PICK q : q = [op |-> "edit", template |-> t, scope |-> scope,
                      client |-> IF scope = "keep" /\ c = "keep" THEN "keep"
                                 ELSE IF nextScope = "CLIENT" THEN nextClient ELSE Nobody]
    OBVIOUS
  <2>2. /\ template[t] \in TemplateRow /\ template[t] # Absent
        /\ (template[t].scope = "CLIENT") = (template[t].client # Nobody)
        /\ nextScope = "CLIENT" => nextClient # Nobody
    BY <1>0, <1>2, TemplateFields DEF EditTemplate, ScopeNamesClient, ValidScope
  <2>3. "keep" \notin Customer /\ "none" \notin Customer
    BY ScopesAssumption
  <2>4. nextScope \in {"GLOBAL", "CLIENT"} /\ nextClient \in Customer \cup {Nobody}
    BY <2>2 DEF TemplateRow
  <2>5. q \in Replying
    BY <2>1, <2>4 DEF Replying
  <2>6. q.op = "edit" /\ q.template = t /\ q.scope = scope
    BY <2>1
  <2>7. Results(q)
    BY <2>1, <2>2, <2>3, <2>4, <2>6 DEF Results, Nobody
  <2>8. Replies(w, q) /\ UNCHANGED <<template, answered, sent, arrived>>
    BY <1>2, <2>1 DEF EditTemplate
  <2>9. /\ reply' \in [Writer -> Replying] /\ reply'[w] = q /\ OneAtATime(reply)'
        /\ \A v \in Writer : v # w => reply'[v] = Idle
    BY <1>0, <2>5, <2>8, ReplyMoves
  <2>10. Results(q)'
    BY <2>7, <2>8 DEF Results
  <2>11. \A v \in Writer : Results(reply[v])' /\ Choosing(reply[v])'
    BY <2>6, <2>9, <2>10 DEF Results, Choosing, Idle
  <2> QED
    BY <1>0, <2>8, <2>9, <2>11 DEF RepliesInv, Remembered, RepliesTypeOK, ScopeNamesClient, Present
<1>3. ASSUME NEW t \in Template, NEW on \in BOOLEAN, SwitchTemplate(t, on) PROVE RepliesInv'
  <2>1. template[t] \in TemplateRow /\ (template[t].scope = "CLIENT") = (template[t].client # Nobody)
    BY <1>0, <1>3, TemplateFields DEF SwitchTemplate, ScopeNamesClient
  <2>2. PICK row : row = [template[t] EXCEPT !.active = on]
    OBVIOUS
  <2>3. row \in TemplateRow /\ (row.scope = "CLIENT") = (row.client # Nobody)
    BY <2>1, <2>2 DEF TemplateRow
  <2>4. template' = [template EXCEPT ![t] = row] /\ UNCHANGED <<answered, sent, arrived, reply>>
    BY <1>0, <1>3, <2>2 DEF SwitchTemplate, RepliesTypeOK
  <2>5. (RepliesTypeOK /\ ScopeNamesClient)'
    BY <2>3, <2>4, TemplateChanges
  <2> QED
    BY <1>0, <2>4, <2>5 DEF RepliesInv, OneAtATime, Results, Choosing, Remembered, Idle
<1>4. ASSUME NEW w \in Writer, NEW h \in Thread, Answer(w, h) PROVE RepliesInv'
  <2>1. PICK q : q = IF h \in answered THEN Idle ELSE [op |-> "choose", thread |-> h]
    OBVIOUS
  <2>2. q \in Replying /\ (q = Idle \/ (q = [op |-> "choose", thread |-> h] /\ h \notin answered))
    BY <2>1 DEF Replying
  <2>3. /\ arrived' = [arrived EXCEPT ![h] = @ + 1] /\ arrived[h] < MaxAnswers
        /\ Replies(w, q) /\ UNCHANGED <<template, answered, sent>>
    BY <1>4, <2>1 DEF Answer
  <2>4. MaxAnswers \in Nat /\ arrived \in [Thread -> 0 .. MaxAnswers]
    BY <1>0, ScopesAssumption DEF RepliesTypeOK
  <2>5. arrived[h] + 1 \in 0 .. MaxAnswers /\ arrived[h] + 1 # 0
    BY <2>3, <2>4
  <2>6. arrived' \in [Thread -> 0 .. MaxAnswers] /\ arrived'[h] # 0
    BY <2>3, <2>4, <2>5
  <2>7. /\ reply' \in [Writer -> Replying] /\ reply'[w] = q /\ OneAtATime(reply)'
        /\ \A v \in Writer : v # w => reply'[v] = Idle
    BY <1>0, <2>2, <2>3, ReplyMoves
  <2>8. \A v \in Writer : Results(reply[v])' /\ Choosing(reply[v])'
    BY <1>0, <2>2, <2>3, <2>6, <2>7 DEF Results, Choosing, Idle
  <2> QED
    BY <1>0, <2>3, <2>6, <2>7, <2>8 DEF RepliesInv, Remembered, RepliesTypeOK, ScopeNamesClient, Present
<1> QED
  BY <1>1, <1>2, <1>3, <1>4 DEF RepliesBegin

LEMMA RepliesResumes ==
  ASSUME RepliesInv, RepliesResume
  PROVE  RepliesInv'
<1>0. Idle \in Replying /\ RepliesTypeOK /\ ScopeNamesClient /\ reply \in [Writer -> Replying]
  BY DEF RepliesInv, Replying
<1>9. ASSUME NEW w \in Writer, reply[w] # Idle PROVE \A v \in Writer : v # w => reply[v] = Idle
  BY <1>0, <1>9 DEF RepliesInv, OneAtATime
<1>1. ASSUME NEW w \in Writer, CommitEdit(w) PROVE RepliesInv'
  <2>1. PICK q : q = reply[w]
    OBVIOUS
  <2>2. /\ q \in [op : {"edit"}, template : Template, scope : {"GLOBAL", "CLIENT", "keep"},
                  client : Customer \cup {Nobody, "keep"}]
        /\ q.op = "edit" /\ q # Idle /\ Results(q)
    BY <1>0, <1>1, <2>1, ReplyFields DEF CommitEdit, RepliesInv, Idle
  <2>3. PICK t \in Template : t = q.template
    BY <2>2
  <2>4. template[t] \in TemplateRow
    BY <1>0, <2>2, <2>3, TemplateFields DEF Results
  <2>5. PICK row : row = [template[t] EXCEPT !.scope = IF q.scope = "keep" THEN @ ELSE q.scope,
                                             !.client = IF q.client = "keep" THEN @ ELSE q.client]
    OBVIOUS
  <2>6. /\ row.scope = IF q.scope = "keep" THEN template[t].scope ELSE q.scope
        /\ row.client = IF q.client = "keep" THEN template[t].client ELSE q.client
        /\ row \in TemplateRow
    BY <2>2, <2>4, <2>5 DEF TemplateRow
  <2>7. (row.scope = "CLIENT") = (row.client # Nobody)
    BY <2>2, <2>3, <2>6 DEF Results
  <2>8. /\ template' = [template EXCEPT ![t] = row]
        /\ Replies(w, Idle) /\ UNCHANGED <<answered, sent, arrived>>
    BY <1>0, <1>1, <2>1, <2>3, <2>4, <2>5 DEF CommitEdit, RepliesTypeOK
  <2>9. (RepliesTypeOK /\ ScopeNamesClient)'
    BY <2>6, <2>7, <2>8, TemplateChanges
  <2>10. /\ reply' \in [Writer -> Replying] /\ OneAtATime(reply)'
         /\ \A v \in Writer : reply'[v] = Idle
    BY <1>0, <1>9, <2>1, <2>2, <2>8, ReplyMoves
  <2>11. \A h \in Thread : Remembered(h)'
    BY <1>0, <1>9, <2>1, <2>2, <2>8, <2>10 DEF RepliesInv, Remembered, Idle
  <2> QED
    BY <2>9, <2>10, <2>11 DEF RepliesInv, Results, Choosing, Idle
<1>2. ASSUME NEW w \in Writer, WriteHistory(w) PROVE RepliesInv'
  <2>1. PICK q : q = reply[w]
    OBVIOUS
  <2>2. q.op = "history" /\ q.thread \in Thread /\ q # Idle
    BY <1>0, <1>2, <2>1, ReplyFields DEF WriteHistory, Idle
  <2>3. /\ answered' = answered \cup {q.thread}
        /\ Replies(w, Idle) /\ UNCHANGED <<template, sent, arrived>>
    BY <1>2, <2>1 DEF WriteHistory
  <2>4. /\ reply' \in [Writer -> Replying] /\ OneAtATime(reply)'
        /\ \A v \in Writer : reply'[v] = Idle
    BY <1>0, <1>9, <2>1, <2>2, <2>3, ReplyMoves
  <2>5. \A h \in Thread : Remembered(h)'
    BY <1>0, <1>9, <2>1, <2>2, <2>3 DEF RepliesInv, Remembered, Idle
  <2> QED
    BY <1>0, <2>2, <2>3, <2>4, <2>5
       DEF RepliesInv, Results, Choosing, Idle, RepliesTypeOK, ScopeNamesClient, Present
<1>3. ASSUME NEW w \in Writer, NEW c \in Customer \cup {Nobody}, NEW b \in Inbox \cup {Nobody},
             SendReply(w, c, b)
      PROVE  RepliesInv'
  <2>1. PICK q : q = reply[w]
    OBVIOUS
  <2>2. q.op = "choose" /\ q.thread \in Thread /\ q # Idle /\ Choosing(q)
    BY <1>0, <1>3, <2>1, ReplyFields DEF SendReply, Idle, RepliesInv
  <2>3. UNCHANGED <<template, answered, arrived>>
    BY <1>3 DEF SendReply
  <2>4. CASE Replies(w, Idle) /\ UNCHANGED sent
    <3>1. /\ reply' \in [Writer -> Replying] /\ OneAtATime(reply)'
          /\ \A v \in Writer : reply'[v] = Idle
      BY <1>0, <1>9, <2>1, <2>2, <2>4, ReplyMoves
    <3>2. \A h \in Thread : Remembered(h)'
      BY <1>0, <1>9, <2>1, <2>2, <2>3, <2>4, <3>1 DEF RepliesInv, Remembered, Idle
    <3> QED
      BY <1>0, <2>3, <2>4, <3>1, <3>2
         DEF RepliesInv, Results, Choosing, Idle, RepliesTypeOK, ScopeNamesClient, Present
  <2>5. CASE /\ sent' = [sent EXCEPT ![q.thread] = @ + 1]
             /\ Replies(w, [op |-> "history", thread |-> q.thread])
    <3>1. PICK p : p = [op |-> "history", thread |-> q.thread]
      OBVIOUS
    <3>2. p \in Replying /\ p.op = "history" /\ p.thread = q.thread
      BY <2>2, <3>1 DEF Replying
    <3>3. /\ reply' \in [Writer -> Replying] /\ OneAtATime(reply)' /\ reply'[w] = p
          /\ \A v \in Writer : v # w => reply'[v] = Idle
      BY <1>0, <1>9, <2>1, <2>2, <2>5, <3>1, <3>2, ReplyMoves
    <3>4. MaxAnswers \in Nat /\ arrived \in [Thread -> 0 .. MaxAnswers] /\ sent \in [Thread -> 0 .. MaxAnswers]
      BY <1>0, ScopesAssumption DEF RepliesTypeOK
    <3>5. 1 \in 0 .. MaxAnswers
      <4>1. arrived[q.thread] \in 0 .. MaxAnswers /\ arrived[q.thread] # 0
        BY <2>2, <3>4 DEF Choosing
      <4> QED
        BY <3>4, <4>1
    <3>6. sent' = [sent EXCEPT ![q.thread] = 1]
      <4>1. sent[q.thread] = 0
        BY <2>2 DEF Choosing
      <4> QED
        BY <2>2, <2>5, <3>4, <4>1
    <3>7. sent' \in [Thread -> 0 .. MaxAnswers]
      BY <3>4, <3>5, <3>6
    <3>8. ASSUME NEW h \in Thread PROVE Remembered(h)'
      <4>1. CASE h = q.thread
        BY <2>2, <3>2, <3>3, <3>4, <3>6, <4>1 DEF Remembered
      <4>2. CASE h # q.thread
        <5>1. sent[h] = 0 \/ (sent[h] = 1 /\ h \in answered)
          BY <1>9, <2>1, <2>2 DEF RepliesInv, Remembered, Idle
        <5> QED
          BY <2>3, <3>4, <3>6, <4>2, <5>1 DEF Remembered
      <4> QED
        BY <4>1, <4>2
    <3>9. \A v \in Writer : Results(reply[v])' /\ Choosing(reply[v])'
      BY <3>2, <3>3 DEF Results, Choosing, Idle
    <3> QED
      BY <1>0, <2>3, <3>3, <3>7, <3>8, <3>9 DEF RepliesInv, RepliesTypeOK, ScopeNamesClient, Present
  <2> QED
    BY <1>3, <2>1, <2>4, <2>5 DEF SendReply
<1> QED
  BY <1>1, <1>2, <1>3 DEF RepliesResume

LEMMA RepliesInvInit ==
  ASSUME DeskInit PROVE RepliesInv
<1>1. MaxAnswers \in Nat /\ Idle \in Replying
  BY ScopesAssumption DEF Replying
<1>2. RepliesTypeOK /\ Present(template) = {}
  BY <1>1 DEF DeskInit, RepliesInit, RepliesTypeOK, Present
<1> QED
  BY <1>1, <1>2
     DEF DeskInit, RepliesInit, RepliesInv, ScopeNamesClient, OneAtATime, Results, Choosing, Remembered, Idle

LEMMA RepliesInvStep ==
  ASSUME RepliesInv, [DeskNext]_deskVars
  PROVE  RepliesInv'
<1>1. (Lone(reply) /\ RepliesBegin) \/ RepliesResume \/ UNCHANGED replyVars
  BY DEF DeskNext, deskVars, StatusesTurn, ClientsTurn, RepliesTurn, AssignmentTurn
<1>2. CASE UNCHANGED replyVars
  BY <1>2 DEF RepliesInv, replyVars, RepliesTypeOK, ScopeNamesClient, Present, OneAtATime, Results,
              Choosing, Remembered
<1> QED
  BY <1>1, <1>2, RepliesBegins, RepliesResumes

\* One administrator and one mail after the other: templates keep scope and client in
\* step, the closest one that serves is chosen, and a conversation is answered once a day.
THEOREM RepliesAlwaysSafe == DeskSpec => []RepliesSafe
<1>1. RepliesInv => RepliesSafe
  <2>1. RepliesInv => AnsweredOnce
    <3> SUFFICES ASSUME RepliesInv, NEW h \in Thread PROVE sent[h] <= 1
      BY DEF AnsweredOnce
    <3>1. sent[h] = 0 \/ sent[h] = 1
      BY DEF RepliesInv, Remembered
    <3> QED
      BY <3>1
  <2> QED
    BY <2>1, ClosestIsPicked DEF RepliesInv, RepliesSafe
<1> QED
  BY <1>1, RepliesInvInit, RepliesInvStep, PTL DEF DeskSpec

(***************************************************************************)
(* Clients.                                                                *)
(***************************************************************************)

Opened == [client : Few, contact : Few, sent : BOOLEAN]
Sitting ==
    {Idle}
      \cup [op : {"open_client"}, client : Client, named : BOOLEAN]
      \cup [op : {"claim"}, client : Client, active : BOOLEAN, new : BOOLEAN]
      \cup [op : {"know", "map", "reassign", "resolve"}, client : Client, left : SUBSET Mail, new : BOOLEAN]
      \cup [op : {"add_contact"}, client : Client]
      \cup [op : {"introduce", "file"}, mail : Mail, who : Few, seen : Opened \cup {Absent}, ours : BOOLEAN]
      \cup [op : {"record"}]

\* Who opened a ticket stays, and what a mail opened was read with its contact of its client.
Paired(row) == row.sent => row.contact = row.client
Follows(row, old) == row \in Opened /\ Paired(row) /\ (old # Absent => row.sent = old.sent)
Sees(q) ==
    /\ q.op \in {"introduce", "file"} =>
          \/ q.seen = Absent
          \/ Paired(q.seen) /\ opened[q.mail] # Absent /\ opened[q.mail].sent = q.seen.sent
    /\ q.op \in {"know", "map", "reassign", "resolve"} => q.left \subseteq Present(opened)

Served ==
    /\ ClientsTypeOK /\ ContactOfClient
    /\ opened \in [Mail -> Opened \cup {Absent}] /\ desk \in [Clerk -> Sitting]
    /\ \A r \in Clerk : Sees(desk[r])

\* Alone, a request's client is still there, it still has to do with every ticket without a
\* client, and the ticket that a mail answers is as it was read.
Counts(q) ==
    /\ q.op \in {"claim", "know", "map"} => Exists(q.client)
    /\ q.op \in {"know", "map", "reassign", "resolve"} => q.left = Orphans
    /\ q.op \in {"introduce", "file"} => q.seen = opened[q.mail]
    /\ q.op = "resolve" => q.left = {}

Settled ==
    /\ OneAtATime(desk) /\ (Claimed => Exists(domain.client))
    /\ \A r \in Clerk : Counts(desk[r])

ClientsInv == Served /\ (alone => Settled)

LEMMA SitFields ==
  ASSUME NEW q \in Sitting
  PROVE  /\ q.op = "open_client" => q.client \in Client /\ q.named \in BOOLEAN
         /\ q.op = "claim" => q.client \in Client /\ q.active \in BOOLEAN
         /\ q.op \in {"know", "map", "reassign", "resolve"} =>
              q \in [op : {"know", "map", "reassign", "resolve"}, client : Client, left : SUBSET Mail,
                     new : BOOLEAN]
         /\ q.op = "add_contact" => q.client \in Client
         /\ q.op \in {"introduce", "file"} =>
              q \in [op : {"introduce", "file"}, mail : Mail, who : Few, seen : Opened \cup {Absent}, ours : BOOLEAN]
  BY DEF Sitting, Idle

LEMMA OpenedFields ==
  /\ Absent \notin Opened
  /\ \A row \in Opened : row.client \in Few /\ row.contact \in Few /\ row.sent \in BOOLEAN
<1>1. ASSUME Absent \in Opened PROVE FALSE
  <2>1. DOMAIN Absent = {"client", "contact", "sent"}
    BY <1>1 DEF Opened
  <2> QED
    BY <2>1 DEF Absent
<1> QED
  BY <1>1 DEF Opened

LEMMA DomainFields ==
  ASSUME Served
  PROVE  /\ domain = Absent \/ domain \in [client : Client, active : BOOLEAN]
         /\ Absent \notin [client : Client, active : BOOLEAN]
<1>1. ASSUME Absent \in [client : Client, active : BOOLEAN] PROVE FALSE
  <2>1. DOMAIN Absent = {"client", "active"}
    BY <1>1
  <2> QED
    BY <2>1 DEF Absent
<1> QED
  BY <1>1 DEF Served, ClientsTypeOK

LEMMA ClientFields ==
  ASSUME Served, NEW c \in Client
  PROVE  /\ client[c] = Absent \/ client[c] \in [status : {"active", "inactive"}, deleted : BOOLEAN]
         /\ Absent \notin [status : {"active", "inactive"}, deleted : BOOLEAN]
<1>1. ASSUME Absent \in [status : {"active", "inactive"}, deleted : BOOLEAN] PROVE FALSE
  <2>1. DOMAIN Absent = {"status", "deleted"}
    BY <1>1
  <2> QED
    BY <2>1 DEF Absent
<1> QED
  BY <1>1 DEF Served, ClientsTypeOK

\* The tickets stay, and a request that moves sees them.
LEMMA ServedStays ==
  ASSUME Served,
         client' \in [Client -> {Absent} \cup [status : {"active", "inactive"}, deleted : BOOLEAN]],
         domain' \in {Absent} \cup [client : Client, active : BOOLEAN],
         unmapped' \in {"none", "open", "resolved"},
         contact' \in [Client -> {"none", "live", "deleted"}], refused' \in BOOLEAN,
         opened' \in [Mail -> Opened \cup {Absent}],
         \A t \in Mail : opened'[t] = opened[t] \/ Follows(opened'[t], opened[t]),
         desk' \in [Clerk -> Sitting],
         \A r \in Clerk : desk'[r] = desk[r] \/ Sees(desk[r])'
  PROVE  Served'
<1>1. \A t \in Mail : opened[t] # Absent => opened'[t] # Absent /\ opened'[t].sent = opened[t].sent
  BY OpenedFields DEF Follows
<1>2. Present(opened) \subseteq Present(opened)' /\ Present(opened)' \subseteq Mail
  BY <1>1 DEF Served, Present
<1>3. ContactOfClient'
  BY <1>2 DEF Served, ContactOfClient, Present, Follows, Paired
<1>4. ClientsTypeOK'
  <2>1. \A t \in Present(opened)' : opened'[t] \in Opened
    BY <1>2 DEF Present
  <2> QED
    BY <2>1, OpenedFields DEF ClientsTypeOK, Few
<1>5. ASSUME NEW r \in Clerk PROVE Sees(desk[r])'
  <2>1. CASE desk'[r] = desk[r]
    <3>1. PICK q \in Sitting : q = desk[r]
      BY DEF Served
    <3>2. Sees(q)'
      BY <1>1, <1>2, <3>1, SitFields DEF Sees, Served
    <3> QED
      BY <2>1, <3>1, <3>2
  <2> QED
    BY <2>1
<1> QED
  BY <1>3, <1>4, <1>5 DEF Served

LEMMA ServedTypes ==
  ASSUME Served
  PROVE  /\ client \in [Client -> {Absent} \cup [status : {"active", "inactive"}, deleted : BOOLEAN]]
         /\ domain \in {Absent} \cup [client : Client, active : BOOLEAN]
         /\ unmapped \in {"none", "open", "resolved"}
         /\ contact \in [Client -> {"none", "live", "deleted"}] /\ refused \in BOOLEAN
         /\ opened \in [Mail -> Opened \cup {Absent}] /\ desk \in [Clerk -> Sitting]
         /\ Present(opened) \subseteq Mail
         /\ \A t \in Present(opened) : opened[t] # Absent /\ opened[t] \in Opened
                                         /\ Paired(opened[t])
  BY DEF Served, ClientsTypeOK, Present, ContactOfClient, Paired

\* A slot moves; tickets stay as they are.
LEMMA ServedMoves ==
  ASSUME Served, NEW r \in Clerk, NEW q \in Sitting, Sits(r, q), Sees(q), opened' = opened,
         client' \in [Client -> {Absent} \cup [status : {"active", "inactive"}, deleted : BOOLEAN]],
         domain' \in {Absent} \cup [client : Client, active : BOOLEAN],
         unmapped' \in {"none", "open", "resolved"},
         contact' \in [Client -> {"none", "live", "deleted"}], refused' \in BOOLEAN
  PROVE  Served'
<1>1. desk' \in [Clerk -> Sitting] /\ desk'[r] = q /\ \A v \in Clerk : v # r => desk'[v] = desk[v]
  BY ServedTypes DEF Sits
<1>2. Sees(q)'
  BY DEF Sees, Present
<1> QED
  BY <1>1, <1>2, ServedTypes, ServedStays

\* The domain's client, when it is active, or nobody.
LEMMA MappedIsFew ==
  ASSUME Served PROVE Mapped \in Few
<1>1. CASE Mapped = {}
  BY <1>1 DEF Few
<1>2. CASE Mapped # {}
  <2>1. PICK c \in Mapped : TRUE
    BY <1>2
  <2>2. Mapped = {c} /\ c \in Client
    BY <2>1 DEF Mapped
  <2> QED
    BY <2>2 DEF Few
<1> QED
  BY <1>1, <1>2

LEMMA ServedBegins ==
  ASSUME Served, ClientsBegin
  PROVE  Served'
<1> USE ServedTypes
<1>0. ASSUME NEW r \in Clerk, NEW q \in Sitting, Sits(r, q), Sees(q),
             UNCHANGED <<client, domain, unmapped, contact, opened, refused>>
      PROVE  Served'
  BY <1>0, ServedMoves
<1>9. ASSUME UNCHANGED <<opened, desk>>,
             client' \in [Client -> {Absent} \cup [status : {"active", "inactive"}, deleted : BOOLEAN]],
             domain' \in {Absent} \cup [client : Client, active : BOOLEAN],
             unmapped' \in {"none", "open", "resolved"},
             contact' \in [Client -> {"none", "live", "deleted"}], refused' \in BOOLEAN
      PROVE  Served'
  BY <1>9, ServedStays
<1>1. ASSUME NEW r \in Clerk, NEW c \in Client, NEW named \in BOOLEAN, CreateClient(r, c, named)
      PROVE  Served'
  <2>1. PICK q : q = [op |-> "open_client", client |-> c, named |-> named]
    OBVIOUS
  <2>2. q \in Sitting /\ Sees(q)
    BY <2>1 DEF Sitting, Sees
  <2> QED
    BY <1>0, <1>1, <2>1, <2>2 DEF CreateClient
<1>2. ASSUME NEW r \in Clerk, NEW c \in Client, NEW on \in BOOLEAN, CreateDomain(r, c, on)
      PROVE  Served'
  <2> DEFINE fresh == domain = Absent
  <2>1. fresh \in BOOLEAN
    OBVIOUS
  <2>2. Sits(r, [op |-> "claim", client |-> c, active |-> on, new |-> fresh])
    BY <1>2 DEF CreateDomain
  <2> HIDE DEF fresh
  <2>3. PICK q : q = [op |-> "claim", client |-> c, active |-> on, new |-> fresh]
    OBVIOUS
  <2>4. q \in Sitting /\ Sees(q)
    BY <2>1, <2>3 DEF Sitting, Sees
  <2> QED
    BY <1>0, <1>2, <2>2, <2>3, <2>4 DEF CreateDomain
<1>3. ASSUME NEW r \in Clerk, NEW c \in Client, Associate(r, c) PROVE Served'
  <2> DEFINE fresh == domain = Absent
  <2>1. fresh \in BOOLEAN
    OBVIOUS
  <2>2. Sits(r, [op |-> IF Orphans = {} THEN "map" ELSE "know", client |-> c, left |-> Orphans,
                 new |-> fresh])
    BY <1>3 DEF Associate, Orphans
  <2> HIDE DEF fresh
  <2>3. PICK q : q = [op |-> IF Orphans = {} THEN "map" ELSE "know", client |-> c, left |-> Orphans,
                      new |-> fresh]
    OBVIOUS
  <2>4. Orphans \in SUBSET Mail /\ Orphans \subseteq Present(opened)
    BY DEF Orphans
  <2>5. q \in [op : {"know", "map", "reassign", "resolve"}, client : Client, left : SUBSET Mail,
               new : BOOLEAN] /\ q.left = Orphans
    BY <2>1, <2>3, <2>4
  <2>6. q \in Sitting /\ Sees(q)
    BY <2>4, <2>5 DEF Sitting, Sees
  <2> QED
    BY <1>0, <1>3, <2>2, <2>3, <2>6 DEF Associate
<1>4. ASSUME NEW r \in Clerk, NEW c \in Client, CreateContact(r, c) PROVE Served'
  <2>1. PICK q : q = [op |-> "add_contact", client |-> c]
    OBVIOUS
  <2>2. q \in Sitting /\ Sees(q)
    BY <2>1 DEF Sitting, Sees
  <2> QED
    BY <1>0, <1>4, <2>1, <2>2 DEF CreateContact
<1>5. ASSUME NEW r \in Clerk, NEW t \in Mail, ReceiveMail(r, t) PROVE Served'
  <2>1. PICK q : q = [op |-> IF {c \in Mapped : contact[c] # "live"} = {} THEN "file" ELSE "introduce",
                      mail |-> t, who |-> Mapped, seen |-> opened[t], ours |-> TRUE]
    OBVIOUS
  <2>2. q \in [op : {"introduce", "file"}, mail : Mail, who : Few, seen : Opened \cup {Absent}, ours : BOOLEAN]
    BY <2>1, MappedIsFew
  <2>3. q.seen = opened[t] /\ q.mail = t
    BY <2>1
  <2>4. opened[t] = Absent \/ (opened[t] # Absent /\ t \in Present(opened))
    BY DEF Present
  <2>5. q \in Sitting /\ Sees(q)
    BY <2>2, <2>3, <2>4 DEF Sitting, Sees
  <2> QED
    BY <1>0, <1>5, <2>1, <2>5 DEF ReceiveMail
<1>6. ASSUME NEW c \in Client, NEW status \in {"active", "inactive"}, UpdateClient(c, status)
      PROVE  Served'
  <2>1. client[c] \in [status : {"active", "inactive"}, deleted : BOOLEAN]
    BY <1>6 DEF UpdateClient, Exists
  <2>2. [client[c] EXCEPT !.status = status] \in [status : {"active", "inactive"}, deleted : BOOLEAN]
    BY <2>1
  <2>3. client' = [client EXCEPT ![c] = [client[c] EXCEPT !.status = status]]
    BY <1>6 DEF UpdateClient
  <2> QED
    BY <1>6, <1>9, <2>2, <2>3 DEF UpdateClient
<1>7. ASSUME NEW c \in Client, NEW then \in {"none", "deleted"}, LeaveContact(c, then) PROVE Served'
  BY <1>7, <1>9 DEF LeaveContact
<1>8. ASSUME NEW c \in Client, SoftDeleteClient(c) PROVE Served'
  <2>1. [status |-> "inactive", deleted |-> TRUE] \in [status : {"active", "inactive"}, deleted : BOOLEAN]
    OBVIOUS
  <2>2. domain' \in {Absent} \cup [client : Client, active : BOOLEAN]
    BY <1>8 DEF SoftDeleteClient
  <2> QED
    BY <1>8, <1>9, <2>1, <2>2 DEF SoftDeleteClient
<1>10. ASSUME NEW on \in BOOLEAN, UpdateDomain(on) PROVE Served'
  BY <1>9, <1>10 DEF UpdateDomain
<1>11. ASSUME NEW r \in Clerk, NEW t \in Mail, NEW who \in Few, ReceiveOther(r, t, who) PROVE Served'
  <2>1. PICK q : q = [op |-> "file", mail |-> t, who |-> who, seen |-> opened[t], ours |-> FALSE]
    OBVIOUS
  <2>2. q \in [op : {"introduce", "file"}, mail : Mail, who : Few, seen : Opened \cup {Absent}, ours : BOOLEAN]
    BY <2>1
  <2>3. q.op = "file" /\ q.seen = opened[t] /\ q.mail = t
    BY <2>1
  <2>4. opened[t] # Absent /\ Paired(opened[t])
    BY <1>11 DEF Present, ReceiveOther
  <2>5. q \in Sitting /\ Sees(q)
    BY <2>2, <2>3, <2>4 DEF Sitting, Sees
  <2> QED
    BY <1>0, <1>11, <2>1, <2>5 DEF ReceiveOther
<1>12. ASSUME NEW t \in Mail, NEW cs \in Few, NEW ks \in Few, CreateTicket(t, cs, ks) PROVE Served'
  <2>1. PICK row : row = [client |-> cs, contact |-> ks, sent |-> FALSE]
    OBVIOUS
  <2>2. opened' = [opened EXCEPT ![t] = row] /\ opened[t] = Absent
    BY <1>12, <2>1 DEF CreateTicket
  <2>3. Follows(row, opened[t])
    BY <2>1, <2>2 DEF Follows, Opened, Paired
  <2>4. opened' \in [Mail -> Opened \cup {Absent}]
        /\ \A m \in Mail : opened'[m] = opened[m] \/ Follows(opened'[m], opened[m])
    BY <2>2, <2>3 DEF Follows
  <2> QED
    BY <1>12, <2>4, ServedStays DEF CreateTicket
<1> QED
  BY <1>1, <1>2, <1>3, <1>4, <1>5, <1>6, <1>7, <1>8, <1>10, <1>11, <1>12 DEF ClientsBegin

LEMMA ServedResumes ==
  ASSUME Served, ClientsResume \/ \E r \in Clerk : ClerkLost(r)
  PROVE  Served'
<1> USE ServedTypes
<1>0. Idle \in Sitting /\ Sees(Idle) /\ [op |-> "record"] \in Sitting /\ Sees([op |-> "record"])
  BY DEF Sitting, Sees, Idle
<1>1. ASSUME NEW r \in Clerk, OpenClient(r) PROVE Served'
  <2>1. PICK q \in Sitting : q = desk[r]
    OBVIOUS
  <2>2. q.client \in Client
    BY <1>1, <2>1, SitFields DEF OpenClient
  <2>3. client' \in [Client -> {Absent} \cup [status : {"active", "inactive"}, deleted : BOOLEAN]]
    <3>1. PICK row : row = [status |-> "active", deleted |-> FALSE]
      OBVIOUS
    <3>2. row \in [status : {"active", "inactive"}, deleted : BOOLEAN]
      BY <3>1
    <3>3. client' = [client EXCEPT ![q.client] = row]
      BY <1>1, <2>1, <3>1 DEF OpenClient
    <3> QED
      BY <2>2, <3>2, <3>3
  <2>4. domain' \in {Absent} \cup [client : Client, active : BOOLEAN]
    BY <1>1, <2>1, <2>2 DEF OpenClient
  <2> QED
    BY <1>0, <1>1, <2>3, <2>4, ServedMoves DEF OpenClient
<1>2. ASSUME NEW r \in Clerk, ClaimDomain(r) PROVE Served'
  <2>1. PICK q \in Sitting : q = desk[r]
    OBVIOUS
  <2>2. q.client \in Client /\ q.active \in BOOLEAN
    BY <1>2, <2>1, SitFields DEF ClaimDomain
  <2>3. domain' \in {Absent} \cup [client : Client, active : BOOLEAN]
    BY <1>2, <2>1, <2>2 DEF ClaimDomain
  <2> QED
    BY <1>0, <1>2, <2>3, ServedMoves DEF ClaimDomain
<1>3. ASSUME NEW r \in Clerk, KnowSender(r) PROVE Served'
  <2>1. PICK q \in Sitting : q = desk[r]
    OBVIOUS
  <2>2. q \in [op : {"know", "map", "reassign", "resolve"}, client : Client, left : SUBSET Mail,
               new : BOOLEAN] /\ q.op = "know" /\ Sees(q)
    BY <1>3, <2>1, SitFields DEF KnowSender, Served
  <2>3. PICK p : p = [q EXCEPT !.op = "map"]
    OBVIOUS
  <2>4. p \in Sitting /\ Sees(p)
    BY <2>2, <2>3 DEF Sitting, Sees
  <2>5. contact' \in [Client -> {"none", "live", "deleted"}]
    BY <1>3, <2>1, <2>2 DEF KnowSender
  <2>6. Sits(r, Idle) \/ Sits(r, p)
    BY <1>3, <2>1, <2>3 DEF KnowSender
  <2> QED
    BY <1>0, <1>3, <2>4, <2>5, <2>6, ServedMoves DEF KnowSender
<1>4. ASSUME NEW r \in Clerk, MapDomain(r) PROVE Served'
  <2>1. PICK q \in Sitting : q = desk[r]
    OBVIOUS
  <2>2. q \in [op : {"know", "map", "reassign", "resolve"}, client : Client, left : SUBSET Mail,
               new : BOOLEAN] /\ q.op = "map" /\ Sees(q)
    BY <1>4, <2>1, SitFields DEF MapDomain, Served
  <2>3. PICK p : p = [q EXCEPT !.op = IF q.left = {} THEN "resolve" ELSE "reassign"]
    OBVIOUS
  <2>4. p \in [op : {"know", "map", "reassign", "resolve"}, client : Client, left : SUBSET Mail,
               new : BOOLEAN] /\ p.left = q.left
    BY <2>2, <2>3
  <2>5. p \in Sitting /\ Sees(p)
    BY <2>2, <2>4 DEF Sitting, Sees
  <2>6. domain' \in {Absent} \cup [client : Client, active : BOOLEAN]
    <3>1. domain' = domain \/ domain' = [client |-> q.client, active |-> TRUE]
      BY <1>4, <2>1 DEF MapDomain
    <3>2. [client |-> q.client, active |-> TRUE] \in [client : Client, active : BOOLEAN]
      BY <2>2
    <3> QED
      BY <3>1, <3>2
  <2>7. Sits(r, Idle) \/ Sits(r, p)
    BY <1>4, <2>1, <2>3 DEF MapDomain
  <2> QED
    BY <1>0, <1>4, <2>5, <2>6, <2>7, ServedMoves DEF MapDomain
<1>5. ASSUME NEW r \in Clerk, ReassignTicket(r) PROVE Served'
  <2>1. PICK q \in Sitting : q = desk[r]
    OBVIOUS
  <2>2. q \in [op : {"know", "map", "reassign", "resolve"}, client : Client, left : SUBSET Mail,
               new : BOOLEAN] /\ q.op = "reassign" /\ Sees(q)
    BY <1>5, <2>1, SitFields DEF ReassignTicket, Served
  <2> DEFINE c == desk[r].client
  <2>3. PICK t \in desk[r].left :
          /\ opened' = [opened EXCEPT ![t].client = {c}, ![t].contact = {c}]
          /\ Sits(r, [desk[r] EXCEPT !.left = @ \ {t},
                                     !.op = IF desk[r].left = {t} THEN "resolve" ELSE "reassign"])
    BY <1>5 DEF ReassignTicket
  <2>4. PICK p : p = [q EXCEPT !.left = @ \ {t}, !.op = IF q.left = {t} THEN "resolve" ELSE "reassign"]
    OBVIOUS
  <2>5. p \in [op : {"know", "map", "reassign", "resolve"}, client : Client, left : SUBSET Mail,
               new : BOOLEAN] /\ p.left = q.left \ {t}
    BY <2>2, <2>4
  <2>6. t \in Mail /\ opened[t] \in Opened /\ q.left \subseteq Present(opened) /\ c \in Client
        /\ \A m \in q.left : m \in Mail
    BY <2>1, <2>2, <2>3 DEF Sees
  <2>7. PICK row : row = [opened[t] EXCEPT !.client = {c}, !.contact = {c}]
    OBVIOUS
  <2>8. row \in Opened /\ Follows(row, opened[t])
    BY <2>6, <2>7 DEF Opened, Few, Follows, Paired
  <2>9. opened' = [opened EXCEPT ![t] = row]
    BY <2>3, <2>6, <2>7
  <2>10. opened' \in [Mail -> Opened \cup {Absent}]
         /\ \A m \in Mail : opened'[m] = opened[m] \/ Follows(opened'[m], opened[m])
    BY <2>6, <2>8, <2>9
  <2>11. desk' \in [Clerk -> Sitting] /\ desk'[r] = p /\ \A v \in Clerk : v # r => desk'[v] = desk[v]
    BY <2>1, <2>3, <2>4, <2>5 DEF Sits, Sitting
  <2>12. Present(opened) \subseteq Present(opened)'
    BY <2>6, <2>9, <2>8, OpenedFields DEF Present
  <2>13. Sees(p)'
    BY <2>5, <2>6, <2>12 DEF Sees
  <2>14. \A v \in Clerk : desk'[v] = desk[v] \/ Sees(desk[v])'
    BY <2>11, <2>13
  <2> QED
    BY <1>5, <2>10, <2>11, <2>14, ServedStays DEF ReassignTicket
<1>6. ASSUME NEW r \in Clerk, ResolveUnmapped(r) PROVE Served'
  BY <1>0, <1>6, ServedMoves DEF ResolveUnmapped
<1>7. ASSUME NEW r \in Clerk, AddContact(r) PROVE Served'
  <2>1. PICK q \in Sitting : q = desk[r]
    OBVIOUS
  <2>2. q.client \in Client
    BY <1>7, <2>1, SitFields DEF AddContact
  <2>3. contact' \in [Client -> {"none", "live", "deleted"}]
    BY <1>7, <2>1, <2>2 DEF AddContact
  <2> QED
    BY <1>0, <1>7, <2>3, ServedMoves DEF AddContact
<1>8. ASSUME NEW r \in Clerk, IntroduceSender(r) PROVE Served'
  <2>1. PICK q \in Sitting : q = desk[r]
    OBVIOUS
  <2>2. q \in [op : {"introduce", "file"}, mail : Mail, who : Few, seen : Opened \cup {Absent}, ours : BOOLEAN]
        /\ q.op = "introduce" /\ Sees(q)
    BY <1>8, <2>1, SitFields DEF IntroduceSender, Served
  <2>3. PICK p : p = [q EXCEPT !.op = "file"]
    OBVIOUS
  <2>4. p \in [op : {"introduce", "file"}, mail : Mail, who : Few, seen : Opened \cup {Absent}, ours : BOOLEAN]
        /\ p.seen = q.seen /\ p.mail = q.mail
    BY <2>2, <2>3
  <2>5. p \in Sitting /\ Sees(p)
    BY <2>2, <2>4 DEF Sitting, Sees
  <2>6. contact' \in [Client -> {"none", "live", "deleted"}]
    BY <1>8 DEF IntroduceSender
  <2>7. (Sits(r, Idle) \/ Sits(r, p)) /\ refused' \in BOOLEAN
    BY <1>8, <2>1, <2>3 DEF IntroduceSender
  <2> QED
    BY <1>0, <1>8, <2>5, <2>6, <2>7, ServedMoves DEF IntroduceSender
<1>9. ASSUME NEW r \in Clerk, FileMail(r) PROVE Served'
  <2>1. PICK q \in Sitting : q = desk[r]
    OBVIOUS
  <2>2. q \in [op : {"introduce", "file"}, mail : Mail, who : Few, seen : Opened \cup {Absent}, ours : BOOLEAN]
        /\ q.op = "file" /\ Sees(q)
    BY <1>9, <2>1, SitFields DEF FileMail, Served
  <2>3. PICK row : row = IF q.seen = Absent
                         THEN [client |-> q.who, contact |-> q.who, sent |-> TRUE]
                         ELSE [opened[q.mail] EXCEPT
                                 !.client = IF q.seen.client = {} THEN q.who ELSE @,
                                 !.contact = IF q.seen.contact = {} THEN q.who ELSE @]
    OBVIOUS
  <2>4. Follows(row, opened[q.mail])
    <3>1. CASE q.seen = Absent
      <4>1. opened[q.mail] = Absent
        BY <1>9, <2>1, <3>1 DEF FileMail
      <4> QED
        BY <2>2, <2>3, <3>1, <4>1 DEF Opened, Follows, Paired
    <3>2. CASE q.seen # Absent
      <4>1. q.mail \in Present(opened) /\ Paired(q.seen) /\ opened[q.mail].sent = q.seen.sent
        BY <2>2, <3>2 DEF Sees, Present
      <4>2. PICK old \in Opened : old = opened[q.mail] /\ Paired(old)
        BY <4>1
      <4>3. row = [old EXCEPT !.client = IF q.seen.client = {} THEN q.who ELSE @,
                              !.contact = IF q.seen.contact = {} THEN q.who ELSE @]
        BY <2>3, <3>2, <4>2
      <4>4. /\ row \in Opened /\ row.sent = old.sent
            /\ row.client = IF q.seen.client = {} THEN q.who ELSE old.client
            /\ row.contact = IF q.seen.contact = {} THEN q.who ELSE old.contact
        BY <2>2, <4>2, <4>3 DEF Opened
      <4> QED
        BY <4>1, <4>2, <4>4 DEF Follows, Paired
    <3> QED
      BY <3>1, <3>2
  <2>5. opened' = [opened EXCEPT ![q.mail] = row]
    <3>1. CASE q.seen = Absent
      BY <1>9, <2>1, <2>3, <3>1 DEF FileMail
    <3>2. CASE q.seen # Absent
      BY <1>9, <2>1, <2>3, <3>2 DEF FileMail
    <3> QED
      BY <3>1, <3>2
  <2>6. opened' \in [Mail -> Opened \cup {Absent}]
         /\ \A m \in Mail : opened'[m] = opened[m] \/ Follows(opened'[m], opened[m])
    BY <2>2, <2>4, <2>5 DEF Follows
  <2>7. PICK p : p = IF q.ours /\ q.who = {} THEN [op |-> "record"] ELSE Idle
    OBVIOUS
  <2>8. p \in Sitting /\ p.op \in {"record", "idle"}
    BY <1>0, <2>7 DEF Idle
  <2>9. desk' \in [Clerk -> Sitting] /\ desk'[r] = p /\ \A v \in Clerk : v # r => desk'[v] = desk[v]
    BY <1>9, <2>1, <2>7, <2>8 DEF FileMail, Sits
  <2>10. Sees(p)'
    BY <2>8 DEF Sees
  <2>11. \A v \in Clerk : desk'[v] = desk[v] \/ Sees(desk[v])'
    BY <2>9, <2>10
  <2> QED
    BY <1>9, <2>6, <2>9, <2>11, ServedStays DEF FileMail
<1>10. ASSUME NEW r \in Clerk, RecordUnknown(r) PROVE Served'
  BY <1>0, <1>10, ServedMoves DEF RecordUnknown
<1>11. ASSUME NEW r \in Clerk, ClerkLost(r) PROVE Served'
  BY <1>0, <1>11, ServedMoves DEF ClerkLost
<1> QED
  BY <1>1, <1>2, <1>3, <1>4, <1>5, <1>6, <1>7, <1>8, <1>9, <1>10, <1>11 DEF ClientsResume

\* A slot moves while the others are idle.
LEMMA SettledMoves ==
  ASSUME Served, NEW r \in Clerk, NEW q \in Sitting, Sits(r, q),
         \A v \in Clerk : v # r => desk[v] = Idle,
         (Claimed => Exists(domain.client))', Counts(q)'
  PROVE  Settled'
<1>1. /\ desk' \in [Clerk -> Sitting] /\ desk'[r] = q
      /\ \A v \in Clerk : v # r => desk'[v] = Idle
  BY ServedTypes DEF Sits, Sitting
<1>2. \A v \in Clerk : Counts(desk[v])'
  BY <1>1 DEF Counts, Idle
<1> QED
  BY <1>1, <1>2 DEF Settled, OneAtATime

LEMMA SettledBegins ==
  ASSUME Served, Settled, Lone(desk), ClientsBegin
  PROVE  Settled'
<1> USE ServedTypes
<1>0. ASSUME NEW r \in Clerk, NEW q \in Sitting, Sits(r, q), Counts(q),
             UNCHANGED <<client, domain, unmapped, contact, opened, refused>>
      PROVE  Settled'
  <2>1. \A v \in Clerk : desk[v] = Idle
    BY DEF Lone
  <2>2. (Claimed => Exists(domain.client))' /\ Counts(q)'
    BY <1>0 DEF Settled, Claimed, Exists, Counts, Orphans, Present
  <2> QED
    BY <1>0, <2>1, <2>2, SettledMoves
<1>9. ASSUME UNCHANGED desk, (Claimed => Exists(domain.client))' PROVE Settled'
  BY <1>9 DEF Lone, Settled, OneAtATime, Counts, Idle
<1>1. ASSUME NEW r \in Clerk, NEW c \in Client, NEW named \in BOOLEAN, CreateClient(r, c, named)
      PROVE  Settled'
  <2>1. PICK q : q = [op |-> "open_client", client |-> c, named |-> named]
    OBVIOUS
  <2>2. q \in Sitting /\ Counts(q)
    BY <2>1 DEF Sitting, Counts
  <2> QED
    BY <1>0, <1>1, <2>1, <2>2 DEF CreateClient
<1>2. ASSUME NEW r \in Clerk, NEW c \in Client, NEW on \in BOOLEAN, CreateDomain(r, c, on)
      PROVE  Settled'
  <2> DEFINE fresh == domain = Absent
  <2>1. fresh \in BOOLEAN
    OBVIOUS
  <2>2. Sits(r, [op |-> "claim", client |-> c, active |-> on, new |-> fresh]) /\ Exists(c)
    BY <1>2 DEF CreateDomain
  <2> HIDE DEF fresh
  <2>3. PICK q : q = [op |-> "claim", client |-> c, active |-> on, new |-> fresh]
    OBVIOUS
  <2>4. q \in Sitting /\ q.op = "claim" /\ q.client = c
    BY <2>1, <2>3 DEF Sitting
  <2>5. Counts(q)
    BY <2>2, <2>4 DEF Counts
  <2> QED
    BY <1>0, <1>2, <2>2, <2>3, <2>4, <2>5 DEF CreateDomain
<1>3. ASSUME NEW r \in Clerk, NEW c \in Client, Associate(r, c) PROVE Settled'
  <2> DEFINE fresh == domain = Absent
  <2>1. fresh \in BOOLEAN
    OBVIOUS
  <2>2. Sits(r, [op |-> IF Orphans = {} THEN "map" ELSE "know", client |-> c, left |-> Orphans,
                 new |-> fresh]) /\ Exists(c)
    BY <1>3 DEF Associate, Orphans
  <2> HIDE DEF fresh
  <2>3. PICK q : q = [op |-> IF Orphans = {} THEN "map" ELSE "know", client |-> c, left |-> Orphans,
                      new |-> fresh]
    OBVIOUS
  <2>4. Orphans \in SUBSET Mail
    BY DEF Orphans
  <2>5. q \in [op : {"know", "map"}, client : Client, left : SUBSET Mail, new : BOOLEAN]
        /\ q.left = Orphans /\ q.client = c
    BY <2>1, <2>3, <2>4
  <2>6. q \in Sitting /\ Counts(q)
    BY <2>2, <2>5 DEF Sitting, Counts
  <2> QED
    BY <1>0, <1>3, <2>2, <2>3, <2>6 DEF Associate
<1>4. ASSUME NEW r \in Clerk, NEW c \in Client, CreateContact(r, c) PROVE Settled'
  <2>1. PICK q : q = [op |-> "add_contact", client |-> c]
    OBVIOUS
  <2>2. q \in Sitting /\ Counts(q)
    BY <2>1 DEF Sitting, Counts
  <2> QED
    BY <1>0, <1>4, <2>1, <2>2 DEF CreateContact
<1>5. ASSUME NEW r \in Clerk, NEW t \in Mail, ReceiveMail(r, t) PROVE Settled'
  <2>1. PICK q : q = [op |-> IF {c \in Mapped : contact[c] # "live"} = {} THEN "file" ELSE "introduce",
                      mail |-> t, who |-> Mapped, seen |-> opened[t], ours |-> TRUE]
    OBVIOUS
  <2>2. q \in [op : {"introduce", "file"}, mail : Mail, who : Few, seen : Opened \cup {Absent}, ours : BOOLEAN]
    BY <2>1, MappedIsFew
  <2>3. q.seen = opened[t] /\ q.mail = t
    BY <2>1
  <2>4. q \in Sitting /\ Counts(q)
    BY <2>2, <2>3 DEF Sitting, Counts
  <2> QED
    BY <1>0, <1>5, <2>1, <2>4 DEF ReceiveMail
<1>6. ASSUME NEW c \in Client, NEW status \in {"active", "inactive"}, UpdateClient(c, status)
      PROVE  Settled'
  <2>1. client[c] \in [status : {"active", "inactive"}, deleted : BOOLEAN]
    BY <1>6 DEF UpdateClient, Exists
  <2>2. PICK row : row = [client[c] EXCEPT !.status = status]
    OBVIOUS
  <2>3. row \in [status : {"active", "inactive"}, deleted : BOOLEAN] /\ row.deleted = client[c].deleted
    BY <2>1, <2>2
  <2>4. client' = [client EXCEPT ![c] = row]
    BY <1>6, <2>2 DEF UpdateClient
  <2>5. \A d \in Client : Exists(d) => Exists(d)'
    BY <1>6, <2>3, <2>4, ClientFields DEF UpdateClient, Exists
  <2>6. Claimed' = Claimed /\ domain' = domain
    BY <1>6 DEF UpdateClient, Claimed
  <2>7. Claimed => domain.client \in Client
    BY DomainFields DEF Claimed
  <2>8. (Claimed => Exists(domain.client))'
    BY <2>5, <2>6, <2>7 DEF Settled, Exists
  <2> QED
    BY <1>6, <1>9, <2>8 DEF UpdateClient
<1>7. ASSUME NEW c \in Client, NEW then \in {"none", "deleted"}, LeaveContact(c, then) PROVE Settled'
  <2>1. UNCHANGED <<desk, client, domain>>
    BY <1>7 DEF LeaveContact
  <2> QED
    BY <1>9, <2>1 DEF Settled, Claimed, Exists
<1>8. ASSUME NEW c \in Client, SoftDeleteClient(c) PROVE Settled'
  <2>1. desk' = desk /\ \A d \in Client : d # c /\ Exists(d) => Exists(d)'
    BY <1>8, ClientFields DEF SoftDeleteClient, Exists
  <2>2. Claimed' => Claimed /\ domain.client # c /\ domain' = domain
    BY <1>8, DomainFields DEF SoftDeleteClient, Claimed
  <2>3. Claimed => domain.client \in Client
    BY DomainFields DEF Claimed
  <2>4. (Claimed => Exists(domain.client))'
    BY <2>1, <2>2, <2>3 DEF Settled, Exists
  <2> QED
    BY <1>9, <2>1, <2>4
<1>11. ASSUME NEW r \in Clerk, NEW t \in Mail, NEW who \in Few, ReceiveOther(r, t, who) PROVE Settled'
  <2>1. PICK q : q = [op |-> "file", mail |-> t, who |-> who, seen |-> opened[t], ours |-> FALSE]
    OBVIOUS
  <2>2. q \in [op : {"introduce", "file"}, mail : Mail, who : Few, seen : Opened \cup {Absent}, ours : BOOLEAN]
    BY <2>1
  <2>3. q.op = "file" /\ q.seen = opened[t] /\ q.mail = t
    BY <2>1
  <2>4. q \in Sitting /\ Counts(q)
    BY <2>2, <2>3 DEF Sitting, Counts
  <2> QED
    BY <1>0, <1>11, <2>1, <2>4 DEF ReceiveOther
<1>12. ASSUME NEW t \in Mail, NEW cs \in Few, NEW ks \in Few, CreateTicket(t, cs, ks) PROVE Settled'
  <2>1. UNCHANGED <<desk, client, domain>>
    BY <1>12 DEF CreateTicket
  <2> QED
    BY <1>9, <2>1 DEF Settled, Claimed, Exists
<1>10. ASSUME NEW on \in BOOLEAN, UpdateDomain(on) PROVE Settled'
  <2>1. domain' # Absent /\ domain'.client = domain.client /\ Exists(domain.client)
    BY <1>10, DomainFields DEF UpdateDomain
  <2>2. (Claimed => Exists(domain.client))'
    BY <1>10, <2>1 DEF UpdateDomain, Exists
  <2> QED
    BY <1>9, <1>10, <2>2 DEF UpdateDomain
<1> QED
  BY <1>1, <1>2, <1>3, <1>4, <1>5, <1>6, <1>7, <1>8, <1>10, <1>11, <1>12 DEF ClientsBegin

LEMMA SettledResumes ==
  ASSUME Served, Settled, ClientsResume
  PROVE  Settled'
<1> USE ServedTypes
<1>0. Idle \in Sitting /\ Counts(Idle)' /\ [op |-> "record"] \in Sitting /\ Counts([op |-> "record"])'
  BY DEF Sitting, Counts, Idle
<1>9. ASSUME NEW r \in Clerk, desk[r] # Idle PROVE \A v \in Clerk : v # r => desk[v] = Idle
  BY <1>9 DEF Settled, OneAtATime
<1>a. ASSUME UNCHANGED <<client, domain>> PROVE (Claimed => Exists(domain.client))'
  BY <1>a DEF Settled, Claimed, Exists
<1>1. ASSUME NEW r \in Clerk, OpenClient(r) PROVE Settled'
  <2>1. PICK q \in Sitting : q = desk[r]
    OBVIOUS
  <2>2. q.client \in Client /\ q # Idle
    BY <1>1, <2>1, SitFields DEF OpenClient, Idle
  <2>3. PICK row : row = [status |-> "active", deleted |-> FALSE]
    OBVIOUS
  <2>4. client' = [client EXCEPT ![q.client] = row] /\ client[q.client] = Absent
    BY <1>1, <2>1, <2>3 DEF OpenClient
  <2>5. row \in [status : {"active", "inactive"}, deleted : BOOLEAN] /\ ~row.deleted
    BY <2>3
  <2>6. Exists(q.client)' /\ \A d \in Client : Exists(d) => Exists(d)'
    BY <2>2, <2>4, <2>5, ClientFields DEF Exists
  <2>7. domain' = domain \/ domain' = [client |-> q.client, active |-> TRUE]
    BY <1>1, <2>1 DEF OpenClient
  <2>8. Claimed => domain.client \in Client
    BY DomainFields DEF Claimed
  <2>9. (Claimed => Exists(domain.client))'
    <3>1. CASE domain' = domain
      BY <2>6, <2>8, <3>1 DEF Settled, Exists, Claimed
    <3>2. CASE domain' = [client |-> q.client, active |-> TRUE]
      BY <2>6, <3>2 DEF Exists
    <3> QED
      BY <2>7, <3>1, <3>2
  <2> QED
    BY <1>0, <1>1, <1>9, <2>1, <2>2, <2>9, SettledMoves DEF OpenClient
<1>2. ASSUME NEW r \in Clerk, ClaimDomain(r) PROVE Settled'
  <2>1. PICK q \in Sitting : q = desk[r]
    OBVIOUS
  <2>2. q.op = "claim" /\ q # Idle /\ Exists(q.client)
    BY <1>2, <2>1 DEF ClaimDomain, Idle, Settled, Counts
  <2>3. domain' = domain \/ domain' = [client |-> q.client, active |-> q.active]
    BY <1>2, <2>1 DEF ClaimDomain
  <2>4. client' = client
    BY <1>2 DEF ClaimDomain
  <2>5. (Claimed => Exists(domain.client))'
    <3>1. CASE domain' = domain
      BY <1>a, <2>4, <3>1
    <3>2. CASE domain' = [client |-> q.client, active |-> q.active]
      BY <2>2, <2>4, <3>2 DEF Exists
    <3> QED
      BY <2>3, <3>1, <3>2
  <2> QED
    BY <1>0, <1>2, <1>9, <2>1, <2>2, <2>5, SettledMoves DEF ClaimDomain
<1>3. ASSUME NEW r \in Clerk, KnowSender(r) PROVE Settled'
  <2>1. PICK q \in Sitting : q = desk[r]
    OBVIOUS
  <2>2. q \in [op : {"know", "map", "reassign", "resolve"}, client : Client, left : SUBSET Mail,
               new : BOOLEAN] /\ q.op = "know" /\ q # Idle
    BY <1>3, <2>1, SitFields DEF KnowSender, Idle
  <2>3. PICK p : p = [q EXCEPT !.op = "map"]
    OBVIOUS
  <2>4. p \in Sitting /\ p.op = "map" /\ p.client = q.client /\ p.left = q.left
    BY <2>2, <2>3 DEF Sitting
  <2>5. Exists(q.client) /\ q.left = Orphans
    BY <2>1, <2>2 DEF Settled, Counts
  <2>6. Counts(p)'
    BY <1>3, <2>4, <2>5 DEF KnowSender, Counts, Exists, Orphans, Present
  <2>7. Sits(r, Idle) \/ Sits(r, p)
    BY <1>3, <2>1, <2>3 DEF KnowSender
  <2>8. (Claimed => Exists(domain.client))'
    BY <1>3, <1>a DEF KnowSender
  <2>9. \A v \in Clerk : v # r => desk[v] = Idle
    BY <1>9, <2>1, <2>2
  <2> QED
    BY <1>0, <2>4, <2>6, <2>7, <2>8, <2>9, SettledMoves
<1>4. ASSUME NEW r \in Clerk, MapDomain(r) PROVE Settled'
  <2>1. PICK q \in Sitting : q = desk[r]
    OBVIOUS
  <2>2. q \in [op : {"know", "map", "reassign", "resolve"}, client : Client, left : SUBSET Mail,
               new : BOOLEAN] /\ q.op = "map" /\ q # Idle
    BY <1>4, <2>1, SitFields DEF MapDomain, Idle
  <2>3. PICK p : p = [q EXCEPT !.op = IF q.left = {} THEN "resolve" ELSE "reassign"]
    OBVIOUS
  <2>4. p \in [op : {"know", "map", "reassign", "resolve"}, client : Client, left : SUBSET Mail,
               new : BOOLEAN] /\ p.left = q.left /\ p.op \in {"resolve", "reassign"}
        /\ (p.op = "resolve" => p.left = {})
    BY <2>2, <2>3
  <2>5. Exists(q.client) /\ q.left = Orphans
    BY <2>1, <2>2 DEF Settled, Counts
  <2>6. p \in Sitting /\ Counts(p)'
    BY <1>4, <2>4, <2>5 DEF MapDomain, Counts, Orphans, Present, Sitting
  <2>7. Sits(r, Idle) \/ Sits(r, p)
    BY <1>4, <2>1, <2>3 DEF MapDomain
  <2>8. client' = client /\ (domain' = domain \/ domain' = [client |-> q.client, active |-> TRUE])
    BY <1>4, <2>1 DEF MapDomain
  <2>9. (Claimed => Exists(domain.client))'
    <3>1. CASE domain' = domain
      BY <1>a, <2>8, <3>1
    <3>2. CASE domain' = [client |-> q.client, active |-> TRUE]
      BY <2>5, <2>8, <3>2 DEF Exists
    <3> QED
      BY <2>8, <3>1, <3>2
  <2>10. \A v \in Clerk : v # r => desk[v] = Idle
    BY <1>9, <2>1, <2>2
  <2> QED
    BY <1>0, <2>6, <2>7, <2>9, <2>10, SettledMoves
<1>5. ASSUME NEW r \in Clerk, ReassignTicket(r) PROVE Settled'
  <2>1. PICK q \in Sitting : q = desk[r]
    OBVIOUS
  <2>2. q \in [op : {"know", "map", "reassign", "resolve"}, client : Client, left : SUBSET Mail,
               new : BOOLEAN] /\ q.op = "reassign" /\ q # Idle /\ Sees(q) /\ q.left = Orphans
    BY <1>5, <2>1, SitFields DEF ReassignTicket, Idle, Settled, Counts, Served
  <2> DEFINE c == desk[r].client
  <2>3. PICK t \in desk[r].left :
          /\ opened' = [opened EXCEPT ![t].client = {c}, ![t].contact = {c}]
          /\ Sits(r, [desk[r] EXCEPT !.left = @ \ {t},
                                     !.op = IF desk[r].left = {t} THEN "resolve" ELSE "reassign"])
    BY <1>5 DEF ReassignTicket
  <2> HIDE DEF c
  <2>4. PICK p : p = [q EXCEPT !.left = @ \ {t}, !.op = IF q.left = {t} THEN "resolve" ELSE "reassign"]
    OBVIOUS
  <2>5. p \in [op : {"know", "map", "reassign", "resolve"}, client : Client, left : SUBSET Mail,
               new : BOOLEAN] /\ p.left = q.left \ {t} /\ p.op \in {"resolve", "reassign"}
        /\ (p.op = "resolve" => p.left = {})
    BY <2>2, <2>4
  <2>6. t \in Mail /\ opened[t] \in Opened /\ opened[t] # Absent
    BY <2>1, <2>2, <2>3 DEF Sees
  <2>7. opened'[t].client # {} /\ \A m \in Mail : m # t => opened'[m] = opened[m]
    BY <2>3, <2>6 DEF Opened
  <2>8. Orphans' = Orphans \ {t}
    <3>1. DOMAIN opened' = Mail /\ DOMAIN opened = Mail
      BY <2>3
    <3> QED
      BY <2>7, <3>1 DEF Orphans, Present
  <2>9. p \in Sitting /\ Counts(p)'
    BY <2>2, <2>5, <2>8 DEF Counts, Sitting
  <2>10. Sits(r, p) /\ (Claimed => Exists(domain.client))'
    BY <1>5, <1>a, <2>1, <2>3, <2>4 DEF ReassignTicket
  <2>11. \A v \in Clerk : v # r => desk[v] = Idle
    BY <1>9, <2>1, <2>2
  <2> QED
    BY <2>9, <2>10, <2>11, SettledMoves
<1>6. ASSUME NEW r \in Clerk, ResolveUnmapped(r) PROVE Settled'
  BY <1>0, <1>6, <1>9, <1>a, SettledMoves DEF ResolveUnmapped, Idle
<1>7. ASSUME NEW r \in Clerk, AddContact(r) PROVE Settled'
  BY <1>0, <1>7, <1>9, <1>a, SettledMoves DEF AddContact, Idle
<1>8. ASSUME NEW r \in Clerk, IntroduceSender(r) PROVE Settled'
  <2>1. PICK q \in Sitting : q = desk[r]
    OBVIOUS
  <2>2. q \in [op : {"introduce", "file"}, mail : Mail, who : Few, seen : Opened \cup {Absent}, ours : BOOLEAN]
        /\ q # Idle /\ q.op = "introduce" /\ Counts(q)
    BY <1>8, <2>1, SitFields DEF IntroduceSender, Idle, Settled
  <2>3. PICK p : p = [q EXCEPT !.op = "file"]
    OBVIOUS
  <2>4. p \in Sitting /\ p.op = "file" /\ p.seen = q.seen /\ p.mail = q.mail
    BY <2>2, <2>3 DEF Sitting
  <2>7. Counts(p)'
    BY <1>8, <2>2, <2>4 DEF Counts, IntroduceSender
  <2>5. (Sits(r, Idle) \/ Sits(r, p)) /\ (Claimed => Exists(domain.client))'
    BY <1>8, <1>a, <2>1, <2>3 DEF IntroduceSender
  <2>6. \A v \in Clerk : v # r => desk[v] = Idle
    BY <1>9, <2>1, <2>2
  <2> QED
    BY <1>0, <2>4, <2>5, <2>6, <2>7, SettledMoves
<1>10. ASSUME NEW r \in Clerk, FileMail(r) PROVE Settled'
  <2>1. desk[r] # Idle /\ UNCHANGED <<client, domain>>
    BY <1>10 DEF FileMail, Idle
  <2>2. Sits(r, [op |-> "record"]) \/ Sits(r, Idle)
    BY <1>10 DEF FileMail
  <2> QED
    BY <1>0, <1>9, <1>a, <2>1, <2>2, SettledMoves
<1>11. ASSUME NEW r \in Clerk, RecordUnknown(r) PROVE Settled'
  BY <1>0, <1>9, <1>11, <1>a, SettledMoves DEF RecordUnknown, Idle
<1> QED
  BY <1>1, <1>2, <1>3, <1>4, <1>5, <1>6, <1>7, <1>8, <1>10, <1>11 DEF ClientsResume

LEMMA DeskStepsClients ==
  ASSUME [DeskNext]_deskVars
  PROVE  /\ \/ ClientsBegin \/ ClientsResume \/ \E r \in Clerk : ClerkLost(r)
            \/ UNCHANGED clientVars
         /\ alone' = alone
         /\ alone => \/ Lone(desk) /\ ClientsBegin
                     \/ ClientsResume \/ UNCHANGED clientVars
<1>1. ClientsContend => ClientsBegin
  <2>1. (CHOOSE t \in Mail : TRUE) \in Mail
    BY MailAssumption
  <2>2. ASSUME NEW r \in Clerk, NEW c \in Client, CreateClient(r, c, TRUE) \/ CreateDomain(r, c, TRUE)
        PROVE  ClientsBegin
    BY <2>2 DEF ClientsBegin
  <2>3. ASSUME NEW r \in Clerk, NEW who \in Few, NEW t \in Mail, ReceiveMail(r, t) \/ ReceiveOther(r, t, who)
        PROVE  ClientsBegin
    BY <2>3 DEF ClientsBegin
  <2>4. UpdateDomain(FALSE) => ClientsBegin
    BY DEF ClientsBegin
  <2>5. ASSUME NEW r \in Clerk, NEW c \in Client, Associate(r, c) \/ SoftDeleteClient(c)
        PROVE  ClientsBegin
    BY <2>5 DEF ClientsBegin
  <2>6. ASSUME NEW c \in Client, SoftDeleteClient(c) PROVE ClientsBegin
    BY <2>6 DEF ClientsBegin
  <2> QED
    BY <2>1, <2>2, <2>3, <2>4, <2>5, <2>6 DEF ClientsContend
<1> QED
  BY <1>1 DEF DeskNext, deskVars, StatusesTurn, ClientsTurn, RepliesTurn, AssignmentTurn

LEMMA ClientsInvInit ==
  ASSUME DeskInit PROVE ClientsInv
<1> USE DEF DeskInit, ClientsInit
<1>1. Present(opened) = {} /\ Idle \in Sitting /\ Sees(Idle) /\ Counts(Idle)
  BY DEF Present, Sitting, Sees, Counts, Idle
<1>2. Served
  BY <1>1 DEF Served, ClientsTypeOK, ContactOfClient
<1>3. Settled
  BY <1>1 DEF Settled, OneAtATime, Claimed
<1> QED
  BY <1>2, <1>3 DEF ClientsInv

LEMMA ClientsInvStep ==
  ASSUME ClientsInv, [DeskNext]_deskVars
  PROVE  ClientsInv'
<1>1. CASE UNCHANGED clientVars
  <2>1. Served'
    BY <1>1 DEF ClientsInv, Served, ClientsTypeOK, ContactOfClient, Present, Sees, clientVars
  <2>2. alone => Settled'
    BY <1>1 DEF ClientsInv, Settled, OneAtATime, Claimed, Exists, Counts, Orphans, Present, clientVars
  <2> QED
    BY <2>1, <2>2, DeskStepsClients DEF ClientsInv
<1>2. Served'
  BY <1>1, DeskStepsClients, ServedBegins, ServedResumes DEF ClientsInv
<1>3. alone => Settled'
  BY <1>1, DeskStepsClients, SettledBegins, SettledResumes DEF ClientsInv
<1> QED
  BY <1>2, <1>3, DeskStepsClients DEF ClientsInv

\* A domain counts as resolved when no ticket was left.
LEMMA ResolvingLeavesNone ==
  ASSUME ClientsInv, [DeskNext]_deskVars, alone
  PROVE  AssociatesAll
<1> SUFFICES ASSUME unmapped # unmapped', unmapped' = "resolved"
             PROVE  Orphans = {}
  BY DEF AssociatesAll
<1>1. PICK r \in Clerk : ResolveUnmapped(r)
  BY DeskStepsClients
     DEF clientVars, ClientsBegin, ClientsResume, CreateClient, CreateDomain, Associate, CreateContact,
         ReceiveMail, UpdateClient, LeaveContact, SoftDeleteClient, UpdateDomain, OpenClient, ClaimDomain,
         KnowSender, MapDomain, ReassignTicket, AddContact, IntroduceSender, FileMail, RecordUnknown,
         CreateTicket, ReceiveOther
<1>2. Counts(desk[r]) /\ desk[r].op = "resolve"
  BY <1>1 DEF ResolveUnmapped, ClientsInv, Settled
<1> QED
  BY <1>2 DEF Counts, Orphans

\* A mail fills in what its ticket does not have, and so does associating a domain.
LEMMA NothingReplaced ==
  ASSUME ClientsInv, [DeskNext]_deskVars, alone
  PROVE  ChoicesKept
<1> USE ServedTypes
<1>1. Served /\ Settled
  BY DEF ClientsInv
<1>2. CASE opened' = opened
  BY <1>2 DEF ChoicesKept
<1>3. ASSUME NEW m \in Mail, NEW cs \in Few, NEW ks \in Few, CreateTicket(m, cs, ks) PROVE ChoicesKept
  BY <1>1, <1>3 DEF CreateTicket, ChoicesKept, Present
<1>4. ASSUME NEW r \in Clerk, ReassignTicket(r) PROVE ChoicesKept
  <2>1. Counts(desk[r]) /\ desk[r].op = "reassign"
    BY <1>1, <1>4 DEF Settled, ReassignTicket
  <2>2. PICK t \in Orphans : \A m \in Mail : m # t => opened'[m] = opened[m]
    BY <1>1, <1>4, <2>1 DEF ReassignTicket, Counts
  <2>3. opened[t].client = {} /\ opened[t].contact = {}
    BY <1>1 DEF Orphans, Paired
  <2> QED
    BY <1>1, <2>2, <2>3 DEF ChoicesKept
<1>5. ASSUME NEW r \in Clerk, FileMail(r) PROVE ChoicesKept
  <2>1. PICK q \in Sitting : q = desk[r]
    BY <1>1
  <2>2. q.mail \in Mail /\ q.seen = opened[q.mail]
    BY <1>1, <1>5, <2>1, SitFields DEF FileMail, Settled, Counts
  <2>3. ASSUME NEW t \in Present(opened)
        PROVE  /\ opened[t].client # {} => opened'[t].client = opened[t].client
               /\ opened[t].contact # {} => opened'[t].contact = opened[t].contact
    <3>1. CASE t # q.mail
      BY <1>1, <1>5, <2>1, <2>2, <3>1 DEF FileMail
    <3>2. CASE t = q.mail
      <4>1. PICK old \in Opened : old = opened[t] /\ q.seen = old /\ q.seen # Absent
        BY <1>1, <2>2, <3>2
      <4>2. opened'[t] = [old EXCEPT !.client = IF old.client = {} THEN q.who ELSE @,
                                     !.contact = IF old.contact = {} THEN q.who ELSE @]
        BY <1>1, <1>5, <2>1, <2>2, <3>2, <4>1 DEF FileMail
      <4> QED
        BY <4>1, <4>2 DEF Opened
    <3> QED
      BY <3>1, <3>2
  <2> QED
    BY <2>3 DEF ChoicesKept
<1>6. \/ opened' = opened
      \/ \E m \in Mail, cs \in Few, ks \in Few : CreateTicket(m, cs, ks)
      \/ \E r \in Clerk : ReassignTicket(r) \/ FileMail(r)
  BY DeskStepsClients
     DEF clientVars, ClientsBegin, ClientsResume, CreateClient, CreateDomain, Associate, CreateContact,
         ReceiveMail, ReceiveOther, UpdateClient, LeaveContact, SoftDeleteClient, UpdateDomain, OpenClient,
         ClaimDomain, KnowSender, MapDomain, ResolveUnmapped, AddContact, IntroduceSender, RecordUnknown
<1> QED
  BY <1>2, <1>3, <1>4, <1>5, <1>6

\* However requests overlap, the contact of a ticket opened by mail is one of its client's;
\* with one request after the other a deleted client keeps no domain, associating a domain
\* leaves none of the sender's tickets without a client, and nothing replaces the client or
\* the contact of a ticket.
THEOREM ClientsAlwaysSafe == DeskSpec => ClientsSafe
<1>1. ClientsInv => ClientsTypeOK /\ ContactOfClient /\ (alone => DeletedClientsUnmapped)
  BY DEF ClientsInv, Served, Settled, DeletedClientsUnmapped, Exists
<1>2. ClientsInv /\ [DeskNext]_deskVars => [alone => AssociatesAll /\ ChoicesKept]_deskVars
  BY ResolvingLeavesNone, NothingReplaced
<1> QED
  BY <1>1, <1>2, ClientsInvInit, ClientsInvStep, PTL DEF DeskSpec, ClientsSafe

(***************************************************************************)
(* The status catalogue.                                                   *)
(***************************************************************************)

Eligible == {s \in Status : Behaviour[s] = "eligible"}
Allowed == {x \in RuleRow : Behaviour[x.target] # "merged"}
Tickets == {{}} \cup {{s} : s \in Status}

\* What a request goes on with after ensureDefaults.
Onward ==
    {Listing} \cup {NewTicket} \cup Validating \cup Resolving
      \cup {q \in Creating : q.default = TRUE => q.status \in Eligible}
Administering ==
    Onward \cup [op : {"seed", "count", "seed_rules"}, then : Onward]
      \cup [op : {"clear"}, status : Eligible, new : BOOLEAN, activate : BOOLEAN]
      \cup {q \in [op : {"commit"}, status : Eligible, new : BOOLEAN, activate : BOOLEAN,
                   cleared : SUBSET Status] : q.status \notin q.cleared}
      \cup [op : {"counting", "delete", "archive", "disable", "insert_ticket", "move"}, status : Status]
      \cup [op : {"insert_rule", "rewrite_rule"}, id : Rule, rule : Allowed, new : BOOLEAN]

Catalogued ==
    /\ catalogue \in [Status -> StatusRow \cup {Absent}] /\ Defaults \subseteq Eligible
    /\ rules \in [Rule -> Allowed \cup {Absent}] /\ onTicket \in Tickets
    /\ adm \in [Admin -> Administering]

\* Alone, what a request read of the defaults and the ticket still holds.
Chosen(q) ==
    /\ q.op = "seed" => Known = {}
    /\ q.op \in {"count", "seed_rules", "create"} => Known # {}
    /\ q.op = "commit" => q.cleared = Defaults \ {q.status}
    /\ q.op \in {"counting", "delete", "archive"} => q.status \notin Defaults
    /\ q.op = "delete" => q.status \notin onTicket

Orderly ==
    /\ OneAtATime(adm) /\ (Known # {} => \E s \in Status : Defaults = {s})
    /\ \A r \in Admin : Chosen(adm[r])

CatalogueInv == Catalogued /\ (alone => Orderly)

LEMMA AdmFields ==
  ASSUME NEW q \in Administering
  PROVE  /\ q.op \in {"seed", "count", "seed_rules"} =>
              q \in [op : {"seed", "count", "seed_rules"}, then : Onward]
         /\ q.op = "create" => /\ q.status \in Status /\ q.default \in BOOLEAN
                               /\ q.default = TRUE => q.status \in Eligible
         /\ q.op = "clear" => q \in [op : {"clear"}, status : Eligible, new : BOOLEAN, activate : BOOLEAN]
         /\ q.op = "commit" =>
              /\ q \in [op : {"commit"}, status : Eligible, new : BOOLEAN, activate : BOOLEAN,
                        cleared : SUBSET Status]
              /\ q.status \notin q.cleared
         /\ q.op \in {"counting", "delete", "archive", "disable", "insert_ticket"} =>
              q \in [op : {"counting", "delete", "archive", "disable", "insert_ticket"}, status : Status]
         /\ q.op \in {"resolve", "move"} => q \in [op : {"resolve", "move"}, status : Status]
         /\ q.op = "validate" => q \in Validating
         /\ q.op \in {"insert_rule", "rewrite_rule"} =>
              q \in [op : {"insert_rule", "rewrite_rule"}, id : Rule, rule : Allowed, new : BOOLEAN]
<1>1. CASE q \in {Listing} \cup {NewTicket}
  BY <1>1 DEF Listing, NewTicket
<1>2. CASE q \in Validating
  BY <1>2 DEF Validating
<1>3. CASE q \in Resolving
  BY <1>3 DEF Resolving
<1>4. CASE q \in {x \in Creating : x.default = TRUE => x.status \in Eligible}
  BY <1>4 DEF Creating
<1>5. CASE q \notin Onward
  BY <1>5 DEF Administering
<1> QED
  BY <1>1, <1>2, <1>3, <1>4, <1>5 DEF Onward

LEMMA RowFields ==
  ASSUME Catalogued
  PROVE  /\ Absent \notin StatusRow /\ Absent \notin RuleRow
         /\ \A s \in Status : s \notin Known => catalogue[s] = Absent
         /\ \A s \in Known : s \in Status /\ catalogue[s] \in StatusRow /\ catalogue[s] # Absent
         /\ Defaults \subseteq Known
         /\ \A k \in Present(rules) : k \in Rule /\ rules[k] \in Allowed
         /\ \A k \in Rule : rules[k] # Absent => rules[k] \in Allowed
<1>1. ASSUME Absent \in StatusRow PROVE FALSE
  <2>1. DOMAIN Absent = {"active", "default"}
    BY <1>1 DEF StatusRow
  <2> QED
    BY <2>1 DEF Absent
<1>2. ASSUME Absent \in RuleRow PROVE FALSE
  <2>1. DOMAIN Absent = {"target", "from", "active"}
    BY <1>2 DEF RuleRow
  <2> QED
    BY <2>1 DEF Absent
<1> QED
  BY <1>1, <1>2 DEF Catalogued, Known, Defaults, Present

LEMMA CataloguedMeans ==
  ASSUME Catalogued
  PROVE  StatusesTypeOK /\ MergedReserved
<1>1. ASSUME NEW q \in Administering
      PROVE  q.op \in {"idle", "seed", "count", "seed_rules", "create", "clear", "commit", "remove",
                       "counting", "delete", "archive", "disable", "validate", "insert_rule",
                       "rewrite_rule", "default", "insert_ticket", "resolve", "move"}
  <2>1. CASE q \in {Listing} \cup {NewTicket} \cup Validating \cup Resolving \cup Creating
    BY <2>1 DEF Listing, NewTicket, Validating, Resolving, Creating
  <2>2. CASE q \notin Onward
    BY <2>2 DEF Administering
  <2> QED
    BY <2>1, <2>2 DEF Onward
<1>2. StatusesTypeOK
  BY <1>1 DEF Catalogued, StatusesTypeOK, Tickets, Allowed
<1>3. MergedReserved
  BY RowFields DEF Catalogued, MergedReserved, Eligible, Allowed
<1> QED
  BY <1>2, <1>3

LEMMA CataloguedMoves ==
  ASSUME Catalogued, NEW r \in Admin, NEW q \in Administering, To(r, q),
         catalogue' \in [Status -> StatusRow \cup {Absent}], Defaults' \subseteq Eligible,
         rules' \in [Rule -> Allowed \cup {Absent}], onTicket' \in Tickets
  PROVE  Catalogued'
<1>1. adm' \in [Admin -> Administering]
  BY DEF Catalogued, To
<1> QED
  BY <1>1 DEF Catalogued

LEMMA CataloguedSlot ==
  ASSUME Catalogued, NEW r \in Admin, NEW q \in Administering, To(r, q),
         UNCHANGED <<catalogue, rules, onTicket>>
  PROVE  Catalogued'
<1>1. Defaults' = Defaults
  BY DEF Defaults, Known, Present
<1> QED
  BY <1>1, CataloguedMoves DEF Catalogued

\* A change of what is not the default.
LEMMA SameDefaults ==
  ASSUME Catalogued, NEW s \in Known, NEW row \in StatusRow, row.default = catalogue[s].default,
         catalogue' = [catalogue EXCEPT ![s] = row]
  PROVE  /\ catalogue' \in [Status -> StatusRow \cup {Absent}]
         /\ Known' = Known /\ Defaults' = Defaults
<1> USE RowFields
<1>1. catalogue' \in [Status -> StatusRow \cup {Absent}] /\ catalogue'[s] = row /\ row # Absent
  BY DEF Catalogued
<1>2. \A x \in Status : x # s => catalogue'[x] = catalogue[x]
  BY DEF Catalogued
<1>3. Known' = Known
  BY <1>1, <1>2 DEF Known, Present, Catalogued
<1>4. Defaults' = Defaults
  BY <1>1, <1>2, <1>3 DEF Defaults
<1> QED
  BY <1>1, <1>3, <1>4

\* A request begins: the defaults stay as they are, and what it has read is so.
StatusesBegun ==
    /\ Catalogued' /\ Known' = Known /\ Defaults' = Defaults /\ onTicket' = onTicket
    /\ UNCHANGED adm \/ \E r \in Admin, q \in Administering : To(r, q) /\ Chosen(q)

LEMMA SlotBegun ==
  ASSUME Catalogued, NEW r \in Admin, NEW q \in Administering, To(r, q), Chosen(q),
         UNCHANGED <<catalogue, rules, onTicket>>
  PROVE  StatusesBegun
<1>1. Known' = Known /\ Defaults' = Defaults
  BY DEF Known, Defaults, Present
<1> QED
  BY <1>1, CataloguedSlot DEF StatusesBegun

LEMMA EnsureBegun ==
  ASSUME Catalogued, NEW r \in Admin, NEW then \in Onward, EnsureDefaults(r, then)
  PROVE  StatusesBegun
<1>1. PICK q : q = [op |-> IF Known = {} THEN "seed" ELSE "count", then |-> then]
  OBVIOUS
<1>2. q \in [op : {"seed", "count", "seed_rules"}, then : Onward]
      /\ q.op = IF Known = {} THEN "seed" ELSE "count"
  BY <1>1
<1>3. q \in Administering /\ Chosen(q)
  BY <1>2 DEF Administering, Chosen
<1> QED
  BY <1>1, <1>3, SlotBegun DEF EnsureDefaults

LEMMA StatusesBegins ==
  ASSUME Catalogued, StatusesBegin
  PROVE  StatusesBegun
<1>1. ASSUME NEW r \in Admin, NEW then \in {Listing, NewTicket}, EnsureDefaults(r, then)
      PROVE  StatusesBegun
  <2>1. then \in Onward
    BY DEF Onward
  <2> QED
    BY <1>1, <2>1, EnsureBegun
<1>2. ASSUME NEW r \in Admin, NEW s \in Status, NEW default \in BOOLEAN, CanCreate(s, default),
             EnsureDefaults(r, [op |-> "create", status |-> s, default |-> default])
      PROVE  StatusesBegun
  <2>1. PICK then : then = [op |-> "create", status |-> s, default |-> default]
    OBVIOUS
  <2>2. default = TRUE => s \in Eligible
    BY <1>2 DEF CanCreate, Eligible
  <2>3. then \in Creating /\ then.default = default /\ then.status = s
    BY <2>1 DEF Creating
  <2>4. then \in Onward
    BY <2>2, <2>3 DEF Onward
  <2> QED
    BY <1>2, <2>1, <2>4, EnsureBegun
<1>3. ASSUME NEW r \in Admin, NEW s \in Status, NEW default \in BOOLEAN, NEW on \in BOOLEAN,
             Update(r, s, default, on)
      PROVE  StatusesBegun
  <2>1. CASE default
    <3>1. PICK q : q = [op |-> "clear", status |-> s, new |-> FALSE, activate |-> on]
      OBVIOUS
    <3>2. s \in Eligible
      BY <1>3, <2>1 DEF Update, Eligible
    <3>3. q \in Administering /\ Chosen(q)
      BY <3>1, <3>2 DEF Administering, Chosen
    <3> QED
      BY <1>3, <2>1, <3>1, <3>3, SlotBegun DEF Update
  <2>2. CASE ~default
    <3> DEFINE held == catalogue[s].active \/ on
    <3>1. held \in BOOLEAN
      OBVIOUS
    <3>2. s \in Known /\ catalogue' = [catalogue EXCEPT ![s].active = held] /\ UNCHANGED <<rules, onTicket, adm>>
      BY <1>3, <2>2 DEF Update
    <3> HIDE DEF held
    <3>3. PICK row : row = [catalogue[s] EXCEPT !.active = held]
      OBVIOUS
    <3>4. row \in StatusRow /\ row.default = catalogue[s].default
      BY <3>1, <3>2, <3>3, RowFields DEF StatusRow
    <3>5. catalogue' = [catalogue EXCEPT ![s] = row]
      BY <3>2, <3>3, RowFields DEF Catalogued
    <3>6. catalogue' \in [Status -> StatusRow \cup {Absent}] /\ Known' = Known /\ Defaults' = Defaults
      BY <3>2, <3>4, <3>5, SameDefaults
    <3> QED
      BY <3>2, <3>6 DEF Catalogued, StatusesBegun
  <2> QED
    BY <2>1, <2>2
<1>4. ASSUME NEW r \in Admin, NEW s \in Status, Remove(r, s) PROVE StatusesBegun
  <2>1. PICK q : q = [op |-> "counting", status |-> s]
    OBVIOUS
  <2>2. q \in Administering /\ s \notin Defaults
    BY <1>4, <2>1 DEF Administering, Remove, Defaults
  <2>3. Chosen(q)
    BY <2>1, <2>2 DEF Chosen
  <2> QED
    BY <1>4, <2>1, <2>2, <2>3, SlotBegun DEF Remove
<1>5. ASSUME NEW r \in Admin, NEW s \in Status, EnsureDefaults(r, [op |-> "resolve", status |-> s])
      PROVE  StatusesBegun
  <2>1. PICK then : then = [op |-> "resolve", status |-> s]
    OBVIOUS
  <2>2. then \in Onward
    BY <2>1 DEF Onward, Resolving
  <2> QED
    BY <1>5, <2>1, <2>2, EnsureBegun
<1>6. ASSUME NEW r \in Admin, NEW k \in Rule, NEW target \in Status, NEW from \in From,
             Retarget(r, k, target, from)
      PROVE  StatusesBegun
  <2>1. PICK x : x = [rules[k] EXCEPT !.target = target, !.from = from]
    OBVIOUS
  <2>2. x \in RuleRow
    BY <1>6, <2>1, RowFields DEF Retarget, Allowed, RuleRow
  <2>3. PICK q : q = [op |-> "validate", id |-> k, new |-> FALSE, rule |-> x]
    OBVIOUS
  <2>4. q \in Validating /\ q.op = "validate"
    BY <2>2, <2>3 DEF Validating
  <2>5. q \in Administering /\ Chosen(q)
    BY <2>4 DEF Administering, Onward, Chosen
  <2> QED
    BY <1>6, <2>1, <2>3, <2>5, SlotBegun DEF Retarget
<1>7. ASSUME NEW r \in Admin, NEW k \in Rule, NEW target \in Status, NEW from \in From,
             EnsureDefaults(r, [op |-> "validate", id |-> k, new |-> TRUE,
                                rule |-> [target |-> target, from |-> from, active |-> TRUE]])
      PROVE  StatusesBegun
  <2>1. PICK x : x = [target |-> target, from |-> from, active |-> TRUE]
    OBVIOUS
  <2>2. x \in RuleRow
    BY <2>1 DEF RuleRow
  <2>3. PICK then : then = [op |-> "validate", id |-> k, new |-> TRUE, rule |-> x]
    OBVIOUS
  <2>4. then \in Validating
    BY <2>2, <2>3 DEF Validating
  <2>5. then \in Onward
    BY <2>4 DEF Onward
  <2> QED
    BY <1>7, <2>1, <2>3, <2>5, EnsureBegun
<1>8. ASSUME NEW s \in Status, Restore(s) PROVE StatusesBegun
  <2>1. PICK row : row = [catalogue[s] EXCEPT !.active = TRUE]
    OBVIOUS
  <2>2. s \in Known /\ UNCHANGED <<rules, onTicket, adm>>
    BY <1>8 DEF Restore
  <2>3. row \in StatusRow /\ row.default = catalogue[s].default
    BY <2>1, <2>2, RowFields DEF StatusRow
  <2>4. catalogue' = [catalogue EXCEPT ![s] = row]
    BY <1>8, <2>1, <2>2, RowFields DEF Restore, Catalogued
  <2>5. catalogue' \in [Status -> StatusRow \cup {Absent}] /\ Known' = Known /\ Defaults' = Defaults
    BY <2>2, <2>3, <2>4, SameDefaults
  <2> QED
    BY <2>2, <2>5 DEF Catalogued, StatusesBegun
<1>9. ASSUME NEW k \in Rule, Toggle(k) \/ DeleteRule(k) PROVE StatusesBegun
  <2>1. Known' = Known /\ Defaults' = Defaults /\ UNCHANGED <<catalogue, onTicket, adm>>
    BY <1>9 DEF Toggle, DeleteRule, Known, Defaults, Present
  <2>2. rules' \in [Rule -> Allowed \cup {Absent}]
    <3>1. CASE DeleteRule(k)
      BY <3>1 DEF DeleteRule, Catalogued
    <3>2. CASE Toggle(k)
      <4> DEFINE on == ~rules[k].active
      <4>1. on \in BOOLEAN /\ rules' = [rules EXCEPT ![k].active = on]
        BY <3>2 DEF Toggle
      <4> HIDE DEF on
      <4>2. rules[k] \in Allowed
        BY <3>2, RowFields DEF Toggle
      <4>3. [rules[k] EXCEPT !.active = on] \in Allowed
        BY <4>1, <4>2 DEF Allowed, RuleRow
      <4> QED
        BY <4>1, <4>3 DEF Catalogued
    <3> QED
      BY <1>9, <3>1, <3>2
  <2> QED
    BY <2>1, <2>2 DEF Catalogued, StatusesBegun
<1> QED
  BY <1>1, <1>2, <1>3, <1>4, <1>5, <1>6, <1>7, <1>8, <1>9 DEF StatusesBegin

LEMMA SeedChanges ==
  ASSUME Catalogued, NEW r \in Admin, SeedStatuses(r), Known \cap Seeded = {}
  PROVE  /\ catalogue' \in [Status -> StatusRow \cup {Absent}] /\ UNCHANGED <<rules, onTicket>>
         /\ Known' = Known \cup Seeded /\ Defaults' = Defaults \cup {FirstDefault}
         /\ To(r, [adm[r] EXCEPT !.op = "count"])
<1> USE RowFields, SeedAssumption
<1> DEFINE first(s) == s = FirstDefault
           row(s) == [active |-> TRUE, default |-> first(s)]
<1>1. /\ catalogue' = [s \in Status |-> IF s \in Seeded THEN row(s) ELSE catalogue[s]]
      /\ UNCHANGED <<rules, onTicket>> /\ To(r, [adm[r] EXCEPT !.op = "count"])
  BY DEF SeedStatuses
<1>2. ASSUME NEW s \in Status PROVE row(s) \in StatusRow /\ (row(s).default <=> s = FirstDefault)
  <2>1. first(s) \in BOOLEAN /\ (first(s) <=> s = FirstDefault)
    OBVIOUS
  <2> HIDE DEF first
  <2> QED
    BY <2>1 DEF StatusRow
<1> HIDE DEF row
<1>3. catalogue' \in [Status -> StatusRow \cup {Absent}]
  BY <1>1, <1>2 DEF Catalogued
<1>4. \A s \in Status : catalogue'[s] = IF s \in Seeded THEN row(s) ELSE catalogue[s]
  BY <1>1
<1>5. Known' = Known \cup Seeded
  BY <1>2, <1>3, <1>4 DEF Known, Present, Catalogued
<1>6. Defaults' = Defaults \cup {FirstDefault}
  BY <1>2, <1>4, <1>5 DEF Defaults
<1> QED
  BY <1>1, <1>3, <1>5, <1>6

LEMMA CommitChanges ==
  ASSUME Catalogued, NEW r \in Admin, CommitDefault(r), (adm[r].status \in Known) # adm[r].new
  PROVE  /\ catalogue' \in [Status -> StatusRow \cup {Absent}] /\ UNCHANGED <<rules, onTicket>>
         /\ Known' = Known \cup {adm[r].status}
         /\ Defaults' = (Defaults \ adm[r].cleared) \cup {adm[r].status}
         /\ To(r, Idle)
<1> USE RowFields
<1>1. PICK q \in Administering : q = adm[r]
  BY DEF Catalogued
<1>2. /\ q \in [op : {"commit"}, status : Eligible, new : BOOLEAN, activate : BOOLEAN,
                cleared : SUBSET Status]
      /\ q.status \notin q.cleared /\ q.status \in Status /\ (q.status \in Known) # q.new
  BY <1>1, AdmFields DEF CommitDefault, Eligible
<1> DEFINE on == IF q.new THEN TRUE ELSE catalogue[q.status].active \/ q.activate
           plain(s) == [catalogue[s] EXCEPT !.default = FALSE]
           chosen == [active |-> on, default |-> TRUE]
<1>3. on \in BOOLEAN
  BY <1>2
<1>4. /\ catalogue' = [s \in Status |-> IF s \in q.cleared \cap Known THEN plain(s)
                                        ELSE IF s = q.status THEN chosen ELSE catalogue[s]]
      /\ UNCHANGED <<rules, onTicket>> /\ To(r, Idle)
  BY <1>1 DEF CommitDefault, Answers
<1> HIDE DEF on
<1>5. chosen \in StatusRow /\ chosen.default
  BY <1>3 DEF StatusRow
<1>6. \A s \in Known : plain(s) \in StatusRow /\ ~plain(s).default
  BY DEF StatusRow
<1> HIDE DEF chosen, plain
<1>7. catalogue' \in [Status -> StatusRow \cup {Absent}]
  BY <1>4, <1>5, <1>6 DEF Catalogued
<1>8. \A s \in Status : catalogue'[s] = IF s \in q.cleared \cap Known THEN plain(s)
                                        ELSE IF s = q.status THEN chosen ELSE catalogue[s]
  BY <1>4
<1>9. Known' = Known \cup {q.status}
  BY <1>2, <1>5, <1>6, <1>7, <1>8 DEF Known, Present, Catalogued
<1>10. Defaults' = (Defaults \ q.cleared) \cup {q.status}
  BY <1>2, <1>5, <1>6, <1>8, <1>9 DEF Defaults
<1> QED
  BY <1>1, <1>4, <1>7, <1>9, <1>10

LEMMA CreateChanges ==
  ASSUME Catalogued, NEW r \in Admin, Create(r)
  PROVE  /\ UNCHANGED <<rules, onTicket>>
         /\ catalogue' \in [Status -> StatusRow \cup {Absent}] /\ Defaults' = Defaults
         /\ Known \subseteq Known'
         /\ \E q \in Administering : To(r, q) /\ q.op \in {"idle", "clear"}
<1> USE RowFields
<1>0. Idle \in Administering /\ Idle.op = "idle"
  BY DEF Administering, Onward, Listing, Idle
<1>1. PICK q \in Administering : q = adm[r]
  BY DEF Catalogued
<1>2. q.op = "create" /\ q.status \in Status /\ q.default \in BOOLEAN /\ (q.default = TRUE => q.status \in Eligible)
  BY <1>1, AdmFields DEF Create
<1>3. CASE UNCHANGED <<catalogue, rules, onTicket>> /\ To(r, Idle)
  BY <1>0, <1>3 DEF Catalogued, Known, Defaults, Present
<1>4. CASE q.status \notin Known /\ q.default
  <2>1. PICK p : p = [op |-> "clear", status |-> q.status, new |-> TRUE, activate |-> TRUE]
    OBVIOUS
  <2>2. p \in Administering /\ p.op = "clear"
    BY <1>2, <1>4, <2>1 DEF Administering
  <2>3. UNCHANGED <<catalogue, rules, onTicket>> /\ To(r, p)
    BY <1>1, <1>4, <2>1 DEF Create
  <2> QED
    BY <2>2, <2>3 DEF Catalogued, Known, Defaults, Present
<1>5. CASE q.status \notin Known /\ ~q.default
  <2>1. PICK row : row = [active |-> TRUE, default |-> FALSE]
    OBVIOUS
  <2>2. row \in StatusRow /\ ~row.default /\ row # Absent
    <3>1. row \in StatusRow /\ ~row.default
      BY <2>1 DEF StatusRow
    <3> QED
      BY <3>1
  <2>3. catalogue' = [catalogue EXCEPT ![q.status] = row] /\ To(r, Idle) /\ UNCHANGED <<rules, onTicket>>
    BY <1>1, <1>5, <2>1 DEF Create, Answers
  <2>4. catalogue' \in [Status -> StatusRow \cup {Absent}]
        /\ \A s \in Status : catalogue'[s] = IF s = q.status THEN row ELSE catalogue[s]
    BY <1>2, <2>2, <2>3 DEF Catalogued
  <2>5. Known' = Known \cup {q.status}
    BY <1>2, <2>2, <2>4 DEF Known, Present, Catalogued
  <2>6. Defaults' = Defaults
    BY <1>2, <1>5, <2>2, <2>4, <2>5 DEF Defaults
  <2> QED
    BY <1>0, <2>3, <2>4, <2>5, <2>6
<1> QED
  BY <1>1, <1>2, <1>3, <1>4, <1>5 DEF Create, Rejects

LEMMA DeleteChanges ==
  ASSUME Catalogued, NEW r \in Admin, Delete(r)
  PROVE  /\ UNCHANGED rules /\ To(r, Idle)
         /\ catalogue' \in [Status -> StatusRow \cup {Absent}]
         /\ \/ UNCHANGED onTicket /\ Known' = Known /\ Defaults' = Defaults
            \/ /\ onTicket' = onTicket \ {adm[r].status} /\ Known' = Known \ {adm[r].status}
               /\ Defaults' = Defaults \ {adm[r].status}
<1> USE RowFields
<1>1. PICK q \in Administering : q = adm[r]
  BY DEF Catalogued
<1>2. q.op = "delete" /\ q.status \in Status
  BY <1>1, AdmFields DEF Delete
<1>3. CASE UNCHANGED <<catalogue, rules, onTicket>> /\ To(r, Idle)
  BY <1>3 DEF Catalogued, Known, Defaults, Present
<1>4. CASE /\ catalogue' = [catalogue EXCEPT ![q.status] = Absent]
           /\ onTicket' = onTicket \ {q.status} /\ UNCHANGED rules /\ To(r, Idle)
  <2>1. catalogue' \in [Status -> StatusRow \cup {Absent}]
        /\ \A s \in Status : catalogue'[s] = IF s = q.status THEN Absent ELSE catalogue[s]
    BY <1>2, <1>4 DEF Catalogued
  <2>2. Known' = Known \ {q.status}
    BY <1>2, <2>1 DEF Known, Present, Catalogued
  <2>3. Defaults' = Defaults \ {q.status}
    BY <2>1, <2>2 DEF Defaults
  <2> QED
    BY <1>1, <1>4, <2>1, <2>2, <2>3
<1> QED
  BY <1>1, <1>3, <1>4 DEF Delete, Rejects, Answers

LEMMA ArchiveChanges ==
  ASSUME Catalogued, NEW r \in Admin, Archive(r)
  PROVE  /\ UNCHANGED <<rules, onTicket>>
         /\ catalogue' \in [Status -> StatusRow \cup {Absent}] /\ Known' = Known /\ Defaults' = Defaults
         /\ \E q \in Administering : To(r, q) /\ q.op \in {"idle", "disable"}
<1> USE RowFields
<1>0. Idle \in Administering /\ Idle.op = "idle"
  BY DEF Administering, Onward, Listing, Idle
<1>1. PICK q \in Administering : q = adm[r]
  BY DEF Catalogued
<1>2. q.op = "archive" /\ q.status \in Status
  BY <1>1, AdmFields DEF Archive
<1>3. CASE UNCHANGED <<catalogue, rules, onTicket>> /\ To(r, Idle)
  BY <1>0, <1>3 DEF Catalogued, Known, Defaults, Present
<1>4. CASE q.status \in Known
  <2>1. PICK row : row = [catalogue[q.status] EXCEPT !.active = FALSE]
    OBVIOUS
  <2>2. row \in StatusRow /\ row.default = catalogue[q.status].default
    BY <1>4, <2>1 DEF StatusRow
  <2>3. PICK p : p = [op |-> "disable", status |-> q.status]
    OBVIOUS
  <2>4. p \in Administering /\ p.op = "disable"
    BY <1>2, <2>3 DEF Administering
  <2>5. /\ catalogue' = [catalogue EXCEPT ![q.status] = row]
        /\ To(r, p) /\ UNCHANGED <<rules, onTicket>>
    BY <1>1, <1>4, <2>1, <2>3 DEF Archive, Catalogued
  <2>6. catalogue' \in [Status -> StatusRow \cup {Absent}] /\ Known' = Known /\ Defaults' = Defaults
    BY <1>4, <2>2, <2>5, SameDefaults
  <2> QED
    BY <2>4, <2>5, <2>6
<1> QED
  BY <1>1, <1>3, <1>4 DEF Archive, Rejects

\* A request goes on: only a deletion leaves the organization without a default.
LEMMA CataloguedResumes ==
  ASSUME Catalogued, StatusesResume
  PROVE  /\ Catalogued'
         /\ Defaults # {} /\ Defaults' = {} => \E r \in Admin : adm[r].op = "delete"
<1> USE RowFields
<1>0. Idle \in Administering
  BY DEF Administering, Onward, Listing, Idle
<1>a. ASSUME NEW r \in Admin, NEW q \in Administering, To(r, q), UNCHANGED <<catalogue, rules, onTicket>>
      PROVE  Catalogued' /\ Defaults' = Defaults
  BY <1>a, CataloguedSlot DEF Defaults, Known, Present
<1>b. ASSUME NEW r \in Admin, NEW q \in Administering, To(r, q), UNCHANGED <<catalogue, onTicket>>,
             rules' \in [Rule -> Allowed \cup {Absent}]
      PROVE  Catalogued' /\ Defaults' = Defaults
  <2>1. Defaults' = Defaults
    BY <1>b DEF Defaults, Known, Present
  <2> QED
    BY <1>b, <2>1, CataloguedMoves DEF Catalogued
<1>c. ASSUME NEW r \in Admin, Rejects(r) PROVE Catalogued' /\ Defaults' = Defaults
  BY <1>0, <1>a, <1>c DEF Rejects
<1>1. ASSUME NEW r \in Admin, SeedStatuses(r) PROVE Catalogued' /\ (Defaults # {} => Defaults' # {})
  <2>1. CASE Known \cap Seeded # {}
    BY <1>1, <1>c, <2>1 DEF SeedStatuses
  <2>2. CASE Known \cap Seeded = {}
    <3>1. PICK q \in Administering : q = adm[r]
      BY DEF Catalogued
    <3>2. q \in [op : {"seed", "count", "seed_rules"}, then : Onward]
      BY <1>1, <3>1, AdmFields DEF SeedStatuses
    <3>3. [q EXCEPT !.op = "count"] \in Administering
      BY <3>2 DEF Administering
    <3>4. Defaults' = Defaults \cup {FirstDefault} /\ FirstDefault \in Eligible
      BY <1>1, <2>2, SeedChanges, SeedAssumption DEF Eligible
    <3>5. Catalogued'
      BY <1>1, <2>2, <3>1, <3>3, <3>4, SeedChanges, CataloguedMoves DEF Catalogued
    <3> QED
      BY <3>4, <3>5
  <2> QED
    BY <2>1, <2>2
<1>2. ASSUME NEW r \in Admin, CountRules(r) PROVE Catalogued' /\ Defaults' = Defaults
  <2>1. PICK q \in Administering : q = adm[r]
    BY DEF Catalogued
  <2>2. q \in [op : {"seed", "count", "seed_rules"}, then : Onward]
    BY <1>2, <2>1, AdmFields DEF CountRules
  <2>3. q.then \in Administering /\ [q EXCEPT !.op = "seed_rules"] \in Administering
    BY <2>2 DEF Administering
  <2>4. To(r, q.then) \/ To(r, [q EXCEPT !.op = "seed_rules"])
    BY <1>2, <2>1 DEF CountRules
  <2> QED
    BY <1>2, <1>a, <2>3, <2>4 DEF CountRules
<1>3. ASSUME NEW r \in Admin, SeedRules(r) PROVE Catalogued' /\ Defaults' = Defaults
  <2>1. CASE Rejects(r)
    BY <1>c, <2>1
  <2>2. CASE ~Rejects(r)
    <3>1. PICK q \in Administering : q = adm[r]
      BY DEF Catalogued
    <3>2. q \in [op : {"seed", "count", "seed_rules"}, then : Onward]
      BY <1>3, <3>1, AdmFields DEF SeedRules
    <3>3. q.then \in Administering
      BY <3>2 DEF Administering
    <3>4. PICK id \in [SeedRule -> Rule \ Present(rules)] :
             /\ rules' = [k \in Rule |-> IF \E x \in SeedRule : id[x] = k
                                         THEN CHOOSE x \in SeedRule : id[x] = k ELSE rules[k]]
             /\ To(r, q.then) /\ UNCHANGED <<catalogue, onTicket>>
      BY <1>3, <2>2, <3>1 DEF SeedRules
    <3>5. SeedRule \subseteq Allowed
      BY SeedAssumption DEF Allowed
    <3>6. \A k \in Rule : (\E x \in SeedRule : id[x] = k) => (CHOOSE x \in SeedRule : id[x] = k) \in Allowed
      BY <3>5
    <3>7. rules' \in [Rule -> Allowed \cup {Absent}]
      BY <3>4, <3>6 DEF Catalogued
    <3> QED
      BY <1>b, <3>3, <3>4, <3>7
  <2> QED
    BY <2>1, <2>2
<1>4. ASSUME NEW r \in Admin, Create(r) PROVE Catalogued' /\ Defaults' = Defaults
  <2>1. PICK q \in Administering : To(r, q)
    BY <1>4, CreateChanges
  <2> QED
    BY <1>4, <2>1, CreateChanges, CataloguedMoves DEF Catalogued
<1>5. ASSUME NEW r \in Admin, ClearDefaults(r) PROVE Catalogued' /\ Defaults' = Defaults
  <2>1. PICK q \in Administering : q = adm[r]
    BY DEF Catalogued
  <2>2. q \in [op : {"clear"}, status : Eligible, new : BOOLEAN, activate : BOOLEAN]
    BY <1>5, <2>1, AdmFields DEF ClearDefaults
  <2>3. PICK p : p = [op |-> "commit", status |-> q.status, new |-> q.new, activate |-> q.activate,
                      cleared |-> Defaults \ {q.status}]
    OBVIOUS
  <2>4. p \in [op : {"commit"}, status : Eligible, new : BOOLEAN, activate : BOOLEAN,
               cleared : SUBSET Status] /\ p.status \notin p.cleared
    BY <2>2, <2>3
  <2>5. p \in Administering
    BY <2>4 DEF Administering
  <2> QED
    BY <1>5, <1>a, <2>1, <2>3, <2>5 DEF ClearDefaults
<1>6. ASSUME NEW r \in Admin, CommitDefault(r) PROVE Catalogued' /\ (Defaults # {} => Defaults' # {})
  <2>1. CASE (adm[r].status \in Known) = adm[r].new
    BY <1>6, <1>c, <2>1 DEF CommitDefault
  <2>2. CASE (adm[r].status \in Known) # adm[r].new
    <3>1. PICK q \in Administering : q = adm[r]
      BY DEF Catalogued
    <3>2. q.status \in Eligible
      BY <1>6, <3>1, AdmFields DEF CommitDefault
    <3>3. /\ Defaults' = (Defaults \ q.cleared) \cup {q.status} /\ Defaults' \subseteq Eligible
      BY <1>6, <2>2, <3>1, <3>2, CommitChanges DEF Catalogued
    <3>4. Catalogued'
      BY <1>0, <1>6, <2>2, <3>3, CommitChanges, CataloguedMoves DEF Catalogued
    <3> QED
      BY <3>3, <3>4
  <2> QED
    BY <2>1, <2>2
<1>7. ASSUME NEW r \in Admin, CountUses(r) PROVE Catalogued' /\ Defaults' = Defaults
  <2>1. PICK q \in Administering : q = adm[r]
    BY DEF Catalogued
  <2>2. q \in [op : {"counting", "delete", "archive", "disable", "insert_ticket"}, status : Status]
        /\ q.op = "counting"
    BY <1>7, <2>1, AdmFields DEF CountUses
  <2>3. PICK p : p = [q EXCEPT !.op = IF InUse(q.status) THEN "archive" ELSE "delete"]
    OBVIOUS
  <2>4. p \in [op : {"archive", "delete"}, status : Status]
    BY <2>2, <2>3
  <2>5. p \in Administering
    BY <2>4 DEF Administering
  <2> QED
    BY <1>7, <1>a, <2>1, <2>3, <2>5 DEF CountUses
<1>8. ASSUME NEW r \in Admin, Delete(r) PROVE Catalogued' /\ adm[r].op = "delete"
  <2>1. Defaults' \subseteq Eligible /\ onTicket' \in Tickets
    BY <1>8, DeleteChanges DEF Catalogued, Tickets
  <2> QED
    BY <1>0, <1>8, <2>1, DeleteChanges, CataloguedMoves DEF Catalogued, Delete
<1>9. ASSUME NEW r \in Admin, Archive(r) PROVE Catalogued' /\ Defaults' = Defaults
  <2>1. PICK q \in Administering : To(r, q)
    BY <1>9, ArchiveChanges
  <2> QED
    BY <1>9, <2>1, ArchiveChanges, CataloguedMoves DEF Catalogued
<1>10. ASSUME NEW r \in Admin, DisableRules(r) PROVE Catalogued' /\ Defaults' = Defaults
  <2>1. \A k \in Rule : rules[k] # Absent => [rules[k] EXCEPT !.active = FALSE] \in Allowed
    BY DEF Allowed, RuleRow
  <2>2. rules' \in [Rule -> Allowed \cup {Absent}]
    BY <1>10, <2>1 DEF DisableRules, Catalogued
  <2> QED
    BY <1>0, <1>10, <1>b, <2>2 DEF DisableRules, Answers
<1>11. ASSUME NEW r \in Admin, ValidateRule(r) PROVE Catalogued' /\ Defaults' = Defaults
  <2>1. PICK q \in Administering : q = adm[r]
    BY DEF Catalogued
  <2>2. q \in Validating
    BY <1>11, <2>1, AdmFields DEF ValidateRule
  <2>3. PICK p : p = [q EXCEPT !.op = IF q.new THEN "insert_rule" ELSE "rewrite_rule"]
    OBVIOUS
  <2>4. ValidRule(q.rule) => q.rule \in Allowed
    BY <2>2 DEF ValidRule, Allowed, Validating
  <2>5. q.rule \in Allowed => p \in [op : {"insert_rule", "rewrite_rule"}, id : Rule, rule : Allowed,
                                     new : BOOLEAN]
    BY <2>2, <2>3 DEF Validating
  <2>6. ValidRule(q.rule) => p \in Administering
    BY <2>4, <2>5 DEF Administering
  <2>7. To(r, Idle) \/ (ValidRule(q.rule) /\ To(r, p))
    BY <1>11, <2>1, <2>3 DEF ValidateRule, Answers
  <2> QED
    BY <1>0, <1>11, <1>a, <2>6, <2>7 DEF ValidateRule
<1>12. ASSUME NEW r \in Admin, WriteRule(r) PROVE Catalogued' /\ Defaults' = Defaults
  <2>1. CASE Rejects(r)
    BY <1>c, <2>1
  <2>2. CASE ~Rejects(r)
    <3>1. PICK q \in Administering : q = adm[r]
      BY DEF Catalogued
    <3>2. q \in [op : {"insert_rule", "rewrite_rule"}, id : Rule, rule : Allowed, new : BOOLEAN]
      BY <1>12, <3>1, AdmFields DEF WriteRule
    <3>3. rules' = [rules EXCEPT ![q.id] = q.rule] /\ To(r, Idle) /\ UNCHANGED <<catalogue, onTicket>>
      BY <1>12, <2>2, <3>1 DEF WriteRule, Answers
    <3>4. rules' \in [Rule -> Allowed \cup {Absent}]
      BY <3>2, <3>3 DEF Catalogued
    <3> QED
      BY <1>0, <1>b, <3>3, <3>4
  <2> QED
    BY <2>1, <2>2
<1>13. ASSUME NEW r \in Admin, ReadDefault(r) PROVE Catalogued' /\ Defaults' = Defaults
  <2>1. CASE Rejects(r)
    BY <1>c, <2>1
  <2>2. CASE ~Rejects(r)
    <3>1. PICK s \in Defaults \cap Active :
             To(r, [op |-> "insert_ticket", status |-> s]) /\ UNCHANGED <<catalogue, rules, onTicket>>
      BY <1>13, <2>2 DEF ReadDefault
    <3>2. [op |-> "insert_ticket", status |-> s] \in Administering
      BY DEF Administering
    <3> QED
      BY <1>a, <3>1, <3>2
  <2> QED
    BY <2>1, <2>2
<1>14. ASSUME NEW r \in Admin, ResolveTarget(r) PROVE Catalogued' /\ Defaults' = Defaults
  <2>1. PICK q \in Administering : q = adm[r]
    BY DEF Catalogued
  <2>2. q \in [op : {"resolve", "move"}, status : Status]
    BY <1>14, <2>1, AdmFields DEF ResolveTarget
  <2>3. PICK p : p = [q EXCEPT !.op = "move"]
    OBVIOUS
  <2>4. p \in [op : {"move"}, status : Status]
    BY <2>2, <2>3
  <2>5. p \in Administering
    BY <2>4 DEF Administering
  <2>6. To(r, p) \/ To(r, Idle)
    BY <1>14, <2>1, <2>3 DEF ResolveTarget
  <2> QED
    BY <1>0, <1>14, <1>a, <2>5, <2>6 DEF ResolveTarget
<1>15. ASSUME NEW r \in Admin, PutOnTicket(r) PROVE Catalogued' /\ Defaults' = Defaults
  <2>1. CASE Rejects(r)
    BY <1>c, <2>1
  <2>2. CASE ~Rejects(r)
    <3>1. onTicket' = {adm[r].status} /\ adm[r].status \in Known /\ To(r, Idle) /\ UNCHANGED <<catalogue, rules>>
      BY <1>15, <2>2 DEF PutOnTicket, Answers
    <3>2. onTicket' \in Tickets /\ Defaults' = Defaults
      BY <3>1 DEF Tickets, Defaults, Known, Present
    <3> QED
      BY <1>0, <3>1, <3>2, CataloguedMoves DEF Catalogued
  <2> QED
    BY <2>1, <2>2
<1>16. ASSUME NEW r \in Admin, Die(r) PROVE Catalogued' /\ Defaults' = Defaults
  BY <1>16, <1>c DEF Die
<1> QED
  BY <1>1, <1>2, <1>3, <1>4, <1>5, <1>6, <1>7, <1>8, <1>9, <1>10, <1>11, <1>12, <1>13, <1>14, <1>15,
     <1>16 DEF StatusesResume

\* A slot moves while the others are idle.
LEMMA OrderlyMoves ==
  ASSUME Catalogued, NEW r \in Admin, NEW q \in Administering, To(r, q),
         \A p \in Admin : p # r => adm[p] = Idle,
         (Known # {} => \E s \in Status : Defaults = {s})', Chosen(q)'
  PROVE  Orderly'
<1>1. adm' = [adm EXCEPT ![r] = q] /\ adm \in [Admin -> Administering]
  BY DEF To, Catalogued
<1>2. /\ adm'[r] = q /\ \A p \in Admin : p # r => adm'[p] = Idle
      /\ DOMAIN adm' = Admin
  BY <1>1
<1>3. \A p \in Admin : Chosen(adm[p])'
  BY <1>2 DEF Chosen, Idle
<1> QED
  BY <1>2, <1>3 DEF Orderly, OneAtATime

LEMMA OrderlyBegins ==
  ASSUME Catalogued, Orderly, Lone(adm), StatusesBegin
  PROVE  Orderly'
<1>1. StatusesBegun /\ \A p \in Admin : adm[p] = Idle
  BY StatusesBegins DEF Lone, Catalogued
<1>2. (Known # {} => \E s \in Status : Defaults = {s})'
  BY <1>1 DEF StatusesBegun, Orderly
<1>3. CASE UNCHANGED adm
  BY <1>1, <1>2, <1>3 DEF Orderly, OneAtATime, Chosen, Idle
<1>4. ASSUME NEW r \in Admin, NEW q \in Administering, To(r, q), Chosen(q) PROVE Orderly'
  <2>1. Chosen(q)'
    BY <1>1, <1>4 DEF Chosen, StatusesBegun
  <2> QED
    BY <1>1, <1>2, <1>4, <2>1, OrderlyMoves
<1> QED
  BY <1>1, <1>3, <1>4 DEF StatusesBegun

LEMMA OrderlyResumes ==
  ASSUME Catalogued, Orderly, StatusesResume
  PROVE  Orderly' /\ TicketKeepsStatus
<1> USE RowFields
<1> DEFINE Sole == Known # {} => \E s \in Status : Defaults = {s}
<1>0. Sole /\ Idle \in Administering /\ Chosen(Idle)'
  BY DEF Orderly, Administering, Onward, Listing, Idle, Chosen
<1>v. \A q : q.op # "idle" => q # Idle
  BY DEF Idle
<1>z. ASSUME NEW r \in Admin, adm[r] # Idle PROVE \A p \in Admin : p # r => adm[p] = Idle
  BY <1>z DEF Orderly, OneAtATime, Catalogued
<1>y. ASSUME NEW r \in Admin PROVE adm[r] \in Administering /\ Chosen(adm[r])
  BY DEF Orderly, Catalogued
<1>x. (onTicket' = onTicket \/ \E s : onTicket' = {s}) => TicketKeepsStatus
  BY DEF TicketKeepsStatus
<1>w. ASSUME UNCHANGED catalogue PROVE Known' = Known /\ Defaults' = Defaults /\ Sole'
  BY <1>0, <1>w DEF Known, Defaults, Present
<1> HIDE DEF Sole
<1>m. ASSUME NEW r \in Admin, NEW q \in Administering, adm[r] # Idle, To(r, q), Sole', Chosen(q)',
             UNCHANGED onTicket
      PROVE  Orderly' /\ TicketKeepsStatus
  BY <1>m, <1>x, <1>z, OrderlyMoves DEF Sole
<1>i. ASSUME NEW r \in Admin, adm[r] # Idle, To(r, Idle), UNCHANGED <<catalogue, onTicket>>
      PROVE  Orderly' /\ TicketKeepsStatus
  BY <1>0, <1>i, <1>m, <1>w
<1>1. ASSUME NEW r \in Admin, SeedStatuses(r) PROVE Orderly' /\ TicketKeepsStatus
  <2>1. PICK q \in Administering : q = adm[r]
    BY <1>y
  <2>2. q \in [op : {"seed", "count", "seed_rules"}, then : Onward] /\ q.op = "seed" /\ q # Idle
    BY <1>1, <1>v, <2>1, AdmFields DEF SeedStatuses
  <2>3. Known = {}
    BY <1>y, <2>1, <2>2 DEF Chosen
  <2>4. PICK p : p = [q EXCEPT !.op = "count"]
    OBVIOUS
  <2>5. p \in Administering /\ p.op = "count"
    BY <2>2, <2>4 DEF Administering
  <2>6. Known' = Seeded /\ Defaults' = {FirstDefault} /\ To(r, p) /\ UNCHANGED onTicket
    BY <1>1, <2>1, <2>3, <2>4, SeedChanges
  <2>7. Sole' /\ Chosen(p)'
    BY <2>5, <2>6, SeedAssumption DEF Sole, Chosen
  <2> QED
    BY <1>m, <2>1, <2>2, <2>5, <2>6, <2>7
<1>2. ASSUME NEW r \in Admin, CountRules(r) PROVE Orderly' /\ TicketKeepsStatus
  <2>1. PICK q \in Administering : q = adm[r]
    BY <1>y
  <2>2. q \in [op : {"seed", "count", "seed_rules"}, then : Onward] /\ q.op = "count" /\ q # Idle
    BY <1>2, <1>v, <2>1, AdmFields DEF CountRules
  <2>3. Known # {}
    BY <1>y, <2>1, <2>2 DEF Chosen
  <2>4. PICK p : p = [q EXCEPT !.op = "seed_rules"]
    OBVIOUS
  <2>5. p \in Administering /\ p.op = "seed_rules"
    BY <2>2, <2>4 DEF Administering
  <2>6. q.then \in Administering /\ q.then.op \in {"idle", "default", "validate", "resolve", "create"}
    BY <2>2 DEF Administering, Onward, Listing, NewTicket, Validating, Resolving, Creating
  <2>7. (To(r, q.then) \/ To(r, p)) /\ UNCHANGED <<catalogue, onTicket>>
    BY <1>2, <2>1, <2>4 DEF CountRules
  <2>8. Chosen(p)' /\ Chosen(q.then)'
    BY <1>w, <2>3, <2>5, <2>6, <2>7 DEF Chosen
  <2> QED
    BY <1>m, <1>w, <2>1, <2>2, <2>5, <2>6, <2>7, <2>8
<1>3. ASSUME NEW r \in Admin, SeedRules(r) PROVE Orderly' /\ TicketKeepsStatus
  <2>1. PICK q \in Administering : q = adm[r]
    BY <1>y
  <2>2. q \in [op : {"seed", "count", "seed_rules"}, then : Onward] /\ q.op = "seed_rules" /\ q # Idle
    BY <1>3, <1>v, <2>1, AdmFields DEF SeedRules
  <2>3. Known # {}
    BY <1>y, <2>1, <2>2 DEF Chosen
  <2>4. q.then \in Administering /\ q.then.op \in {"idle", "default", "validate", "resolve", "create"}
    BY <2>2 DEF Administering, Onward, Listing, NewTicket, Validating, Resolving, Creating
  <2>5. (To(r, q.then) \/ To(r, Idle)) /\ UNCHANGED <<catalogue, onTicket>>
    BY <1>3, <2>1 DEF SeedRules, Rejects
  <2>6. Chosen(q.then)'
    BY <1>w, <2>3, <2>4, <2>5 DEF Chosen
  <2> QED
    BY <1>m, <1>i, <1>w, <2>1, <2>2, <2>4, <2>5, <2>6
<1>4. ASSUME NEW r \in Admin, Create(r) PROVE Orderly' /\ TicketKeepsStatus
  <2>1. PICK q \in Administering : To(r, q) /\ q.op \in {"idle", "clear"}
    BY <1>4, CreateChanges
  <2>2. adm[r] # Idle /\ Known # {}
    BY <1>4, <1>y DEF Create, Idle, Chosen
  <2>3. Sole' /\ UNCHANGED onTicket
    BY <1>0, <1>4, <2>2, CreateChanges DEF Sole
  <2>4. Chosen(q)'
    BY <2>1 DEF Chosen
  <2> QED
    BY <1>m, <2>1, <2>2, <2>3, <2>4
<1>5. ASSUME NEW r \in Admin, ClearDefaults(r) PROVE Orderly' /\ TicketKeepsStatus
  <2>1. PICK q \in Administering : q = adm[r]
    BY <1>y
  <2>2. q \in [op : {"clear"}, status : Eligible, new : BOOLEAN, activate : BOOLEAN] /\ q # Idle
    BY <1>5, <1>v, <2>1, AdmFields DEF ClearDefaults
  <2>3. PICK p : p = [op |-> "commit", status |-> q.status, new |-> q.new, activate |-> q.activate,
                      cleared |-> Defaults \ {q.status}]
    OBVIOUS
  <2>4. /\ p \in [op : {"commit"}, status : Eligible, new : BOOLEAN, activate : BOOLEAN,
                  cleared : SUBSET Status]
        /\ p.status \notin p.cleared /\ p.cleared = Defaults \ {p.status} /\ p.op = "commit"
    BY <2>2, <2>3
  <2>5. p \in Administering
    BY <2>4 DEF Administering
  <2>6. To(r, p) /\ UNCHANGED <<catalogue, onTicket>>
    BY <1>5, <2>1, <2>3 DEF ClearDefaults
  <2>7. Chosen(p)'
    BY <1>w, <2>4, <2>6 DEF Chosen
  <2> QED
    BY <1>m, <1>w, <2>1, <2>2, <2>5, <2>6, <2>7
<1>6. ASSUME NEW r \in Admin, CommitDefault(r) PROVE Orderly' /\ TicketKeepsStatus
  <2>1. PICK q \in Administering : q = adm[r]
    BY <1>y
  <2>2. q.op = "commit" /\ q.status \in Status /\ q # Idle
    BY <1>6, <1>v, <2>1, AdmFields DEF CommitDefault, Eligible
  <2>3. q.cleared = Defaults \ {q.status}
    BY <1>y, <2>1, <2>2 DEF Chosen
  <2>4. CASE (q.status \in Known) = q.new
    BY <1>6, <1>i, <2>1, <2>2, <2>4 DEF CommitDefault, Rejects
  <2>5. CASE (q.status \in Known) # q.new
    <3>1. Defaults' = {q.status} /\ To(r, Idle) /\ UNCHANGED onTicket
      BY <1>6, <2>1, <2>3, <2>5, CommitChanges
    <3>2. Sole'
      BY <2>2, <3>1 DEF Sole
    <3> QED
      BY <1>0, <1>m, <2>1, <2>2, <3>1, <3>2
  <2> QED
    BY <2>4, <2>5
<1>7. ASSUME NEW r \in Admin, CountUses(r) PROVE Orderly' /\ TicketKeepsStatus
  <2>1. PICK q \in Administering : q = adm[r]
    BY <1>y
  <2>2. q \in [op : {"counting", "delete", "archive", "disable", "insert_ticket"}, status : Status]
        /\ q.op = "counting" /\ q # Idle
    BY <1>7, <1>v, <2>1, AdmFields DEF CountUses
  <2>3. PICK p : p = [q EXCEPT !.op = IF InUse(q.status) THEN "archive" ELSE "delete"]
    OBVIOUS
  <2>4. p \in [op : {"archive", "delete"}, status : Status] /\ p.status = q.status
        /\ (p.op = "delete" => ~InUse(q.status))
    BY <2>2, <2>3
  <2>5. p \in Administering /\ q.status \notin Defaults /\ (p.op = "delete" => q.status \notin onTicket)
    BY <1>y, <2>1, <2>2, <2>4 DEF Administering, Chosen, InUse
  <2>6. To(r, p) /\ UNCHANGED <<catalogue, onTicket>>
    BY <1>7, <2>1, <2>3 DEF CountUses
  <2>7. Chosen(p)'
    BY <1>w, <2>4, <2>5, <2>6 DEF Chosen
  <2> QED
    BY <1>m, <1>w, <2>1, <2>2, <2>5, <2>6, <2>7
<1>8. ASSUME NEW r \in Admin, Delete(r) PROVE Orderly' /\ TicketKeepsStatus
  <2>1. adm[r] # Idle /\ adm[r].status \notin Defaults /\ adm[r].status \notin onTicket
    BY <1>8, <1>y DEF Delete, Idle, Chosen
  <2>2. Defaults' = Defaults /\ onTicket' = onTicket /\ Known' \subseteq Known /\ To(r, Idle)
    <3>1. Defaults \ {adm[r].status} = Defaults /\ onTicket \ {adm[r].status} = onTicket
      BY <2>1
    <3> QED
      BY <1>8, <3>1, DeleteChanges
  <2>3. Sole'
    BY <1>0, <2>2 DEF Sole
  <2> QED
    BY <1>0, <1>m, <2>1, <2>2, <2>3
<1>9. ASSUME NEW r \in Admin, Archive(r) PROVE Orderly' /\ TicketKeepsStatus
  <2>1. PICK q \in Administering : To(r, q) /\ q.op \in {"idle", "disable"}
    BY <1>9, ArchiveChanges
  <2>2. Sole' /\ UNCHANGED onTicket /\ adm[r] # Idle
    BY <1>0, <1>9, ArchiveChanges DEF Sole, Archive, Idle
  <2>3. Chosen(q)'
    BY <2>1 DEF Chosen
  <2> QED
    BY <1>m, <2>1, <2>2, <2>3
<1>10. ASSUME NEW r \in Admin, DisableRules(r) PROVE Orderly' /\ TicketKeepsStatus
  BY <1>10, <1>i DEF DisableRules, Answers, Idle
<1>11. ASSUME NEW r \in Admin, ValidateRule(r) PROVE Orderly' /\ TicketKeepsStatus
  <2>1. PICK q \in Administering : q = adm[r]
    BY <1>y
  <2>2. q \in Validating /\ q # Idle
    BY <1>11, <1>v, <2>1, AdmFields DEF ValidateRule
  <2>3. PICK p : p = [q EXCEPT !.op = IF q.new THEN "insert_rule" ELSE "rewrite_rule"]
    OBVIOUS
  <2>4. p.op \in {"insert_rule", "rewrite_rule"}
    BY <2>2, <2>3 DEF Validating
  <2>5. ValidRule(q.rule) => q.rule \in Allowed
    BY <2>2 DEF ValidRule, Allowed, Validating
  <2>6. q.rule \in Allowed => p \in [op : {"insert_rule", "rewrite_rule"}, id : Rule, rule : Allowed,
                                     new : BOOLEAN]
    BY <2>2, <2>3 DEF Validating
  <2>7. ValidRule(q.rule) => p \in Administering
    BY <2>5, <2>6 DEF Administering
  <2>8. (To(r, Idle) \/ (ValidRule(q.rule) /\ To(r, p))) /\ UNCHANGED <<catalogue, onTicket>>
    BY <1>11, <2>1, <2>3 DEF ValidateRule, Answers
  <2>9. Chosen(p)'
    BY <2>4 DEF Chosen
  <2> QED
    BY <1>i, <1>m, <1>w, <2>1, <2>2, <2>7, <2>8, <2>9
<1>12. ASSUME NEW r \in Admin, WriteRule(r) PROVE Orderly' /\ TicketKeepsStatus
  BY <1>12, <1>i DEF WriteRule, Rejects, Answers, Idle
<1>13. ASSUME NEW r \in Admin, ReadDefault(r) PROVE Orderly' /\ TicketKeepsStatus
  <2>1. adm[r] # Idle
    BY <1>13 DEF ReadDefault, Idle
  <2>2. CASE Rejects(r)
    BY <1>i, <2>1, <2>2 DEF Rejects
  <2>3. CASE ~Rejects(r)
    <3>1. PICK s \in Defaults \cap Active :
             To(r, [op |-> "insert_ticket", status |-> s]) /\ UNCHANGED <<catalogue, rules, onTicket>>
      BY <1>13, <2>3 DEF ReadDefault
    <3>2. PICK q : q = [op |-> "insert_ticket", status |-> s]
      OBVIOUS
    <3>3. q \in Administering /\ Chosen(q)'
      BY <3>2 DEF Administering, Chosen
    <3> QED
      BY <1>m, <1>w, <2>1, <3>1, <3>2, <3>3
  <2> QED
    BY <2>2, <2>3
<1>14. ASSUME NEW r \in Admin, ResolveTarget(r) PROVE Orderly' /\ TicketKeepsStatus
  <2>1. PICK q \in Administering : q = adm[r]
    BY <1>y
  <2>2. q \in [op : {"resolve", "move"}, status : Status] /\ q # Idle
    BY <1>14, <1>v, <2>1, AdmFields DEF ResolveTarget
  <2>3. PICK p : p = [q EXCEPT !.op = "move"]
    OBVIOUS
  <2>4. p \in [op : {"move"}, status : Status]
    BY <2>2, <2>3
  <2>5. p \in Administering /\ Chosen(p)'
    BY <2>4 DEF Administering, Chosen
  <2>6. (To(r, p) \/ To(r, Idle)) /\ UNCHANGED <<catalogue, onTicket>>
    BY <1>14, <2>1, <2>3 DEF ResolveTarget
  <2> QED
    BY <1>i, <1>m, <1>w, <2>1, <2>2, <2>5, <2>6
<1>15. ASSUME NEW r \in Admin, PutOnTicket(r) PROVE Orderly' /\ TicketKeepsStatus
  <2>1. adm[r] # Idle /\ To(r, Idle) /\ UNCHANGED catalogue
        /\ (onTicket' = onTicket \/ onTicket' = {adm[r].status})
    BY <1>15 DEF PutOnTicket, Rejects, Answers, Idle
  <2>2. Orderly'
    BY <1>0, <1>w, <1>z, <2>1, OrderlyMoves DEF Sole
  <2> QED
    BY <1>x, <2>1, <2>2
<1>16. ASSUME NEW r \in Admin, Die(r) PROVE Orderly' /\ TicketKeepsStatus
  BY <1>16, <1>i DEF Die, Rejects
<1> QED
  BY <1>1, <1>2, <1>3, <1>4, <1>5, <1>6, <1>7, <1>8, <1>9, <1>10, <1>11, <1>12, <1>13, <1>14, <1>15,
     <1>16 DEF StatusesResume

LEMMA DeskStepsStatuses ==
  ASSUME [DeskNext]_deskVars
  PROVE  /\ StatusesBegin \/ StatusesResume \/ UNCHANGED statusVars
         /\ alone' = alone
         /\ alone => \/ Lone(adm) /\ StatusesBegin
                     \/ StatusesResume \/ UNCHANGED statusVars
BY DEF DeskNext, deskVars, StatusesTurn, ClientsTurn, RepliesTurn, AssignmentTurn

LEMMA CatalogueInvInit ==
  ASSUME DeskInit PROVE CatalogueInv
<1> USE DEF DeskInit, StatusesInit
<1>1. Known = {} /\ Defaults = {} /\ Idle \in Administering /\ Chosen(Idle)
  BY DEF Known, Defaults, Present, Administering, Onward, Listing, Chosen, Idle
<1>2. Catalogued
  BY <1>1 DEF Catalogued, Tickets
<1>3. Orderly
  BY <1>1 DEF Orderly, OneAtATime
<1> QED
  BY <1>2, <1>3 DEF CatalogueInv

LEMMA CatalogueInvStep ==
  ASSUME CatalogueInv, [DeskNext]_deskVars
  PROVE  CatalogueInv'
<1>1. CASE UNCHANGED statusVars
  <2>1. Known' = Known /\ Defaults' = Defaults
    BY <1>1 DEF statusVars, Known, Defaults, Present
  <2>2. Catalogued'
    BY <1>1, <2>1 DEF CatalogueInv, Catalogued, statusVars
  <2>3. alone => Orderly'
    BY <1>1, <2>1 DEF CatalogueInv, Orderly, OneAtATime, Chosen, statusVars
  <2> QED
    BY <2>2, <2>3, DeskStepsStatuses DEF CatalogueInv
<1>2. Catalogued'
  BY <1>1, DeskStepsStatuses, StatusesBegins, CataloguedResumes DEF CatalogueInv, StatusesBegun
<1>3. alone => Orderly'
  BY <1>1, DeskStepsStatuses, OrderlyBegins, OrderlyResumes DEF CatalogueInv
<1> QED
  BY <1>2, <1>3, DeskStepsStatuses DEF CatalogueInv

LEMMA OnlyDeletionEmpties ==
  ASSUME CatalogueInv, [DeskNext]_deskVars
  PROVE  /\ Defaults # {} /\ Defaults' = {} => \E r \in Admin : adm[r].op = "delete"
         /\ alone => TicketKeepsStatus
<1>1. CASE UNCHANGED statusVars
  BY <1>1 DEF statusVars, Defaults, Known, Present, TicketKeepsStatus
<1>2. CASE StatusesBegin
  BY <1>2, StatusesBegins DEF CatalogueInv, StatusesBegun, TicketKeepsStatus
<1>3. CASE StatusesResume
  BY <1>3, CataloguedResumes, OrderlyResumes DEF CatalogueInv
<1> QED
  BY <1>1, <1>2, <1>3, DeskStepsStatuses

\* However requests overlap, the default is one new tickets may have, no rule leads to
\* MERGED, and only a deletion can leave the organization without a default; with one
\* request after the other there is exactly one, and no ticket loses its status.
THEOREM CatalogueAlwaysSafe == DeskSpec => CatalogueSafe
<1>1. CatalogueInv => StatusesTypeOK /\ MergedReserved /\ (alone => OneDefault)
  <2> SUFFICES ASSUME CatalogueInv
               PROVE  StatusesTypeOK /\ MergedReserved /\ (alone => OneDefault)
    OBVIOUS
  <2>1. (\E s \in Status : Defaults = {s}) => Cardinality(Defaults) = 1
    BY FS_Singleton
  <2> QED
    BY <2>1, CataloguedMeans DEF CatalogueInv, Orderly, OneDefault
<1>2. CatalogueInv /\ [DeskNext]_deskVars
        => [Defaults # {} /\ Defaults' = {} => \E r \in Admin : adm[r].op = "delete"]_statusVars
  BY OnlyDeletionEmpties
<1>3. CatalogueInv /\ [DeskNext]_deskVars => [alone => TicketKeepsStatus]_deskVars
  BY OnlyDeletionEmpties
<1> QED
  BY <1>1, <1>2, <1>3, CatalogueInvInit, CatalogueInvStep, PTL DEF DeskSpec, CatalogueSafe, DefaultKept
==============================================================================
