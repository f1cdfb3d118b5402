------------------------------- MODULE MCDesk --------------------------------
(***************************************************************************)
(* The services around a ticket, each on small sets: the status catalogue, *)
(* clients and domains, automatic replies, assignment and routing.  They   *)
(* write different tables: a behaviour exercises one of them, "focus".     *)
(* With "alone" one request ends before the next begins and none dies.     *)
(***************************************************************************)
EXTENDS TicketStatuses, Clients, AutoReplies, Assignment, TLC

ASSUME MailAssumption == Mail # {}

VARIABLES focus, alone

deskVars == <<statusVars, clientVars, replyVars, assignmentVars, focus, alone>>

MCBehaviour == [s \in Status |-> IF s = "merged" THEN "merged" ELSE "eligible"]
MCFrom == {{"custom"}}
MCSeedRule == {[target |-> "new", from |-> {"custom"}, active |-> TRUE]}
MCForm ==
    {[rank |-> 1, all |-> TRUE, conds |-> {"c1"}, on |-> TRUE,
      user |-> u, team |-> NoOne, tell |-> {}] : u \in User \ Movable}
    \cup {[rank |-> 2, all |-> FALSE, conds |-> {"c1", "c2"}, on |-> TRUE,
           user |-> NoOne, team |-> g, tell |-> Movable] : g \in Team}

Slots == Permutations(Client) \cup Permutations(Clerk)

DeskInit ==
    /\ focus \in {"statuses", "clients", "replies", "assignment"} /\ alone \in BOOLEAN
    /\ StatusesInit /\ ClientsInit /\ RepliesInit /\ AssignmentInit

\* The operations whose overlaps the properties are about.
ClientsContend ==
    \/ \E r \in Clerk, c \in Client : CreateClient(r, c, TRUE) \/ CreateDomain(r, c, TRUE) \/ Associate(r, c)
    \/ \E c \in Client : SoftDeleteClient(c)
    \/ UpdateDomain(FALSE)
    \/ \E r \in Clerk, who \in Few :
          LET t == CHOOSE t \in Mail : TRUE IN ReceiveMail(r, t) \/ ReceiveOther(r, t, who)
AssignmentContend ==
    \E r \in Agent : \/ \E first \in User \cup {NoOne}, users \in SUBSET User :
                           UpdateAssignment(r, first, users, "keep")
                     \/ \E u \in User : BulkAssign(r, u, {u}, "keep", "bulk")
                     \/ \E users \in SUBSET Movable : UpdateWatchers(r, users)
                     \/ Open(r, FALSE)

StatusesTurn ==
    /\ focus = "statuses" /\ UNCHANGED <<clientVars, replyVars, assignmentVars, focus, alone>>
    /\ \/ (alone => Lone(adm)) /\ StatusesBegin
       \/ StatusesResume
\* Bound: one of the tickets is made by hand.
OneByHand == \A s, t \in Present(opened) : opened[s].sent \/ opened[t].sent \/ s = t
ClientsTurn ==
    /\ focus = "clients" /\ UNCHANGED <<statusVars, replyVars, assignmentVars, focus, alone>>
    /\ \/ alone /\ Lone(desk) /\ ClientsBegin /\ OneByHand'
       \/ ~alone /\ (ClientsContend \/ \E r \in Clerk : ClerkLost(r))
       \/ ClientsResume
RepliesTurn ==
    /\ focus = "replies" /\ alone /\ UNCHANGED <<statusVars, clientVars, assignmentVars, focus, alone>>
    /\ \/ Lone(reply) /\ RepliesBegin
       \/ RepliesResume
\* Bound: one thing about the people differs at a time from what it was at first: a user
\* who is not active, a team without its members or a preference that was chosen.
OneSetting ==
    Cardinality(User \ active) + Cardinality({t \in Team : members[t] # User})
      + Cardinality({u \in User : preference[u] \in {"subscribed", "off"}}) <= 1
AssignmentTurn ==
    /\ focus = "assignment" /\ UNCHANGED <<statusVars, clientVars, replyVars, focus, alone>>
    /\ \/ alone /\ Lone(handling) /\ (TicketBegin \/ (PeopleBegin /\ OneSetting'))
       \/ ~alone /\ (AssignmentContend \/ \E r \in Agent : AgentLost(r))
       \/ AssignmentResume

DeskNext == StatusesTurn \/ ClientsTurn \/ RepliesTurn \/ AssignmentTurn

DeskSpec == DeskInit /\ [][DeskNext]_deskVars

\* The catalogue has a default, one when administrators take turns; "merged" stays
\* reserved, and a status that is used is not deleted under its tickets.
CatalogueSafe ==
    /\ [](StatusesTypeOK /\ MergedReserved /\ (alone => OneDefault))
    /\ DefaultKept
    /\ [][alone => TicketKeepsStatus]_deskVars
\* The contact of a ticket opened by mail is of its client; with one request after the other
\* deleted clients have no domain, associating a domain reaches all its tickets, and nothing
\* replaces a ticket's client or contact.
ClientsSafe ==
    /\ [](ClientsTypeOK /\ ContactOfClient /\ (alone => DeletedClientsUnmapped))
    /\ [][alone => AssociatesAll /\ ChoicesKept]_deskVars
\* The closest template answers, once a conversation.
RepliesSafe == RepliesTypeOK /\ ScopeNamesClient /\ PicksClosest /\ AnsweredOnce
\* Assignees are told unless a failure keeps their request from it; an update drops only
\* assignees it has seen; with one request after the other the lead is an assignee.
AssignmentSafe ==
    /\ [](AssignmentTypeOK /\ AssigneesTold /\ (alone => LeadIsAssignee))
    /\ DropsWhatItSaw
==============================================================================
