--------------------------- MODULE TicketLifecycle ---------------------------
(***************************************************************************)
(* The status columns of a ticket under every handler that writes them     *)
(* (apps/api/src/modules/tickets/tickets.service.ts, support-portal.       *)
(* service.ts), with the workflow rules the handlers apply afterwards.     *)
(*                                                                         *)
(* As in TicketMerge a handler's awaits split it into steps and "req"      *)
(* holds what it has read; unlike there, statuses and rules are those of   *)
(* the program, and merging is only what it writes to the source's row.    *)
(***************************************************************************)
EXTENDS WorkflowRules

CONSTANTS
    Ticket,
    Request,        \* slots for requests in progress
    Mortal,         \* bound: the slots in which requests may die
    DefaultDef,     \* getDefaultStatus
    Rules,          \* the active rules of each trigger, by priority
    ByStatus        \* whether bulk updates name system statuses too; the web
                    \* client names definitions only

ASSUME RulesAssumption ==
    /\ Rules \in [Trigger -> Seq(Rule)]
    /\ \A g \in Trigger : \A i \in DOMAIN Rules[g] : Sys[Rules[g][i].target] # "MERGED"
ASSUME DefaultAssumption ==
    DefaultDef \in Def /\ Category[Sys[DefaultDef]] \in {"NEW", "ACTIVE"}

VARIABLES
    row,            \* the ticket rows
    replied,        \* a public outbound message exists
    req             \* requests in progress

vars == <<row, replied, req>>

Absent == [status |-> "ABSENT"]
Idle == [op |-> "idle"]

\* An email matched to its ticket; rules about to be applied, prior being the
\* closing time the caller passes ("unset": the one read with the ticket).
Matched == [op : {"matched"}, ticket : Ticket, reopen : BOOLEAN, wait : BOOLEAN,
            prior : {"null", "recent", "old"}]
Triggered == [op : {"triggered"}, ticket : Ticket, trigger : Trigger,
              prior : {"null", "recent", "old", "unset"}]

\* Rules being applied, and the ones left.
Applying == [op : {"applying"}, ticket : Ticket, trigger : Trigger,
             def : Def \cup {NoDef}, closedAt : {"null", "recent", "old"},
             replied : BOOLEAN, rest : Seq(Rule) \ {<<>>}]

\* A message being sent and recorded; a transition to come.
MessageKind == {"send", "send_and_close", "note_and_close"}
Sending == [op : {"sending", "recorded"}, ticket : Ticket, kind : MessageKind]
Moving == [op : {"moving"}, ticket : Ticket, target : Def]

TypeOK ==
    /\ row \in [Ticket -> Row \cup {Absent}]
    /\ replied \in [Ticket -> BOOLEAN]
    /\ req \in [Request -> {Idle} \cup Matched \cup Triggered \cup Applying
                                  \cup Sending \cup Moving]

Init ==
    /\ row = [t \in Ticket |-> Absent]
    /\ replied = [t \in Ticket |-> FALSE]
    /\ req = [r \in Request |-> Idle]

Exists(t) == row[t].status # "ABSENT"

(***************************************************************************)
(* Creation: by staff or an inbound email with the default status, by the  *)
(* support portal with none.                                               *)
(***************************************************************************)

\* Mutant: the times forgotten.
FreshBare(s, d) == [status |-> s, def |-> d]

Fresh(s, d) == [status |-> s, def |-> d, closedAt |-> "null", resolved |-> FALSE]

Create(t) ==
    /\ ~Exists(t)
    /\ row' = [row EXCEPT ![t] = Fresh(Sys[DefaultDef], DefaultDef)]
    /\ UNCHANGED <<replied, req>>

CreateFromPortal(t) ==
    /\ ~Exists(t)
    /\ row' = [row EXCEPT ![t] = Fresh("NEW", NoDef)]
    /\ UNCHANGED <<replied, req>>

(***************************************************************************)
(* createFromInboundEmail for a known ticket.                              *)
(***************************************************************************)

\* shouldReopenFromInbound.
Reopens(status) == status \in Completed

InboundMatch(r, t) ==
    /\ req[r] = Idle /\ Exists(t)
    /\ req' = [req EXCEPT ![r] =
                 [op |-> "matched", ticket |-> t, reopen |-> Reopens(row[t].status),
                  wait |-> row[t].status # "MERGED" /\ replied[t],
                  prior |-> row[t].closedAt]]
    /\ UNCHANGED <<row, replied>>

\* The status column is written, the definition is not.
InboundCommit(r) ==
    /\ req[r].op = "matched"
    /\ LET q == req[r]
           old == row[q.ticket]
           status == IF q.wait THEN "WAITING_ON_TECHNICIAN"
                     ELSE IF q.reopen THEN "REOPENED" ELSE old.status IN
       /\ row' = [row EXCEPT ![q.ticket] =
                    [old EXCEPT !.status = status,
                                !.closedAt = IF q.reopen THEN "null" ELSE @,
                                !.resolved = IF q.reopen THEN FALSE ELSE @]]
       /\ req' = [req EXCEPT ![r] = [op |-> "triggered", ticket |-> q.ticket,
                                     trigger |-> "CUSTOMER_REPLIED", prior |-> q.prior]]
    /\ UNCHANGED replied

(***************************************************************************)
(* applyRules.                                                             *)
(***************************************************************************)

\* After a rule (or none): idle when no rule is left.
Continue(q) == IF q.rest = <<>> THEN Idle ELSE q

\* The ticket, the reply count and the rules are read; a row without a
\* definition first gets the one of its status.
RulesBegin(r) ==
    /\ req[r].op = "triggered"
    /\ LET q == req[r]
           old == row[q.ticket]
           def == IF old.def = NoDef THEN Named[old.status] ELSE old.def
           seen == [op |-> "applying", ticket |-> q.ticket, trigger |-> q.trigger,
                    def |-> def, replied |-> replied[q.ticket],
                    closedAt |-> IF q.prior = "unset" THEN old.closedAt ELSE q.prior,
                    rest |-> Rules[q.trigger]] IN
       /\ row' = [row EXCEPT ![q.ticket] = [old EXCEPT !.def = def]]
       /\ req' = [req EXCEPT ![r] = Continue(seen)]
    /\ UNCHANGED replied

\* The next rule: if it matches, transitionTicket reads the row again and moves it.
RuleStep(r) ==
    /\ req[r].op = "applying"
    /\ LET q == req[r]
           rule == Head(q.rest)
           hit == Matches(rule, q)
           moved == IF hit THEN Transition(row[q.ticket], rule.target) ELSE row[q.ticket]
           left == [q EXCEPT !.rest = Tail(@),
                             !.def = IF moved = row[q.ticket] THEN @ ELSE rule.target] IN
       /\ row' = [row EXCEPT ![q.ticket] = moved]
       /\ req' = [req EXCEPT ![r] = IF hit /\ rule.stop THEN Idle ELSE Continue(left)]
    /\ UNCHANGED replied

(***************************************************************************)
(* createMessage.                                                          *)
(***************************************************************************)

MessageStart(r, t, kind) ==
    /\ req[r] = Idle /\ Exists(t) /\ row[t].status # "MERGED"
    /\ req' = [req EXCEPT ![r] = [op |-> "sending", ticket |-> t, kind |-> kind]]
    /\ UNCHANGED <<row, replied>>

MessageRecord(r) ==
    /\ req[r].op = "sending"
    /\ replied' = [replied EXCEPT ![req[r].ticket] = @ \/ req[r].kind # "note_and_close"]
    /\ req' = [req EXCEPT ![r] = [@ EXCEPT !.op = "recorded"]]
    /\ UNCHANGED row

\* Mutant: the rules not applied after a reply.
MessageStampOnly(r) ==
    /\ req[r].op = "recorded"
    /\ LET q == req[r] IN
       IF q.kind = "send"
       THEN /\ row' = [row EXCEPT ![q.ticket] =
                         [@ EXCEPT !.status = "WAITING_ON_CUSTOMER", !.closedAt = "null",
                                   !.resolved = FALSE]]
            /\ req' = [req EXCEPT ![r] = Idle]
       ELSE /\ row' = [row EXCEPT ![q.ticket] =
                         [@ EXCEPT !.status = "CLOSED", !.closedAt = "recent"]]
            /\ req' = [req EXCEPT ![r] = [op |-> "moving", ticket |-> q.ticket,
                                          target |-> Named["CLOSED"]]]
    /\ UNCHANGED replied

\* The status column is written; the rules, or the transition to the closed
\* definition, follow.
MessageStamp(r) ==
    /\ req[r].op = "recorded"
    /\ LET q == req[r] IN
       IF q.kind = "send"
       THEN /\ row' = [row EXCEPT ![q.ticket] =
                         [@ EXCEPT !.status = "WAITING_ON_CUSTOMER", !.closedAt = "null",
                                   !.resolved = FALSE]]
            /\ req' = [req EXCEPT ![r] = [op |-> "triggered", ticket |-> q.ticket,
                                          trigger |-> "TECHNICIAN_REPLIED", prior |-> "unset"]]
       ELSE /\ row' = [row EXCEPT ![q.ticket] =
                         [@ EXCEPT !.status = "CLOSED", !.closedAt = "recent"]]
            /\ req' = [req EXCEPT ![r] = [op |-> "moving", ticket |-> q.ticket,
                                          target |-> Named["CLOSED"]]]
    /\ UNCHANGED replied

\* A transition resolved earlier.
Move(r) ==
    /\ req[r].op = "moving"
    /\ row' = [row EXCEPT ![req[r].ticket] = Transition(@, req[r].target)]
    /\ req' = [req EXCEPT ![r] = Idle]
    /\ UNCHANGED replied

(***************************************************************************)
(* Staff changing the status.  MERGED is refused as a target everywhere.   *)
(***************************************************************************)

Settable == {d \in Def : Sys[d] # "MERGED"}

TriggeredBy(t, g) == [op |-> "triggered", ticket |-> t, trigger |-> g, prior |-> "unset"]

UpdateState(r, t, d) ==
    /\ req[r] = Idle /\ Exists(t) /\ d \in Settable
    /\ row' = [row EXCEPT ![t] = Transition(@, d)]
    /\ req' = IF Sys[d] = "REOPENED"
              THEN [req EXCEPT ![r] = TriggeredBy(t, "MANUAL_REOPEN")] ELSE req
    /\ UNCHANGED replied

CloseTicket(t) ==
    /\ Exists(t) /\ row[t].status # "CLOSED"
    /\ row' = [row EXCEPT ![t] = Transition(@, Named["CLOSED"])]
    /\ UNCHANGED <<replied, req>>

\* updateAssignment, and bulkUpdate by definition: the status may stay (NoDef), and
\* assigning anyone applies the rules.
Assign(r, t, d, assigned) ==
    /\ req[r] = Idle /\ Exists(t)
    /\ d \in Settable \cup {NoDef}
    /\ row' = [row EXCEPT ![t] = IF d = NoDef THEN @ ELSE Transition(@, d)]
    /\ req' = IF assigned
              THEN [req EXCEPT ![r] = TriggeredBy(t, "TICKET_ASSIGNED")] ELSE req
    /\ UNCHANGED replied

\* bulkUpdate by system status: closedAt is written before the transition.
BulkByStatus(r, t, s) ==
    /\ ByStatus /\ req[r] = Idle /\ Exists(t) /\ s # "MERGED"
    /\ LET time == IF s = "CLOSED" THEN "recent"
                   ELSE IF s \in {"REOPENED", "OPEN"} THEN "null" ELSE row[t].closedAt IN
       row' = [row EXCEPT ![t] = [@ EXCEPT !.closedAt = time]]
    /\ req' = [req EXCEPT ![r] = [op |-> "moving", ticket |-> t, target |-> Named[s]]]
    /\ UNCHANGED replied

\* mergeTickets, for a source.  A merge validated earlier finds the row as it is.
MergeSource(t) ==
    /\ Exists(t)
    /\ row' = [row EXCEPT ![t] = [@ EXCEPT !.status = "MERGED", !.def = Named["MERGED"],
                                           !.closedAt = "recent"]]
    /\ UNCHANGED <<replied, req>>

\* The reopen window of a closed ticket runs out.
Age(t) ==
    /\ Exists(t) /\ row[t].closedAt = "recent"
    /\ row' = [row EXCEPT ![t] = [@ EXCEPT !.closedAt = "old"]]
    /\ UNCHANGED <<replied, req>>

\* A request dies: an exception, or the process stopping.
Abort(r) ==
    /\ r \in Mortal /\ req[r] # Idle
    /\ req' = [req EXCEPT ![r] = Idle]
    /\ UNCHANGED <<row, replied>>

Begin ==
    \/ \E t \in Ticket : \/ Create(t) \/ CreateFromPortal(t) \/ CloseTicket(t)
                         \/ MergeSource(t) \/ Age(t)
    \/ \E r \in Request, t \in Ticket :
          \/ InboundMatch(r, t)
          \/ \E kind \in MessageKind : MessageStart(r, t, kind)
          \/ \E d \in Def : UpdateState(r, t, d)
          \/ \E d \in Def \cup {NoDef}, assigned \in BOOLEAN : Assign(r, t, d, assigned)
          \/ \E s \in SystemStatus : BulkByStatus(r, t, s)

Resume ==
    \E r \in Request :
       \/ InboundCommit(r) \/ RulesBegin(r) \/ RuleStep(r)
       \/ MessageRecord(r) \/ MessageStamp(r) \/ Move(r)

Next == Begin \/ Resume \/ \E r \in Request : Abort(r)

Spec == Init /\ [][Next]_vars

\* One request after the other, each to its end.
AllIdle == \A r \in Request : req[r] = Idle
OneAtATime == AllIdle \/ Resume

(***************************************************************************)
(* Properties.                                                             *)
(***************************************************************************)

\* A request is about to make a transition it has prepared.
Halfway(t) == \E r \in Request : req[r].op = "moving" /\ req[r].ticket = t

\* Whatever overlaps or dies half way, a CLOSED ticket has a closing time, which
\* reopen windows need, and a RESOLVED one has none.  It takes that every handler
\* that clears the time also writes the status, and the converse.
ClosingTimes ==
    \A t \in Ticket : ~Halfway(t) =>
       /\ row[t].status = "CLOSED" => row[t].closedAt # "null"
       /\ row[t].status = "RESOLVED" => row[t].closedAt = "null"

\* With the seeded rules, once its requests have ended a ticket has the status of
\* the definition shown for it: handlers write the status alone and rely on a rule
\* to bring the definition along.
StatusAgrees ==
    AllIdle => \A t \in Ticket :
       Exists(t) /\ row[t].def # NoDef => row[t].status = Sys[row[t].def]

\* Once requests have ended, an active ticket carries no trace of having been closed
\* or resolved.
ActiveUnstamped ==
    AllIdle => \A t \in Ticket :
       row[t].status \in ActiveStatus => row[t].closedAt = "null" /\ ~row[t].resolved
==============================================================================
