--------------------------- MODULE TicketStatuses ---------------------------
(***************************************************************************)
(* The administration of the ticket status catalogue and of the workflow   *)
(* rules (apps/api/src/modules/ticket-workflow/ticket-workflow.service.ts) *)
(* next to the tickets that name a status: TicketLifecycle takes the       *)
(* catalogue and the rules as constants, here they change.                 *)
(*                                                                         *)
(* Of a status its row keeps whether it is active and the default; what it *)
(* stands for never changes and is a constant.  A handler is a sequence of *)
(* steps, one per await that reads or writes; "adm" holds what it has read.*)
(***************************************************************************)
EXTENDS Requests

CONSTANTS
    Status,         \* ids of status definitions, present or not
    Seeded,         \* those ensureDefaults creates
    Protected,      \* isProtected, among the seeded ones
    FirstDefault,   \* the seeded default
    Behaviour,      \* categoryFor(systemStatus): "eligible" (NEW, ACTIVE),
                    \* "merged" or "other"
    Rule,           \* ids of workflow rules; bounds their number
    From,           \* bound: the values of fromStatusIds
    SeedRule,       \* the rules ensureDefaults creates
    Admin           \* request slots

VARIABLES
    catalogue,      \* ticket_status_definitions
    rules,          \* ticket_workflow_rules
    onTicket,       \* statusDefinitionId of a ticket, {} when null
    adm             \* requests in progress

statusVars == <<catalogue, rules, onTicket, adm>>

StatusRow == [active : BOOLEAN, default : BOOLEAN]
RuleRow == [target : Status, from : From, active : BOOLEAN]

ASSUME SeedAssumption ==
    /\ FirstDefault \in Seeded /\ Seeded \subseteq Status /\ Behaviour[FirstDefault] = "eligible"
    /\ SeedRule \subseteq RuleRow /\ \A rule \in SeedRule : Behaviour[rule.target] # "merged"

StatusesTypeOK ==
    /\ catalogue \in [Status -> StatusRow \cup {Absent}]
    /\ rules \in [Rule -> RuleRow \cup {Absent}]
    /\ onTicket \in {{}} \cup {{s} : s \in Status}
    /\ \A r \in Admin : adm[r].op \in
          {"idle", "seed", "count", "seed_rules", "create", "clear", "commit", "remove",
           "counting", "delete", "archive", "disable", "validate", "insert_rule",
           "rewrite_rule", "default", "insert_ticket", "resolve", "move"}

StatusesInit ==
    /\ catalogue = [s \in Status |-> Absent]
    /\ rules = [k \in Rule |-> Absent]
    /\ onTicket = {}
    /\ adm = [r \in Admin |-> Idle]

Known == Present(catalogue)
Active == {s \in Known : catalogue[s].active}
Defaults == {s \in Known : catalogue[s].default}
Mentions(rule, s) == rule.target = s \/ s \in rule.from

To(r, q) == adm' = [adm EXCEPT ![r] = q]
Rejects(r) == To(r, Idle) /\ UNCHANGED <<catalogue, rules, onTicket>>
Answers(r) == To(r, Idle)

\* The rows a transaction in progress has written: others wait to write them.
Locked(r) == UNION {adm[p].cleared : p \in {p \in Admin \ {r} : adm[p].op = "commit"}}

(***************************************************************************)
(* ensureDefaults, before the handlers that list, create or resolve.       *)
(***************************************************************************)

Listing == [op |-> "idle"]
Creating == [op : {"create"}, status : Status, default : BOOLEAN]
Validating == [op : {"validate"}, id : Rule, rule : RuleRow, new : BOOLEAN]
Resolving == [op : {"resolve"}, status : Status]
NewTicket == [op |-> "default"]

EnsureDefaults(r, then) ==
    /\ adm[r] = Idle
    /\ To(r, [op |-> IF Known = {} THEN "seed" ELSE "count", then |-> then])
    /\ UNCHANGED <<catalogue, rules, onTicket>>

\* One transaction: the unique key makes the second of two of them fail as a whole.
SeedStatuses(r) ==
    /\ adm[r].op = "seed"
    /\ IF Known \cap Seeded # {} THEN Rejects(r)
       ELSE /\ catalogue' = [s \in Status |->
                               IF s \in Seeded
                               THEN [active |-> TRUE, default |-> s = FirstDefault]
                               ELSE catalogue[s]]
            /\ To(r, [adm[r] EXCEPT !.op = "count"])
            /\ UNCHANGED <<rules, onTicket>>

\* Rules exist, or a status they need does not: nothing to create.
CountRules(r) ==
    /\ adm[r].op = "count"
    /\ To(r, IF Present(rules) # {} \/ \E rule \in SeedRule : rule.target \notin Known
             THEN adm[r].then ELSE [adm[r] EXCEPT !.op = "seed_rules"])
    /\ UNCHANGED <<catalogue, rules, onTicket>>

SeedRules(r) ==
    /\ adm[r].op = "seed_rules"
    /\ IF \E rule \in SeedRule : rule.target \notin Known THEN Rejects(r)
       ELSE \E id \in [SeedRule -> Rule \ Present(rules)] :
               /\ \A a, b \in SeedRule : id[a] = id[b] => a = b
               /\ rules' = [k \in Rule |-> IF \E rule \in SeedRule : id[rule] = k
                                           THEN CHOOSE rule \in SeedRule : id[rule] = k
                                           ELSE rules[k]]
               /\ To(r, adm[r].then)
               /\ UNCHANGED <<catalogue, onTicket>>

(***************************************************************************)
(* createStatus, updateStatus, removeStatus, restoreStatus.                *)
(***************************************************************************)

CanCreate(s, default) ==
    s \notin Seeded /\ Behaviour[s] # "merged" /\ (default => Behaviour[s] = "eligible")

\* Mutant: the old default not cleared.
CreateWithoutClearing(r) ==
    /\ adm[r].op = "create"
    /\ LET q == adm[r] IN
       IF q.status \in Known THEN Rejects(r)
       ELSE /\ catalogue' = [catalogue EXCEPT ![q.status] = [active |-> TRUE, default |-> q.default]]
            /\ Answers(r) /\ UNCHANGED <<rules, onTicket>>

\* A default is made in a transaction that first clears the others.
Create(r) ==
    /\ adm[r].op = "create"
    /\ LET q == adm[r] IN
       IF q.status \in Known THEN Rejects(r)
       ELSE IF q.default
       THEN /\ To(r, [op |-> "clear", status |-> q.status, new |-> TRUE, activate |-> TRUE])
            /\ UNCHANGED <<catalogue, rules, onTicket>>
       ELSE /\ catalogue' = [catalogue EXCEPT ![q.status] = [active |-> TRUE, default |-> FALSE]]
            /\ Answers(r) /\ UNCHANGED <<rules, onTicket>>

\* The default cannot be unset; isActive: false is a removal.
Update(r, s, default, activate) ==
    /\ adm[r] = Idle /\ s \in Known /\ (default => Behaviour[s] = "eligible")
    /\ IF default
       THEN /\ To(r, [op |-> "clear", status |-> s, new |-> FALSE, activate |-> activate])
            /\ UNCHANGED catalogue
       ELSE /\ s \notin Locked(r)
            /\ catalogue' = [catalogue EXCEPT ![s].active = @ \/ activate]
            /\ UNCHANGED adm
    /\ UNCHANGED <<rules, onTicket>>

\* Mutant: no transaction, the others are cleared at once.
ClearAtOnce(r) ==
    /\ adm[r].op = "clear"
    /\ LET q == adm[r] IN
       /\ catalogue' = [s \in Status |-> IF s \in Defaults \ {q.status}
                                         THEN [catalogue[s] EXCEPT !.default = FALSE]
                                         ELSE catalogue[s]]
       /\ To(r, [op |-> "commit", status |-> q.status, new |-> q.new,
                 activate |-> q.activate, cleared |-> {}])
    /\ UNCHANGED <<rules, onTicket>>

\* updateMany sees the committed rows, and waits for those another transaction wrote.
ClearDefaults(r) ==
    /\ adm[r].op = "clear"
    /\ LET q == adm[r]
           others == Defaults \ {q.status} IN
       /\ others \cap Locked(r) = {}
       /\ To(r, [op |-> "commit", status |-> q.status, new |-> q.new,
                 activate |-> q.activate, cleared |-> others])
    /\ UNCHANGED <<catalogue, rules, onTicket>>

CommitDefault(r) ==
    /\ adm[r].op = "commit"
    /\ LET q == adm[r] IN
       /\ q.status \notin Locked(r)
       /\ IF (q.status \in Known) = q.new THEN Rejects(r)
          ELSE /\ catalogue' =
                    [s \in Status |->
                       IF s \in q.cleared \cap Known THEN [catalogue[s] EXCEPT !.default = FALSE]
                       ELSE IF s = q.status
                       THEN [active |-> IF q.new THEN TRUE ELSE catalogue[s].active \/ q.activate,
                             default |-> TRUE]
                       ELSE catalogue[s]]
               /\ Answers(r) /\ UNCHANGED <<rules, onTicket>>

\* The row is read again and refused when protected or the default.
Remove(r, s) ==
    /\ adm[r] = Idle /\ s \in Known \ Protected /\ ~catalogue[s].default
    /\ To(r, [op |-> "counting", status |-> s])
    /\ UNCHANGED <<catalogue, rules, onTicket>>

\* Mutant: the tickets not counted.
CountNoTickets(s) == \E k \in Present(rules) : Mentions(rules[k], s)

\* Tickets, rules to it and rules from it.
InUse(s) == s \in onTicket \/ \E k \in Present(rules) : Mentions(rules[k], s)

CountUses(r) ==
    /\ adm[r].op = "counting"
    /\ To(r, [adm[r] EXCEPT !.op = IF InUse(adm[r].status) THEN "archive" ELSE "delete"])
    /\ UNCHANGED <<catalogue, rules, onTicket>>

\* A rule to the status makes the deletion fail; a ticket loses its status.
Delete(r) ==
    /\ adm[r].op = "delete"
    /\ LET s == adm[r].status IN
       /\ s \notin Locked(r)
       /\ IF s \notin Known \/ \E k \in Present(rules) : rules[k].target = s THEN Rejects(r)
          ELSE /\ catalogue' = [catalogue EXCEPT ![s] = Absent]
               /\ onTicket' = onTicket \ {s}
               /\ Answers(r) /\ UNCHANGED rules

Archive(r) ==
    /\ adm[r].op = "archive"
    /\ LET s == adm[r].status IN
       /\ s \notin Locked(r)
       /\ IF s \notin Known THEN Rejects(r)
          ELSE /\ catalogue' = [catalogue EXCEPT ![s].active = FALSE]
               /\ To(r, [op |-> "disable", status |-> s])
               /\ UNCHANGED <<rules, onTicket>>

DisableRules(r) ==
    /\ adm[r].op = "disable"
    /\ rules' = [k \in Rule |->
                   IF rules[k] # Absent /\ Mentions(rules[k], adm[r].status)
                   THEN [rules[k] EXCEPT !.active = FALSE] ELSE rules[k]]
    /\ Answers(r) /\ UNCHANGED <<catalogue, onTicket>>

Restore(s) ==
    /\ s \in Known /\ \A p \in Admin : adm[p].op = "commit" => s \notin adm[p].cleared
    /\ catalogue' = [catalogue EXCEPT ![s].active = TRUE]
    /\ UNCHANGED <<rules, onTicket, adm>>

(***************************************************************************)
(* createRule, updateRule, deleteRule.                                     *)
(***************************************************************************)

\* Mutant: any active status accepted as a target.
ValidAnyTarget(rule) == rule.from \cup {rule.target} \subseteq Active

\* validateRuleStatuses.
ValidRule(rule) ==
    rule.from \cup {rule.target} \subseteq Active /\ Behaviour[rule.target] # "merged"

ValidateRule(r) ==
    /\ adm[r].op = "validate"
    /\ IF ValidRule(adm[r].rule)
       THEN To(r, [adm[r] EXCEPT !.op = IF adm[r].new THEN "insert_rule" ELSE "rewrite_rule"])
       ELSE Answers(r)
    /\ UNCHANGED <<catalogue, rules, onTicket>>

\* The foreign key of the target holds, whatever was validated.
WriteRule(r) ==
    /\ adm[r].op \in {"insert_rule", "rewrite_rule"}
    /\ LET q == adm[r] IN
       IF q.rule.target \notin Known \/ (rules[q.id] = Absent) # q.new THEN Rejects(r)
       ELSE /\ rules' = [rules EXCEPT ![q.id] = q.rule]
            /\ Answers(r) /\ UNCHANGED <<catalogue, onTicket>>

\* New statuses for a rule are validated, switching it on or off is not.
Retarget(r, k, target, from) ==
    /\ adm[r] = Idle /\ rules[k] # Absent
    /\ To(r, [op |-> "validate", id |-> k, new |-> FALSE,
              rule |-> [rules[k] EXCEPT !.target = target, !.from = from]])
    /\ UNCHANGED <<catalogue, rules, onTicket>>

Toggle(k) ==
    /\ rules[k] # Absent
    /\ rules' = [rules EXCEPT ![k].active = ~@]
    /\ UNCHANGED <<catalogue, onTicket, adm>>

DeleteRule(k) ==
    /\ rules[k] # Absent
    /\ rules' = [rules EXCEPT ![k] = Absent]
    /\ UNCHANGED <<catalogue, onTicket, adm>>

(***************************************************************************)
(* getDefaultStatus for a new ticket, resolveTarget for a transition.      *)
(***************************************************************************)

ReadDefault(r) ==
    /\ adm[r].op = "default"
    /\ \/ /\ Defaults \cap Active = {}
          /\ Rejects(r)
       \/ \E s \in Defaults \cap Active :
             /\ To(r, [op |-> "insert_ticket", status |-> s])
             /\ UNCHANGED <<catalogue, rules, onTicket>>

ResolveTarget(r) ==
    /\ adm[r].op = "resolve"
    /\ To(r, IF adm[r].status \in Active THEN [adm[r] EXCEPT !.op = "move"] ELSE Idle)
    /\ UNCHANGED <<catalogue, rules, onTicket>>

\* The foreign key again: the status read may be gone.
PutOnTicket(r) ==
    /\ adm[r].op \in {"insert_ticket", "move"}
    /\ IF adm[r].status \notin Known THEN Rejects(r)
       ELSE /\ onTicket' = {adm[r].status}
            /\ Answers(r) /\ UNCHANGED <<catalogue, rules>>

\* A request dies; its transaction is rolled back.
Die(r) == adm[r] # Idle /\ Rejects(r)

StatusesBegin ==
    \/ \E r \in Admin :
          \/ \E then \in {Listing, NewTicket} : EnsureDefaults(r, then)
          \/ \E s \in Status, default \in BOOLEAN :
                \/ /\ CanCreate(s, default)
                   /\ EnsureDefaults(r, [op |-> "create", status |-> s, default |-> default])
                \/ \E activate \in BOOLEAN : Update(r, s, default, activate)
          \/ \E s \in Status : Remove(r, s) \/ EnsureDefaults(r, [op |-> "resolve", status |-> s])
          \/ \E k \in Rule, target \in Status, from \in From :
                \/ Retarget(r, k, target, from)
                \/ /\ rules[k] = Absent
                   /\ EnsureDefaults(r, [op |-> "validate", id |-> k, new |-> TRUE,
                                         rule |-> [target |-> target, from |-> from,
                                                   active |-> TRUE]])
    \/ \E s \in Status : Restore(s)
    \/ \E k \in Rule : Toggle(k) \/ DeleteRule(k)

StatusesResume ==
    \E r \in Admin :
       \/ SeedStatuses(r) \/ CountRules(r) \/ SeedRules(r) \/ Create(r) \/ ClearDefaults(r)
       \/ CommitDefault(r) \/ CountUses(r) \/ Delete(r) \/ Archive(r) \/ DisableRules(r)
       \/ ValidateRule(r) \/ WriteRule(r) \/ ReadDefault(r) \/ ResolveTarget(r)
       \/ PutOnTicket(r) \/ Die(r)

StatusesNext == StatusesBegin \/ StatusesResume

StatusesSpec == StatusesInit /\ [][StatusesNext]_statusVars

(***************************************************************************)
(* Properties.                                                             *)
(***************************************************************************)

\* One request after the other: an organization with statuses has exactly one default,
\* through creation, choice of another one, archiving and requests that die.
OneDefault == Known # {} => Cardinality(Defaults) = 1

\* Requests overlapping: the default is always one new tickets may have, and no rule
\* moves a ticket to a MERGED status, which TicketLifecycle takes as an assumption.
MergedReserved ==
    /\ \A s \in Defaults : Behaviour[s] = "eligible"
    /\ \A k \in Present(rules) : Behaviour[rules[k].target] # "merged"

\* Requests overlapping: only a deletion decided before the status became the default
\* can leave the organization without one.
DefaultKept ==
    [][Defaults # {} /\ Defaults' = {} => \E r \in Admin : adm[r].op = "delete"]_statusVars

\* One request after the other: removing a status never takes it from the ticket that
\* has it.
TicketKeepsStatus == onTicket # {} => onTicket' # {}
==============================================================================
