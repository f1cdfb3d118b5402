---------------------------- MODULE WorkflowRules ----------------------------
(***************************************************************************)
(* The ticket status catalogue and the workflow rules as pure operators    *)
(* (apps/api/src/modules/ticket-workflow/ticket-workflow.service.ts).      *)
(*                                                                         *)
(* A ticket row carries its system status twice: in "status" and through   *)
(* the status definition "def" it names.  Of the times on the row only     *)
(* what the rules read is kept: whether closedAt is null, recent or older  *)
(* than the reopen window, and whether resolvedAt is set.                  *)
(***************************************************************************)
EXTENDS Naturals, Sequences

CONSTANTS
    Def,            \* ids of status definitions
    Sys,            \* Sys[d] = systemStatus of definition d
    Named,          \* Named[s] = the definition whose key is s
    NoDef           \* a row without status definition

Category ==
    [NEW |-> "NEW", OPEN |-> "ACTIVE", IN_PROGRESS |-> "ACTIVE",
     WAITING_ON_CUSTOMER |-> "WAITING_CUSTOMER",
     WAITING_ON_TECHNICIAN |-> "WAITING_STAFF",
     WAITING_ON_THIRD_PARTY |-> "WAITING_THIRD_PARTY",
     RESOLVED |-> "RESOLVED", CLOSED |-> "CLOSED", REOPENED |-> "ACTIVE",
     CANCELLED |-> "CANCELLED", MERGED |-> "MERGED"]

SystemStatus == DOMAIN Category
Completed == {"CLOSED", "RESOLVED", "CANCELLED"}
ActiveStatus == SystemStatus \ (Completed \cup {"MERGED"})

ASSUME CatalogueAssumption ==
    /\ Sys \in [Def -> SystemStatus] /\ NoDef \notin Def
    /\ Named \in [SystemStatus -> Def] /\ \A s \in SystemStatus : Sys[Named[s]] = s

Row == [status : SystemStatus, def : Def \cup {NoDef},
        closedAt : {"null", "recent", "old"}, resolved : BOOLEAN]

Trigger == {"CUSTOMER_REPLIED", "TECHNICIAN_REPLIED", "TICKET_ASSIGNED", "MANUAL_REOPEN"}

\* prior is requirePriorPublicReply; window says that reopenWindowDays is set.
Rule == [from : SUBSET Def, target : Def, prior : {"any", "yes", "no"},
         window : BOOLEAN, stop : BOOLEAN]

(***************************************************************************)
(* transitionData and transitionTicket.                                    *)
(***************************************************************************)

\* Mutant: closedAt kept by every move that does not close.
MovedStillClosed(row, d) ==
    [row EXCEPT !.status = Sys[d], !.def = d,
                !.closedAt = IF Category[Sys[d]] = "CLOSED" THEN "recent" ELSE @]

\* What a move to definition d writes.
Moved(row, d) ==
    LET s == Sys[d] IN
    [row EXCEPT !.status = s, !.def = d,
                !.closedAt = IF s = "CLOSED" THEN "recent"
                             ELSE IF s \in ActiveStatus \cup {"RESOLVED"} THEN "null" ELSE @,
                !.resolved = IF s = "RESOLVED" THEN TRUE
                             ELSE IF s \in ActiveStatus THEN FALSE ELSE @]

\* A row already at the definition, in both columns, is not written.
Transition(row, d) ==
    IF row.def = d /\ row.status = Sys[d] THEN row ELSE Moved(row, d)

(***************************************************************************)
(* applyRules: whether a rule matches what was read when the rules were    *)
(* started, the definition alone being updated as they move the ticket.    *)
(***************************************************************************)

Matches(rule, seen) ==
    /\ rule.from # {} => seen.def \in rule.from
    /\ rule.prior # "any" => (rule.prior = "yes") = seen.replied
    /\ rule.window => seen.closedAt = "recent"
==============================================================================
