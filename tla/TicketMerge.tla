----------------------------- MODULE TicketMerge -----------------------------
(***************************************************************************)
(* Ticket merging and the requests that run beside it                      *)
(* (apps/api/src/modules/tickets/tickets.service.ts).                      *)
(*                                                                         *)
(* A handler is an async function: it reads, awaits, and writes later.  A  *)
(* request in progress is a record in "req" holding what the handler has   *)
(* read; the database is the other variables.  Every step is one database  *)
(* write (or one transaction) with the reads that directly precede it.     *)
(*                                                                         *)
(* Ticket statuses are grouped by what the code here distinguishes: OPEN   *)
(* stands for the active statuses, DONE for CLOSED / RESOLVED / CANCELLED, *)
(* MERGED for itself, ABSENT for a row not created yet, PURGED for one the  *)
(* maintenance service has removed for good.                               *)
(***************************************************************************)
EXTENDS Naturals, FiniteSets

CONSTANTS
    Ticket,         \* ticket rows
    Email,          \* inbound emails, each handed over by one mailbox sync
    Reply,          \* messages written by staff and sent to the customer
    Request,        \* slots for requests in progress
    MergeSlot,      \* the slots a merge request may occupy
    MaxDeleted,     \* bound: the tickets deleted or purged at a time
    None            \* the database's null

ASSUME NoneAssumption == None \notin Ticket \cup Email \cup Reply
ASSUME SlotAssumption == MergeSlot \subseteq Request
ASSUME MsgAssumption == Email \cap Reply = {}
ASSUME DeletedAssumption == MaxDeleted \in Nat

VARIABLES
    status,         \* tickets.status, grouped
    mergedInto,     \* tickets.mergedIntoTicketId
    deleted,        \* tickets.deletedAt # null
    home,           \* ticket_messages.ticketId, None while there is no row
    origin,         \* ticket_messages.mergedFromTicketId
    fileAt,         \* ticket_attachments.ticketId of the email's attachment
    req             \* requests in progress

db == <<status, mergedInto, deleted, home, origin, fileAt>>
vars == <<db, req>>

Message == Email \cup Reply
Maybe(S) == S \cup {None}

Idle == [op |-> "idle"]

\* A mail sync between matching the ticket and the import transaction, and
\* afterwards between that transaction and storing the attachment.
Matched == [op : {"matched"}, email : Email, target : Ticket,
            origin : Maybe(Ticket), wake : BOOLEAN]
Imported == [op : {"imported", "storing"}, email : Email, target : Ticket]

\* A reply composer request, and a merge that passed its validation.
Replying == [op : {"sending", "recorded", "settling"}, reply : Reply,
             target : Ticket, closes : BOOLEAN]
Merging == [op : {"merging"}, primary : Ticket, sources : SUBSET Ticket]

\* A cleanup of the recycle bin between reading what it removes and the transaction.
Purging == [op : {"purging"}, tickets : SUBSET Ticket, files : SUBSET Email]

Gone == {"ABSENT", "PURGED"}

TypeOK ==
    /\ status \in [Ticket -> Gone \cup {"OPEN", "DONE", "MERGED"}]
    /\ mergedInto \in [Ticket -> Maybe(Ticket)]
    /\ deleted \in [Ticket -> BOOLEAN]
    /\ home \in [Message -> Maybe(Ticket)]
    /\ origin \in [Message -> Maybe(Ticket)]
    /\ fileAt \in [Email -> Maybe(Ticket)]
    /\ req \in [Request -> {Idle} \cup Matched \cup Imported
                                  \cup Replying \cup Merging \cup Purging]

Init ==
    /\ status = [t \in Ticket |-> "ABSENT"]
    /\ mergedInto = [t \in Ticket |-> None]
    /\ deleted = [t \in Ticket |-> FALSE]
    /\ home = [m \in Message |-> None]
    /\ origin = [m \in Message |-> None]
    /\ fileAt = [e \in Email |-> None]
    /\ req = [r \in Request |-> Idle]

(***************************************************************************)
(* What the handlers read.                                                 *)
(***************************************************************************)

\* Mutant: the deletedAt filter forgotten.
VisibleDeleted(t) == status[t] \notin Gone

\* ensureTicketExists and the inbound match only see rows not soft-deleted.
Visible(t) == status[t] \notin Gone /\ ~deleted[t]

\* A write by id, or a foreign key, needs a row that is there, deleted or not: else
\* the write throws, and the request has no step left but Abort.
Exists(t) == status[t] \notin Gone

\* shouldMarkWaitingOnTechnicianFromInbound counts public outbound messages.
HasReply(t) == \E m \in Reply : home[m] = t

\* Request r is about to write the row of message m.
Writing(r, m) ==
    \/ req[r].op = "matched" /\ req[r].email = m
    \/ req[r].op = "sending" /\ req[r].reply = m

InProgress(m) == \E r \in Request : Writing(r, m)

\* The ticket an inbound email for t is stored on: one hop along
\* mergedIntoTicketId when t is merged.
InboundTarget(t) ==
    IF status[t] = "MERGED" /\ mergedInto[t] # None THEN mergedInto[t] ELSE t

(***************************************************************************)
(* Creating, closing, reopening, deleting.                                 *)
(***************************************************************************)

Create(t) ==
    /\ status[t] = "ABSENT"
    /\ status' = [status EXCEPT ![t] = "OPEN"]
    /\ UNCHANGED <<mergedInto, deleted, home, origin, fileAt, req>>

\* updateState, closeTicket, bulkUpdate, updateAssignment: the new status may
\* not be MERGED; the current one is not looked at.
SetStatus(t, s) ==
    /\ Visible(t)
    /\ status' = [status EXCEPT ![t] = s]
    /\ UNCHANGED <<mergedInto, deleted, home, origin, fileAt, req>>

SoftDelete(t) ==
    /\ Visible(t)
    /\ Cardinality({u \in Ticket : deleted[u] \/ status[u] = "PURGED"}) < MaxDeleted
    /\ deleted' = [deleted EXCEPT ![t] = TRUE]
    /\ UNCHANGED <<status, mergedInto, home, origin, fileAt, req>>

Restore(t) ==
    /\ deleted[t]
    /\ deleted' = [deleted EXCEPT ![t] = FALSE]
    /\ UNCHANGED <<status, mergedInto, home, origin, fileAt, req>>

\* cleanupOrganization reads the tickets deleted before its cutoff (any of the deleted
\* ones: how long ago is not modelled) and the attachments on them.
PurgeFind(r, S) ==
    /\ req[r] = Idle
    /\ S # {} /\ \A t \in S : deleted[t]
    /\ req' = [req EXCEPT ![r] = [op |-> "purging", tickets |-> S,
                                 files |-> {e \in Email : fileAt[e] \in S}]]
    /\ UNCHANGED db

\* The transaction removes what was read, by id, also what was restored or moved since.
\* The schema does the rest: the messages and attachments of a ticket go with it
\* (Cascade), and what pointed to it, a merge pointer or an origin, is set to null.
PurgeCommit(r) ==
    /\ req[r].op = "purging"
    /\ LET S == req[r].tickets IN
       /\ status' = [t \in Ticket |-> IF t \in S THEN "PURGED" ELSE status[t]]
       /\ deleted' = [t \in Ticket |-> t \notin S /\ deleted[t]]
       /\ mergedInto' = [t \in Ticket |-> IF t \in S \/ mergedInto[t] \in S THEN None ELSE mergedInto[t]]
       /\ home' = [m \in Message |-> IF home[m] \in S THEN None ELSE home[m]]
       /\ origin' = [m \in Message |-> IF home[m] \in S \/ origin[m] \in S THEN None ELSE origin[m]]
       /\ fileAt' = [e \in Email |-> IF \/ e \in req[r].files
                                        \/ fileAt[e] \in S \/ home[e] \in S
                                     THEN None ELSE fileAt[e]]
    /\ req' = [req EXCEPT ![r] = Idle]

(***************************************************************************)
(* createFromInboundEmail, and the attachments stored after it.            *)
(***************************************************************************)

\* The email matches a visible ticket t (by conversation, references or ticket
\* number; which one is the email's content).  A redirect to a deleted primary
\* throws, and the request never gets here.
InboundMatch(r, e, t) ==
    LET target == InboundTarget(t) IN
    /\ req[r] = Idle /\ home[e] = None /\ ~InProgress(e)
    /\ Visible(t) /\ ~deleted[target]
    /\ req' = [req EXCEPT ![r] =
                 [op |-> "matched", email |-> e, target |-> target,
                  origin |-> IF target = t THEN None ELSE t,
                  wake |-> \/ status[target] = "DONE"
                           \/ status[target] # "MERGED" /\ HasReply(target)]]
    /\ UNCHANGED db

\* The transaction: update by id with what was read, then insert the message.
InboundCommit(r) ==
    /\ req[r].op = "matched"
    /\ Exists(req[r].target) /\ (req[r].origin # None => Exists(req[r].origin))
    /\ LET q == req[r] IN
       /\ status' = IF q.wake THEN [status EXCEPT ![q.target] = "OPEN"] ELSE status
       /\ home' = [home EXCEPT ![q.email] = q.target]
       /\ origin' = [origin EXCEPT ![q.email] = q.origin]
       /\ req' = [req EXCEPT ![r] = [op |-> "imported", email |-> q.email,
                                     target |-> q.target]]
    /\ UNCHANGED <<mergedInto, deleted, fileAt>>

\* An email matching no ticket opens one.
InboundNew(r, e, t) ==
    /\ req[r] = Idle /\ home[e] = None /\ ~InProgress(e)
    /\ status[t] = "ABSENT"
    /\ status' = [status EXCEPT ![t] = "OPEN"]
    /\ home' = [home EXCEPT ![e] = t]
    /\ req' = [req EXCEPT ![r] = [op |-> "storing", email |-> e, target |-> t]]
    /\ UNCHANGED <<mergedInto, deleted, origin, fileAt>>

\* Mutants: a rule left without a target, and one whose target is MERGED.
RuleOutcomeUnset(t) == {status[t], "OPEN", "DONE", None}
RuleOutcomeMerged(t) == {status[t], "OPEN", "DONE", "MERGED"}

\* applyRules: the organization's rules may leave the status or move it to any
\* but MERGED, which validateRuleStatuses refuses as a target.
RuleOutcome(t) == {status[t], "OPEN", "DONE"}

InboundRules(r) ==
    /\ req[r].op = "imported" /\ Exists(req[r].target)
    /\ \E s \in RuleOutcome(req[r].target) :
          status' = [status EXCEPT ![req[r].target] = s]
    /\ req' = [req EXCEPT ![r].op = "storing"]
    /\ UNCHANGED <<mergedInto, deleted, home, origin, fileAt>>

\* A later sync, or the attachment backfill, finds the message already imported
\* and its attachment missing.
Refetch(r, e) ==
    /\ req[r] = Idle
    /\ home[e] # None /\ fileAt[e] = None
    /\ req' = [req EXCEPT ![r] = [op |-> "storing", email |-> e, target |-> home[e]]]
    /\ UNCHANGED db

\* The provider's attachments are fetched and stored under the ticket known when
\* the message was read; an attachment the message already has is skipped.
StoreFile(r) ==
    /\ req[r].op = "storing" /\ Exists(req[r].target) /\ home[req[r].email] # None
    /\ fileAt' = IF fileAt[req[r].email] = None
                 THEN [fileAt EXCEPT ![req[r].email] = req[r].target]
                 ELSE fileAt
    /\ req' = [req EXCEPT ![r] = Idle]
    /\ UNCHANGED <<status, mergedInto, deleted, home, origin>>

(***************************************************************************)
(* createMessage for a public reply.                                       *)
(***************************************************************************)

\* Mutant: the check of the ticket's status dropped.
ReplyStartMerged(r, m, t) ==
    /\ req[r] = Idle /\ home[m] = None /\ ~InProgress(m)
    /\ Visible(t)
    /\ \E closes \in BOOLEAN :
          req' = [req EXCEPT ![r] = [op |-> "sending", reply |-> m,
                                     target |-> t, closes |-> closes]]
    /\ UNCHANGED db

ReplyStart(r, m, t) ==
    /\ req[r] = Idle /\ home[m] = None /\ ~InProgress(m)
    /\ Visible(t) /\ status[t] # "MERGED"
    /\ \E closes \in BOOLEAN :
          req' = [req EXCEPT ![r] = [op |-> "sending", reply |-> m,
                                     target |-> t, closes |-> closes]]
    /\ UNCHANGED db

\* The provider accepted the mail; the message row follows.
ReplyRecord(r) ==
    /\ req[r].op = "sending" /\ Exists(req[r].target)
    /\ home' = [home EXCEPT ![req[r].reply] = req[r].target]
    /\ req' = [req EXCEPT ![r].op = "recorded"]
    /\ UNCHANGED <<status, mergedInto, deleted, origin, fileAt>>

\* The ticket row is updated: waiting on the customer, or closed.
ReplyStamp(r) ==
    /\ req[r].op = "recorded" /\ Exists(req[r].target)
    /\ status' = [status EXCEPT ![req[r].target] =
                    IF req[r].closes THEN "DONE" ELSE "OPEN"]
    /\ req' = [req EXCEPT ![r].op = "settling"]
    /\ UNCHANGED <<mergedInto, deleted, home, origin, fileAt>>

\* applyRules after a reply, or transitionTicket to CLOSED after a closing one.
ReplySettle(r) ==
    /\ req[r].op = "settling" /\ Exists(req[r].target)
    /\ \E s \in IF req[r].closes THEN {"DONE"} ELSE RuleOutcome(req[r].target) :
          status' = [status EXCEPT ![req[r].target] = s]
    /\ req' = [req EXCEPT ![r] = Idle]
    /\ UNCHANGED <<mergedInto, deleted, home, origin, fileAt>>

(***************************************************************************)
(* mergeTickets.                                                           *)
(***************************************************************************)

\* Mutant: the pointer not looked at, so that a reopened source merges again.
MergeableAgain(t) == Visible(t) /\ status[t] # "MERGED"

Mergeable(t) == Visible(t) /\ status[t] # "MERGED" /\ mergedInto[t] = None

\* Validation reads, before the transaction.
MergeStart(r, p, S) ==
    /\ r \in MergeSlot /\ req[r] = Idle
    /\ S # {} /\ p \notin S
    /\ Visible(p) /\ status[p] # "MERGED"
    /\ \A t \in S : Mergeable(t)
    /\ req' = [req EXCEPT ![r] = [op |-> "merging", primary |-> p, sources |-> S]]
    /\ UNCHANGED db

\* Mutants: a message keeps the first origin it got; attachments stay behind.
MergeCommitFirstOrigin(r) ==
    /\ req[r].op = "merging"
    /\ \A t \in req[r].sources \cup {req[r].primary} : Exists(t)
    /\ LET p == req[r].primary  S == req[r].sources IN
       /\ home' = [m \in Message |-> IF home[m] \in S THEN p ELSE home[m]]
       /\ origin' = [m \in Message |-> IF home[m] \in S /\ origin[m] = None
                                        THEN home[m] ELSE origin[m]]
       /\ fileAt' = [e \in Email |-> IF fileAt[e] \in S THEN p ELSE fileAt[e]]
       /\ status' = [t \in Ticket |-> IF t \in S THEN "MERGED" ELSE status[t]]
       /\ mergedInto' = [t \in Ticket |-> IF t \in S THEN p ELSE mergedInto[t]]
    /\ req' = [req EXCEPT ![r] = Idle]
    /\ UNCHANGED deleted

MergeCommitNoFiles(r) ==
    /\ req[r].op = "merging"
    /\ \A t \in req[r].sources \cup {req[r].primary} : Exists(t)
    /\ LET p == req[r].primary  S == req[r].sources IN
       /\ home' = [m \in Message |-> IF home[m] \in S THEN p ELSE home[m]]
       /\ origin' = [m \in Message |-> IF home[m] \in S THEN home[m] ELSE origin[m]]
       /\ status' = [t \in Ticket |-> IF t \in S THEN "MERGED" ELSE status[t]]
       /\ mergedInto' = [t \in Ticket |-> IF t \in S THEN p ELSE mergedInto[t]]
    /\ req' = [req EXCEPT ![r] = Idle]
    /\ UNCHANGED <<deleted, fileAt>>

\* The transaction repeats none of the validation; it needs the rows it names.
MergeCommit(r) ==
    /\ req[r].op = "merging"
    /\ \A t \in req[r].sources \cup {req[r].primary} : Exists(t)
    /\ LET p == req[r].primary  S == req[r].sources IN
       /\ home' = [m \in Message |-> IF home[m] \in S THEN p ELSE home[m]]
       /\ origin' = [m \in Message |-> IF home[m] \in S THEN home[m] ELSE origin[m]]
       /\ fileAt' = [e \in Email |-> IF fileAt[e] \in S THEN p ELSE fileAt[e]]
       /\ status' = [t \in Ticket |-> IF t \in S THEN "MERGED" ELSE status[t]]
       /\ mergedInto' = [t \in Ticket |-> IF t \in S THEN p ELSE mergedInto[t]]
    /\ req' = [req EXCEPT ![r] = Idle]
    /\ UNCHANGED deleted

\* A request dies where it is: an exception, or the process stopping.
Abort(r) ==
    /\ req[r] # Idle
    /\ req' = [req EXCEPT ![r] = Idle]
    /\ UNCHANGED db

\* Requests that begin, and handlers that are a single write.
Begin ==
    \/ \E t \in Ticket : Create(t) \/ SoftDelete(t) \/ Restore(t)
    \/ \E t \in Ticket, s \in {"OPEN", "DONE"} : SetStatus(t, s)
    \/ \E r \in Request, e \in Email, t \in Ticket :
          InboundMatch(r, e, t) \/ InboundNew(r, e, t)
    \/ \E r \in Request, e \in Email : Refetch(r, e)
    \/ \E r \in Request, m \in Reply, t \in Ticket : ReplyStart(r, m, t)
    \/ \E r \in Request, p \in Ticket, S \in SUBSET Ticket : MergeStart(r, p, S)
    \/ \E r \in Request, S \in SUBSET Ticket : PurgeFind(r, S)

\* Requests resumed after an await.
Resume ==
    \E r \in Request :
       \/ InboundCommit(r) \/ InboundRules(r) \/ StoreFile(r)
       \/ ReplyRecord(r) \/ ReplyStamp(r) \/ ReplySettle(r)
       \/ MergeCommit(r) \/ PurgeCommit(r) \/ Abort(r)

Next == Begin \/ Resume

Spec == Init /\ [][Next]_vars

\* The same handlers with no overlap: nothing begins while a request is in progress.
\* This is what the unit tests exercise.
AllIdle == \A r \in Request : req[r] = Idle
OneAtATime == AllIdle \/ Resume

(***************************************************************************)
(* Properties.                                                             *)
(***************************************************************************)

\* The pointer of t is cleared because the ticket it names is purged.
Orphaned(t) == mergedInto[t] # None /\ mergedInto'[t] = None /\ status'[mergedInto[t]] = "PURGED"

\* Whatever requests overlap, a ticket enters MERGED with a pointer to another ticket
\* that is there, and keeps one for as long as that ticket is there: only the purge of
\* the ticket it names takes it away, and leaves a MERGED ticket that points nowhere.
MergedPoints ==
    [][\A t \in Ticket : status'[t] = "MERGED" =>
          \/ mergedInto'[t] \notin {None, t} /\ status'[mergedInto'[t]] \notin Gone
          \/ Orphaned(t)
          \/ status[t] = "MERGED" /\ mergedInto[t] = None]_vars

\* A message changes ticket only along the merge pointer of the ticket it leaves,
\* recording that ticket as its origin, and is lost only with its ticket.
MovesFollowPointers ==
    [][\A m \in Message : home[m] # None /\ home'[m] # home[m] =>
          \/ /\ home'[m] = mergedInto'[home[m]] /\ home'[m] # None
             /\ origin'[m] = home[m]
          \/ home'[m] = None /\ status'[home[m]] = "PURGED"]_vars

\* With merges one at a time, a ticket merged into one that is still there is not merged
\* into another: its pointer is cleared by the purge of the ticket it names, or goes
\* with its own row, and changes in no other way.
MergedOnce ==
    [][\A t \in Ticket : mergedInto[t] # None /\ mergedInto'[t] # mergedInto[t] =>
          Orphaned(t) \/ status'[t] = "PURGED"]_vars

\* With merges one at a time, the origin shown with a message is a ticket merged
\* into the very ticket the message is on, also when the message was matched before
\* the merge and stored after it.
OriginPointsHome ==
    \A m \in Message : origin[m] # None => mergedInto[origin[m]] = home[m]

\* With requests one at a time, an attachment is listed under the ticket of its
\* message; getDownload looks it up by both.
FileWithMessage == \A e \in Email : fileAt[e] # None => fileAt[e] = home[e]

\* With requests one at a time, no message is added to a deleted ticket.
NoMessageOnDeleted ==
    [][\A m \in Message : home[m] = None /\ home'[m] # None => ~deleted[home'[m]]]_vars

\* docs/TICKET_MERGING.md: direct replies on merged source tickets are blocked.
RepliesBlocked ==
    [][\A m \in Reply : home[m] = None /\ home'[m] # None => status[home'[m]] # "MERGED"]_vars

\* docs/TICKET_MERGING.md: inbound replies that match a merged ticket are redirected
\* to the primary ticket, that is, to one that is not merged itself.
RedirectedToPrimary ==
    [][\A e \in Email : home[e] = None /\ home'[e] # None => status[home'[e]] # "MERGED"]_vars

(***************************************************************************)
(* What the proofs add to these to have them preserved by every step.      *)
(***************************************************************************)

\* One request at a time writes a message, and only one not written yet.
ExclusiveWriters ==
    \A m \in Message, r \in Request : Writing(r, m) =>
       home[m] = None /\ \A s \in Request : Writing(s, m) => s = r

\* No request merges a ticket into itself.
DistinctPrimary ==
    \A r \in Request : req[r].op = "merging" => req[r].primary \notin req[r].sources

\* Only a stored message has an origin.
OriginStored == \A m \in Message : origin[m] # None => home[m] # None

\* A merge pointer names another ticket, and one that is there.
PointersStand ==
    \A t \in Ticket : mergedInto[t] # None => mergedInto[t] # t /\ Exists(mergedInto[t])

\* A redirected email waits for the ticket its match points to, unless one of the two
\* is purged by then and the email's transaction fails.
MatchedOrigin ==
    \A r \in Request : req[r].op = "matched" /\ req[r].origin # None =>
       \/ mergedInto[req[r].origin] = req[r].target
       \/ "PURGED" \in {status[req[r].origin], status[req[r].target]}

\* What a merge request validated still holds when it commits.
MergingFresh ==
    \A r \in Request : req[r].op = "merging" =>
       r \in MergeSlot /\ \A t \in req[r].sources : mergedInto[t] = None
==============================================================================
