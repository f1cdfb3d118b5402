# Verification of the helpdesk system

TLA+ models of the program in `src/`: an IT help desk (NestJS API, PostgreSQL through
Prisma, a Next.js client) whose tickets come from Microsoft 365 mailboxes, a public portal
and staff. The modules here are model-checked with TLC; theorems about them are checked with
TLAPS. Paths below are relative to `src/apps/api/src/modules` unless they say otherwise.

## 1. The system

One API process and one database. There is no queue worker: everything runs on the API's event
loop, started by HTTP requests or by timers (`setInterval`) of the services. A handler is an async
function; between two of its awaits anything else may run. Only what is inside
`prisma.$transaction` is atomic, and most checks are made before it. Hardly any row carries a
version: updates are by id. The client keeps copies of what it has loaded, and answers come late
and out of order. That is where this system can go wrong, and what the models are about.

| Component | State | Operations | Hard | What makes it correct |
|---|---|---|---|---|
| Ticket merging (`tickets/tickets.service.ts`) | `status`, `mergedIntoTicketId`, messages, attachments | `mergeTickets` beside everything that writes or purges a ticket | validation before the transaction; mail and replies in flight; chains of merges; purges of a primary | merged means pointing to a primary as long as it is there; messages move along pointers; files follow |
| Ticket lifecycle (same file) | `status`, `statusDefinitionId`, `closedAt`, `resolvedAt` | create, reply, inbound mail, state and bulk updates, workflow rules | four columns written by three mechanisms, at different awaits | closing times fit the status; definition and status agree |
| Ticket workflow (`ticket-workflow`) | status definitions, rules | transitions, `applyRules`, catalogue and rule administration | rules read once and applied over awaits; catalogue edited meanwhile | a default exists, a used status is not deleted |
| Mailbox synchronisation (`mailboxes`) | delta link, schedule, running syncs, imported messages | timer, manual sync, backfill, retries | overlapping syncs, failures half way, restarts | no mail skipped, none recorded twice, attachments fetched in the end |
| Clients, contacts, domains (`clients`, `contacts`, `client-domains`) | rows, mappings, unmapped domains | administration, the sender of each mail | look-up and insert apart; deletion beside association | the contact of a ticket opened by mail is of its client; mails replace neither; deleted clients claim nothing |
| Automatic replies (`auto-replies`) | templates, history | administration, one answer per new ticket | check, send, record | the closest template, once a conversation |
| Assignment and routing (`tickets`, `ticket-teams`, `ticket-routing`) | lead, team, assignees, watchers, notifications | assignment, bulk updates, routing rules | rows replaced one by one without a transaction; rules that fail before anybody is told | lead among the assignees if there are any, those not told owed it by a request or missed by one that failed, nobody dropped unseen |
| Accounts (`auth`, `profile`, `users`) | sessions, challenges, recovery codes, trusted browsers | sign-in, two-factor, reset | read, verify, then write | a token lets in once; a reset ends the sessions there are |
| Directory (`users`, `groups`, `roles`) | users, groups, roles and their joins; saved views | administration | lists replaced by what the request saw | nothing refers to what is gone; somebody is active |
| Attachments, recycle bin (`ticket-attachments`, `file-storage`, `maintenance`) | rows, files, scan results | upload, scan, download, delete, cleanup | files and rows written apart; a run that dies; restores beside a run | an attachment on offer has its file, late restores excepted; the bin is emptied |
| Event services (`event-services`) | requests, tasks, messages, uploads, form | public form, tasks, messages | several writes and mails in one request; mails that fail in silence | what is stored was mailed; the last mail names the status unless a later one failed |
| Projects (`projects`) | dependencies, decisions, alerts | planning, timer for alerts and digest | search over several queries; overlapping runs | no cycle; nobody told twice |
| Reports (`reports`) | definitions, schedules | administration, timer, paged reading | runs longer than the interval | active means scheduled; mailed once |
| Devices (`devices`, `remote-access`) | devices, favourites, lock and schedule of the sync | sync by hand and by timer, refresh | matching of agents that change; a lock left behind | an agent is one device; details are kept; syncs go on |
| Web client (`apps/web/src`) | what pages load, show and send; drafts | every page; the composer of replies | late and stale answers, double clicks, unmounted forms, answers for a selection that has moved | shows what was chosen and changed; makes a record once; loses text in named cases only; offers what the API serves, but for the controls named |
| Knowledge base, support portal, notifications, AI assistant | rows, one-time codes, preferences | | | partly modelled, see section 6 |
| Settings, signatures, audit log, dashboard, operations, health | single rows; none | reads and writes of one row; probes | | not modelled |

Every component is listed in `PROJECT.json` with what is modelled of it; the hazards of the code,
each at its line and with the properties that would catch it, are there too.

## 2. Modules

    TicketMerge                               <- MCTicketMerge       <- TicketMerge_proofs
    WorkflowRules <- TicketLifecycle          <- MCTicketLifecycle   <- MCAgents
                     TicketLifecycle          <- TicketLifecycle_proofs
    MailIntake (implemented by) MailboxSync   <- MCMailboxSync       <- MCMailboxSync_proofs
                                MailboxSync   <- MailboxSync_proofs
    Requests <- TicketStatuses, Clients, AutoReplies, Assignment     <- MCDesk   <- Desk_proofs
    Requests <- Accounts, Directory, Attachments, Events             <- MCOffice <- Office_proofs
    SpendOnce (implemented by) Accounts
    Requests <- Devices, Reports, Dependencies, Decisions            <- MCUpkeep <- Upkeep_proofs
    Attachments, Devices, Reports, MailboxSync                       <- MCTimers
    ApiRoutes <- Access; TicketComposer; PageOps <- Pages and the pages <- MCAgents <- Agents_proofs

**How handlers are modelled.** A request in progress is a record in a slot (`req`, `sync`, `visit`,
`work`, `keep`, `plan`, ...) with the name of its next step in `op` and what the handler has read so
far; the other variables are the database. One action is what happens between two awaits: a write
or a transaction, with the reads directly before it. Slots are reused, so a run bounds how many
requests overlap, not how many there are. `Abort`, `Fail`, `Crash`, `...Lost` are exceptions and
restarts at any await.

**TicketMerge** models `mergeTickets` beside every handler that touches the same rows.
`InboundMatch` / `InboundCommit` / `InboundRules` / `InboundNew` are `createFromInboundEmail`,
`StoreFile` and `Refetch` the attachment storage of the mailbox service, `ReplyStart` ...
`ReplySettle` are `createMessage`, `MergeStart` and `MergeCommit` are `mergeTickets`; `Create`,
`SetStatus`, `SoftDelete` and `Restore` are single writes. `PurgeFind` and `PurgeCommit` are the
maintenance service's cleanup of the recycle bin, which removes what it listed, and what the schema
does then: the messages and attachments go with their ticket, a pointer or an origin to it becomes null
(`mergedIntoTicket onDelete: SetNull`), which leaves a MERGED ticket that points nowhere. Statuses are grouped (OPEN, DONE, MERGED)
because no code here tells more of them apart; what the workflow rules do to a status is any status
but MERGED (`RuleOutcome`), which `validateRuleStatuses` guarantees.

**WorkflowRules** has the status catalogue, what a transition writes and when a rule matches, as
operators. **TicketLifecycle** is every writer of a ticket's status columns with the real statuses:
the handlers above, the staff's status changes, `closeTicket`, assignment, bulk updates, what a
merge writes to its source, and `applyRules` one rule per step. The catalogue and the rules are
constants, so that theorems hold for all of them and runs take the seeded ones or an
administrator's. Times are kept as far as the rules read them: null, inside the reopen
window, older. **TicketStatuses** is the administration of that catalogue and of the rules, next to
the tickets that name a status.

**MailIntake** is what a mailbox promises: every wanted mail is recorded, once. **MailboxSync** is
one mailbox: the provider's inbox is an append-only sequence and the delta link a position in it;
`AutoScan` and `AutoStart` are `runDueAutoSyncs`, `ManualStart` is `syncInbound`, `BackfillStart`
`backfillInbound`; `Fetch`, `Check`, `StoreEvent`, `LogSpam`, `Import`, `Settle`, `List`,
`NextCandidate` and `Finish` are `syncMailbox` await by await, `Retrieve`, `Store` and `Mark`
`storeInboundAttachments`, `Broad` the backfill in the background after a manual sync. A mail has
at most one attachment. `MailboxSync` instantiates `MailIntake` with the mails since the initial date
that no spam rule blocks, and the mails of the stored rows in their order.

**Clients** is how a mail's sender becomes a contact and a client, with the administration of
clients, contacts and domains. Tickets are opened by mails of one sender (`FileMail`) or by hand with
any client and contact (`CreateTicket`), and replied to by senders of any client (`ReceiveOther`);
a reply fills whichever of the two columns is empty, each by itself. **AutoReplies** has the templates
and the one answer; **Assignment** a ticket's lead, team, assignees and watchers, the routing rules and
who is told, with the rows of an assignment deleted and upserted one after the other as
`syncTicketAssignees` does. `RunRules` is `applyRules(TICKET_ASSIGNED)` between the assignees and the
notices, which may throw; `missed` keeps who was then never told: nobody tells them at a retry either,
for they are assignees already. An empty list beside an `assignedUserId`, or in a bulk update, leaves a
lead and no assignees.

**Accounts** is one account: password and Microsoft sign-in, two-factor with its three switches,
recovery codes, trusted browsers, reset and sessions. A session keeps the password it was signed in by,
also through a second factor: `resetPassword` does not close a challenge that is open, and the session
opened by answering it afterwards is marked `late`. **SpendOnce** is what a one-time token
promises, which the sign-in challenges refine. **Directory** has users, groups, roles, what a request
is allowed, and saved views. **Attachments** has rows and files apart, the scans, and the cleanup of
the recycle bin by timer and by hand: list, remove each file, delete the rows, with restores at any
point between; `exposed` keeps what a late restore has brought back. **Events** has the form, requests,
tasks, messages and uploads; `Tell` may fail in silence, as `sendForEventStatusChange` does, and `told`
keeps the status mailed last and one that was not mailed since.

**Devices** is the synchronisation with the remote access provider and its lock; **Reports** the
schedules and the paged report; **Dependencies** the graph of projects with the search for a path
level by level; **Decisions** the decisions and the overlapping runs of alerts and digest. Of two
schedules that are due `Reports` knows which became due first (`ahead`), which is all that `orderBy`
and `take` use of `nextRunAt`. The digest is of the organization's local day, the alerts of the UTC
day: here both are `day`.

**Access** is one user's roles and permissions, the guard of every route (**ApiRoutes**, one function
per controller) and a browser tab that decides from the copy it read when the page mounted. Its
controls (`PageControls`) are those of every page with the gate the client puts before them, which for
most is none. `RefusedTo` lists what each seeded role is offered and refused: a technician the edits of
clients and the remote controls of devices, an auditor nearly every edit of the pages she reads, a
client's roles the drafts, files and edits of tickets; administrators and managers nothing.
**TicketComposer** is the composer of replies: an uncontrolled element, its draft in local storage,
its calls in flight and its uploads. An AI answer about a selection replaces what is selected when it
arrives (`AiAnswers`), and a composer shown again inserts the last suggestion once more (`Show`).
**Pages** is any page of the client: calls in flight, the
flags that disable controls, loads and filters; the page tables (**TicketPages**, **SettingsPages**,
**KnowledgePages**, **EventPages**, **OfficePages**, **PanelPages**, in the words of
**PageOps**) say of each page which handlers it has, what they call, how they end and what disables
them.

## 3. Runs

Seven runs must pass. Several independent parts share a run: a variable chosen in the initial state
(`focus`, `way`) says which one a behaviour exercises, the others stand still; with `alone` one request
ends before the next begins and none dies, without it requests overlap and may die. A property is the
conjunction of the named parts of one component.

| Run | Question | Bounds |
|---|---|---|
| `merge` | alone: files with their message, nothing added to deleted tickets, no reply on merged ones; overlapping, one slot merging, purges beside it: pointers, origins and moves consistent | 3 tickets, at most 2 deleted or purged, 1 mail, 1 reply, 2 slots |
| `lifecycle` | (`MCAgents`) two requests interleaved under an administrator's rules: closing times fit the status; seeded rules, one after the other: status and definition agree; a page offers what the guard lets through, but for the controls named; the composer repeats nothing and loses text in the named cases only; every page shows what was chosen and changed, makes records once and gives its controls back | 1 ticket, 2 slots, 12 definitions; 2 role edits; 2 sends, 1 file, 1 action in a hurry; 31 pages, 2 handlers each, 1 change of filter, 2 clicks in haste |
| `mailbox` | the timer alone: nothing recorded twice, files once, one sync at a time; timer and manual: nothing skipped; with backfills: processed means stored | 2 or 3 mails, 2 slots, pages of 1 or 2, 1 fault |
| `desk` | catalogue, clients, replies, assignment | 3 statuses, 1 rule, 2 clients, 2 tickets, of which 1 by hand, 2 templates, 2 users, 2 slots |
| `office` | accounts, directory, attachments, events | 1 code, 1 challenge, 1 session; 2 users, groups, roles, views; 2 attachments; 1 request, 1 task, 2 messages; 2 slots |
| `upkeep` | devices, schedules, the reader of a report, dependencies, decisions, alerts | 2 machines, 3 ids, 3 devices; 2 schedules, 2 runs; 5 tickets, pages of 2, cap 4; 4 projects, 1 planner; 1 decision, 2 managers, 2 runs, 2 days, 1 fault |
| `timers` | under fairness: mail recorded and fetched, bin emptied, device syncs go on, due schedules run | 2 mails, 3 deliveries, 2 faults; 1 attachment; 1 machine, 1 crash; 2 schedules |
| `merge_reply_race`, `merge_chain`, `mailbox_duplicates`, `mailbox_backfill`, `clients_deleted` | one documented behaviour each that the code does not have (section 4) | the smallest that show it |

*Why the bounds are enough.* Tickets do not depend on each other except through a merge, where a
chain needs three; two requests are what a race needs, two values what a mix-up needs, and the
theorems remove the bounds for the properties they cover. Pages of one mail make a page boundary fall
between any two mails; inboxes are longer than a page, so a sync is followed by another one from the
saved link. Three ids let both agents be reinstalled in turn; three devices leave room for a
wrong second row. A cycle beyond a direct one needs three projects, and a fourth lets the search take
two levels past the new one. Pages of two under a cap of four have a full, a last and a capped page.
`MaxFaults`, `MaxCrashes` bound failures and restarts, `MaxInbox` deliveries, `History` the mails there
before the first sync, `MaxDeleted` the tickets deleted or purged at a time, `OneByHand` the tickets made by hand,
`OneSetting` the people changed from what they were at first, `Mortal` the slots whose requests may die,
`MaxDay` the days, `Hurry`, `Haste`, `FilterEdits`, `RoleEdits` what users do meanwhile. Deadlock is
checked in the mailbox runs; elsewhere the things to use may be used up (`CHECK_DEADLOCK FALSE`).

*What overlaps leave out.* Each of these holds with one request at a time and is broken by two that
overlap, because the code validates before it writes: a merge pointer set once (`MergedOnce`,
`OriginPointsHome`; with merges one at a time), files and replies beside a merge, one default status,
a default view, a lead among the assignees (where there are any), statuses mailed in order, domains of deleted clients, a recovery code spent twice,
two devices for one agent when a manual sync runs beside the timer's, a schedule mailed by two runs, a
decision closed without its note. They are checked under `alone`; that they break is in the notes of the
hazards. Without any such assumption hold: closing times, merge pointers and moves, nothing skipped,
processed means stored, a default kept, contact of client (tickets opened by mail), assignees told or missed, dropped only what was seen,
sign-in challenges, nothing dangling, files of what is on offer (late restores excepted), what is stored
was mailed, resolved
exactly while closed, nobody told twice, active means scheduled (with one editor).
A decision is closed without a note when a request sends the note as `null`: the check passes with
the old note and the write clears it, so `ClosesNoted` excepts that request. Two requests that add
dependencies at the same time can form a cycle; `Acyclic` is about one at a time.
`StatusAgrees` and `ActiveUnstamped` are checked with requests that run to their end, because a handler
that dies between its status write and its rules leaves the definition behind. `RecordsAtMostOnce` and
`FilesOnce` are about the timer alone (`mailbox_duplicates`), `NothingSkipped` about syncs without
backfills (`mailbox_backfill`), `RecordsAll` about mails whose import does not throw every time, which
holds up its mailbox.

*Fairness* (`MailboxSync!Fairness`, `MCTimers!TimersFair`). The mailbox timer fires every 15 seconds
(`Elapse`, `AutoScan`, `AutoStart`), and awaited calls return or throw (`Advance`). Operational hours,
when enabled, open again (`nextAllowedEmailSyncAt` finds an opening) and last longer than a tick, which
is why the scan and the start are strongly fair while they are open. The other intervals likewise
fire for good (`Tick`, `Sweep`, `Scan`, `RunDue`), time passes (`Age`, `Clock`), and what has begun goes
on (`AutoStep`, `Send`, `Record`). Nothing is fair for deliveries, settings, users and failures.
`RecordsAll` and `FilesFetched` assume that the timer is in the end left on and its settings are not
saved again and again (each save starts the interval anew), `AutoSyncGoesOn` that automatic sync is in
the end left on and nothing defers it.

## 4. Findings

Five places where the code does not do what a document says; each has a violation run and its
quotation in `PROJECT.json`. Merging: a reply sent while its ticket is merged is stored on the merged
ticket; after A is merged into B and B into C, mail for A is stored on B. Mailbox: a manual sync beside
the timer's imports a mail twice; a backfill to an earlier date leaves the delta link where it was, and
the mails between its page and the link are never read. Clients: after a contact is deleted, every
mail from its address to its client's domain is refused, since the look-up skips deleted contacts and
the unique key does not.

## 5. Proofs

Proved with TLAPS for every value of the constants that meets the named assumptions of the modules
(which TLC evaluates in the runs): any numbers of tickets, mails, users, slots and so on, and any
number of failures.

The compositions are proved as they are run. For each part the invariant has two halves: one that
holds however requests overlap (the types, what a request in progress holds, what it may count on
because no step takes it back), and one asked for by `alone` (at most one request in progress, and what
it has read is still so). Each half is carried through every action; the parts that stand still are
carried along by `UNCHANGED`.

**TicketMerge_proofs.** `TypeCorrect`. `MergedAlwaysPoints` and `MessagesFollowPointers` for any
overlap of requests, purges included: `Inv1` says that a pointer names another ticket that is there
(`PointersStand`), that a message row has one writer at a time (`ExclusiveWriters`) and that no merge has
its primary among its sources (`DistinctPrimary`); a MERGED ticket without a pointer has lost it to the
purge of the ticket it named. `OriginAlwaysPointsHome` and `MergedAtMostOnce` assume that at most one
slot merges: `Inv2` adds what a merge validated and still holds when it commits (`MergingFresh`), that
an origin is a stored message's (`OriginStored`), and what an inbound mail matched before a merge will
store (`MatchedOrigin`), unless one of the two tickets was purged. `FilesStayWithMessages` and `MessagesReachOpenTickets` are
about one request at a time: `Inv3` adds where the file and the message of the request in progress are.

**TicketLifecycle_proofs.** `TypeCorrect` and `ClosingTimesRight` for any catalogue, rules and overlap.
The inductive invariant adds that a request names a ticket that exists, which is why a step
resumed after an await writes a complete row. `ClosingTimesRight` assumes that bulk updates by
system status are not used (`~ByStatus`): they write the closing time one await before the status.

**MailboxSync_proofs, MCMailboxSync_proofs.** `SkipsNothing`, assuming no backfills: a late sync may
overwrite a newer delta link with an older one; it holds all the same because *every* position
anybody holds is good. That is the inductive invariant: each sync in progress has all mails before its
position handled (`SlotOK`), having started from a saved position and moved on only past handled mails,
and nothing handled is ever taken back (`Grows`). `DoneAlwaysStored` (`Shape`) and `AutoSyncsAlone`
(`Guarded`: the in-memory set names exactly the timer's sync in progress) need no assumption. With the
timer alone (`Lone`), `FilesStoredOnce`, and `TimerRecordsOnce`: every step of `MailboxSync` is a step of
`MailIntake` or a stutter. The second module carries these over to the three ways of `MCMailboxSync`:
each is `MailboxSync` with constants of its own.

**Desk_proofs.** `CatalogueAlwaysSafe` (`Catalogued`, `Orderly`: alone, a default chosen is the only one
not yet cleared), `ClientsAlwaysSafe` (`Served`, `Settled`: alone, an association still has every orphaned
ticket ahead of it), `RepliesAlwaysSafe` (`RepliesInv`: a conversation answered is in the history, or
about to be), `AssignmentAlwaysSafe` (`Staffed`, `Steady`: how far the rows of the assignment in
progress are written, and that an assignee who is not told is one the request in progress will tell,
or is `missed`).

**Office_proofs.** `ChallengesSpentOnce` (the sign-in challenges implement `SpendOnce`) and
`AccountsAlwaysSafe` (`Entered`, `Visited`: alone, a request relies on the codes it read and on a
password no older than the last reset, but for a challenge opened before the reset), `DirectoryAlwaysSafe` (`Filed`, `Directed`: whoever is about to
be deactivated, another one is active), `AttachmentsAlwaysSafe` (`Kept`, `Covered`: a file on offer
is on the disk or `exposed`, which holds only what a restore brought back during a cleanup; `Matched`:
files are ahead of rows in an upload, behind them in a cleanup, and agree otherwise), `EventsAlwaysSafe` (`Planned`, with
what no step takes back, and `Informed`: every requester was told the status, or the mail failed, but
the one about to be told).

**Upkeep_proofs.** `SchedulesAlwaysSafe`, with one editor (`OneEditor`): `Scheduled` adds that what is
ahead of what is an order of the due schedules, and that what a run still has to mail has not been
mailed. `BoardAlwaysSafe`: `Boarded` adds what an edit in progress found (`Noted`).
`DevicesAlwaysSafe`: `Managed` adds that a machine has one device, by whose id or client its agent is
known again (`Registered`), and that a sync holds agents as they are and the device it is about to
write (`Fits`). `NeverCyclic`, with one planner: the search for a path is an invariant about sets.
What is visited and not in the frontier has all its prerequisites among the visited, so if no level
meets the project, there is a closed set of projects with the prerequisite in it and the project
outside (`Searching`), and a dependency into it closes no cycle. Dependencies removed meanwhile only
help. `NobodyToldTwice`, for any number of runs and failures: who is told, or about to be, has
its key recorded, and a key is recorded by one run only (`Alerting`). `ReportsAlwaysRead`: the
wanted tickets among those the reader has come past and has not seen are no more than were deleted
(`Reading`); a deletion moves one more there, a new ticket moves others away, a page shows what it
adds. The tickets are in the order of their creation (`Chronicle`), and so are their keys.

**Agents_proofs.** What agents do, as `MCAgents` composes it; an invariant holds while its part is in
`focus`.
- `ComposerKeepsAll` and `ComposerSendsOnce`, for any texts, files and calls (`Composing`): a call
  that knows its editor has it, since whoever takes the editor away orphans all its calls; text is in
  the editor, stored or in a call; a text sent is not left anywhere to be sent again by an agent who
  waits.
- `PagesShow` and `PagesAct`, for any table of a page that meets `PagesAssumption` of `Pages`, which
  the run evaluates on the tables of the client (`Paging`): a cell that is set has a call in flight
  that clears it, a wanted load asks for the filters chosen and misses no change made before it, and a
  control with a cell of its own has at most one call on it.
- `SeededAgrees` (`OneByOne`): with the rules an organization starts with, what the request in
  progress has read is still true, and what it will write makes status and definition agree; they
  may differ only while the rules that bring the definition along are still to come (`Mendable`).
- `AccessAgreesAlways` (`Accessing`): what the shell knows is what the user may do unless that changed
  since, a redirect led to a page she may see, and only a page she may not see is empty. What the
  shell shows and what the API asks for are related route by route: claims about routes (`Claim`: asks
  for permissions of the catalogue, for no more than the page shows, a change for what only
  administrators hold, ...) are proved of each controller's table (`Catalogued`, `ChangesAsked`,
  `ChangesRestricted`, `RoutesServed`, `RoutesOffered`) and then used for every page (`LoadsServed`) and
  control (`OffersAreServed`): where a control has a gate, it implies what its route asks for (`TicketGates`,
  `OperationsGates`, `ProjectsGates`); where it has none, each seeded role that sees the page holds what
  the route asks for (`RolesHoldOffers`) or the control is in its `RefusedTo` (`UngatedPagesFree`).

*Only model-checked.* Liveness (`MailInTime`, `BinEmptiedInTime`, `RunsInTime`), which is out of the
prover's reach. Every invariant and action property of the passing runs is proved, under the
assumptions named above.

## 6. What is not modelled, and the plan

Left out of the modelled parts: watcher copying, notes and audit rows of a merge; priorities and the
ticket number; more than one attachment per mail, the limit of 100 retries; addresses, texts,
templates' variables, the clock (a deadline has passed or not); calendar entries at Microsoft;
milestones, work items and the rows of project templates; aggregations of reports. Not modelled at
all: the service of the knowledge base and its OneNote import, the portal's verification codes,
notification preferences, backups, spam patterns (a constant verdict), and the services that read or
write one row (settings, signatures, audit log, dashboard, health). Symmetry is used where slots and
ids are interchangeable, in runs of safety properties only.

Next, in this order: the portal's codes as tokens of `SpendOnce`; the OneNote import, which is long
and resumes after failures.
