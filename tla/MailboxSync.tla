----------------------------- MODULE MailboxSync -----------------------------
(***************************************************************************)
(* Synchronisation of one Microsoft 365 mailbox                            *)
(* (apps/api/src/modules/mailboxes/mailboxes.service.ts): the timer's      *)
(* syncs, syncs and backfills an administrator starts, and the broad       *)
(* attachment backfill that follows a manual sync.                         *)
(*                                                                         *)
(* The provider's inbox is an append-only sequence and a delta link is a   *)
(* position in it.  A sync in progress is a slot: what it has read and the *)
(* await it is at.  All slots live in one API process.                     *)
(***************************************************************************)
EXTENDS Naturals, Sequences, Functions

CONSTANTS
    Mail,
    Slot,
    EventMail, SpamMail,    \* mails of an event request, mails a spam rule blocks
    Attached,               \* mails with an attachment
    Flagged,                \* mails the provider says have one
    Refused,                \* mails whose attachment the upload policy refuses
    Stuck,                  \* mails whose import throws each time
    Kinds,                  \* how a sync may be started here
    HoursEnabled,           \* emailOperationalHoursEnabled
    NoCursor,
    History,                \* bound on the mails there before the first sync
    PageMax, MaxInbox, MaxFaults    \* bounds

ASSUME MailAssumption ==
    /\ {EventMail, SpamMail, Attached, Flagged, Refused, Stuck} \subseteq SUBSET Mail
    /\ Kinds \subseteq {"auto", "manual", "backfill"} /\ NoCursor \notin Nat
    /\ PageMax \in Nat \ {0} /\ {History, MaxInbox, MaxFaults} \subseteq Nat

VARIABLES
    inbox,          \* mails in the order of delivery, changed ones again
    from,           \* initialSyncFrom, as the position of the first mail since
    cursor,         \* lastSyncCursor: the mails before the delta link
    enabled,        \* autoSyncEnabled, of an active mailbox
    nextAuto,       \* nextAutoSyncAt: reached, an interval away, or the next opening
    open,           \* whether the operational hours allow syncing
    running,        \* runningAutoSyncs
    sync,           \* the syncs in progress
    rows,           \* ticket and event messages stored for mails
    blocked,        \* mails logged as spam
    faults          \* failures so far

mailbox == <<from, cursor>>
timer == <<enabled, nextAuto, open>>
vars == <<inbox, mailbox, timer, running, sync, rows, blocked, faults>>

Row == [mail : Mail, event : BOOLEAN, files : Nat, done : BOOLEAN, flagged : BOOLEAN]

\* at is the position of the next message, next the end of the page, row the message
\* whose attachment is being stored, loop where to go on then, todo the messages left to
\* backfill, plan the nextAutoSyncAt to save, date the date of a backfill.
Busy == [pc : {"scanned", "fetch", "page", "event", "spam", "import", "settle",
               "files", "store", "mark", "todo"},
         kind : {"auto", "manual", "backfill", "broad"},
         at : Nat \ {0}, next : Nat, row : Nat, loop : {"page", "todo"},
         todo : SUBSET Nat, plan : {"due", "later", "opening"}, date : Nat]
Idle == [pc |-> "idle"]

TypeOK ==
    /\ inbox \in Seq(Mail) /\ from \in Nat \ {0} /\ cursor \in Nat \cup {NoCursor}
    /\ nextAuto \in {"due", "later", "opening"}
    /\ {enabled, open, running} \subseteq BOOLEAN
    /\ sync \in [Slot -> Busy \cup {Idle}]
    /\ rows \in Seq(Row) /\ blocked \subseteq Mail /\ faults \in Nat

Init ==
    /\ \E n \in 0 .. History : inbox \in {h \in [1 .. n -> Mail] : IsInjective(h)}
    /\ from \in 1 .. Len(inbox) + 1
    /\ cursor = NoCursor /\ enabled = TRUE /\ nextAuto = "due" /\ open = TRUE
    /\ running = FALSE /\ sync = [s \in Slot |-> Idle]
    /\ rows = <<>> /\ blocked = {} /\ faults = 0

RowsOf(m, event) == {i \in DOMAIN rows : rows[i].mail = m /\ rows[i].event = event}
Handled(m) == m \in blocked \/ \E i \in DOMAIN rows : rows[i].mail = m
Fault == faults < MaxFaults /\ faults' = faults + 1

(***************************************************************************)
(* The provider and the clock.                                             *)
(***************************************************************************)

Delivered(m) == \E i \in DOMAIN inbox : inbox[i] = m

Deliver(m) ==
    /\ Len(inbox) < MaxInbox /\ ~Delivered(m)
    /\ inbox' = Append(inbox, m)
    /\ UNCHANGED <<mailbox, timer, running, sync, rows, blocked, faults>>

\* A mail that changes is listed again.
Redeliver(m) ==
    /\ Len(inbox) < MaxInbox /\ \E i \in from .. Len(inbox) : inbox[i] = m
    /\ inbox' = Append(inbox, m)
    /\ UNCHANGED <<mailbox, timer, running, sync, rows, blocked, faults>>

Elapse ==
    /\ nextAuto = "later" \/ (nextAuto = "opening" /\ open)
    /\ nextAuto' = "due"
    /\ UNCHANGED <<inbox, mailbox, enabled, open, running, sync, rows, blocked, faults>>

Hours ==
    /\ HoursEnabled /\ open' = ~open
    /\ UNCHANGED <<inbox, mailbox, enabled, nextAuto, running, sync, rows, blocked, faults>>

\* update.  Switching off clears nextAutoSyncAt.
SetAuto(on) ==
    /\ enabled' = on /\ nextAuto' = IF on THEN "later" ELSE "due"
    /\ UNCHANGED <<inbox, mailbox, open, running, sync, rows, blocked, faults>>

(***************************************************************************)
(* Starting.                                                               *)
(***************************************************************************)

\* What a sync takes from the mailbox row it was given.
Snapshot(pc, kind) ==
    [pc |-> pc, kind |-> kind, at |-> IF cursor = NoCursor THEN from ELSE cursor + 1,
     next |-> 0, row |-> 0, loop |-> "page", todo |-> {}, date |-> 0,
     plan |-> IF enabled THEN "later" ELSE nextAuto]

\* runDueAutoSyncs: the due mailboxes are read, then their schedules.
AutoScan(s) ==
    /\ "auto" \in Kinds /\ sync[s] = Idle /\ enabled /\ nextAuto = "due"
    /\ sync' = [sync EXCEPT ![s] = Snapshot("scanned", "auto")]
    /\ UNCHANGED <<inbox, mailbox, timer, running, rows, blocked, faults>>

\* Mutant: no check that the mailbox is being synced already.
AutoStartUnguarded(s) ==
    /\ sync[s].pc = "scanned"
    /\ IF ~open
       THEN /\ sync' = [sync EXCEPT ![s] = Idle]
            /\ nextAuto' = "opening" /\ UNCHANGED running
       ELSE /\ sync' = [sync EXCEPT ![s] = [@ EXCEPT !.pc = "fetch"]]
            /\ running' = TRUE /\ UNCHANGED nextAuto
    /\ UNCHANGED <<inbox, mailbox, enabled, open, rows, blocked, faults>>

AutoStart(s) ==
    /\ sync[s].pc = "scanned"
    /\ IF running \/ ~open
       THEN /\ sync' = [sync EXCEPT ![s] = Idle]
            /\ nextAuto' = IF running THEN nextAuto ELSE "opening"
            /\ UNCHANGED running
       ELSE /\ sync' = [sync EXCEPT ![s] = [@ EXCEPT !.pc = "fetch"]]
            /\ running' = TRUE /\ UNCHANGED nextAuto
    /\ UNCHANGED <<inbox, mailbox, enabled, open, rows, blocked, faults>>

\* syncInbound.
ManualStart(s) ==
    /\ "manual" \in Kinds /\ sync[s] = Idle
    /\ sync' = [sync EXCEPT ![s] = Snapshot("fetch", "manual")]
    /\ UNCHANGED <<inbox, mailbox, timer, running, rows, blocked, faults>>

\* backfillInbound.
BackfillStart(s, date) ==
    /\ "backfill" \in Kinds /\ sync[s] = Idle
    /\ sync' = [sync EXCEPT ![s] =
                  [Snapshot("fetch", "backfill") EXCEPT !.at = date, !.date = date]]
    /\ UNCHANGED <<inbox, mailbox, timer, running, rows, blocked, faults>>

(***************************************************************************)
(* syncMailbox.                                                            *)
(***************************************************************************)

To(s, slot) ==
    /\ sync' = [sync EXCEPT ![s] = slot]
    /\ UNCHANGED <<inbox, mailbox, timer, running>>

At(s, pc) == sync[s].pc = pc

\* One page of the delta, which is not empty when there is mail.
Fetch(s) ==
    /\ At(s, "fetch")
    /\ \E next \in (sync[s].at - 1) .. Len(inbox) :
          /\ next < sync[s].at + PageMax
          /\ next < sync[s].at => Len(inbox) < sync[s].at
          /\ To(s, [sync[s] EXCEPT !.pc = "page", !.next = next])
    /\ UNCHANGED <<rows, blocked, faults>>

\* Mutant: the mails stored already are not looked up.
CheckAnew(s) ==
    /\ At(s, "page") /\ sync[s].at <= sync[s].next
    /\ LET m == inbox[sync[s].at] IN
       To(s, [sync[s] EXCEPT !.pc = IF m \in EventMail THEN "event"
                                    ELSE IF m \in SpamMail THEN "spam" ELSE "import"])
    /\ UNCHANGED <<rows, blocked, faults>>

\* The next message of the page is looked up; one that is stored is skipped, unless its
\* attachments are to be fetched.
Check(s) ==
    /\ At(s, "page") /\ sync[s].at <= sync[s].next
    /\ LET m == inbox[sync[s].at]
           skip == [sync[s] EXCEPT !.at = @ + 1] IN
       IF RowsOf(m, TRUE) # {} THEN To(s, skip)
       ELSE IF RowsOf(m, FALSE) # {}
       THEN \E i \in RowsOf(m, FALSE) :
              To(s, IF rows[i].done THEN skip ELSE [skip EXCEPT !.pc = "files", !.row = i])
       ELSE To(s, [sync[s] EXCEPT !.pc = IF m \in EventMail THEN "event"
                                         ELSE IF m \in SpamMail THEN "spam" ELSE "import"])
    /\ UNCHANGED <<rows, blocked, faults>>

\* Mutant: a message stored without its marks.
StoredBare(m, event) == [mail |-> m, event |-> event, files |-> 0]

Stored(m, event) ==
    [mail |-> m, event |-> event, files |-> 0, done |-> FALSE,
     flagged |-> ~event /\ m \in Flagged]

StoreEvent(s) ==
    /\ At(s, "event")
    /\ rows' = Append(rows, Stored(inbox[sync[s].at], TRUE))
    /\ To(s, [sync[s] EXCEPT !.pc = "page", !.at = @ + 1])
    /\ UNCHANGED <<blocked, faults>>

LogSpam(s) ==
    /\ At(s, "spam")
    /\ blocked' = blocked \cup {inbox[sync[s].at]}
    /\ To(s, [sync[s] EXCEPT !.pc = "page", !.at = @ + 1])
    /\ UNCHANGED <<rows, faults>>

\* createFromInboundEmail up to its commit.
Import(s) ==
    /\ At(s, "import") /\ inbox[sync[s].at] \notin Stuck
    /\ rows' = Append(rows, Stored(inbox[sync[s].at], FALSE))
    /\ To(s, [sync[s] EXCEPT !.pc = "settle", !.at = @ + 1, !.row = Len(rows) + 1])
    /\ UNCHANGED <<blocked, faults>>

\* Its workflow rules, routing and notifications.
Settle(s) ==
    /\ At(s, "settle")
    /\ To(s, [sync[s] EXCEPT !.pc = "files"])
    /\ UNCHANGED <<rows, blocked, faults>>

(***************************************************************************)
(* storeInboundAttachments, for one attachment at most.                    *)
(***************************************************************************)

\* Mutant: an attachment stored already is not looked up.
RetrieveAnew(s) ==
    /\ At(s, "files")
    /\ To(s, [sync[s] EXCEPT !.pc = IF rows[sync[s].row].mail \in Attached
                                    THEN "store" ELSE "mark"])
    /\ UNCHANGED <<rows, blocked, faults>>

\* A failure to retrieve is reported and left for another sync.
Retrieve(s) ==
    /\ At(s, "files")
    /\ LET row == rows[sync[s].row] IN
       \/ /\ To(s, [sync[s] EXCEPT !.pc = IF row.mail \in Attached /\ row.files = 0
                                          THEN "store" ELSE "mark"])
          /\ UNCHANGED faults
       \/ Fault /\ To(s, [sync[s] EXCEPT !.pc = sync[s].loop])
    /\ UNCHANGED <<rows, blocked>>

\* Mutant: the message is marked whatever happened to its attachment.
StoreMarksAll(s) ==
    /\ At(s, "store")
    /\ LET i == sync[s].row
           files == IF rows[i].mail \in Refused THEN rows[i].files ELSE rows[i].files + 1 IN
       \/ /\ rows' = [rows EXCEPT ![i] = [@ EXCEPT !.files = files]]
          /\ To(s, [sync[s] EXCEPT !.pc = "mark"])
          /\ UNCHANGED faults
       \/ /\ Fault /\ rows' = [rows EXCEPT ![i] = [@ EXCEPT !.flagged = TRUE, !.done = TRUE]]
          /\ To(s, [sync[s] EXCEPT !.pc = sync[s].loop])
    /\ UNCHANGED blocked

\* Storing may fail for a while; the message is then not marked.
Store(s) ==
    /\ At(s, "store")
    /\ LET i == sync[s].row
           files == IF rows[i].mail \in Refused THEN rows[i].files ELSE rows[i].files + 1 IN
       \/ /\ rows' = [rows EXCEPT ![i] = [@ EXCEPT !.files = files]]
          /\ To(s, [sync[s] EXCEPT !.pc = "mark"])
          /\ UNCHANGED faults
       \/ /\ Fault /\ rows' = [rows EXCEPT ![i] = [@ EXCEPT !.flagged = TRUE]]
          /\ To(s, [sync[s] EXCEPT !.pc = sync[s].loop])
    /\ UNCHANGED blocked

Mark(s) ==
    /\ At(s, "mark")
    /\ rows' = [rows EXCEPT ![sync[s].row] =
                  [@ EXCEPT !.done = TRUE, !.flagged = rows[sync[s].row].flagged
                                           \/ rows[sync[s].row].mail \in Attached]]
    /\ To(s, [sync[s] EXCEPT !.pc = sync[s].loop])
    /\ UNCHANGED <<blocked, faults>>

(***************************************************************************)
(* backfillExistingMessageAttachments.                                     *)
(***************************************************************************)

\* Mutant: only the broad backfill takes up what failed.
ListBroadOnly(s) ==
    /\ At(s, "page") /\ sync[s].at > sync[s].next
    /\ To(s, [sync[s] EXCEPT !.pc = "todo", !.loop = "todo",
                !.todo = {i \in DOMAIN rows : /\ ~rows[i].event /\ ~rows[i].done
                                              /\ sync[s].kind = "broad"}])
    /\ UNCHANGED <<rows, blocked, faults>>

List(s) ==
    /\ At(s, "page") /\ sync[s].at > sync[s].next
    /\ To(s, [sync[s] EXCEPT !.pc = "todo", !.loop = "todo",
                !.todo = {i \in DOMAIN rows :
                            /\ ~rows[i].event /\ ~rows[i].done
                            /\ sync[s].kind = "broad" \/ rows[i].flagged}])
    /\ UNCHANGED <<rows, blocked, faults>>

\* The newest first.
NextCandidate(s) ==
    /\ At(s, "todo")
    /\ \E i \in sync[s].todo :
          /\ \A j \in sync[s].todo : j <= i
          /\ To(s, [sync[s] EXCEPT !.pc = "files", !.row = i, !.todo = @ \ {i}])
    /\ UNCHANGED <<rows, blocked, faults>>

(***************************************************************************)
(* Ending.                                                                 *)
(***************************************************************************)

\* scheduleBroadAttachmentBackfill.
Broad(s) ==
    IF \E p \in Slot : sync[p] # Idle /\ sync[p].kind = "broad" THEN Idle
    ELSE [sync[s] EXCEPT !.kind = "broad", !.pc = "page", !.loop = "page"]

Finish(s) ==
    /\ At(s, "todo") /\ sync[s].todo = {}
    /\ LET q == sync[s] IN
       /\ sync' = [sync EXCEPT ![s] = IF q.kind = "manual" THEN Broad(s) ELSE Idle]
       /\ IF q.kind \in {"auto", "manual"}
          THEN cursor' = q.next /\ nextAuto' = q.plan
          ELSE UNCHANGED <<cursor, nextAuto>>
       /\ from' = IF q.kind = "backfill" THEN q.date ELSE from
       /\ running' = (running /\ q.kind # "auto")
    /\ UNCHANGED <<inbox, enabled, open, rows, blocked, faults>>

\* Mutant: the delta link saved although the page was not finished.
FailedSaves(s) ==
    /\ sync' = [sync EXCEPT ![s] = Idle]
    /\ nextAuto' = IF sync[s].kind = "auto" THEN "later" ELSE nextAuto
    /\ cursor' = IF sync[s].pc # "fetch" THEN sync[s].next ELSE cursor
    /\ running' = (running /\ sync[s].kind # "auto")
    /\ UNCHANGED <<inbox, from, enabled, open, rows, blocked>>

\* Mutant: the mailbox still counts as being synced.
FailedRunning(s) ==
    /\ sync' = [sync EXCEPT ![s] = Idle]
    /\ nextAuto' = IF sync[s].kind = "auto" THEN "later" ELSE nextAuto
    /\ UNCHANGED <<inbox, mailbox, enabled, open, running, rows, blocked>>

\* An exception.  The timer's syncs are tried again after the interval.
Failed(s) ==
    /\ sync' = [sync EXCEPT ![s] = Idle]
    /\ nextAuto' = IF sync[s].kind = "auto" THEN "later" ELSE nextAuto
    /\ running' = (running /\ sync[s].kind # "auto")
    /\ UNCHANGED <<inbox, mailbox, enabled, open, rows, blocked>>

Fail(s) == sync[s].pc \notin {"idle", "scanned"} /\ Fault /\ Failed(s)

ImportStuck(s) ==
    /\ At(s, "import") /\ inbox[sync[s].at] \in Stuck
    /\ Failed(s) /\ UNCHANGED faults

\* The process restarts.
Crash ==
    /\ Fault /\ running' = FALSE /\ sync' = [s \in Slot |-> Idle]
    /\ UNCHANGED <<inbox, mailbox, timer, rows, blocked>>

Advance(s) ==
    \/ Fetch(s) \/ Check(s) \/ StoreEvent(s) \/ LogSpam(s) \/ Import(s) \/ Settle(s)
    \/ Retrieve(s) \/ Store(s) \/ Mark(s) \/ List(s) \/ NextCandidate(s) \/ Finish(s)
    \/ ImportStuck(s)

Next ==
    \/ \E m \in Mail : Deliver(m) \/ Redeliver(m)
    \/ Elapse \/ Hours \/ Crash \/ \E on \in BOOLEAN : SetAuto(on)
    \/ \E s \in Slot :
          \/ AutoScan(s) \/ AutoStart(s) \/ ManualStart(s) \/ Advance(s) \/ Fail(s)
          \/ \E date \in 1 .. Len(inbox) : BackfillStart(s, date)

Spec == Init /\ [][Next]_vars

\* The timer fires every 15 seconds, awaited calls return, hours open again and last
\* longer than a tick.
Fairness ==
    /\ SF_vars(Elapse) /\ WF_vars(Hours /\ ~open)
    /\ \A s \in Slot : /\ WF_vars(Advance(s)) /\ WF_vars(AutoStart(s))
                       /\ SF_vars(AutoScan(s) /\ open) /\ SF_vars(AutoStart(s) /\ open)

FairSpec == Spec /\ Fairness

(***************************************************************************)
(* Properties.                                                             *)
(***************************************************************************)

\* The saved delta link never passes a mail that was not dealt with, whatever syncs
\* overlap, fail or die: a page is processed to its end before its link is saved.
NothingSkipped ==
    cursor # NoCursor =>
       \A i \in from .. Len(inbox) : i <= cursor => Handled(inbox[i])

\* docs/MICROSOFT_365_INTEGRATION.md: duplicate messages are skipped.
ImportedOnce ==
    \A i, j \in DOMAIN rows : rows[i].mail = rows[j].mail => i = j

\* Retrying a message never stores its attachment again, though the mark that ends the
\* retries is written after the file.
FilesOnce == \A i \in DOMAIN rows : rows[i].files <= 1

\* A message counts as processed only when its attachment is stored or refused.
DoneMeansStored ==
    \A i \in DOMAIN rows :
       rows[i].done /\ rows[i].mail \in Attached \ Refused => rows[i].files > 0

\* However ticks and syncs overlap, the timer never syncs a mailbox twice at a time, and
\* what bars it is always lifted with the sync.
AutoSyncAlone ==
    LET auto == {s \in Slot : sync[s].pc \notin {"idle", "scanned"} /\ sync[s].kind = "auto"} IN
    /\ running <=> auto # {}
    /\ \A s, p \in auto : s = p

\* What is wanted is every mail since the initial date that is not spam.
Wanted == {inbox[i] : i \in from .. Len(inbox)} \ (SpamMail \ EventMail)
Intake == INSTANCE MailIntake WITH wanted <- Wanted,
                                   intake <- [i \in DOMAIN rows |-> rows[i].mail]

\* The timer's syncs, alone, record no mail twice, through crashes, retries and mails
\* listed again.
RecordsAtMostOnce == Intake!AtMostOnce
RecordsStep == Intake!Next \/ UNCHANGED Intake!vars

\* The timer is left on and the settings are no longer saved, which starts its interval
\* again.
LeftOn == <>[]enabled /\ <>[][\A on \in BOOLEAN : ~SetAuto(on)]_vars

\* With the timer left on, every wanted mail is recorded, whatever fails a bounded number
\* of times.
RecordsAll == LeftOn => Intake!AtLeastOnce

\* With the timer left on, the attachments of a message flagged to have some are fetched.
FilesFetched ==
    LeftOn => \A m \in Mail :
       (\E i \in RowsOf(m, FALSE) : rows[i].flagged) ~> (\E i \in RowsOf(m, FALSE) : rows[i].done)
==============================================================================
