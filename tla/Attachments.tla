----------------------------- MODULE Attachments -----------------------------
(***************************************************************************)
(* Attachments of a ticket, their files on disk, the antivirus verdicts    *)
(* and the recycle bin (ticket-attachments.service.ts, file-storage,       *)
(* file-scan.service.ts, maintenance.service.ts, bulkSoftDelete and        *)
(* bulkRestore of tickets.service.ts).                                     *)
(*                                                                         *)
(* A row and its file have the same id.  "aged" says that the retention    *)
(* time has passed since a deletion; the clock itself is left out.         *)
(***************************************************************************)
EXTENDS Requests

CONSTANTS Attachment, Keeper    \* ids of attachments, request slots

ASSUME KeeperAssumption == "timer" \notin Keeper /\ Attachment # {}

VARIABLES
    bin,            \* the ticket: Absent when purged
    row,            \* ticket_attachments and stored_files
    disk,           \* files in the storage directory
    sweeping,       \* MaintenanceService.cleanupRunning
    keep,           \* requests in progress, and the timer's cleanup in slot "timer"
    exposed         \* history: rows a cleanup had taken or listed the file of when their
                    \* ticket was restored after its retention time

attachmentVars == <<bin, row, disk, sweeping, keep, exposed>>

Deleted == [deleted : BOOLEAN, aged : BOOLEAN]
AttachmentRow == [deleted : BOOLEAN, aged : BOOLEAN,
                  scan : {"clean", "pending", "blocked"}, overridden : BOOLEAN]
Slot == Keeper \cup {"timer"}

AttachmentsTypeOK ==
    /\ bin \in Deleted \cup {Absent}
    /\ row \in [Attachment -> AttachmentRow \cup {Absent}]
    /\ disk \subseteq Attachment
    /\ sweeping \in BOOLEAN
    /\ keep["timer"] # Idle => sweeping
    /\ exposed \subseteq Attachment

AttachmentsInit ==
    /\ bin = [deleted |-> FALSE, aged |-> FALSE]
    /\ row = [a \in Attachment |-> Absent]
    /\ disk = {}
    /\ sweeping = FALSE
    /\ keep = [p \in Slot |-> Idle]
    /\ exposed = {}

Keeps(p, q) == keep' = [keep EXCEPT ![p] = q]
InReach == bin # Absent /\ ~bin.deleted                      \* resolveTicket
Servable(a) == row[a] # Absent /\ ~row[a].deleted
Listed(a) == \E p \in Slot : keep[p].op = "remove" /\ a \in keep[p].files

\* Retention time passes.
Age ==
    /\ bin' = IF bin # Absent /\ bin.deleted THEN [bin EXCEPT !.aged = TRUE] ELSE bin
    /\ row' = [a \in Attachment |-> IF row[a] # Absent /\ row[a].deleted
                                    THEN [row[a] EXCEPT !.aged = TRUE] ELSE row[a]]
    /\ UNCHANGED <<disk, sweeping, keep, exposed>>

(***************************************************************************)
(* ticket-attachments.service.ts                                           *)
(***************************************************************************)

\* saveAttachmentFile refuses a file or writes it under a new name; then the scan.
Upload(p, a) ==
    /\ keep[p] = Idle /\ InReach /\ a \notin disk /\ row[a] = Absent
    /\ \A q \in Slot : keep[q] # Idle => a \notin keep[q].files
    /\ disk' = disk \cup {a}
    /\ Keeps(p, [op |-> "scan", files |-> {a}, fresh |-> TRUE, more |-> {}])
    /\ UNCHANGED <<bin, row, sweeping, exposed>>

\* scanBuffer: clean, infected, or unknown when the scanner is off or does not answer,
\* which CLAMAV_FAIL_CLOSED turns into blocked.
ScanFile(p) ==
    /\ keep[p].op = "scan"
    /\ \E verdict \in {"clean", "pending", "blocked"} :
          Keeps(p, [op |-> "record", files |-> keep[p].files, fresh |-> keep[p].fresh,
                    more |-> keep[p].more, verdict |-> verdict])
    /\ UNCHANGED <<bin, row, disk, sweeping, exposed>>

\* createAttachmentRecord inserts, if the ticket is still there; a rescan updates a row
\* that is still there and takes the administrator's override back.
RecordVerdict(p) ==
    /\ keep[p].op = "record"
    /\ LET q == keep[p] IN
       /\ row' = [a \in Attachment |->
                    IF a \notin q.files THEN row[a]
                    ELSE IF q.fresh /\ bin # Absent
                    THEN [deleted |-> FALSE, aged |-> FALSE, scan |-> q.verdict, overridden |-> FALSE]
                    ELSE IF ~q.fresh /\ row[a] # Absent
                    THEN [row[a] EXCEPT !.scan = q.verdict, !.overridden = FALSE]
                    ELSE row[a]]
       /\ Keeps(p, IF q.more = {} THEN Idle ELSE [op |-> "bulk", files |-> q.more])
    /\ UNCHANGED <<bin, disk, sweeping, exposed>>

\* getDownload and getBulkDownload check, then open the files.
Download(p, files) ==
    /\ keep[p] = Idle /\ InReach /\ files # {}
    /\ \A a \in files : Servable(a) /\ row[a].scan # "blocked"
    /\ Keeps(p, [op |-> "stream", files |-> files])
    /\ UNCHANGED <<bin, row, disk, sweeping, exposed>>

Stream(p) ==
    /\ keep[p].op = "stream"
    /\ Keeps(p, Idle)
    /\ UNCHANGED <<bin, row, disk, sweeping, exposed>>

DeleteAttachment(a) ==
    /\ InReach /\ Servable(a)
    /\ row' = [row EXCEPT ![a].deleted = TRUE]
    /\ UNCHANGED <<bin, disk, sweeping, keep, exposed>>

\* bulkSoftDelete and bulkRestore.
Recycle ==
    /\ InReach
    /\ bin' = [deleted |-> TRUE, aged |-> FALSE]
    /\ UNCHANGED <<row, disk, sweeping, keep, exposed>>

\* bulkRestore looks neither at the retention time nor at a cleanup in progress.
Unrecycle ==
    /\ bin # Absent /\ bin.deleted
    /\ bin' = [deleted |-> FALSE, aged |-> FALSE]
    /\ exposed' = exposed \cup {a \in Present(row) : bin.aged /\ (a \notin disk \/ Listed(a))}
    /\ UNCHANGED <<row, disk, sweeping, keep>>

(***************************************************************************)
(* maintenance.service.ts                                                  *)
(***************************************************************************)

\* rescanAttachment reads the file first.
Rescan(p, a) ==
    /\ keep[p] = Idle /\ Servable(a) /\ a \in disk
    /\ Keeps(p, [op |-> "scan", files |-> {a}, fresh |-> FALSE, more |-> {}])
    /\ UNCHANGED <<bin, row, disk, sweeping, exposed>>

\* bulkRescanPendingAttachments lists the pending ones once, and takes them one by one;
\* one that cannot be read is counted as failed.
BulkRescan(p) ==
    /\ keep[p] = Idle
    /\ LET targets == {a \in Attachment : Servable(a) /\ row[a].scan = "pending"} IN
       /\ targets # {}
       /\ Keeps(p, [op |-> "bulk", files |-> targets])
    /\ UNCHANGED <<bin, row, disk, sweeping, exposed>>

ScanTarget(p) ==
    /\ keep[p].op = "bulk"
    /\ \E a \in keep[p].files :
          LET more == keep[p].files \ {a} IN
          Keeps(p, IF a \in disk THEN [op |-> "scan", files |-> {a}, fresh |-> FALSE, more |-> more]
                   ELSE IF more = {} THEN Idle ELSE [op |-> "bulk", files |-> more])
    /\ UNCHANGED <<bin, row, disk, sweeping, exposed>>

\* restoreQuarantinedAttachment.
Override(a) ==
    /\ Servable(a) /\ row[a].scan = "blocked"
    /\ row' = [row EXCEPT ![a].scan = "clean", ![a].overridden = TRUE]
    /\ UNCHANGED <<bin, disk, sweeping, keep, exposed>>

\* runAutomaticCleanup; cleanupRecycleBin does not look at the flag.
Tick ==
    /\ ~sweeping
    /\ sweeping' = TRUE
    /\ Keeps("timer", [op |-> "find", files |-> {}])
    /\ UNCHANGED <<bin, row, disk, exposed>>

ManualCleanup(p) ==
    /\ keep[p] = Idle
    /\ Keeps(p, [op |-> "find", files |-> {}])
    /\ UNCHANGED <<bin, row, disk, sweeping, exposed>>

\* Mutant: only the attachments that were deleted themselves.
FindDeletedOnly(p) ==
    /\ keep[p].op = "find"
    /\ LET purge == bin # Absent /\ bin.aged
           files == {a \in Present(row) : row[a].aged} IN
       Keeps(p, [op |-> "remove", purge |-> purge, files |-> files, left |-> files])
    /\ UNCHANGED <<bin, row, disk, sweeping, exposed>>

\* Mutant: any ticket in the bin, past the cutoff or not.
FindAnyInBin(p) ==
    /\ keep[p].op = "find"
    /\ LET purge == bin # Absent /\ bin.deleted
           files == {a \in Present(row) : row[a].aged \/ purge} IN
       Keeps(p, [op |-> "remove", purge |-> purge, files |-> files, left |-> files])
    /\ UNCHANGED <<bin, row, disk, sweeping, exposed>>

\* cleanupOrganization: the tickets past the cutoff, then their attachments and those
\* that are past it themselves.
Find(p) ==
    /\ keep[p].op = "find"
    /\ LET purge == bin # Absent /\ bin.aged
           files == {a \in Present(row) : row[a].aged \/ purge} IN
       Keeps(p, [op |-> "remove", purge |-> purge, files |-> files, left |-> files])
    /\ UNCHANGED <<bin, row, disk, sweeping, exposed>>

\* Each file in turn; removing one that is gone already is no error.
RemoveFile(p) ==
    /\ keep[p].op = "remove"
    /\ \E a \in keep[p].left :
          /\ disk' = disk \ {a}
          /\ Keeps(p, [keep[p] EXCEPT !.left = @ \ {a}])
    /\ UNCHANGED <<bin, row, sweeping, exposed>>

\* Mutant: the flag not reset at the end.
PurgeAndStay(p) ==
    /\ keep[p].op = "remove" /\ keep[p].left = {}
    /\ LET q == keep[p] IN
       /\ bin' = IF q.purge THEN Absent ELSE bin
       /\ row' = [a \in Attachment |-> IF q.purge \/ a \in q.files THEN Absent ELSE row[a]]
    /\ exposed' = exposed \cap Present(row')
    /\ Keeps(p, Idle)
    /\ UNCHANGED <<disk, sweeping>>

\* The rows by their ids, whatever they say by now; a purged ticket takes the rows of
\* attachments that came later along.  The timer's run ends.
Purge(p) ==
    /\ keep[p].op = "remove" /\ keep[p].left = {}
    /\ LET q == keep[p] IN
       /\ bin' = IF q.purge THEN Absent ELSE bin
       /\ row' = [a \in Attachment |-> IF q.purge \/ a \in q.files THEN Absent ELSE row[a]]
    /\ exposed' = exposed \cap Present(row')
    /\ Keeps(p, Idle)
    /\ sweeping' = (sweeping /\ p # "timer")
    /\ UNCHANGED disk

\* An error in a request, or in the timer's run, where finally resets the flag; a
\* restart ends both.
KeeperLost(p) ==
    /\ keep[p] # Idle
    /\ Keeps(p, Idle)
    /\ sweeping' = (sweeping /\ p # "timer")
    /\ UNCHANGED <<bin, row, disk, exposed>>

AttachmentsBegin ==
    \/ \E p \in Keeper, a \in Attachment : Upload(p, a) \/ Rescan(p, a)
    \/ \E p \in Keeper, files \in SUBSET Attachment : Download(p, files)
    \/ \E p \in Keeper : ManualCleanup(p) \/ BulkRescan(p)
    \/ \E a \in Attachment : DeleteAttachment(a) \/ Override(a)
    \/ Recycle \/ Unrecycle \/ Tick \/ Age

AttachmentsResume ==
    \E p \in Slot :
       \/ ScanTarget(p) \/ ScanFile(p) \/ RecordVerdict(p) \/ Stream(p)
       \/ Find(p) \/ RemoveFile(p) \/ Purge(p)

AttachmentsNext == AttachmentsBegin \/ AttachmentsResume \/ \E p \in Slot : KeeperLost(p)

AttachmentsSpec == AttachmentsInit /\ [][AttachmentsNext]_attachmentVars

\* What the timer goes on with.
Sweep == Find("timer") \/ RemoveFile("timer") \/ Purge("timer")

(***************************************************************************)
(* Properties.                                                             *)
(***************************************************************************)

\* One request after the other: every row has its file and every file its row; nothing
\* is left on disk by a purge, not even for a ticket whose attachments were live.
RowsAndFilesAgree == Lone(keep) => disk = Present(row)

\* Uploads, scans, deletions, cleanups and restores overlapping, and dying anywhere: an
\* attachment that is offered has its file.  The exception is a ticket restored after its
\* retention time, while a cleanup had its files on the list or after one had died: the rows
\* come back with it, whatever became of the files.
FilesKept == InReach => {a \in Attachment : Servable(a)} \subseteq disk \cup exposed

\* With the timer left on and no failure from some time on, a ticket does not stay in the
\* recycle bin: it is restored or purged.
BinEmptied == bin # Absent /\ bin.deleted ~> bin = Absent \/ ~bin.deleted
==============================================================================
