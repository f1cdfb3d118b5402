---------------------------- MODULE MCMailboxSync ----------------------------
(* MailboxSync for TLC.  MailboxSpec has three ways of running it:            *)
(*   "timer"    only the timer syncs; mails that change, spam, events, hours; *)
(*   "overlap"  administrators sync too, and a mail fails each time;          *)
(*   "files"    administrators sync and backfill; an attachment is refused.   *)
EXTENDS MailboxSync, TLC

CONSTANTS fileMail, plainMail, eventMail, spamMail

Slots == Permutations(Slot)

VARIABLE way

Timer == INSTANCE MailboxSync WITH
    Mail <- {fileMail, eventMail, spamMail}, EventMail <- {eventMail}, SpamMail <- {spamMail},
    Attached <- {fileMail}, Flagged <- {fileMail}, Refused <- {}, Stuck <- {},
    Kinds <- {"auto"}, HoursEnabled <- TRUE, PageMax <- 2, MaxInbox <- 3
Overlap == INSTANCE MailboxSync WITH
    Mail <- {fileMail, plainMail}, EventMail <- {}, SpamMail <- {},
    Attached <- {fileMail}, Flagged <- {}, Refused <- {}, Stuck <- {plainMail},
    Kinds <- {"auto", "manual"}, MaxInbox <- 2
Files == INSTANCE MailboxSync WITH
    Mail <- {fileMail, plainMail}, EventMail <- {}, SpamMail <- {},
    Attached <- {fileMail, plainMail}, Flagged <- {}, Refused <- {plainMail}, Stuck <- {},
    Kinds <- {"manual", "backfill"}

MailboxInit ==
    \/ way = "timer" /\ Timer!Init
    \/ way = "overlap" /\ Overlap!Init
    \/ way = "files" /\ Files!Init
MailboxNext ==
    /\ UNCHANGED way
    /\ \/ way = "timer" /\ Timer!Next
       \/ way = "overlap" /\ Overlap!Next
       \/ way = "files" /\ Files!Next
MailboxSpec == MailboxInit /\ [][MailboxNext]_<<vars, way>>

\* Without backfills the delta link passes no mail that was not dealt with.
NothingSkippedBySyncs == way # "files" => NothingSkipped
\* With the timer alone no attachment is stored twice, and no mail recorded twice.
FilesOnceByTimer == way = "timer" => FilesOnce
RecordsAtMostOnceByTimer == [][way = "timer" => Timer!RecordsStep]_vars
==============================================================================
