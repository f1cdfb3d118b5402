------------------------------ MODULE MCTimers -------------------------------
(***************************************************************************)
(* What the timers of one API process bring about in the end: the mailbox  *)
(* syncs, the cleanup of the recycle bin, the automatic device sync and    *)
(* the report runs.  A behaviour exercises one of them, "focus".           *)
(***************************************************************************)
EXTENDS Attachments, Devices, Reports, TLC

CONSTANTS fileMail, plainMail, NoCursor

VARIABLES
    focus,
    inbox, from, cursor, enabled, nextAuto, open, mailboxRunning, mailboxSync, messages,
    blocked, faults

\* One mailbox that the timer alone syncs: a mail with an attachment that the provider
\* announces, one without, hours that close, and failures.
Mailbox == INSTANCE MailboxSync WITH
    Mail <- {fileMail, plainMail}, Slot <- {"s1"}, EventMail <- {}, SpamMail <- {}, Attached <- {fileMail},
    Flagged <- {fileMail}, Refused <- {}, Stuck <- {}, Kinds <- {"auto"}, HoursEnabled <- TRUE,
    PageMax <- 1, History <- 1, MaxInbox <- 3, MaxFaults <- 2,
    running <- mailboxRunning, sync <- mailboxSync, rows <- messages

mailVars == <<inbox, from, cursor, enabled, nextAuto, open, mailboxRunning, mailboxSync,
              messages, blocked, faults>>
timerVars == <<mailVars, attachmentVars, deviceVars, reportVars, focus>>

TimersInit ==
    /\ focus \in {"mailbox", "bin", "devices", "schedules"}
    /\ Mailbox!Init /\ AttachmentsInit /\ DevicesInit /\ ReportsInit
    /\ focus # "mailbox" => inbox = <<>>

MailboxTurn ==
    /\ focus = "mailbox" /\ UNCHANGED <<attachmentVars, deviceVars, reportVars, focus>>
    /\ Mailbox!Next
BinTurn ==
    /\ focus = "bin" /\ UNCHANGED <<mailVars, deviceVars, reportVars, focus>>
    /\ AttachmentsBegin \/ AttachmentsResume
DevicesTurn ==
    /\ focus = "devices" /\ UNCHANGED <<mailVars, attachmentVars, reportVars, focus>>
    /\ \/ Scan \/ Clock \/ Mail \/ Crash
       \/ \E on, auto \in BOOLEAN : UpdateSettings(on, auto)
       \/ DevicesResume
SchedulesTurn ==
    /\ focus = "schedules" /\ UNCHANGED <<mailVars, attachmentVars, deviceVars, focus>>
    /\ ReportsBegin \/ ReportsResume

TimersNext == MailboxTurn \/ BinTurn \/ DevicesTurn \/ SchedulesTurn

\* The mailbox timer fires every 15 seconds, awaited calls return, hours open again and
\* last longer than a tick.
MailboxFair ==
    /\ SF_mailVars(focus = "mailbox" /\ Mailbox!Elapse)
    /\ WF_mailVars(focus = "mailbox" /\ Mailbox!Hours /\ ~open)
    /\ \A s \in {"s1"} : /\ WF_mailVars(focus = "mailbox" /\ Mailbox!Advance(s))
                         /\ WF_mailVars(focus = "mailbox" /\ Mailbox!AutoStart(s))
                         /\ SF_mailVars(focus = "mailbox" /\ Mailbox!AutoScan(s) /\ open)
                         /\ SF_mailVars(focus = "mailbox" /\ Mailbox!AutoStart(s) /\ open)

\* Time passes, the intervals fire, and the process goes on with what it has begun.
TimersFair ==
    /\ MailboxFair
    /\ WF_attachmentVars(focus = "bin" /\ Age)
    /\ WF_attachmentVars(focus = "bin" /\ Tick)
    /\ WF_attachmentVars(focus = "bin" /\ Sweep)
    /\ WF_deviceVars(focus = "devices" /\ Clock)
    /\ WF_deviceVars(focus = "devices" /\ Scan)
    /\ WF_deviceVars(focus = "devices" /\ AutoStep)
    /\ \A p \in Runner :
          /\ WF_reportVars(focus = "schedules" /\ RunDue(p))
          /\ WF_reportVars(focus = "schedules" /\ (Send(p) \/ Record(p)))

TimersSpec == TimersInit /\ [][TimersNext]_timerVars /\ TimersFair

\* Every wanted mail is recorded, and its attachments fetched.
MailInTime == focus = "mailbox" => Mailbox!RecordsAll /\ Mailbox!FilesFetched
\* The recycle bin is emptied.
BinEmptiedInTime == focus = "bin" => BinEmptied
\* Device syncs go on whatever restarts, and a due schedule is run.
RunsInTime ==
    /\ focus = "devices" => AutoSyncGoesOn
    /\ focus = "schedules" => DueRuns
==============================================================================
