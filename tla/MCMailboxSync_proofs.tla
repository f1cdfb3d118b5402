------------------------ MODULE MCMailboxSync_proofs ------------------------
(***************************************************************************)
(* What MailboxSync_proofs shows of MailboxSync, carried over to the three *)
(* ways MCMailboxSync runs it: each way is MailboxSync with constants of   *)
(* its own, so each step of MailboxSpec is a step of the instance of its   *)
(* way, whose lemmas apply.                                                *)
(***************************************************************************)
EXTENDS MCMailboxSync, TLAPS

TimerProofs == INSTANCE MailboxSync_proofs WITH
    Mail <- {fileMail, eventMail, spamMail}, EventMail <- {eventMail}, SpamMail <- {spamMail},
    Attached <- {fileMail}, Flagged <- {fileMail}, Refused <- {}, Stuck <- {},
    Kinds <- {"auto"}, HoursEnabled <- TRUE, PageMax <- 2, MaxInbox <- 3
OverlapProofs == INSTANCE MailboxSync_proofs WITH
    Mail <- {fileMail, plainMail}, EventMail <- {}, SpamMail <- {},
    Attached <- {fileMail}, Flagged <- {}, Refused <- {}, Stuck <- {plainMail},
    Kinds <- {"auto", "manual"}, MaxInbox <- 2
FilesProofs == INSTANCE MailboxSync_proofs WITH
    Mail <- {fileMail, plainMail}, EventMail <- {}, SpamMail <- {},
    Attached <- {fileMail, plainMail}, Flagged <- {}, Refused <- {plainMail}, Stuck <- {},
    Kinds <- {"manual", "backfill"}

\* MailAssumption of the constants of each way.
LEMMA TimerAssumed ==
  /\ {{eventMail}, {spamMail}, {fileMail}, {fileMail}, {}, {}}
        \subseteq SUBSET {fileMail, eventMail, spamMail}
  /\ {"auto"} \subseteq {"auto", "manual", "backfill"} /\ NoCursor \notin Nat
  /\ 2 \in Nat \ {0} /\ {History, 3, MaxFaults} \subseteq Nat
  BY MailAssumption

LEMMA OverlapAssumed ==
  /\ {{}, {}, {fileMail}, {}, {}, {plainMail}} \subseteq SUBSET {fileMail, plainMail}
  /\ {"auto", "manual"} \subseteq {"auto", "manual", "backfill"} /\ NoCursor \notin Nat
  /\ PageMax \in Nat \ {0} /\ {History, 2, MaxFaults} \subseteq Nat
  BY MailAssumption

LEMMA FilesAssumed ==
  /\ {{}, {}, {fileMail, plainMail}, {}, {plainMail}, {}} \subseteq SUBSET {fileMail, plainMail}
  /\ {"manual", "backfill"} \subseteq {"auto", "manual", "backfill"} /\ NoCursor \notin Nat
  /\ PageMax \in Nat \ {0} /\ {History, MaxInbox, MaxFaults} \subseteq Nat
  BY MailAssumption

LEMMA TimerInit == ASSUME Timer!Init PROVE TimerProofs!Init
  BY DEF Timer!Init, TimerProofs!Init, Timer!Idle, TimerProofs!Idle, Timer!IsInjective,
         TimerProofs!IsInjective

LEMMA OverlapInit == ASSUME Overlap!Init PROVE OverlapProofs!Init
  BY DEF Overlap!Init, OverlapProofs!Init, Overlap!Idle, OverlapProofs!Idle, Overlap!IsInjective,
         OverlapProofs!IsInjective

LEMMA FilesInit == ASSUME Files!Init PROVE FilesProofs!Init
  BY DEF Files!Init, FilesProofs!Init, Files!Idle, FilesProofs!Idle, Files!IsInjective,
         FilesProofs!IsInjective

LEMMA TimerNext == ASSUME Timer!Next PROVE TimerProofs!Next
  BY DEF Timer!Init, TimerProofs!Init, Timer!Next, TimerProofs!Next, Timer!Deliver,
         TimerProofs!Deliver, Timer!Redeliver, TimerProofs!Redeliver, Timer!Elapse,
         TimerProofs!Elapse, Timer!Hours, TimerProofs!Hours, Timer!Crash,
         TimerProofs!Crash, Timer!SetAuto, TimerProofs!SetAuto, Timer!AutoScan,
         TimerProofs!AutoScan, Timer!AutoStart, TimerProofs!AutoStart,
         Timer!ManualStart, TimerProofs!ManualStart, Timer!BackfillStart,
         TimerProofs!BackfillStart, Timer!Advance, TimerProofs!Advance, Timer!Fail,
         TimerProofs!Fail, Timer!Fetch, TimerProofs!Fetch, Timer!Check,
         TimerProofs!Check, Timer!StoreEvent, TimerProofs!StoreEvent, Timer!LogSpam,
         TimerProofs!LogSpam, Timer!Import, TimerProofs!Import, Timer!Settle,
         TimerProofs!Settle, Timer!Retrieve, TimerProofs!Retrieve, Timer!Store,
         TimerProofs!Store, Timer!Mark, TimerProofs!Mark, Timer!List,
         TimerProofs!List, Timer!NextCandidate, TimerProofs!NextCandidate,
         Timer!Finish, TimerProofs!Finish, Timer!ImportStuck, TimerProofs!ImportStuck,
         Timer!Failed, TimerProofs!Failed, Timer!Fault, TimerProofs!Fault, Timer!To,
         TimerProofs!To, Timer!At, TimerProofs!At, Timer!Snapshot,
         TimerProofs!Snapshot, Timer!Stored, TimerProofs!Stored, Timer!Broad,
         TimerProofs!Broad, Timer!RowsOf, TimerProofs!RowsOf, Timer!Delivered,
         TimerProofs!Delivered, Timer!Idle, TimerProofs!Idle, Timer!mailbox,
         TimerProofs!mailbox, Timer!timer, TimerProofs!timer, Timer!vars,
         TimerProofs!vars, Timer!IsInjective, TimerProofs!IsInjective

LEMMA OverlapNext == ASSUME Overlap!Next PROVE OverlapProofs!Next
  BY DEF Overlap!Init, OverlapProofs!Init, Overlap!Next, OverlapProofs!Next,
         Overlap!Deliver, OverlapProofs!Deliver, Overlap!Redeliver,
         OverlapProofs!Redeliver, Overlap!Elapse, OverlapProofs!Elapse, Overlap!Hours,
         OverlapProofs!Hours, Overlap!Crash, OverlapProofs!Crash, Overlap!SetAuto,
         OverlapProofs!SetAuto, Overlap!AutoScan, OverlapProofs!AutoScan,
         Overlap!AutoStart, OverlapProofs!AutoStart, Overlap!ManualStart,
         OverlapProofs!ManualStart, Overlap!BackfillStart,
         OverlapProofs!BackfillStart, Overlap!Advance, OverlapProofs!Advance,
         Overlap!Fail, OverlapProofs!Fail, Overlap!Fetch, OverlapProofs!Fetch,
         Overlap!Check, OverlapProofs!Check, Overlap!StoreEvent,
         OverlapProofs!StoreEvent, Overlap!LogSpam, OverlapProofs!LogSpam,
         Overlap!Import, OverlapProofs!Import, Overlap!Settle, OverlapProofs!Settle,
         Overlap!Retrieve, OverlapProofs!Retrieve, Overlap!Store, OverlapProofs!Store,
         Overlap!Mark, OverlapProofs!Mark, Overlap!List, OverlapProofs!List,
         Overlap!NextCandidate, OverlapProofs!NextCandidate, Overlap!Finish,
         OverlapProofs!Finish, Overlap!ImportStuck, OverlapProofs!ImportStuck,
         Overlap!Failed, OverlapProofs!Failed, Overlap!Fault, OverlapProofs!Fault,
         Overlap!To, OverlapProofs!To, Overlap!At, OverlapProofs!At, Overlap!Snapshot,
         OverlapProofs!Snapshot, Overlap!Stored, OverlapProofs!Stored, Overlap!Broad,
         OverlapProofs!Broad, Overlap!RowsOf, OverlapProofs!RowsOf, Overlap!Delivered,
         OverlapProofs!Delivered, Overlap!Idle, OverlapProofs!Idle, Overlap!mailbox,
         OverlapProofs!mailbox, Overlap!timer, OverlapProofs!timer, Overlap!vars,
         OverlapProofs!vars, Overlap!IsInjective, OverlapProofs!IsInjective

LEMMA FilesNext == ASSUME Files!Next PROVE FilesProofs!Next
  BY DEF Files!Init, FilesProofs!Init, Files!Next, FilesProofs!Next, Files!Deliver,
         FilesProofs!Deliver, Files!Redeliver, FilesProofs!Redeliver, Files!Elapse,
         FilesProofs!Elapse, Files!Hours, FilesProofs!Hours, Files!Crash,
         FilesProofs!Crash, Files!SetAuto, FilesProofs!SetAuto, Files!AutoScan,
         FilesProofs!AutoScan, Files!AutoStart, FilesProofs!AutoStart,
         Files!ManualStart, FilesProofs!ManualStart, Files!BackfillStart,
         FilesProofs!BackfillStart, Files!Advance, FilesProofs!Advance, Files!Fail,
         FilesProofs!Fail, Files!Fetch, FilesProofs!Fetch, Files!Check,
         FilesProofs!Check, Files!StoreEvent, FilesProofs!StoreEvent, Files!LogSpam,
         FilesProofs!LogSpam, Files!Import, FilesProofs!Import, Files!Settle,
         FilesProofs!Settle, Files!Retrieve, FilesProofs!Retrieve, Files!Store,
         FilesProofs!Store, Files!Mark, FilesProofs!Mark, Files!List,
         FilesProofs!List, Files!NextCandidate, FilesProofs!NextCandidate,
         Files!Finish, FilesProofs!Finish, Files!ImportStuck, FilesProofs!ImportStuck,
         Files!Failed, FilesProofs!Failed, Files!Fault, FilesProofs!Fault, Files!To,
         FilesProofs!To, Files!At, FilesProofs!At, Files!Snapshot,
         FilesProofs!Snapshot, Files!Stored, FilesProofs!Stored, Files!Broad,
         FilesProofs!Broad, Files!RowsOf, FilesProofs!RowsOf, Files!Delivered,
         FilesProofs!Delivered, Files!Idle, FilesProofs!Idle, Files!mailbox,
         FilesProofs!mailbox, Files!timer, FilesProofs!timer, Files!vars,
         FilesProofs!vars, Files!IsInjective, FilesProofs!IsInjective

LEMMA TimerRecords == ASSUME TimerProofs!RecordsStep PROVE Timer!RecordsStep
  BY DEF Timer!RecordsStep, TimerProofs!RecordsStep, Timer!Intake!Next, Timer!Intake!vars,
         TimerProofs!Intake!Next, TimerProofs!Intake!vars, Timer!Intake!Deliver,
         TimerProofs!Intake!Deliver, Timer!Intake!Record, TimerProofs!Intake!Record,
         Timer!Intake!Range, TimerProofs!Intake!Range, Timer!Wanted, TimerProofs!Wanted

(***************************************************************************)
(* The invariant of every way, and what follows from it.                   *)
(***************************************************************************)

Ways ==
    /\ way \in {"timer", "overlap", "files"}
    /\ way = "timer" => TimerProofs!Lone /\ TimerProofs!Inv
    /\ way = "overlap" => OverlapProofs!Guarded /\ OverlapProofs!Inv
    /\ way = "files" => FilesProofs!Guarded

LEMMA WaysInit == ASSUME MailboxInit PROVE Ways
<1>1. CASE way = "timer" /\ Timer!Init
  BY <1>1, TimerInit, TimerAssumed, TimerProofs!LoneInit, TimerProofs!InvInit DEF Ways
<1>2. CASE way = "overlap" /\ Overlap!Init
  BY <1>2, OverlapInit, OverlapAssumed, OverlapProofs!GuardedInit, OverlapProofs!InvInit DEF Ways
<1>3. CASE way = "files" /\ Files!Init
  BY <1>3, FilesInit, FilesAssumed, FilesProofs!GuardedInit DEF Ways
<1> QED
  BY <1>1, <1>2, <1>3 DEF MailboxInit

\* The step of the way a behaviour goes.
LEMMA WayStep ==
  ASSUME Ways, [MailboxNext]_<<vars, way>>
  PROVE  /\ way' = way
         /\ way = "timer" => TimerProofs!Next \/ UNCHANGED TimerProofs!vars
         /\ way = "overlap" => OverlapProofs!Next \/ UNCHANGED OverlapProofs!vars
         /\ way = "files" => FilesProofs!Next \/ UNCHANGED FilesProofs!vars
<1>1. CASE MailboxNext
  BY <1>1, TimerNext, OverlapNext, FilesNext DEF MailboxNext
<1>2. CASE UNCHANGED <<vars, way>>
  BY <1>2 DEF vars, mailbox, timer, TimerProofs!vars, TimerProofs!mailbox, TimerProofs!timer,
         OverlapProofs!vars, OverlapProofs!mailbox, OverlapProofs!timer, FilesProofs!vars,
         FilesProofs!mailbox, FilesProofs!timer
<1> QED
  BY <1>1, <1>2

LEMMA WaysStep == ASSUME Ways, [MailboxNext]_<<vars, way>> PROVE Ways'
<1>1. way' = way
  BY WayStep
<1>2. CASE way = "timer"
  <2>1. TimerProofs!Lone /\ TimerProofs!Inv /\ [TimerProofs!Next]_(TimerProofs!vars)
    BY <1>2, WayStep DEF Ways
  <2>2. TimerProofs!Lone'
    BY <2>1, TimerAssumed, TimerProofs!LoneStep
  <2>3. TimerProofs!Inv'
    BY <2>1, TimerAssumed, TimerProofs!InvStep
  <2> QED
    BY <1>1, <1>2, <2>2, <2>3 DEF Ways
<1>3. CASE way = "overlap"
  <2>1. OverlapProofs!Guarded /\ OverlapProofs!Inv /\ [OverlapProofs!Next]_(OverlapProofs!vars)
    BY <1>3, WayStep DEF Ways
  <2>2. OverlapProofs!Guarded'
    BY <2>1, OverlapAssumed, OverlapProofs!GuardedStep
  <2>3. OverlapProofs!Inv'
    BY <2>1, OverlapAssumed, OverlapProofs!InvStep
  <2> QED
    BY <1>1, <1>3, <2>2, <2>3 DEF Ways
<1>4. CASE way = "files"
  <2>1. FilesProofs!Guarded /\ [FilesProofs!Next]_(FilesProofs!vars)
    BY <1>4, WayStep DEF Ways
  <2>2. FilesProofs!Guarded'
    BY <2>1, FilesAssumed, FilesProofs!GuardedStep
  <2> QED
    BY <1>1, <1>4, <2>2 DEF Ways
<1> QED
  BY <1>2, <1>3, <1>4 DEF Ways

LEMMA WaysAlways == MailboxSpec => []Ways
  BY WaysInit, WaysStep, PTL DEF MailboxSpec

\* Syncs of the timer and of administrators pass no mail that was not dealt with.
THEOREM SyncsSkipNothing == MailboxSpec => []NothingSkippedBySyncs
<1>1. Ways => NothingSkippedBySyncs
  <2>1. ASSUME Ways, way = "timer" PROVE NothingSkipped
    BY <2>1, TimerAssumed, TimerProofs!InvSkips
       DEF Ways, NothingSkipped, TimerProofs!NothingSkipped, Handled, TimerProofs!Handled
  <2>2. ASSUME Ways, way = "overlap" PROVE NothingSkipped
    BY <2>2, OverlapAssumed, OverlapProofs!InvSkips
       DEF Ways, NothingSkipped, OverlapProofs!NothingSkipped, Handled, OverlapProofs!Handled
  <2> QED
    BY <2>1, <2>2 DEF NothingSkippedBySyncs, Ways
<1> QED
  BY <1>1, WaysAlways, PTL

\* In every way, the timer's syncs never overlap.
THEOREM TimerNeverOverlaps == MailboxSpec => []AutoSyncAlone
<1>1. Ways => AutoSyncAlone
  BY DEF Ways, AutoSyncAlone, TimerProofs!Lone, TimerProofs!AutoSyncAlone,
         OverlapProofs!Guarded, OverlapProofs!AutoSyncAlone, FilesProofs!Guarded,
         FilesProofs!AutoSyncAlone
<1> QED
  BY <1>1, WaysAlways, PTL

\* With the timer alone, no attachment is stored twice.
THEOREM TimerStoresOnce == MailboxSpec => []FilesOnceByTimer
<1>1. Ways => FilesOnceByTimer
  BY DEF Ways, FilesOnceByTimer, FilesOnce, TimerProofs!Lone, TimerProofs!FilesOnce
<1> QED
  BY <1>1, WaysAlways, PTL

\* With the timer alone, each step records at most one mail, wanted and not recorded yet.
THEOREM TimerRecordsAtMostOnce == MailboxSpec => RecordsAtMostOnceByTimer
<1>1. Ways /\ [MailboxNext]_<<vars, way>> => [way = "timer" => Timer!RecordsStep]_vars
  <2> SUFFICES ASSUME Ways, [MailboxNext]_<<vars, way>>, way = "timer"
               PROVE  Timer!RecordsStep
    OBVIOUS
  <2>1. TimerProofs!Lone /\ [TimerProofs!Next]_(TimerProofs!vars)
    BY WayStep DEF Ways
  <2> QED
    BY <2>1, TimerAssumed, TimerProofs!RecordsNext, TimerRecords
<1> QED
  BY <1>1, WaysAlways, PTL DEF MailboxSpec, RecordsAtMostOnceByTimer
==============================================================================
