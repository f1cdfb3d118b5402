---------------------------- MODULE Upkeep_proofs ----------------------------
(***************************************************************************)
(* Of devices, report schedules and projects as MCUpkeep composes them,    *)
(* for any of them, any requests and any runs of the timers: the           *)
(* properties of its runs.  Dependencies and alerts are proved of the      *)
(* specifications of their modules.                                        *)
(***************************************************************************)
EXTENDS MCUpkeep, FiniteSetTheorems, SequenceTheorems, TLAPS

(***************************************************************************)
(* Report schedules.                                                       *)
(***************************************************************************)

Rows == ScheduleRow \cup {Absent}
Edits == [op : {"write"}, schedule : Schedule, sets : BOOLEAN, active : BOOLEAN]
Running == [op : {"send"}, left : Seq(Schedule)]
             \cup [op : {"record"}, left : Seq(Schedule), outcome : {"sent", "failed"}]

Formed ==
    /\ definition \subseteq Definition
    /\ schedule \in [Schedule -> Rows]
    /\ mails \in [Schedule -> 0..2]
    /\ created \in [Ticket -> Nat]
    /\ edit \in [Editor -> Edits \cup {Idle}]
    /\ runs \in [Runner -> Running \cup {Idle}]
    /\ \A p \in Runner : runs[p] # Idle => runs[p].left # <<>>

Defined == \A s \in Present(schedule) : schedule[s].definition \in definition

\* The order of the schedules that are due.
Ordered ==
    /\ ahead \in [Schedule -> SUBSET Waiting]
    /\ \A s \in Schedule : s \notin ahead[s] /\ (s \notin Waiting => ahead[s] = {})
    /\ \A s, t \in Waiting : s # t => (s \in ahead[t] <=> t \notin ahead[s])

LEMMA TypeParts == Formed /\ Defined /\ Ordered => ReportsTypeOK
BY DEF Formed, Defined, Ordered, ReportsTypeOK, Rows

LEMMA RowsThere ==
  ASSUME Formed
  PROVE  /\ Present(schedule) \subseteq Schedule /\ Waiting \subseteq Present(schedule)
         /\ \A s \in Present(schedule) : schedule[s] \in ScheduleRow
BY DEF Formed, Present, Rows, Waiting

LEMMA RowsDiffer == \A r \in ScheduleRow : r # Absent
<1>1. \A r \in ScheduleRow : DOMAIN r = {"definition", "active", "next"}
  BY DEF ScheduleRow
<1>2. DOMAIN Absent = {"gone"}
  BY DEF Absent
<1> QED
  BY <1>1, <1>2

LEMMA BusyEdit ==
  ASSUME Formed, NEW e \in Editor
  PROVE  /\ edit[e].op = "write" => edit[e] \in Edits
         /\ edit[e] # Idle => edit[e] \in Edits
BY DEF Formed, Idle

LEMMA BusyRun ==
  ASSUME Formed, NEW p \in Runner, runs[p] # Idle
  PROVE  /\ runs[p] \in Running /\ runs[p].left \in Seq(Schedule) /\ runs[p].left # <<>>
         /\ Head(runs[p].left) \in Schedule /\ Tail(runs[p].left) \in Seq(Schedule)
         /\ Head(runs[p].left) = runs[p].left[1]
         /\ Len(Tail(runs[p].left)) = Len(runs[p].left) - 1 /\ Len(runs[p].left) \in Nat \ {0}
         /\ \A i \in 1..Len(Tail(runs[p].left)) : Tail(runs[p].left)[i] = runs[p].left[i + 1]
<1>1. runs[p] \in Running /\ runs[p].left \in Seq(Schedule) /\ runs[p].left # <<>>
  BY DEF Formed, Running
<1>2. PICK l \in Seq(Schedule) : l = runs[p].left
  BY <1>1
<1>3. l # <<>>
  BY <1>1, <1>2
<1>4. /\ Head(l) \in Schedule /\ Tail(l) \in Seq(Schedule) /\ Head(l) = l[1]
      /\ Len(Tail(l)) = Len(l) - 1 /\ Len(l) \in Nat \ {0}
      /\ \A i \in 1..Len(Tail(l)) : Tail(l)[i] = l[i + 1]
  BY <1>3
<1> QED
  BY <1>1, <1>2, <1>4

\* One row is written.
LEMMA OneRow ==
  ASSUME Formed, NEW s \in Schedule, NEW row \in Rows, schedule' = [schedule EXCEPT ![s] = row]
  PROVE  /\ schedule' \in [Schedule -> Rows]
         /\ \A t \in Schedule : schedule'[t] = IF t = s THEN row ELSE schedule[t]
         /\ Present(schedule)' = (Present(schedule) \ {s}) \cup IF row = Absent THEN {} ELSE {s}
         /\ Waiting' = (Waiting \ {s}) \cup IF row # Absent /\ row.next = "due" THEN {s} ELSE {}
<1>1. schedule' \in [Schedule -> Rows] /\ \A t \in Schedule : schedule'[t] = IF t = s THEN row ELSE schedule[t]
  BY DEF Formed
<1>2. Present(schedule)' = (Present(schedule) \ {s}) \cup IF row = Absent THEN {} ELSE {s}
  BY <1>1 DEF Formed, Present
<1>3. Waiting' = {t \in Present(schedule)' : schedule'[t].next = "due"}
  BY DEF Waiting
<1>4. Present(schedule) \subseteq Schedule
  BY DEF Present, Formed
<1> QED
  BY <1>1, <1>2, <1>3, <1>4 DEF Waiting

\* Schedules leave the line.
LEMMA LeaveLine ==
  ASSUME Ordered, NEW S, Waiting \subseteq Schedule, Waiting' = Waiting \ S, ahead' = Without(S)
  PROVE  Ordered'
BY DEF Ordered, Without

\* One joins it, at its end.
LEMMA JoinLine ==
  ASSUME Ordered, NEW s \in Schedule, s \notin Waiting, Waiting \subseteq Schedule,
         Waiting' = Waiting \cup {s}, ahead' = [ahead EXCEPT ![s] = Waiting]
  PROVE  Ordered'
<1>1. \A t \in Schedule : ahead'[t] = IF t = s THEN Waiting ELSE ahead[t]
  BY DEF Ordered
<1>2. ahead' \in [Schedule -> SUBSET Waiting']
  BY <1>1 DEF Ordered
<1> QED
  BY <1>1, <1>2 DEF Ordered

\* What an edit read and will not write is still so: only edits write it.
EditsKept ==
    \A e \in Editor :
       LET q == edit[e] IN
       q # Idle /\ ~q.sets /\ schedule[q.schedule] # Absent => schedule[q.schedule].active = q.active

\* With one run at a time: what it has before it was not mailed yet, and what is due and
\* was mailed is what the run is about to write down.
MailsKept ==
    alone =>
       /\ MailedOnce
       /\ \A p, r \in Runner : runs[p] # Idle /\ runs[r] # Idle => p = r
       /\ \A p \in Runner : runs[p] # Idle =>
             LET left == runs[p].left IN
             /\ \A i, j \in 1..Len(left) : left[i] = left[j] => i = j
             /\ \A i \in 1..Len(left) : i > 1 \/ runs[p].op = "send" => mails[left[i]] = 0
       /\ \A s \in Waiting :
             mails[s] = 0 \/ \E p \in Runner : runs[p].op = "record" /\ s = runs[p].left[1]

Scheduled == Formed /\ Defined /\ Ordered /\ ActiveHasNext /\ EditsKept /\ MailsKept

OneEditor == \A e, f \in Editor : e = f

\* Whatever the runs do not do themselves only starts the count of mails again.
LEMMA SameRuns ==
  ASSUME Formed, MailsKept, UNCHANGED <<runs, alone>>, Waiting' \subseteq Schedule,
         \A s \in Schedule : mails'[s] = mails[s] \/ mails'[s] = 0,
         \A s \in Waiting' : s \in Waiting \/ mails'[s] = 0
  PROVE  MailsKept'
<1> SUFFICES ASSUME alone PROVE MailsKept'
  BY DEF MailsKept
<1>1. \A p \in Runner : runs[p] # Idle =>
         \A i \in 1..Len(runs[p].left) : runs[p].left[i] \in Schedule
  BY BusyRun
<1>2. MailedOnce'
  BY DEF MailsKept, MailedOnce, Formed
<1>3. \A p \in Runner : runs[p] # Idle =>
         \A i \in 1..Len(runs[p].left) : i > 1 \/ runs[p].op = "send" => mails'[runs[p].left[i]] = 0
  BY <1>1 DEF MailsKept
<1>4. \A s \in Waiting' :
         mails'[s] = 0 \/ \E p \in Runner : runs[p].op = "record" /\ s = runs[p].left[1]
  BY DEF MailsKept
<1> QED
  BY <1>2, <1>3, <1>4 DEF MailsKept

LEMMA KeepsDefinition ==
  ASSUME Scheduled, UNCHANGED alone, NEW d \in Definition, CreateDefinition(d)
  PROVE  Scheduled'
<1>1. Formed' /\ Defined' /\ Ordered' /\ ActiveHasNext' /\ EditsKept'
  BY DEF Scheduled, CreateDefinition, Formed, Defined, Ordered, ActiveHasNext, EditsKept, Waiting, Present, Pages
<1>2. MailsKept'
  BY RowsThere DEF Scheduled, CreateDefinition, MailsKept, MailedOnce, Waiting, Present
<1> QED
  BY <1>1, <1>2 DEF Scheduled

LEMMA DropsDefinition ==
  ASSUME Scheduled, UNCHANGED alone, NEW d \in Definition, DeleteDefinition(d)
  PROVE  Scheduled'
<1> DEFINE lost == {s \in Present(schedule) : schedule[s].definition = d}
<1>1. /\ schedule' = [s \in Schedule |-> IF s \in lost THEN Absent ELSE schedule[s]]
      /\ ahead' = Without(lost) /\ definition' = definition \ {d}
      /\ UNCHANGED <<mails, Pages, edit, runs>>
  BY DEF DeleteDefinition
<1>2. schedule' \in [Schedule -> Rows] /\ Present(schedule)' = Present(schedule) \ lost
  BY <1>1 DEF Scheduled, Formed, Rows, Present
<1>3. Waiting' = Waiting \ lost
  BY <1>1, <1>2, RowsThere DEF Waiting, Scheduled
<1>4. Formed'
  BY <1>1, <1>2 DEF Scheduled, Formed, Pages
<1>5. Defined' /\ ActiveHasNext'
  BY <1>1, <1>2, RowsThere DEF Scheduled, Defined, ActiveHasNext
<1>6. Ordered'
  BY <1>1, <1>3, LeaveLine, RowsThere DEF Scheduled
<1>7. EditsKept'
  BY <1>1, BusyEdit DEF Scheduled, EditsKept, Edits
<1>8. MailsKept'
  BY <1>1, <1>3, SameRuns, RowsThere DEF Scheduled
<1> QED
  BY <1>4, <1>5, <1>6, <1>7, <1>8 DEF Scheduled

LEMMA NewSchedule ==
  ASSUME Scheduled, UNCHANGED alone, NEW s \in Schedule, NEW d \in Definition, NEW on \in BOOLEAN,
         CreateSchedule(s, d, on)
  PROVE  Scheduled'
<1>1. PICK row \in ScheduleRow :
         /\ row = [definition |-> d, active |-> on, next |-> IF on THEN "later" ELSE "none"]
         /\ schedule' = [schedule EXCEPT ![s] = row]
  BY DEF CreateSchedule, ScheduleRow
<1>2. /\ schedule[s] = Absent /\ d \in definition /\ mails' = [mails EXCEPT ![s] = 0]
      /\ \A e \in Editor : edit[e] # Idle => edit[e].schedule # s
      /\ UNCHANGED <<definition, ahead, Pages, edit, runs>>
  BY DEF CreateSchedule
<1>3. row \in Rows /\ row # Absent /\ row.next # "due" /\ s \notin Present(schedule)
  BY <1>1, <1>2, RowsDiffer DEF Rows, Present
<1>4. /\ schedule' \in [Schedule -> Rows]
      /\ \A t \in Schedule : schedule'[t] = IF t = s THEN row ELSE schedule[t]
      /\ Present(schedule)' = Present(schedule) \cup {s} /\ Waiting' = Waiting
  <2>1. Formed /\ s \notin Waiting
    BY <1>3, RowsThere DEF Scheduled
  <2>2. /\ schedule' \in [Schedule -> Rows]
        /\ \A t \in Schedule : schedule'[t] = IF t = s THEN row ELSE schedule[t]
        /\ Present(schedule)' = (Present(schedule) \ {s}) \cup IF row = Absent THEN {} ELSE {s}
        /\ Waiting' = (Waiting \ {s}) \cup IF row # Absent /\ row.next = "due" THEN {s} ELSE {}
    <3>1. schedule' = [schedule EXCEPT ![s] = row] /\ row \in Rows
      BY <1>1, <1>3
    <3> QED
      BY <3>1, <2>1, OneRow
  <2> QED
    BY <1>3, <2>1, <2>2
<1>5. Formed'
  <2>1. mails' \in [Schedule -> 0..2]
    BY <1>2 DEF Scheduled, Formed
  <2> QED
    BY <1>2, <1>4, <2>1 DEF Scheduled, Formed, Pages
<1>6. Defined' /\ ActiveHasNext'
  BY <1>1, <1>2, <1>4, RowsThere DEF Scheduled, Defined, ActiveHasNext
<1>7. Ordered'
  BY <1>2, <1>4 DEF Scheduled, Ordered
<1>8. EditsKept'
  BY <1>2, <1>4, BusyEdit DEF Scheduled, EditsKept, Edits
<1>9. MailsKept'
  BY <1>2, <1>4, SameRuns, RowsThere DEF Scheduled, Formed
<1> QED
  BY <1>5, <1>6, <1>7, <1>8, <1>9 DEF Scheduled

LEMMA ReadsSchedule ==
  ASSUME Scheduled, UNCHANGED alone, NEW e \in Editor, NEW s \in Schedule,
         NEW flag \in {"on", "off", "keep"}, UpdateSchedule(e, s, flag)
  PROVE  Scheduled'
<1>1. PICK q \in Edits : /\ q.schedule = s /\ edit' = [edit EXCEPT ![e] = q]
                         /\ ~q.sets => q.active = schedule[s].active
  <2>1. schedule[s].active \in BOOLEAN
    BY RowsThere DEF UpdateSchedule, Scheduled, Formed, Present, ScheduleRow
  <2>2. PICK q : q = [op |-> "write", schedule |-> s, sets |-> flag # "keep",
                      active |-> IF flag = "keep" THEN schedule[s].active ELSE flag = "on"]
    OBVIOUS
  <2>3. q \in Edits /\ q.schedule = s /\ (~q.sets => q.active = schedule[s].active)
    BY <2>1, <2>2 DEF Edits
  <2> QED
    BY <2>2, <2>3 DEF UpdateSchedule
<1>2. UNCHANGED <<definition, schedule, ahead, mails, Pages, runs>>
  BY DEF UpdateSchedule, Schedules
<1>3. Formed'
  BY <1>1, <1>2 DEF Scheduled, Formed, Pages
<1>4. Defined' /\ Ordered' /\ ActiveHasNext' /\ Waiting' = Waiting
  BY <1>2 DEF Scheduled, Defined, Ordered, ActiveHasNext, Present, Waiting
<1>5. EditsKept'
  BY <1>1, <1>2 DEF Scheduled, EditsKept, Formed
<1>6. MailsKept'
  BY <1>2, <1>4, SameRuns, RowsThere DEF Scheduled
<1> QED
  BY <1>3, <1>4, <1>5, <1>6 DEF Scheduled

LEMMA WritesSchedule ==
  ASSUME Scheduled, OneEditor, UNCHANGED alone, NEW e \in Editor, WriteSchedule(e)
  PROVE  Scheduled'
<1>1. PICK q \in Edits : q = edit[e]
  BY BusyEdit DEF WriteSchedule, Scheduled
<1>2. edit' = [edit EXCEPT ![e] = Idle] /\ UNCHANGED <<definition, Pages, runs>>
  BY DEF WriteSchedule
<1>3. \A f \in Editor : edit'[f] = Idle
  BY <1>2 DEF Scheduled, Formed, OneEditor
<1>4. EditsKept'
  BY <1>3 DEF EditsKept
<1>5. CASE schedule[q.schedule] = Absent
  <2>1. UNCHANGED <<schedule, ahead, mails>>
    BY <1>1, <1>5 DEF WriteSchedule
  <2>2. Formed' /\ Defined' /\ Ordered' /\ ActiveHasNext' /\ Waiting' = Waiting
    BY <2>1, <1>2 DEF Scheduled, Formed, Defined, Ordered, ActiveHasNext, Waiting, Present, Pages
  <2>3. MailsKept'
    BY <2>1, <2>2, <1>2, SameRuns, RowsThere DEF Scheduled
  <2> QED
    BY <2>2, <2>3, <1>4 DEF Scheduled
<1>6. CASE schedule[q.schedule] # Absent
  <2> DEFINE s == q.schedule
             old == schedule[s]
             new == [definition |-> old.definition, active |-> IF q.sets THEN q.active ELSE old.active,
                     next |-> IF q.active THEN "later" ELSE "none"]
  <2>1. s \in Schedule /\ s \in Present(schedule) /\ old \in ScheduleRow
    BY <1>1, <1>6, RowsThere DEF Edits, Scheduled, Formed, Present
  <2>2. new \in ScheduleRow /\ new # Absent /\ new \in Rows /\ new.next # "due"
    BY <1>1, <2>1, RowsDiffer DEF Edits, ScheduleRow, Rows
  <2>3. schedule' = [schedule EXCEPT ![s] = new] /\ ahead' = Without({s}) /\ mails' = [mails EXCEPT ![s] = 0]
    BY <1>1, <1>6, <2>1 DEF WriteSchedule, ScheduleRow, Scheduled, Formed
  <2>4. new.active => new.next # "none"
    BY <1>1, <1>6, <2>1 DEF Scheduled, EditsKept, Edits, ScheduleRow, Idle
  <2>5. new.definition = old.definition
    OBVIOUS
  <2> HIDE DEF new
  <2>6. /\ schedule' \in [Schedule -> Rows]
        /\ \A t \in Schedule : schedule'[t] = IF t = s THEN new ELSE schedule[t]
        /\ Present(schedule)' = (Present(schedule) \ {s}) \cup IF new = Absent THEN {} ELSE {s}
        /\ Waiting' = (Waiting \ {s}) \cup IF new # Absent /\ new.next = "due" THEN {s} ELSE {}
    BY <2>1, <2>2, <2>3, OneRow DEF Scheduled
  <2>7. Present(schedule)' = Present(schedule) /\ Waiting' = Waiting \ {s}
    BY <2>1, <2>2, <2>6
  <2>8. Formed'
    <3>1. mails' \in [Schedule -> 0..2]
      BY <2>1, <2>3 DEF Scheduled, Formed
    <3>2. edit' \in [Editor -> Edits \cup {Idle}]
      BY <1>2 DEF Scheduled, Formed
    <3> QED
      BY <3>1, <3>2, <1>2, <2>6 DEF Scheduled, Formed, Pages
  <2>9. Defined' /\ ActiveHasNext'
    BY <1>2, <2>1, <2>4, <2>5, <2>6, <2>7, RowsThere DEF Scheduled, Defined, ActiveHasNext
  <2>10. Ordered'
    BY <2>3, <2>7, LeaveLine, RowsThere DEF Scheduled
  <2>11. MailsKept'
    BY <1>2, <2>1, <2>3, <2>7, SameRuns, RowsThere DEF Scheduled, Formed
  <2> QED
    BY <1>4, <2>8, <2>9, <2>10, <2>11 DEF Scheduled
<1> QED
  BY <1>5, <1>6

LEMMA DropsSchedule ==
  ASSUME Scheduled, UNCHANGED alone, NEW s \in Schedule, DeleteSchedule(s)
  PROVE  Scheduled'
<1>1. /\ schedule' = [schedule EXCEPT ![s] = Absent] /\ ahead' = Without({s})
      /\ UNCHANGED <<definition, mails, Pages, edit, runs>>
  BY DEF DeleteSchedule
<1>2. /\ schedule' \in [Schedule -> Rows]
      /\ \A t \in Schedule : schedule'[t] = IF t = s THEN Absent ELSE schedule[t]
      /\ Present(schedule)' = (Present(schedule) \ {s}) \cup IF Absent = Absent THEN {} ELSE {s}
      /\ Waiting' = (Waiting \ {s}) \cup IF Absent # Absent /\ Absent.next = "due" THEN {s} ELSE {}
  BY <1>1, OneRow DEF Scheduled, Rows
<1>3. Present(schedule)' = Present(schedule) \ {s} /\ Waiting' = Waiting \ {s}
  BY <1>2
<1>4. Formed'
  BY <1>1, <1>2 DEF Scheduled, Formed, Pages
<1>5. Defined' /\ ActiveHasNext'
  BY <1>1, <1>2, <1>3, RowsThere DEF Scheduled, Defined, ActiveHasNext
<1>6. Ordered'
  BY <1>1, <1>3, LeaveLine, RowsThere DEF Scheduled
<1>7. EditsKept'
  BY <1>1, <1>2, BusyEdit DEF Scheduled, EditsKept, Edits
<1>8. MailsKept'
  BY <1>1, <1>3, SameRuns, RowsThere DEF Scheduled
<1> QED
  BY <1>4, <1>5, <1>6, <1>7, <1>8 DEF Scheduled

LEMMA FallsDue ==
  ASSUME Scheduled, UNCHANGED alone, NEW s \in Schedule, FallDue(s)
  PROVE  Scheduled'
<1> DEFINE new == [schedule[s] EXCEPT !.next = "due"]
<1>1. /\ schedule' = [schedule EXCEPT ![s] = new] /\ ahead' = [ahead EXCEPT ![s] = Waiting]
      /\ mails' = [mails EXCEPT ![s] = 0] /\ schedule[s] # Absent /\ schedule[s].next = "later"
      /\ UNCHANGED <<definition, Pages, edit, runs>>
  BY DEF FallDue
<1>2. s \in Present(schedule) /\ schedule[s] \in ScheduleRow /\ s \notin Waiting
  BY <1>1, RowsThere DEF Scheduled, Formed, Present, Waiting
<1>3. /\ new \in ScheduleRow /\ new # Absent /\ new \in Rows /\ new.next = "due"
      /\ new.active = schedule[s].active /\ new.definition = schedule[s].definition
  BY <1>2, RowsDiffer DEF ScheduleRow, Rows
<1> HIDE DEF new
<1>4. /\ schedule' \in [Schedule -> Rows]
      /\ \A t \in Schedule : schedule'[t] = IF t = s THEN new ELSE schedule[t]
      /\ Present(schedule)' = (Present(schedule) \ {s}) \cup IF new = Absent THEN {} ELSE {s}
      /\ Waiting' = (Waiting \ {s}) \cup IF new # Absent /\ new.next = "due" THEN {s} ELSE {}
  BY <1>1, <1>3, OneRow DEF Scheduled
<1>5. Present(schedule)' = Present(schedule) /\ Waiting' = Waiting \cup {s}
  BY <1>2, <1>3, <1>4
<1>6. Formed'
  <2>1. mails' \in [Schedule -> 0..2]
    BY <1>1 DEF Scheduled, Formed
  <2> QED
    BY <1>1, <1>4, <2>1 DEF Scheduled, Formed, Pages
<1>7. Defined' /\ ActiveHasNext'
  BY <1>1, <1>3, <1>4, <1>5, RowsThere DEF Scheduled, Defined, ActiveHasNext
<1>8. Ordered'
  BY <1>1, <1>2, <1>5, JoinLine, RowsThere DEF Scheduled
<1>9. EditsKept'
  BY <1>1, <1>2, <1>3, <1>4, BusyEdit DEF Scheduled, EditsKept, Edits
<1>10. MailsKept'
  BY <1>1, <1>5, SameRuns, RowsThere DEF Scheduled, Formed
<1> QED
  BY <1>6, <1>7, <1>8, <1>9, <1>10 DEF Scheduled

(***************************************************************************)
(* The runs.                                                               *)
(***************************************************************************)

LEMMA TakenThere == ASSUME Formed PROVE Taken \subseteq Waiting
BY DEF Taken, Due

LEMMA BeginsRun ==
  ASSUME Scheduled, UNCHANGED alone, alone => Lone(runs), NEW p \in Runner, RunDue(p)
  PROVE  Scheduled'
<1>0. PICK n \in 1..MaxTaken : \E left \in [1..n -> Taken] :
         /\ \A i, j \in 1..n : i < j => left[i] \in ahead[left[j]]
         /\ Runs(p, Rest(p, left))
  BY DEF RunDue
<1>1. PICK left \in [1..n -> Taken] :
         /\ \A i, j \in 1..n : i < j => left[i] \in ahead[left[j]]
         /\ Runs(p, Rest(p, left))
  BY <1>0
<1>2. n \in Nat \ {0} /\ \A i \in 1..n : left[i] \in Waiting
  BY <1>1, BoundsAssumption, TakenThere DEF Scheduled
<1>3. left \in Seq(Schedule) /\ Len(left) = n /\ left # <<>>
  <2>1. left \in [1..n -> Schedule]
    BY <1>2, RowsThere DEF Scheduled
  <2>2. left \in Seq(Schedule)
    BY <2>1, <1>2, SeqDef
  <2> QED
    BY <2>1, <2>2, <1>2
<1>4. \A i, j \in 1..n : left[i] = left[j] => i = j
  <2>1. \A i, j \in 1..n : i < j => left[i] # left[j]
    BY <1>1, <1>2, RowsThere DEF Scheduled, Ordered
  <2> QED
    BY <2>1, <1>2
<1> DEFINE q == [op |-> "send", left |-> left]
<1>5. runs' = [runs EXCEPT ![p] = q] /\ q \in Running /\ q # Idle /\ q.op = "send" /\ q.left = left
  BY <1>1, <1>3 DEF Runs, Rest, Running, Idle
<1> HIDE DEF q
<1>6. UNCHANGED <<definition, schedule, ahead, mails, Pages, edit>>
  BY DEF RunDue, Schedules
<1>7. Formed'
  BY <1>3, <1>5, <1>6 DEF Scheduled, Formed, Pages
<1>8. Defined' /\ Ordered' /\ ActiveHasNext' /\ EditsKept' /\ Waiting' = Waiting
  BY <1>6 DEF Scheduled, Defined, Ordered, ActiveHasNext, EditsKept, Present, Waiting
<1>9. MailsKept'
  <2> SUFFICES ASSUME alone PROVE MailsKept'
    BY DEF MailsKept
  <2>1. \A r \in Runner : runs[r] = Idle
    BY DEF Lone, Scheduled, Formed
  <2>2. \A r \in Runner : runs'[r] = IF r = p THEN q ELSE Idle
    BY <1>5, <2>1 DEF Scheduled, Formed
  <2>3. \A s \in Waiting : mails[s] = 0
    BY <2>1 DEF Scheduled, MailsKept, Idle
  <2>4. MailedOnce'
    BY <1>6 DEF Scheduled, MailsKept, MailedOnce
  <2>5. \A i \in 1..Len(left) : mails'[left[i]] = 0
    BY <1>2, <1>3, <1>6, <2>3
  <2> QED
    BY <1>3, <1>4, <1>5, <1>6, <1>8, <2>2, <2>3, <2>4, <2>5 DEF MailsKept
<1> QED
  BY <1>7, <1>8, <1>9 DEF Scheduled

LEMMA Sends ==
  ASSUME Scheduled, UNCHANGED alone, NEW p \in Runner, Send(p)
  PROVE  Scheduled'
<1>0. runs[p].op = "send" /\ runs[p] # Idle
  BY DEF Send, Idle
<1>1. PICK left \in Seq(Schedule) : left = runs[p].left
  BY <1>0, BusyRun DEF Scheduled
<1>2. /\ left # <<>> /\ Head(left) \in Schedule /\ Head(left) = left[1] /\ Len(left) \in Nat \ {0}
      /\ \A i \in 1..Len(left) : left[i] \in Schedule
  BY <1>0, <1>1, BusyRun DEF Scheduled
<1>3. PICK mailed \in BOOLEAN, outcome \in {"sent", "failed"} :
         /\ mails' = [mails EXCEPT ![Head(left)] = IF mailed /\ @ < 2 THEN @ + 1 ELSE @]
         /\ Runs(p, [op |-> "record", left |-> left, outcome |-> outcome])
  BY <1>1 DEF Send
<1> DEFINE q == [op |-> "record", left |-> left, outcome |-> outcome]
<1>4. runs' = [runs EXCEPT ![p] = q] /\ q \in Running /\ q # Idle /\ q.op = "record" /\ q.left = left
  BY <1>3 DEF Runs, Running, Idle
<1> HIDE DEF q
<1>5. UNCHANGED <<definition, schedule, ahead, Pages, edit>>
  BY DEF Send
<1>6. /\ mails' \in [Schedule -> 0..2]
      /\ \A s \in Schedule : s # left[1] => mails'[s] = mails[s]
      /\ mails[left[1]] = 0 => mails'[left[1]] <= 1
  <2>1. mails[Head(left)] \in 0..2
    BY <1>2 DEF Scheduled, Formed
  <2> DEFINE more == IF mailed /\ mails[Head(left)] < 2 THEN mails[Head(left)] + 1 ELSE mails[Head(left)]
  <2>2. more \in 0..2 /\ (mails[Head(left)] = 0 => more <= 1)
    BY <2>1
  <2>3. mails' = [mails EXCEPT ![Head(left)] = more]
    BY <1>3
  <2> HIDE DEF more
  <2> QED
    BY <1>2, <2>2, <2>3 DEF Scheduled, Formed
<1>7. Formed'
  BY <1>2, <1>4, <1>5, <1>6 DEF Scheduled, Formed, Pages
<1>8. Defined' /\ Ordered' /\ ActiveHasNext' /\ EditsKept' /\ Waiting' = Waiting
  BY <1>5 DEF Scheduled, Defined, Ordered, ActiveHasNext, EditsKept, Present, Waiting
<1>9. MailsKept'
  <2> SUFFICES ASSUME alone PROVE MailsKept'
    BY DEF MailsKept
  <2>1. \A r \in Runner : runs'[r] = IF r = p THEN q ELSE runs[r]
    BY <1>4 DEF Scheduled, Formed
  <2>2. /\ \A r \in Runner : runs[r] # Idle => r = p
        /\ \A i, j \in 1..Len(left) : left[i] = left[j] => i = j
        /\ \A i \in 1..Len(left) : mails[left[i]] = 0
        /\ \A s \in Waiting : mails[s] = 0
    BY <1>0, <1>1 DEF Scheduled, MailsKept, Idle
  <2>3. MailedOnce'
    BY <1>2, <1>6, <2>2 DEF Scheduled, MailsKept, MailedOnce
  <2>4. \A i \in 1..Len(left) : i > 1 => mails'[left[i]] = 0
    <3> SUFFICES ASSUME NEW i \in 1..Len(left), i > 1 PROVE mails'[left[i]] = 0
      OBVIOUS
    <3>1. 1 \in 1..Len(left) /\ left[i] # left[1]
      BY <1>2, <2>2
    <3> QED
      BY <1>2, <1>6, <2>2, <3>1
  <2>5. \A s \in Waiting : mails'[s] = 0 \/ s = left[1]
    BY <1>6, <2>2, RowsThere DEF Scheduled
  <2> QED
    BY <1>4, <1>8, <2>1, <2>2, <2>3, <2>4, <2>5 DEF MailsKept
<1> QED
  BY <1>7, <1>8, <1>9 DEF Scheduled

LEMMA RestRuns ==
  ASSUME NEW left \in Seq(Schedule), left # <<>>, NEW p
  PROVE  /\ Rest(p, Tail(left)) \in Running \cup {Idle}
         /\ Rest(p, Tail(left)) # Idle =>
               /\ Rest(p, Tail(left)).op = "send" /\ Rest(p, Tail(left)).left = Tail(left)
               /\ Tail(left) # <<>>
BY DEF Rest, Running, Idle

LEMMA Records ==
  ASSUME Scheduled, UNCHANGED alone, NEW p \in Runner, Record(p)
  PROVE  Scheduled'
<1>0. runs[p].op = "record" /\ runs[p] # Idle
  BY DEF Record, Idle
<1>1. PICK left \in Seq(Schedule) : left = runs[p].left
  BY <1>0, BusyRun DEF Scheduled
<1>2. /\ left # <<>> /\ Head(left) \in Schedule /\ Head(left) = left[1] /\ Len(left) \in Nat \ {0}
      /\ Len(Tail(left)) = Len(left) - 1
      /\ \A i \in 1..Len(Tail(left)) : Tail(left)[i] = left[i + 1]
  BY <1>0, <1>1, BusyRun DEF Scheduled
<1> DEFINE s == Head(left)
<1>3. UNCHANGED <<definition, mails, Pages, edit>>
  BY DEF Record
<1>4. CASE schedule[s] = Absent
  <2>1. runs' = [runs EXCEPT ![p] = Idle] /\ UNCHANGED <<schedule, ahead>>
    BY <1>1, <1>4 DEF Record, Runs
  <2>2. \A r \in Runner : runs'[r] = IF r = p THEN Idle ELSE runs[r]
    BY <2>1 DEF Scheduled, Formed
  <2>3. Formed'
    BY <1>3, <2>1, <2>2 DEF Scheduled, Formed, Pages
  <2>4. Defined' /\ Ordered' /\ ActiveHasNext' /\ EditsKept' /\ Waiting' = Waiting
    BY <1>3, <2>1 DEF Scheduled, Defined, Ordered, ActiveHasNext, EditsKept, Present, Waiting
  <2>5. s \notin Waiting
    BY <1>4 DEF Waiting, Present
  <2>6. MailsKept'
    <3> SUFFICES ASSUME alone PROVE MailsKept'
      BY DEF MailsKept
    <3>1. \A r \in Runner : runs'[r] = Idle
      BY <1>0, <2>2 DEF Scheduled, MailsKept
    <3>2. \A t \in Waiting : mails[t] = 0
      BY <1>0, <1>1, <1>2, <2>5 DEF Scheduled, MailsKept, Idle
    <3> QED
      BY <1>3, <2>4, <3>1, <3>2 DEF Scheduled, MailsKept, MailedOnce, Idle
  <2> QED
    BY <2>3, <2>4, <2>6 DEF Scheduled
<1>5. CASE schedule[s] # Absent
  <2> DEFINE new == [schedule[s] EXCEPT !.next = "later"]
             q == Rest(p, Tail(left))
  <2>1. /\ schedule' = [schedule EXCEPT ![s] = new] /\ ahead' = Without({s})
        /\ runs' = [runs EXCEPT ![p] = q]
    BY <1>1, <1>5 DEF Record, Runs
  <2>2. s \in Schedule /\ s \in Present(schedule) /\ schedule[s] \in ScheduleRow
    BY <1>2, <1>5, RowsThere DEF Scheduled, Formed, Present
  <2>3. /\ new \in ScheduleRow /\ new # Absent /\ new \in Rows /\ new.next = "later"
        /\ new.active = schedule[s].active /\ new.definition = schedule[s].definition
    BY <2>2, RowsDiffer DEF ScheduleRow, Rows
  <2>4. /\ q \in Running \cup {Idle}
        /\ q # Idle => q.op = "send" /\ q.left = Tail(left) /\ Tail(left) # <<>>
    BY <1>2, RestRuns
  <2> HIDE DEF new, q, s
  <2>5. /\ schedule' \in [Schedule -> Rows]
        /\ \A t \in Schedule : schedule'[t] = IF t = s THEN new ELSE schedule[t]
        /\ Present(schedule)' = (Present(schedule) \ {s}) \cup IF new = Absent THEN {} ELSE {s}
        /\ Waiting' = (Waiting \ {s}) \cup IF new # Absent /\ new.next = "due" THEN {s} ELSE {}
    BY <2>1, <2>2, <2>3, OneRow DEF Scheduled
  <2>6. Present(schedule)' = Present(schedule) /\ Waiting' = Waiting \ {s}
    BY <2>2, <2>3, <2>5
  <2>7. Formed'
    BY <1>3, <2>1, <2>4, <2>5 DEF Scheduled, Formed, Pages
  <2>8. Defined' /\ ActiveHasNext'
    BY <1>3, <2>2, <2>3, <2>5, <2>6, RowsThere DEF Scheduled, Defined, ActiveHasNext
  <2>9. Ordered'
    BY <2>1, <2>6, LeaveLine, RowsThere DEF Scheduled
  <2>10. EditsKept'
    <3>1. \A t \in Schedule : schedule'[t] # Absent =>
            schedule[t] # Absent /\ schedule'[t].active = schedule[t].active
      BY <2>2, <2>3, <2>5 DEF Present
    <3>2. \A e \in Editor : edit[e] # Idle => edit[e].schedule \in Schedule
      BY BusyEdit DEF Scheduled, Edits
    <3> QED
      BY <1>3, <3>1, <3>2 DEF Scheduled, EditsKept
  <2>11. MailsKept'
    <3> SUFFICES ASSUME alone PROVE MailsKept'
      BY DEF MailsKept
    <3>1. \A r \in Runner : runs'[r] = IF r = p THEN q ELSE runs[r]
      BY <2>1 DEF Scheduled, Formed
    <3>2. /\ \A r \in Runner : runs[r] # Idle => r = p
          /\ \A i, j \in 1..Len(left) : left[i] = left[j] => i = j
          /\ \A i \in 1..Len(left) : i > 1 => mails[left[i]] = 0
      BY <1>0, <1>1 DEF Scheduled, MailsKept
    <3>3. \A t \in Waiting \ {s} : mails[t] = 0
      BY <1>0, <1>1, <1>2, <3>2 DEF Scheduled, MailsKept, Idle, s
    <3>4. /\ \A i, j \in 1..Len(Tail(left)) : Tail(left)[i] = Tail(left)[j] => i = j
          /\ \A i \in 1..Len(Tail(left)) : mails[Tail(left)[i]] = 0
      BY <1>2, <3>2
    <3>5. MailedOnce'
      BY <1>3 DEF Scheduled, MailsKept, MailedOnce
    <3>6. \A r \in Runner : runs'[r] # Idle =>
            r = p /\ runs'[r].op = "send" /\ runs'[r].left = Tail(left)
      BY <2>4, <3>1, <3>2
    <3>7. \A t \in Waiting' : mails'[t] = 0
      BY <1>3, <2>6, <3>3
    <3> QED
      BY <1>3, <3>4, <3>5, <3>6, <3>7 DEF MailsKept
  <2> QED
    BY <2>7, <2>8, <2>9, <2>10, <2>11 DEF Scheduled
<1> QED
  BY <1>4, <1>5

LEMMA LosesRun ==
  ASSUME Scheduled, UNCHANGED alone, ~alone, NEW p \in Runner, RunLost(p)
  PROVE  Scheduled'
<1>1. runs' = [runs EXCEPT ![p] = Idle] /\ UNCHANGED <<definition, schedule, ahead, mails, Pages, edit>>
  BY DEF RunLost, Runs, Schedules
<1>2. Formed'
  BY <1>1 DEF Scheduled, Formed, Pages
<1>3. Defined' /\ Ordered' /\ ActiveHasNext' /\ EditsKept'
  BY <1>1 DEF Scheduled, Defined, Ordered, ActiveHasNext, EditsKept, Present, Waiting
<1> QED
  BY <1>2, <1>3 DEF Scheduled, MailsKept

\* Tickets and readers are no concern of the schedules.
LEMMA PagesApart ==
  ASSUME Scheduled, UNCHANGED alone, TicketsComeAndGo
  PROVE  Scheduled'
<1>1. UNCHANGED <<Schedules, edit, runs>>
  BY DEF TicketsComeAndGo, Create, Delete, ShowPage
<1>2. created' \in [Ticket -> Nat]
  <2>1. ASSUME NEW t \in Ticket, Delete(t) PROVE created' \in [Ticket -> Nat]
    BY <2>1 DEF Delete, Scheduled, Formed
  <2>2. ASSUME NEW at \in Instant, NEW t, Create(t, at) PROVE created' \in [Ticket -> Nat]
    <3>1. at \in Nat
      BY BoundsAssumption
    <3> QED
      BY <2>2, <3>1 DEF Create, Scheduled, Formed
  <2>3. ASSUME NEW asked \in 1..(Cap + 1), ShowPage(asked) PROVE created' \in [Ticket -> Nat]
    BY <2>3 DEF ShowPage, Scheduled, Formed
  <2> QED
    BY <2>1, <2>2, <2>3 DEF TicketsComeAndGo
<1>3. Formed'
  BY <1>1, <1>2 DEF Scheduled, Formed, Schedules
<1>4. Defined' /\ Ordered' /\ ActiveHasNext' /\ EditsKept' /\ Waiting' = Waiting
  BY <1>1 DEF Scheduled, Defined, Ordered, ActiveHasNext, EditsKept, Present, Waiting, Schedules
<1>5. MailsKept'
  BY <1>1, <1>4 DEF Scheduled, MailsKept, MailedOnce, Schedules
<1> QED
  BY <1>3, <1>4, <1>5 DEF Scheduled

LEMMA ScheduledBegins == ReportsInit => Scheduled
<1> SUFFICES ASSUME ReportsInit PROVE Scheduled
  OBVIOUS
<1>1. Present(schedule) = {} /\ Waiting = {}
  BY DEF ReportsInit, Present, Waiting
<1>2. Formed
  BY DEF ReportsInit, Formed, Rows
<1>3. Defined /\ Ordered /\ ActiveHasNext
  BY <1>1 DEF ReportsInit, Defined, Ordered, ActiveHasNext
<1>4. EditsKept /\ MailsKept
  BY <1>1 DEF ReportsInit, EditsKept, MailsKept, MailedOnce
<1> QED
  BY <1>2, <1>3, <1>4 DEF Scheduled

LEMMA ScheduledStep ==
  ASSUME OneEditor, Scheduled, [UpkeepNext]_upkeepVars
  PROVE  Scheduled'
<1>1. ASSUME UNCHANGED reportVars, UNCHANGED alone PROVE Scheduled'
  <2>1. Formed' /\ Waiting' = Waiting
    BY <1>1 DEF Scheduled, Formed, Waiting, Present, reportVars
  <2>2. Defined' /\ Ordered' /\ ActiveHasNext' /\ EditsKept'
    BY <1>1 DEF Scheduled, Defined, Ordered, ActiveHasNext, EditsKept, Waiting, Present, reportVars
  <2>3. MailsKept'
    BY <1>1, <2>1 DEF Scheduled, MailsKept, MailedOnce, reportVars
  <2> QED
    BY <2>1, <2>2, <2>3 DEF Scheduled
<1>2. CASE DevicesTurn \/ LinksTurn \/ DecisionsTurn \/ UNCHANGED upkeepVars
  BY <1>1, <1>2 DEF DevicesTurn, LinksTurn, DecisionsTurn, upkeepVars
<1>3. CASE ReportsTurn
  <2>0. UNCHANGED alone
    BY <1>3 DEF ReportsTurn
  <2>1. CASE ReportsBegin /\ (alone => Lone(runs))
    BY <2>0, <2>1, KeepsDefinition, DropsDefinition, NewSchedule, ReadsSchedule, DropsSchedule, FallsDue,
       BeginsRun DEF ReportsBegin
  <2>2. CASE ReportsResume
    BY <2>0, <2>2, WritesSchedule, Sends, Records DEF ReportsResume
  <2>3. CASE ~alone /\ \E p \in Runner : RunLost(p)
    BY <2>0, <2>3, LosesRun
  <2>4. CASE TicketsComeAndGo
    BY <2>0, <2>4, PagesApart
  <2> QED
    BY <1>3, <2>1, <2>2, <2>3, <2>4 DEF ReportsTurn
<1> QED
  BY <1>2, <1>3 DEF UpkeepNext

\* Of the report schedules of reports.service.ts, with one editor: an active schedule has a
\* next date however runs of the timer overlap, fail and restart; with one run at a time a
\* schedule is mailed once each time it is due.
THEOREM SchedulesAlwaysSafe ==
  ASSUME OneEditor
  PROVE  UpkeepSpec => []SchedulesSafe
<1>1. UpkeepInit => Scheduled
  BY ScheduledBegins DEF UpkeepInit
<1>2. Scheduled /\ [UpkeepNext]_upkeepVars => Scheduled'
  BY ScheduledStep
<1>3. Scheduled => SchedulesSafe
  BY TypeParts DEF Scheduled, SchedulesSafe, MailsKept
<1> QED
  BY <1>1, <1>2, <1>3, PTL DEF UpkeepSpec

(***************************************************************************)
(* Decisions of projects.                                                  *)
(***************************************************************************)

Creating == [op : {"create"}, of : Project, owner : Owner]
Editing == [op : {"edit"}, decision : Decision, status : {"keep", "open", "closed"},
            note : {"keep", "text", "blank", "null"}, owner : Owner \cup {"keep"}]

BoardTyped ==
    /\ project \in [Project -> ProjectRow \cup {Absent}]
    /\ decision \in [Decision -> DecisionRow \cup {Absent}]
    /\ active \subseteq Person /\ escalation \subseteq Person
AlertsTyped ==
    /\ day \in Nat /\ late \in BOOLEAN /\ faults \in Nat
    /\ scan \in [Scanner -> Run]

\* What an edit in progress found: its decision, which is never removed, and with one
\* request at a time the note it counts on.
Noted ==
    /\ plan \in [Manager -> Creating \cup Editing \cup {Idle}]
    /\ \A m \in Manager : plan[m] \in Editing =>
          /\ decision[plan[m].decision] # Absent
          /\ alone /\ plan[m].status = "closed" /\ plan[m].note # "null" =>
                \/ plan[m].note = "text"
                \/ plan[m].note = "keep" /\ decision[plan[m].decision].note
    /\ alone => \A m, n \in Manager : plan[m] # Idle /\ plan[n] # Idle => m = n

Boarded == BoardTyped /\ AlertsTyped /\ ResolvedWhenClosed /\ Noted

LEMMA BoardTypes == DecisionsTypeOK <=> BoardTyped /\ AlertsTyped
BY DEF DecisionsTypeOK, BoardTyped, AlertsTyped

LEMMA DecisionsDiffer == \A r \in DecisionRow : r # Absent
<1>1. \A r \in DecisionRow : DOMAIN r = {"of", "open", "owner", "overdue", "note", "resolved"}
  BY DEF DecisionRow
<1>2. DOMAIN Absent = {"gone"}
  BY DEF Absent
<1> QED
  BY <1>1, <1>2

LEMMA ProjectsDiffer == \A r \in ProjectRow : r # Absent
<1>1. \A r \in ProjectRow : DOMAIN r = {"over", "healthy", "owner"}
  BY DEF ProjectRow
<1>2. DOMAIN Absent = {"gone"}
  BY DEF Absent
<1> QED
  BY <1>1, <1>2

LEMMA PlansBusy ==
  ASSUME Noted, NEW m \in Manager
  PROVE  /\ plan[m].op = "edit" => plan[m] \in Editing
         /\ plan[m].op = "create" => plan[m] \in Creating
         /\ plan[m] # Idle => plan[m] \in Editing \cup Creating
         /\ plan[m] \in Editing => plan[m].op = "edit" /\ plan[m] # Idle
BY DEF Noted, Creating, Editing, Idle

\* A request begins, with what it has read.
LEMMA BoardAsks ==
  ASSUME Boarded, UNCHANGED alone, alone => Lone(plan), NEW m \in Manager,
         NEW q \in Creating \cup Editing, Plans(m, q), UNCHANGED <<boardVars, alertVars>>,
         q \in Editing =>
            /\ decision[q.decision] # Absent
            /\ q.status = "closed" /\ q.note # "null" =>
                  q.note = "text" \/ (q.note = "keep" /\ decision[q.decision].note)
  PROVE  Boarded'
<1>1. \A n \in Manager : plan'[n] = IF n = m THEN q ELSE plan[n]
  BY DEF Plans, Boarded, Noted
<1>2. plan' \in [Manager -> Creating \cup Editing \cup {Idle}]
  BY <1>1 DEF Plans, Boarded, Noted
<1>3. alone => \A n \in Manager : plan[n] = Idle
  BY DEF Lone, Boarded, Noted
<1>4. BoardTyped' /\ AlertsTyped' /\ ResolvedWhenClosed'
  BY DEF Boarded, BoardTyped, AlertsTyped, ResolvedWhenClosed, Present, boardVars, alertVars
<1>5. decision' = decision
  BY DEF boardVars
<1>6. Noted'
  BY <1>1, <1>2, <1>3, <1>5 DEF Boarded, Noted
<1> QED
  BY <1>4, <1>6 DEF Boarded

LEMMA Asks ==
  ASSUME Boarded, UNCHANGED alone, alone => Lone(plan), NEW m \in Manager, NEW j \in Project, NEW who \in Owner,
         AskDecision(m, j, who)
  PROVE  Boarded'
<1> DEFINE q == [op |-> "create", of |-> j, owner |-> who]
<1>1. q \in Creating /\ q \notin Editing
  BY DEF Creating, Editing
<1> QED
  BY <1>1, BoardAsks DEF AskDecision

LEMMA EditsBegin ==
  ASSUME Boarded, UNCHANGED alone, alone => Lone(plan), NEW m \in Manager, NEW d \in Decision,
         NEW status \in {"keep", "open", "closed"}, NEW note \in {"keep", "text", "blank", "null"},
         NEW who \in Owner \cup {"keep"}, EditDecision(m, d, status, note, who)
  PROVE  Boarded'
<1>1. PICK q : q = [op |-> "edit", decision |-> d, status |-> status, note |-> note, owner |-> who]
  OBVIOUS
<1>2. /\ q \in Editing /\ q.decision = d /\ q.status = status /\ q.note = note
  BY <1>1 DEF Editing
<1>3. Plans(m, q) /\ UNCHANGED <<boardVars, alertVars>>
  BY <1>1 DEF EditDecision
<1>4. /\ decision[q.decision] # Absent
      /\ q.status = "closed" /\ q.note # "null" =>
            q.note = "text" \/ (q.note = "keep" /\ decision[q.decision].note)
  BY <1>2 DEF EditDecision
<1> QED
  BY <1>2, <1>3, <1>4, BoardAsks

\* One decision is written.
LEMMA OneDecision ==
  ASSUME Boarded, NEW d \in Decision, NEW row \in DecisionRow, row.resolved = ~row.open,
         decision' = [decision EXCEPT ![d] = row]
  PROVE  /\ decision' \in [Decision -> DecisionRow \cup {Absent}] /\ ResolvedWhenClosed'
         /\ \A e \in Decision : decision'[e] = IF e = d THEN row ELSE decision[e]
         /\ \A e \in Decision : decision[e] # Absent => decision'[e] # Absent
<1>1. \A e \in Decision : decision'[e] = IF e = d THEN row ELSE decision[e]
  BY DEF Boarded, BoardTyped
<1>2. decision' \in [Decision -> DecisionRow \cup {Absent}]
  BY DEF Boarded, BoardTyped
<1>3. ResolvedWhenClosed'
  BY <1>1, <1>2 DEF Boarded, BoardTyped, ResolvedWhenClosed, Present
<1> QED
  BY <1>1, <1>2, <1>3, DecisionsDiffer

\* Edits in progress keep what they found while decisions only come, or lose no note.
LEMMA EditsKeep ==
  ASSUME Boarded, UNCHANGED alone, NEW m \in Manager, plan[m] # Idle, plan' = [plan EXCEPT ![m] = Idle],
         \A e \in Decision : decision[e] # Absent => decision'[e] # Absent
  PROVE  Noted'
<1>1. \A n \in Manager : plan'[n] = IF n = m THEN plan'[m] ELSE plan[n]
  BY DEF Boarded, Noted
<1>2. plan'[m] = Idle
  BY DEF Lone, Boarded, Noted
<1>3. plan' \in [Manager -> Creating \cup Editing \cup {Idle}]
  BY DEF Boarded, Noted
<1>4. alone => \A n \in Manager : plan'[n] = Idle
  BY <1>1, <1>2 DEF Lone, Boarded, Noted
<1>5. \A n \in Manager : plan'[n] \in Editing =>
         decision'[plan'[n].decision] # Absent /\ plan'[n] # Idle
  <2> SUFFICES ASSUME NEW n \in Manager, plan'[n] \in Editing
               PROVE  decision'[plan'[n].decision] # Absent /\ plan'[n] # Idle
    OBVIOUS
  <2>1. Idle \notin Editing
    BY DEF Idle, Editing
  <2>2. n # m /\ plan'[n] = plan[n]
    BY <1>1, <1>2, <2>1
  <2>3. plan[n].decision \in Decision /\ decision[plan[n].decision] # Absent
    BY <2>2 DEF Boarded, Noted, Editing
  <2> QED
    BY <2>1, <2>2, <2>3
<1> QED
  BY <1>3, <1>4, <1>5 DEF Noted

\* What CommitDecision writes.
LEMMA Written ==
  ASSUME Boarded, NEW m \in Manager, CommitDecision(m)
  PROVE  \E q \in Editing, row \in DecisionRow :
            /\ q = plan[m] /\ q.decision \in Decision /\ row.resolved = ~row.open
            /\ decision' = [decision EXCEPT ![q.decision] = row]
            /\ decision[q.decision].note \in BOOLEAN
            /\ row.note = IF q.note = "keep" THEN decision[q.decision].note ELSE q.note = "text"
<1>1. PICK q \in Editing : q = plan[m]
  BY PlansBusy DEF CommitDecision, Boarded
<1>2. PICK old : old = decision[q.decision]
  OBVIOUS
<1>3. q.decision \in Decision /\ old \in DecisionRow /\ old.resolved = ~old.open
  <2>1. q.decision \in Decision /\ old # Absent
    BY <1>1, <1>2 DEF Boarded, Noted, Editing
  <2> QED
    BY <1>2, <2>1 DEF Boarded, BoardTyped, ResolvedWhenClosed, Present
<1> DEFINE o == IF q.status = "keep" THEN old.open ELSE q.status = "open"
           r == IF q.status = "keep" THEN old.resolved ELSE q.status = "closed"
           n == IF q.note = "keep" THEN old.note ELSE q.note = "text"
           w == IF q.owner = "keep" THEN old.owner ELSE q.owner
<1>4. PICK row : row = [old EXCEPT !.open = o, !.resolved = r, !.note = n, !.owner = w]
  OBVIOUS
<1>5. decision' = [decision EXCEPT ![q.decision] = row]
  BY <1>1, <1>2, <1>4 DEF CommitDecision
<1>6. /\ o \in BOOLEAN /\ r \in BOOLEAN /\ n \in BOOLEAN /\ w \in Owner /\ r = ~o
      /\ old.note \in BOOLEAN
  BY <1>3 DEF DecisionRow, Editing
<1>7. n = IF q.note = "keep" THEN old.note ELSE q.note = "text"
  OBVIOUS
<1> HIDE DEF o, r, n, w
<1>8. row \in DecisionRow /\ row.open = o /\ row.resolved = r /\ row.note = n
  BY <1>3, <1>4, <1>6 DEF DecisionRow
<1> QED
  BY <1>1, <1>2, <1>3, <1>5, <1>6, <1>7, <1>8

LEMMA Commits ==
  ASSUME Boarded, UNCHANGED alone, NEW m \in Manager, CommitDecision(m)
  PROVE  Boarded'
<1>1. PICK q \in Editing, row \in DecisionRow :
            /\ q = plan[m] /\ q.decision \in Decision /\ row.resolved = ~row.open
            /\ decision' = [decision EXCEPT ![q.decision] = row]
  BY Written
<1>2. plan' = [plan EXCEPT ![m] = Idle] /\ UNCHANGED <<project, active, escalation, alertVars>>
  BY DEF CommitDecision, Plans
<1>3. /\ decision' \in [Decision -> DecisionRow \cup {Absent}] /\ ResolvedWhenClosed'
      /\ \A e \in Decision : decision[e] # Absent => decision'[e] # Absent
  BY <1>1, OneDecision
<1>4. Noted'
  <2>1. plan[m] # Idle
    BY <1>1, PlansBusy DEF Boarded
  <2> QED
    BY <1>2, <1>3, <2>1, EditsKeep
<1>5. BoardTyped' /\ AlertsTyped'
  BY <1>2, <1>3 DEF Boarded, BoardTyped, AlertsTyped, alertVars
<1> QED
  BY <1>3, <1>4, <1>5 DEF Boarded

LEMMA Inserts ==
  ASSUME Boarded, UNCHANGED alone, NEW m \in Manager, NEW d \in Decision, InsertDecision(m, d)
  PROVE  Boarded'
<1>1. PICK q \in Creating : q = plan[m]
  BY PlansBusy DEF InsertDecision, Boarded
<1> DEFINE new == Opened(q.of, q.owner)
<1>2. new \in DecisionRow /\ new.resolved = ~new.open
  BY DEF Creating, Opened, DecisionRow
<1>3. /\ decision' = [decision EXCEPT ![d] = new]
      /\ plan' = [plan EXCEPT ![m] = Idle] /\ UNCHANGED <<project, active, escalation, alertVars>>
  BY <1>1 DEF InsertDecision, Plans
<1> HIDE DEF new
<1>4. /\ decision' \in [Decision -> DecisionRow \cup {Absent}] /\ ResolvedWhenClosed'
      /\ \A e \in Decision : decision[e] # Absent => decision'[e] # Absent
  BY <1>2, <1>3, OneDecision
<1>5. Noted'
  <2>1. plan[m] # Idle
    BY DEF InsertDecision, Idle
  <2> QED
    BY <1>3, <1>4, <2>1, EditsKeep
<1>6. BoardTyped' /\ AlertsTyped'
  BY <1>3, <1>4 DEF Boarded, BoardTyped, AlertsTyped, alertVars
<1> QED
  BY <1>4, <1>5, <1>6 DEF Boarded

LEMMA ProjectsMove ==
  ASSUME Boarded, UNCHANGED alone, Lone(plan), ProjectsChange
  PROVE  Boarded'
<1>1. \A m \in Manager : plan[m] = Idle
  BY DEF Lone, Boarded, Noted
<1>2. UNCHANGED <<active, escalation, alertVars, plan>>
  BY DEF ProjectsChange, RemoveProject, UpdateProject, CreateProject, Overrun, ApplyTemplate
<1>3. Noted'
  <2>1. Idle \notin Editing
    BY DEF Idle, Editing
  <2> QED
    BY <1>1, <1>2, <2>1 DEF Boarded, Noted
<1>4. AlertsTyped'
  BY <1>2 DEF Boarded, AlertsTyped, alertVars
<1>5. Nobody \in Owner /\ active \subseteq Person
  BY DEF Owner, Boarded, BoardTyped
<1>6. ASSUME NEW j \in Project, NEW row \in ProjectRow \cup {Absent}, project' = [project EXCEPT ![j] = row]
      PROVE  project' \in [Project -> ProjectRow \cup {Absent}]
  BY <1>6 DEF Boarded, BoardTyped
<1>7. project' \in [Project -> ProjectRow \cup {Absent}]
  <2>1. ASSUME NEW j \in Project, RemoveProject(j) PROVE project' \in [Project -> ProjectRow \cup {Absent}]
    BY <2>1, <1>6 DEF RemoveProject
  <2>2. ASSUME NEW j \in Project, NEW over \in BOOLEAN, NEW healthy \in BOOLEAN, NEW who \in Owner \cup {"keep"},
               UpdateProject(j, over, healthy, who)
        PROVE  project' \in [Project -> ProjectRow \cup {Absent}]
    <3>1. project[j] \in ProjectRow
      BY <2>2 DEF UpdateProject, Boarded, BoardTyped
    <3>2. PICK row : row = [over |-> over, healthy |-> healthy,
                            owner |-> IF who = "keep" THEN project[j].owner ELSE who]
      OBVIOUS
    <3>3. row \in ProjectRow
      BY <3>1, <3>2 DEF ProjectRow
    <3> QED
      BY <2>2, <3>2, <3>3, <1>6 DEF UpdateProject
  <2>3. ASSUME NEW j \in Project, NEW over \in BOOLEAN, NEW healthy \in BOOLEAN, NEW who \in Owner \cup {"keep"},
               who \in active \cup {Nobody},
               project' = [project EXCEPT ![j] = [over |-> over, healthy |-> healthy, owner |-> who]]
        PROVE  project' \in [Project -> ProjectRow \cup {Absent}]
    <3>1. [over |-> over, healthy |-> healthy, owner |-> who] \in ProjectRow
      BY <2>3, <1>5 DEF ProjectRow, Owner
    <3> QED
      BY <2>3, <3>1, <1>6
  <2>4. CASE \E d \in Decision : Overrun(d)
    BY <2>4 DEF Overrun, Boarded, BoardTyped
  <2> QED
    BY <2>1, <2>2, <2>3, <2>4 DEF ProjectsChange, CreateProject, ApplyTemplate
<1>8. decision' \in [Decision -> DecisionRow \cup {Absent}] /\ ResolvedWhenClosed'
  <2>1. ASSUME decision' = decision PROVE decision' \in [Decision -> DecisionRow \cup {Absent}] /\ ResolvedWhenClosed'
    BY <2>1 DEF Boarded, BoardTyped, ResolvedWhenClosed, Present
  <2>2. ASSUME NEW d \in Decision, Overrun(d)
        PROVE  decision' \in [Decision -> DecisionRow \cup {Absent}] /\ ResolvedWhenClosed'
    <3>1. decision[d] \in DecisionRow /\ decision[d].resolved = ~decision[d].open
      BY <2>2 DEF Overrun, Boarded, BoardTyped, ResolvedWhenClosed, Present
    <3>2. PICK row : row = [decision[d] EXCEPT !.overdue = TRUE]
      OBVIOUS
    <3>3. row \in DecisionRow /\ row.resolved = ~row.open
      BY <3>1, <3>2 DEF DecisionRow
    <3>4. decision' = [decision EXCEPT ![d] = row]
      BY <2>2, <3>2 DEF Overrun
    <3> QED
      BY <3>3, <3>4, OneDecision
  <2>3. ASSUME NEW j \in Project, NEW over \in BOOLEAN, NEW healthy \in BOOLEAN, NEW who \in Owner,
               NEW made \in SUBSET Decision, NEW assigned \in SUBSET made,
               ApplyTemplate(j, over, healthy, who, made, assigned)
        PROVE  decision' \in [Decision -> DecisionRow \cup {Absent}] /\ ResolvedWhenClosed'
    <3>1. \A w \in Owner : Opened(j, w) \in DecisionRow /\ Opened(j, w).resolved = ~Opened(j, w).open
      BY DEF Opened, DecisionRow
    <3>2. \A d \in Decision : \/ d \notin made /\ decision'[d] = decision[d]
                            \/ \E w \in Owner : decision'[d] = Opened(j, w)
      BY <2>3, <1>5 DEF ApplyTemplate
    <3>3. decision' \in [Decision -> DecisionRow \cup {Absent}]
      BY <2>3, <1>5, <3>1 DEF ApplyTemplate, Boarded, BoardTyped
    <3> QED
      BY <3>1, <3>2, <3>3 DEF Boarded, BoardTyped, ResolvedWhenClosed, Present
  <2> QED
    BY <2>1, <2>2, <2>3 DEF ProjectsChange, RemoveProject, UpdateProject, CreateProject
<1> QED
  BY <1>2, <1>3, <1>4, <1>7, <1>8 DEF Boarded, BoardTyped

\* The runs of the alerts.
FoundRun == [op : {"found"}, found : SUBSET Found, day : Nat]
RecordRun == [op : {"record"}, part : {"alerts", "digest"}, due : SUBSET Key]
TellRun == [op : {"tell"}, part : {"alerts", "digest"}, due : SUBSET Key, key : Key]

LEMMA RunKinds ==
  ASSUME AlertsTyped, NEW p \in Scanner
  PROVE  /\ scan[p].op = "found" => scan[p] \in FoundRun
         /\ scan[p].op = "record" => scan[p] \in RecordRun
         /\ scan[p].op = "tell" => scan[p] \in TellRun
<1>1. scan[p] \in Run
  BY DEF AlertsTyped
<1>2. Run = [op : {"idle"}] \cup FoundRun \cup RecordRun \cup TellRun
  BY DEF Run, FoundRun, RecordRun, TellRun
<1>3. /\ \A q \in [op : {"idle"}] : q.op = "idle"
      /\ \A q \in FoundRun : q.op = "found"
      /\ \A q \in RecordRun : q.op = "record"
      /\ \A q \in TellRun : q.op = "tell"
  BY DEF FoundRun, RecordRun, TellRun
<1> QED
  BY <1>1, <1>2, <1>3

LEMMA ScanTyped ==
  ASSUME AlertsTyped, NEW p \in Scanner, NEW q \in FoundRun \cup RecordRun \cup TellRun \cup {Idle}, Scans(p, q)
  PROVE  scan' \in [Scanner -> Run]
<1>1. q \in Run
  BY DEF Run, FoundRun, RecordRun, TellRun, Idle
<1> QED
  BY <1>1 DEF Scans, AlertsTyped

LEMMA FoundTyped ==
  ASSUME BoardTyped, NEW d \in Watched
  PROVE  [about |-> d, reasons |-> ReasonsOf(d),
          who |-> IF decision[d].owner # Nobody THEN decision[d].owner
                  ELSE project[decision[d].of].owner] \in Found
<1>1. d \in Decision /\ decision[d] \in DecisionRow /\ project[decision[d].of] # Absent
  BY DEF Watched, Present, BoardTyped
<1>2. decision[d].of \in Project /\ decision[d].owner \in Owner
  BY <1>1 DEF DecisionRow
<1>3. project[decision[d].of] \in ProjectRow
  BY <1>1, <1>2 DEF BoardTyped
<1>4. project[decision[d].of].owner \in Owner
  BY <1>3 DEF ProjectRow
<1>5. ReasonsOf(d) \subseteq Reason
  BY DEF ReasonsOf, Reason
<1> QED
  BY <1>1, <1>2, <1>4, <1>5 DEF Found

LEMMA ScansMove ==
  ASSUME Boarded, ScansBegin \/ ScansResume
  PROVE  scan' \in [Scanner -> Run]
<1> USE DEF Boarded
<1>1. ASSUME NEW p \in Scanner, StartScan(p) PROVE scan' \in [Scanner -> Run]
  <2>1. {[about |-> d, reasons |-> ReasonsOf(d),
          who |-> IF decision[d].owner # Nobody THEN decision[d].owner
                  ELSE project[decision[d].of].owner] : d \in Watched} \in SUBSET Found
    BY FoundTyped
  <2>2. PICK f \in SUBSET Found : Scans(p, [op |-> "found", day |-> day, found |-> f])
    BY <1>1, <2>1 DEF StartScan
  <2>3. [op |-> "found", day |-> day, found |-> f] \in FoundRun
    BY DEF FoundRun, AlertsTyped
  <2> QED
    BY <2>2, <2>3, ScanTyped
<1>2. ASSUME NEW p \in Scanner, ReadRecipients(p) PROVE scan' \in [Scanner -> Run]
  <2>1. PICK q \in FoundRun : q = scan[p]
    BY <1>2, RunKinds DEF ReadRecipients
  <2> DEFINE due == {k \in [about : {f.about : f \in q.found}, reason : Reason, person : Person,
                            day : {q.day}] :
                       \E f \in q.found : /\ k.about = f.about /\ k.reason \in f.reasons
                                          /\ k.person \in Recipients \cup {f.who}}
  <2>2. q.day \in Nat /\ {f.about : f \in q.found} \subseteq Decision
    BY DEF FoundRun, Found
  <2>3. due \in SUBSET Key
    BY <2>2 DEF Key
  <2>4. Scans(p, [op |-> "record", part |-> "alerts", due |-> due])
    BY <1>2, <2>1 DEF ReadRecipients
  <2> HIDE DEF due
  <2>5. [op |-> "record", part |-> "alerts", due |-> due] \in RecordRun
    BY <2>3 DEF RecordRun
  <2> QED
    BY <2>4, <2>5, ScanTyped
<1>3. ASSUME NEW p \in Scanner, scan[p].op = "record", NEW k \in scan[p].due, Note(p, k) \/ NoteFails(p, k)
      PROVE  scan' \in [Scanner -> Run]
  <2>1. PICK q \in RecordRun : q = scan[p]
    BY <1>3, RunKinds
  <2>2. PICK r : r = [q EXCEPT !.due = @ \ {k}]
    OBVIOUS
  <2>3. PICK t : t = [op |-> "tell", part |-> q.part, due |-> q.due \ {k}, key |-> k]
    OBVIOUS
  <2>4. k \in Key /\ r \in RecordRun
    BY <1>3, <2>1, <2>2 DEF RecordRun
  <2>5. t \in TellRun
    BY <2>3, <2>4 DEF RecordRun, TellRun
  <2>6. Scans(p, r) \/ Scans(p, t)
    BY <1>3, <2>1, <2>2, <2>3 DEF Note, NoteFails
  <2> QED
    BY <2>4, <2>5, <2>6, ScanTyped
<1>4. ASSUME NEW p \in Scanner, Tell(p) PROVE scan' \in [Scanner -> Run]
  <2>1. PICK q \in TellRun : q = scan[p]
    BY <1>4, RunKinds DEF Tell
  <2>2. [op |-> "record", part |-> q.part, due |-> q.due] \in RecordRun
    BY DEF TellRun, RecordRun
  <2>3. Scans(p, [op |-> "record", part |-> q.part, due |-> q.due])
    BY <1>4, <2>1 DEF Tell
  <2> QED
    BY <2>2, <2>3, ScanTyped
<1>5. ASSUME NEW p \in Scanner, NextPart(p) PROVE scan' \in [Scanner -> Run]
  <2>1. DigestDue \in SUBSET Key
    BY DEF DigestDue, Key, Reason, Recipients, BoardTyped, AlertsTyped
  <2>2. [op |-> "record", part |-> "digest", due |-> DigestDue] \in RecordRun
    BY <2>1 DEF RecordRun
  <2> QED
    BY <1>5, <2>2, ScanTyped DEF NextPart
<1>6. ASSUME NEW p \in Scanner, ScanLost(p) PROVE scan' \in [Scanner -> Run]
  BY <1>6, ScanTyped DEF ScanLost
<1> QED
  BY <1>1, <1>2, <1>3, <1>4, <1>5, <1>6 DEF ScansBegin, ScansResume

LEMMA AlertsMove ==
  ASSUME Boarded, UNCHANGED alone, People \/ Calendar \/ ScansBegin \/ ScansResume
  PROVE  Boarded'
<1>1. UNCHANGED <<project, decision, plan>>
  BY DEF People, Calendar, ScansBegin, ScansResume, ChooseRecipients, Deactivate, DigestTime, Midnight,
         StartScan, ReadRecipients, Note, NoteFails, Tell, NextPart, ScanLost, boardVars, alertVars
<1>2. Noted' /\ ResolvedWhenClosed'
  BY <1>1 DEF Boarded, Noted, ResolvedWhenClosed, Present
<1>3. active' \subseteq Person /\ escalation' \subseteq Person
  BY DEF Boarded, BoardTyped, People, Calendar, ScansBegin, ScansResume, ChooseRecipients, Deactivate, DigestTime, Midnight,
         StartScan, ReadRecipients, Note, NoteFails, Tell, NextPart, ScanLost, boardVars, alertVars
<1>4. day' \in Nat /\ late' \in BOOLEAN /\ faults' \in Nat
  <2>0. day \in Nat /\ late \in BOOLEAN /\ faults \in Nat
    BY DEF Boarded, AlertsTyped
  <2>1. /\ late' \in {late, TRUE, FALSE} /\ (day' = day \/ day' = day + 1)
        /\ (faults' = faults \/ faults' = faults + 1)
    <3>1. CASE People \/ Calendar
      BY <3>1 DEF People, Calendar, ChooseRecipients, Deactivate, DigestTime, Midnight, alertVars
    <3>2. ASSUME NEW p \in Scanner, StartScan(p) PROVE UNCHANGED <<day, late, faults>>
      BY <3>2 DEF StartScan
    <3>3. ASSUME NEW p \in Scanner, ReadRecipients(p) \/ Tell(p) \/ NextPart(p) \/ ScanLost(p)
          PROVE  late' = late /\ day' = day /\ (faults' = faults \/ faults' = faults + 1)
      BY <3>3 DEF ReadRecipients, Tell, NextPart, ScanLost
    <3>4. ASSUME NEW p \in Scanner, NEW k, Note(p, k) \/ NoteFails(p, k)
          PROVE  late' = late /\ day' = day /\ (faults' = faults \/ faults' = faults + 1)
      BY <3>4 DEF Note, NoteFails
    <3> QED
      BY <3>1, <3>2, <3>3, <3>4 DEF ScansBegin, ScansResume
  <2>2. \A n \in Nat : n + 1 \in Nat
    OBVIOUS
  <2>3. day' \in Nat
    BY <2>0, <2>1, <2>2, ZenonT(20)
  <2>4. faults' \in Nat
    BY <2>0, <2>1, <2>2, ZenonT(20)
  <2>5. late' \in BOOLEAN
    BY <2>0, <2>1, ZenonT(20)
  <2> QED
    BY <2>3, <2>4, <2>5
<1>5. scan' \in [Scanner -> Run]
  <2>1. CASE ScansBegin \/ ScansResume
    BY <2>1, ScansMove
  <2>2. CASE People \/ Calendar
    BY <2>2 DEF Boarded, AlertsTyped, People, Calendar, ChooseRecipients, Deactivate, DigestTime, Midnight, alertVars
  <2> QED
    BY <2>1, <2>2
<1> QED
  BY <1>1, <1>2, <1>3, <1>4, <1>5 DEF Boarded, BoardTyped, AlertsTyped

LEMMA BoardedBegins ==
  ASSUME DecisionsInit \/ DecisionsOpen
  PROVE  Boarded
<1>1. plan = [m \in Manager |-> Idle] /\ scan = [p \in Scanner |-> Idle]
  BY DEF DecisionsInit, DecisionsOpen
<1>2. Idle \notin Editing /\ Idle \in Run
  BY DEF Idle, Editing, Run
<1>3. Noted
  BY <1>1, <1>2 DEF Noted
<1>4. scan \in [Scanner -> Run]
  BY <1>1, <1>2
<1>5. AlertsTyped
  <2>1. day = 1 /\ late = FALSE /\ faults = 0
    BY DEF DecisionsInit, DecisionsOpen
  <2> QED
    BY <1>4, <2>1 DEF AlertsTyped
<1>6. BoardTyped /\ ResolvedWhenClosed
  <2>1. CASE DecisionsInit
    BY <2>1 DEF DecisionsInit, BoardTyped, ResolvedWhenClosed, Present
  <2>2. CASE DecisionsOpen
    <3>1. PICK j \in Project, who \in Owner :
             /\ project = [i \in Project |->
                             IF i = j THEN [over |-> FALSE, healthy |-> who = Nobody, owner |-> who] ELSE Absent]
             /\ decision = [d \in Decision |->
                              [of |-> j, open |-> TRUE, owner |-> who, overdue |-> FALSE,
                               note |-> FALSE, resolved |-> FALSE]]
      BY <2>2 DEF DecisionsOpen
    <3>2. project \in [Project -> ProjectRow \cup {Absent}]
      BY <3>1 DEF ProjectRow
    <3>3. PICK row : row = [of |-> j, open |-> TRUE, owner |-> who, overdue |-> FALSE,
                            note |-> FALSE, resolved |-> FALSE]
      OBVIOUS
    <3>4. row \in DecisionRow /\ row.resolved = ~row.open
      BY <3>3 DEF DecisionRow
    <3>5. decision = [d \in Decision |-> row]
      BY <3>1, <3>3
    <3>6. active \subseteq Person /\ escalation \subseteq Person
      BY <2>2 DEF DecisionsOpen
    <3> QED
      BY <3>2, <3>4, <3>5, <3>6 DEF BoardTyped, ResolvedWhenClosed, Present
  <2> QED
    BY <2>1, <2>2
<1> QED
  BY <1>3, <1>5, <1>6 DEF Boarded

LEMMA BoardedStep ==
  ASSUME Boarded, [UpkeepNext]_upkeepVars
  PROVE  Boarded'
<1>1. ASSUME UNCHANGED decisionVars, UNCHANGED alone PROVE Boarded'
  BY <1>1 DEF Boarded, BoardTyped, AlertsTyped, ResolvedWhenClosed, Noted, Present,
     decisionVars, boardVars, alertVars
<1>2. CASE DevicesTurn \/ ReportsTurn \/ LinksTurn \/ UNCHANGED upkeepVars
  BY <1>1, <1>2 DEF DevicesTurn, ReportsTurn, LinksTurn, upkeepVars, projectVars
<1>3. CASE DecisionsTurn
  <2>0. UNCHANGED alone
    BY <1>3 DEF DecisionsTurn
  <2>1. CASE BoardBegin /\ (alone => Lone(plan))
    BY <2>0, <2>1, Asks, EditsBegin DEF BoardBegin
  <2>2. CASE Lone(plan) /\ ProjectsChange
    BY <2>0, <2>2, ProjectsMove
  <2>3. CASE BoardResume
    BY <2>0, <2>3, Commits, Inserts DEF BoardResume
  <2>4. CASE People \/ Calendar \/ ScansBegin \/ ScansResume
    BY <2>0, <2>4, AlertsMove
  <2> QED
    BY <1>3, <2>1, <2>2, <2>3, <2>4 DEF DecisionsTurn
<1> QED
  BY <1>2, <1>3 DEF UpkeepNext

LEMMA LinksTyped ==
  ASSUME DependenciesTypeOK, [UpkeepNext]_upkeepVars
  PROVE  DependenciesTypeOK'
<1>1. ASSUME UNCHANGED dependencyVars PROVE DependenciesTypeOK'
  BY <1>1 DEF DependenciesTypeOK, dependencyVars
<1>2. CASE ~LinksTurn
  BY <1>1, <1>2 DEF UpkeepNext, DevicesTurn, ReportsTurn, DecisionsTurn, upkeepVars, projectVars
<1>3. ASSUME NEW h \in Planner, NEW q \in Hunt \cup {Idle}, Searches(h, q), UNCHANGED <<listed, depends>>
      PROVE  DependenciesTypeOK'
  BY <1>3 DEF DependenciesTypeOK, Searches
<1>4. ASSUME NEW h \in Planner, SearchLevel(h) PROVE DependenciesTypeOK'
  <2>1. PICK q \in Hunt : q = search[h]
    BY <1>4 DEF SearchLevel, DependenciesTypeOK, Idle
  <2> DEFINE next == Prerequisites(q.frontier)
             visited == q.visited \cup q.frontier
             step == IF next \subseteq visited THEN "insert" ELSE q.op
  <2>2. PICK r : r = [q EXCEPT !.op = step, !.visited = visited, !.frontier = next \ visited]
    OBVIOUS
  <2>3. Searches(h, Idle) \/ Searches(h, r)
    BY <1>4, <2>1, <2>2 DEF SearchLevel
  <2>4. step \in {"search", "insert"} /\ visited \subseteq Endeavour /\ next \subseteq Endeavour
    BY DEF Hunt, Prerequisites
  <2> HIDE DEF next, visited, step
  <2>5. r \in Hunt
    BY <2>2, <2>4 DEF Hunt
  <2> QED
    BY <1>3, <1>4, <2>3, <2>5 DEF SearchLevel
<1>5. ASSUME NEW h \in Planner, NEW j \in Endeavour, NEW k \in Endeavour, AddDependency(h, j, k)
      PROVE  DependenciesTypeOK'
  <2>1. [op |-> "search", of |-> j, on |-> k, visited |-> {}, frontier |-> {k}] \in Hunt
    BY DEF Hunt
  <2> QED
    BY <1>3, <1>5, <2>1 DEF AddDependency
<1>6. ASSUME NEW h \in Planner, InsertDependency(h) PROVE DependenciesTypeOK'
  <2>1. search[h] \in Hunt
    BY <1>6 DEF InsertDependency, DependenciesTypeOK, Idle
  <2>2. search[h].of \in Endeavour /\ search[h].on \in Endeavour
    BY <2>1 DEF Hunt
  <2>3. depends' \subseteq Endeavour \X Endeavour
    BY <1>6, <2>2 DEF InsertDependency, DependenciesTypeOK
  <2> QED
    BY <1>6, <2>3 DEF InsertDependency, DependenciesTypeOK, Searches
<1>7. CASE \/ \E j, k \in Endeavour : RemoveDependency(j, k)
           \/ \E j \in Endeavour : Unlist(j)
  BY <1>7 DEF RemoveDependency, Unlist, DependenciesTypeOK
<1> QED
  BY <1>2, <1>4, <1>5, <1>6, <1>7 DEF LinksTurn, DependenciesNext

\* What closes a decision, with one request at a time, has a note for it.
LEMMA ClosedWithNote ==
  ASSUME Boarded, [UpkeepNext]_upkeepVars, alone
  PROVE  ClosesNoted
<1> SUFFICES ASSUME NEW m \in Manager, plan[m].op = "edit", plan[m].status = "closed",
                    plan[m].note # "null", plan'[m] = Idle
             PROVE  decision'[plan[m].decision].note
  BY DEF ClosesNoted
<1>1. plan[m] \in Editing /\ plan[m] # Idle /\ plan \in [Manager -> Creating \cup Editing \cup {Idle}]
  BY PlansBusy DEF Boarded, Noted
<1>2. plan'[m] # plan[m]
  BY <1>1
<1>3. CommitDecision(m)
  <2>1. DecisionsTurn
    BY <1>2 DEF UpkeepNext, DevicesTurn, ReportsTurn, LinksTurn, upkeepVars, projectVars, decisionVars
  <2>2. ASSUME NEW n \in Manager, n # m, NEW q, Plans(n, q) PROVE FALSE
    BY <1>1, <1>2, <2>2 DEF Plans
  <2>3. BoardBegin \/ BoardResume
    <3>1. ~(ProjectsChange \/ People \/ Calendar)
      BY <1>2 DEF ProjectsChange, RemoveProject, UpdateProject, CreateProject, ApplyTemplate, Overrun,
         People, ChooseRecipients, Deactivate, Calendar, DigestTime, Midnight
    <3>2. ~ScansBegin
      BY <1>2 DEF ScansBegin, StartScan
    <3>3. ~ScansResume
      BY <1>2 DEF ScansResume, ReadRecipients, Note, NoteFails, Tell, NextPart, ScanLost
    <3> QED
      BY <2>1, <3>1, <3>2, <3>3 DEF DecisionsTurn
  <2>4. ~BoardBegin
    BY <1>1, <2>2 DEF BoardBegin, AskDecision, EditDecision
  <2>5. ASSUME NEW d \in Decision, InsertDecision(m, d) PROVE FALSE
    BY <2>5 DEF InsertDecision
  <2> QED
    BY <2>2, <2>3, <2>4, <2>5 DEF BoardResume, CommitDecision, InsertDecision
<1>4. PICK q \in Editing, row \in DecisionRow :
          /\ q = plan[m] /\ q.decision \in Decision
          /\ decision' = [decision EXCEPT ![q.decision] = row]
          /\ row.note = IF q.note = "keep" THEN decision[q.decision].note ELSE q.note = "text"
  BY <1>3, Written
<1>5. row.note
  <2>1. \/ q.note = "text"
        \/ q.note = "keep" /\ decision[q.decision].note
    BY <1>1, <1>4 DEF Boarded, Noted
  <2> QED
    BY <1>4, <2>1
<1>6. decision'[q.decision] = row
  BY <1>4 DEF Boarded, BoardTyped
<1> QED
  BY <1>4, <1>5, <1>6

\* Of the decisions of projects.service.ts: however requests overlap, one has the time it
\* was resolved exactly while it is closed; with one request at a time, one that does not
\* send the note as null closes a decision only with a note.
THEOREM BoardAlwaysSafe == UpkeepSpec => BoardSafe
<1> DEFINE Held == Boarded /\ DependenciesTypeOK
           Typed == DecisionsTypeOK /\ DependenciesTypeOK /\ ResolvedWhenClosed
<1>1. UpkeepInit => Held
  BY BoardedBegins DEF UpkeepInit, DependenciesInit, DependenciesTypeOK
<1>2. Held /\ [UpkeepNext]_upkeepVars => Held'
  BY BoardedStep, LinksTyped
<1>3. Held => Typed
  BY BoardTypes DEF Boarded
<1>4. Held /\ [UpkeepNext]_upkeepVars => [alone => ClosesNoted]_upkeepVars
  BY ClosedWithNote
<1> QED
  BY <1>1, <1>2, <1>3, <1>4, PTL DEF UpkeepSpec, BoardSafe

(***************************************************************************)
(* Devices.                                                                *)
(***************************************************************************)

Taking == [op : {"match"}, auto : BOOLEAN, left : SUBSET Agent]
Storing == [op : {"write", "profile"}, auto : BOOLEAN, left : SUBSET Agent, agent : Agent,
            device : Device, known : BOOLEAN, detail : {"none", "poor", "rich"}]
Refreshing == [op : {"refresh"}, device : Device, agent : Agent]
Passing == [op : {"fetch", "end"}, auto : BOOLEAN]

\* A machine has one agent, with an id of its own.
Enrolled ==
    /\ agent \in [Machine -> Agent] /\ settled \subseteq Machine
    /\ \A m \in Machine : agent[m].machine = m
    /\ \A m, n \in Machine : agent[m].id = agent[n].id => m = n

\* A machine has one device, with an id of its own, by which or by whose client its agent
\* is known again.
Registered ==
    /\ device \in [Device -> DeviceRow \cup {Absent}]
    /\ OneDevicePerAgent
    /\ \A d, e \in Present(device) : device[d].machine = device[e].machine => d = e
    /\ \A d \in Present(device), m \in Machine :
          /\ device[d].id = agent[m].id => device[d].machine = m
          /\ device[d].machine = m =>
                \/ device[d].id = agent[m].id
                \/ device[d].client = agent[m].client
          /\ device[d].machine = m /\ m \in settled =>
                device[d].id = agent[m].id /\ device[d].client = agent[m].client

\* The agent is as the provider has it.
Current(a) == agent[a.machine].id = a.id /\ agent[a.machine].client = a.client

\* A sync holds agents as they are now, and the device it is about to write.
Fits(r, q) ==
    /\ q \in Taking \cup Storing => \A a \in q.left : Current(a)
    /\ q.op = "refresh" =>
          /\ r \in Operator /\ device[q.device] # Absent
          /\ device[q.device].id = q.agent.id /\ device[q.device].machine = q.agent.machine
    /\ q.op = "write" =>
          /\ Current(q.agent)
          /\ q.known => /\ device[q.device] # Absent
                        /\ device[q.device].machine = q.agent.machine
                        /\ device[q.device].detail = q.detail
          /\ ~q.known => \A d \in Present(device) : device[d].machine # q.agent.machine
    /\ q.op = "profile" =>
          /\ Current(q.agent)
          /\ device[q.device] # Absent
          /\ device[q.device].machine = q.agent.machine
          /\ device[q.device].id = q.agent.id /\ device[q.device].client = q.agent.client
          /\ device[q.device].detail = "rich" => q.detail = "rich"

Request == Passing \cup Taking \cup Storing \cup Refreshing \cup {Idle}

\* One sync runs at a time.
Syncing ==
    /\ sync \in [Slots -> Request]
    /\ \A r, s \in Slots : sync[r] # Idle /\ sync[s] # Idle => r = s
    /\ sync["auto"] # Idle => running
    /\ \A r \in Slots : Fits(r, sync[r])

Managed ==
    /\ Enrolled /\ Registered /\ Syncing
    /\ customers \subseteq Customer /\ favorite \subseteq Device /\ setting \in Setting

LEMMA DeviceRowsDiffer == \A r \in DeviceRow : r # Absent
<1>1. \A r \in DeviceRow : DOMAIN r = {"machine", "id", "client", "detail"}
  BY DEF DeviceRow
<1>2. DOMAIN Absent = {"gone"}
  BY DEF Absent
<1> QED
  BY <1>1, <1>2

LEMMA Kinds ==
  ASSUME NEW q \in Request
  PROVE  /\ q.op \in {"fetch", "end"} => q \in Passing
         /\ q.op = "match" => q \in Taking
         /\ q.op \in {"write", "profile"} => q \in Storing
         /\ q.op = "refresh" => q \in Refreshing
         /\ q = Idle => q.op = "idle"
BY DEF Request, Passing, Taking, Storing, Refreshing, Idle

LEMMA IdleFits == \A r \in Slots : Fits(r, Idle) /\ Fits(r, Idle)'
<1>1. Idle \notin Taking \cup Storing /\ Idle.op = "idle"
  BY DEF Idle, Taking, Storing
<1> QED
  BY <1>1 DEF Fits

\* The one sync there is goes on.
LEMMA SyncMoves ==
  ASSUME Syncing, NEW r \in Slots, NEW q \in Request, Syncs(r, q), Lone(sync) \/ sync[r] # Idle,
         r = "auto" /\ q # Idle => running', Fits(r, q)'
  PROVE  Syncing'
<1>1. \A s \in Slots : s # r => sync[s] = Idle
  BY DEF Syncing, Lone
<1>2. \A s \in Slots : sync'[s] = IF s = r THEN q ELSE Idle
  BY <1>1 DEF Syncing, Syncs
<1>3. sync' \in [Slots -> Request]
  BY DEF Syncing, Syncs
<1>4. \A s \in Slots : Fits(s, sync[s])'
  BY <1>2, IdleFits
<1>5. "auto" \in Slots
  BY DEF Slots
<1> QED
  BY <1>2, <1>3, <1>4, <1>5 DEF Syncing

\* What writes neither an agent nor a device, and goes on with a sync.
LEMMA SyncOnly ==
  ASSUME Managed, NEW r \in Slots, NEW q \in Request, Syncs(r, q), Lone(sync) \/ sync[r] # Idle,
         r = "auto" /\ q # Idle => running', Fits(r, q), UNCHANGED <<agent, settled, device>>,
         customers' \subseteq Customer, favorite' \subseteq Device, setting' \in Setting
  PROVE  Managed'
<1>1. Enrolled' /\ Registered'
  BY DEF Managed, Enrolled, Registered, OneDevicePerAgent, Present
<1>2. Fits(r, q)'
  BY DEF Fits, Current, Present
<1>3. Syncing'
  BY <1>2, SyncMoves DEF Managed
<1> QED
  BY <1>1, <1>3 DEF Managed

LEMMA SyncsBegin ==
  ASSUME Managed, Lone(sync), DevicesBegin
  PROVE  Managed'
<1>1. ASSUME NEW r \in Operator, SyncByHand(r) PROVE Managed'
  <2> DEFINE q == [op |-> "fetch", auto |-> setting.auto]
  <2>1. q \in Request /\ q.op = "fetch" /\ q \notin Taking \cup Storing
    BY DEF Request, Passing, Taking, Storing, Managed, Setting
  <2>2. r \in Slots /\ r # "auto"
    BY OperatorAssumption DEF Slots
  <2>3. Fits(r, q)
    BY <2>1 DEF Fits
  <2>4. Syncs(r, q) /\ UNCHANGED <<agent, settled, device, customers, favorite, setting>>
    BY <1>1 DEF SyncByHand
  <2> HIDE DEF q
  <2> QED
    BY <2>1, <2>2, <2>3, <2>4, SyncOnly DEF Managed
<1>2. ASSUME NEW r \in Operator, NEW d \in Device, Refresh(r, d) PROVE Managed'
  <2>1. PICK m \in Machine : agent[m].id = device[d].id
                             /\ Syncs(r, [op |-> "refresh", device |-> d, agent |-> agent[m]])
    BY <1>2 DEF Refresh
  <2>2. PICK q : q = [op |-> "refresh", device |-> d, agent |-> agent[m]]
    OBVIOUS
  <2>3. q.op = "refresh" /\ q.device = d /\ q.agent = agent[m] /\ q \in Refreshing
    BY <2>2 DEF Refreshing, Managed, Enrolled
  <2>4. q \in Request /\ q \notin Taking \cup Storing
    BY <2>3 DEF Request, Taking, Storing
  <2>5. r \in Slots /\ r # "auto"
    BY OperatorAssumption DEF Slots
  <2>6. d \in Present(device) /\ device[d].machine = m /\ agent[m].machine = m
    BY <1>2, <2>1 DEF Refresh, Managed, Registered, Enrolled, Present
  <2>7. Fits(r, q)
    BY <2>1, <2>3, <2>4, <2>6 DEF Fits, Present
  <2>8. UNCHANGED <<agent, settled, device, customers, favorite, setting>>
    BY <1>2 DEF Refresh
  <2> QED
    BY <2>1, <2>2, <2>4, <2>5, <2>7, <2>8, SyncOnly DEF Managed
<1>3. ASSUME UNCHANGED <<agent, settled, device, sync, running, customers>>,
             favorite' \subseteq Device, setting' \in Setting
      PROVE  Managed'
  <2>1. Enrolled' /\ Registered'
    BY <1>3 DEF Managed, Enrolled, Registered, OneDevicePerAgent, Present
  <2>2. Syncing'
    BY <1>3 DEF Managed, Syncing, Fits, Current, Present
  <2> QED
    BY <1>3, <2>1, <2>2 DEF Managed
<1>4. CASE Scan
  <2>1. CASE Deferring /\ Defer /\ UNCHANGED <<running, sync>>
    <3>1. setting' \in Setting
      BY <2>1 DEF Defer, Managed, Setting
    <3> QED
      BY <1>3, <1>4, <2>1, <3>1 DEF Scan, Managed
  <2>2. CASE setting' = [setting EXCEPT !.lock = "held"] /\ running'
             /\ Syncs("auto", [op |-> "fetch", auto |-> setting.auto])
    <3> DEFINE q == [op |-> "fetch", auto |-> setting.auto]
    <3>1. q \in Request /\ q.op = "fetch" /\ q \notin Taking \cup Storing
      BY DEF Request, Passing, Taking, Storing, Managed, Setting
    <3>2. Fits("auto", q)
      BY <3>1 DEF Fits
    <3>3. setting' \in Setting
      BY <2>2 DEF Managed, Setting
    <3>4. UNCHANGED <<agent, settled, device, customers, favorite>> /\ "auto" \in Slots
      BY <1>4 DEF Scan, Slots
    <3>5. Syncs("auto", q)
      BY <2>2
    <3> HIDE DEF q
    <3> QED
      BY <2>2, <3>1, <3>2, <3>3, <3>4, <3>5, SyncOnly DEF Managed
  <2> QED
    BY <1>4, <2>1, <2>2 DEF Scan
<1>5. ASSUME NEW enabled \in BOOLEAN, NEW auto \in BOOLEAN, UpdateSettings(enabled, auto) PROVE Managed'
  <2>1. setting' \in Setting
    BY <1>5 DEF UpdateSettings, Managed, Setting
  <2> QED
    BY <1>3, <1>5, <2>1 DEF UpdateSettings, Managed
<1>6. ASSUME NEW d \in Device, NEW on \in BOOLEAN, SetFavorite(d, on) PROVE Managed'
  <2>1. favorite' \subseteq Device
    BY <1>6 DEF SetFavorite, Managed
  <2> QED
    BY <1>3, <1>6, <2>1 DEF SetFavorite, Managed
<1> QED
  BY <1>1, <1>2, <1>4, <1>5, <1>6 DEF DevicesBegin

LEMMA WorldMoves ==
  ASSUME Managed, Lone(sync), DevicesWorld \/ Crash
  PROVE  Managed'
<1>1. \A s \in Slots : sync[s] = Idle
  BY DEF Lone, Managed, Syncing
<1>2. CASE Crash
  <2>1. Enrolled' /\ Registered'
    BY <1>2 DEF Crash, Managed, Enrolled, Registered, OneDevicePerAgent, Present
  <2>2. sync' = [r \in Slots |-> Idle] /\ Idle \in Request /\ "auto" \in Slots
    BY <1>2 DEF Crash, Request, Slots
  <2>3. Syncing'
    BY <2>2, IdleFits DEF Syncing
  <2> QED
    BY <1>2, <2>1, <2>3 DEF Crash, Managed
<1>3. CASE Clock \/ Mail
  <2>1. Enrolled' /\ Registered'
    BY <1>3 DEF Clock, Mail, Managed, Enrolled, Registered, OneDevicePerAgent, Present
  <2>2. Syncing'
    BY <1>3 DEF Clock, Mail, Managed, Syncing, Fits, Current, Present
  <2>3. setting' \in Setting
    BY <1>3 DEF Clock, Mail, Managed, Setting
  <2> QED
    BY <1>3, <2>1, <2>2, <2>3 DEF Clock, Mail, Managed
<1>4. ASSUME NEW m \in Machine, NEW id \in Id, NEW c \in Customer, NEW rich \in BOOLEAN, Change(m, id, c, rich)
      PROVE  Managed'
  <2>1. PICK a : a = [machine |-> m, id |-> id, client |-> c, rich |-> rich]
    OBVIOUS
  <2>2. a \in Agent /\ a.machine = m /\ a.id = id /\ a.client = c
    BY <2>1 DEF Agent
  <2>3. /\ agent' = [agent EXCEPT ![m] = a] /\ settled' = settled \ {m} /\ m \in settled
        /\ id = agent[m].id \/ c = agent[m].client
        /\ id # agent[m].id => /\ \A n \in Machine : agent[n].id # id
                              /\ \A d \in Present(device) : device[d].id # id
        /\ UNCHANGED <<device, customers, favorite, setting, running, sync>>
    BY <1>4, <2>1 DEF Change
  <2>4. \A n \in Machine : agent'[n] = IF n = m THEN a ELSE agent[n]
    BY <2>3 DEF Managed, Enrolled
  <2>5. Enrolled'
    <3>1. agent' \in [Machine -> Agent] /\ settled' \subseteq Machine
      BY <2>2, <2>3 DEF Managed, Enrolled
    <3>2. \A n \in Machine : agent'[n].machine = n
      BY <2>2, <2>4 DEF Managed, Enrolled
    <3>3. \A n, k \in Machine : agent'[n].id = agent'[k].id => n = k
      BY <2>2, <2>3, <2>4 DEF Managed, Enrolled
    <3> QED
      BY <3>1, <3>2, <3>3 DEF Enrolled
  <2>6. Registered'
    <3>1. \A d \in Present(device), n \in Machine :
          /\ device[d].id = agent'[n].id => device[d].machine = n
          /\ device[d].machine = n =>
                \/ device[d].id = agent'[n].id
                \/ device[d].client = agent'[n].client
          /\ device[d].machine = n /\ n \in settled' =>
                device[d].id = agent'[n].id /\ device[d].client = agent'[n].client
      <4> SUFFICES ASSUME NEW d \in Present(device), NEW n \in Machine
                   PROVE  /\ device[d].id = agent'[n].id => device[d].machine = n
                          /\ device[d].machine = n =>
                                \/ device[d].id = agent'[n].id
                                \/ device[d].client = agent'[n].client
                          /\ device[d].machine = n /\ n \in settled' =>
                                device[d].id = agent'[n].id /\ device[d].client = agent'[n].client
        OBVIOUS
      <4>1. CASE n # m
        BY <2>3, <2>4, <4>1 DEF Managed, Registered
      <4>2. CASE n = m
        BY <2>2, <2>3, <2>4, <4>2 DEF Managed, Registered
      <4> QED
        BY <4>1, <4>2
    <3>2. device' = device
      BY <2>3
    <3> QED
      BY <3>1, <3>2 DEF Managed, Registered, OneDevicePerAgent, Present
  <2>7. Syncing'
    BY <1>1, <2>3, IdleFits DEF Managed, Syncing
  <2> QED
    BY <2>3, <2>5, <2>6, <2>7 DEF Managed
<1> QED
  BY <1>2, <1>3, <1>4 DEF DevicesWorld

\* A record of the provider, with or without its details, is as the provider has it.
LEMMA Fetched ==
  ASSUME Managed, NEW r \in Slots, NEW m \in Machine,
         NEW a, a = [agent[m] EXCEPT !.rich = @ /\ r # "auto"]
  PROVE  a \in Agent /\ Current(a)
<1>1. PICK g \in Agent : g = agent[m] /\ g.machine = m
  BY DEF Managed, Enrolled
<1>2. PICK rich \in BOOLEAN : a = [g EXCEPT !.rich = rich]
  BY <1>1 DEF Agent
<1>3. a \in Agent /\ a.machine = g.machine /\ a.id = g.id /\ a.client = g.client
  BY <1>1, <1>2 DEF Agent
<1> QED
  BY <1>1, <1>3 DEF Current

LEMMA Fetches ==
  ASSUME Managed, NEW r \in Slots, Fetch(r)
  PROVE  Managed'
<1>1. sync[r] \in Passing /\ sync[r] # Idle /\ sync[r].auto \in BOOLEAN
  <2>1. sync[r] \in Passing /\ sync[r].op = "fetch"
    BY Kinds DEF Fetch, Managed, Syncing
  <2> QED
    BY <2>1 DEF Passing, Idle
<1> DEFINE all == {[agent[m] EXCEPT !.rich = @ /\ r # "auto"] : m \in Machine}
           q == [op |-> "match", auto |-> sync[r].auto, left |-> all]
           e == [op |-> "end", auto |-> sync[r].auto]
<1>2. all \in SUBSET Agent /\ \A a \in all : Current(a)
  BY Fetched
<1> HIDE DEF all
<1>3. q \in Request /\ q.op = "match" /\ q.left = all
  BY <1>1, <1>2 DEF Request, Taking
<1>4. e \in Request /\ e.op = "end" /\ e \notin Taking \cup Storing
  BY <1>1 DEF Request, Passing, Taking, Storing
<1>5. Syncs(r, q) \/ Syncs(r, e)
  BY DEF Fetch, all
<1> HIDE DEF q, e
<1>6. Fits(r, q) /\ Fits(r, e)
  BY <1>2, <1>3, <1>4 DEF Fits
<1>7. UNCHANGED <<agent, settled, device, customers, favorite, setting, running>>
  BY DEF Fetch
<1>8. r = "auto" => running'
  BY <1>1, <1>7 DEF Managed, Syncing
<1> QED
  BY <1>1, <1>3, <1>4, <1>5, <1>6, <1>7, <1>8, SyncOnly DEF Managed

\* The device an agent is known by is the one of its machine.
LEMMA KnownOnce ==
  ASSUME Managed, NEW a \in Agent, Current(a)
  PROVE  Known(a) = {d \in Present(device) : device[d].machine = a.machine}
<1>1. a.machine \in Machine
  BY DEF Agent
<1>2. \A d \in Present(device) : device[d].id = agent[a.machine].id => device[d].machine = a.machine
  BY <1>1 DEF Managed, Registered
<1>3. \A d \in Present(device) : device[d].machine = a.machine =>
         device[d].id = agent[a.machine].id \/ device[d].client = agent[a.machine].client
  BY <1>1 DEF Managed, Registered
<1> QED
  BY <1>2, <1>3 DEF Known, Current

LEMMA Matches ==
  ASSUME Managed, NEW r \in Slots, Match(r)
  PROVE  Managed'
<1>1. PICK s \in Taking : s = sync[r]
  BY Kinds DEF Match, Managed, Syncing
<1>2. s.left \in SUBSET Agent /\ s.auto \in BOOLEAN /\ s # Idle /\ \A a \in s.left : Current(a)
  BY <1>1 DEF Taking, Idle, Managed, Syncing, Fits
<1>3. PICK a \in s.left : \E d \in IF Known(a) # {} THEN Known(a) ELSE Device \ Present(device) :
             /\ Syncs(r, [op |-> "write", auto |-> sync[r].auto, left |-> sync[r].left \ {a}, agent |-> a,
                          device |-> d, known |-> Known(a) # {},
                          detail |-> IF Known(a) # {} THEN device[d].detail ELSE "none"])
             /\ FindOrCreateClient(a.client)
  BY <1>1 DEF Match
<1>4. PICK d \in IF Known(a) # {} THEN Known(a) ELSE Device \ Present(device) :
             /\ Syncs(r, [op |-> "write", auto |-> sync[r].auto, left |-> sync[r].left \ {a}, agent |-> a,
                          device |-> d, known |-> Known(a) # {},
                          detail |-> IF Known(a) # {} THEN device[d].detail ELSE "none"])
             /\ FindOrCreateClient(a.client)
  BY <1>3
<1>5. a \in Agent /\ Current(a) /\ a.client \in Customer
  BY <1>2 DEF Agent
<1>6. Known(a) = {e \in Present(device) : device[e].machine = a.machine}
  BY <1>5, KnownOnce
<1>7. PICK known \in BOOLEAN : known = (Known(a) # {})
  OBVIOUS
<1>8. PICK detail : detail = IF known THEN device[d].detail ELSE "none"
  OBVIOUS
<1>9. d \in Device /\ (known => d \in Present(device) /\ device[d].machine = a.machine)
  BY <1>4, <1>6, <1>7 DEF Present, Managed, Registered
<1>10. detail \in {"none", "poor", "rich"}
  BY <1>8, <1>9 DEF Present, Managed, Registered, DeviceRow
<1>11. PICK q : q = [op |-> "write", auto |-> s.auto, left |-> s.left \ {a}, agent |-> a,
                     device |-> d, known |-> known, detail |-> detail]
  OBVIOUS
<1>12. /\ q \in Storing /\ q.op = "write" /\ q.left = s.left \ {a} /\ q.agent = a /\ q.device = d
       /\ q.known = known /\ q.detail = detail
  BY <1>2, <1>5, <1>9, <1>10, <1>11 DEF Storing
<1>13. Syncs(r, q)
  BY <1>1, <1>4, <1>7, <1>8, <1>11
<1>14. Fits(r, q)
  BY <1>2, <1>5, <1>6, <1>7, <1>8, <1>9, <1>12 DEF Fits, Present
<1>15. /\ UNCHANGED <<agent, settled, device, favorite, setting, running>>
       /\ customers' \subseteq Customer
  BY <1>4, <1>5 DEF Match, FindOrCreateClient, Managed
<1>16. q \in Request /\ (r = "auto" => running')
  BY <1>1, <1>2, <1>12, <1>15 DEF Request, Managed, Syncing
<1> QED
  BY <1>1, <1>2, <1>13, <1>14, <1>15, <1>16, SyncOnly DEF Managed

LEMMA EndsSync ==
  ASSUME Managed, NEW r \in Slots, EndSync(r)
  PROVE  Managed'
<1>1. sync[r] \in Passing /\ sync[r] # Idle
  <2>1. sync[r] \in Passing /\ sync[r].op = "end"
    BY Kinds DEF EndSync, Managed, Syncing
  <2> QED
    BY <2>1 DEF Passing, Idle
<1>2. sync[r].auto \in BOOLEAN
  BY <1>1 DEF Passing
<1>3. setting' \in Setting
  BY <1>2 DEF EndSync, Managed, Setting
<1>4. Syncs(r, Idle) /\ Idle \in Request /\ Fits(r, Idle)
  BY IdleFits DEF EndSync, Request
<1> QED
  BY <1>1, <1>3, <1>4, SyncOnly DEF EndSync, Managed

\* A device is written as the provider has its agent, the only one of its machine.
LEMMA DeviceWritten ==
  ASSUME Managed, NEW d \in Device, NEW row \in DeviceRow, device' = [device EXCEPT ![d] = row],
         Current(row), \A e \in Present(device) : e # d => device[e].machine # row.machine,
         agent' = agent, settled \subseteq settled', settled' \subseteq settled \cup {row.machine}
  PROVE  Enrolled' /\ Registered'
<1>1. \A e \in Device : device'[e] = IF e = d THEN row ELSE device[e]
  BY DEF Managed, Registered
<1>2. row.machine \in Machine
  BY DEF DeviceRow
<1>3. Enrolled'
  BY <1>2 DEF Managed, Enrolled
<1>4. device' \in [Device -> DeviceRow \cup {Absent}]
  BY DEF Managed, Registered
<1>5. \A e \in Present(device)' : e = d \/ (e \in Present(device) /\ device'[e] = device[e] /\ e # d)
  BY <1>1, <1>4 DEF Present, Managed, Registered
<1>6. \A e \in Present(device) : e # d => device[e].id # row.id
  BY <1>2 DEF Current, Managed, Registered
<1>7. device'[d] = row
  BY <1>1
<1>8. OneDevicePerAgent'
  <2> SUFFICES ASSUME NEW e \in Present(device)', NEW f \in Present(device)', device'[e].id = device'[f].id
               PROVE  e = f
    BY DEF OneDevicePerAgent
  <2>1. CASE e # d /\ f # d
    <3>1. e \in Present(device) /\ f \in Present(device) /\ device[e].id = device[f].id
      BY <1>5, <2>1
    <3> QED
      BY <3>1 DEF Managed, Registered, OneDevicePerAgent
  <2>2. CASE e = d /\ f # d
    BY <1>5, <1>6, <1>7, <2>2
  <2>3. CASE e # d /\ f = d
    BY <1>5, <1>6, <1>7, <2>3
  <2> QED
    BY <2>1, <2>2, <2>3
<1>9. \A e, f \in Present(device)' : device'[e].machine = device'[f].machine => e = f
  <2> SUFFICES ASSUME NEW e \in Present(device)', NEW f \in Present(device)',
                      device'[e].machine = device'[f].machine
               PROVE  e = f
    OBVIOUS
  <2>1. CASE e # d /\ f # d
    <3>1. e \in Present(device) /\ f \in Present(device) /\ device[e].machine = device[f].machine
      BY <1>5, <2>1
    <3> QED
      BY <3>1 DEF Managed, Registered
  <2>2. CASE e = d /\ f # d
    BY <1>5, <1>7, <2>2
  <2>3. CASE e # d /\ f = d
    BY <1>5, <1>7, <2>3
  <2> QED
    BY <2>1, <2>2, <2>3
<1>10. ASSUME NEW e \in Present(device)', NEW m \in Machine
       PROVE  /\ device'[e].id = agent'[m].id => device'[e].machine = m
              /\ device'[e].machine = m =>
                    \/ device'[e].id = agent'[m].id
                    \/ device'[e].client = agent'[m].client
              /\ device'[e].machine = m /\ m \in settled' =>
                    device'[e].id = agent'[m].id /\ device'[e].client = agent'[m].client
  <2>1. CASE e = d
    BY <1>2, <1>7, <2>1 DEF Current, Managed, Enrolled
  <2>2. CASE e # d
    <3>1. e \in Present(device) /\ device'[e] = device[e] /\ device[e].machine # row.machine
      BY <1>5, <2>2
    <3>2. m \in settled' /\ m # row.machine => m \in settled
      OBVIOUS
    <3> QED
      BY <3>1, <3>2 DEF Managed, Registered
  <2> QED
    BY <2>1, <2>2
<1> QED
  BY <1>3, <1>4, <1>8, <1>9, <1>10 DEF Registered

LEMMA WritesDevice ==
  ASSUME Managed, NEW r \in Slots, WriteDevice(r)
  PROVE  Managed'
<1>1. PICK q \in Storing : q = sync[r] /\ q.op = "write"
  BY Kinds DEF WriteDevice, Managed, Syncing
<1>2. /\ q.agent \in Agent /\ q.known \in BOOLEAN /\ q.device \in Device /\ q # Idle
      /\ Fits(r, q) /\ Current(q.agent)
  BY <1>1 DEF Storing, Idle, Managed, Syncing, Fits
<1>3. PICK d \in IF q.known THEN {q.device} ELSE Device \ Present(device) :
          /\ device' = [device EXCEPT ![d] =
                          [machine |-> q.agent.machine, id |-> q.agent.id, client |-> q.agent.client,
                           detail |-> IF q.known THEN device[d].detail ELSE "none"]]
          /\ Syncs(r, [q EXCEPT !.op = "profile", !.device = d])
  BY <1>1 DEF WriteDevice
<1>4. d \in Device /\ (q.known => d = q.device /\ d \in Present(device) /\ device[d].machine = q.agent.machine)
  BY <1>1, <1>2, <1>3 DEF Fits, Present, Managed, Registered
<1>5. PICK detail : detail = IF q.known THEN device[d].detail ELSE "none"
  OBVIOUS
<1>6. detail \in {"none", "poor", "rich"}
  BY <1>4, <1>5 DEF Present, Managed, Registered, DeviceRow
<1>7. PICK row : row = [machine |-> q.agent.machine, id |-> q.agent.id, client |-> q.agent.client,
                        detail |-> detail]
  OBVIOUS
<1>8. /\ row \in DeviceRow /\ row.machine = q.agent.machine /\ row.id = q.agent.id
      /\ row.client = q.agent.client /\ row.detail = detail
  BY <1>2, <1>6, <1>7 DEF DeviceRow, Agent
<1>9. device' = [device EXCEPT ![d] = row]
  BY <1>3, <1>5, <1>7
<1>10. \A e \in Present(device) : e # d => device[e].machine # row.machine
  BY <1>1, <1>2, <1>4, <1>8 DEF Fits, Managed, Registered
<1>11. UNCHANGED <<agent, settled, customers, favorite, setting, running>>
  BY DEF WriteDevice
<1>12. Current(row)
  BY <1>2, <1>8 DEF Current
<1>13. Enrolled' /\ Registered'
  BY <1>4, <1>8, <1>9, <1>10, <1>11, <1>12, DeviceWritten
<1>14. PICK s : s = [q EXCEPT !.op = "profile", !.device = d]
  OBVIOUS
<1>15. /\ s \in Storing /\ s.op = "profile" /\ s.device = d /\ s.left = q.left /\ s.agent = q.agent
       /\ s.detail = q.detail
  BY <1>4, <1>14 DEF Storing
<1>16. device'[d] = row /\ row # Absent
  BY <1>4, <1>8, <1>9, DeviceRowsDiffer DEF Managed, Registered
<1>17. Fits(r, s)'
  <2>1. detail = "rich" => q.detail = "rich"
    BY <1>1, <1>2, <1>4, <1>5 DEF Fits
  <2>2. \A a \in s.left : Current(a)'
    BY <1>2, <1>11, <1>15 DEF Fits, Current
  <2>3. Current(s.agent)'
    BY <1>2, <1>11, <1>15 DEF Current
  <2> QED
    BY <1>8, <1>15, <1>16, <2>1, <2>2, <2>3 DEF Fits
<1>18. Syncing'
  <2>1. r = "auto" => running'
    BY <1>1, <1>2, <1>11 DEF Managed, Syncing
  <2> QED
    BY <1>1, <1>2, <1>3, <1>14, <1>15, <1>17, <2>1, SyncMoves DEF Managed, Request
<1> QED
  BY <1>11, <1>13, <1>18 DEF Managed

LEMMA WritesProfile ==
  ASSUME Managed, NEW r \in Slots, WriteProfile(r)
  PROVE  /\ Managed'
         /\ \A d \in Present(device) : device[d].detail = "rich" => device'[d].detail = "rich"
<1>1. PICK q \in Storing : q = sync[r] /\ q.op = "profile"
  BY Kinds DEF WriteProfile, Managed, Syncing
<1>2. /\ q.agent \in Agent /\ q.left \in SUBSET Agent /\ q.auto \in BOOLEAN /\ q.device \in Device
      /\ q # Idle /\ Fits(r, q) /\ Current(q.agent)
  BY <1>1 DEF Storing, Idle, Managed, Syncing, Fits
<1>3. PICK old \in DeviceRow :
         /\ old = device[q.device] /\ q.device \in Present(device)
         /\ old.machine = q.agent.machine /\ old.id = q.agent.id /\ old.client = q.agent.client
         /\ old.detail = "rich" => q.detail = "rich"
  BY <1>1, <1>2 DEF Fits, Present, Managed, Registered
<1>4. PICK detail \in {"rich", "poor"} : detail = Best(q.agent.rich, q.detail)
  BY DEF Best
<1>5. PICK row : row = [old EXCEPT !.detail = detail]
  OBVIOUS
<1>6. /\ row \in DeviceRow /\ row.machine = q.agent.machine /\ row.id = q.agent.id
      /\ row.client = q.agent.client /\ row.detail = detail
  BY <1>3, <1>5 DEF DeviceRow
<1>7. device' = [device EXCEPT ![q.device] = row]
  BY <1>1, <1>3, <1>4, <1>5 DEF WriteProfile
<1>8. \A e \in Present(device) : e # q.device => device[e].machine # q.agent.machine
  BY <1>3 DEF Managed, Registered
<1>9. UNCHANGED <<agent, customers, favorite, setting, running>>
  BY DEF WriteProfile
<1>10. settled' = settled \cup {m \in Machine : agent[m].id = q.agent.id /\ agent[m].client = q.agent.client}
  BY <1>1 DEF WriteProfile
<1>11. Current(row)
  BY <1>2, <1>6 DEF Current
<1>12. \A m \in Machine : agent[m].id = q.agent.id => m = row.machine
  BY <1>2, <1>6 DEF Current, Agent, Managed, Enrolled
<1>13. Enrolled' /\ Registered'
  BY <1>2, <1>6, <1>7, <1>8, <1>9, <1>10, <1>11, <1>12, DeviceWritten
<1> DEFINE e == [op |-> "end", auto |-> q.auto]
           t == [op |-> "match", auto |-> q.auto, left |-> q.left]
<1>14. /\ e \in Request /\ e.op = "end" /\ e \notin Taking \cup Storing
       /\ t \in Request /\ t.op = "match" /\ t.left = q.left
  BY <1>2 DEF Request, Passing, Taking, Storing
<1>15. Syncs(r, e) \/ Syncs(r, t)
  BY <1>1 DEF WriteProfile
<1> HIDE DEF e, t
<1>16. Fits(r, e)' /\ Fits(r, t)'
  <2>1. \A a \in q.left : Current(a)'
    BY <1>2, <1>9 DEF Fits, Current
  <2> QED
    BY <1>14, <2>1 DEF Fits
<1>17. Syncing'
  <2>1. r = "auto" => running'
    BY <1>1, <1>2, <1>9 DEF Managed, Syncing
  <2> QED
    BY <1>1, <1>2, <1>14, <1>15, <1>16, <2>1, SyncMoves DEF Managed
<1>18. ASSUME NEW d \in Present(device), device[d].detail = "rich" PROVE device'[d].detail = "rich"
  <2>1. d = q.device => detail = "rich"
    BY <1>3, <1>4, <1>18 DEF Best
  <2> QED
    BY <1>6, <1>7, <1>18, <2>1 DEF Present, Managed, Registered
<1> QED
  BY <1>9, <1>13, <1>17, <1>18 DEF Managed

LEMMA WritesDetails ==
  ASSUME Managed, NEW r \in Slots, WriteDetails(r)
  PROVE  Managed' /\ r \in Operator
<1>1. PICK q \in Refreshing : q = sync[r] /\ q.op = "refresh"
  BY Kinds DEF WriteDetails, Managed, Syncing
<1>2. q.device \in Device /\ q.agent \in Agent /\ q # Idle /\ r \in Operator
  BY <1>1 DEF Refreshing, Idle, Managed, Syncing, Fits
<1>3. PICK old \in DeviceRow :
         /\ old = device[q.device] /\ q.device \in Present(device)
         /\ old.machine = q.agent.machine /\ old.id = q.agent.id
  BY <1>1, <1>2 DEF Fits, Present, Managed, Registered, Syncing
<1>4. PICK detail \in {"rich", "poor"} : detail = IF q.agent.rich THEN "rich" ELSE "poor"
  OBVIOUS
<1>5. PICK row : row = [old EXCEPT !.id = q.agent.id, !.machine = q.agent.machine, !.detail = detail]
  OBVIOUS
<1>6. row \in DeviceRow /\ row.machine = old.machine /\ row.id = old.id /\ row.client = old.client
  BY <1>2, <1>3, <1>5 DEF DeviceRow
<1>7. device' = [device EXCEPT ![q.device] = row]
  BY <1>1, <1>2, <1>3, <1>4, <1>5 DEF WriteDetails, Managed, Registered
<1>8. \A e \in Device : device'[e] = IF e = q.device THEN row ELSE device[e]
  BY <1>7 DEF Managed, Registered
<1>9. device' \in [Device -> DeviceRow \cup {Absent}]
  BY <1>6, <1>7 DEF Managed, Registered
<1>10. \A e \in Present(device)' :
          /\ e \in Present(device) /\ device'[e].machine = device[e].machine
          /\ device'[e].id = device[e].id /\ device'[e].client = device[e].client
  BY <1>3, <1>6, <1>8, <1>9 DEF Present, Managed, Registered
<1>11. UNCHANGED <<agent, settled, customers, favorite, setting, running>>
  BY DEF WriteDetails
<1>12. Registered'
  BY <1>9, <1>10, <1>11 DEF Managed, Registered, OneDevicePerAgent
<1>13. Enrolled'
  BY <1>11 DEF Managed, Enrolled
<1>14. Syncing'
  <2>1. Syncs(r, Idle) /\ Idle \in Request /\ Fits(r, Idle)'
    BY IdleFits DEF WriteDetails, Request
  <2> QED
    BY <1>1, <1>2, <2>1, SyncMoves DEF Managed
<1> QED
  BY <1>2, <1>11, <1>12, <1>13, <1>14 DEF Managed

LEMMA ManagedBegins ==
  ASSUME DevicesInit
  PROVE  Managed
<1>1. PICK id \in [Machine -> Id], c \in Customer :
          /\ \A m, n \in Machine : id[m] = id[n] => m = n
          /\ agent = [m \in Machine |-> [machine |-> m, id |-> id[m], client |-> c, rich |-> TRUE]]
  BY DEF DevicesInit
<1>2. Enrolled
  BY <1>1 DEF DevicesInit, Enrolled, Agent
<1>3. Present(device) = {} /\ device \in [Device -> DeviceRow \cup {Absent}]
  BY DEF DevicesInit, Present
<1>4. Registered
  BY <1>3 DEF Registered, OneDevicePerAgent
<1>5. Syncing
  <2>1. sync = [r \in Slots |-> Idle] /\ Idle \in Request /\ "auto" \in Slots
    BY DEF DevicesInit, Request, Slots
  <2> QED
    BY <2>1, IdleFits DEF Syncing
<1>6. setting \in Setting
  BY DEF DevicesInit, Setting
<1> QED
  BY <1>2, <1>4, <1>5, <1>6 DEF DevicesInit, Managed

LEMMA ManagedStep ==
  ASSUME Managed, [UpkeepNext]_upkeepVars
  PROVE  Managed'
<1>1. CASE UNCHANGED deviceVars
  <2>1. Enrolled' /\ Registered'
    BY <1>1 DEF deviceVars, Managed, Enrolled, Registered, OneDevicePerAgent, Present
  <2>2. Syncing'
    BY <1>1 DEF deviceVars, Managed, Syncing, Fits, Current, Present
  <2> QED
    BY <1>1, <2>1, <2>2 DEF deviceVars, Managed
<1>2. CASE DevicesTurn
  <2>1. CASE DevicesResume
    BY <2>1, Fetches, Matches, WritesDevice, WritesProfile, EndsSync, WritesDetails DEF DevicesResume
  <2> QED
    BY <1>2, <2>1, SyncsBegin, WorldMoves DEF DevicesTurn
<1> QED
  BY <1>1, <1>2 DEF UpkeepNext, ReportsTurn, LinksTurn, DecisionsTurn, upkeepVars

\* No step but the refresh of a device loses what is known of one.
LEMMA NothingForgotten ==
  ASSUME Managed, [UpkeepNext]_upkeepVars, NEW d \in Present(device),
         device[d].detail = "rich", device'[d].detail # "rich"
  PROVE  \E r \in Operator : sync[r].op = "refresh"
<1>1. DevicesTurn /\ device' # device
  BY DEF UpkeepNext, ReportsTurn, LinksTurn, DecisionsTurn, upkeepVars, deviceVars
<1>2. PICK r \in Slots : WriteDevice(r) \/ WriteProfile(r) \/ WriteDetails(r)
  BY <1>1 DEF DevicesTurn, DevicesBegin, DevicesWorld, DevicesResume, SyncByHand, Refresh, Scan, UpdateSettings,
     SetFavorite, Change, Clock, Mail, Crash, Fetch, Match, EndSync
<1>3. CASE WriteDevice(r)
  <2>1. PICK q \in Storing : q = sync[r] /\ q.op = "write"
    BY <1>3, Kinds DEF WriteDevice, Managed, Syncing
  <2>2. PICK e \in IF q.known THEN {q.device} ELSE Device \ Present(device) :
           \E row : /\ row.detail = IF q.known THEN device[e].detail ELSE "none"
                    /\ device' = [device EXCEPT ![e] = row]
    BY <1>3, <2>1 DEF WriteDevice
  <2>3. q.known \/ d # e
    BY <2>2
  <2>4. d = e => device'[d].detail = device[d].detail
    BY <2>2, <2>3 DEF Present, Managed, Registered
  <2>5. d # e => device'[d] = device[d]
    BY <2>2 DEF Present, Managed, Registered
  <2> QED
    BY <2>4, <2>5
<1>4. CASE WriteProfile(r)
  BY <1>4, WritesProfile
<1>5. CASE WriteDetails(r)
  BY <1>5, WritesDetails DEF WriteDetails
<1> QED
  BY <1>2, <1>3, <1>4, <1>5

\* Of the synchronisation of devices.service.ts, with one request or run at a time and
\* agents reinstalled or moved in between: an agent is one device, and a sync loses none of
\* the details of a device.
THEOREM DevicesAlwaysSafe == UpkeepSpec => DevicesSafe
<1> DEFINE Typed == DevicesTypeOK /\ (alone => OneDevicePerAgent)
           Kept == \A d \in Present(device) :
                      device[d].detail = "rich" /\ device'[d].detail # "rich" =>
                         \E r \in Operator : sync[r].op = "refresh"
<1>1. UpkeepInit => Managed
  BY ManagedBegins DEF UpkeepInit
<1>2. Managed /\ [UpkeepNext]_upkeepVars => Managed'
  BY ManagedStep
<1>3. Managed => Typed
  BY DEF Managed, Enrolled, Registered, Syncing, DevicesTypeOK
<1>4. Managed /\ [UpkeepNext]_upkeepVars => [Kept]_deviceVars
  BY NothingForgotten
<1> QED
  BY <1>1, <1>2, <1>3, <1>4, PTL DEF UpkeepSpec, DevicesSafe, DetailsKept

(***************************************************************************)
(* The search of hasDependencyPath: what it has visited is closed under    *)
(* prerequisites but for the frontier, and the project is in neither.      *)
(* When it ends, what was visited is closed, so the new dependency, out of *)
(* the project and into the visited part, closes no cycle.  Removals only  *)
(* make closed sets of closed sets; an insert of another request would     *)
(* not, hence the one planner.                                             *)
(***************************************************************************)

Seen(q) == q.visited \cup q.frontier

SearchOK(q) ==
    /\ q.of \notin Seen(q) /\ q.on \in Seen(q)
    /\ Prerequisites(q.visited) \subseteq Seen(q)
    /\ q.op = "insert" => q.frontier = {}

Searching ==
    /\ DependenciesTypeOK /\ Acyclic
    /\ \A h \in Planner, q \in Hunt : search[h] = q => SearchOK(q)

LEMMA HuntBusy ==
  ASSUME Searching, NEW h \in Planner, search[h].op \in {"search", "insert"}
  PROVE  search[h] \in Hunt /\ SearchOK(search[h])
<1>1. search[h] \in Hunt
  BY DEF Searching, DependenciesTypeOK, Idle
<1> QED
  BY <1>1 DEF Searching

\* Fewer dependencies make neither a cycle nor a gap in what a search has seen.
LEMMA FewerDepend ==
  ASSUME Searching, depends' \subseteq depends, listed' \subseteq Endeavour, search' = search
  PROVE  Searching'
<1>1. Acyclic'
  BY DEF Searching, Acyclic
<1>2. \A q \in Hunt : SearchOK(q) => SearchOK(q)'
  BY DEF SearchOK, Seen, Prerequisites
<1>3. DependenciesTypeOK'
  BY DEF Searching, DependenciesTypeOK
<1> QED
  BY <1>1, <1>2, <1>3 DEF Searching

LEMMA SearchMoves ==
  ASSUME Searching, NEW h \in Planner, UNCHANGED <<listed, depends>>,
         NEW q \in Hunt \cup {Idle}, Searches(h, q), q \in Hunt => SearchOK(q)
  PROVE  Searching'
<1>1. Acyclic' /\ DependenciesTypeOK'
  BY DEF Searching, Acyclic, DependenciesTypeOK, Searches
<1>2. \A p \in Planner, r \in Hunt : search'[p] = r => SearchOK(r)
  BY DEF Searching, DependenciesTypeOK, Searches
<1>3. \A r \in Hunt : SearchOK(r) => SearchOK(r)'
  BY DEF SearchOK, Seen, Prerequisites
<1> QED
  BY <1>1, <1>2, <1>3 DEF Searching

LEMMA SearchBegins ==
  ASSUME Searching, NEW h \in Planner, NEW j \in Endeavour, NEW k \in Endeavour,
         AddDependency(h, j, k)
  PROVE  Searching'
<1>1. PICK q : q = [op |-> "search", of |-> j, on |-> k, visited |-> {}, frontier |-> {k}]
  OBVIOUS
<1>2. q \in Hunt
  BY <1>1 DEF Hunt
<1>3. SearchOK(q)
  BY <1>1 DEF AddDependency, SearchOK, Seen, Prerequisites
<1> QED
  BY <1>1, <1>2, <1>3, SearchMoves DEF AddDependency

LEMMA SearchGoesOn ==
  ASSUME Searching, NEW h \in Planner, SearchLevel(h)
  PROVE  Searching'
<1>1. PICK q : q = search[h]
  OBVIOUS
<1>2. q \in Hunt /\ SearchOK(q) /\ q.op = "search"
  BY <1>1, HuntBusy DEF SearchLevel
<1>3. PICK next, visited : next = Prerequisites(q.frontier) /\ visited = Seen(q)
  OBVIOUS
<1>4. next \subseteq Endeavour /\ visited \subseteq Endeavour
  BY <1>2, <1>3 DEF Hunt, Seen, Prerequisites
<1>5. CASE q.of \in next
  BY <1>1, <1>3, <1>5, SearchMoves DEF SearchLevel, Hunt, Idle
<1>6. CASE q.of \notin next
  <2>1. PICK op : op = IF next \subseteq visited THEN "insert" ELSE q.op
    OBVIOUS
  <2>2. PICK r : r = [q EXCEPT !.op = op, !.visited = visited, !.frontier = next \ visited]
    OBVIOUS
  <2>3. op \in {"search", "insert"} /\ (op = "insert" => next \subseteq visited)
    BY <1>2, <2>1
  <2>4. r \in Hunt /\ r.op = op /\ r.visited = visited /\ r.frontier = next \ visited
        /\ r.of = q.of /\ r.on = q.on
    BY <1>2, <1>4, <2>2, <2>3 DEF Hunt
  <2>5. Prerequisites(visited) \subseteq visited \cup next
    BY <1>2, <1>3 DEF SearchOK, Seen, Prerequisites
  <2>6. SearchOK(r)
    BY <1>2, <1>3, <1>6, <2>3, <2>4, <2>5 DEF SearchOK, Seen
  <2>7. Searches(h, r)
    BY <1>1, <1>3, <1>6, <2>1, <2>2 DEF SearchLevel, Seen
  <2> QED
    BY <2>4, <2>6, <2>7, SearchMoves DEF SearchLevel
<1> QED
  BY <1>5, <1>6

\* The new dependency closes no cycle: in a set with both ends, the visited projects have
\* their prerequisites among themselves, and the set had one without any of those before.
LEMMA InsertKeeps ==
  ASSUME \A h, p \in Planner : h = p,
         Searching, NEW h \in Planner, InsertDependency(h)
  PROVE  Searching'
<1>1. PICK q : q = search[h]
  OBVIOUS
<1>2. q \in Hunt /\ SearchOK(q) /\ q.op = "insert"
  BY <1>1, HuntBusy DEF InsertDependency
<1>3. q.of \notin q.visited /\ q.on \in q.visited /\ Prerequisites(q.visited) \subseteq q.visited
      /\ q.of \in Endeavour /\ q.on \in Endeavour
  BY <1>2 DEF SearchOK, Seen, Hunt
<1>4. depends' = depends \cup {<<q.of, q.on>>} /\ search' = [search EXCEPT ![h] = Idle]
      /\ listed' = listed
  BY <1>1 DEF InsertDependency, Searches
<1>5. Acyclic'
  <2> SUFFICES ASSUME NEW some \in SUBSET Endeavour, some # {}
               PROVE  \E j \in some : \A k \in some : <<j, k>> \notin depends'
    BY DEF Acyclic
  <2>1. CASE q.on \in some
    <3>1. PICK seen : seen = some \cap q.visited
      OBVIOUS
    <3>2. seen \in (SUBSET Endeavour) \ {{}}
      BY <1>3, <2>1, <3>1
    <3>3. PICK j \in seen : \A k \in seen : <<j, k>> \notin depends
      BY <3>2 DEF Searching, Acyclic
    <3>4. \A k \in some : <<j, k>> \notin depends
      BY <1>3, <3>1, <3>3 DEF Prerequisites
    <3>5. j # q.of
      BY <1>3, <3>1
    <3> QED
      BY <1>4, <3>1, <3>4, <3>5
  <2>2. CASE q.on \notin some
    <3>1. PICK j \in some : \A k \in some : <<j, k>> \notin depends
      BY DEF Searching, Acyclic
    <3> QED
      BY <1>4, <2>2, <3>1
  <2> QED
    BY <2>1, <2>2
<1>6. DependenciesTypeOK'
  BY <1>3, <1>4 DEF Searching, DependenciesTypeOK
<1>7. \A p \in Planner, r \in Hunt : search'[p] # r
  BY <1>4 DEF Searching, DependenciesTypeOK, Hunt, Idle
<1> QED
  BY <1>5, <1>6, <1>7 DEF Searching

LEMMA SearchingInit == ASSUME DependenciesInit PROVE Searching
<1>1. DependenciesTypeOK
  BY DEF DependenciesInit, DependenciesTypeOK
<1>2. Acyclic
  BY DEF DependenciesInit, Acyclic
<1> QED
  BY <1>1, <1>2 DEF DependenciesInit, Searching, Hunt, Idle

LEMMA SearchingStep ==
  ASSUME \A h, p \in Planner : h = p, Searching, [DependenciesNext]_dependencyVars
  PROVE  Searching'
<1>1. ASSUME NEW h \in Planner, SearchLevel(h) PROVE Searching'
  BY <1>1, SearchGoesOn
<1>2. ASSUME NEW h \in Planner, InsertDependency(h) PROVE Searching'
  BY <1>2, InsertKeeps
<1>3. ASSUME NEW h \in Planner, NEW j \in Endeavour, NEW k \in Endeavour, AddDependency(h, j, k)
      PROVE  Searching'
  BY <1>3, SearchBegins
<1>4. ASSUME NEW j \in Endeavour, NEW k \in Endeavour, RemoveDependency(j, k) PROVE Searching'
  BY <1>4, FewerDepend DEF RemoveDependency, Searching, DependenciesTypeOK
<1>5. ASSUME NEW j \in Endeavour, Unlist(j) PROVE Searching'
  BY <1>5, FewerDepend DEF Unlist, Searching, DependenciesTypeOK
<1>6. CASE UNCHANGED dependencyVars
  BY <1>6, FewerDepend DEF dependencyVars, Searching, DependenciesTypeOK
<1> QED
  BY <1>1, <1>2, <1>3, <1>4, <1>5, <1>6 DEF DependenciesNext

\* While one request at a time adds dependencies, and whatever is removed meanwhile, no
\* project comes to wait for itself.
THEOREM NeverCyclic ==
  ASSUME \A h, p \in Planner : h = p
  PROVE  DependenciesSpec => []Acyclic
<1>1. DependenciesInit => Searching
  BY SearchingInit
<1>2. Searching /\ [DependenciesNext]_dependencyVars => Searching'
  BY SearchingStep
<1>3. Searching => Acyclic
  BY DEF Searching
<1> QED
  BY <1>1, <1>2, <1>3, PTL DEF DependenciesSpec

(***************************************************************************)
(* The alerts: whoever is told of a key has written its row first, a run   *)
(* about to tell has just written one nobody was told of, and two runs     *)
(* never are about to tell of the same one, since only one insert of a key *)
(* succeeds.  A run that dies in between leaves a key nobody is told of.   *)
(***************************************************************************)

Pending(p) == scan[p].op = "tell"

Alerting ==
    /\ DOMAIN scan = Scanner
    /\ DOMAIN told \subseteq noted /\ ToldOnce
    /\ \A p \in Scanner : Pending(p) => scan[p].key \in noted \ DOMAIN told
    /\ \A p, r \in Scanner : Pending(p) /\ Pending(r) /\ scan[p].key = scan[r].key => p = r

\* A run that is not about to tell anybody, or no longer.
LEMMA AlertingMoves ==
  ASSUME Alerting, NEW p \in Scanner, NEW q, q.op # "tell", Scans(p, q), UNCHANGED <<noted, told>>
  PROVE  Alerting'
  BY DEF Alerting, ToldOnce, Pending, Scans

LEMMA AlertingNotes ==
  ASSUME Alerting, NEW p \in Scanner, NEW k, Note(p, k)
  PROVE  Alerting'
<1>1. UNCHANGED told /\ noted' = noted \cup {k} /\ scan[p].op = "record"
  BY DEF Note
<1>2. CASE k \in noted
  <2>1. PICK q : q = [scan[p] EXCEPT !.due = @ \ {k}]
    OBVIOUS
  <2>2. q.op # "tell"
    BY <1>1, <2>1
  <2>3. Scans(p, q) /\ noted' = noted
    BY <1>1, <1>2, <2>1 DEF Note
  <2> QED
    BY <1>1, <2>2, <2>3, AlertingMoves
<1>3. CASE k \notin noted
  <2>1. PICK q : q = [op |-> "tell", part |-> scan[p].part, due |-> scan[p].due \ {k}, key |-> k]
    OBVIOUS
  <2>2. scan' = [scan EXCEPT ![p] = q] /\ q.op = "tell" /\ q.key = k
    BY <1>3, <2>1 DEF Note, Scans
  <2>3. \A r \in Scanner : scan'[r] = IF r = p THEN q ELSE scan[r]
    BY <2>2 DEF Alerting
  <2>4. \A r \in Scanner : Pending(r)' => scan'[r].key \in noted' \ DOMAIN told
    BY <1>1, <1>3, <2>2, <2>3 DEF Alerting, Pending
  <2>5. \A r \in Scanner \ {p} : Pending(r)' => scan'[r].key # k
    BY <1>3, <2>2, <2>3 DEF Alerting, Pending
  <2>6. DOMAIN scan' = Scanner /\ DOMAIN told' \subseteq noted' /\ ToldOnce'
    BY <1>1, <2>2 DEF Alerting, ToldOnce
  <2> QED
    BY <1>1, <2>2, <2>3, <2>4, <2>5, <2>6 DEF Alerting, Pending
<1> QED
  BY <1>2, <1>3

LEMMA AlertingTells ==
  ASSUME Alerting, NEW p \in Scanner, Tell(p)
  PROVE  Alerting'
<1>1. PICK q : q = [op |-> "record", part |-> scan[p].part, due |-> scan[p].due]
  OBVIOUS
<1>2. PICK k : k = scan[p].key
  OBVIOUS
<1>3. q.op # "tell" /\ Scans(p, q) /\ noted' = noted /\ Pending(p)
  BY <1>1 DEF Tell, Pending
<1>4. k \in noted \ DOMAIN told
  BY <1>2, <1>3 DEF Alerting
<1>5. CASE told' = told
  BY <1>3, <1>5, AlertingMoves
<1>6. CASE told' = [i \in DOMAIN told \cup {k} |-> IF i = k THEN Tally(k) + 1 ELSE told[i]]
  <2>1. Tally(k) = 0
    BY <1>4 DEF Tally
  <2>2. DOMAIN told' = DOMAIN told \cup {k} /\ ToldOnce'
    BY <1>6, <2>1 DEF Alerting, ToldOnce
  <2>3. \A r \in Scanner : scan'[r] = IF r = p THEN q ELSE scan[r]
    BY <1>3 DEF Alerting, Scans
  <2>4. \A r \in Scanner : Pending(r)' => Pending(r) /\ r # p /\ scan'[r].key # k
    BY <1>2, <1>3, <2>3 DEF Alerting, Pending
  <2> QED
    BY <1>3, <1>4, <2>2, <2>3, <2>4 DEF Alerting, Pending, Scans
<1> QED
  BY <1>2, <1>5, <1>6 DEF Tell

LEMMA AlertingInit == ASSUME DecisionsInit \/ DecisionsOpen PROVE Alerting
  BY DEF DecisionsInit, DecisionsOpen, Alerting, Pending, ToldOnce, Idle

LEMMA AlertingStep ==
  ASSUME Alerting, [DecisionsNext]_decisionVars
  PROVE  Alerting'
<1>1. ASSUME NEW p \in Scanner, NEW k, Note(p, k) PROVE Alerting'
  BY <1>1, AlertingNotes
<1>2. ASSUME NEW p \in Scanner, Tell(p) PROVE Alerting'
  BY <1>2, AlertingTells
<1>3. ASSUME NEW p \in Scanner, NEW k, NoteFails(p, k) PROVE Alerting'
  <2>1. PICK q : q = [scan[p] EXCEPT !.due = @ \ {k}]
    OBVIOUS
  <2>2. q.op # "tell"
    BY <1>3, <2>1 DEF NoteFails
  <2> QED
    BY <1>3, <2>1, <2>2, AlertingMoves DEF NoteFails
<1>4. ASSUME NEW p \in Scanner, StartScan(p) \/ ReadRecipients(p) \/ NextPart(p) \/ ScanLost(p)
      PROVE  Alerting'
  BY <1>4, AlertingMoves DEF StartScan, ReadRecipients, NextPart, ScanLost, Idle
<1>5. CASE ProjectsChange \/ BoardBegin \/ BoardResume \/ People \/ Calendar \/ UNCHANGED decisionVars
  <2>1. UNCHANGED <<scan, noted, told>>
    BY <1>5 DEF ProjectsChange, BoardBegin, BoardResume, People, Calendar, RemoveProject, UpdateProject,
           CreateProject, ApplyTemplate, AskDecision, EditDecision, CommitDecision, InsertDecision,
           ChooseRecipients, Deactivate, Overrun, DigestTime, Midnight, decisionVars, alertVars
  <2> QED
    BY <2>1 DEF Alerting, Pending, ToldOnce
<1> QED
  BY <1>1, <1>2, <1>3, <1>4, <1>5 DEF DecisionsNext, ScansBegin, ScansResume

\* However runs overlap, fail and die, and whatever happens to decisions, people and
\* settings meanwhile: nobody is told twice a day of one reason of a decision, nor gets
\* two digests a day.
THEOREM NobodyToldTwice == DecisionsSpec => []ToldOnce
<1>1. DecisionsInit => Alerting
  BY AlertingInit
<1>2. Alerting /\ [DecisionsNext]_decisionVars => Alerting'
  BY AlertingStep
<1>3. Alerting => ToldOnce
  BY DEF Alerting
<1> QED
  BY <1>1, <1>2, <1>3, PTL DEF DecisionsSpec

(***************************************************************************)
(* The ticket report and its reader.                                       *)
(***************************************************************************)

\* The newest b tickets, and those a reader has come past: all of the report after its last
\* page, else the pages read.
Newest(b) == {order[k] : k \in {k \in 1..Len(order) : Len(order) + 1 - k <= b}}
Past == IF reader.page = reader.of \/ reader.page * PageSize > Cap THEN Cap ELSE reader.page * PageSize
Missed == (reader.wanted \cap Newest(Past)) \ reader.shown

Chronicle ==
  /\ order \in Seq(Ticket) /\ created \in [Ticket -> 0..729]
  /\ \A i, j \in 1..Len(order) : i # j => order[i] # order[j]
  /\ \A i, j \in 1..Len(order) : i < j => created[order[i]] <= created[order[j]]

\* A reader has missed no more than was deleted since she began, which is counted up to Cap.
Reading ==
  /\ reader \in [page : Nat, of : Nat, shown : SUBSET Ticket, wanted : SUBSET Ticket, deleted : 0..Cap]
  /\ reader.page <= reader.of
  /\ reader.page > 0 /\ reader.deleted < Cap => Cardinality(Missed) <= reader.deleted

\* A number of pages holds all tickets, and one page less does not.
LEMMA Quotient ==
  ASSUME NEW m \in Nat, NEW n \in Nat \ {0}
  PROVE  LET c == (m + n - 1) \div n IN
         c \in Nat /\ c * n >= m /\ (m > 0 => c > 0) /\ (c > 0 => (c - 1) * n < m)
  BY SMTT(30)

\* Fewer pages hold fewer tickets.
LEMMA Fewer ==
  ASSUME NEW a \in Nat, NEW b \in Nat, NEW n \in Nat, a <= b
  PROVE  a * n <= b * n /\ b * n \in Nat
  OBVIOUS

\* There are not more of the newest than are asked for.
LEMMA NewestFew ==
  ASSUME order \in Seq(Ticket), NEW b \in Nat
  PROVE  IsFiniteSet(Newest(b)) /\ Cardinality(Newest(b)) <= b
<1> DEFINE N == Len(order)
           n == IF N < b THEN N ELSE b
           f == [i \in 1..n |-> order[N + 1 - i]]
<1>1. N \in Nat /\ n \in Nat /\ n <= b /\ n <= N
  OBVIOUS
<1>2. f \in Surjection(1..n, Newest(b))
  <2>1. ASSUME NEW i \in 1..n PROVE f[i] \in Newest(b)
    <3>1. N + 1 - i \in 1..N /\ N + 1 - (N + 1 - i) <= b
      BY <1>1
    <3> QED
      BY <3>1 DEF Newest
  <2>2. ASSUME NEW t \in Newest(b) PROVE \E i \in 1..n : f[i] = t
    <3>1. PICK k \in 1..N : t = order[k] /\ N + 1 - k <= b
      BY DEF Newest
    <3>2. N + 1 - k \in 1..n /\ N + 1 - (N + 1 - k) = k
      BY <1>1, <3>1
    <3> QED
      BY <3>1, <3>2
  <2> QED
    BY <2>1, <2>2 DEF Surjection
<1> HIDE DEF n, f, N
<1>3. IsFiniteSet(1..n) /\ Cardinality(1..n) = n
  <2>1. 1 \in Int /\ n \in Int /\ (IF 1 > n THEN 0 ELSE n - 1 + 1) = n
    BY <1>1
  <2> QED
    BY <2>1, FS_Interval
<1> QED
  BY <1>1, <1>2, <1>3, FS_Surjection, FS_CardinalityType

\* The rows of the report are the newest tickets, newest first.
LEMMA MatchedNewest ==
  ASSUME Chronicle
  PROVE  LET n == Len(Matched) IN
         /\ n \in Nat /\ n <= Cap /\ n <= Len(order) /\ (n = Cap \/ n = Len(order))
         /\ DOMAIN Matched = 1..n /\ \A i \in 1..n : Matched[i] = order[Len(order) + 1 - i]
         /\ {Matched[i] : i \in 1..n} = Newest(Cap) /\ Newest(Cap) \subseteq Ticket
<1> DEFINE N == Len(order)
           n == IF N < Cap THEN N ELSE Cap
<1>1. N \in Nat /\ n \in Nat /\ Cap \in Nat /\ n <= Cap /\ n <= N /\ (n = Cap \/ n = N)
  BY BoundsAssumption DEF Chronicle
<1>2. Matched = [i \in 1..n |-> order[N + 1 - i]]
  BY DEF Matched
<1> HIDE DEF n
<1>3. Len(Matched) = n /\ DOMAIN Matched = 1..n /\ \A i \in 1..n : Matched[i] = order[N + 1 - i]
  BY <1>1, <1>2
<1>4. ASSUME NEW i \in 1..n PROVE Matched[i] \in Newest(Cap)
  <2>1. N + 1 - i \in 1..N /\ N + 1 - (N + 1 - i) <= Cap
    BY <1>1
  <2> QED
    BY <1>3, <2>1 DEF Newest
<1>5. ASSUME NEW t \in Newest(Cap) PROVE t \in Ticket /\ \E i \in 1..n : Matched[i] = t
  <2>1. PICK k \in 1..N : t = order[k] /\ N + 1 - k <= Cap
    BY DEF Newest
  <2>2. N + 1 - k \in 1..n /\ N + 1 - (N + 1 - k) = k
    BY <1>1, <2>1
  <2> QED
    BY <1>3, <2>1, <2>2 DEF Chronicle
<1> QED
  BY <1>1, <1>3, <1>4, <1>5

\* What the reader misses is finite, and fewer than the report holds.
LEMMA MissedFinite ==
  ASSUME Chronicle, Reading
  PROVE  Past \in Nat /\ IsFiniteSet(Missed)
<1>1. Past \in Nat
  BY BoundsAssumption DEF Past, Reading
<1>2. IsFiniteSet(Newest(Past))
  BY <1>1, NewestFew DEF Chronicle
<1> QED
  BY <1>1, <1>2, FS_Subset DEF Missed

\* Past the last page, what is missed is what the property counts.
LEMMA MissesFew ==
  ASSUME Chronicle, Reading
  PROVE  ReaderMissesFew
<1> SUFFICES ASSUME reader.page > 0, reader.page = reader.of
             PROVE  Cardinality({t \in reader.wanted : \E i \in DOMAIN Matched : Matched[i] = t} \ reader.shown)
                       <= reader.deleted
  BY DEF ReaderMissesFew
<1>1. {t \in reader.wanted : \E i \in DOMAIN Matched : Matched[i] = t} = reader.wanted \cap Newest(Cap)
  BY MatchedNewest
<1>2. Past = Cap
  BY DEF Past
<1>3. CASE reader.deleted < Cap
  BY <1>1, <1>2, <1>3 DEF Reading, Missed
<1>4. CASE reader.deleted = Cap
  <2>1. IsFiniteSet(Newest(Cap)) /\ Cardinality(Newest(Cap)) <= Cap
    BY NewestFew, BoundsAssumption DEF Chronicle
  <2>2. Missed \in SUBSET Newest(Cap)
    BY <1>2 DEF Missed
  <2>3. Cardinality(Missed) <= Cardinality(Newest(Cap)) /\ IsFiniteSet(Missed)
    BY <2>1, <2>2, FS_Subset
  <2>4. Cardinality(Missed) \in Nat /\ Cardinality(Newest(Cap)) \in Nat
    BY <2>1, <2>3, FS_CardinalityType
  <2> QED
    BY <1>1, <1>2, <1>4, <2>1, <2>3, <2>4, BoundsAssumption DEF Missed
<1> QED
  BY <1>3, <1>4, BoundsAssumption DEF Reading

\* A page more: what is missed up to its end was missed before.
LEMMA PageShown ==
  ASSUME Chronicle, Reading, NEW asked \in 1..(Cap + 1), ShowPage(asked)
  PROVE  Chronicle' /\ Reading'
<1> DEFINE M == Len(Matched)
           p == DetailPage(M, asked)
           c == (M + PageSize - 1) \div PageSize
           rows == {Matched[i] : i \in p.first..p.last}
<1>1. M \in Nat /\ M <= Cap /\ M <= Len(order) /\ (M = Cap \/ M = Len(order)) /\ PageSize \in Nat \ {0}
      /\ Cap \in Nat /\ Len(order) \in Nat
  <2>1. Len(order) \in Nat /\ PageSize \in Nat \ {0} /\ Cap \in Nat
    BY BoundsAssumption DEF Chronicle
  <2> QED
    BY <2>1, MatchedNewest
<1>2. c \in Nat /\ c * PageSize >= M /\ (M > 0 => c > 0) /\ (c > 0 => (c - 1) * PageSize < M)
  BY <1>1, Quotient
<1>3. /\ p.of = IF M = 0 THEN 1 ELSE c
      /\ p.page = IF asked > p.of THEN p.of ELSE asked
      /\ p.first = (p.page - 1) * PageSize + 1
      /\ p.last = IF p.page * PageSize < M THEN p.page * PageSize ELSE M
  BY DEF DetailPage
<1>4. p.of \in Nat \ {0} /\ p.page \in Nat \ {0} /\ p.page <= p.of /\ p.of * PageSize >= M
  BY <1>1, <1>2, <1>3
<1> DEFINE s == p.page * PageSize
<1>5. s \in Nat /\ p.first = s - PageSize + 1 /\ (p.page = p.of => s >= M)
  BY <1>1, <1>3, <1>4
<1>6. 1 <= p.first /\ p.last \in Nat /\ p.last <= M
  BY <1>1, <1>3, <1>4, <1>5
<1>7. rows \subseteq Ticket
  <2>1. \A i \in 1..M : Matched[i] \in Ticket
    BY MatchedNewest
  <2>2. p.first..p.last \subseteq 1..M
    <3>1. p.first \in Int
      BY <1>1, <1>5
    <3> HIDE DEF p, M
    <3> QED
      BY <1>1, <1>6, <3>1
  <2> HIDE DEF p, M
  <2> QED
    BY <2>1, <2>2
<1>8. /\ reader' = [page |-> p.page, of |-> p.of, shown |-> rows \cup IF asked = 1 THEN {} ELSE reader.shown,
                    wanted |-> IF asked = 1 THEN Newest(Cap) ELSE reader.wanted,
                    deleted |-> IF asked = 1 THEN 0 ELSE reader.deleted]
      /\ asked \in {1, reader.page + 1} /\ (asked <= 1 \/ asked <= reader.of) /\ UNCHANGED <<created, order>>
  BY MatchedNewest DEF ShowPage
<1>9. Chronicle' /\ \A b : Newest(b)' = Newest(b)
  BY <1>8 DEF Chronicle, Newest
<1>10. Past' = IF p.page = p.of \/ s > Cap THEN Cap ELSE s
  BY <1>8 DEF Past
<1> HIDE DEF c, p, s, M
<1>11. ASSUME NEW t \in Newest(Past'), t \notin rows
       PROVE  \E k \in 1..Len(order) :
                 t = order[k] /\ Len(order) + 1 - k <= M /\ Len(order) + 1 - k <= s - PageSize
  <2>1. PICK k \in 1..Len(order) : t = order[k] /\ Len(order) + 1 - k <= Past'
    BY DEF Newest
  <2> DEFINE r == Len(order) + 1 - k
  <2>2. r \in 1..Len(order) /\ r <= Cap /\ r <= M /\ Len(order) + 1 - r = k
    BY <1>1, <1>5, <1>10, <2>1
  <2>3. r <= s
    BY <1>1, <1>5, <1>10, <2>1, <2>2
  <2>4. r \notin p.first..p.last
    <3>1. Matched[r] = t
      BY <2>1, <2>2, MatchedNewest DEF M
    <3> QED
      BY <1>11, <3>1
  <2>5. p.last = IF s < M THEN s ELSE M
    BY <1>3 DEF s
  <2>6. r <= s - PageSize
    BY <1>1, <1>5, <2>2, <2>3, <2>4, <2>5
  <2> QED
    BY <2>1, <2>2, <2>6
<1>12. reader' \in [page : Nat, of : Nat, shown : SUBSET Ticket, wanted : SUBSET Ticket, deleted : 0..Cap]
       /\ reader'.page <= reader'.of
  <2>1. Newest(Cap) \subseteq Ticket
    BY MatchedNewest
  <2> QED
    BY <1>1, <1>4, <1>7, <1>8, <2>1 DEF Reading
<1>13. CASE asked = 1
  <2>1. p.page = 1
    BY <1>3, <1>4, <1>13
  <2>2. s = PageSize
    BY <1>1, <2>1 DEF s
  <2>3. Newest(Past') \subseteq rows
    BY <1>1, <1>11, <2>2
  <2>4. Missed' = {}
    BY <1>8, <1>9, <1>13, <2>3 DEF Missed
  <2> QED
    BY <1>8, <1>9, <1>12, <1>13, <2>4, FS_EmptySet DEF Reading
<1>14. CASE asked # 1
  <2>1. asked = reader.page + 1 /\ asked <= reader.of /\ reader.page \in Nat /\ reader.page # reader.of
    BY <1>8, <1>14 DEF Reading
  <2> DEFINE before == reader.page * PageSize
  <2>2. s - PageSize <= before /\ before \in Nat
    <3>1. p.page <= reader.page + 1
      BY <1>3, <1>4, <2>1
    <3>2. s - PageSize = (p.page - 1) * PageSize
      BY <1>1, <1>4 DEF s
    <3>3. p.page - 1 \in Nat /\ p.page - 1 <= reader.page /\ PageSize \in Nat
      BY <1>1, <1>4, <2>1, <3>1
    <3> QED
      BY <2>1, <3>2, <3>3, Fewer
  <2>3. ASSUME NEW t \in Newest(Past'), t \notin rows PROVE t \in Newest(Past)
    <3>1. PICK k \in 1..Len(order) : t = order[k] /\ Len(order) + 1 - k <= M /\ Len(order) + 1 - k <= s - PageSize
      BY <1>11, <2>3
    <3>2. Past = IF before > Cap THEN Cap ELSE before
      BY <2>1 DEF Past
    <3> HIDE DEF before
    <3>3. Len(order) + 1 - k <= Past
      BY <1>1, <1>5, <2>2, <3>1, <3>2
    <3> QED
      BY <3>1, <3>3 DEF Newest
  <2>4. Missed' \in SUBSET Missed
    BY <1>8, <1>9, <1>14, <2>3 DEF Missed
  <2>5. IsFiniteSet(Missed) /\ Cardinality(Missed') <= Cardinality(Missed) /\ Cardinality(Missed') \in Nat
        /\ Cardinality(Missed) \in Nat
    BY <2>4, MissedFinite, FS_Subset, FS_CardinalityType
  <2>6. reader'.deleted = reader.deleted
    BY <1>8, <1>14
  <2>7. reader.deleted < Cap => Cardinality(Missed') <= reader.deleted
    <3>1. CASE reader.page > 0
      BY <3>1, <1>1, <2>5 DEF Reading
    <3>2. CASE reader.page = 0
      BY <3>2, <1>14, <2>1
    <3> QED
      BY <2>1, <3>1, <3>2
  <2> QED
    BY <1>9, <1>12, <2>6, <2>7 DEF Reading
<1> QED
  BY <1>13, <1>14

\* A new ticket moves others away from those the reader has come past.
LEMMA TicketCreated ==
  ASSUME Chronicle, Reading, NEW t \in Ticket, NEW at \in Instant, Create(t, at)
  PROVE  Chronicle' /\ Reading'
<1> DEFINE N == Len(order)
<1>1. /\ order \in Seq(Ticket) /\ N \in Nat /\ DOMAIN order = 1..N /\ at \in 0..729
      /\ \A i \in 1..N : order[i] \in Ticket
  BY BoundsAssumption DEF Chronicle
<1>0. \A i \in 1..N : order[i] # t /\ created[order[i]] <= at
  BY <1>1 DEF Create, Live
<1>2. /\ order' \in Seq(Ticket) /\ Len(order') = N + 1 /\ order'[N + 1] = t
      /\ \A i \in 1..N : order'[i] = order[i]
  BY <1>1 DEF Create
<1>3. /\ created' \in [Ticket -> 0..729] /\ created'[t] = at
      /\ \A i \in 1..N : created'[order[i]] = created[order[i]] /\ created[order[i]] <= at
  <2>1. created \in [Ticket -> 0..729] /\ created' = [created EXCEPT ![t] = at]
    BY DEF Create, Chronicle
  <2> QED
    BY <1>0, <1>1, <2>1
<1>4. Chronicle'
  <2>1. ASSUME NEW i \in 1..(N + 1), NEW j \in 1..(N + 1), i # j PROVE order'[i] # order'[j]
    BY <1>0, <1>1, <1>2, <2>1 DEF Chronicle
  <2>2. ASSUME NEW i \in 1..(N + 1), NEW j \in 1..(N + 1), i < j
        PROVE  created'[order'[i]] <= created'[order'[j]]
    <3>1. CASE j = N + 1
      <4>1. i \in 1..N
        BY <1>1, <2>2, <3>1
      <4> QED
        BY <1>2, <1>3, <3>1, <4>1
    <3>2. CASE j # N + 1
      <4>1. i \in 1..N /\ j \in 1..N
        BY <1>1, <2>2, <3>2
      <4> QED
        BY <1>2, <1>3, <2>2, <4>1 DEF Chronicle
    <3> QED
      BY <3>1, <3>2
  <2> QED
    BY <1>2, <1>3, <2>1, <2>2 DEF Chronicle
<1>5. UNCHANGED reader /\ Past' = Past /\ Past \in Nat /\ t \notin reader.wanted
  BY MissedFinite DEF Create, Past
<1>6. ASSUME NEW u \in Newest(Past)', u # t PROVE u \in Newest(Past)
  <2>1. PICK k \in 1..(N + 1) : u = order'[k] /\ N + 1 + 1 - k <= Past
    BY <1>2, <1>5 DEF Newest
  <2>2. k \in 1..N /\ u = order[k] /\ N + 1 - k <= Past
    BY <1>1, <1>2, <1>5, <1>6, <2>1
  <2> QED
    BY <2>2 DEF Newest
<1>7. Missed' \in SUBSET Missed
  BY <1>5, <1>6 DEF Missed
<1>8. Cardinality(Missed') <= Cardinality(Missed) /\ Cardinality(Missed') \in Nat /\ Cardinality(Missed) \in Nat
  BY <1>7, MissedFinite, FS_Subset, FS_CardinalityType
<1>9. Cap \in Nat
  BY BoundsAssumption
<1> QED
  BY <1>4, <1>5, <1>8, <1>9 DEF Reading

\* Of the tickets past which the reader has come, a deletion moves one more there.
LEMMA TicketDeleted ==
  ASSUME Chronicle, Reading, NEW t \in Ticket, Delete(t)
  PROVE  Chronicle' /\ Reading'
<1> DEFINE N == Len(order)
<1>1. PICK d \in 1..N : order[d] = t /\ order' = SubSeq(order, 1, d - 1) \o SubSeq(order, d + 1, N)
  <2>1. DOMAIN order = 1..N
    BY DEF Chronicle
  <2> QED
    BY <2>1 DEF Delete
<1>2. /\ order \in Seq(Ticket) /\ N \in Nat /\ d \in 1..N
      /\ \A i \in 1..N : order[i] \in Ticket /\ (i # d => order[i] # t)
  BY <1>1 DEF Chronicle
<1> DEFINE at(i) == IF i < d THEN i ELSE i + 1
<1>3. /\ order' \in Seq(Ticket) /\ Len(order') = N - 1
      /\ \A i \in 1..(N - 1) : order'[i] = order[at(i)]
  <2> DEFINE older == SubSeq(order, 1, d - 1)
             newer == SubSeq(order, d + 1, N)
  <2>1. /\ older \in Seq(Ticket) /\ Len(older) = d - 1 /\ \A i \in 1..(d - 1) : older[i] = order[i]
    BY <1>2
  <2>2. /\ newer \in Seq(Ticket) /\ Len(newer) = N - d /\ \A i \in 1..(N - d) : newer[i] = order[d + i]
    BY <1>2
  <2> HIDE DEF older, newer
  <2>3. order' = older \o newer
    BY <1>1 DEF older, newer
  <2>4. /\ order' \in Seq(Ticket) /\ Len(order') = N - 1
        /\ \A i \in 1..(N - 1) : order'[i] = IF i <= d - 1 THEN older[i] ELSE newer[i - (d - 1)]
    <3>1. Len(older) + Len(newer) = N - 1
      BY <1>2, <2>1, <2>2
    <3>2. /\ order' \in Seq(Ticket) /\ Len(order') = Len(older) + Len(newer)
          /\ \A i \in 1..(Len(older) + Len(newer)) :
                order'[i] = IF i <= Len(older) THEN older[i] ELSE newer[i - Len(older)]
      BY <2>1, <2>2, <2>3, ConcatProperties
    <3> QED
      BY <2>1, <2>2, <3>1, <3>2
  <2>5. ASSUME NEW i \in 1..(N - 1) PROVE order'[i] = order[at(i)]
    <3>1. CASE i < d
      BY <1>2, <2>1, <2>4, <3>1
    <3>2. CASE i >= d
      <4>1. i - (d - 1) \in 1..(N - d) /\ d + (i - (d - 1)) = i + 1
        BY <1>2, <3>2
      <4> QED
        BY <1>2, <2>2, <2>4, <3>2, <4>1
    <3> QED
      BY <1>2, <3>1, <3>2
  <2> QED
    BY <2>4, <2>5
<1>4. /\ \A i \in 1..(N - 1) : at(i) \in 1..N /\ at(i) # d
      /\ \A i, j \in 1..(N - 1) : i < j => at(i) < at(j)
      /\ \A i, j \in 1..(N - 1) : i # j => at(i) # at(j)
  BY <1>2
<1>5. created' \in [Ticket -> 0..729] /\ \A i \in 1..N : i # d => created'[order[i]] = created[order[i]]
  <2>1. created \in [Ticket -> 0..729] /\ created' = [created EXCEPT ![t] = 0]
    BY DEF Delete, Chronicle
  <2>2. ASSUME NEW i \in 1..N, i # d PROVE created'[order[i]] = created[order[i]]
    <3>1. order[i] \in Ticket /\ order[i] # t
      BY <1>2, <2>2
    <3> QED
      BY <2>1, <3>1
  <2>3. created' \in [Ticket -> 0..729]
    <3>1. 0 \in 0..729
      OBVIOUS
    <3> QED
      BY <2>1, <3>1, Zenon
  <2> QED
    BY <2>2, <2>3
<1> HIDE DEF at
<1>6. Chronicle'
  <2>1. ASSUME NEW i \in 1..(N - 1), NEW j \in 1..(N - 1), i # j PROVE order'[i] # order'[j]
    BY <1>3, <1>4, <2>1 DEF Chronicle
  <2>2. ASSUME NEW i \in 1..(N - 1), NEW j \in 1..(N - 1), i < j
        PROVE  created'[order'[i]] <= created'[order'[j]]
    <3>1. at(i) \in 1..N /\ at(j) \in 1..N /\ at(i) < at(j) /\ at(i) # d /\ at(j) # d
      BY <1>4, <2>2
    <3> QED
      BY <1>3, <1>5, <3>1 DEF Chronicle
  <2> QED
    BY <1>3, <1>5, <2>1, <2>2 DEF Chronicle
<1>7. Past' = Past /\ Past \in Nat /\ UNCHANGED <<reader.wanted, reader.shown>>
  <2>1. reader' = reader \/ reader' = [reader EXCEPT !.deleted = @ + 1]
    BY DEF Delete
  <2>2. reader'.page = reader.page /\ reader'.of = reader.of /\ UNCHANGED <<reader.wanted, reader.shown>>
    BY <2>1 DEF Reading
  <2> QED
    BY <2>2, MissedFinite DEF Past
<1>8. ASSUME NEW u \in Newest(Past)' PROVE u \in Newest(Past) \cup {order[N - Past]}
  <2>0. PICK k \in 1..(N - 1) : u = order'[k] /\ Len(order') + 1 - k <= Past
    BY <1>3, <1>7 DEF Newest
  <2>1. k \in 1..(N - 1) /\ u = order[at(k)] /\ N - k <= Past
    BY <1>2, <1>3, <2>0
  <2>2. at(k) \in 1..N /\ (N + 1 - at(k) <= Past \/ at(k) = N - Past)
    BY <1>2, <1>7, <2>1 DEF at
  <2> QED
    BY <2>1, <2>2 DEF Newest
<1> DEFINE more == Missed \cup {order[N - Past]}
<1>9. Missed' \in SUBSET more
  BY <1>7, <1>8 DEF Missed
<1>10. IsFiniteSet(more) /\ Cardinality(more) <= Cardinality(Missed) + 1 /\ Cardinality(Missed) \in Nat
  <2>1. IsFiniteSet(Missed)
    BY MissedFinite
  <2>2. Cardinality(Missed) \in Nat
    BY <2>1, FS_CardinalityType
  <2>3. IsFiniteSet(more) /\ Cardinality(more) \in {Cardinality(Missed), Cardinality(Missed) + 1}
    BY <2>1, FS_AddElement
  <2> QED
    BY <2>2, <2>3
<1> HIDE DEF more
<1>11. Cardinality(Missed') \in Nat /\ Cardinality(Missed') <= Cardinality(more) /\ Cardinality(more) \in Nat
  BY <1>9, <1>10, FS_Subset, FS_CardinalityType
<1>12. /\ reader' \in [page : Nat, of : Nat, shown : SUBSET Ticket, wanted : SUBSET Ticket, deleted : 0..Cap]
       /\ reader'.page = reader.page /\ reader'.of = reader.of
       /\ reader.page > 0 /\ reader.deleted < Cap => reader'.deleted = reader.deleted + 1
       /\ reader.deleted = Cap => reader'.deleted = Cap
  <2>1. CASE reader.page > 0 /\ reader.deleted < Cap
    <3>1. reader' = [reader EXCEPT !.deleted = reader.deleted + 1]
      BY <2>1 DEF Delete
    <3>2. reader.deleted + 1 \in 0..Cap /\ reader.deleted # Cap
      BY <2>1, BoundsAssumption DEF Reading
    <3> QED
      BY <2>1, <3>1, <3>2 DEF Reading
  <2>2. CASE ~(reader.page > 0 /\ reader.deleted < Cap)
    BY <2>2 DEF Delete, Reading
  <2> QED
    BY <2>1, <2>2
<1>13. Cap \in Nat
  BY BoundsAssumption
<1> QED
  BY <1>6, <1>10, <1>11, <1>12, <1>13 DEF Reading

(***************************************************************************)
(* The keys of the activity chart.                                         *)
(***************************************************************************)

\* Two places of a number, in front of a key, order it.
LEMMA PaddedFirst ==
  ASSUME NEW m \in Nat, NEW n \in Nat, m <= n
  PROVE  m = n \/ Padded(m)[1] < Padded(n)[1] \/ (Padded(m)[1] = Padded(n)[1] /\ Padded(m)[2] < Padded(n)[2])
  BY DEF Padded

\* Two keys of one number each are in the order of the numbers.
LEMMA PaddedPrecedes ==
  ASSUME NEW m \in Nat, NEW n \in Nat, m <= n
  PROVE  Precedes(Padded(m), Padded(n))
<1>1. Len(Padded(m)) = 2 /\ Len(Padded(n)) = 2
  BY DEF Padded
<1>2. CASE m = n
  BY <1>2 DEF Precedes
<1>3. CASE Padded(m)[1] < Padded(n)[1]
  BY <1>1, <1>3 DEF Precedes
<1>4. CASE Padded(m)[1] = Padded(n)[1] /\ Padded(m)[2] < Padded(n)[2]
  BY <1>1, <1>4 DEF Precedes
<1> QED
  BY <1>2, <1>3, <1>4, PaddedFirst

\* Two keys of two numbers each are in the order of the first places that differ.
LEMMA PrecedesAt ==
  ASSUME NEW x, NEW y, Len(x) = 4, Len(y) = 4, NEW k \in 1..4, \A i \in 1..(k - 1) : x[i] = y[i], x[k] < y[k]
  PROVE  Precedes(x, y)
  BY DEF Precedes

\* The month of a day is the last one that has begun.
LEMMA MonthOf ==
  ASSUME NEW on \in 0..364
  PROVE  /\ Month(on) \in 1..12 /\ MonthStart[Month(on)] <= on
         /\ \A m \in 1..12 : MonthStart[m] <= on => m <= Month(on)
<1> DEFINE In(m) == MonthStart[m] <= on /\ (m = 12 \/ on < MonthStart[m + 1])
<1>1. \E m \in 1..12 : In(m)
  BY DEF MonthStart
<1>2. Month(on) \in 1..12 /\ In(Month(on))
  <2>1. Month(on) = CHOOSE m \in 1..12 : In(m)
    BY DEF Month
  <2> HIDE DEF In
  <2> QED
    BY <1>1, <2>1
<1>3. \A m, n \in 1..12 : m < n => MonthStart[m + 1] <= MonthStart[n] /\ MonthStart[n] \in Nat
  BY DEF MonthStart
<1> HIDE DEF In
<1>4. ASSUME NEW m \in 1..12, MonthStart[m] <= on, Month(on) < m PROVE FALSE
  <2>1. Month(on) # 12 /\ Month(on) \in 1..12
    BY <1>2, <1>4
  <2>2. on < MonthStart[Month(on) + 1]
    BY <1>2, <2>1 DEF In
  <2>3. MonthStart[Month(on) + 1] <= MonthStart[m] /\ Month(on) + 1 \in 1..12
    BY <1>3, <1>4, <2>1
  <2>4. MonthStart[m] \in Nat /\ MonthStart[Month(on) + 1] \in Nat
    BY <2>3 DEF MonthStart
  <2> QED
    BY <1>4, <2>2, <2>3, <2>4
<1> QED
  BY <1>2, <1>4 DEF In

\* The key of a later creation does not come before that of an earlier one.
LEMMA KeysInOrder ==
  ASSUME NEW a \in 0..729, NEW b \in 0..729, a <= b, NEW g \in GroupBy
  PROVE  Precedes(BucketKey(a, g), BucketKey(b, g))
<1> DEFINE first == a \div 2
           second == b \div 2
           m == Month(first)
           n == Month(second)
<1>1. first \in 0..364 /\ second \in 0..364 /\ first <= second
  OBVIOUS
<1> HIDE DEF first, second
<1>2. m \in 1..12 /\ n \in 1..12 /\ m <= n /\ MonthStart[m] <= first /\ MonthStart[n] <= second
      /\ MonthStart[m] \in Nat /\ MonthStart[n] \in Nat
  <2>1. \A k \in 1..12 : MonthStart[k] \in Nat
    BY DEF MonthStart
  <2>2. m \in 1..12 /\ MonthStart[m] <= first
    BY <1>1, MonthOf
  <2>3. n \in 1..12 /\ MonthStart[n] <= second /\ \A k \in 1..12 : MonthStart[k] <= second => k <= n
    BY <1>1, MonthOf
  <2> HIDE DEF m, n
  <2> QED
    BY <1>1, <2>1, <2>2, <2>3
<1>3. CASE g = "week"
  <2> DEFINE weekOf(at) == (at + 2 * (FirstDay + 1) + 13) \div 14
  <2>1. weekOf(a) \in Nat /\ weekOf(b) \in Nat /\ weekOf(a) <= weekOf(b)
    BY BoundsAssumption
  <2>2. BucketKey(a, g) = Padded(weekOf(a)) /\ BucketKey(b, g) = Padded(weekOf(b))
    BY <1>3 DEF BucketKey
  <2> QED
    BY <2>1, <2>2, PaddedPrecedes
<1>4. CASE g = "month"
  <2>1. BucketKey(a, g) = Padded(m) /\ BucketKey(b, g) = Padded(n)
    BY <1>4 DEF BucketKey, first, second
  <2> QED
    BY <1>2, <2>1, PaddedPrecedes
<1>5. CASE g = "day"
  <2> DEFINE d == first - MonthStart[m] + 1
             e == second - MonthStart[n] + 1
  <2>1. BucketKey(a, g) = Padded(m) \o Padded(d) /\ BucketKey(b, g) = Padded(n) \o Padded(e)
    BY <1>5 DEF BucketKey, first, second
  <2>2. d \in Nat /\ e \in Nat /\ (m = n => d <= e)
    BY <1>1, <1>2
  <2> HIDE DEF d, e, m, n
  <2>3. ASSUME NEW k \in Nat, NEW l \in Nat
        PROVE  /\ Len(Padded(k) \o Padded(l)) = 4
               /\ (Padded(k) \o Padded(l))[1] = Padded(k)[1] /\ (Padded(k) \o Padded(l))[2] = Padded(k)[2]
               /\ (Padded(k) \o Padded(l))[3] = Padded(l)[1] /\ (Padded(k) \o Padded(l))[4] = Padded(l)[2]
    BY DEF Padded
  <2>4. m \in Nat /\ n \in Nat
    BY <1>2
  <2> DEFINE x == Padded(m) \o Padded(d)
             y == Padded(n) \o Padded(e)
  <2>5. Len(x) = 4 /\ Len(y) = 4 /\ x[1] = Padded(m)[1] /\ x[2] = Padded(m)[2] /\ x[3] = Padded(d)[1]
        /\ x[4] = Padded(d)[2] /\ y[1] = Padded(n)[1] /\ y[2] = Padded(n)[2] /\ y[3] = Padded(e)[1]
        /\ y[4] = Padded(e)[2]
    BY <2>2, <2>3, <2>4
  <2>6. x = y \/ x[1] < y[1] \/ (x[1] = y[1] /\ x[2] < y[2])
        \/ (x[1] = y[1] /\ x[2] = y[2] /\ x[3] < y[3])
        \/ (x[1] = y[1] /\ x[2] = y[2] /\ x[3] = y[3] /\ x[4] < y[4])
    <3>1. CASE m # n
      BY <1>2, <2>4, <2>5, <3>1, PaddedFirst
    <3>2. CASE m = n
      <4>1. \/ d = e
            \/ Padded(d)[1] < Padded(e)[1]
            \/ Padded(d)[1] = Padded(e)[1] /\ Padded(d)[2] < Padded(e)[2]
        BY <2>2, <3>2, PaddedFirst
      <4> QED
        BY <2>5, <3>2, <4>1
    <3> QED
      BY <3>1, <3>2
  <2> HIDE DEF x, y
  <2>7. x = y => Precedes(x, y)
    BY DEF Precedes
  <2>8. x[1] < y[1] => Precedes(x, y)
    <3>1. \A i \in 1..(1 - 1) : x[i] = y[i]
      OBVIOUS
    <3> QED
      BY <2>5, <3>1, PrecedesAt
  <2>9. x[1] = y[1] /\ x[2] < y[2] => Precedes(x, y)
    <3>1. x[1] = y[1] => \A i \in 1..(2 - 1) : x[i] = y[i]
      OBVIOUS
    <3> QED
      BY <2>5, <3>1, PrecedesAt
  <2>10. x[1] = y[1] /\ x[2] = y[2] /\ x[3] < y[3] => Precedes(x, y)
    <3>1. x[1] = y[1] /\ x[2] = y[2] => \A i \in 1..(3 - 1) : x[i] = y[i]
      OBVIOUS
    <3> QED
      BY <2>5, <3>1, PrecedesAt
  <2>11. x[1] = y[1] /\ x[2] = y[2] /\ x[3] = y[3] /\ x[4] < y[4] => Precedes(x, y)
    <3>1. x[1] = y[1] /\ x[2] = y[2] /\ x[3] = y[3] => \A i \in 1..(4 - 1) : x[i] = y[i]
      OBVIOUS
    <3> QED
      BY <2>5, <3>1, PrecedesAt
  <2> QED
    BY <2>1, <2>6, <2>7, <2>8, <2>9, <2>10, <2>11 DEF x, y
<1> QED
  BY <1>3, <1>4, <1>5, BoundsAssumption

\* The tickets are in the order of their creation, and so are their keys.
LEMMA ChartInOrder ==
  ASSUME Chronicle
  PROVE  ActivityInOrder
<1>1. SUFFICES ASSUME NEW i \in DOMAIN order, NEW j \in DOMAIN order, i < j, NEW g \in GroupBy
               PROVE  Precedes(BucketKey(created[order[i]], g), BucketKey(created[order[j]], g))
  BY DEF ActivityInOrder
<1>2. /\ created[order[i]] \in 0..729 /\ created[order[j]] \in 0..729
      /\ created[order[i]] <= created[order[j]]
  BY <1>1 DEF Chronicle
<1> QED
  BY <1>2, KeysInOrder

\* Requests about schedules are no concern of the reader.
LEMMA ReadingStep ==
  ASSUME Chronicle, Reading, [UpkeepNext]_upkeepVars
  PROVE  Chronicle' /\ Reading'
<1>1. ASSUME UNCHANGED Pages PROVE Chronicle' /\ Reading'
  <2>0. UNCHANGED order /\ UNCHANGED created /\ UNCHANGED reader
    BY <1>1 DEF Pages
  <2>1. Chronicle' /\ Past' = Past /\ \A b : Newest(b)' = Newest(b)
    BY <2>0 DEF Chronicle, Newest, Past
  <2>2. Missed' = Missed
    BY <2>0, <2>1 DEF Missed
  <2> QED
    BY <2>0, <2>1, <2>2 DEF Reading
<1>2. CASE DevicesTurn \/ LinksTurn \/ DecisionsTurn \/ UNCHANGED upkeepVars
  BY <1>1, <1>2 DEF DevicesTurn, LinksTurn, DecisionsTurn, upkeepVars, reportVars, Pages
<1>3. CASE ReportsTurn
  <2>1. CASE ReportsBegin
    BY <1>1, <2>1 DEF ReportsBegin, CreateDefinition, DeleteDefinition, CreateSchedule, UpdateSchedule,
       DeleteSchedule, FallDue, RunDue
  <2>2. CASE ReportsResume
    BY <1>1, <2>2 DEF ReportsResume, WriteSchedule, Send, Record
  <2>3. CASE \E p \in Runner : RunLost(p)
    BY <1>1, <2>3 DEF RunLost
  <2>4. CASE TicketsComeAndGo
    <3>1. CASE Live # Ticket /\ \E at \in Instant : Create(CHOOSE t \in Ticket : t \notin Live, at)
      <4>1. Live \subseteq Ticket
        BY DEF Live, Chronicle
      <4>2. (CHOOSE t \in Ticket : t \notin Live) \in Ticket
        BY <3>1, <4>1
      <4> QED
        BY <3>1, <4>2, TicketCreated
    <3> QED
      BY <2>4, <3>1, TicketDeleted, PageShown DEF TicketsComeAndGo
  <2> QED
    BY <1>3, <2>1, <2>2, <2>3, <2>4 DEF ReportsTurn
<1> QED
  BY <1>2, <1>3 DEF UpkeepNext

LEMMA ReadingBegins == ReportsInit => Chronicle /\ Reading
<1> SUFFICES ASSUME ReportsInit PROVE Chronicle /\ Reading
  OBVIOUS
<1>1. order = <<>> /\ created = [t \in Ticket |-> 0]
      /\ reader = [page |-> 0, of |-> 0, shown |-> {}, wanted |-> {}, deleted |-> 0] /\ Cap \in Nat
  BY BoundsAssumption DEF ReportsInit
<1>2. Chronicle
  BY <1>1 DEF Chronicle
<1>3. Reading
  BY <1>1 DEF Reading
<1> QED
  BY <1>2, <1>3

\* Of the ticket report of reports.service.ts, for any cap and page size: a reader of all
\* pages, while tickets come and go, misses no more of those the report still has than were
\* deleted on the way; and by day, week or month the chart is in the order of time.
THEOREM ReportsAlwaysRead == UpkeepSpec => []ReportsRead
<1>1. UpkeepInit => Chronicle /\ Reading
  BY ReadingBegins DEF UpkeepInit
<1>2. (Chronicle /\ Reading) /\ [UpkeepNext]_upkeepVars => (Chronicle /\ Reading)'
  BY ReadingStep
<1>3. Chronicle /\ Reading => ReportsRead
  BY MissesFew, ChartInOrder DEF ReportsRead
<1> QED
  BY <1>1, <1>2, <1>3, PTL DEF UpkeepSpec
=============================================================================
