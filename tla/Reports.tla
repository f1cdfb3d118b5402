------------------------------- MODULE Reports -------------------------------
(***************************************************************************)
(* Reports (reports.service.ts): saved definitions, the schedules that     *)
(* mail them, the timer that runs what is due, and the ticket report that  *)
(* is read page by page while tickets come and go.                         *)
(*                                                                         *)
(* A schedule's nextRunAt is "due" or "later"; of the due ones it is known *)
(* which became due before which.  A ticket's creation is an instant, in  *)
(* half days of a year; what a report says of the other fields is left out.*)
(***************************************************************************)
EXTENDS Requests, Sequences

CONSTANTS Definition, Schedule, Ticket,
          Editor, Runner,          \* request slots, runs of the timer
          MaxTaken,                \* schedules taken by a run (10)
          Cap, PageSize,           \* tickets in a report (2000), on a page
          Instant, FirstDay,       \* creations that occur; the weekday of January 1st
          GroupBy                  \* groupings looked at

ASSUME BoundsAssumption ==
    /\ MaxTaken \in Nat \ {0} /\ Cap \in Nat \ {0} /\ PageSize \in Nat \ {0}
    /\ Instant \subseteq 0..729 /\ FirstDay \in 0..6 /\ GroupBy \subseteq {"day", "week", "month"}

VARIABLES
    definition,     \* report_definitions
    schedule,       \* report_schedules
    ahead,          \* of each due one those due before it, by nextRunAt
    mails,          \* since a schedule became due; counted up to 2
    created,        \* tickets: createdAt
    order,          \* tickets in the order of their creation
    reader,         \* the page last shown to a reader of the report
    edit, runs      \* requests in progress

reportVars == <<definition, schedule, ahead, mails, created, order, reader, edit, runs>>

ScheduleRow == [definition : Definition, active : BOOLEAN, next : {"none", "later", "due"}]

\* Schedules that are due, active or not.
Waiting == {s \in Present(schedule) : schedule[s].next = "due"}

ReportsTypeOK ==
    /\ definition \subseteq Definition
    /\ schedule \in [Schedule -> ScheduleRow \cup {Absent}]
    /\ \A s \in Present(schedule) : schedule[s].definition \in definition
    /\ ahead \in [Schedule -> SUBSET Waiting]
    /\ \A s \in Schedule : s \notin ahead[s] /\ (s \notin Waiting => ahead[s] = {})
    /\ \A s, t \in Waiting : s # t => (s \in ahead[t] <=> t \notin ahead[s])
    /\ mails \in [Schedule -> 0..2]
    /\ created \in [Ticket -> Nat]

ReportsInit ==
    /\ definition = {} /\ schedule = [s \in Schedule |-> Absent]
    /\ ahead = [s \in Schedule |-> {}] /\ mails = [s \in Schedule |-> 0]
    /\ created = [t \in Ticket |-> 0] /\ order = <<>>
    /\ reader = [page |-> 0, of |-> 0, shown |-> {}, wanted |-> {}, deleted |-> 0]
    /\ edit = [e \in Editor |-> Idle] /\ runs = [p \in Runner |-> Idle]

Without(S) == [s \in Schedule |-> IF s \in S THEN {} ELSE ahead[s] \ S]
Schedules == <<definition, schedule, ahead, mails>>
Pages == <<created, order, reader>>
Live == {order[i] : i \in DOMAIN order}

(***************************************************************************)
(* Definitions and schedules.                                              *)
(***************************************************************************)

CreateDefinition(d) ==
    /\ d \notin definition
    /\ definition' = definition \cup {d}
    /\ UNCHANGED <<schedule, ahead, mails, Pages, edit, runs>>

\* The schedules go with it.
DeleteDefinition(d) ==
    /\ d \in definition
    /\ definition' = definition \ {d}
    /\ LET lost == {s \in Present(schedule) : schedule[s].definition = d} IN
       /\ schedule' = [s \in Schedule |-> IF s \in lost THEN Absent ELSE schedule[s]]
       /\ ahead' = Without(lost)
    /\ UNCHANGED <<mails, Pages, edit, runs>>

CreateSchedule(s, d, active) ==
    /\ schedule[s] = Absent /\ d \in definition
    /\ \A p \in Runner : runs[p] # Idle => s \notin {runs[p].left[i] : i \in DOMAIN runs[p].left}   \* a new id
    /\ \A e \in Editor : edit[e] # Idle => edit[e].schedule # s
    /\ schedule' = [schedule EXCEPT ![s] = [definition |-> d, active |-> active,
                                            next |-> IF active THEN "later" ELSE "none"]]
    /\ mails' = [mails EXCEPT ![s] = 0]
    /\ UNCHANGED <<definition, ahead, Pages, edit, runs>>

\* ensureScheduleAccess reads the row; "keep" leaves isActive as it was read.
UpdateSchedule(e, s, active) ==
    /\ edit[e] = Idle /\ schedule[s] # Absent
    /\ edit' = [edit EXCEPT ![e] =
                  [op |-> "write", schedule |-> s, sets |-> active # "keep",
                   active |-> IF active = "keep" THEN schedule[s].active ELSE active = "on"]]
    /\ UNCHANGED <<Schedules, Pages, runs>>

\* Mutant: nextRunAt moved only for an active schedule, never cleared or set anew.
WriteFlag(e) ==
    /\ edit[e].op = "write"
    /\ LET q == edit[e] IN
       schedule' = IF schedule[q.schedule] = Absent THEN schedule
                   ELSE [schedule EXCEPT ![q.schedule].active = IF q.sets THEN q.active ELSE @]
    /\ edit' = [edit EXCEPT ![e] = Idle]
    /\ UNCHANGED <<definition, ahead, mails, Pages, runs>>

\* isActive is written when given; nextRunAt always, by what was read.
WriteSchedule(e) ==
    /\ edit[e].op = "write"
    /\ LET q == edit[e] IN
       IF schedule[q.schedule] = Absent THEN UNCHANGED <<schedule, ahead, mails>>
       ELSE /\ schedule' = [schedule EXCEPT ![q.schedule].active = IF q.sets THEN q.active ELSE @,
                                            ![q.schedule].next = IF q.active THEN "later" ELSE "none"]
            /\ ahead' = Without({q.schedule})
            /\ mails' = [mails EXCEPT ![q.schedule] = 0]
    /\ edit' = [edit EXCEPT ![e] = Idle]
    /\ UNCHANGED <<definition, Pages, runs>>

DeleteSchedule(s) ==
    /\ schedule[s] # Absent
    /\ schedule' = [schedule EXCEPT ![s] = Absent]
    /\ ahead' = Without({s})
    /\ UNCHANGED <<definition, mails, Pages, edit, runs>>

\* nextRunAt passes.
FallDue(s) ==
    /\ schedule[s] # Absent /\ schedule[s].next = "later"
    /\ schedule' = [schedule EXCEPT ![s].next = "due"]
    /\ ahead' = [ahead EXCEPT ![s] = Waiting]
    /\ mails' = [mails EXCEPT ![s] = 0]
    /\ UNCHANGED <<definition, Pages, edit, runs>>

(***************************************************************************)
(* runDueSchedules: every minute, whether or not the last run has ended.   *)
(***************************************************************************)

Runs(p, q) == runs' = [runs EXCEPT ![p] = q]
Rest(p, left) == IF left = <<>> THEN Idle ELSE [op |-> "send", left |-> left]

\* The active ones that are due, and the first of them that a run takes.
Due == {s \in Waiting : schedule[s].active}
Taken == {s \in Due : Cardinality(ahead[s] \cap Due) < MaxTaken}

RunDue(p) ==
    /\ runs[p] = Idle
    /\ \E n \in 1..MaxTaken : \E left \in [1..n -> Taken] :
          /\ {left[i] : i \in 1..n} = Taken
          /\ \A i, j \in 1..n : i < j => left[i] \in ahead[left[j]]
          /\ Runs(p, Rest(p, left))
    /\ UNCHANGED <<Schedules, Pages, edit>>

\* sendTicketsReport and its like: the report is made and mailed, then logged for each
\* recipient; what fails after the mail went counts as failed too.
Send(p) ==
    /\ runs[p].op = "send"
    /\ \E mailed \in BOOLEAN, outcome \in {"sent", "failed"} :
          /\ outcome = "sent" => mailed
          /\ mails' = [mails EXCEPT ![Head(runs[p].left)] = IF mailed /\ @ < 2 THEN @ + 1 ELSE @]
          /\ Runs(p, [op |-> "record", left |-> runs[p].left, outcome |-> outcome])
    /\ UNCHANGED <<definition, schedule, ahead, Pages, edit>>

\* Mutant: a failure leaves nextRunAt, to be tried again.
RecordSent(p) ==
    /\ runs[p].op = "record"
    /\ LET s == Head(runs[p].left) IN
       IF schedule[s] = Absent
       THEN /\ Runs(p, Idle)
            /\ UNCHANGED <<schedule, ahead>>
       ELSE /\ IF runs[p].outcome = "failed" THEN UNCHANGED <<schedule, ahead>>
               ELSE /\ schedule' = [schedule EXCEPT ![s].next = "later"]
                    /\ ahead' = Without({s})
            /\ Runs(p, Rest(p, Tail(runs[p].left)))
    /\ UNCHANGED <<definition, mails, Pages, edit>>

\* lastStatus and nextRunAt, active or not by now; for a schedule deleted meanwhile the
\* update throws, in the catch block again, and the rest of the run is dropped.
Record(p) ==
    /\ runs[p].op = "record"
    /\ LET s == Head(runs[p].left) IN
       IF schedule[s] = Absent
       THEN /\ Runs(p, Idle)
            /\ UNCHANGED <<schedule, ahead>>
       ELSE /\ schedule' = [schedule EXCEPT ![s].next = "later"]
            /\ ahead' = Without({s})
            /\ Runs(p, Rest(p, Tail(runs[p].left)))
    /\ UNCHANGED <<definition, mails, Pages, edit>>

\* A restart: the run is lost, what was sent stays due.
RunLost(p) ==
    /\ runs[p] # Idle
    /\ Runs(p, Idle)
    /\ UNCHANGED <<Schedules, Pages, edit>>

(***************************************************************************)
(* The ticket report.                                                      *)
(***************************************************************************)

Create(t, at) ==
    /\ t \notin Live /\ \A i \in DOMAIN order : created[order[i]] <= at
    /\ t \notin reader.wanted          \* a new id
    /\ created' = [created EXCEPT ![t] = at]
    /\ order' = Append(order, t)
    /\ UNCHANGED <<Schedules, reader, edit, runs>>

Delete(t) ==
    /\ t \in Live
    /\ created' = [created EXCEPT ![t] = 0]
    /\ \E i \in DOMAIN order :
          order[i] = t /\ order' = SubSeq(order, 1, i - 1) \o SubSeq(order, i + 1, Len(order))
    /\ reader' = IF reader.page > 0 /\ reader.deleted < Cap THEN [reader EXCEPT !.deleted = @ + 1] ELSE reader   \* bound: past Cap it says nothing
    /\ UNCHANGED <<Schedules, edit, runs>>

\* Newest first, at most so many (ticketSummary).
Matched ==
    LET n == Len(order) IN [i \in 1..(IF n < Cap THEN n ELSE Cap) |-> order[n + 1 - i]]

\* Mutant: a last page that is not full is forgotten.
FullPages(matched, asked) ==
    LET pages == IF matched < PageSize THEN 1 ELSE matched \div PageSize
        page == IF asked > pages THEN pages ELSE asked
    IN  [page |-> page, of |-> pages, first |-> (page - 1) * PageSize + 1,
         last |-> IF page * PageSize < matched THEN page * PageSize ELSE matched]

\* resolveDetailPage: the page that is asked for, or the last one.
DetailPage(matched, asked) ==
    LET pages == IF matched = 0 THEN 1 ELSE (matched + PageSize - 1) \div PageSize
        page == IF asked > pages THEN pages ELSE asked
    IN  [page |-> page, of |-> pages, first |-> (page - 1) * PageSize + 1,
         last |-> IF page * PageSize < matched THEN page * PageSize ELSE matched]

ShowPage(asked) ==
    LET p == DetailPage(Len(Matched), asked)
        rows == {Matched[i] : i \in p.first..p.last}
        anew == asked = 1
        all == {Matched[i] : i \in DOMAIN Matched}
    IN  /\ asked \in {1, reader.page + 1}
        /\ asked <= 1 \/ asked <= reader.of
        /\ reader' = [page |-> p.page, of |-> p.of, shown |-> rows \cup IF anew THEN {} ELSE reader.shown,
                      wanted |-> IF anew THEN all ELSE reader.wanted,
                      deleted |-> IF anew THEN 0 ELSE reader.deleted]
        /\ UNCHANGED <<Schedules, created, order, edit, runs>>

Padded(n) == <<n \div 10, n % 10>>
\* Mutant: the number as it is.
Digits(n) == IF n < 10 THEN <<n>> ELSE <<n \div 10, n % 10>>

MonthStart == <<0, 31, 59, 90, 120, 151, 181, 212, 243, 273, 304, 334>>
Month(day) == CHOOSE m \in 1..12 : MonthStart[m] <= day /\ (m = 12 \/ day < MonthStart[m + 1])

\* Mutant: without padStart.
PlainKey(at, groupBy) ==
    LET day == at \div 2
        month == Month(day)
        week == (at + 2 * (FirstDay + 1) + 13) \div 14
    IN  CASE groupBy = "week" -> Digits(week)
          [] groupBy = "month" -> Digits(month)
          [] groupBy = "day" -> Digits(month) \o Digits(day - MonthStart[month] + 1)

\* bucketKey within one year: the week rounds up a quotient that has the time of day in it.
BucketKey(at, groupBy) ==
    LET day == at \div 2
        month == Month(day)
        week == (at + 2 * (FirstDay + 1) + 13) \div 14
    IN  CASE groupBy = "week" -> Padded(week)
          [] groupBy = "month" -> Padded(month)
          [] groupBy = "day" -> Padded(month) \o Padded(day - MonthStart[month] + 1)

\* localeCompare of two keys.
Precedes(a, b) ==
    \/ a = b
    \/ \E k \in 1..Len(b) :
          /\ k <= Len(a) + 1 /\ \A i \in 1..(k - 1) : a[i] = b[i]
          /\ k = Len(a) + 1 \/ a[k] < b[k]

ReportsBegin ==
    \/ \E d \in Definition : CreateDefinition(d) \/ DeleteDefinition(d)
    \/ \E s \in Schedule, d \in Definition, active \in BOOLEAN : CreateSchedule(s, d, active)
    \/ \E e \in Editor, s \in Schedule, active \in {"on", "off", "keep"} : UpdateSchedule(e, s, active)
    \/ \E s \in Schedule : DeleteSchedule(s) \/ FallDue(s)
    \/ \E p \in Runner : RunDue(p)

ReportsResume ==
    \/ \E e \in Editor : WriteSchedule(e)
    \/ \E p \in Runner : Send(p) \/ Record(p)

PagesBegin ==
    \/ \E t \in Ticket : Delete(t) \/ \E at \in Instant : Create(t, at)
    \/ \E asked \in 1..(Cap + 1) : ShowPage(asked)

(***************************************************************************)
(* Properties.                                                             *)
(***************************************************************************)

\* Runs overlapping with edits, but no edit with another: a schedule that is active has
\* its next run ahead of it or is due.
ActiveHasNext == \A s \in Present(schedule) : schedule[s].active => schedule[s].next # "none"

\* One run after the other, none lost: a schedule mails once each time it is due, also
\* when it could not write down that it did.
MailedOnce == \A s \in Schedule : mails[s] <= 1

\* With runs never lost from some time on, a due schedule does not wait behind others
\* that fail or are deleted: it runs, or is changed.
DueRuns ==
    \A s \in Schedule :
       schedule[s] # Absent /\ schedule[s].active /\ schedule[s].next = "due" ~>
          schedule[s] = Absent \/ ~schedule[s].active \/ schedule[s].next # "due"

\* A reader who pages through to the end while tickets come and go misses no more of
\* those the report still has than were deleted on the way.
ReaderMissesFew ==
    reader.page > 0 /\ reader.page = reader.of =>
       Cardinality({t \in reader.wanted : \E i \in DOMAIN Matched : Matched[i] = t} \ reader.shown) <= reader.deleted

\* The activity chart is in the order of time.
ActivityInOrder ==
    \A i, j \in DOMAIN order : i < j =>
       \A g \in GroupBy : Precedes(BucketKey(created[order[i]], g), BucketKey(created[order[j]], g))
==============================================================================
