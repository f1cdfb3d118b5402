------------------------------- MODULE Events -------------------------------
(***************************************************************************)
(* Event services (event-services.service.ts, -calendar, -attachments,     *)
(* external-specialists.service.ts): requests, their tasks, messages and   *)
(* uploads, the default form, and the entries in Microsoft calendars.      *)
(*                                                                         *)
(* Names, dates, templates and wording are left out.  A status mail goes   *)
(* out or does not: outbound mail off, no template, a provider that fails. *)
(* Microsoft's calendars and mail are external.                            *)
(***************************************************************************)
EXTENDS Requests

CONSTANTS Evt, Task, Note, File,     \* ids of requests, tasks, messages, uploads
          Crew, Outside,             \* users; external specialists
          Planner,                   \* request slots
          MaxEntries                 \* bound: calendar entries made

ASSUME NamesAssumption ==
    {"none", "keep"} \cap (Crew \cup Outside \cup Note) = {} /\ MaxEntries \in Nat

VARIABLES
    catalog,      \* "none", "bare" (form without fields) or "full"
    evt,          \* event_service_requests with their assignees
    guest,        \* external specialists assigned to a request
    listed,       \* external specialists not archived
    task,         \* event_service_tasks
    entries,      \* calendar entries, each with the owner it was made for
    note,         \* event_service_messages
    file,         \* event_service_attachments
    posted,       \* mails with a message handed to the provider
    told,         \* history: the status last mailed to the requester, and one that no
                  \* mail went out about since: of the opening or of a failed mail
    plan          \* requests in progress

eventVars == <<catalog, evt, guest, listed, task, entries, note, file, posted, told, plan>>
deskVars == <<catalog, guest, listed, task, entries, note, file, posted>>

None == "none"
EvtStatus == {"NEW", "ASSIGNED", "COMPLETED", "CANCELLED"}
EvtRow == [status : EvtStatus, deleted : BOOLEAN, public : BOOLEAN, crew : SUBSET Crew,
           completed : BOOLEAN, cancelled : BOOLEAN]
Notice == [mailed : EvtStatus \cup {None}, silent : EvtStatus \cup {None}]
TaskRow == [evt : Evt, user : Crew \cup {None}, outside : Outside \cup {None},
            entry : 0 .. MaxEntries]

EventsTypeOK ==
    /\ catalog \in {"none", "bare", "full"}
    /\ evt \in [Evt -> EvtRow \cup {Absent}]
    /\ guest \subseteq Evt \X Outside
    /\ listed \subseteq Outside
    /\ task \in [Task -> TaskRow \cup {Absent}]
    /\ entries \in [1 .. MaxEntries -> Crew \cup {None}]
    /\ note \in [Note -> [evt : Evt, public : BOOLEAN, files : SUBSET File] \cup {Absent}]
    /\ file \in [File -> [evt : Evt, note : Note \cup {None}, deleted : BOOLEAN] \cup {Absent}]
    /\ posted \subseteq Note
    /\ told \in [Evt -> Notice]

EventsInit ==
    /\ catalog = "none"
    /\ evt = [e \in Evt |-> Absent]
    /\ guest = {}
    /\ listed = Outside
    /\ task = [t \in Task |-> Absent]
    /\ entries = [i \in 1 .. MaxEntries |-> None]
    /\ note = [n \in Note |-> Absent]
    /\ file = [f \in File |-> Absent]
    /\ posted = {}
    /\ told = [e \in Evt |-> [mailed |-> None, silent |-> None]]
    /\ plan = [p \in Planner |-> Idle]

Plans(p, q) == plan' = [plan EXCEPT ![p] = q]
Found(e) == evt[e] # Absent /\ ~evt[e].deleted                          \* get

(***************************************************************************)
(* The public form and new requests.                                       *)
(***************************************************************************)

\* ensureDefaultCatalog in front of every public request: what it counted is in the slot.
Visit(p, e, crew) ==
    /\ plan[p] = Idle /\ evt[e] = Absent
    /\ \A q \in Planner : plan[q] # Idle => plan[q].evt # e
    /\ Plans(p, [op |-> "form", evt |-> e, crew |-> crew, saw |-> catalog])
    /\ UNCHANGED <<deskVars, evt, told>>

\* Mutant: the fields made only along with the form.
SeedTogether(p) ==
    /\ plan[p].op = "form"
    /\ IF plan[p].saw = "none" /\ catalog # "none" THEN Plans(p, Idle) /\ UNCHANGED catalog
       ELSE IF plan[p].saw = "none"
       THEN catalog' = "bare" /\ Plans(p, [plan[p] EXCEPT !.op = "fields"])
       ELSE UNCHANGED catalog /\ Plans(p, [plan[p] EXCEPT !.op = "submit"])
    /\ UNCHANGED <<evt, guest, listed, task, entries, note, file, posted, told>>

\* The form is created when none was found, which fails when another request made one;
\* its fields are counted after that.
SeedForm(p) ==
    /\ plan[p].op = "form"
    /\ IF plan[p].saw = "none" /\ catalog # "none"
       THEN Plans(p, Idle) /\ UNCHANGED catalog
       ELSE /\ catalog' = IF catalog = "none" THEN "bare" ELSE catalog
            /\ Plans(p, [plan[p] EXCEPT !.op = IF catalog = "full" THEN "submit" ELSE "fields"])
    /\ UNCHANGED <<evt, guest, listed, task, entries, note, file, posted, told>>

\* All default fields in one statement, which a field made meanwhile makes fail.
SeedFields(p) ==
    /\ plan[p].op = "fields"
    /\ Plans(p, IF catalog = "full" THEN Idle ELSE [plan[p] EXCEPT !.op = "submit"])
    /\ catalog' = "full"
    /\ UNCHANGED <<evt, guest, listed, task, entries, note, file, posted, told>>

Opening(crew) == IF crew = {} THEN "NEW" ELSE "ASSIGNED"

\* createPublicRequest: assigned to the users the chosen services name, if any.  The mail
\* that confirms it, which may fail unnoticed, names no status.
Submit(p) ==
    /\ plan[p].op = "submit"
    /\ LET q == plan[p] IN
       evt' = [evt EXCEPT ![q.evt] =
                 [status |-> Opening(q.crew), deleted |-> FALSE, public |-> TRUE,
                  crew |-> q.crew, completed |-> FALSE, cancelled |-> FALSE]]
    /\ told' = [told EXCEPT ![plan[p].evt].silent = Opening(plan[p].crew)]
    /\ Plans(p, Idle)
    /\ UNCHANGED deskVars

\* create, by a user who chose among the services; nothing is sent.
Create(e, crew) ==
    /\ catalog # "none" /\ evt[e] = Absent
    /\ \A q \in Planner : plan[q] # Idle => plan[q].evt # e
    /\ evt' = [evt EXCEPT ![e] = [status |-> Opening(crew), deleted |-> FALSE, public |-> FALSE,
                                  crew |-> crew, completed |-> FALSE, cancelled |-> FALSE]]
    /\ told' = [told EXCEPT ![e].silent = Opening(crew)]
    /\ UNCHANGED <<deskVars, plan>>

(***************************************************************************)
(* Requests.                                                               *)
(***************************************************************************)

UpdateRequest(p, e, status, crew) ==
    /\ plan[p] = Idle /\ Found(e)
    /\ Plans(p, [op |-> "update", evt |-> e, was |-> evt[e].status, status |-> status, crew |-> crew])
    /\ UNCHANGED <<deskVars, evt, told>>

\* Mutant: the new status compared with what was just written.
CommitThenCompare(p) ==
    /\ plan[p].op = "update"
    /\ LET q == plan[p] IN
       /\ evt' = [evt EXCEPT ![q.evt].status = q.status, ![q.evt].crew = q.crew,
                             ![q.evt].completed = @ \/ q.status = "COMPLETED",
                             ![q.evt].cancelled = @ \/ q.status = "CANCELLED"]
       /\ Plans(p, Idle)
    /\ UNCHANGED <<deskVars, told>>

\* One transaction replaces the assignees and sets status and stamps.
CommitUpdate(p) ==
    /\ plan[p].op = "update"
    /\ LET q == plan[p] IN
       /\ evt' = [evt EXCEPT ![q.evt].status = q.status, ![q.evt].crew = q.crew,
                             ![q.evt].completed = @ \/ q.status = "COMPLETED",
                             ![q.evt].cancelled = @ \/ q.status = "CANCELLED"]
       /\ Plans(p, IF q.status = q.was THEN Idle
                   ELSE [op |-> "tell", evt |-> q.evt, status |-> q.status])
    /\ UNCHANGED <<deskVars, told>>

\* autoReplies.sendForEventStatusChange answers sent: false on any failure, and nothing is
\* sent again; an error in the notifications before it comes to the same.
Tell(p) ==
    /\ plan[p].op = "tell"
    /\ LET q == plan[p] IN
       \/ told' = [told EXCEPT ![q.evt] = [mailed |-> q.status, silent |-> None]]
       \/ told' = [told EXCEPT ![q.evt].silent = q.status]
    /\ Plans(p, Idle)
    /\ UNCHANGED <<deskVars, evt>>

\* moveToRecycleBin and restoreFromRecycleBin.
BinRequest(e, deleted) ==
    /\ evt[e] # Absent /\ evt[e].deleted # deleted
    /\ evt' = [evt EXCEPT ![e].deleted = deleted]
    /\ UNCHANGED <<deskVars, told, plan>>

(***************************************************************************)
(* Tasks.  A change is checked first and written later.                    *)
(***************************************************************************)

CreateTask(p, t, e, user, outside) ==
    /\ plan[p] = Idle /\ Found(e) /\ task[t] = Absent
    /\ user = None \/ outside = None                       \* ensureSingleTaskAssignee
    /\ outside \in listed \cup {None}
    /\ task' = [task EXCEPT ![t] = [evt |-> e, user |-> user, outside |-> outside, entry |-> 0]]
    /\ UNCHANGED <<catalog, evt, guest, listed, entries, note, file, posted, told, plan>>

\* The input names one of the two at most; "keep" stands for a field left out.
AssignTask(p, t, user, outside) ==
    /\ plan[p] = Idle /\ task[t] # Absent /\ Found(task[t].evt)
    /\ user \notin Crew \/ outside \notin Outside
    /\ outside \in listed \cup {None, "keep"}
    /\ Plans(p, [op |-> "assign", task |-> t, user |-> user, outside |-> outside, evt |-> None])
    /\ UNCHANGED <<deskVars, evt, told>>

\* Mutant: a field left out is left alone.
CommitAssignAsGiven(p) ==
    /\ plan[p].op = "assign"
    /\ LET q == plan[p] IN
       task' = [task EXCEPT
                  ![q.task].user = IF q.user # "keep" THEN q.user ELSE @,
                  ![q.task].outside = IF q.outside # "keep" THEN q.outside ELSE @]
    /\ Plans(p, Idle)
    /\ UNCHANGED <<catalog, evt, guest, listed, entries, note, file, posted, told>>

\* updateTask clears the assignee of the other kind.
CommitAssign(p) ==
    /\ plan[p].op = "assign"
    /\ LET q == plan[p] IN
       task' = [task EXCEPT
                  ![q.task].user = IF q.user # "keep" THEN q.user
                                   ELSE IF q.outside \in Outside THEN None ELSE @,
                  ![q.task].outside = IF q.outside # "keep" THEN q.outside
                                      ELSE IF q.user \in Crew THEN None ELSE @]
    /\ Plans(p, Idle)
    /\ UNCHANGED <<catalog, evt, guest, listed, entries, note, file, posted, told>>

AddOutside(e, x) ==
    /\ Found(e) /\ x \in listed
    /\ guest' = guest \cup {<<e, x>>}
    /\ UNCHANGED <<catalog, evt, listed, task, entries, note, file, posted, told, plan>>

\* removeExternalSpecialist deletes the assignment, then takes its tasks from them.
RemoveOutside(p, e, x) ==
    /\ plan[p] = Idle /\ Found(e) /\ <<e, x>> \in guest
    /\ guest' = guest \ {<<e, x>>}
    /\ Plans(p, [op |-> "release", evt |-> e, outside |-> x])
    /\ UNCHANGED <<catalog, evt, listed, task, entries, note, file, posted, told>>

ReleaseTasks(p) ==
    /\ plan[p].op = "release"
    /\ task' = [t \in Task |->
                  IF task[t] # Absent /\ task[t].evt = plan[p].evt /\ task[t].outside = plan[p].outside
                  THEN [task[t] EXCEPT !.outside = None] ELSE task[t]]
    /\ Plans(p, Idle)
    /\ UNCHANGED <<catalog, evt, guest, listed, entries, note, file, posted, told>>

ArchiveOutside(x) ==
    /\ x \in listed
    /\ listed' = listed \ {x}
    /\ UNCHANGED <<catalog, evt, guest, task, entries, note, file, posted, told, plan>>

\* syncTaskToCalendar reads the assigned user, makes an entry and records it; it makes a
\* new one every time.
SyncTask(p, t) ==
    /\ plan[p] = Idle /\ task[t] # Absent /\ Found(task[t].evt) /\ task[t].user # None
    /\ Plans(p, [op |-> "entry", task |-> t, user |-> task[t].user, evt |-> None])
    /\ UNCHANGED <<deskVars, evt, told>>

MakeEntry(p) ==
    /\ plan[p].op = "entry"
    /\ \E i \in 1 .. MaxEntries :
          /\ entries[i] = None
          /\ \A j \in 1 .. i - 1 : entries[j] # None
          /\ entries' = [entries EXCEPT ![i] = plan[p].user]
          /\ Plans(p, [op |-> "record", task |-> plan[p].task, entry |-> i, evt |-> None])
    /\ UNCHANGED <<catalog, evt, guest, listed, task, note, file, posted, told>>

RecordEntry(p) ==
    /\ plan[p].op = "record"
    /\ task' = [task EXCEPT ![plan[p].task].entry = plan[p].entry]
    /\ Plans(p, Idle)
    /\ UNCHANGED <<catalog, evt, guest, listed, entries, note, file, posted, told>>

(***************************************************************************)
(* Messages and uploads.                                                   *)
(***************************************************************************)

UploadFile(e, f) ==
    /\ Found(e) /\ file[f] = Absent
    /\ file' = [file EXCEPT ![f] = [evt |-> e, note |-> None, deleted |-> FALSE]]
    /\ UNCHANGED <<catalog, evt, guest, listed, task, entries, note, posted, told, plan>>

DeleteFile(f) ==
    /\ file[f] # Absent /\ ~file[f].deleted /\ Found(file[f].evt)
    /\ file' = [file EXCEPT ![f].deleted = TRUE]
    /\ UNCHANGED <<catalog, evt, guest, listed, task, entries, note, posted, told, plan>>

\* loadOutboundAttachments: all of them, or the message is refused.
Loose(f, e) == file[f] # Absent /\ file[f].evt = e /\ file[f].note = None /\ ~file[f].deleted

\* sendMessage; an internal note is not mailed, and its uploads are not looked at.
SendNote(p, n, e, public, files) ==
    /\ plan[p] = Idle /\ Found(e) /\ note[n] = Absent /\ n \notin posted
    /\ \A q \in Planner : plan[q] # Idle /\ plan[q].op \in {"mail", "store", "link"} => plan[q].note # n
    /\ \A f \in files : IF public THEN Loose(f, e) ELSE file[f] # Absent
    /\ Plans(p, [op |-> IF public THEN "mail" ELSE "store", evt |-> e, note |-> n,
                 public |-> public, files |-> files])
    /\ UNCHANGED <<deskVars, evt, told>>

\* mailDelivery.sendTicketReply; without outbound mail the message is refused.
Mail(p) ==
    /\ plan[p].op = "mail"
    /\ \/ posted' = posted \cup {plan[p].note} /\ Plans(p, [plan[p] EXCEPT !.op = "store"])
       \/ UNCHANGED posted /\ Plans(p, Idle)
    /\ UNCHANGED <<catalog, evt, guest, listed, task, entries, note, file, told>>

\* Mutant: the message stored while the mail is on its way.
StoreEarly(p) ==
    /\ plan[p].op \in {"mail", "store"}
    /\ LET q == plan[p] IN
       note' = [note EXCEPT ![q.note] = [evt |-> q.evt, public |-> q.public, files |-> q.files]]
    /\ Plans(p, [plan[p] EXCEPT !.op = "link"])
    /\ UNCHANGED <<catalog, evt, guest, listed, task, entries, file, posted, told>>

StoreNote(p) ==
    /\ plan[p].op = "store"
    /\ LET q == plan[p] IN
       note' = [note EXCEPT ![q.note] = [evt |-> q.evt, public |-> q.public, files |-> q.files]]
    /\ Plans(p, [plan[p] EXCEPT !.op = "link"])
    /\ UNCHANGED <<catalog, evt, guest, listed, task, entries, file, posted, told>>

\* Mutant: the uploads by their ids.
LinkAll(p) ==
    /\ plan[p].op = "link"
    /\ LET q == plan[p] IN
       file' = [f \in File |-> IF f \in q.files /\ file[f].evt = q.evt
                               THEN [file[f] EXCEPT !.note = q.note] ELSE file[f]]
    /\ Plans(p, Idle)
    /\ UNCHANGED <<catalog, evt, guest, listed, task, entries, note, posted, told>>

\* updateMany of those that are still loose.
LinkFiles(p) ==
    /\ plan[p].op = "link"
    /\ LET q == plan[p] IN
       file' = [f \in File |-> IF f \in q.files /\ Loose(f, q.evt)
                               THEN [file[f] EXCEPT !.note = q.note] ELSE file[f]]
    /\ Plans(p, Idle)
    /\ UNCHANGED <<catalog, evt, guest, listed, task, entries, note, posted, told>>

PlannerLost(p) ==
    /\ plan[p] # Idle
    /\ Plans(p, Idle)
    /\ UNCHANGED <<deskVars, evt, told>>

(***************************************************************************)
(* The parts of the service, which touch each other only through requests. *)
(***************************************************************************)

RequestsBegin ==
    \/ \E p \in Planner, e \in Evt, crew \in SUBSET Crew :
          Visit(p, e, crew) \/ \E s \in EvtStatus : UpdateRequest(p, e, s, crew)
    \/ \E e \in Evt, deleted \in BOOLEAN : BinRequest(e, deleted)
    \/ \E e \in Evt, crew \in SUBSET Crew : Create(e, crew)

TasksBegin ==
    \/ \E p \in Planner, t \in Task, u \in Crew \cup {None}, x \in Outside \cup {None} :
          \E e \in Evt : CreateTask(p, t, e, u, x)
    \/ \E p \in Planner, t \in Task, u \in Crew \cup {None, "keep"}, x \in Outside \cup {None, "keep"} :
          AssignTask(p, t, u, x)
    \/ \E e \in Evt, x \in Outside : AddOutside(e, x) \/ \E p \in Planner : RemoveOutside(p, e, x)
    \/ \E x \in Outside : ArchiveOutside(x)
    \/ \E p \in Planner, t \in Task : SyncTask(p, t)

NotesBegin ==
    \/ \E e \in Evt, f \in File : UploadFile(e, f)
    \/ \E f \in File : DeleteFile(f)
    \/ \E p \in Planner, n \in Note, e \in Evt, public \in BOOLEAN, files \in SUBSET File :
          SendNote(p, n, e, public, files)

\* A request that is there, for the other two parts.
EventsOpen ==
    /\ catalog = "full"
    /\ evt = [e \in Evt |-> [status |-> "NEW", deleted |-> FALSE, public |-> TRUE,
                             crew |-> {}, completed |-> FALSE, cancelled |-> FALSE]]
    /\ guest = {}
    /\ listed = Outside
    /\ task = [t \in Task |-> Absent]
    /\ entries = [i \in 1 .. MaxEntries |-> None]
    /\ note = [n \in Note |-> Absent]
    /\ file = [f \in File |-> Absent]
    /\ posted = {}
    /\ told = [e \in Evt |-> [mailed |-> None, silent |-> "NEW"]]
    /\ plan = [p \in Planner |-> Idle]

EventsResume ==
    \E p \in Planner :
       \/ SeedForm(p) \/ SeedFields(p) \/ Submit(p)
       \/ CommitUpdate(p) \/ Tell(p)
       \/ CommitAssign(p) \/ ReleaseTasks(p) \/ MakeEntry(p) \/ RecordEntry(p)
       \/ Mail(p) \/ StoreNote(p) \/ LinkFiles(p)

EventsLoss == \E p \in Planner : PlannerLost(p)

(***************************************************************************)
(* Properties.                                                             *)
(***************************************************************************)

\* First visitors racing and dying while the default form is made: no public request is
\* taken before the form has its fields.
FormBeforeRequest == \A e \in Present(evt) : evt[e].public => catalog = "full"

\* Overlapping reassignments: a task is with a user or with an external specialist.
SingleAssignee == \A t \in Present(task) : task[t].user = None \/ task[t].outside = None

\* A public message on record was mailed, whatever failed in between.
StoredWasMailed == \A n \in Present(note) : note[n].public => n \in posted

\* Messages sent at the same time: an upload stays with the message that got it first.
FileKeepsMessage ==
    [][\A f \in File : file[f] # Absent /\ file[f].note # None
                          => file'[f].note = file[f].note]_eventVars

\* One change after the other: the requester's latest status mail names the status, but for
\* one the request was opened with and one whose mail was not sent, which stays unmailed.
LastHeard(e) == IF told[e].silent = None THEN told[e].mailed ELSE told[e].silent
StatusTold == Lone(plan) => \A e \in Present(evt) : LastHeard(e) = evt[e].status
==============================================================================
