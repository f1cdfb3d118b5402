----------------------- MODULE TicketLifecycle_proofs -----------------------
(***************************************************************************)
(* What holds of TicketLifecycle for any catalogue, any rules and any      *)
(* tickets and requests.                                                   *)
(***************************************************************************)
EXTENDS TicketLifecycle, SequenceTheorems, TLAPS

(***************************************************************************)
(* The operators of WorkflowRules.                                         *)
(***************************************************************************)

\* The statuses named in the code are among those of the catalogue.
LEMMA Statuses ==
  /\ SystemStatus = {"NEW", "OPEN", "IN_PROGRESS", "WAITING_ON_CUSTOMER",
                     "WAITING_ON_TECHNICIAN", "WAITING_ON_THIRD_PARTY", "RESOLVED",
                     "CLOSED", "REOPENED", "CANCELLED", "MERGED"}
  /\ "ABSENT" \notin SystemStatus
  BY DEF SystemStatus, Category

\* The closing time fits the status, for one row.
RowTimes(w) == /\ w.status = "CLOSED" => w.closedAt # "null"
               /\ w.status = "RESOLVED" => w.closedAt = "null"

\* A transition gives a row again, with its closing time right if it was.
LEMMA TransitionRow ==
  ASSUME NEW w \in Row, NEW d \in Def
  PROVE  /\ Transition(w, d) \in Row
         /\ RowTimes(w) => RowTimes(Transition(w, d))
  BY CatalogueAssumption, Statuses
     DEF Transition, Moved, Row, RowTimes, Completed, ActiveStatus

(***************************************************************************)
(* Types and closing times together: the times are right because every     *)
(* write keeps a row's two columns in step, unless bulk updates write the  *)
(* time alone.  A request only ever names a ticket that exists.            *)
(***************************************************************************)

RequestType == {Idle} \cup Matched \cup Triggered \cup Applying \cup Sending \cup Moving

RowsOK == \A t \in Ticket : Exists(t) => row[t] \in Row /\ (~ByStatus => RowTimes(row[t]))
Referenced == \A r \in Request : req[r] # Idle => row[req[r].ticket].status # "ABSENT"

Inv == TypeOK /\ RowsOK /\ Referenced

\* The request in progress is of the kind its op says.
LEMMA RequestKinds ==
  ASSUME TypeOK, NEW r \in Request
  PROVE  /\ req[r].op = "matched" => req[r] \in Matched
         /\ req[r].op = "triggered" => req[r] \in Triggered
         /\ req[r].op = "applying" => req[r] \in Applying
         /\ req[r].op \in {"sending", "recorded"} => req[r] \in Sending
         /\ req[r].op = "moving" => req[r] \in Moving
  BY DEF TypeOK, Idle, Matched, Triggered, Applying, Sending, Moving

\* A request that is not idle names a ticket.
LEMMA RequestTicket ==
  ASSUME NEW q \in RequestType, q # Idle
  PROVE  q.ticket \in Ticket
<1>1. q \in Matched \/ q \in Triggered \/ q \in Applying \/ q \in Sending \/ q \in Moving
  BY DEF RequestType
<1> QED
  BY <1>1 DEF Matched, Triggered, Applying, Sending, Moving

\* What may come of a request in a step that writes the row of t.
Names(q, t) == q \in RequestType /\ (q = Idle \/ q.ticket = t)

\* A step that writes one row, and leaves requests alone or lets them name its ticket,
\* keeps the invariant.
LEMMA OneWrite ==
  ASSUME Inv, replied' \in [Ticket -> BOOLEAN],
         NEW t \in Ticket, NEW w \in Row, ~ByStatus => RowTimes(w),
         row' = [row EXCEPT ![t] = w],
         req' \in [Request -> RequestType],
         \A p \in Request : req'[p] = req[p] \/ Names(req'[p], t)
  PROVE  Inv'
<1>1. w.status # "ABSENT"
  BY Statuses DEF Row
<1>2. \A u \in Ticket : row'[u] = IF u = t THEN w ELSE row[u]
  BY DEF Inv, TypeOK
<1>3. TypeOK'
  BY DEF Inv, TypeOK, RequestType
<1>4. RowsOK'
  BY <1>2 DEF Inv, RowsOK, Exists
<1>5. \A u \in Ticket : row[u].status # "ABSENT" => row'[u].status # "ABSENT"
  BY <1>1, <1>2
<1>6. row'[t].status # "ABSENT"
  BY <1>1, <1>2
<1>7. ASSUME NEW p \in Request, req'[p] # Idle
      PROVE  row'[req'[p].ticket].status # "ABSENT"
  <2>1. CASE Names(req'[p], t)
    BY <1>6, <1>7, <2>1 DEF Names
  <2>2. CASE req'[p] = req[p]
    <3>1. req[p].ticket \in Ticket /\ row[req[p].ticket].status # "ABSENT"
      BY <1>7, <2>2, RequestTicket DEF Inv, TypeOK, RequestType, Referenced
    <3> QED
      BY <1>5, <2>2, <3>1
  <2> QED
    BY <2>1, <2>2
<1>8. Referenced'
  BY <1>7 DEF Referenced, Idle
<1> QED
  BY <1>3, <1>4, <1>8 DEF Inv

\* A step that writes no row.
LEMMA NoWrite ==
  ASSUME Inv, replied' \in [Ticket -> BOOLEAN], UNCHANGED row,
         NEW t \in Ticket, Exists(t),
         req' \in [Request -> RequestType],
         \A p \in Request : req'[p] = req[p] \/ Names(req'[p], t)
  PROVE  Inv'
<1>1. row[t] \in Row /\ (~ByStatus => RowTimes(row[t]))
  BY DEF Inv, RowsOK
<1>2. row' = [row EXCEPT ![t] = row[t]]
  BY DEF Inv, TypeOK
<1> QED
  BY <1>1, <1>2, OneWrite

\* A request in progress, its ticket and its row.
LEMMA InProgress ==
  ASSUME Inv, NEW r \in Request, req[r] # Idle
  PROVE  /\ req[r].ticket \in Ticket /\ Exists(req[r].ticket)
         /\ row[req[r].ticket] \in Row
         /\ ~ByStatus => RowTimes(row[req[r].ticket])
<1>1. req[r] \in RequestType
  BY DEF Inv, TypeOK, RequestType
<1> QED
  BY <1>1, RequestTicket DEF Inv, RowsOK, Referenced, Exists

(***************************************************************************)
(* The invariant holds initially and every action keeps it.                *)
(***************************************************************************)

\* The invariant holds initially.
LEMMA InvInit == Init => Inv
  BY DEF Init, Inv, TypeOK, RowsOK, Referenced, Exists, Absent

\* A created row is a row, and not closed.
LEMMA FreshRow ==
  ASSUME NEW s \in SystemStatus, s \notin {"CLOSED"}, NEW d \in Def \cup {NoDef}
  PROVE  Fresh(s, d) \in Row /\ RowTimes(Fresh(s, d))
  BY DEF Fresh, Row, RowTimes

\* Actions that write a row and start no request.
LEMMA InvBeginTicket ==
  ASSUME Inv, NEW t \in Ticket,
         \/ Create(t) \/ CreateFromPortal(t) \/ CloseTicket(t) \/ MergeSource(t) \/ Age(t)
  PROVE  Inv'
<1>1. replied' \in [Ticket -> BOOLEAN] /\ req' = req /\ req' \in [Request -> RequestType]
  BY DEF Inv, TypeOK, RequestType, Create, CreateFromPortal, CloseTicket, MergeSource, Age
<1>2. Exists(t) => row[t] \in Row /\ (~ByStatus => RowTimes(row[t]))
  BY DEF Inv, RowsOK
<1>3. \A s \in SystemStatus : Named[s] \in Def
  BY CatalogueAssumption
<1>4. CASE Create(t)
  <2>1. Sys[DefaultDef] \in SystemStatus /\ Sys[DefaultDef] # "CLOSED"
    BY DefaultAssumption, CatalogueAssumption, Statuses DEF Category
  <2>2. Fresh(Sys[DefaultDef], DefaultDef) \in Row
        /\ RowTimes(Fresh(Sys[DefaultDef], DefaultDef))
    BY <2>1, FreshRow, DefaultAssumption
  <2> QED
    BY <1>1, <1>4, <2>2, OneWrite DEF Create
<1>5. CASE CreateFromPortal(t)
  <2>1. Fresh("NEW", NoDef) \in Row /\ RowTimes(Fresh("NEW", NoDef))
    BY FreshRow, Statuses
  <2> QED
    BY <1>1, <1>5, <2>1, OneWrite DEF CreateFromPortal
<1>6. CASE CloseTicket(t)
  <2>1. LET w == Transition(row[t], Named["CLOSED"])
        IN  w \in Row /\ (~ByStatus => RowTimes(w))
    BY <1>2, <1>3, <1>6, TransitionRow, Statuses DEF CloseTicket
  <2> QED
    BY <1>1, <1>6, <2>1, OneWrite DEF CloseTicket, Inv, TypeOK
<1>7. CASE MergeSource(t)
  <2> DEFINE w == [row[t] EXCEPT !.status = "MERGED", !.def = Named["MERGED"],
                                 !.closedAt = "recent"]
  <2>1. w \in Row /\ RowTimes(w)
    BY <1>2, <1>3, <1>7, Statuses DEF MergeSource, Row, RowTimes
  <2>2. row' = [row EXCEPT ![t] = w]
    BY <1>7 DEF MergeSource, Inv, TypeOK
  <2> QED
    BY <1>1, <2>1, <2>2, OneWrite
<1>8. CASE Age(t)
  <2> DEFINE w == [row[t] EXCEPT !.closedAt = "old"]
  <2>1. w \in Row /\ (~ByStatus => RowTimes(w))
    BY <1>2, <1>8 DEF Age, Row, RowTimes
  <2>2. row' = [row EXCEPT ![t] = w]
    BY <1>8 DEF Age, Inv, TypeOK
  <2> QED
    BY <1>1, <2>1, <2>2, OneWrite
<1> QED
  BY <1>4, <1>5, <1>6, <1>7, <1>8

\* A step that changes one request.
LEMMA OneRequest ==
  ASSUME TypeOK, NEW r \in Request, NEW t, NEW q, Names(q, t),
         req' = [req EXCEPT ![r] = q]
  PROVE  /\ req' \in [Request -> RequestType]
         /\ \A p \in Request : req'[p] = req[p] \/ Names(req'[p], t)
  BY DEF TypeOK, RequestType, Names

\* A request may end.
LEMMA IdleNames == \A t \in Ticket : Names(Idle, t)
  BY DEF Names, RequestType

\* A request may go on to apply rules to the same ticket.
LEMMA TriggerNames ==
  ASSUME NEW t \in Ticket, NEW g \in Trigger
  PROVE  Names(TriggeredBy(t, g), t)
  BY DEF Names, RequestType, TriggeredBy, Triggered

\* Actions that start a request.
LEMMA InvBeginRequest ==
  ASSUME Inv, NEW r \in Request, NEW t \in Ticket,
         \/ InboundMatch(r, t)
         \/ \E kind \in MessageKind : MessageStart(r, t, kind)
         \/ \E d \in Def : UpdateState(r, t, d)
         \/ \E d \in Def \cup {NoDef}, assigned \in BOOLEAN : Assign(r, t, d, assigned)
         \/ \E s \in SystemStatus : BulkByStatus(r, t, s)
  PROVE  Inv'
<1>1. replied' \in [Ticket -> BOOLEAN] /\ Exists(t)
  BY DEF Inv, TypeOK, InboundMatch, MessageStart, UpdateState, Assign, BulkByStatus
<1>2. row[t] \in Row /\ (~ByStatus => RowTimes(row[t])) /\ TypeOK
  BY <1>1 DEF Inv, RowsOK
<1>3. req' = req => /\ req' \in [Request -> RequestType]
                    /\ \A p \in Request : req'[p] = req[p] \/ Names(req'[p], t)
  BY <1>2 DEF TypeOK, RequestType
<1>4. CASE InboundMatch(r, t)
  <2> DEFINE q == [op |-> "matched", ticket |-> t, reopen |-> Reopens(row[t].status),
                   wait |-> row[t].status # "MERGED" /\ replied[t],
                   prior |-> row[t].closedAt]
  <2>1. q \in Matched
    BY <1>2 DEF Matched, Row, Reopens, TypeOK
  <2>2. Names(q, t)
    BY <2>1 DEF Names, RequestType
  <2> QED
    BY <1>1, <1>2, <1>4, <2>2, OneRequest, NoWrite DEF InboundMatch
<1>5. ASSUME NEW kind \in MessageKind, MessageStart(r, t, kind) PROVE Inv'
  <2> DEFINE q == [op |-> "sending", ticket |-> t, kind |-> kind]
  <2>1. Names(q, t)
    BY DEF Names, RequestType, Sending
  <2> QED
    BY <1>1, <1>2, <1>5, <2>1, OneRequest, NoWrite DEF MessageStart
<1>6. ASSUME NEW d \in Def, UpdateState(r, t, d) PROVE Inv'
  <2>1. Transition(row[t], d) \in Row /\ (~ByStatus => RowTimes(Transition(row[t], d)))
    BY <1>2, TransitionRow
  <2>2. row' = [row EXCEPT ![t] = Transition(row[t], d)]
    BY <1>6 DEF UpdateState
  <2>3. req' = req \/ req' = [req EXCEPT ![r] = TriggeredBy(t, "MANUAL_REOPEN")]
    BY <1>6 DEF UpdateState
  <2>4. Names(TriggeredBy(t, "MANUAL_REOPEN"), t)
    BY TriggerNames DEF Trigger
  <2> QED
    BY <1>1, <1>2, <1>3, <2>1, <2>2, <2>3, <2>4, OneRequest, OneWrite
<1>7. ASSUME NEW d \in Def \cup {NoDef}, NEW assigned \in BOOLEAN, Assign(r, t, d, assigned)
      PROVE  Inv'
  <2> DEFINE w == IF d = NoDef THEN row[t] ELSE Transition(row[t], d)
  <2>1. w \in Row /\ (~ByStatus => RowTimes(w))
    BY <1>2, TransitionRow
  <2>2. row' = [row EXCEPT ![t] = w]
    BY <1>7 DEF Assign
  <2>3. req' = req \/ req' = [req EXCEPT ![r] = TriggeredBy(t, "TICKET_ASSIGNED")]
    BY <1>7 DEF Assign
  <2>4. Names(TriggeredBy(t, "TICKET_ASSIGNED"), t)
    BY TriggerNames DEF Trigger
  <2> QED
    BY <1>1, <1>2, <1>3, <2>1, <2>2, <2>3, <2>4, OneRequest, OneWrite
<1>8. ASSUME NEW s \in SystemStatus, BulkByStatus(r, t, s) PROVE Inv'
  <2> DEFINE time == IF s = "CLOSED" THEN "recent"
                     ELSE IF s \in {"REOPENED", "OPEN"} THEN "null" ELSE row[t].closedAt
             w == [row[t] EXCEPT !.closedAt = time]
             q == [op |-> "moving", ticket |-> t, target |-> Named[s]]
  <2>1. w \in Row /\ ByStatus
    BY <1>2, <1>8 DEF BulkByStatus, Row
  <2>2. row' = [row EXCEPT ![t] = w]
    BY <1>2, <1>8 DEF BulkByStatus, TypeOK
  <2>3. Names(q, t)
    BY CatalogueAssumption DEF Names, RequestType, Moving
  <2>4. req' = [req EXCEPT ![r] = q]
    BY <1>8 DEF BulkByStatus
  <2> QED
    BY <1>1, <1>2, <2>1, <2>2, <2>3, <2>4, OneRequest, OneWrite
<1> QED
  BY <1>4, <1>5, <1>6, <1>7, <1>8

\* The later steps of a request, and its death.
LEMMA InvResume ==
  ASSUME Inv, NEW r \in Request,
         \/ InboundCommit(r) \/ RulesBegin(r) \/ RuleStep(r)
         \/ MessageRecord(r) \/ MessageStamp(r) \/ Move(r) \/ Abort(r)
  PROVE  Inv'
<1> DEFINE t == req[r].ticket
<1>1. req[r] # Idle /\ replied' \in [Ticket -> BOOLEAN]
  <2>1. req[r] # Idle
    BY DEF Idle, InboundCommit, RulesBegin, RuleStep, MessageRecord, MessageStamp,
           Move, Abort
  <2>2. CASE MessageRecord(r)
    <3> DEFINE b == replied[req[r].ticket] \/ req[r].kind # "note_and_close"
    <3>1. replied' = [replied EXCEPT ![req[r].ticket] = b]
      BY <2>2 DEF MessageRecord
    <3>2. b \in BOOLEAN
      OBVIOUS
    <3> HIDE DEF b
    <3> QED
      BY <2>1, <3>1, <3>2 DEF Inv, TypeOK
  <2>3. CASE UNCHANGED replied
    BY <2>1, <2>3 DEF Inv, TypeOK
  <2> QED
    BY <2>2, <2>3 DEF InboundCommit, RulesBegin, RuleStep, MessageStamp, Move, Abort
<1>2. t \in Ticket /\ Exists(t) /\ row[t] \in Row /\ (~ByStatus => RowTimes(row[t]))
  BY <1>1, InProgress
<1>3. TypeOK
  BY DEF Inv
<1>4. Names(Idle, t)
  BY <1>2, IdleNames
<1> HIDE DEF t
<1>5. CASE InboundCommit(r)
  <2> DEFINE status == IF req[r].wait THEN "WAITING_ON_TECHNICIAN"
                       ELSE IF req[r].reopen THEN "REOPENED" ELSE row[t].status
             w == [row[t] EXCEPT !.status = status,
                                 !.closedAt = IF req[r].reopen THEN "null" ELSE @,
                                 !.resolved = IF req[r].reopen THEN FALSE ELSE @]
             q == [op |-> "triggered", ticket |-> t, trigger |-> "CUSTOMER_REPLIED",
                   prior |-> req[r].prior]
  <2>1. req[r] \in Matched
    BY <1>3, <1>5, RequestKinds DEF InboundCommit
  <2>2. w \in Row /\ (~ByStatus => RowTimes(w))
    BY <1>2, <2>1, Statuses DEF Row, RowTimes, Matched
  <2>3. row' = [row EXCEPT ![t] = w] /\ req' = [req EXCEPT ![r] = q]
    BY <1>5 DEF InboundCommit, t
  <2>4. Names(q, t)
    BY <1>2, <2>1 DEF Names, RequestType, Matched, Triggered, Trigger
  <2> QED
    BY <1>1, <1>2, <1>3, <2>2, <2>3, <2>4, OneRequest, OneWrite
<1>6. CASE RulesBegin(r)
  <2> DEFINE def == IF row[t].def = NoDef THEN Named[row[t].status] ELSE row[t].def
             w == [row[t] EXCEPT !.def = def]
             seen == [op |-> "applying", ticket |-> t, trigger |-> req[r].trigger,
                      def |-> def, replied |-> replied[t],
                      closedAt |-> IF req[r].prior = "unset" THEN row[t].closedAt
                                   ELSE req[r].prior,
                      rest |-> Rules[req[r].trigger]]
  <2>1. req[r] \in Triggered
    BY <1>3, <1>6, RequestKinds DEF RulesBegin
  <2>2. def \in Def \cup {NoDef}
    BY <1>2, CatalogueAssumption DEF Row
  <2>3. w \in Row /\ (~ByStatus => RowTimes(w))
    BY <1>2, <2>2 DEF Row, RowTimes
  <2>4. row' = [row EXCEPT ![t] = w] /\ req' = [req EXCEPT ![r] = Continue(seen)]
    BY <1>6 DEF RulesBegin, t
  <2>5. seen.rest # <<>> => seen \in Applying
    BY <1>2, <1>3, <2>1, <2>2, RulesAssumption DEF Triggered, Applying, Row, TypeOK
  <2>6. Names(Continue(seen), t)
    BY <1>4, <2>5 DEF Names, RequestType, Continue
  <2> QED
    BY <1>1, <1>2, <1>3, <2>3, <2>4, <2>6, OneRequest, OneWrite
<1>7. CASE RuleStep(r)
  <2> DEFINE rule == Head(req[r].rest)
             hit == Matches(rule, req[r])
             w == IF hit THEN Transition(row[t], rule.target) ELSE row[t]
             left == [req[r] EXCEPT !.rest = Tail(@),
                                    !.def = IF w = row[t] THEN @ ELSE rule.target]
             q == IF hit /\ rule.stop THEN Idle ELSE Continue(left)
  <2>1. req[r] \in Applying
    BY <1>3, <1>7, RequestKinds DEF RuleStep
  <2>2. rule \in Rule /\ Tail(req[r].rest) \in Seq(Rule)
    BY <2>1, HeadTailProperties DEF Applying
  <2>3. rule.target \in Def
    BY <2>2 DEF Rule
  <2>4. w \in Row /\ (~ByStatus => RowTimes(w))
    BY <1>2, <2>3, TransitionRow
  <2>5. left.rest # <<>> => left \in Applying
    BY <2>1, <2>2, <2>3 DEF Applying
  <2>6. left.ticket = t
    BY <2>1 DEF Applying, t
  <2>7. row' = [row EXCEPT ![t] = w] /\ req' = [req EXCEPT ![r] = q]
    BY <1>7 DEF RuleStep, t
  <2>8. Names(q, t)
    BY <1>4, <2>5, <2>6 DEF Names, RequestType, Continue
  <2> QED
    BY <1>1, <1>2, <1>3, <2>4, <2>7, <2>8, OneRequest, OneWrite
<1>8. CASE MessageRecord(r)
  <2> DEFINE q == [req[r] EXCEPT !.op = "recorded"]
  <2>1. req[r] \in Sending
    BY <1>3, <1>8, RequestKinds DEF MessageRecord
  <2>2. Names(q, t)
    BY <2>1 DEF Names, RequestType, Sending, t
  <2>3. UNCHANGED row /\ req' = [req EXCEPT ![r] = q]
    BY <1>8 DEF MessageRecord
  <2> QED
    BY <1>1, <1>2, <1>3, <2>2, <2>3, OneRequest, NoWrite
<1>9. CASE MessageStamp(r)
  <2> DEFINE waiting == [row[t] EXCEPT !.status = "WAITING_ON_CUSTOMER",
                                       !.closedAt = "null", !.resolved = FALSE]
             closed == [row[t] EXCEPT !.status = "CLOSED", !.closedAt = "recent"]
             closing == [op |-> "moving", ticket |-> t, target |-> Named["CLOSED"]]
  <2>1. /\ waiting \in Row /\ RowTimes(waiting)
        /\ closed \in Row /\ RowTimes(closed)
    BY <1>2, Statuses DEF Row, RowTimes
  <2>2. Names(closing, t)
    BY <1>2, CatalogueAssumption, Statuses DEF Names, RequestType, Moving
  <2>3. Names(TriggeredBy(t, "TECHNICIAN_REPLIED"), t)
    BY <1>2, TriggerNames DEF Trigger
  <2>4. CASE req[r].kind = "send"
    <3>1. row' = [row EXCEPT ![t] = waiting]
          /\ req' = [req EXCEPT ![r] = TriggeredBy(t, "TECHNICIAN_REPLIED")]
      BY <1>9, <2>4 DEF MessageStamp, TriggeredBy, t
    <3> QED
      BY <1>1, <1>2, <1>3, <2>1, <2>3, <3>1, OneRequest, OneWrite
  <2>5. CASE req[r].kind # "send"
    <3>1. row' = [row EXCEPT ![t] = closed] /\ req' = [req EXCEPT ![r] = closing]
      BY <1>9, <2>5 DEF MessageStamp, t
    <3> QED
      BY <1>1, <1>2, <1>3, <2>1, <2>2, <3>1, OneRequest, OneWrite
  <2> QED
    BY <2>4, <2>5
<1>10. CASE Move(r)
  <2>1. req[r] \in Moving
    BY <1>3, <1>10, RequestKinds DEF Move
  <2>2. LET w == Transition(row[t], req[r].target)
        IN  w \in Row /\ (~ByStatus => RowTimes(w))
    BY <1>2, <2>1, TransitionRow DEF Moving
  <2>3. row' = [row EXCEPT ![t] = Transition(row[t], req[r].target)]
        /\ req' = [req EXCEPT ![r] = Idle]
    BY <1>2, <1>10 DEF Move, t
  <2> QED
    BY <1>1, <1>2, <1>3, <1>4, <2>2, <2>3, OneRequest, OneWrite
<1>11. CASE Abort(r)
  BY <1>1, <1>2, <1>3, <1>4, <1>11, OneRequest, NoWrite DEF Abort
<1> QED
  BY <1>5, <1>6, <1>7, <1>8, <1>9, <1>10, <1>11

\* Every step keeps the invariant.
LEMMA InvStep == Inv /\ [Next]_vars => Inv'
<1> SUFFICES ASSUME Inv, [Next]_vars PROVE Inv'
  OBVIOUS
<1>1. CASE Begin
  BY <1>1, InvBeginTicket, InvBeginRequest DEF Begin
<1>2. CASE Resume
  BY <1>2, InvResume DEF Resume
<1>3. CASE \E r \in Request : Abort(r)
  BY <1>3, InvResume
<1>4. CASE UNCHANGED vars
  BY <1>4 DEF vars, Inv, TypeOK, RowsOK, Referenced, Exists
<1> QED
  BY <1>1, <1>2, <1>3, <1>4 DEF Next

\* Types, closing times and referenced tickets are right in every reachable state.
THEOREM InvAlways == Spec => []Inv
  BY InvInit, InvStep, PTL DEF Spec

(***************************************************************************)
(* The theorems.                                                           *)
(***************************************************************************)

\* Every handler, rule and transition writes only values the columns can hold.
THEOREM TypeCorrect == Spec => []TypeOK
<1>1. Inv => TypeOK
  BY DEF Inv
<1> QED
  BY <1>1, InvAlways, PTL

\* Unless bulk updates by system status are in use, closing times fit the status,
\* whatever the catalogue, the rules and the overlap of requests.
THEOREM ClosingTimesRight ==
  ASSUME ~ByStatus
  PROVE  Spec => []ClosingTimes
<1>1. Inv => ClosingTimes
  BY DEF Inv, RowsOK, RowTimes, ClosingTimes, Exists, TypeOK, Absent
<1> QED
  BY <1>1, InvAlways, PTL

=============================================================================
