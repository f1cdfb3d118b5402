------------------------- MODULE MailboxSync_proofs -------------------------
(***************************************************************************)
(* For any mails, any number of overlapping syncs and any failures: the    *)
(* timer never syncs a mailbox twice at a time; a message counts as done   *)
(* only when its attachment was stored or refused; and when nobody starts  *)
(* a backfill, the saved delta link never passes a mail that was not dealt *)
(* with.  Where only the timer syncs, attachments are stored once, and the *)
(* syncs implement MailIntake's recording: no mail is recorded twice.      *)
(***************************************************************************)
EXTENDS MailboxSync, SequenceTheorems, TLAPS

(***************************************************************************)
(* The strengthening: what NothingSkipped says of the saved position holds *)
(* of the position of every sync in progress, because it started from a    *)
(* saved position and passes a message only when that is handled.          *)
(***************************************************************************)

Past(n) == \A i \in from .. n : Handled(inbox[i])

CursorOK == \A n \in Nat : cursor = n => n <= Len(inbox) /\ Past(n)

SlotOK(q) ==
    /\ q.kind # "backfill"
    /\ q.at <= Len(inbox) + 1 /\ Past(q.at - 1)
    /\ q.pc \in {"scanned", "fetch"} => q.loop = "page"
    /\ q.pc \notin {"scanned", "fetch"} => q.next <= Len(inbox) /\ q.at <= q.next + 1
    /\ q.pc \in {"event", "spam", "import"} => q.at <= q.next
    /\ q.pc = "todo" \/ q.loop = "todo" => q.at > q.next

SlotsOK == \A s \in Slot, q \in Busy : sync[s] = q => SlotOK(q)

Inv == TypeOK /\ from <= Len(inbox) + 1 /\ CursorOK /\ SlotsOK

(***************************************************************************)
(* Nothing is ever taken back.                                             *)
(***************************************************************************)

\* Mails and messages are only added.
Grows ==
    /\ from' = from
    /\ inbox' \in Seq(Mail) /\ Len(inbox) <= Len(inbox')
    /\ \A i \in 1 .. Len(inbox) : inbox'[i] = inbox[i]
    /\ DOMAIN rows \subseteq DOMAIN rows'
    /\ \A i \in DOMAIN rows : rows'[i].mail = rows[i].mail /\ rows'[i].event = rows[i].event
    /\ blocked \subseteq blocked'

\* The mails dealt with before a position stay so.
LEMMA PastStays ==
  ASSUME TypeOK, Grows, NEW n \in Int, n <= Len(inbox), Past(n)
  PROVE  Past(n)'
<1> SUFFICES ASSUME NEW i \in from' .. n
             PROVE  inbox'[i] \in blocked' \/ \E j \in DOMAIN rows' : rows'[j].mail = inbox'[i]
  BY DEF Past, Handled
<1>1. i \in 1 .. Len(inbox)
  BY DEF TypeOK, Grows
<1>2. inbox[i] \in blocked \/ \E j \in DOMAIN rows : rows[j].mail = inbox[i]
  BY DEF Past, Handled, Grows
<1> QED
  BY <1>1, <1>2 DEF Grows

\* What is known of a sync in progress stays true.
LEMMA SlotStays ==
  ASSUME TypeOK, Grows, NEW q \in Busy, SlotOK(q)
  PROVE  SlotOK(q)'
<1>1. q.at \in Nat \ {0} /\ q.next \in Nat
  BY DEF Busy
<1>2. Len(inbox) \in Nat /\ Len(inbox') \in Nat /\ Len(inbox) <= Len(inbox')
  BY DEF TypeOK, Grows
<1>3. Past(q.at - 1)'
  <2>1. q.at - 1 \in Int /\ q.at - 1 <= Len(inbox) /\ Past(q.at - 1)
    BY <1>1, <1>2 DEF SlotOK
  <2> QED
    BY <2>1, PastStays
<1> QED
  BY <1>1, <1>2, <1>3 DEF SlotOK

\* So a step that only adds, keeps the saved position or saves a good one, and leaves
\* every sync as it was or in a good state, keeps the invariant.
LEMMA Kept ==
  ASSUME Inv, TypeOK', Grows,
         cursor' = cursor \/ CursorOK',
         \A s \in Slot, q \in Busy : sync'[s] = q => sync[s] = q \/ SlotOK(q)'
  PROVE  Inv'
<1>1. Len(inbox) \in Nat /\ Len(inbox') \in Nat /\ Len(inbox) <= Len(inbox') /\ from' = from
      /\ from \in Nat
  BY DEF Inv, TypeOK, Grows
<1>2. CursorOK'
  <2> SUFFICES ASSUME cursor' = cursor, NEW n \in Nat, cursor = n
               PROVE  n <= Len(inbox') /\ Past(n)'
    BY DEF CursorOK
  <2>1. n <= Len(inbox) /\ Past(n)
    BY DEF Inv, CursorOK
  <2> QED
    BY <1>1, <2>1, PastStays DEF Inv
<1>3. SlotsOK'
  <2> SUFFICES ASSUME NEW s \in Slot, NEW q \in Busy, sync'[s] = q, sync[s] = q
               PROVE  SlotOK(q)'
    BY DEF SlotsOK
  <2> QED
    BY SlotStays DEF Inv, SlotsOK
<1> QED
  BY <1>1, <1>2, <1>3 DEF Inv

(***************************************************************************)
(* The steps of one sync.                                                  *)
(***************************************************************************)

\* The columns a step of a sync may change besides.
TypesElse ==
    /\ cursor' \in Nat \cup {NoCursor} /\ nextAuto' \in {"due", "later", "opening"}
    /\ {enabled', open', running'} \subseteq BOOLEAN
    /\ rows' \in Seq(Row) /\ blocked' \subseteq Mail /\ faults' \in Nat

\* A step of one sync that leaves it idle or in a good state.
LEMMA OneSync ==
  ASSUME Inv, Grows, TypesElse, cursor' = cursor \/ CursorOK',
         NEW s \in Slot, NEW q \in Busy \cup {Idle}, sync' = [sync EXCEPT ![s] = q],
         q \in Busy => SlotOK(q)'
  PROVE  Inv'
<1>1. TypeOK'
  BY DEF Inv, TypeOK, Grows, TypesElse
<1>2. ASSUME NEW p \in Slot, NEW r \in Busy, sync'[p] = r
      PROVE  sync[p] = r \/ SlotOK(r)'
  <2>1. CASE p = s
    <3>1. r = q
      BY <1>2, <2>1 DEF Inv, TypeOK
    <3> QED
      BY <3>1
  <2>2. CASE p # s
    BY <1>2, <2>2 DEF Inv, TypeOK
  <2> QED
    BY <2>1, <2>2
<1> QED
  BY <1>1, <1>2, Kept

\* A sync that is not idle.
LEMMA SlotBusy ==
  ASSUME Inv, NEW s \in Slot, sync[s].pc # "idle"
  PROVE  sync[s] \in Busy /\ SlotOK(sync[s])
<1>1. sync[s] \in Busy
  BY DEF Inv, TypeOK, Idle
<1> QED
  BY <1>1 DEF Inv, SlotsOK

\* To is a step of one sync that saves nothing.
LEMMA ToKeeps ==
  ASSUME Inv, NEW s \in Slot, NEW q \in Busy \cup {Idle}, To(s, q),
         rows' \in Seq(Row), DOMAIN rows \subseteq DOMAIN rows',
         \A i \in DOMAIN rows : rows'[i].mail = rows[i].mail /\ rows'[i].event = rows[i].event,
         blocked \subseteq blocked', blocked' \subseteq Mail, faults' \in Nat,
         q \in Busy => SlotOK(q)'
  PROVE  Inv'
<1>1. Grows
  BY DEF Grows, To, mailbox, Inv, TypeOK
<1>2. TypesElse
  BY DEF TypesElse, To, mailbox, timer, Inv, TypeOK
<1> QED
  BY <1>1, <1>2, OneSync DEF To, mailbox

\* One that stores nothing either.
LEMMA OnlyMoves ==
  ASSUME Inv, NEW s \in Slot, NEW q \in Busy, To(s, q),
         UNCHANGED <<rows, blocked>>, faults' \in Nat, SlotOK(q)
  PROVE  Inv'
<1>1. Grows
  BY DEF Grows, To, mailbox, Inv, TypeOK
<1>2. SlotOK(q)'
  BY <1>1, SlotStays DEF Inv
<1> QED
  BY <1>2, ToKeeps DEF Inv, TypeOK

\* Passing over a mail that is handled.
LEMMA PastNext ==
  ASSUME TypeOK, Grows, NEW n \in Nat \ {0}, n <= Len(inbox), Past(n - 1),
         inbox[n] \in blocked' \/ \E j \in DOMAIN rows' : rows'[j].mail = inbox[n]
  PROVE  Past(n)'
<1> SUFFICES ASSUME NEW i \in from' .. n
             PROVE  inbox'[i] \in blocked' \/ \E j \in DOMAIN rows' : rows'[j].mail = inbox'[i]
  BY DEF Past, Handled
<1>1. CASE i = n
  BY <1>1 DEF Grows, TypeOK
<1>2. CASE i # n
  <2>1. n - 1 \in Int /\ n - 1 <= Len(inbox) /\ i \in from' .. (n - 1)
    BY <1>2 DEF TypeOK, Grows
  <2>2. Past(n - 1)'
    BY <2>1, PastStays
  <2> QED
    BY <2>1, <2>2 DEF Past, Handled
<1> QED
  BY <1>1, <1>2

\* Moves that neither store nor save.
LEMMA InvMoves ==
  ASSUME Inv, NEW s \in Slot, Fetch(s) \/ Settle(s) \/ Retrieve(s) \/ List(s) \/ NextCandidate(s)
  PROVE  Inv'
<1>1. sync[s] \in Busy /\ SlotOK(sync[s])
  BY SlotBusy DEF Fetch, Settle, Retrieve, List, NextCandidate, At
<1>2. UNCHANGED <<rows, blocked>> /\ faults' \in Nat
  <2>1. UNCHANGED <<rows, blocked>>
    BY DEF Fetch, Settle, Retrieve, List, NextCandidate
  <2>2. faults' = faults \/ faults' = faults + 1
    BY DEF Fetch, Settle, Retrieve, List, NextCandidate, Fault
  <2> QED
    BY <2>1, <2>2 DEF Inv, TypeOK
<1>3. CASE Fetch(s)
  <2>1. PICK next \in (sync[s].at - 1) .. Len(inbox) :
               To(s, [sync[s] EXCEPT !.pc = "page", !.next = next])
    BY <1>3 DEF Fetch
  <2> DEFINE q == [sync[s] EXCEPT !.pc = "page", !.next = next]
  <2>2. next \in Nat /\ sync[s].at <= next + 1 /\ next <= Len(inbox)
    BY <1>1 DEF Busy, Inv, TypeOK
  <2>3. q \in Busy /\ q.pc = "page" /\ q.next = next /\ q.at = sync[s].at
        /\ q.kind = sync[s].kind /\ q.loop = sync[s].loop
    BY <1>1, <2>2 DEF Busy
  <2>4. sync[s].loop = "page"
    BY <1>1, <1>3 DEF Fetch, At, SlotOK
  <2>5. SlotOK(q)
    BY <1>1, <2>2, <2>3, <2>4 DEF SlotOK
  <2> QED
    BY <1>2, <2>1, <2>3, <2>5, OnlyMoves
<1>4. CASE Settle(s)
  <2> DEFINE q == [sync[s] EXCEPT !.pc = "files"]
  <2>1. q \in Busy /\ SlotOK(q)
    BY <1>1, <1>4 DEF Busy, SlotOK, Settle, At
  <2> QED
    BY <1>2, <1>4, <2>1, OnlyMoves DEF Settle
<1>5. CASE Retrieve(s)
  <2> DEFINE go(pc) == [sync[s] EXCEPT !.pc = pc]
  <2>1. \E pc \in {"store", "mark", sync[s].loop} : To(s, go(pc))
    BY <1>5 DEF Retrieve
  <2>2. PICK pc \in {"store", "mark", sync[s].loop} : To(s, go(pc))
    BY <2>1
  <2>3. go(pc) \in Busy /\ SlotOK(go(pc))
    BY <1>1, <1>5 DEF Busy, SlotOK, Retrieve, At
  <2> QED
    BY <1>2, <2>2, <2>3, OnlyMoves
<1>6. CASE List(s)
  <2> DEFINE todo == {i \in DOMAIN rows : /\ ~rows[i].event /\ ~rows[i].done
                                          /\ sync[s].kind = "broad" \/ rows[i].flagged}
             q == [sync[s] EXCEPT !.pc = "todo", !.loop = "todo", !.todo = todo]
  <2>1. todo \subseteq Nat
    BY DEF Inv, TypeOK
  <2>2. To(s, q)
    BY <1>6 DEF List
  <2> HIDE DEF todo
  <2>3. q \in Busy /\ SlotOK(q)
    BY <1>1, <1>6, <2>1 DEF Busy, SlotOK, List, At
  <2> QED
    BY <1>2, <2>2, <2>3, OnlyMoves
<1>7. CASE NextCandidate(s)
  <2>1. PICK i \in sync[s].todo :
               To(s, [sync[s] EXCEPT !.pc = "files", !.row = i, !.todo = @ \ {i}])
    BY <1>7 DEF NextCandidate
  <2> DEFINE q == [sync[s] EXCEPT !.pc = "files", !.row = i, !.todo = @ \ {i}]
  <2>2. i \in Nat /\ q \in Busy
    BY <1>1 DEF Busy
  <2>3. SlotOK(q)
    BY <1>1, <1>7 DEF Busy, SlotOK, NextCandidate, At
  <2> QED
    BY <1>2, <2>1, <2>2, <2>3, OnlyMoves
<1> QED
  BY <1>3, <1>4, <1>5, <1>6, <1>7

\* A mail found stored is passed over, another one is left where it is.
LEMMA InvCheck ==
  ASSUME Inv, NEW s \in Slot, Check(s)
  PROVE  Inv'
<1>1. sync[s] \in Busy /\ SlotOK(sync[s])
  BY SlotBusy DEF Check, At
<1>2. UNCHANGED <<rows, blocked>> /\ faults' \in Nat
  BY DEF Check, Inv, TypeOK
<1> DEFINE at == sync[s].at
           m == inbox[at]
           skip == [sync[s] EXCEPT !.at = @ + 1]
<1>3. at \in Nat \ {0} /\ at <= sync[s].next /\ sync[s].next <= Len(inbox) /\ Len(inbox) \in Nat
      /\ sync[s].next \in Nat /\ sync[s].pc = "page"
  <2>1. sync[s].pc = "page" /\ at <= sync[s].next
    BY DEF Check, At
  <2>2. at \in Nat \ {0} /\ sync[s].next \in Nat
    BY <1>1 DEF Busy
  <2>3. sync[s].next <= Len(inbox)
    BY <1>1, <2>1 DEF SlotOK
  <2>4. Len(inbox) \in Nat
    BY DEF Inv, TypeOK
  <2> QED
    BY <2>1, <2>2, <2>3, <2>4
<1>3a. skip \in Busy /\ skip.at = at + 1 /\ skip.next = sync[s].next
      /\ skip.kind = sync[s].kind /\ skip.loop = sync[s].loop
  BY <1>1, <1>3 DEF Busy
<1>4. ASSUME RowsOf(m, TRUE) # {} \/ RowsOf(m, FALSE) # {}, NEW i \in Nat,
             NEW pc \in {"page", "files"}
      PROVE  LET q == [skip EXCEPT !.pc = pc, !.row = i] IN q \in Busy /\ SlotOK(q)
  <2> DEFINE q == [skip EXCEPT !.pc = pc, !.row = i]
  <2>1. q \in Busy /\ q.at = at + 1 /\ q.pc = pc /\ q.next = sync[s].next
        /\ q.kind = sync[s].kind /\ q.loop = sync[s].loop
    <3> HIDE DEF skip
    <3> QED
      BY <1>3a DEF Busy
  <2>2. Handled(m)
    BY <1>4 DEF RowsOf, Handled
  <2>3. Past(at)
    BY <1>1, <1>3, <2>2 DEF Past, SlotOK, Inv, TypeOK
  <2>4. sync[s].loop # "todo"
    BY <1>1, <1>3 DEF SlotOK
  <2>5. at + 1 - 1 = at
    BY <1>3
  <2>6. SlotOK(q)
    BY <1>1, <1>3, <2>1, <2>3, <2>4, <2>5 DEF SlotOK
  <2> QED
    BY <2>1, <2>6
<1>5. CASE RowsOf(m, TRUE) # {}
  <2>1. To(s, skip)
    BY <1>5 DEF Check
  <2>2. skip = [skip EXCEPT !.pc = "page", !.row = sync[s].row] /\ sync[s].row \in Nat
    BY <1>1, <1>3 DEF Busy
  <2>3. skip \in Busy /\ SlotOK(skip)
    BY <1>4, <1>5, <2>2
  <2> QED
    BY <1>2, <2>1, <2>3, OnlyMoves
<1>6. CASE RowsOf(m, TRUE) = {} /\ RowsOf(m, FALSE) # {}
  <2>1. PICK i \in RowsOf(m, FALSE) :
               To(s, IF rows[i].done THEN skip ELSE [skip EXCEPT !.pc = "files", !.row = i])
    BY <1>6 DEF Check
  <2>2. i \in Nat
    BY DEF RowsOf, Inv, TypeOK
  <2>3. skip = [skip EXCEPT !.pc = "page", !.row = sync[s].row] /\ sync[s].row \in Nat
    BY <1>1, <1>3 DEF Busy
  <2>4. skip \in Busy /\ SlotOK(skip)
    BY <1>4, <1>6, <2>3
  <2>5. [skip EXCEPT !.pc = "files", !.row = i] \in Busy
        /\ SlotOK([skip EXCEPT !.pc = "files", !.row = i])
    BY <1>4, <1>6, <2>2
  <2>6. CASE rows[i].done
    BY <1>2, <2>1, <2>4, <2>6, OnlyMoves
  <2>7. CASE ~rows[i].done
    BY <1>2, <2>1, <2>5, <2>7, OnlyMoves
  <2> QED
    BY <2>6, <2>7
<1>7. CASE RowsOf(m, TRUE) = {} /\ RowsOf(m, FALSE) = {}
  <2>1. \E pc \in {"event", "spam", "import"} : To(s, [sync[s] EXCEPT !.pc = pc])
    BY <1>7 DEF Check
  <2>2. PICK pc \in {"event", "spam", "import"} : To(s, [sync[s] EXCEPT !.pc = pc])
    BY <2>1
  <2>3. [sync[s] EXCEPT !.pc = pc] \in Busy /\ SlotOK([sync[s] EXCEPT !.pc = pc])
    BY <1>1, <1>3 DEF Busy, SlotOK
  <2> QED
    BY <1>2, <2>2, <2>3, OnlyMoves
<1> QED
  BY <1>5, <1>6, <1>7

\* Storing or logging a mail lets its sync pass it.
LEMMA InvStores ==
  ASSUME Inv, NEW s \in Slot, StoreEvent(s) \/ LogSpam(s) \/ Import(s)
  PROVE  Inv'
<1>1. sync[s] \in Busy /\ SlotOK(sync[s])
  BY SlotBusy DEF StoreEvent, LogSpam, Import, At
<1> DEFINE at == sync[s].at
           m == inbox[at]
<1>2. at \in Nat \ {0} /\ at <= sync[s].next /\ sync[s].next <= Len(inbox) /\ Len(inbox) \in Nat
      /\ sync[s].next \in Nat /\ sync[s].loop = "page"
  <2>1. sync[s].pc \in {"event", "spam", "import"}
    BY DEF StoreEvent, LogSpam, Import, At
  <2>2. at \in Nat \ {0} /\ sync[s].next \in Nat /\ sync[s].loop \in {"page", "todo"}
    BY <1>1 DEF Busy
  <2>3. sync[s].next <= Len(inbox) /\ at <= sync[s].next /\ sync[s].loop # "todo"
    BY <1>1, <2>1, <2>2 DEF SlotOK
  <2> QED
    BY <2>2, <2>3 DEF Inv, TypeOK
<1>3. m \in Mail
  BY <1>2 DEF Inv, TypeOK
<1>4. PICK pc \in {"page", "settle"}, row \in Nat :
             To(s, [sync[s] EXCEPT !.pc = pc, !.at = @ + 1, !.row = row])
  <2>1. CASE StoreEvent(s) \/ LogSpam(s)
    <3>1. [sync[s] EXCEPT !.pc = "page", !.at = @ + 1]
            = [sync[s] EXCEPT !.pc = "page", !.at = @ + 1, !.row = sync[s].row]
          /\ sync[s].row \in Nat
      BY <1>1 DEF Busy
    <3>2. To(s, [sync[s] EXCEPT !.pc = "page", !.at = @ + 1])
      BY <2>1 DEF StoreEvent, LogSpam
    <3> QED
      BY <3>1, <3>2
  <2>2. CASE Import(s)
    <3>1. Len(rows) + 1 \in Nat
      BY DEF Inv, TypeOK
    <3>2. To(s, [sync[s] EXCEPT !.pc = "settle", !.at = @ + 1, !.row = Len(rows) + 1])
      BY <2>2 DEF Import
    <3> QED
      BY <3>1, <3>2
  <2> QED
    BY <2>1, <2>2
<1>5. PICK q : q = [sync[s] EXCEPT !.pc = pc, !.at = @ + 1, !.row = row]
  OBVIOUS
<1>6. q \in Busy /\ q.at = at + 1 /\ q.pc = pc /\ q.next = sync[s].next
      /\ q.kind = sync[s].kind /\ q.loop = sync[s].loop
  <2>1. PICK next : next = at + 1
    OBVIOUS
  <2>2. next \in Nat \ {0}
    BY <1>2, <2>1
  <2>3. q = [sync[s] EXCEPT !.pc = pc, !.at = next, !.row = row]
    BY <1>5, <2>1
  <2>4. q \in Busy /\ q.at = next /\ q.pc = pc /\ q.next = sync[s].next
        /\ q.kind = sync[s].kind /\ q.loop = sync[s].loop
    BY <1>1, <1>4, <2>2, <2>3 DEF Busy
  <2> QED
    BY <2>1, <2>4
<1>7. \/ UNCHANGED rows /\ blocked' = blocked \cup {m}
      \/ UNCHANGED blocked /\ \E event \in BOOLEAN : rows' = Append(rows, Stored(m, event))
  BY DEF StoreEvent, LogSpam, Import
<1>8. /\ rows' \in Seq(Row) /\ DOMAIN rows \subseteq DOMAIN rows'
      /\ \A i \in DOMAIN rows : rows'[i].mail = rows[i].mail /\ rows'[i].event = rows[i].event
      /\ blocked \subseteq blocked' /\ blocked' \subseteq Mail
      /\ m \in blocked' \/ \E i \in DOMAIN rows' : rows'[i].mail = m
  <2>1. CASE UNCHANGED rows /\ blocked' = blocked \cup {m}
    BY <1>3, <2>1 DEF Inv, TypeOK
  <2>2. CASE UNCHANGED blocked /\ \E event \in BOOLEAN : rows' = Append(rows, Stored(m, event))
    <3>1. PICK event \in BOOLEAN : rows' = Append(rows, Stored(m, event))
      BY <2>2
    <3>2. PICK new : new = Stored(m, event)
      OBVIOUS
    <3>3. (m \in Flagged) \in BOOLEAN /\ (~event /\ m \in Flagged) \in BOOLEAN
      OBVIOUS
    <3>4. new \in Row /\ new.mail = m
      BY <1>3, <3>2, <3>3 DEF Stored, Row
    <3>5. rows' = Append(rows, new) /\ rows \in Seq(Row)
      BY <3>1, <3>2 DEF Inv, TypeOK
    <3>6. Len(rows') = Len(rows) + 1 /\ rows'[Len(rows) + 1] = new
      BY <3>4, <3>5
    <3> QED
      BY <2>2, <3>4, <3>5, <3>6 DEF Inv, TypeOK
  <2> QED
    BY <1>7, <2>1, <2>2
<1>9. Grows
  BY <1>4, <1>8 DEF Grows, To, mailbox, Inv, TypeOK
<1>10. Past(q.at - 1)'
  <2>1. PICK n : n = at
    OBVIOUS
  <2>2. n \in Nat \ {0} /\ n <= Len(inbox) /\ Past(n - 1) /\ inbox[n] = m
    BY <1>1, <1>2, <2>1 DEF SlotOK
  <2>3. Past(n)'
    BY <1>8, <1>9, <2>2, PastNext DEF Inv
  <2>4. q.at - 1 = n
    BY <1>2, <1>6, <2>1
  <2> QED
    BY <2>3, <2>4
<1>11. SlotOK(q)'
  BY <1>1, <1>2, <1>6, <1>9, <1>10 DEF SlotOK, Grows
<1> QED
  BY <1>4, <1>5, <1>6, <1>8, <1>11, ToKeeps DEF StoreEvent, LogSpam, Import, Inv, TypeOK

\* Storing a file and marking a message change neither its mail nor its kind.
LEMMA InvFiles ==
  ASSUME Inv, NEW s \in Slot, Store(s) \/ Mark(s)
  PROVE  Inv'
<1>1. sync[s] \in Busy /\ SlotOK(sync[s]) /\ sync[s].pc \in {"store", "mark"}
  BY SlotBusy DEF Store, Mark, At
<1> DEFINE i == sync[s].row
<1>2. PICK pc \in {"mark", sync[s].loop} : To(s, [sync[s] EXCEPT !.pc = pc])
  BY DEF Store, Mark
<1>3. PICK q : q = [sync[s] EXCEPT !.pc = pc]
  OBVIOUS
<1>4. q \in Busy /\ SlotOK(q)
  BY <1>1, <1>3 DEF Busy, SlotOK
<1>5. ASSUME i \in DOMAIN rows
      PROVE  \E files \in Nat, done, flagged \in BOOLEAN :
               rows' = [rows EXCEPT ![i] = [@ EXCEPT !.files = files, !.done = done,
                                                     !.flagged = flagged]]
  <2>1. rows[i] \in Row
    BY <1>5 DEF Inv, TypeOK
  <2>2. rows[i].files \in Nat /\ rows[i].files + 1 \in Nat /\ rows[i].done \in BOOLEAN
        /\ rows[i].flagged \in BOOLEAN /\ rows[i].mail \in Mail
    BY <2>1 DEF Row
  <2>3. ASSUME NEW files,
               files = IF rows[i].mail \in Refused THEN rows[i].files ELSE rows[i].files + 1,
               rows' = [rows EXCEPT ![i] = [@ EXCEPT !.files = files]]
        PROVE  \E f \in Nat, done, flagged \in BOOLEAN :
                 rows' = [rows EXCEPT ![i] = [@ EXCEPT !.files = f, !.done = done,
                                                       !.flagged = flagged]]
    <3>2. files \in Nat
      BY <2>2, <2>3
    <3>3. rows' = [rows EXCEPT ![i] = [rows[i] EXCEPT !.files = files]]
      BY <2>3
    <3>4. [rows[i] EXCEPT !.files = files]
            = [rows[i] EXCEPT !.files = files, !.done = rows[i].done,
                              !.flagged = rows[i].flagged]
      BY <2>1 DEF Row
    <3> QED
      BY <2>2, <3>2, <3>3, <3>4
  <2>4. CASE rows' = [rows EXCEPT ![i] = [@ EXCEPT !.flagged = TRUE]]
    <3>1. [rows[i] EXCEPT !.flagged = TRUE]
            = [rows[i] EXCEPT !.files = rows[i].files, !.done = rows[i].done, !.flagged = TRUE]
      BY <2>1 DEF Row
    <3>2. rows' = [rows EXCEPT ![i] = [rows[i] EXCEPT !.flagged = TRUE]]
      BY <2>4
    <3> QED
      BY <2>2, <3>1, <3>2
  <2>5. CASE Mark(s)
    <3> DEFINE flagged == rows[i].flagged \/ rows[i].mail \in Attached
    <3>1. flagged \in BOOLEAN
      OBVIOUS
    <3>2. rows' = [rows EXCEPT ![i] = [rows[i] EXCEPT !.done = TRUE, !.flagged = flagged]]
      BY <2>5 DEF Mark
    <3> HIDE DEF flagged
    <3>3. [rows[i] EXCEPT !.done = TRUE, !.flagged = flagged]
            = [rows[i] EXCEPT !.files = rows[i].files, !.done = TRUE, !.flagged = flagged]
      BY <2>1 DEF Row
    <3> QED
      BY <2>2, <3>1, <3>2, <3>3
  <2> QED
    BY <2>3, <2>4, <2>5 DEF Store
<1>6. rows' \in Seq(Row) /\ DOMAIN rows' = DOMAIN rows
      /\ \A j \in DOMAIN rows : rows'[j].mail = rows[j].mail /\ rows'[j].event = rows[j].event
  <2>1. CASE i \in DOMAIN rows
    <3>1. PICK files \in Nat, done \in BOOLEAN, flagged \in BOOLEAN :
               rows' = [rows EXCEPT ![i] = [@ EXCEPT !.files = files, !.done = done,
                                                     !.flagged = flagged]]
      BY <1>5, <2>1
    <3>2. rows[i] \in Row
      BY <2>1 DEF Inv, TypeOK
    <3>3. PICK w : w = [rows[i] EXCEPT !.files = files, !.done = done, !.flagged = flagged]
      OBVIOUS
    <3>4. w \in Row /\ w.mail = rows[i].mail /\ w.event = rows[i].event
      BY <3>2, <3>3 DEF Row
    <3>5. rows' = [rows EXCEPT ![i] = w]
      BY <3>1, <3>3
    <3>6. rows \in Seq(Row) /\ rows' \in Seq(Row) /\ DOMAIN rows' = DOMAIN rows
      <4>1. rows \in Seq(Row) /\ i \in 1 .. Len(rows)
        BY <2>1 DEF Inv, TypeOK
      <4> QED
        BY <3>4, <3>5, <4>1, ExceptSeq
    <3>7. \A j \in DOMAIN rows : rows'[j] = IF j = i THEN w ELSE rows[j]
      BY <3>5
    <3> QED
      BY <3>4, <3>6, <3>7
  <2>2. CASE i \notin DOMAIN rows
    <3>1. PICK w : rows' = [rows EXCEPT ![i] = w]
      BY DEF Store, Mark
    <3>2. rows' = rows
      BY <2>2, <3>1 DEF Inv, TypeOK
    <3> QED
      BY <3>2 DEF Inv, TypeOK
  <2> QED
    BY <2>1, <2>2
<1>7. faults' \in Nat /\ blocked' = blocked
  <2>1. faults' = faults \/ faults' = faults + 1
    BY DEF Store, Mark, Fault
  <2> QED
    BY <2>1 DEF Store, Mark, Inv, TypeOK
<1>8. Grows
  BY <1>2, <1>6, <1>7 DEF Grows, To, mailbox, Inv, TypeOK
<1>9. SlotOK(q)'
  BY <1>4, <1>8, SlotStays DEF Inv
<1> QED
  BY <1>2, <1>3, <1>4, <1>6, <1>7, <1>9, ToKeeps DEF Inv, TypeOK

(***************************************************************************)
(* Starting and ending a sync.                                             *)
(***************************************************************************)

\* The position a sync starts from is a good one.
LEMMA SnapshotOK ==
  ASSUME Inv, NEW pc \in {"scanned", "fetch"}, NEW kind \in {"auto", "manual"}
  PROVE  Snapshot(pc, kind) \in Busy /\ SlotOK(Snapshot(pc, kind))
<1>1. PICK at : at = IF cursor = NoCursor THEN from ELSE cursor + 1
  OBVIOUS
<1>2. at \in Nat \ {0} /\ at <= Len(inbox) + 1 /\ Past(at - 1)
  <2>1. CASE cursor = NoCursor
    <3>1. at = from /\ from \in Nat \ {0}
      BY <1>1, <2>1 DEF Inv, TypeOK
    <3>2. Past(at - 1)
      BY <3>1 DEF Past
    <3> QED
      BY <3>1, <3>2 DEF Inv
  <2>2. CASE cursor # NoCursor
    <3>1. cursor \in Nat /\ at = cursor + 1 /\ at - 1 = cursor
      BY <1>1, <2>2 DEF Inv, TypeOK
    <3>2. cursor <= Len(inbox) /\ Past(cursor)
      BY <3>1 DEF Inv, CursorOK
    <3> QED
      BY <3>1, <3>2 DEF Inv, TypeOK
  <2> QED
    BY <2>1, <2>2
<1>3. PICK plan : plan = IF enabled THEN "later" ELSE nextAuto
  OBVIOUS
<1>4. plan \in {"due", "later", "opening"}
  BY <1>3 DEF Inv, TypeOK
<1>5. PICK q : q = [pc |-> pc, kind |-> kind, at |-> at, next |-> 0, row |-> 0,
                    loop |-> "page", todo |-> {}, date |-> 0, plan |-> plan]
  OBVIOUS
<1>6. Snapshot(pc, kind) = q
  BY <1>1, <1>3, <1>5 DEF Snapshot
<1>7. q \in Busy
  BY <1>2, <1>4, <1>5 DEF Busy
<1>8. q.at = at /\ q.pc = pc /\ q.kind = kind /\ q.loop = "page"
  BY <1>5
<1>9. SlotOK(q)
  BY <1>2, <1>8 DEF SlotOK
<1> QED
  BY <1>6, <1>7, <1>9

LEMMA InvStart ==
  ASSUME Inv, NEW s \in Slot, AutoScan(s) \/ AutoStart(s) \/ ManualStart(s)
  PROVE  Inv'
<1>1. Grows
  BY DEF Grows, AutoScan, AutoStart, ManualStart, mailbox, Inv, TypeOK
<1>2. TypesElse /\ cursor' = cursor
  BY DEF TypesElse, AutoScan, AutoStart, ManualStart, mailbox, timer, Inv, TypeOK
<1>3. \E q \in Busy \cup {Idle} :
         sync' = [sync EXCEPT ![s] = q] /\ (q \in Busy => SlotOK(q))
  <2>1. CASE AutoScan(s)
    BY <2>1, SnapshotOK DEF AutoScan
  <2>2. CASE ManualStart(s)
    BY <2>2, SnapshotOK DEF ManualStart
  <2>3. CASE AutoStart(s)
    <3>1. sync[s] \in Busy /\ SlotOK(sync[s]) /\ sync[s].pc = "scanned"
      BY <2>3, SlotBusy DEF AutoStart
    <3> DEFINE q == [sync[s] EXCEPT !.pc = "fetch"]
    <3>2. q \in Busy /\ SlotOK(q)
      BY <3>1 DEF Busy, SlotOK
    <3>3. sync' = [sync EXCEPT ![s] = Idle] \/ sync' = [sync EXCEPT ![s] = q]
      BY <2>3 DEF AutoStart
    <3>4. Idle \notin Busy
      BY DEF Idle, Busy
    <3> QED
      BY <3>2, <3>3, <3>4
  <2> QED
    BY <2>1, <2>2, <2>3
<1>4. PICK q \in Busy \cup {Idle} :
         sync' = [sync EXCEPT ![s] = q] /\ (q \in Busy => SlotOK(q))
  BY <1>3
<1>5. q \in Busy => SlotOK(q)'
  BY <1>1, <1>4, SlotStays DEF Inv
<1> QED
  BY <1>1, <1>2, <1>4, <1>5, OneSync

\* A sync that ends has dealt with its whole page.
LEMMA InvFinish ==
  ASSUME Inv, NEW s \in Slot, Finish(s)
  PROVE  Inv'
<1>1. sync[s] \in Busy /\ SlotOK(sync[s]) /\ sync[s].pc = "todo"
  BY SlotBusy DEF Finish, At
<1> DEFINE q == sync[s]
<1>2. q.next \in Nat /\ q.at \in Nat \ {0} /\ q.plan \in {"due", "later", "opening"}
      /\ q.kind # "backfill"
  BY <1>1 DEF Busy, SlotOK
<1>3. q.next <= Len(inbox) /\ q.at = q.next + 1 /\ Past(q.next)
  <2>1. q.next <= Len(inbox) /\ q.at <= q.next + 1 /\ q.at > q.next /\ Past(q.at - 1)
    BY <1>1 DEF SlotOK
  <2>2. q.at = q.next + 1 /\ q.at - 1 = q.next
    BY <1>2, <2>1
  <2> QED
    BY <2>1, <2>2
<1>4. Grows
  BY <1>2 DEF Finish, Grows, Inv, TypeOK
<1>5. TypesElse
  <2>1. (running /\ q.kind # "auto") \in BOOLEAN
    OBVIOUS
  <2> QED
    BY <1>2, <2>1 DEF Finish, TypesElse, Inv, TypeOK
<1>6. cursor' = cursor \/ CursorOK'
  <2>1. CASE cursor' = q.next
    <3>1. PICK n : n = q.next
      OBVIOUS
    <3>2. n \in Nat /\ n <= Len(inbox) /\ Past(n) /\ cursor' = n
      BY <1>2, <1>3, <2>1, <3>1
    <3>3. Past(n)'
      BY <1>4, <3>2, PastStays DEF Inv
    <3>4. inbox' = inbox
      BY DEF Finish
    <3> QED
      BY <3>2, <3>3, <3>4 DEF CursorOK
  <2> QED
    BY <2>1 DEF Finish
<1>7. \E r \in Busy \cup {Idle} : sync' = [sync EXCEPT ![s] = r] /\ (r \in Busy => SlotOK(r))
  <2> DEFINE b == [sync[s] EXCEPT !.kind = "broad", !.pc = "page", !.loop = "page"]
  <2>1. b \in Busy /\ SlotOK(b)
    BY <1>1, <1>2, <1>3 DEF Busy, SlotOK
  <2>2. sync' = [sync EXCEPT ![s] = Idle] \/ sync' = [sync EXCEPT ![s] = b]
    BY DEF Finish, Broad
  <2>3. Idle \notin Busy
    BY DEF Idle, Busy
  <2> QED
    BY <2>1, <2>2, <2>3
<1>8. PICK r \in Busy \cup {Idle} :
         sync' = [sync EXCEPT ![s] = r] /\ (r \in Busy => SlotOK(r))
  BY <1>7
<1>9. r \in Busy => SlotOK(r)'
  BY <1>4, <1>8, SlotStays DEF Inv
<1> QED
  BY <1>4, <1>5, <1>6, <1>8, <1>9, OneSync

\* A sync that fails saves nothing.
LEMMA InvFailed ==
  ASSUME Inv, NEW s \in Slot, Fail(s) \/ ImportStuck(s)
  PROVE  Inv'
<1>1. Failed(s) /\ faults' \in Nat
  <2>1. faults' = faults \/ faults' = faults + 1
    BY DEF Fail, ImportStuck, Fault
  <2> QED
    BY <2>1 DEF Fail, ImportStuck, Inv, TypeOK
<1>2. Grows
  BY <1>1 DEF Failed, Grows, mailbox, Inv, TypeOK
<1>3. TypesElse /\ cursor' = cursor
  <2>1. (running /\ sync[s].kind # "auto") \in BOOLEAN
    OBVIOUS
  <2> QED
    BY <1>1, <2>1 DEF Failed, TypesElse, mailbox, Inv, TypeOK
<1>4. Idle \notin Busy
  BY DEF Idle, Busy
<1> QED
  BY <1>1, <1>2, <1>3, <1>4, OneSync DEF Failed

(***************************************************************************)
(* The provider, the clock, the settings and a restart.                    *)
(***************************************************************************)

\* A mail appended to the inbox is behind no saved position.
LEMMA InvMail ==
  ASSUME Inv, NEW m \in Mail, Deliver(m) \/ Redeliver(m)
  PROVE  Inv'
<1>1. inbox' = Append(inbox, m) /\ inbox \in Seq(Mail)
  BY DEF Deliver, Redeliver, Inv, TypeOK
<1>2. inbox' \in Seq(Mail) /\ Len(inbox') = Len(inbox) + 1
      /\ \A i \in 1 .. Len(inbox) : inbox'[i] = inbox[i]
  BY <1>1
<1>3. UNCHANGED <<from, cursor, enabled, nextAuto, open, running, sync, rows, blocked, faults>>
  BY DEF Deliver, Redeliver, mailbox, timer
<1>4. Grows
  BY <1>1, <1>2, <1>3 DEF Grows
<1>5. TypeOK'
  BY <1>2, <1>3 DEF Inv, TypeOK
<1> QED
  BY <1>3, <1>4, <1>5, Kept

\* The schedule and a restart: no position, mail or message changes.
LEMMA InvOuter ==
  ASSUME Inv, Elapse \/ Hours \/ Crash \/ (\E on \in BOOLEAN : SetAuto(on))
  PROVE  Inv'
<1>1. UNCHANGED <<inbox, from, cursor, rows, blocked>>
  BY DEF Elapse, Hours, Crash, SetAuto, mailbox
<1>2. Grows
  BY <1>1 DEF Grows, Inv, TypeOK
<1>3. sync' = sync \/ sync' = [s \in Slot |-> Idle]
  BY DEF Elapse, Hours, Crash, SetAuto
<1>4. Idle \notin Busy
  BY DEF Idle, Busy
<1>5. {enabled', open', running'} \subseteq BOOLEAN /\ nextAuto' \in {"due", "later", "opening"}
      /\ faults' \in Nat
  <2>1. CASE Elapse
    BY <2>1 DEF Elapse, Inv, TypeOK
  <2>2. CASE Hours
    <3>1. (~open) \in BOOLEAN
      OBVIOUS
    <3> QED
      BY <2>2, <3>1 DEF Hours, Inv, TypeOK
  <2>3. CASE Crash
    <3>1. faults' = faults + 1 /\ running' = FALSE /\ UNCHANGED <<enabled, nextAuto, open>>
      BY <2>3 DEF Crash, Fault, timer
    <3>2. faults \in Nat /\ enabled \in BOOLEAN /\ open \in BOOLEAN
          /\ nextAuto \in {"due", "later", "opening"}
      BY DEF Inv, TypeOK
    <3>3. {enabled', open', running'} \subseteq BOOLEAN
      BY <3>1, <3>2, Zenon
    <3> QED
      BY <3>1, <3>2, <3>3
  <2>4. ASSUME NEW on \in BOOLEAN, SetAuto(on)
        PROVE  {enabled', open', running'} \subseteq BOOLEAN
               /\ nextAuto' \in {"due", "later", "opening"} /\ faults' \in Nat
    BY <2>4 DEF SetAuto, Inv, TypeOK
  <2> QED
    BY <2>1, <2>2, <2>3, <2>4
<1>6. TypeOK'
  BY <1>1, <1>3, <1>5 DEF Inv, TypeOK
<1>7. ASSUME NEW s \in Slot, NEW q \in Busy, sync'[s] = q PROVE sync[s] = q
  BY <1>3, <1>4, <1>7
<1> QED
  BY <1>1, <1>2, <1>6, <1>7, Kept

(***************************************************************************)
(* What holds with backfills too: the types, and that a message counts as  *)
(* done only when its attachment was stored or refused.  A sync about to   *)
(* mark a message has stored or refused its attachment, or found it        *)
(* stored; and files are never taken back.                                 *)
(***************************************************************************)

FileThere(i) == rows[i].mail \in Attached \ Refused => rows[i].files > 0

ShapeOK(q) ==
    /\ q.pc \notin {"scanned", "fetch"} => q.next <= Len(inbox)
    /\ q.pc \in {"event", "spam", "import"} => q.at <= q.next
    /\ q.pc \in {"settle", "files", "store", "mark"} => q.row \in DOMAIN rows
    /\ q.pc = "mark" => FileThere(q.row)
    /\ q.todo \subseteq DOMAIN rows
    /\ q.kind = "backfill" => q.date > 0

Shape ==
    /\ TypeOK /\ DoneMeansStored
    /\ \A s \in Slot, q \in Busy : sync[s] = q => ShapeOK(q)

\* Mails and messages are only added, and files only stored.
Adds ==
    /\ inbox' \in Seq(Mail) /\ Len(inbox) <= Len(inbox')
    /\ rows' \in Seq(Row) /\ DOMAIN rows \subseteq DOMAIN rows'
    /\ \A i \in DOMAIN rows : rows'[i].mail = rows[i].mail /\ rows[i].files <= rows'[i].files

LEMMA ShapeStays ==
  ASSUME TypeOK, Adds, NEW q \in Busy, ShapeOK(q)
  PROVE  ShapeOK(q)'
<1>1. Len(inbox) \in Nat /\ Len(inbox') \in Nat /\ Len(inbox) <= Len(inbox') /\ q.next \in Nat
  BY DEF TypeOK, Adds, Busy
<1>2. ASSUME NEW i \in DOMAIN rows, FileThere(i) PROVE FileThere(i)'
  <2>1. rows[i] \in Row /\ rows'[i] \in Row
    BY DEF TypeOK, Adds
  <2>2. rows[i].files \in Nat /\ rows'[i].files \in Nat
    BY <2>1 DEF Row
  <2> QED
    BY <1>2, <2>2 DEF FileThere, Adds
<1> QED
  BY <1>1, <1>2 DEF ShapeOK, Adds

\* A step that adds, leaves the messages done right, and each sync as it was or in a good
\* state, keeps the shape.
LEMMA ShapeKept ==
  ASSUME Shape, Adds, TypeOK', DoneMeansStored',
         \A s \in Slot, q \in Busy : sync'[s] = q => sync[s] = q \/ ShapeOK(q)'
  PROVE  Shape'
  BY ShapeStays DEF Shape

\* The columns a step of a sync may change besides.
TypesRest ==
    /\ from' \in Nat \ {0}
    /\ cursor' \in Nat \cup {NoCursor} /\ nextAuto' \in {"due", "later", "opening"}
    /\ {enabled', open', running'} \subseteq BOOLEAN
    /\ blocked' \subseteq Mail /\ faults' \in Nat

LEMMA ShapeOfOne ==
  ASSUME Shape, Adds, TypesRest, DoneMeansStored',
         NEW s \in Slot, NEW q \in Busy \cup {Idle}, sync' = [sync EXCEPT ![s] = q],
         q \in Busy => ShapeOK(q)'
  PROVE  Shape'
<1>1. TypeOK'
  BY DEF Shape, TypeOK, Adds, TypesRest
<1>2. ASSUME NEW p \in Slot, NEW r \in Busy, sync'[p] = r
      PROVE  sync[p] = r \/ ShapeOK(r)'
  <2>1. CASE p = s
    BY <1>2, <2>1 DEF Shape, TypeOK
  <2>2. CASE p # s
    BY <1>2, <2>2 DEF Shape, TypeOK
  <2> QED
    BY <2>1, <2>2
<1> QED
  BY <1>1, <1>2, ShapeKept

\* A step that stores nothing.
LEMMA ShapeMoves ==
  ASSUME Shape, TypesRest, UNCHANGED <<inbox, rows>>,
         NEW s \in Slot, NEW q \in Busy \cup {Idle}, sync' = [sync EXCEPT ![s] = q],
         q \in Busy => ShapeOK(q)
  PROVE  Shape'
<1>1. Adds
  <2>1. ASSUME NEW i \in DOMAIN rows PROVE rows[i].files <= rows[i].files
    <3>1. rows[i] \in Row
      BY DEF Shape, TypeOK
    <3> QED
      BY <3>1 DEF Row
  <2>2. Len(inbox) \in Nat
    BY DEF Shape, TypeOK
  <2> QED
    BY <2>1, <2>2 DEF Adds, Shape, TypeOK
<1>2. DoneMeansStored'
  BY DEF Shape, DoneMeansStored
<1>3. q \in Busy => ShapeOK(q)'
  BY <1>1, ShapeStays DEF Shape
<1> QED
  BY <1>1, <1>2, <1>3, ShapeOfOne

LEMMA ShapeBusy ==
  ASSUME Shape, NEW s \in Slot, sync[s].pc # "idle"
  PROVE  sync[s] \in Busy /\ ShapeOK(sync[s])
<1>1. sync[s] \in Busy
  BY DEF Shape, TypeOK, Idle
<1> QED
  BY <1>1 DEF Shape

\* To with one sync changed and nothing stored.
LEMMA ShapeTo ==
  ASSUME Shape, NEW s \in Slot, NEW q \in Busy, To(s, q), UNCHANGED rows,
         blocked' \subseteq Mail, faults' = faults \/ Fault, ShapeOK(q)
  PROVE  Shape'
<1>1. TypesRest /\ UNCHANGED inbox
  <2>1. faults' \in Nat
    BY DEF Shape, TypeOK, Fault
  <2> QED
    BY <2>1 DEF TypesRest, To, mailbox, timer, Shape, TypeOK
<1> QED
  BY <1>1, ShapeMoves DEF To

LEMMA ShapeMoving ==
  ASSUME Shape, NEW s \in Slot,
         Fetch(s) \/ Settle(s) \/ Retrieve(s) \/ List(s) \/ NextCandidate(s) \/ LogSpam(s)
  PROVE  Shape'
<1>1. sync[s] \in Busy /\ ShapeOK(sync[s])
  BY ShapeBusy DEF Fetch, Settle, Retrieve, List, NextCandidate, LogSpam, At
<1>2. Len(inbox) \in Nat /\ inbox \in Seq(Mail) /\ rows \in Seq(Row) /\ blocked \subseteq Mail
  BY DEF Shape, TypeOK
<1>3. CASE Fetch(s)
  <2>1. PICK next \in (sync[s].at - 1) .. Len(inbox) :
               To(s, [sync[s] EXCEPT !.pc = "page", !.next = next])
    BY <1>3 DEF Fetch
  <2>2. next \in Nat /\ next <= Len(inbox)
    BY <1>1, <1>2 DEF Busy
  <2>3. [sync[s] EXCEPT !.pc = "page", !.next = next] \in Busy
        /\ ShapeOK([sync[s] EXCEPT !.pc = "page", !.next = next])
    BY <1>1, <2>2 DEF Busy, ShapeOK
  <2> QED
    BY <1>2, <1>3, <2>1, <2>3, ShapeTo DEF Fetch
<1>4. CASE Settle(s)
  <2>1. [sync[s] EXCEPT !.pc = "files"] \in Busy /\ ShapeOK([sync[s] EXCEPT !.pc = "files"])
    BY <1>1, <1>4 DEF Busy, ShapeOK, Settle, At
  <2> QED
    BY <1>2, <1>4, <2>1, ShapeTo DEF Settle
<1>5. CASE Retrieve(s)
  <2> DEFINE i == sync[s].row
             go(pc) == [sync[s] EXCEPT !.pc = pc]
  <2>1. i \in DOMAIN rows /\ rows[i].files \in Nat
    <3>1. i \in DOMAIN rows
      BY <1>1, <1>5 DEF ShapeOK, Retrieve, At
    <3>2. rows[i] \in Row
      BY <1>2, <3>1
    <3> QED
      BY <3>1, <3>2 DEF Row
  <2>2. \A pc \in {"store", "page", "todo"} : go(pc) \in Busy /\ ShapeOK(go(pc))
    BY <1>1, <1>5 DEF Busy, ShapeOK, Retrieve, At
  <2>3. FileThere(i) => go("mark") \in Busy /\ ShapeOK(go("mark"))
    BY <1>1, <1>5 DEF Busy, ShapeOK, Retrieve, At
  <2>4. CASE To(s, go(IF rows[i].mail \in Attached /\ rows[i].files = 0 THEN "store" ELSE "mark"))
             /\ UNCHANGED faults
    <3>1. CASE rows[i].mail \in Attached /\ rows[i].files = 0
      BY <1>2, <1>5, <2>2, <2>4, <3>1, ShapeTo DEF Retrieve
    <3>2. CASE ~(rows[i].mail \in Attached /\ rows[i].files = 0)
      <4>1. FileThere(i)
        BY <2>1, <3>2 DEF FileThere
      <4> QED
        BY <1>2, <1>5, <2>3, <2>4, <3>2, <4>1, ShapeTo DEF Retrieve
    <3> QED
      BY <3>1, <3>2
  <2>5. CASE Fault /\ To(s, go(sync[s].loop))
    <3>1. sync[s].loop \in {"store", "page", "todo"}
      BY <1>1 DEF Busy
    <3> QED
      BY <1>2, <1>5, <2>2, <2>5, <3>1, ShapeTo DEF Retrieve
  <2> QED
    BY <1>5, <2>4, <2>5 DEF Retrieve
<1>6. CASE List(s)
  <2> DEFINE todo == {i \in DOMAIN rows : /\ ~rows[i].event /\ ~rows[i].done
                                          /\ sync[s].kind = "broad" \/ rows[i].flagged}
             q == [sync[s] EXCEPT !.pc = "todo", !.loop = "todo", !.todo = todo]
  <2>1. todo \subseteq DOMAIN rows /\ todo \subseteq Nat
    BY <1>2
  <2>2. To(s, q)
    BY <1>6 DEF List
  <2> HIDE DEF todo
  <2>3. q \in Busy /\ ShapeOK(q)
    BY <1>1, <1>6, <2>1 DEF Busy, ShapeOK, List, At
  <2> QED
    BY <1>2, <1>6, <2>2, <2>3, ShapeTo DEF List
<1>7. CASE NextCandidate(s)
  <2>1. PICK i \in sync[s].todo :
               To(s, [sync[s] EXCEPT !.pc = "files", !.row = i, !.todo = @ \ {i}])
    BY <1>7 DEF NextCandidate
  <2> DEFINE q == [sync[s] EXCEPT !.pc = "files", !.row = i, !.todo = @ \ {i}]
  <2>2. i \in Nat /\ i \in DOMAIN rows /\ q \in Busy
    BY <1>1 DEF Busy, ShapeOK
  <2>3. ShapeOK(q)
    BY <1>1, <1>7, <2>2 DEF Busy, ShapeOK, NextCandidate, At
  <2> QED
    BY <1>2, <1>7, <2>1, <2>2, <2>3, ShapeTo DEF NextCandidate
<1>8. CASE LogSpam(s)
  <2> DEFINE q == [sync[s] EXCEPT !.pc = "page", !.at = @ + 1]
  <2>1. sync[s].at \in Nat \ {0} /\ sync[s].at + 1 \in Nat \ {0} /\ sync[s].next \in Nat
    BY <1>1 DEF Busy
  <2>2. sync[s].at \in DOMAIN inbox
    BY <1>1, <1>2, <1>8, <2>1 DEF ShapeOK, LogSpam, At
  <2>3. blocked' \subseteq Mail
    BY <1>2, <1>8, <2>2 DEF LogSpam
  <2>4. q \in Busy
    BY <1>1, <2>1 DEF Busy
  <2>5. q.pc = "page" /\ q.next = sync[s].next /\ q.todo = sync[s].todo /\ q.kind = sync[s].kind
        /\ q.date = sync[s].date /\ sync[s].next <= Len(inbox)
    BY <1>1, <1>8 DEF Busy, ShapeOK, LogSpam, At
  <2>6. ShapeOK(q)
    BY <1>1, <2>5 DEF ShapeOK
  <2> QED
    BY <1>8, <2>3, <2>4, <2>6, ShapeTo DEF LogSpam
<1> QED
  BY <1>3, <1>4, <1>5, <1>6, <1>7, <1>8

LEMMA ShapeCheck ==
  ASSUME Shape, NEW s \in Slot, Check(s)
  PROVE  Shape'
<1>1. sync[s] \in Busy /\ ShapeOK(sync[s]) /\ sync[s].pc = "page" /\ sync[s].at <= sync[s].next
  BY ShapeBusy DEF Check, At
<1>2. UNCHANGED <<rows, blocked, faults>> /\ blocked \subseteq Mail
  BY DEF Check, Shape, TypeOK
<1> DEFINE m == inbox[sync[s].at]
           skip == [sync[s] EXCEPT !.at = @ + 1]
<1>3. skip \in Busy /\ ShapeOK(skip)
  BY <1>1 DEF Busy, ShapeOK
<1>4. ASSUME NEW i \in RowsOf(m, FALSE)
      PROVE  [skip EXCEPT !.pc = "files", !.row = i] \in Busy
             /\ ShapeOK([skip EXCEPT !.pc = "files", !.row = i])
  <2>1. i \in DOMAIN rows /\ i \in Nat
    BY DEF RowsOf, Shape, TypeOK
  <2>2. PICK k : k = skip
    OBVIOUS
  <2>3. k \in Busy /\ ShapeOK(k) /\ k.pc = "page"
    BY <1>1, <1>3, <2>2 DEF Busy
  <2>4. [k EXCEPT !.pc = "files", !.row = i] \in Busy
        /\ ShapeOK([k EXCEPT !.pc = "files", !.row = i])
    BY <2>1, <2>3 DEF Busy, ShapeOK
  <2> QED
    BY <2>2, <2>4
<1>5. ASSUME NEW pc \in {"event", "spam", "import"}
      PROVE  [sync[s] EXCEPT !.pc = pc] \in Busy /\ ShapeOK([sync[s] EXCEPT !.pc = pc])
  BY <1>1 DEF Busy, ShapeOK
<1>6. \/ To(s, skip)
      \/ \E i \in RowsOf(m, FALSE) : To(s, [skip EXCEPT !.pc = "files", !.row = i])
      \/ \E pc \in {"event", "spam", "import"} : To(s, [sync[s] EXCEPT !.pc = pc])
  BY DEF Check
<1> QED
  BY <1>2, <1>3, <1>4, <1>5, <1>6, ShapeTo

\* A mail stored is a new message, with nothing done for it yet.
LEMMA ShapeStores ==
  ASSUME Shape, NEW s \in Slot, StoreEvent(s) \/ Import(s)
  PROVE  Shape'
<1>1. sync[s] \in Busy /\ ShapeOK(sync[s]) /\ sync[s].pc \in {"event", "import"}
  BY ShapeBusy DEF StoreEvent, Import, At
<1>2. sync[s].at \in Nat \ {0} /\ sync[s].next \in Nat /\ sync[s].row \in Nat
      /\ inbox \in Seq(Mail) /\ Len(inbox) \in Nat /\ rows \in Seq(Row) /\ Len(rows) \in Nat
  BY <1>1 DEF Busy, Shape, TypeOK
<1>3. PICK m : m = inbox[sync[s].at]
  OBVIOUS
<1>4. m \in Mail
  BY <1>1, <1>2, <1>3 DEF ShapeOK
<1>5. PICK event \in BOOLEAN : rows' = Append(rows, Stored(m, event))
  BY <1>3 DEF StoreEvent, Import
<1>6. PICK new : new = Stored(m, event)
  OBVIOUS
<1>7. new \in Row /\ new.done = FALSE
  <2>1. (~event /\ m \in Flagged) \in BOOLEAN
    OBVIOUS
  <2> QED
    BY <1>4, <1>6, <2>1 DEF Stored, Row
<1>8. rows' \in Seq(Row) /\ Len(rows') = Len(rows) + 1 /\ rows'[Len(rows) + 1] = new
      /\ DOMAIN rows' = 1 .. (Len(rows) + 1) /\ DOMAIN rows = 1 .. Len(rows)
      /\ \A i \in DOMAIN rows : rows'[i] = rows[i]
  BY <1>2, <1>5, <1>6, <1>7
<1>9. Adds
  <2>1. ASSUME NEW i \in DOMAIN rows PROVE rows[i].files <= rows'[i].files
    <3>1. rows[i] \in Row /\ rows'[i] = rows[i]
      BY <1>2, <1>8
    <3> QED
      BY <3>1 DEF Row
  <2>2. inbox' = inbox
    BY DEF StoreEvent, Import, To
  <2> QED
    BY <1>2, <1>8, <2>1, <2>2 DEF Adds
<1>10. DoneMeansStored'
  BY <1>7, <1>8 DEF Shape, DoneMeansStored
<1>11. \E pc \in {"page", "settle"}, row \in {sync[s].row, Len(rows) + 1} :
         /\ To(s, [sync[s] EXCEPT !.pc = pc, !.at = @ + 1, !.row = row])
         /\ pc = "settle" => row = Len(rows) + 1
  <2>1. CASE StoreEvent(s)
    <3>1. [sync[s] EXCEPT !.pc = "page", !.at = @ + 1]
            = [sync[s] EXCEPT !.pc = "page", !.at = @ + 1, !.row = sync[s].row]
      BY <1>1 DEF Busy
    <3> QED
      BY <2>1, <3>1 DEF StoreEvent
  <2>2. CASE Import(s)
    BY <2>2 DEF Import
  <2> QED
    BY <2>1, <2>2
<1>12. PICK pc \in {"page", "settle"}, row \in {sync[s].row, Len(rows) + 1} :
         /\ To(s, [sync[s] EXCEPT !.pc = pc, !.at = @ + 1, !.row = row])
         /\ pc = "settle" => row = Len(rows) + 1
  BY <1>11
<1>13. PICK at : at = sync[s].at + 1
  OBVIOUS
<1>14. PICK q : q = [sync[s] EXCEPT !.pc = pc, !.at = at, !.row = row]
  OBVIOUS
<1>15. at \in Nat \ {0} /\ row \in Nat
  BY <1>2, <1>13
<1>16. q \in Busy /\ q.pc = pc /\ q.row = row /\ q.next = sync[s].next /\ q.todo = sync[s].todo
       /\ q.kind = sync[s].kind /\ q.date = sync[s].date
  BY <1>1, <1>14, <1>15 DEF Busy
<1>17. ShapeOK(q)'
  <2>1. q.next <= Len(inbox)
    BY <1>1, <1>16 DEF ShapeOK
  <2>2. q.pc = "settle" => q.row \in DOMAIN rows'
    BY <1>2, <1>8, <1>12, <1>16
  <2>3. q.todo \subseteq DOMAIN rows' /\ (q.kind = "backfill" => q.date > 0)
    BY <1>1, <1>8, <1>16 DEF ShapeOK
  <2> QED
    BY <1>12, <1>16, <2>1, <2>2, <2>3 DEF ShapeOK, To
<1>18. TypesRest /\ sync' = [sync EXCEPT ![s] = q]
  <2>1. UNCHANGED <<blocked, faults>> /\ To(s, q)
    BY <1>12, <1>13, <1>14 DEF StoreEvent, Import
  <2> QED
    BY <2>1 DEF TypesRest, To, mailbox, timer, Shape, TypeOK
<1> QED
  BY <1>9, <1>10, <1>16, <1>17, <1>18, ShapeOfOne

\* One message is changed: it gets a file, its flag or its mark.
LEMMA ShapeOfRow ==
  ASSUME Shape, NEW s \in Slot, NEW q \in Busy, To(s, q), ShapeOK(q)',
         UNCHANGED blocked, faults' = faults \/ Fault,
         NEW i \in DOMAIN rows, NEW w \in Row, rows' = [rows EXCEPT ![i] = w],
         w.mail = rows[i].mail, rows[i].files <= w.files,
         w.done => rows[i].done \/ FileThere(i)
  PROVE  Shape'
<1>1. rows \in Seq(Row) /\ rows' \in Seq(Row) /\ DOMAIN rows' = DOMAIN rows
  <2>1. rows \in Seq(Row) /\ i \in 1 .. Len(rows)
    BY DEF Shape, TypeOK
  <2> QED
    BY <2>1, ExceptSeq
<1>2. \A j \in DOMAIN rows : rows'[j] = IF j = i THEN w ELSE rows[j]
  OBVIOUS
<1>3. \A j \in DOMAIN rows : rows[j].files \in Nat /\ rows'[j].files \in Nat
  <2>1. \A j \in DOMAIN rows : rows[j] \in Row /\ rows'[j] \in Row
    BY <1>1
  <2> QED
    BY <2>1 DEF Row
<1>4. Adds
  BY <1>1, <1>2, <1>3 DEF Adds, To, Shape, TypeOK
<1>5. DoneMeansStored'
  <2> SUFFICES ASSUME NEW j \in DOMAIN rows, rows'[j].done, rows'[j].mail \in Attached \ Refused
               PROVE  rows'[j].files > 0
    BY <1>1 DEF DoneMeansStored
  <2>1. rows[j].mail \in Attached \ Refused /\ rows[j].files <= rows'[j].files
    BY <1>2, <1>3
  <2>2. rows[j].files > 0
    BY <1>2, <2>1 DEF Shape, DoneMeansStored, FileThere
  <2> QED
    BY <1>3, <2>1, <2>2
<1>6. TypesRest
  <2>1. faults' \in Nat
    BY DEF Shape, TypeOK, Fault
  <2> QED
    BY <2>1 DEF TypesRest, To, mailbox, timer, Shape, TypeOK
<1> QED
  BY <1>4, <1>5, <1>6, ShapeOfOne DEF To

LEMMA ShapeFiles ==
  ASSUME Shape, NEW s \in Slot, Store(s) \/ Mark(s)
  PROVE  Shape'
<1>1. sync[s] \in Busy /\ ShapeOK(sync[s]) /\ sync[s].pc \in {"store", "mark"}
  BY ShapeBusy DEF Store, Mark, At
<1>2. PICK i : i = sync[s].row
  OBVIOUS
<1>3. i \in DOMAIN rows /\ rows \in Seq(Row) /\ rows[i] \in Row /\ i \in 1 .. Len(rows)
  BY <1>1, <1>2 DEF ShapeOK, Shape, TypeOK
<1>4. rows[i].files \in Nat /\ rows[i].files + 1 \in Nat /\ rows[i].mail \in Mail
  BY <1>3 DEF Row
<1> DEFINE Moved(q, pc) ==
              /\ q = [sync[s] EXCEPT !.pc = pc] /\ q.pc = pc /\ q.row = i
              /\ q.next = sync[s].next /\ q.todo = sync[s].todo /\ q.kind = sync[s].kind
              /\ q.date = sync[s].date
<1>5. ASSUME NEW pc \in {"mark", "page", "todo"} PROVE \E q \in Busy : Moved(q, pc)
  <2>1. PICK q : q = [sync[s] EXCEPT !.pc = pc]
    OBVIOUS
  <2>2. q \in Busy /\ Moved(q, pc)
    BY <1>1, <1>2, <2>1 DEF Busy
  <2> QED
    BY <2>2
<1>6. sync[s].loop \in {"page", "todo"}
  BY <1>1 DEF Busy
<1>7. ASSUME NEW q \in Busy, NEW pc \in {"mark", "page", "todo"}, Moved(q, pc),
             UNCHANGED inbox, DOMAIN rows' = DOMAIN rows, pc = "mark" => FileThere(i)'
      PROVE  ShapeOK(q)'
  BY <1>1, <1>3, <1>7 DEF ShapeOK
<1>8. CASE Store(s)
  <2>1. PICK files : files = IF rows[i].mail \in Refused THEN rows[i].files ELSE rows[i].files + 1
    OBVIOUS
  <2>2. files \in Nat /\ rows[i].files <= files /\ (rows[i].mail \notin Refused => files > 0)
    BY <1>4, <2>1
  <2>3. CASE /\ rows' = [rows EXCEPT ![i] = [@ EXCEPT !.files = files]]
             /\ To(s, [sync[s] EXCEPT !.pc = "mark"]) /\ UNCHANGED faults
    <3>0. PICK q \in Busy : Moved(q, "mark")
      BY <1>5
    <3>1. PICK w : w = [rows[i] EXCEPT !.files = files]
      OBVIOUS
    <3>2. w \in Row /\ w.mail = rows[i].mail /\ w.files = files /\ w.done = rows[i].done
      BY <1>3, <2>2, <3>1 DEF Row
    <3>3. rows' = [rows EXCEPT ![i] = w]
      BY <2>3, <3>1
    <3>4. DOMAIN rows' = DOMAIN rows /\ rows'[i] = w
      BY <1>3, <3>3
    <3>5. FileThere(i)'
      BY <2>2, <3>2, <3>4 DEF FileThere
    <3>6. ShapeOK(q)' /\ To(s, q)
      BY <1>7, <2>3, <3>0, <3>4, <3>5 DEF To
    <3>7. UNCHANGED blocked
      BY <1>8 DEF Store
    <3> QED
      BY <1>3, <2>2, <2>3, <3>2, <3>3, <3>6, <3>7, ShapeOfRow
  <2>4. CASE /\ Fault /\ rows' = [rows EXCEPT ![i] = [@ EXCEPT !.flagged = TRUE]]
             /\ To(s, [sync[s] EXCEPT !.pc = sync[s].loop])
    <3>0. PICK q \in Busy : Moved(q, sync[s].loop)
      BY <1>5, <1>6
    <3>1. PICK w : w = [rows[i] EXCEPT !.flagged = TRUE]
      OBVIOUS
    <3>2. w \in Row /\ w.mail = rows[i].mail /\ w.files = rows[i].files /\ w.done = rows[i].done
      BY <1>3, <3>1 DEF Row
    <3>3. rows' = [rows EXCEPT ![i] = w]
      BY <2>4, <3>1
    <3>4. DOMAIN rows' = DOMAIN rows
      BY <1>3, <3>3
    <3>5. ShapeOK(q)' /\ To(s, q)
      <4>1. PICK pc : pc = sync[s].loop
        OBVIOUS
      <4> QED
        BY <1>6, <1>7, <2>4, <3>0, <3>4, <4>1 DEF To
    <3>6. UNCHANGED blocked /\ rows[i].files <= w.files
      BY <1>4, <1>8, <3>2 DEF Store
    <3> QED
      BY <1>3, <2>4, <3>2, <3>3, <3>5, <3>6, ShapeOfRow
  <2> QED
    BY <1>2, <1>8, <2>1, <2>3, <2>4 DEF Store
<1>9. CASE Mark(s)
  <2>1. PICK flagged \in BOOLEAN :
           rows' = [rows EXCEPT ![i] = [@ EXCEPT !.done = TRUE, !.flagged = flagged]]
    <3>1. PICK flagged : flagged = (rows[i].flagged \/ rows[i].mail \in Attached)
      OBVIOUS
    <3>2. flagged \in BOOLEAN
      BY <3>1
    <3> QED
      BY <1>2, <1>9, <3>1, <3>2 DEF Mark
  <2>2. PICK w : w = [rows[i] EXCEPT !.done = TRUE, !.flagged = flagged]
    OBVIOUS
  <2>3. w \in Row /\ w.mail = rows[i].mail /\ w.files = rows[i].files
    BY <1>3, <2>1, <2>2 DEF Row
  <2>4. rows' = [rows EXCEPT ![i] = w]
    BY <2>1, <2>2
  <2>5. DOMAIN rows' = DOMAIN rows
    BY <1>3, <2>4
  <2>6. FileThere(i)
    BY <1>1, <1>2, <1>9 DEF ShapeOK, Mark, At
  <2>7. PICK q \in Busy : Moved(q, sync[s].loop)
    BY <1>5, <1>6
  <2>8. To(s, q) /\ UNCHANGED <<blocked, faults>>
    BY <1>9, <2>7 DEF Mark
  <2>9. ShapeOK(q)'
    <3>1. PICK pc : pc = sync[s].loop
      OBVIOUS
    <3> QED
      BY <1>6, <1>7, <2>5, <2>7, <2>8, <3>1 DEF To
  <2>10. rows[i].files <= w.files
    BY <1>4, <2>3
  <2> QED
    BY <1>3, <2>3, <2>4, <2>6, <2>8, <2>9, <2>10, ShapeOfRow
<1> QED
  BY <1>8, <1>9

\* A sync starts with nothing to do and at a position of its own.
LEMMA ShapeStarts ==
  ASSUME Shape, NEW s \in Slot,
         \/ AutoScan(s) \/ AutoStart(s) \/ ManualStart(s)
         \/ \E date \in 1 .. Len(inbox) : BackfillStart(s, date)
  PROVE  Shape'
<1>1. TypesRest /\ UNCHANGED <<inbox, rows>>
  BY DEF TypesRest, AutoScan, AutoStart, ManualStart, BackfillStart, mailbox, timer, Shape, TypeOK
<1>2. PICK first : first = IF cursor = NoCursor THEN from ELSE cursor + 1
  OBVIOUS
<1>3. PICK plan : plan = IF enabled THEN "later" ELSE nextAuto
  OBVIOUS
<1>4. first \in Nat \ {0} /\ plan \in {"due", "later", "opening"} /\ Len(inbox) \in Nat
  BY <1>2, <1>3 DEF Shape, TypeOK
<1>5. ASSUME NEW pc \in {"scanned", "fetch"}, NEW kind \in {"auto", "manual", "backfill"},
             NEW at \in Nat \ {0}, NEW date \in Nat, kind = "backfill" => date > 0,
             NEW q, q = [pc |-> pc, kind |-> kind, at |-> at, next |-> 0, row |-> 0,
                         loop |-> "page", todo |-> {}, date |-> date, plan |-> plan]
      PROVE  q \in Busy /\ ShapeOK(q)
  BY <1>4, <1>5 DEF Busy, ShapeOK
<1>6. \A pc, kind : Snapshot(pc, kind) = [pc |-> pc, kind |-> kind, at |-> first, next |-> 0, row |-> 0,
                                          loop |-> "page", todo |-> {}, date |-> 0, plan |-> plan]
  BY <1>2, <1>3 DEF Snapshot
<1>7. CASE AutoScan(s) \/ ManualStart(s)
  <2>1. PICK pc \in {"scanned", "fetch"}, kind \in {"auto", "manual"} :
           sync' = [sync EXCEPT ![s] = Snapshot(pc, kind)]
    BY <1>7 DEF AutoScan, ManualStart
  <2>2. PICK q : q = [pc |-> pc, kind |-> kind, at |-> first, next |-> 0, row |-> 0,
                      loop |-> "page", todo |-> {}, date |-> 0, plan |-> plan]
    OBVIOUS
  <2>3. q \in Busy /\ ShapeOK(q)
    BY <1>4, <1>5, <2>2
  <2>4. sync' = [sync EXCEPT ![s] = q]
    BY <1>6, <2>1, <2>2
  <2> QED
    BY <1>1, <2>3, <2>4, ShapeMoves
<1>8. ASSUME NEW day \in 1 .. Len(inbox), BackfillStart(s, day) PROVE Shape'
  <2>1. PICK k : k = Snapshot("fetch", "backfill")
    OBVIOUS
  <2>2. PICK q : q = [k EXCEPT !.at = day, !.date = day]
    OBVIOUS
  <2>3. k = [pc |-> "fetch", kind |-> "backfill", at |-> first, next |-> 0, row |-> 0,
             loop |-> "page", todo |-> {}, date |-> 0, plan |-> plan]
    BY <1>6, <2>1
  <2>4. q = [pc |-> "fetch", kind |-> "backfill", at |-> day, next |-> 0, row |-> 0,
             loop |-> "page", todo |-> {}, date |-> day, plan |-> plan]
    BY <2>2, <2>3
  <2>5. day \in Nat \ {0} /\ day > 0
    BY <1>4
  <2>6. q \in Busy /\ ShapeOK(q)
    BY <1>5, <2>4, <2>5
  <2>7. sync' = [sync EXCEPT ![s] = q]
    BY <1>8, <2>1, <2>2 DEF BackfillStart
  <2> QED
    BY <1>1, <2>6, <2>7, ShapeMoves
<1>9. CASE AutoStart(s)
  <2>1. sync[s] \in Busy /\ ShapeOK(sync[s]) /\ sync[s].pc = "scanned"
    BY <1>9, ShapeBusy DEF AutoStart
  <2>2. PICK q : q = [sync[s] EXCEPT !.pc = "fetch"]
    OBVIOUS
  <2>3. q \in Busy /\ ShapeOK(q)
    BY <2>1, <2>2 DEF Busy, ShapeOK
  <2>4. sync' = [sync EXCEPT ![s] = Idle] \/ sync' = [sync EXCEPT ![s] = q]
    BY <1>9, <2>2 DEF AutoStart
  <2>5. Idle \notin Busy
    BY DEF Idle, Busy
  <2> QED
    BY <1>1, <2>3, <2>4, <2>5, ShapeMoves
<1> QED
  BY <1>7, <1>8, <1>9

\* A sync that ends saves its position, and a backfill its date.
LEMMA ShapeEnds ==
  ASSUME Shape, NEW s \in Slot, Finish(s) \/ Fail(s) \/ ImportStuck(s)
  PROVE  Shape'
<1>1. Idle \notin Busy
  BY DEF Idle, Busy
<1>2. CASE Finish(s)
  <2>1. sync[s] \in Busy /\ ShapeOK(sync[s]) /\ sync[s].pc = "todo"
    BY <1>2, ShapeBusy DEF Finish, At
  <2>2. sync[s].next \in Nat /\ sync[s].plan \in {"due", "later", "opening"}
        /\ sync[s].date \in Nat
    BY <2>1 DEF Busy
  <2>3. from' \in Nat \ {0}
    BY <1>2, <2>1, <2>2 DEF Finish, ShapeOK, Shape, TypeOK
  <2>4. (running /\ sync[s].kind # "auto") \in BOOLEAN
    OBVIOUS
  <2>5. TypesRest /\ UNCHANGED <<inbox, rows>>
    BY <1>2, <2>2, <2>3, <2>4 DEF Finish, TypesRest, Shape, TypeOK
  <2>6. PICK b : b = [sync[s] EXCEPT !.kind = "broad", !.pc = "page", !.loop = "page"]
    OBVIOUS
  <2>7. b \in Busy /\ ShapeOK(b)
    BY <2>1, <2>6 DEF Busy, ShapeOK
  <2>8. sync' = [sync EXCEPT ![s] = Idle] \/ sync' = [sync EXCEPT ![s] = b]
    BY <1>2, <2>6 DEF Finish, Broad
  <2> QED
    BY <1>1, <2>5, <2>7, <2>8, ShapeMoves
<1>3. CASE Fail(s) \/ ImportStuck(s)
  <2>1. Failed(s) /\ (faults' = faults \/ Fault)
    BY <1>3 DEF Fail, ImportStuck
  <2>2. (running /\ sync[s].kind # "auto") \in BOOLEAN /\ faults' \in Nat
    BY <2>1 DEF Fault, Shape, TypeOK
  <2>3. TypesRest /\ UNCHANGED <<inbox, rows>>
    BY <2>1, <2>2 DEF Failed, TypesRest, mailbox, Shape, TypeOK
  <2> QED
    BY <1>1, <2>1, <2>3, ShapeMoves DEF Failed
<1> QED
  BY <1>2, <1>3

\* The provider, the clock, the settings and a restart store no message.
LEMMA ShapeOuter ==
  ASSUME Shape, (\E m \in Mail : Deliver(m) \/ Redeliver(m)) \/ Elapse \/ Hours \/ Crash
                \/ \E on \in BOOLEAN : SetAuto(on)
  PROVE  Shape'
<1>1. UNCHANGED <<from, cursor, rows, blocked>>
  BY DEF Deliver, Redeliver, Elapse, Hours, Crash, SetAuto, mailbox
<1>2. inbox' \in Seq(Mail) /\ Len(inbox) <= Len(inbox')
  <2>1. inbox \in Seq(Mail) /\ Len(inbox) \in Nat
    BY DEF Shape, TypeOK
  <2>2. inbox' = inbox \/ \E m \in Mail : inbox' = Append(inbox, m)
    BY DEF Deliver, Redeliver, Elapse, Hours, Crash, SetAuto
  <2> QED
    BY <2>1, <2>2
<1>3. Adds
  <2>1. ASSUME NEW i \in DOMAIN rows PROVE rows[i].files <= rows[i].files
    <3>1. rows[i] \in Row
      BY DEF Shape, TypeOK
    <3> QED
      BY <3>1 DEF Row
  <2> QED
    BY <1>1, <1>2, <2>1 DEF Adds, Shape, TypeOK
<1>4. DoneMeansStored'
  BY <1>1 DEF Shape, DoneMeansStored
<1>5. sync' = sync \/ sync' = [s \in Slot |-> Idle]
  BY DEF Deliver, Redeliver, Elapse, Hours, Crash, SetAuto
<1>6. enabled' \in BOOLEAN /\ open' \in BOOLEAN /\ running' \in BOOLEAN
  <2>1. enabled \in BOOLEAN /\ open \in BOOLEAN /\ running \in BOOLEAN /\ (~open) \in BOOLEAN
    BY DEF Shape, TypeOK
  <2> QED
    BY <2>1, Zenon DEF Deliver, Redeliver, Elapse, Hours, Crash, SetAuto, timer
<1>7. nextAuto' \in {"due", "later", "opening"}
  BY DEF Deliver, Redeliver, Elapse, Hours, Crash, SetAuto, timer, Shape, TypeOK
<1>8. faults' \in Nat
  BY DEF Deliver, Redeliver, Elapse, Hours, Crash, Fault, SetAuto, Shape, TypeOK
<1>9. TypeOK'
  <2>1. sync' \in [Slot -> Busy \cup {Idle}]
    BY <1>5 DEF Shape, TypeOK
  <2>2. {enabled', open', running'} \subseteq BOOLEAN
    BY <1>6, Zenon
  <2> QED
    BY <1>1, <1>2, <1>7, <1>8, <2>1, <2>2 DEF Shape, TypeOK
<1>10. ASSUME NEW s \in Slot, NEW q \in Busy, sync'[s] = q PROVE sync[s] = q
  BY <1>5, <1>10 DEF Idle, Busy
<1> QED
  BY <1>3, <1>4, <1>9, <1>10, ShapeKept

(***************************************************************************)
(* Both invariants hold at first, and every step keeps them.               *)
(***************************************************************************)

LEMMA InvInit == ASSUME Init PROVE Inv
<1>1. inbox \in Seq(Mail) /\ from \in Nat \ {0} /\ from <= Len(inbox) + 1
  <2>1. PICK n \in 0 .. History : inbox \in [1 .. n -> Mail]
    BY DEF Init
  <2>2. n \in Nat
    BY <2>1, MailAssumption
  <2>3. inbox \in Seq(Mail)
    BY <2>1, <2>2
  <2>4. Len(inbox) \in Nat
    BY <2>3
  <2>5. from \in 1 .. Len(inbox) + 1
    BY DEF Init
  <2> QED
    BY <2>3, <2>4, <2>5
<1>2. TypeOK
  <2>1. sync \in [Slot -> Busy \cup {Idle}]
    BY DEF Init
  <2>2. rows \in Seq(Row) /\ blocked \subseteq Mail /\ faults \in Nat /\ cursor = NoCursor
    BY DEF Init
  <2>3. {enabled, open, running} \subseteq BOOLEAN /\ nextAuto \in {"due", "later", "opening"}
    BY DEF Init
  <2> QED
    BY <1>1, <2>1, <2>2, <2>3 DEF TypeOK
<1>3. CursorOK
  BY MailAssumption DEF Init, CursorOK
<1>4. SlotsOK
  BY DEF Init, SlotsOK, Idle, Busy
<1> QED
  BY <1>1, <1>2, <1>3, <1>4 DEF Inv

LEMMA InvStep ==
  ASSUME "backfill" \notin Kinds, Inv, [Next]_vars
  PROVE  Inv'
<1>1. ASSUME NEW m \in Mail, Deliver(m) \/ Redeliver(m) PROVE Inv'
  BY <1>1, InvMail
<1>2. CASE Elapse \/ Hours \/ Crash \/ \E on \in BOOLEAN : SetAuto(on)
  BY <1>2, InvOuter
<1>3. ASSUME NEW s \in Slot, AutoScan(s) \/ AutoStart(s) \/ ManualStart(s) PROVE Inv'
  BY <1>3, InvStart
<1>4. ASSUME NEW s \in Slot, Advance(s) PROVE Inv'
  BY <1>4, InvMoves, InvCheck, InvStores, InvFiles, InvFinish, InvFailed DEF Advance
<1>5. ASSUME NEW s \in Slot, Fail(s) PROVE Inv'
  BY <1>5, InvFailed
<1>6. ASSUME NEW s \in Slot, NEW date \in 1 .. Len(inbox), BackfillStart(s, date) PROVE FALSE
  BY <1>6 DEF BackfillStart
<1>7. CASE UNCHANGED vars
  <2>1. Grows
    BY <1>7 DEF vars, mailbox, timer, Grows, Inv, TypeOK
  <2>2. TypeOK'
    BY <1>7 DEF vars, mailbox, timer, Inv, TypeOK
  <2> QED
    BY <1>7, <2>1, <2>2, Kept DEF vars, mailbox
<1> QED
  BY <1>1, <1>2, <1>3, <1>4, <1>5, <1>6, <1>7 DEF Next

LEMMA InvAlways == ASSUME "backfill" \notin Kinds PROVE Spec => []Inv
<1>1. Init => Inv
  BY InvInit
<1>2. Inv /\ [Next]_vars => Inv'
  BY InvStep
<1> QED
  BY <1>1, <1>2, PTL DEF Spec

LEMMA InvSkips == ASSUME Inv PROVE NothingSkipped
<1> SUFFICES ASSUME cursor # NoCursor, NEW i \in from .. Len(inbox), i <= cursor
             PROVE  Handled(inbox[i])
  BY DEF NothingSkipped
<1>1. cursor \in Nat /\ Past(cursor)
  BY DEF Inv, TypeOK, CursorOK
<1> QED
  BY <1>1 DEF Past, Inv, TypeOK

LEMMA ShapeInit == ASSUME Init PROVE Shape
<1>1. TypeOK
  BY InvInit DEF Inv
<1> QED
  BY <1>1 DEF Init, Shape, DoneMeansStored, Idle, Busy

LEMMA ShapeStep ==
  ASSUME Shape, [Next]_vars
  PROVE  Shape'
<1>1. CASE (\E m \in Mail : Deliver(m) \/ Redeliver(m)) \/ Elapse \/ Hours \/ Crash
           \/ \E on \in BOOLEAN : SetAuto(on)
  BY <1>1, ShapeOuter
<1>2. ASSUME NEW s \in Slot,
             \/ AutoScan(s) \/ AutoStart(s) \/ ManualStart(s)
             \/ \E date \in 1 .. Len(inbox) : BackfillStart(s, date)
      PROVE  Shape'
  BY <1>2, ShapeStarts
<1>3. ASSUME NEW s \in Slot, Advance(s) \/ Fail(s) PROVE Shape'
  BY <1>3, ShapeMoving, ShapeCheck, ShapeStores, ShapeFiles, ShapeEnds DEF Advance
<1>4. CASE UNCHANGED vars
  BY <1>4 DEF vars, mailbox, timer, Shape, TypeOK, DoneMeansStored, ShapeOK, FileThere
<1> QED
  BY <1>1, <1>2, <1>3, <1>4 DEF Next

LEMMA ShapeAlways == Spec => []Shape
<1>1. Init => Shape
  BY ShapeInit
<1>2. Shape /\ [Next]_vars => Shape'
  BY ShapeStep
<1> QED
  BY <1>1, <1>2, PTL DEF Spec

(***************************************************************************)
(* The timer never syncs a mailbox twice at a time: running is set exactly *)
(* while a sync of its own is past its start, and bars the next one.       *)
(***************************************************************************)

IsAuto(q) == q.pc \notin {"idle", "scanned"} /\ q.kind = "auto"
Autos == {s \in Slot : IsAuto(sync[s])}

\* One sync goes on as it was, is no longer the timer's, or becomes it.
LEMMA AloneSame ==
  ASSUME Shape, AutoSyncAlone, running' = running, NEW s \in Slot, NEW q,
         sync' = [sync EXCEPT ![s] = q], IsAuto(q) <=> IsAuto(sync[s])
  PROVE  AutoSyncAlone'
<1>1. Autos' = Autos
  BY DEF Autos, Shape, TypeOK
<1> QED
  BY <1>1 DEF AutoSyncAlone, Autos, IsAuto

LEMMA AloneEnds ==
  ASSUME Shape, AutoSyncAlone, NEW s \in Slot, NEW q, sync' = [sync EXCEPT ![s] = q],
         ~IsAuto(q), sync[s].pc \notin {"idle", "scanned"},
         running' = (running /\ sync[s].kind # "auto")
  PROVE  AutoSyncAlone'
<1>1. Autos' = Autos \ {s}
  BY DEF Autos, Shape, TypeOK
<1>2. CASE sync[s].kind = "auto"
  <2>1. s \in Autos
    BY <1>2 DEF Autos, IsAuto
  <2>2. Autos' = {}
    BY <1>1, <2>1 DEF AutoSyncAlone, Autos, IsAuto
  <2>3. running' = FALSE
    BY <1>2
  <2> QED
    BY <2>2, <2>3 DEF AutoSyncAlone, Autos, IsAuto
<1>3. CASE sync[s].kind # "auto"
  <2>1. s \notin Autos
    BY <1>3 DEF Autos, IsAuto
  <2>2. running \in BOOLEAN
    BY DEF Shape, TypeOK
  <2>3. Autos' = Autos /\ running' = running
    BY <1>1, <1>3, <2>1, <2>2, Zenon
  <2> QED
    BY <2>3 DEF AutoSyncAlone, Autos, IsAuto
<1> QED
  BY <1>2, <1>3

LEMMA AloneStarts ==
  ASSUME Shape, AutoSyncAlone, ~running, running' = TRUE,
         NEW s \in Slot, NEW q, sync' = [sync EXCEPT ![s] = q], IsAuto(q)
  PROVE  AutoSyncAlone'
<1>1. Autos = {}
  BY DEF AutoSyncAlone, Autos, IsAuto
<1>2. Autos' = {s}
  BY <1>1 DEF Autos, Shape, TypeOK
<1> QED
  BY <1>2 DEF AutoSyncAlone, Autos, IsAuto

\* Which of the three a mail that is not stored yet goes to.
Sort(m) == IF m \in EventMail THEN "event" ELSE IF m \in SpamMail THEN "spam" ELSE "import"

Unstored(m) == \A i \in DOMAIN rows : rows[i].mail # m

\* What every step of a sync in progress does to it: who started it stays, its position
\* never goes back, and what it has looked up is so.
Onwards(s, q) ==
    /\ q.kind = sync[s].kind /\ q.pc \notin {"idle", "scanned", "fetch"} /\ sync[s].at <= q.at
    /\ q.next = sync[s].next \/ sync[s].at - 1 <= q.next
    /\ sync[s].pc = "fetch" => sync[s].at - 1 <= q.next
    /\ q.pc = "store" => rows' = rows /\ rows[q.row].files = 0
    /\ q.pc \in {"event", "spam", "import"} =>
          rows' = rows /\ Unstored(inbox[q.at]) /\ q.pc = Sort(inbox[q.at])

InProgress(s) ==
    \/ Fetch(s) \/ Check(s) \/ StoreEvent(s) \/ LogSpam(s) \/ Import(s) \/ Settle(s)
    \/ Retrieve(s) \/ Store(s) \/ Mark(s) \/ List(s) \/ NextCandidate(s)

LEMMA Onward ==
  ASSUME Shape, NEW s \in Slot, InProgress(s)
  PROVE  /\ sync[s] \in Busy /\ ShapeOK(sync[s]) /\ sync[s].pc # "scanned"
         /\ \E q : To(s, q) /\ Onwards(s, q)
<1> USE DEF InProgress
<1>1. sync[s].pc \notin {"idle", "scanned"}
  BY DEF Fetch, Check, StoreEvent, LogSpam, Import, Settle, Retrieve, Store, Mark, List,
         NextCandidate, At
<1>2. sync[s] \in Busy /\ ShapeOK(sync[s])
  BY <1>1, ShapeBusy
<1>3. PICK k : k = sync[s]
  OBVIOUS
<1>4. k \in Busy /\ k.loop \in {"page", "todo"} /\ k.at \in Nat /\ k.at + 1 \in Nat \ {0}
      /\ k.next \in Nat /\ k.row \in Nat
  BY <1>2, <1>3 DEF Busy
<1>5. \A pc \in {"page", "todo", "settle", "files", "mark"} :
         LET q == [k EXCEPT !.pc = pc] IN k.pc # "fetch" => Onwards(s, q)
  BY <1>3, <1>4 DEF Busy, Onwards
<1>6. CASE Fetch(s)
  <2>1. PICK next \in (k.at - 1) .. Len(inbox) : To(s, [k EXCEPT !.pc = "page", !.next = next])
    BY <1>3, <1>6 DEF Fetch
  <2>2. PICK q : q = [k EXCEPT !.pc = "page", !.next = next]
    OBVIOUS
  <2>3. q.kind = k.kind /\ q.pc = "page" /\ q.at = k.at /\ q.next = next
    BY <1>4, <2>2 DEF Busy
  <2>4. Onwards(s, q)
    BY <1>3, <1>4, <2>1, <2>3 DEF Onwards
  <2> QED
    BY <1>1, <1>2, <2>1, <2>2, <2>4
<1>7. CASE StoreEvent(s) \/ LogSpam(s) \/ Import(s)
  <2>1. PICK pc \in {"page", "settle"}, row \in {k.row, Len(rows) + 1} :
           To(s, [k EXCEPT !.pc = pc, !.at = k.at + 1, !.row = row])
    <3>1. [k EXCEPT !.pc = "page", !.at = k.at + 1]
            = [k EXCEPT !.pc = "page", !.at = k.at + 1, !.row = k.row]
      BY <1>4 DEF Busy
    <3> QED
      BY <1>3, <1>7, <3>1 DEF StoreEvent, LogSpam, Import
  <2>2. PICK q : q = [k EXCEPT !.pc = pc, !.at = k.at + 1, !.row = row]
    OBVIOUS
  <2>3. q.kind = k.kind /\ q.pc = pc /\ q.at = k.at + 1 /\ q.next = k.next /\ k.pc # "fetch"
    BY <1>3, <1>4, <1>7, <2>2 DEF Busy, StoreEvent, LogSpam, Import, At
  <2>4. Onwards(s, q)
    BY <1>3, <1>4, <2>3 DEF Onwards
  <2> QED
    BY <1>1, <1>2, <2>1, <2>2, <2>4
<1>8. CASE Check(s)
  <2> DEFINE m == inbox[k.at]
             skip == [k EXCEPT !.at = k.at + 1]
  <2>1. k.pc = "page" /\ rows' = rows
    BY <1>3, <1>8 DEF Check, At
  <2>2. CASE To(s, skip)
    <3>1. skip.kind = k.kind /\ skip.pc = "page" /\ skip.at = k.at + 1 /\ skip.next = k.next
      BY <1>4, <2>1 DEF Busy
    <3>2. Onwards(s, skip)
      BY <1>3, <1>4, <2>1, <3>1 DEF Onwards
    <3> QED
      BY <1>1, <1>2, <2>2, <3>2
  <2>3. ASSUME NEW i, To(s, [skip EXCEPT !.pc = "files", !.row = i])
        PROVE  \E q : To(s, q) /\ Onwards(s, q)
    <3>1. PICK q : q = [skip EXCEPT !.pc = "files", !.row = i]
      OBVIOUS
    <3>2. q.kind = k.kind /\ q.pc = "files" /\ q.at = k.at + 1 /\ q.next = k.next
      BY <1>4, <3>1 DEF Busy
    <3>3. Onwards(s, q)
      BY <1>3, <1>4, <2>1, <3>2 DEF Onwards
    <3> QED
      BY <2>3, <3>1, <3>3
  <2>4. CASE RowsOf(m, TRUE) = {} /\ RowsOf(m, FALSE) = {} /\ To(s, [k EXCEPT !.pc = Sort(m)])
    <3>1. ASSUME NEW i \in DOMAIN rows PROVE rows[i].mail # m
      <4>1. rows[i] \in Row
        BY DEF Shape, TypeOK
      <4>2. rows[i].event \in BOOLEAN
        BY <4>1 DEF Row
      <4> QED
        BY <2>4, <4>2 DEF RowsOf
    <3>2. PICK q : q = [k EXCEPT !.pc = Sort(m)]
      OBVIOUS
    <3>3. q.kind = k.kind /\ q.pc = Sort(m) /\ q.at = k.at /\ q.next = k.next
      BY <1>4, <3>2 DEF Busy
    <3>4. Sort(m) \in {"event", "spam", "import"}
      BY DEF Sort
    <3>5. Onwards(s, q)
      BY <1>3, <1>4, <2>1, <3>1, <3>3, <3>4 DEF Onwards, Unstored
    <3> QED
      BY <1>1, <1>2, <2>4, <3>2, <3>5
  <2> QED
    BY <1>1, <1>2, <1>3, <1>8, <2>2, <2>3, <2>4 DEF Check, Sort
<1>9. CASE Settle(s) \/ Store(s) \/ Mark(s)
  <2>1. PICK pc \in {"page", "todo", "files", "mark"} : To(s, [k EXCEPT !.pc = pc])
    BY <1>3, <1>4, <1>9 DEF Settle, Store, Mark
  <2>2. k.pc # "fetch"
    BY <1>3, <1>9 DEF Settle, Store, Mark, At
  <2> QED
    BY <1>1, <1>2, <1>5, <2>1, <2>2
<1>10. CASE Retrieve(s)
  <2>1. k.pc = "files" /\ rows' = rows
    BY <1>3, <1>10 DEF Retrieve, At
  <2>2. \/ \E pc \in {"page", "todo", "mark"} : To(s, [k EXCEPT !.pc = pc])
        \/ To(s, [k EXCEPT !.pc = "store"]) /\ rows[k.row].files = 0
    BY <1>3, <1>4, <1>10 DEF Retrieve
  <2>3. rows[k.row].files = 0 => Onwards(s, [k EXCEPT !.pc = "store"])
    BY <1>3, <1>4, <2>1 DEF Busy, Onwards
  <2> QED
    BY <1>1, <1>2, <1>5, <2>1, <2>2, <2>3
<1>11. CASE List(s)
  <2>1. PICK todo : To(s, [k EXCEPT !.pc = "todo", !.loop = "todo", !.todo = todo])
    BY <1>3, <1>11 DEF List
  <2>2. PICK q : q = [k EXCEPT !.pc = "todo", !.loop = "todo", !.todo = todo]
    OBVIOUS
  <2>3. q.kind = k.kind /\ q.pc = "todo" /\ q.at = k.at /\ q.next = k.next /\ k.pc = "page"
    BY <1>3, <1>4, <1>11, <2>2 DEF Busy, List, At
  <2>4. Onwards(s, q)
    BY <1>3, <1>4, <2>3 DEF Onwards
  <2> QED
    BY <1>1, <1>2, <2>1, <2>2, <2>4
<1>12. CASE NextCandidate(s)
  <2>1. PICK row, todo : To(s, [k EXCEPT !.pc = "files", !.row = row, !.todo = todo])
    BY <1>3, <1>12 DEF NextCandidate
  <2>2. PICK q : q = [k EXCEPT !.pc = "files", !.row = row, !.todo = todo]
    OBVIOUS
  <2>3. q.kind = k.kind /\ q.pc = "files" /\ q.at = k.at /\ q.next = k.next /\ k.pc = "todo"
    BY <1>3, <1>4, <1>12, <2>2 DEF Busy, NextCandidate, At
  <2>4. Onwards(s, q)
    BY <1>3, <1>4, <2>3 DEF Onwards
  <2> QED
    BY <1>1, <1>2, <2>1, <2>2, <2>4
<1> QED
  BY <1>6, <1>7, <1>8, <1>9, <1>10, <1>11, <1>12

\* Only the timer looks at the schedule before it starts.
ScansAuto == \A s \in Slot : sync[s].pc = "scanned" => sync[s].kind = "auto"

LEMMA ScansStep ==
  ASSUME Shape, ScansAuto, [Next]_vars
  PROVE  ScansAuto'
<1>1. sync \in [Slot -> Busy \cup {Idle}] /\ Idle.pc = "idle"
  BY DEF Shape, TypeOK, Idle
<1>2. ASSUME NEW s \in Slot, NEW q, sync' = [sync EXCEPT ![s] = q],
             q.pc = "scanned" => q.kind = "auto"
      PROVE  ScansAuto'
  BY <1>1, <1>2 DEF ScansAuto
<1>3. CASE \/ \E m \in Mail : Deliver(m) \/ Redeliver(m)
           \/ Elapse \/ Hours \/ (\E on \in BOOLEAN : SetAuto(on)) \/ UNCHANGED vars
  <2>1. UNCHANGED sync
    BY <1>3 DEF Deliver, Redeliver, Elapse, Hours, SetAuto, vars
  <2> QED
    BY <2>1 DEF ScansAuto
<1>4. CASE Crash
  BY <1>4 DEF Crash, ScansAuto, Idle
<1>5. ASSUME NEW s \in Slot, InProgress(s) PROVE ScansAuto'
  BY <1>2, <1>5, Onward DEF To, Onwards
<1>6. ASSUME NEW s \in Slot, AutoScan(s) \/ ManualStart(s) PROVE ScansAuto'
  BY <1>2, <1>6 DEF AutoScan, ManualStart, Snapshot
<1>7. ASSUME NEW s \in Slot, NEW date, BackfillStart(s, date) PROVE ScansAuto'
  <2>1. PICK q : q = [Snapshot("fetch", "backfill") EXCEPT !.at = date, !.date = date]
    OBVIOUS
  <2>2. q.pc = "fetch"
    BY <2>1 DEF Snapshot
  <2> QED
    BY <1>2, <1>7, <2>1, <2>2 DEF BackfillStart
<1>8. ASSUME NEW s \in Slot, AutoStart(s) PROVE ScansAuto'
  <2>1. sync[s] \in Busy
    BY <1>8, ShapeBusy DEF AutoStart
  <2> QED
    BY <1>1, <1>2, <1>8, <2>1 DEF AutoStart, Busy
<1>9. ASSUME NEW s \in Slot, Finish(s) PROVE ScansAuto'
  <2>1. sync[s] \in Busy
    BY <1>9, ShapeBusy DEF Finish, At
  <2> QED
    BY <1>1, <1>2, <1>9, <2>1 DEF Finish, Broad, Busy
<1>10. ASSUME NEW s \in Slot, Fail(s) \/ ImportStuck(s) PROVE ScansAuto'
  BY <1>1, <1>2, <1>10 DEF Fail, ImportStuck, Failed
<1> QED
  BY <1>3, <1>4, <1>5, <1>6, <1>7, <1>8, <1>9, <1>10 DEF Next, Advance, InProgress

LEMMA AloneStep ==
  ASSUME Shape, ScansAuto, AutoSyncAlone, [Next]_vars
  PROVE  AutoSyncAlone'
<1>1. running \in BOOLEAN /\ ~IsAuto(Idle)
  BY DEF Shape, TypeOK, IsAuto, Idle
<1>2. CASE \/ \E m \in Mail : Deliver(m) \/ Redeliver(m)
           \/ Elapse \/ Hours \/ (\E on \in BOOLEAN : SetAuto(on)) \/ UNCHANGED vars
  <2>1. UNCHANGED <<running, sync>>
    BY <1>2 DEF Deliver, Redeliver, Elapse, Hours, SetAuto, vars
  <2> QED
    BY <2>1 DEF AutoSyncAlone
<1>3. CASE Crash
  BY <1>3 DEF Crash, AutoSyncAlone, Idle
<1>4. ASSUME NEW s \in Slot, InProgress(s) PROVE AutoSyncAlone'
  <2>1. PICK q : To(s, q) /\ Onwards(s, q)
    BY <1>4, Onward
  <2>2. sync[s] \in Busy /\ sync[s].pc # "scanned"
    BY <1>4, Onward
  <2>3. IsAuto(q) <=> IsAuto(sync[s])
    BY <2>1, <2>2 DEF IsAuto, Onwards, Busy
  <2> QED
    BY <2>1, <2>3, AloneSame DEF To
<1>5. ASSUME NEW s \in Slot, AutoScan(s) \/ ManualStart(s) PROVE AutoSyncAlone'
  <2>1. PICK pc, kind : /\ sync' = [sync EXCEPT ![s] = Snapshot(pc, kind)]
                        /\ pc = "scanned" \/ kind = "manual"
    BY <1>5 DEF AutoScan, ManualStart
  <2>2. ~IsAuto(Snapshot(pc, kind))
    BY <2>1 DEF IsAuto, Snapshot
  <2>3. sync[s] = Idle /\ running' = running
    BY <1>5 DEF AutoScan, ManualStart
  <2> QED
    BY <1>1, <2>1, <2>2, <2>3, AloneSame
<1>6. ASSUME NEW s \in Slot, NEW date, BackfillStart(s, date) PROVE AutoSyncAlone'
  <2>1. PICK q : q = [Snapshot("fetch", "backfill") EXCEPT !.at = date, !.date = date]
    OBVIOUS
  <2>2. ~IsAuto(q)
    BY <2>1 DEF IsAuto, Snapshot
  <2> QED
    BY <1>1, <1>6, <2>1, <2>2, AloneSame DEF BackfillStart
<1>7. ASSUME NEW s \in Slot, AutoStart(s) PROVE AutoSyncAlone'
  <2>1. sync[s].pc = "scanned" /\ sync[s] \in Busy
    BY <1>7, ShapeBusy DEF AutoStart
  <2>2. CASE running \/ ~open
    BY <1>1, <1>7, <2>1, <2>2, AloneSame DEF AutoStart, IsAuto
  <2>3. CASE ~running /\ open
    <3>1. PICK q : q = [sync[s] EXCEPT !.pc = "fetch"]
      OBVIOUS
    <3>2. sync' = [sync EXCEPT ![s] = q] /\ running' = TRUE
      BY <1>7, <2>3, <3>1 DEF AutoStart
    <3>3. IsAuto(q)
      BY <2>1, <3>1 DEF ScansAuto, IsAuto, Busy
    <3> QED
      BY <2>3, <3>2, <3>3, AloneStarts
  <2> QED
    BY <2>2, <2>3
<1>8. ASSUME NEW s \in Slot, Finish(s) PROVE AutoSyncAlone'
  <2>1. sync[s] \in Busy /\ sync[s].pc = "todo"
    BY <1>8, ShapeBusy DEF Finish, At
  <2>2. PICK b : b = [sync[s] EXCEPT !.kind = "broad", !.pc = "page", !.loop = "page"]
    OBVIOUS
  <2>3. ~IsAuto(b)
    BY <2>1, <2>2 DEF IsAuto, Busy
  <2>4. sync' = [sync EXCEPT ![s] = Idle] \/ sync' = [sync EXCEPT ![s] = b]
    BY <1>8, <2>2 DEF Finish, Broad
  <2>5. running' = (running /\ sync[s].kind # "auto")
    BY <1>8 DEF Finish
  <2> QED
    BY <1>1, <2>1, <2>3, <2>4, <2>5, AloneEnds
<1>9. ASSUME NEW s \in Slot, Fail(s) \/ ImportStuck(s) PROVE AutoSyncAlone'
  <2>1. Failed(s) /\ sync[s].pc \notin {"idle", "scanned"}
    BY <1>9 DEF Fail, ImportStuck, At
  <2> QED
    BY <1>1, <2>1, AloneEnds DEF Failed
<1> QED
  BY <1>2, <1>3, <1>4, <1>5, <1>6, <1>7, <1>8, <1>9 DEF Next, Advance, InProgress

Guarded == Shape /\ ScansAuto /\ AutoSyncAlone

LEMMA GuardedInit == ASSUME Init PROVE Guarded
<1>1. Shape
  BY ShapeInit
<1> QED
  BY <1>1 DEF Init, Guarded, ScansAuto, AutoSyncAlone, Idle

LEMMA GuardedStep == ASSUME Guarded, [Next]_vars PROVE Guarded'
  BY ShapeStep, ScansStep, AloneStep DEF Guarded

(***************************************************************************)
(* Where only the timer syncs, one sync at a time is past its start: what  *)
(* it has looked up stays so, and so no mail is stored twice, and no       *)
(* attachment.                                                             *)
(***************************************************************************)

LoneOK(q) ==
    /\ q.kind = "auto" /\ from <= q.at
    /\ q.pc \notin {"scanned", "fetch"} => from <= q.next + 1
    /\ q.pc = "store" => rows[q.row].files = 0
    /\ q.pc \in {"event", "spam", "import"} =>
          Unstored(inbox[q.at]) /\ q.pc = Sort(inbox[q.at])

Begun == from <= Len(inbox) + 1 /\ \A n \in Nat : cursor = n => from <= n + 1

Lone ==
    /\ Shape /\ ScansAuto /\ AutoSyncAlone /\ Begun /\ FilesOnce /\ ImportedOnce
    /\ \A s \in Slot, q \in Busy : sync[s] = q => LoneOK(q)

LEMMA LoneBusy ==
  ASSUME Lone, NEW s \in Slot, sync[s].pc # "idle"
  PROVE  /\ sync[s] \in Busy /\ ShapeOK(sync[s]) /\ LoneOK(sync[s])
         /\ sync[s].pc # "scanned" =>
               \A p \in Slot \ {s} : sync[p] \in Busy => sync[p].pc = "scanned"
<1>1. sync[s] \in Busy /\ ShapeOK(sync[s]) /\ LoneOK(sync[s])
  BY ShapeBusy DEF Lone
<1>2. ASSUME NEW p \in Slot, sync[p] \in Busy, sync[p].pc # "scanned" PROVE IsAuto(sync[p])
  <2>1. LoneOK(sync[p]) /\ sync[p].pc # "idle"
    BY <1>2 DEF Lone, Busy
  <2> QED
    BY <1>2, <2>1 DEF LoneOK, IsAuto
<1> QED
  BY <1>1, <1>2 DEF Lone, AutoSyncAlone, IsAuto

\* A step of the one sync past its start.
LEMMA LoneKept ==
  ASSUME Lone, [Next]_vars, NEW s \in Slot, sync[s].pc \notin {"idle", "scanned"},
         NEW q, sync' = [sync EXCEPT ![s] = q], q \in Busy => LoneOK(q)',
         from' = from, Begun', FilesOnce', ImportedOnce'
  PROVE  Lone'
<1>1. Shape' /\ ScansAuto' /\ AutoSyncAlone'
  BY ShapeStep, ScansStep, AloneStep DEF Lone
<1>2. ASSUME NEW p \in Slot, NEW r \in Busy, sync'[p] = r PROVE LoneOK(r)'
  <2>1. sync \in [Slot -> Busy \cup {Idle}]
    BY DEF Lone, Shape, TypeOK
  <2>2. CASE p = s
    BY <1>2, <2>1, <2>2
  <2>3. CASE p # s
    <3>1. sync[p] = r
      BY <1>2, <2>1, <2>3
    <3>2. r.pc = "scanned"
      BY <2>3, <3>1, LoneBusy
    <3>3. LoneOK(r)
      BY <3>1 DEF Lone
    <3> QED
      BY <3>2, <3>3 DEF LoneOK
  <2> QED
    BY <2>2, <2>3
<1> QED
  BY <1>1, <1>2 DEF Lone

\* A step that leaves mails and messages alone.
LEMMA LoneRest ==
  ASSUME Lone, [Next]_vars, UNCHANGED <<from, cursor, inbox, rows>>,
         \A s \in Slot, q \in Busy : sync'[s] = q => sync[s] = q \/ LoneOK(q)
  PROVE  Lone'
<1>1. Shape' /\ ScansAuto' /\ AutoSyncAlone'
  BY ShapeStep, ScansStep, AloneStep DEF Lone
<1>2. Begun' /\ FilesOnce' /\ ImportedOnce'
  BY DEF Lone, Begun, FilesOnce, ImportedOnce
<1>3. ASSUME NEW s \in Slot, NEW q \in Busy, sync'[s] = q PROVE LoneOK(q)'
  <2>1. LoneOK(q)
    BY <1>3 DEF Lone
  <2> QED
    BY <2>1 DEF LoneOK, Unstored
<1> QED
  BY <1>1, <1>2, <1>3 DEF Lone

LEMMA FilesUntouched ==
  ASSUME Shape, FilesOnce, ImportedOnce, DOMAIN rows' = DOMAIN rows,
         \A i \in DOMAIN rows : rows'[i].mail = rows[i].mail /\ rows'[i].files <= 1
  PROVE  FilesOnce' /\ ImportedOnce'
  BY DEF FilesOnce, ImportedOnce

\* What is stored: a mail that was not, and a first attachment.
LEMMA LoneStores ==
  ASSUME Lone, NEW s \in Slot, InProgress(s)
  PROVE  FilesOnce' /\ ImportedOnce'
<1>1. sync[s] \in Busy /\ ShapeOK(sync[s]) /\ LoneOK(sync[s])
  BY Onward, LoneBusy DEF Lone, Busy
<1>2. rows \in Seq(Row) /\ DOMAIN rows = 1 .. Len(rows) /\ Len(rows) \in Nat
  BY DEF Lone, Shape, TypeOK
<1>3. CASE UNCHANGED rows
  BY <1>3 DEF Lone, FilesOnce, ImportedOnce
<1>4. CASE StoreEvent(s) \/ Import(s)
  <2>1. PICK m, event : m = inbox[sync[s].at] /\ rows' = Append(rows, Stored(m, event))
    BY <1>4 DEF StoreEvent, Import
  <2>2. Unstored(m)
    BY <1>1, <1>4, <2>1 DEF LoneOK, StoreEvent, Import, At
  <2>3. PICK new : new = Stored(m, event)
    OBVIOUS
  <2>4. new.mail = m /\ new.files = 0
    BY <2>3 DEF Stored
  <2>5. DOMAIN rows' = 1 .. (Len(rows) + 1) /\ rows'[Len(rows) + 1] = new
        /\ \A i \in DOMAIN rows : rows'[i] = rows[i]
    BY <1>2, <2>1, <2>3
  <2>6. FilesOnce'
    BY <1>2, <2>4, <2>5 DEF Lone, FilesOnce
  <2>7. ImportedOnce'
    BY <1>2, <2>2, <2>4, <2>5 DEF Lone, ImportedOnce, Unstored
  <2> QED
    BY <2>6, <2>7
<1>5. CASE Store(s) \/ Mark(s)
  <2>1. PICK i : i = sync[s].row
    OBVIOUS
  <2>2. i \in DOMAIN rows /\ rows[i] \in Row
    BY <1>1, <1>2, <1>5, <2>1 DEF ShapeOK, Store, Mark, At
  <2>3. rows[i].files \in Nat /\ rows[i].files <= 1 /\ (Store(s) => rows[i].files = 0)
    BY <1>1, <2>1, <2>2 DEF Row, Lone, FilesOnce, LoneOK, Store, At
  <2>4. \E w : /\ rows' = [rows EXCEPT ![i] = w]
               /\ w.mail = rows[i].mail /\ w.files <= 1
    <3>1. CASE Store(s)
      <4>1. PICK files : files = IF rows[i].mail \in Refused THEN rows[i].files ELSE rows[i].files + 1
        OBVIOUS
      <4>2. files <= 1
        BY <2>3, <3>1, <4>1
      <4>3. \/ rows' = [rows EXCEPT ![i] = [rows[i] EXCEPT !.files = files]]
            \/ rows' = [rows EXCEPT ![i] = [rows[i] EXCEPT !.flagged = TRUE]]
        BY <2>1, <3>1, <4>1 DEF Store
      <4>4. [rows[i] EXCEPT !.files = files].mail = rows[i].mail
            /\ [rows[i] EXCEPT !.files = files].files = files
            /\ [rows[i] EXCEPT !.flagged = TRUE].mail = rows[i].mail
            /\ [rows[i] EXCEPT !.flagged = TRUE].files = rows[i].files
        BY <2>2 DEF Row
      <4> QED
        BY <2>3, <4>2, <4>3, <4>4
    <3>2. CASE Mark(s)
      <4>1. PICK flagged : flagged = (rows[i].flagged \/ rows[i].mail \in Attached)
        OBVIOUS
      <4>2. PICK w : w = [rows[i] EXCEPT !.done = TRUE, !.flagged = flagged]
        OBVIOUS
      <4>3. rows' = [rows EXCEPT ![i] = w]
        BY <2>1, <3>2, <4>1, <4>2 DEF Mark
      <4>4. w.mail = rows[i].mail /\ w.files = rows[i].files
        BY <2>2, <4>2 DEF Row
      <4> QED
        BY <2>3, <4>3, <4>4
    <3> QED
      BY <1>5, <3>1, <3>2
  <2>5. PICK w : rows' = [rows EXCEPT ![i] = w] /\ w.mail = rows[i].mail /\ w.files <= 1
    BY <2>4
  <2>6. \A j \in DOMAIN rows : rows'[j].mail = rows[j].mail /\ rows'[j].files <= 1
    BY <2>2, <2>5 DEF Lone, FilesOnce
  <2>7. DOMAIN rows' = DOMAIN rows
    BY <2>5
  <2> QED
    BY <2>6, <2>7, FilesUntouched DEF Lone
<1> QED
  BY <1>3, <1>4, <1>5 DEF InProgress, Fetch, Check, LogSpam, Settle, Retrieve, List, NextCandidate

LEMMA LoneMoves ==
  ASSUME Lone, [Next]_vars, NEW s \in Slot, InProgress(s)
  PROVE  Lone'
<1>1. PICK q : To(s, q) /\ Onwards(s, q)
  BY Onward DEF Lone
<1>2. sync[s] \in Busy /\ sync[s].pc \notin {"idle", "scanned"}
  BY Onward DEF Lone, Busy
<1>3. LoneOK(sync[s])
  BY <1>2, LoneBusy
<1>4. UNCHANGED <<inbox, from, cursor>>
  BY <1>1 DEF To, mailbox
<1>5. FilesOnce' /\ ImportedOnce' /\ Begun'
  BY <1>4, LoneStores DEF Lone, Begun
<1>6. ASSUME q \in Busy PROVE LoneOK(q)'
  <2>1. from \in Nat /\ sync[s].at \in Nat /\ sync[s].next \in Nat /\ q.at \in Nat /\ q.next \in Nat
    BY <1>2, <1>6 DEF Busy, Lone, Shape, TypeOK
  <2>2. from <= q.at /\ q.kind = "auto" /\ from <= q.next + 1
    BY <1>1, <1>2, <1>3, <2>1 DEF Onwards, LoneOK
  <2>3. ASSUME q.pc \in {"event", "spam", "import"} PROVE Unstored(inbox[q.at])'
    BY <1>1, <1>4, <2>3 DEF Onwards, Unstored
  <2>4. q.pc = "store" => rows'[q.row].files = 0
    BY <1>1 DEF Onwards
  <2>5. q.pc \in {"event", "spam", "import"} => q.pc = Sort(inbox[q.at])
    BY <1>1 DEF Onwards
  <2> QED
    BY <1>4, <2>2, <2>3, <2>4, <2>5 DEF LoneOK, Sort
<1> QED
  BY <1>1, <1>2, <1>4, <1>5, <1>6, LoneKept DEF To

LEMMA LoneEnds ==
  ASSUME Lone, [Next]_vars, NEW s \in Slot, Finish(s) \/ Fail(s) \/ ImportStuck(s)
  PROVE  Lone'
<1>1. sync[s].pc \notin {"idle", "scanned"}
  BY DEF Finish, Fail, ImportStuck, At
<1>2. sync[s] \in Busy /\ LoneOK(sync[s])
  BY <1>1, LoneBusy
<1>3. sync' = [sync EXCEPT ![s] = Idle] /\ from' = from /\ UNCHANGED <<inbox, rows>>
  BY <1>2 DEF Finish, Fail, ImportStuck, Failed, LoneOK, mailbox
<1>4. FilesOnce' /\ ImportedOnce'
  BY <1>3 DEF Lone, FilesOnce, ImportedOnce
<1>5. Begun'
  <2>1. CASE Finish(s)
    <3>1. from <= sync[s].next + 1 /\ cursor' = sync[s].next
      BY <1>2, <2>1 DEF Finish, At, LoneOK
    <3> QED
      BY <1>3, <3>1 DEF Lone, Begun
  <2>2. CASE Fail(s) \/ ImportStuck(s)
    BY <1>3, <2>2 DEF Fail, ImportStuck, Failed, mailbox, Lone, Begun
  <2> QED
    BY <2>1, <2>2
<1> QED
  BY <1>1, <1>3, <1>4, <1>5, LoneKept DEF Idle, Busy

LEMMA LoneStarts ==
  ASSUME Lone, [Next]_vars, NEW s \in Slot, AutoScan(s) \/ AutoStart(s)
  PROVE  Lone'
<1>1. sync \in [Slot -> Busy \cup {Idle}] /\ Idle \notin Busy
  BY DEF Lone, Shape, TypeOK, Idle, Busy
<1>2. \E q : sync' = [sync EXCEPT ![s] = q] /\ (q \in Busy => LoneOK(q))
  <2>1. CASE AutoScan(s)
    <3>1. PICK q : q = Snapshot("scanned", "auto")
      OBVIOUS
    <3>2. q.kind = "auto" /\ q.pc = "scanned" /\ q.at = IF cursor = NoCursor THEN from ELSE cursor + 1
      BY <3>1 DEF Snapshot
    <3>3. from <= q.at
      BY <3>2 DEF Lone, Begun, Shape, TypeOK
    <3>4. LoneOK(q)
      BY <3>2, <3>3 DEF LoneOK
    <3> QED
      BY <2>1, <3>1, <3>4 DEF AutoScan
  <2>2. CASE AutoStart(s)
    <3>1. sync[s] \in Busy /\ LoneOK(sync[s]) /\ sync[s].pc = "scanned"
      BY <2>2, LoneBusy DEF AutoStart
    <3>2. PICK q : q = [sync[s] EXCEPT !.pc = "fetch"]
      OBVIOUS
    <3>3. q.pc = "fetch" /\ q.at = sync[s].at /\ q.kind = sync[s].kind
      BY <3>1, <3>2 DEF Busy
    <3>4. LoneOK(q)
      BY <3>1, <3>3 DEF LoneOK
    <3>5. sync' = [sync EXCEPT ![s] = Idle] \/ sync' = [sync EXCEPT ![s] = q]
      BY <2>2, <3>2 DEF AutoStart
    <3> QED
      BY <1>1, <3>4, <3>5
  <2> QED
    BY <2>1, <2>2
<1>3. UNCHANGED <<from, cursor, inbox, rows>>
  BY DEF AutoScan, AutoStart, mailbox
<1> QED
  BY <1>1, <1>2, <1>3, LoneRest

\* Mails are listed after those that are there.
LEMMA LoneMail ==
  ASSUME Lone, [Next]_vars, NEW m \in Mail, Deliver(m) \/ Redeliver(m)
  PROVE  Lone'
<1>1. Shape' /\ ScansAuto' /\ AutoSyncAlone'
  BY ShapeStep, ScansStep, AloneStep DEF Lone
<1>2. UNCHANGED <<from, cursor, rows, sync>> /\ inbox' = Append(inbox, m)
  BY DEF Deliver, Redeliver, mailbox
<1>3. inbox \in Seq(Mail) /\ Len(inbox) \in Nat /\ Len(inbox') = Len(inbox) + 1
      /\ \A i \in 1 .. Len(inbox) : inbox'[i] = inbox[i]
  BY <1>2 DEF Lone, Shape, TypeOK
<1>4. Begun' /\ FilesOnce' /\ ImportedOnce'
  <2>1. from \in Nat
    BY DEF Lone, Shape, TypeOK
  <2> QED
    BY <1>2, <1>3, <2>1 DEF Lone, Begun, FilesOnce, ImportedOnce
<1>5. ASSUME NEW s \in Slot, NEW q \in Busy, sync'[s] = q PROVE LoneOK(q)'
  <2>1. LoneOK(q) /\ ShapeOK(q)
    BY <1>2, <1>5 DEF Lone, Shape
  <2>2. q.pc \in {"event", "spam", "import"} => q.at \in 1 .. Len(inbox)
    BY <1>3, <2>1 DEF ShapeOK, Busy
  <2> QED
    BY <1>2, <1>3, <2>1, <2>2 DEF LoneOK, Unstored, Sort
<1> QED
  BY <1>1, <1>4, <1>5 DEF Lone

LEMMA LoneStep ==
  ASSUME Kinds \subseteq {"auto"}, Lone, [Next]_vars
  PROVE  Lone'
<1>1. ASSUME NEW m \in Mail, Deliver(m) \/ Redeliver(m) PROVE Lone'
  BY <1>1, LoneMail
<1>2. CASE Elapse \/ Hours \/ Crash \/ (\E on \in BOOLEAN : SetAuto(on)) \/ UNCHANGED vars
  <2>1. UNCHANGED <<from, cursor, inbox, rows>>
    BY <1>2 DEF Elapse, Hours, Crash, SetAuto, vars, mailbox
  <2>2. sync' = sync \/ sync' = [s \in Slot |-> Idle]
    BY <1>2 DEF Elapse, Hours, Crash, SetAuto, vars
  <2>3. Idle \notin Busy
    BY DEF Idle, Busy
  <2> QED
    BY <2>1, <2>2, <2>3, LoneRest
<1>3. ASSUME NEW s \in Slot, AutoScan(s) \/ AutoStart(s) PROVE Lone'
  BY <1>3, LoneStarts
<1>4. ASSUME NEW s \in Slot, ManualStart(s) \/ \E date : BackfillStart(s, date) PROVE FALSE
  BY <1>4 DEF ManualStart, BackfillStart
<1>5. ASSUME NEW s \in Slot, Advance(s) \/ Fail(s) PROVE Lone'
  BY <1>5, LoneMoves, LoneEnds DEF Advance, InProgress
<1> QED
  BY <1>1, <1>2, <1>3, <1>4, <1>5 DEF Next

LEMMA LoneInit == ASSUME Init PROVE Lone
<1>1. Shape /\ Inv
  BY ShapeInit, InvInit
<1>2. rows = <<>> /\ cursor = NoCursor /\ sync = [s \in Slot |-> Idle] /\ running = FALSE
  BY DEF Init
<1>3. ScansAuto /\ AutoSyncAlone
  BY <1>2 DEF ScansAuto, AutoSyncAlone, Idle
<1>4. Begun
  BY <1>1, <1>2, MailAssumption DEF Inv, Begun
<1>5. FilesOnce /\ ImportedOnce
  BY <1>2 DEF FilesOnce, ImportedOnce
<1>6. Idle \notin Busy
  BY DEF Idle, Busy
<1> QED
  BY <1>1, <1>2, <1>3, <1>4, <1>5, <1>6 DEF Lone

LEMMA LoneAlways == ASSUME Kinds \subseteq {"auto"} PROVE Spec => []Lone
<1>1. Init => Lone
  BY LoneInit
<1>2. Lone /\ [Next]_vars => Lone'
  BY LoneStep
<1> QED
  BY <1>1, <1>2, PTL DEF Spec

(***************************************************************************)
(* The refinement: a delivery of a wanted mail is a Deliver of MailIntake, *)
(* a mail stored a Record, and everything else stutters.                   *)
(***************************************************************************)

Recorded == [i \in DOMAIN rows |-> rows[i].mail]

LEMMA RecordsMail ==
  ASSUME Lone, NEW m \in Mail, Deliver(m) \/ Redeliver(m)
  PROVE  RecordsStep
<1>1. inbox \in Seq(Mail) /\ Len(inbox) \in Nat /\ from \in Nat \ {0} /\ from <= Len(inbox) + 1
  BY DEF Lone, Begun, Shape, TypeOK
<1>2. inbox' = Append(inbox, m) /\ from' = from /\ rows' = rows
  BY DEF Deliver, Redeliver, mailbox
<1>3. /\ Len(inbox') = Len(inbox) + 1 /\ inbox'[Len(inbox) + 1] = m
      /\ \A i \in 1 .. Len(inbox) : inbox'[i] = inbox[i]
  BY <1>1, <1>2
<1>4. from .. Len(inbox') = (from .. Len(inbox)) \cup {Len(inbox) + 1}
      /\ from .. Len(inbox) \subseteq 1 .. Len(inbox)
  BY <1>1, <1>3
<1>5. Wanted' = Wanted \cup ({m} \ (SpamMail \ EventMail))
  <2>1. {inbox'[i] : i \in from .. Len(inbox')} = {inbox[i] : i \in from .. Len(inbox)} \cup {m}
    BY <1>3, <1>4
  <2> QED
    BY <1>2, <2>1 DEF Wanted
<1>6. CASE m \in SpamMail \ EventMail \/ m \in Wanted
  <2>1. Wanted' = Wanted
    BY <1>5, <1>6
  <2> QED
    BY <1>2, <2>1 DEF RecordsStep, Intake!vars
<1>7. CASE m \notin SpamMail \ EventMail /\ m \notin Wanted
  <2>1. Wanted' = Wanted \cup {m}
    BY <1>5, <1>7
  <2>2. Intake!Deliver(m)
    BY <1>2, <1>7, <2>1 DEF Intake!Deliver
  <2> QED
    BY <2>2 DEF RecordsStep, Intake!Next
<1> QED
  BY <1>6, <1>7

LEMMA RecordsStores ==
  ASSUME Lone, NEW s \in Slot, StoreEvent(s) \/ Import(s)
  PROVE  RecordsStep
<1>1. sync[s] \in Busy /\ ShapeOK(sync[s]) /\ LoneOK(sync[s]) /\ sync[s].pc \in {"event", "import"}
  BY LoneBusy DEF StoreEvent, Import, At
<1>2. rows \in Seq(Row) /\ inbox \in Seq(Mail) /\ from \in Nat /\ Len(inbox) \in Nat
  BY DEF Lone, Shape, TypeOK
<1>3. PICK m, event : m = inbox[sync[s].at] /\ rows' = Append(rows, Stored(m, event))
  BY DEF StoreEvent, Import
<1>4. sync[s].at \in from .. Len(inbox) /\ sync[s].at \in 1 .. Len(inbox)
  BY <1>1, <1>2 DEF ShapeOK, LoneOK, Busy
<1>5. m \in Mail /\ m \in Wanted /\ Unstored(m)
  <2>1. m \notin SpamMail \ EventMail
    BY <1>1, <1>3 DEF LoneOK, Sort
  <2> QED
    BY <1>1, <1>2, <1>3, <1>4, <2>1 DEF Wanted, LoneOK
<1>6. PICK new : new = Stored(m, event)
  OBVIOUS
<1>7. new.mail = m
  BY <1>6 DEF Stored
<1>8. Recorded' = Append(Recorded, m)
  <2>1. DOMAIN rows = 1 .. Len(rows) /\ Len(rows) \in Nat /\ Recorded \in Seq(Mail)
        /\ Len(Recorded) = Len(rows)
    <3>1. \A i \in DOMAIN rows : rows[i] \in Row
      BY <1>2
    <3>2. \A i \in DOMAIN rows : rows[i].mail \in Mail
      BY <3>1 DEF Row
    <3>3. DOMAIN rows = 1 .. Len(rows) /\ Len(rows) \in Nat
      BY <1>2
    <3>4. Recorded \in [1 .. Len(rows) -> Mail]
      BY <3>2, <3>3 DEF Recorded
    <3> QED
      BY <3>3, <3>4
  <2>2. DOMAIN rows' = 1 .. (Len(rows) + 1) /\ rows'[Len(rows) + 1] = new
        /\ \A i \in DOMAIN rows : rows'[i] = rows[i]
    BY <1>2, <1>3, <1>6
  <2>3. Recorded' = [i \in 1 .. (Len(rows) + 1) |-> IF i = Len(rows) + 1 THEN m ELSE Recorded[i]]
    BY <1>7, <2>1, <2>2 DEF Recorded
  <2>4. Append(Recorded, m)
          = [i \in 1 .. (Len(rows) + 1) |-> IF i = Len(rows) + 1 THEN m ELSE Recorded[i]]
    <3>1. PICK longer : longer = Append(Recorded, m)
      OBVIOUS
    <3>2. longer \in Seq(Mail) /\ Len(longer) = Len(rows) + 1
          /\ \A i \in 1 .. (Len(rows) + 1) :
                longer[i] = IF i = Len(rows) + 1 THEN m ELSE Recorded[i]
      BY <1>5, <2>1, <3>1, AppendProperties
    <3>3. longer \in [1 .. (Len(rows) + 1) -> Mail]
      BY <2>1, <3>2
    <3> QED
      BY <3>1, <3>2, <3>3
  <2> QED
    BY <2>3, <2>4
<1>9. m \notin Range(Recorded)
  BY <1>5 DEF Recorded, Range, Unstored
<1>10. Wanted' = Wanted
  BY DEF StoreEvent, Import, To, mailbox, Wanted
<1>11. Intake!Record(m)
  BY <1>5, <1>8, <1>9, <1>10 DEF Intake!Record, Intake!Range, Range, Recorded
<1> QED
  BY <1>5, <1>11 DEF RecordsStep, Intake!Next

\* Marks and files change no mail recorded.
LEMMA RecordsSame ==
  ASSUME Shape, UNCHANGED <<inbox, from>>, DOMAIN rows' = DOMAIN rows,
         \A i \in DOMAIN rows : rows'[i].mail = rows[i].mail
  PROVE  RecordsStep
<1>1. Wanted' = Wanted
  BY DEF Wanted
<1>2. Recorded' = Recorded
  BY DEF Recorded
<1> QED
  BY <1>1, <1>2 DEF RecordsStep, Recorded, Intake!vars

LEMMA RecordsNext ==
  ASSUME Kinds \subseteq {"auto"}, Lone, [Next]_vars
  PROVE  RecordsStep
<1>1. ASSUME NEW m \in Mail, Deliver(m) \/ Redeliver(m) PROVE RecordsStep
  BY <1>1, RecordsMail
<1>2. ASSUME NEW s \in Slot, StoreEvent(s) \/ Import(s) PROVE RecordsStep
  BY <1>2, RecordsStores
<1>3. ASSUME NEW s \in Slot, Store(s) \/ Mark(s) PROVE RecordsStep
  <2>1. sync[s] \in Busy /\ ShapeOK(sync[s]) /\ sync[s].pc \in {"store", "mark"}
    BY <1>3, LoneBusy DEF Store, Mark, At
  <2>2. PICK i : i = sync[s].row
    OBVIOUS
  <2>3. i \in DOMAIN rows /\ rows[i] \in Row
    BY <2>1, <2>2 DEF ShapeOK, Lone, Shape, TypeOK
  <2>4. PICK w : rows' = [rows EXCEPT ![i] = w] /\ w.mail = rows[i].mail
    <3>1. \A files : [rows[i] EXCEPT !.files = files].mail = rows[i].mail
      BY <2>3 DEF Row
    <3>2. \A flagged : [rows[i] EXCEPT !.flagged = flagged].mail = rows[i].mail
                       /\ [rows[i] EXCEPT !.done = TRUE, !.flagged = flagged].mail = rows[i].mail
      BY <2>3 DEF Row
    <3>3. CASE Store(s)
      BY <2>2, <3>1, <3>2, <3>3 DEF Store
    <3>4. CASE Mark(s)
      <4>1. PICK flagged : flagged = (rows[i].flagged \/ rows[i].mail \in Attached)
        OBVIOUS
      <4>2. rows' = [rows EXCEPT ![i] = [rows[i] EXCEPT !.done = TRUE, !.flagged = flagged]]
        BY <2>2, <3>4, <4>1 DEF Mark
      <4> QED
        BY <3>2, <4>2
    <3> QED
      BY <1>3, <3>3, <3>4
  <2>5. UNCHANGED <<inbox, from>>
    BY <1>3 DEF Store, Mark, To, mailbox
  <2>6. DOMAIN rows' = DOMAIN rows /\ \A j \in DOMAIN rows : rows'[j].mail = rows[j].mail
    BY <2>3, <2>4
  <2> QED
    BY <2>5, <2>6, RecordsSame DEF Lone
<1>4. CASE UNCHANGED <<inbox, from, rows>>
  BY <1>4, RecordsSame DEF Lone
<1>5. ASSUME NEW s \in Slot, Finish(s) PROVE UNCHANGED <<inbox, from, rows>>
  <2>1. LoneOK(sync[s])
    BY <1>5, LoneBusy DEF Finish, At
  <2> QED
    BY <1>5, <2>1 DEF Finish, LoneOK
<1>6. ASSUME NEW s \in Slot, ManualStart(s) \/ \E date : BackfillStart(s, date) PROVE FALSE
  BY <1>6 DEF ManualStart, BackfillStart
<1>7. CASE \/ Elapse \/ Hours \/ Crash \/ (\E on \in BOOLEAN : SetAuto(on)) \/ UNCHANGED vars
  BY <1>4, <1>7 DEF Elapse, Hours, Crash, SetAuto, vars, mailbox
<1>8. ASSUME NEW s \in Slot,
             \/ AutoScan(s) \/ AutoStart(s) \/ Fail(s) \/ ImportStuck(s) \/ Fetch(s) \/ Check(s)
             \/ LogSpam(s) \/ Settle(s) \/ Retrieve(s) \/ List(s) \/ NextCandidate(s)
      PROVE  UNCHANGED <<inbox, from, rows>>
  BY <1>8 DEF AutoScan, AutoStart, Fail, ImportStuck, Failed, Fetch, Check, LogSpam, Settle,
              Retrieve, List, NextCandidate, To, mailbox
<1> QED
  BY <1>1, <1>2, <1>3, <1>4, <1>5, <1>6, <1>7, <1>8 DEF Next, Advance

(***************************************************************************)
(* The theorems.                                                           *)
(***************************************************************************)

\* Every step of a sync leaves mails, messages and syncs of their types, backfills
\* included.
THEOREM TypeCorrect == Spec => []TypeOK
<1>1. Shape => TypeOK
  BY DEF Shape
<1> QED
  BY <1>1, ShapeAlways, PTL

\* A message that counts as done has its attachment, or the policy refused it, however
\* syncs and backfills overlap, fail and restart.
THEOREM DoneAlwaysStored == Spec => []DoneMeansStored
<1>1. Shape => DoneMeansStored
  BY DEF Shape
<1> QED
  BY <1>1, ShapeAlways, PTL

\* Without backfills, the saved delta link passes only mails stored or logged as spam,
\* however the timer's and an administrator's syncs overlap, fail and restart.
THEOREM SkipsNothing == ASSUME "backfill" \notin Kinds PROVE Spec => []NothingSkipped
<1>1. Inv => NothingSkipped
  BY InvSkips
<1> QED
  BY <1>1, InvAlways, PTL

\* Whoever else syncs the mailbox, the timer never syncs it twice at a time, and
\* runningAutoSyncs holds it exactly while a sync of the timer's is under way.
THEOREM AutoSyncsAlone == Spec => []AutoSyncAlone
<1>1. Init => Guarded
  BY GuardedInit
<1>2. Guarded /\ [Next]_vars => Guarded'
  BY GuardedStep
<1>3. Guarded => AutoSyncAlone
  BY DEF Guarded
<1> QED
  BY <1>1, <1>2, <1>3, PTL DEF Spec

\* Where only the timer syncs, no attachment is stored twice, though a message whose
\* mark was not written is taken up again.
THEOREM FilesStoredOnce == ASSUME Kinds \subseteq {"auto"} PROVE Spec => []FilesOnce
<1>1. Lone => FilesOnce
  BY DEF Lone
<1> QED
  BY <1>1, LoneAlways, PTL

\* Where only the timer syncs, MailboxSync implements the first half of MailIntake:
\* what is recorded was delivered and is wanted, and no mail is recorded twice, through
\* crashes, retries and mails listed again.
THEOREM TimerRecordsOnce ==
  ASSUME Kinds \subseteq {"auto"}
  PROVE  Spec => RecordsAtMostOnce
<1>1. Init => Intake!Init
  <2> SUFFICES ASSUME Init PROVE Intake!Init
    OBVIOUS
  <2>1. Wanted \in SUBSET Mail
    <3>1. inbox \in Seq(Mail) /\ from \in Nat \ {0}
      BY InvInit DEF Inv, TypeOK
    <3>2. \A i \in from .. Len(inbox) : inbox[i] \in Mail
      BY <3>1
    <3> QED
      BY <3>2 DEF Wanted
  <2>2. Recorded = <<>>
    BY DEF Init, Recorded
  <2> QED
    BY <2>1, <2>2 DEF Intake!Init, Recorded
<1>2. Lone /\ [Next]_vars => [Intake!Next]_(Intake!vars)
  BY RecordsNext DEF RecordsStep
<1> QED
  BY <1>1, <1>2, LoneAlways, PTL DEF Spec, RecordsAtMostOnce, Intake!AtMostOnce
==============================================================================
