------------------------- MODULE TicketMerge_proofs -------------------------
(***************************************************************************)
(* What holds of TicketMerge for any sets of tickets, messages and         *)
(* requests.  Inv1 is inductive for every overlap of requests, Inv2 when   *)
(* merges do not overlap each other; the theorems draw from them the       *)
(* properties the TLC runs check.                                          *)
(***************************************************************************)
EXTENDS MCTicketMerge, TLAPS

(***************************************************************************)
(* Type correctness: one step per action.                                  *)
(***************************************************************************)

\* The request in progress is of the kind its op says.
LEMMA RequestKinds ==
  ASSUME TypeOK, NEW r \in Request
  PROVE  /\ req[r].op = "matched" => req[r] \in Matched
         /\ req[r].op \in {"imported", "storing"} => req[r] \in Imported
         /\ req[r].op \in {"sending", "recorded", "settling"} => req[r] \in Replying
         /\ req[r].op = "merging" => req[r] \in Merging
         /\ req[r].op = "purging" => req[r] \in Purging
  BY DEF TypeOK, Idle, Matched, Imported, Replying, Merging, Purging

\* Moving a request to its next op changes nothing else of it.
LEMMA OpUpdate ==
  ASSUME TypeOK, NEW r \in Request, NEW op
  PROVE  /\ req[r].op \in {"imported", "sending", "recorded"} =>
               [req[r] EXCEPT !.op = op].op = op
         /\ req[r].op = "imported" =>
               /\ [req[r] EXCEPT !.op = op].email = req[r].email
               /\ [req[r] EXCEPT !.op = op].target = req[r].target
  BY RequestKinds DEF Imported, Replying

LEMMA TypeInit == Init => TypeOK
  BY DEF Init, TypeOK, Maybe, Message, Idle, Gone

LEMMA TypeStep == TypeOK /\ [Next]_vars => TypeOK'
<1> USE NoneAssumption, SlotAssumption, MsgAssumption
<1> SUFFICES ASSUME TypeOK, [Next]_vars PROVE TypeOK'
  OBVIOUS
<1> USE DEF TypeOK, Maybe, Message, db, Gone
<1>1. CASE \E t \in Ticket : Create(t) \/ SoftDelete(t) \/ Restore(t)
  BY <1>1 DEF Create, SoftDelete, Restore
<1>2. CASE \E t \in Ticket, s \in {"OPEN", "DONE"} : SetStatus(t, s)
  BY <1>2 DEF SetStatus
<1>3. ASSUME NEW r \in Request, NEW e \in Email, NEW t \in Ticket, InboundMatch(r, e, t)
      PROVE  TypeOK'
  <2> DEFINE target == InboundTarget(t)
             wake == \/ status[target] = "DONE"
                     \/ status[target] # "MERGED" /\ HasReply(target)
             q == [op |-> "matched", email |-> e, target |-> target,
                   origin |-> IF target = t THEN None ELSE t, wake |-> wake]
  <2>1. target \in Ticket
    BY DEF InboundTarget
  <2>2. wake \in BOOLEAN
    BY Zenon
  <2>3. q \in Matched
    <3> HIDE DEF target, wake
    <3>1. QED
      BY <2>1, <2>2 DEF Matched
  <2>4. req' = [req EXCEPT ![r] = q]
    BY <1>3, Zenon DEF InboundMatch
  <2>5. UNCHANGED db
    BY <1>3 DEF InboundMatch
  <2> HIDE DEF q
  <2>6. QED
    BY <2>3, <2>4, <2>5
<1>4. ASSUME NEW r \in Request, NEW e \in Email, NEW t \in Ticket, InboundNew(r, e, t)
      PROVE  TypeOK'
  <2>1. [op |-> "storing", email |-> e, target |-> t] \in Imported
    BY DEF Imported
  <2>2. QED
    BY <1>4, <2>1 DEF InboundNew
<1>5. ASSUME NEW r \in Request, InboundCommit(r) PROVE TypeOK'
  <2>1. req[r] \in Matched
    BY <1>5, RequestKinds DEF InboundCommit
  <2>2. [op |-> "imported", email |-> req[r].email, target |-> req[r].target] \in Imported
    BY <2>1 DEF Matched, Imported
  <2>3. QED
    BY <1>5, <2>1, <2>2 DEF InboundCommit, Matched
<1>6. ASSUME NEW r \in Request, InboundRules(r) PROVE TypeOK'
  <2>1. req[r] \in Imported
    BY <1>6, RequestKinds DEF InboundRules
  <2>2. [req[r] EXCEPT !.op = "storing"] \in Imported
    BY <2>1 DEF Imported
  <2>3. RuleOutcome(req[r].target) \subseteq Gone \cup {"OPEN", "DONE", "MERGED"}
    BY <2>1 DEF RuleOutcome, Imported
  <2>4. QED
    BY <1>6, <2>1, <2>2, <2>3 DEF InboundRules, Imported
<1>7. ASSUME NEW r \in Request, NEW e \in Email, Refetch(r, e) PROVE TypeOK'
  <2>1. [op |-> "storing", email |-> e, target |-> home[e]] \in Imported
    BY <1>7 DEF Imported, Refetch
  <2>2. QED
    BY <1>7, <2>1 DEF Refetch
<1>8. ASSUME NEW r \in Request, StoreFile(r) PROVE TypeOK'
  <2>1. req[r] \in Imported
    BY <1>8, RequestKinds DEF StoreFile
  <2>2. QED
    BY <1>8, <2>1 DEF StoreFile, Imported
<1>9. ASSUME NEW r \in Request, NEW m \in Reply, NEW t \in Ticket, ReplyStart(r, m, t)
      PROVE  TypeOK'
  <2>1. ASSUME NEW closes \in BOOLEAN
        PROVE  [op |-> "sending", reply |-> m, target |-> t, closes |-> closes] \in Replying
    BY DEF Replying
  <2>2. QED
    BY <1>9, <2>1 DEF ReplyStart
<1>10. ASSUME NEW r \in Request, ReplyRecord(r) PROVE TypeOK'
  <2>1. req[r] \in Replying
    BY <1>10, RequestKinds DEF ReplyRecord
  <2>2. [req[r] EXCEPT !.op = "recorded"] \in Replying
    BY <2>1 DEF Replying
  <2>3. QED
    BY <1>10, <2>1, <2>2 DEF ReplyRecord, Replying
<1>11. ASSUME NEW r \in Request, ReplyStamp(r) PROVE TypeOK'
  <2>1. req[r] \in Replying
    BY <1>11, RequestKinds DEF ReplyStamp
  <2>2. [req[r] EXCEPT !.op = "settling"] \in Replying
    BY <2>1 DEF Replying
  <2>3. QED
    BY <1>11, <2>1, <2>2 DEF ReplyStamp, Replying
<1>12. ASSUME NEW r \in Request, ReplySettle(r) PROVE TypeOK'
  <2>1. req[r] \in Replying
    BY <1>12, RequestKinds DEF ReplySettle
  <2>2. RuleOutcome(req[r].target) \subseteq Gone \cup {"OPEN", "DONE", "MERGED"}
    BY <2>1 DEF RuleOutcome, Replying
  <2>3. QED
    BY <1>12, <2>1, <2>2 DEF ReplySettle, Replying
<1>13. ASSUME NEW r \in Request, NEW p \in Ticket, NEW S \in SUBSET Ticket,
              MergeStart(r, p, S)
       PROVE  TypeOK'
  <2>1. [op |-> "merging", primary |-> p, sources |-> S] \in Merging
    BY DEF Merging
  <2>2. QED
    BY <1>13, <2>1 DEF MergeStart
<1>14. ASSUME NEW r \in Request, MergeCommit(r) PROVE TypeOK'
  <2>1. req[r] \in Merging
    BY <1>14, RequestKinds DEF MergeCommit
  <2>2. req[r].primary \in Ticket /\ req[r].sources \subseteq Ticket
    BY <2>1 DEF Merging
  <2>3. QED
    BY <1>14, <2>2 DEF MergeCommit
<1>15. ASSUME NEW r \in Request, Abort(r) PROVE TypeOK'
  BY <1>15 DEF Abort
<1>16. CASE UNCHANGED vars
  BY <1>16 DEF vars
<1>17. ASSUME NEW r \in Request, NEW S \in SUBSET Ticket, PurgeFind(r, S) PROVE TypeOK'
  <2> DEFINE q == [op |-> "purging", tickets |-> S, files |-> {e \in Email : fileAt[e] \in S}]
  <2>1. q \in Purging
    BY DEF Purging
  <2>2. req' = [req EXCEPT ![r] = q] /\ UNCHANGED db
    BY <1>17 DEF PurgeFind
  <2> HIDE DEF q
  <2>3. QED
    BY <2>1, <2>2
<1>18. ASSUME NEW r \in Request, PurgeCommit(r) PROVE TypeOK'
  <2>1. req[r].tickets \subseteq Ticket
    BY <1>18, RequestKinds DEF PurgeCommit, Purging
  <2>2. /\ status' \in [Ticket -> Gone \cup {"OPEN", "DONE", "MERGED"}]
        /\ mergedInto' \in [Ticket -> Ticket \cup {None}]
        /\ deleted' \in [Ticket -> BOOLEAN]
    BY <1>18, <2>1 DEF PurgeCommit
  <2>3. /\ home' \in [Email \cup Reply -> Ticket \cup {None}]
        /\ origin' \in [Email \cup Reply -> Ticket \cup {None}]
        /\ fileAt' \in [Email -> Ticket \cup {None}]
    BY <1>18, <2>1 DEF PurgeCommit
  <2>4. req' = [req EXCEPT ![r] = Idle]
    BY <1>18 DEF PurgeCommit
  <2>5. QED
    BY <2>2, <2>3, <2>4
<1>20. QED
  BY <1>1, <1>2, <1>3, <1>4, <1>5, <1>6, <1>7, <1>8, <1>9, <1>10, <1>11, <1>12,
     <1>13, <1>14, <1>15, <1>16, <1>17, <1>18 DEF Next, Begin, Resume

\* TypeOK is an invariant: every handler writes only values of its column's type.
THEOREM TypeCorrect == Spec => []TypeOK
  BY TypeInit, TypeStep, PTL DEF Spec

(***************************************************************************)
(* What holds however requests overlap.                                    *)
(***************************************************************************)

Inv1 == TypeOK /\ PointersStand /\ ExclusiveWriters /\ DistinctPrimary

LEMMA Inv1Init == Init => Inv1
<1> SUFFICES ASSUME Init PROVE Inv1
  OBVIOUS
<1>1. TypeOK
  BY TypeInit
<1>2. PointersStand /\ ExclusiveWriters /\ DistinctPrimary
  BY DEF Init, PointersStand, ExclusiveWriters, DistinctPrimary, Writing, Idle, Message
<1>3. QED
  BY <1>1, <1>2 DEF Inv1

\* A ticket that is there keeps its status or gets one that is not MERGED; one not
\* created yet is opened.
StatusWrite ==
    \E u \in Ticket : /\ status[u] # "PURGED"
                      /\ \E s \in {"OPEN", "DONE"} \cup ({status[u]} \ Gone) :
                            status' = [status EXCEPT ![u] = s]

\* MERGED is written by MergeCommit alone, together with the pointer, and only
\* PurgeCommit removes a row or clears a pointer.
LEMMA StatusWrites ==
  ASSUME Inv1, [Next]_vars, \A r \in Request : ~MergeCommit(r) /\ ~PurgeCommit(r)
  PROVE  UNCHANGED mergedInto /\ (UNCHANGED status \/ StatusWrite)
<1> USE NoneAssumption, SlotAssumption, MsgAssumption DEF db
<1>t. TypeOK
  BY DEF Inv1
<1>3. CASE Begin
  BY <1>3 DEF Begin, Create, SetStatus, SoftDelete, Restore, InboundMatch, InboundNew,
     Refetch, ReplyStart, MergeStart, PurgeFind, StatusWrite, Visible, Gone
<1>4. ASSUME NEW r \in Request, InboundCommit(r)
      PROVE  UNCHANGED mergedInto /\ (UNCHANGED status \/ StatusWrite)
  <2>1. req[r] \in Matched
    BY <1>4, <1>t, RequestKinds DEF InboundCommit
  <2>2. QED
    BY <1>4, <2>1 DEF InboundCommit, Matched, StatusWrite, Exists, Gone
<1>5. ASSUME NEW r \in Request, InboundRules(r)
      PROVE  UNCHANGED mergedInto /\ (UNCHANGED status \/ StatusWrite)
  <2>1. req[r] \in Imported
    BY <1>5, <1>t, RequestKinds DEF InboundRules
  <2>2. QED
    BY <1>5, <2>1 DEF InboundRules, RuleOutcome, Imported, StatusWrite, Exists, Gone
<1>6. ASSUME NEW r \in Request, ReplyStamp(r) \/ ReplySettle(r)
      PROVE  UNCHANGED mergedInto /\ (UNCHANGED status \/ StatusWrite)
  <2>1. req[r] \in Replying
    BY <1>6, <1>t, RequestKinds DEF ReplyStamp, ReplySettle
  <2>2. QED
    BY <1>6, <2>1 DEF ReplyStamp, ReplySettle, RuleOutcome, Replying, StatusWrite, Exists, Gone
<1>7. ASSUME NEW r \in Request, StoreFile(r) \/ ReplyRecord(r) \/ Abort(r)
      PROVE  UNCHANGED mergedInto /\ UNCHANGED status
  BY <1>7 DEF StoreFile, ReplyRecord, Abort
<1>8. CASE UNCHANGED vars
  BY <1>8 DEF vars
<1>9. QED
  BY <1>3, <1>4, <1>5, <1>6, <1>7, <1>8 DEF Next, Resume

\* What the two transactions that write pointers write.
LEMMA PointerWrites ==
  ASSUME Inv1, NEW r \in Request, MergeCommit(r) \/ PurgeCommit(r)
  PROVE  \/ \E p \in Ticket, S \in SUBSET Ticket :
               /\ p \notin S /\ \A t \in S \cup {p} : status[t] \notin Gone
               /\ \A t \in Ticket : /\ status'[t] = IF t \in S THEN "MERGED" ELSE status[t]
                                   /\ mergedInto'[t] = IF t \in S THEN p ELSE mergedInto[t]
         \/ \E S \in SUBSET Ticket :
               \A t \in Ticket : /\ status'[t] = IF t \in S THEN "PURGED" ELSE status[t]
                                /\ mergedInto'[t] = IF t \in S \/ mergedInto[t] \in S
                                                   THEN None ELSE mergedInto[t]
<1>t. TypeOK /\ DistinctPrimary
  BY DEF Inv1
<1>1. CASE MergeCommit(r)
  <2>1. /\ req[r].primary \in Ticket /\ req[r].sources \in SUBSET Ticket
        /\ req[r].primary \notin req[r].sources
    BY <1>1, <1>t, RequestKinds DEF MergeCommit, Merging, DistinctPrimary
  <2>2. /\ \A t \in req[r].sources \cup {req[r].primary} : status[t] \notin Gone
        /\ \A t \in Ticket :
             /\ status'[t] = IF t \in req[r].sources THEN "MERGED" ELSE status[t]
             /\ mergedInto'[t] = IF t \in req[r].sources THEN req[r].primary ELSE mergedInto[t]
    BY <1>1 DEF MergeCommit, Exists
  <2>3. QED
    BY <2>1, <2>2
<1>2. CASE PurgeCommit(r)
  <2>1. req[r].tickets \in SUBSET Ticket
    BY <1>2, <1>t, RequestKinds DEF PurgeCommit, Purging
  <2>2. \A t \in Ticket :
           /\ status'[t] = IF t \in req[r].tickets THEN "PURGED" ELSE status[t]
           /\ mergedInto'[t] = IF t \in req[r].tickets \/ mergedInto[t] \in req[r].tickets
                              THEN None ELSE mergedInto[t]
    BY <1>2 DEF PurgeCommit
  <2>3. QED
    BY <2>1, <2>2
<1>3. QED
  BY <1>1, <1>2

\* A pointer is written with the row it names there, and cleared when that row goes.
LEMMA PointersStandStep == Inv1 /\ [Next]_vars => PointersStand'
<1> USE NoneAssumption, SlotAssumption, MsgAssumption
<1> SUFFICES ASSUME Inv1, [Next]_vars PROVE PointersStand'
  OBVIOUS
<1>t. TypeOK /\ PointersStand
  BY DEF Inv1
<1>1. CASE \A r \in Request : ~MergeCommit(r) /\ ~PurgeCommit(r)
  <2>1. UNCHANGED mergedInto /\ (UNCHANGED status \/ StatusWrite)
    BY <1>1, StatusWrites
  <2>2. \A t \in Ticket : status[t] \notin Gone => status'[t] \notin Gone
    BY <2>1, <1>t DEF StatusWrite, TypeOK, Gone
  <2>3. QED
    BY <2>1, <2>2, <1>t DEF PointersStand, Exists, TypeOK, Maybe
<1>2. CASE \E r \in Request : MergeCommit(r) \/ PurgeCommit(r)
  BY <1>2, <1>t, PointerWrites DEF PointersStand, Exists, TypeOK, Maybe, Gone
<1>3. QED
  BY <1>1, <1>2

\* A step that starts no writer and stores no message being written preserves
\* ExclusiveWriters.
LEMMA FewerWriters ==
  ASSUME ExclusiveWriters,
         \A m \in Message, r \in Request : Writing(r, m)' =>
            Writing(r, m) /\ (home[m] = None => home'[m] = None)
  PROVE  ExclusiveWriters'
  BY DEF ExclusiveWriters

\* A step that starts one writer of a message nobody writes preserves it too.
LEMMA OneMoreWriter ==
  ASSUME ExclusiveWriters, UNCHANGED home,
         NEW w \in Request, NEW x \in Message, home[x] = None, ~InProgress(x),
         \A m \in Message, r \in Request : Writing(r, m)' => Writing(r, m) \/ (r = w /\ m = x)
  PROVE  ExclusiveWriters'
  BY DEF ExclusiveWriters, InProgress

LEMMA ExclusiveWritersStep == Inv1 /\ [Next]_vars => ExclusiveWriters'
<1> USE NoneAssumption, MsgAssumption
<1> SUFFICES ASSUME Inv1, [Next]_vars PROVE ExclusiveWriters'
  OBVIOUS
<1>t. TypeOK /\ ExclusiveWriters
  BY DEF Inv1
<1>1. CASE UNCHANGED <<home, req>>
  BY <1>1, <1>t, FewerWriters DEF Writing
<1>2. ASSUME NEW r \in Request, NEW e \in Email, NEW t \in Ticket, InboundMatch(r, e, t)
      PROVE  ExclusiveWriters'
  <2>1. \A m \in Message, s \in Request : Writing(s, m)' => Writing(s, m) \/ (s = r /\ m = e)
    BY <1>2, <1>t DEF InboundMatch, Writing, TypeOK
  <2>2. QED
    BY <1>2, <1>t, <2>1, OneMoreWriter DEF InboundMatch, Message, db
<1>3. ASSUME NEW r \in Request, NEW m \in Reply, NEW t \in Ticket, ReplyStart(r, m, t)
      PROVE  ExclusiveWriters'
  <2>1. \A n \in Message, s \in Request : Writing(s, n)' => Writing(s, n) \/ (s = r /\ n = m)
    BY <1>3, <1>t DEF ReplyStart, Writing, TypeOK
  <2>2. QED
    BY <1>3, <1>t, <2>1, OneMoreWriter DEF ReplyStart, Message, db
<1>4. ASSUME NEW r \in Request, NEW e \in Email, NEW t \in Ticket, InboundNew(r, e, t)
      PROVE  ExclusiveWriters'
  <2>1. \A m \in Message, s \in Request : Writing(s, m)' => Writing(s, m) /\ m # e
    BY <1>4, <1>t DEF InboundNew, Writing, InProgress, TypeOK
  <2>2. QED
    BY <1>4, <1>t, <2>1, FewerWriters DEF InboundNew, TypeOK, Message
<1>5. ASSUME NEW r \in Request, InboundCommit(r) \/ ReplyRecord(r) PROVE ExclusiveWriters'
  <2> DEFINE x == IF req[r].op = "matched" THEN req[r].email ELSE req[r].reply
  <2>1. x \in Message /\ Writing(r, x)
    BY <1>5, <1>t, RequestKinds
       DEF InboundCommit, ReplyRecord, Matched, Replying, Message, Writing
  <2>2. \A m \in Message \ {x} : home'[m] = home[m]
    BY <1>5, <1>t, <2>1 DEF InboundCommit, ReplyRecord, TypeOK
  <2>a. req'[r].op \notin {"matched", "sending"} /\ \A s \in Request \ {r} : req'[s] = req[s]
    <3>1. CASE InboundCommit(r)
      BY <1>t, <3>1 DEF InboundCommit, TypeOK
    <3>2. CASE ReplyRecord(r)
      BY <1>t, <3>2, OpUpdate DEF ReplyRecord, TypeOK
    <3>3. QED
      BY <1>5, <3>1, <3>2
  <2>3. \A m \in Message, s \in Request : Writing(s, m)' => Writing(s, m) /\ s # r
    BY <2>a DEF Writing
  <2>4. \A m \in Message, s \in Request : Writing(s, m)' => m # x
    BY <1>t, <2>1, <2>3 DEF ExclusiveWriters
  <2> HIDE DEF x
  <2>5. QED
    BY <1>t, <2>2, <2>3, <2>4, FewerWriters
<1>6. ASSUME NEW r \in Request, MergeCommit(r) PROVE ExclusiveWriters'
  <2>1. req[r].sources \subseteq Ticket
    BY <1>6, <1>t, RequestKinds DEF MergeCommit, Merging
  <2>2. \A m \in Message : home[m] = None => home'[m] = None
    BY <1>6, <2>1 DEF MergeCommit
  <2>3. \A m \in Message, s \in Request : Writing(s, m)' => Writing(s, m)
    BY <1>6, <1>t DEF MergeCommit, Writing, TypeOK, Idle
  <2>4. QED
    BY <1>t, <2>2, <2>3, FewerWriters
<1>12. ASSUME NEW r \in Request, PurgeCommit(r) PROVE ExclusiveWriters'
  <2>2. \A m \in Message : home[m] = None => home'[m] = None
    BY <1>12 DEF PurgeCommit
  <2>3. \A m \in Message, s \in Request : Writing(s, m)' => Writing(s, m)
    BY <1>12, <1>t DEF PurgeCommit, Writing, TypeOK, Idle
  <2>4. QED
    BY <1>t, <2>2, <2>3, FewerWriters
<1>7. ASSUME NEW r \in Request, UNCHANGED home,
             req'[r].op \notin {"matched", "sending"},
             \A s \in Request \ {r} : req'[s] = req[s]
      PROVE  ExclusiveWriters'
  BY <1>7, <1>t, FewerWriters DEF Writing
<1>8. ASSUME NEW r \in Request, InboundRules(r) \/ StoreFile(r) \/ ReplyStamp(r)
                                \/ ReplySettle(r) \/ Abort(r)
      PROVE  ExclusiveWriters'
  <2>1. /\ UNCHANGED home
        /\ req'[r].op \notin {"matched", "sending"}
        /\ \A s \in Request \ {r} : req'[s] = req[s]
    <3>1. CASE InboundRules(r)
      BY <1>t, <3>1, OpUpdate DEF InboundRules, TypeOK
    <3>2. CASE StoreFile(r) \/ ReplySettle(r) \/ Abort(r)
      BY <1>t, <3>2 DEF StoreFile, ReplySettle, Abort, TypeOK, Idle, db
    <3>3. CASE ReplyStamp(r)
      BY <1>t, <3>3, OpUpdate DEF ReplyStamp, TypeOK
    <3>4. QED
      BY <1>8, <3>1, <3>2, <3>3
  <2>2. QED
    BY <1>7, <2>1
<1>9. CASE \/ \E r \in Request, e \in Email : Refetch(r, e)
           \/ \E r \in Request, p \in Ticket, S \in SUBSET Ticket : MergeStart(r, p, S)
           \/ \E r \in Request, S \in SUBSET Ticket : PurgeFind(r, S)
  BY <1>7, <1>9, <1>t DEF Refetch, MergeStart, PurgeFind, TypeOK, db
<1>10. CASE \/ \E t \in Ticket : Create(t) \/ SoftDelete(t) \/ Restore(t)
            \/ \E t \in Ticket, s \in {"OPEN", "DONE"} : SetStatus(t, s)
            \/ UNCHANGED vars
  BY <1>1, <1>10 DEF Create, SoftDelete, Restore, SetStatus, vars, db
<1>11. QED
  BY <1>2, <1>3, <1>4, <1>5, <1>6, <1>8, <1>9, <1>10, <1>12 DEF Next, Begin, Resume

LEMMA DistinctPrimaryStep == Inv1 /\ [Next]_vars => DistinctPrimary'
<1> SUFFICES ASSUME Inv1, [Next]_vars PROVE DistinctPrimary'
  OBVIOUS
<1>t. TypeOK /\ DistinctPrimary
  BY DEF Inv1
<1>1. ASSUME NEW r \in Request,
             req'[r].op = "merging" => req'[r].primary \notin req'[r].sources,
             \A s \in Request \ {r} : req'[s] = req[s]
      PROVE  DistinctPrimary'
  BY <1>1, <1>t DEF DistinctPrimary
<1>2. CASE UNCHANGED req
  BY <1>2, <1>t DEF DistinctPrimary
<1>3. CASE Begin
  <2>1. ASSUME NEW r \in Request, NEW e \in Email, NEW t \in Ticket,
               InboundMatch(r, e, t) \/ InboundNew(r, e, t)
        PROVE  DistinctPrimary'
    BY <1>1, <1>t, <2>1 DEF InboundMatch, InboundNew, TypeOK
  <2>2. ASSUME NEW r \in Request, NEW e \in Email, Refetch(r, e) PROVE DistinctPrimary'
    BY <1>1, <1>t, <2>2 DEF Refetch, TypeOK
  <2>3. ASSUME NEW r \in Request, NEW m \in Reply, NEW t \in Ticket, ReplyStart(r, m, t)
        PROVE  DistinctPrimary'
    BY <1>1, <1>t, <2>3 DEF ReplyStart, TypeOK
  <2>4. ASSUME NEW r \in Request, NEW p \in Ticket, NEW S \in SUBSET Ticket,
               MergeStart(r, p, S)
        PROVE  DistinctPrimary'
    BY <1>1, <1>t, <2>4 DEF MergeStart, TypeOK
  <2>7. ASSUME NEW r \in Request, NEW S \in SUBSET Ticket, PurgeFind(r, S) PROVE DistinctPrimary'
    BY <1>1, <1>t, <2>7 DEF PurgeFind, TypeOK
  <2>5. CASE \/ \E t \in Ticket : Create(t) \/ SoftDelete(t) \/ Restore(t)
             \/ \E t \in Ticket, s \in {"OPEN", "DONE"} : SetStatus(t, s)
    BY <1>2, <2>5 DEF Create, SoftDelete, Restore, SetStatus
  <2>6. QED
    BY <1>3, <2>1, <2>2, <2>3, <2>4, <2>5, <2>7 DEF Begin
<1>4. CASE Resume
  <2>1. PICK r \in Request : \/ InboundCommit(r) \/ InboundRules(r) \/ StoreFile(r)
                             \/ ReplyRecord(r) \/ ReplyStamp(r) \/ ReplySettle(r)
                             \/ MergeCommit(r) \/ PurgeCommit(r) \/ Abort(r)
    BY <1>4 DEF Resume
  <2>2. CASE InboundRules(r) \/ ReplyRecord(r) \/ ReplyStamp(r)
    <3>1. CASE InboundRules(r)
      BY <1>1, <1>t, <3>1, OpUpdate DEF InboundRules, TypeOK
    <3>2. CASE ReplyRecord(r)
      BY <1>1, <1>t, <3>2, OpUpdate DEF ReplyRecord, TypeOK
    <3>3. CASE ReplyStamp(r)
      BY <1>1, <1>t, <3>3, OpUpdate DEF ReplyStamp, TypeOK
    <3>4. QED
      BY <2>2, <3>1, <3>2, <3>3
  <2>3. CASE InboundCommit(r) \/ StoreFile(r) \/ ReplySettle(r) \/ MergeCommit(r) \/ PurgeCommit(r)
             \/ Abort(r)
    BY <1>1, <1>t, <2>3 DEF InboundCommit, StoreFile, ReplySettle, MergeCommit, PurgeCommit, Abort,
       TypeOK, Idle
  <2>4. QED
    BY <2>1, <2>2, <2>3
<1>5. CASE UNCHANGED vars
  BY <1>2, <1>5 DEF vars
<1>6. QED
  BY <1>3, <1>4, <1>5 DEF Next

LEMMA Inv1Step == Inv1 /\ [Next]_vars => Inv1'
  BY TypeStep, PointersStandStep, ExclusiveWritersStep, DistinctPrimaryStep DEF Inv1

LEMMA Inv1Always == Spec => []Inv1
  BY Inv1Init, Inv1Step, PTL DEF Spec

\* A ticket enters MERGED with a pointer to another ticket, and loses it only by the
\* purge of that ticket.
THEOREM MergedAlwaysPoints == Spec => MergedPoints
<1> USE NoneAssumption, SlotAssumption, MsgAssumption
<1> DEFINE Points == \A t \in Ticket : status'[t] = "MERGED" =>
                       \/ mergedInto'[t] \notin {None, t} /\ status'[mergedInto'[t]] \notin Gone
                       \/ Orphaned(t)
                       \/ status[t] = "MERGED" /\ mergedInto[t] = None
<1>1. Inv1 /\ [Next]_vars => Points
  <2> SUFFICES ASSUME Inv1, [Next]_vars, NEW t \in Ticket, status'[t] = "MERGED",
                      ~Orphaned(t), ~(status[t] = "MERGED" /\ mergedInto[t] = None)
               PROVE  mergedInto'[t] \notin {None, t} /\ status'[mergedInto'[t]] \notin Gone
    OBVIOUS
  <2>t. TypeOK /\ PointersStand /\ PointersStand'
    BY PointersStandStep DEF Inv1
  <2>1. mergedInto'[t] # None
    <3>1. CASE \A r \in Request : ~MergeCommit(r) /\ ~PurgeCommit(r)
      <4>1. UNCHANGED mergedInto /\ (UNCHANGED status \/ StatusWrite)
        BY <3>1, StatusWrites
      <4>2. status[t] = "MERGED"
        BY <4>1, <2>t DEF StatusWrite, TypeOK
      <4>3. QED
        BY <4>1, <4>2
    <3>2. CASE \E r \in Request : MergeCommit(r) \/ PurgeCommit(r)
      BY <3>2, <2>t, PointerWrites DEF Orphaned, TypeOK, Maybe
    <3>3. QED
      BY <3>1, <3>2
  <2>2. QED
    BY <2>1, <2>t DEF PointersStand, Exists
<1>2. Inv1 /\ [Next]_vars => [Points]_vars
  BY <1>1
<1>3. QED
  BY <1>2, Inv1Always, PTL DEF Spec, MergedPoints

\* Besides the transactions of a merge and a purge, every write of home stores a message
\* that had no row yet.
LEMMA HomeWrites ==
  ASSUME Inv1, [Next]_vars, \A r \in Request : ~MergeCommit(r) /\ ~PurgeCommit(r)
  PROVE  /\ \A m \in Message : home[m] # None => UNCHANGED <<home[m], origin[m]>>
         /\ UNCHANGED mergedInto
<1> USE NoneAssumption, MsgAssumption DEF db
<1>t. TypeOK /\ ExclusiveWriters
  BY DEF Inv1
<1>1. ASSUME NEW r \in Request, InboundCommit(r)
      PROVE  /\ \A m \in Message : home[m] # None => UNCHANGED <<home[m], origin[m]>>
             /\ UNCHANGED mergedInto
  <2>1. req[r].email \in Message /\ Writing(r, req[r].email)
    BY <1>1, <1>t, RequestKinds DEF InboundCommit, Matched, Message, Writing
  <2>2. home[req[r].email] = None
    BY <1>t, <2>1 DEF ExclusiveWriters
  <2>3. QED
    BY <1>1, <1>t, <2>1, <2>2 DEF InboundCommit, TypeOK
<1>2. ASSUME NEW r \in Request, ReplyRecord(r)
      PROVE  /\ \A m \in Message : home[m] # None => UNCHANGED <<home[m], origin[m]>>
             /\ UNCHANGED mergedInto
  <2>1. req[r].reply \in Message /\ Writing(r, req[r].reply)
    BY <1>2, <1>t, RequestKinds DEF ReplyRecord, Replying, Message, Writing
  <2>2. home[req[r].reply] = None
    BY <1>t, <2>1 DEF ExclusiveWriters
  <2>3. QED
    BY <1>2, <1>t, <2>1, <2>2 DEF ReplyRecord, TypeOK
<1>3. ASSUME NEW r \in Request, NEW e \in Email, NEW t \in Ticket, InboundNew(r, e, t)
      PROVE  /\ \A m \in Message : home[m] # None => UNCHANGED <<home[m], origin[m]>>
             /\ UNCHANGED mergedInto
  BY <1>3, <1>t DEF InboundNew, TypeOK
<1>4. CASE UNCHANGED <<home, origin, mergedInto>>
  BY <1>4
<1>5. CASE Begin
  BY <1>3, <1>4, <1>5 DEF Begin, Create, SetStatus, SoftDelete, Restore, InboundMatch,
     Refetch, ReplyStart, MergeStart, PurgeFind
<1>6. CASE Resume
  BY <1>1, <1>2, <1>4, <1>6 DEF Resume, InboundRules, StoreFile, ReplyStamp, ReplySettle, Abort
<1>7. CASE UNCHANGED vars
  BY <1>4, <1>7 DEF vars
<1>8. QED
  BY <1>5, <1>6, <1>7 DEF Next

\* Messages move only along merge pointers, and are lost only with their ticket.
THEOREM MessagesFollowPointers == Spec => MovesFollowPointers
<1> USE NoneAssumption, MsgAssumption
<1> DEFINE Moves == \A m \in Message : home[m] # None /\ home'[m] # home[m] =>
                      \/ /\ home'[m] = mergedInto'[home[m]] /\ home'[m] # None
                         /\ origin'[m] = home[m]
                      \/ home'[m] = None /\ status'[home[m]] = "PURGED"
<1>1. Inv1 /\ [Next]_vars => Moves
  <2> SUFFICES ASSUME Inv1, [Next]_vars PROVE Moves
    OBVIOUS
  <2>1. ASSUME NEW r \in Request, MergeCommit(r) PROVE Moves
    <3>1. req[r].primary \in Ticket /\ req[r].sources \subseteq Ticket
      BY <2>1, RequestKinds DEF Inv1, MergeCommit, Merging
    <3>2. QED
      BY <2>1, <3>1 DEF MergeCommit
  <2>2. ASSUME NEW r \in Request, PurgeCommit(r) PROVE Moves
    <3>1. req[r].tickets \subseteq Ticket
      BY <2>2, RequestKinds DEF Inv1, PurgeCommit, Purging
    <3>2. QED
      BY <2>2, <3>1 DEF PurgeCommit
  <2>3. CASE \A r \in Request : ~MergeCommit(r) /\ ~PurgeCommit(r)
    BY <2>3, HomeWrites
  <2>4. QED
    BY <2>1, <2>2, <2>3
<1>2. Inv1 /\ [Next]_vars => [Moves]_vars
  BY <1>1
<1>3. QED
  BY <1>2, Inv1Always, PTL DEF Spec, MovesFollowPointers

(***************************************************************************)
(* What holds when merges do not overlap each other (anything else may).   *)
(***************************************************************************)

\* At most one slot is open to merges.
SingleMerge == \A r, s \in MergeSlot : r = s

Inv2 == Inv1 /\ OriginStored /\ OriginPointsHome /\ MatchedOrigin /\ MergingFresh

LEMMA Inv2Init == Init => Inv2
<1> SUFFICES ASSUME Init PROVE Inv2
  OBVIOUS
<1>1. OriginStored /\ OriginPointsHome /\ MatchedOrigin /\ MergingFresh
  BY DEF Init, OriginStored, OriginPointsHome, MatchedOrigin, MergingFresh, Idle, Message
<1>2. QED
  BY <1>1, Inv1Init DEF Inv2

\* The merge transaction: its sources had no pointer, so no origin names them, and
\* no other merge is waiting.
LEMMA Inv2Merge ==
  ASSUME SingleMerge, Inv2, NEW r \in Request, MergeCommit(r)
  PROVE  OriginStored' /\ OriginPointsHome' /\ MatchedOrigin' /\ MergingFresh'
<1> USE NoneAssumption, SlotAssumption, MsgAssumption
<1> DEFINE p == req[r].primary
           S == req[r].sources
<1>t. TypeOK /\ OriginStored /\ OriginPointsHome /\ MatchedOrigin /\ MergingFresh
  BY DEF Inv2, Inv1
<1>1. p \in Ticket /\ S \subseteq Ticket /\ r \in MergeSlot /\ \A t \in S : mergedInto[t] = None
  BY <1>t, RequestKinds DEF MergeCommit, Merging, MergingFresh
<1>2. /\ \A m \in Message : home'[m] = IF home[m] \in S THEN p ELSE home[m]
      /\ \A m \in Message : origin'[m] = IF home[m] \in S THEN home[m] ELSE origin[m]
      /\ \A t \in Ticket : mergedInto'[t] = IF t \in S THEN p ELSE mergedInto[t]
      /\ \A s \in Request \ {r} : req'[s] = req[s]
      /\ req'[r] = Idle
      /\ \A t \in Ticket : status'[t] = IF t \in S THEN "MERGED" ELSE status[t]
      /\ \A t \in S : status[t] # "PURGED"
  BY <1>t DEF MergeCommit, TypeOK, Exists, Gone
<1>3. \A m \in Message : origin[m] # None => origin[m] \in Ticket \ S
  BY <1>t, <1>1 DEF TypeOK, Maybe, OriginStored, OriginPointsHome
<1> HIDE DEF p, S
<1>4. OriginStored'
  BY <1>t, <1>1, <1>2 DEF OriginStored
<1>5. OriginPointsHome'
  BY <1>t, <1>1, <1>2, <1>3 DEF OriginPointsHome
<1>6. MatchedOrigin'
  <2> SUFFICES ASSUME NEW s \in Request, req'[s].op = "matched", req'[s].origin # None
               PROVE  \/ mergedInto'[req'[s].origin] = req'[s].target
                      \/ "PURGED" \in {status'[req'[s].origin], status'[req'[s].target]}
    BY DEF MatchedOrigin
  <2>1. s # r /\ req'[s] = req[s]
    BY <1>2 DEF Idle
  <2>2. req[s].origin \in Ticket /\ req[s].target \in Ticket
    BY <1>t, <2>1, RequestKinds DEF Matched, Maybe
  <2>3. \/ mergedInto[req[s].origin] = req[s].target
        \/ "PURGED" \in {status[req[s].origin], status[req[s].target]}
    BY <1>t, <2>1 DEF MatchedOrigin
  <2>4. QED
    BY <1>1, <1>2, <2>1, <2>2, <2>3
<1>7. MergingFresh'
  <2> SUFFICES ASSUME NEW s \in Request, req'[s].op = "merging" PROVE FALSE
    BY DEF MergingFresh
  <2>1. s # r /\ req'[s] = req[s]
    BY <1>2 DEF Idle
  <2>2. s \in MergeSlot
    BY <1>t, <2>1 DEF MergingFresh
  <2>3. QED
    BY <1>1, <2>1, <2>2 DEF SingleMerge
<1>8. QED
  BY <1>4, <1>5, <1>6, <1>7

\* The purge: messages on what it removes go with it, the origins that named a removed
\* ticket are cleared, and the pointers to it too.
LEMMA Inv2Purge ==
  ASSUME Inv2, NEW r \in Request, PurgeCommit(r)
  PROVE  OriginStored' /\ OriginPointsHome' /\ MatchedOrigin' /\ MergingFresh'
<1> USE NoneAssumption, SlotAssumption, MsgAssumption
<1> DEFINE S == req[r].tickets
<1>t. TypeOK /\ OriginStored /\ OriginPointsHome /\ MatchedOrigin /\ MergingFresh
  BY DEF Inv2, Inv1
<1>1. S \subseteq Ticket
  BY <1>t, RequestKinds DEF PurgeCommit, Purging
<1>2. /\ \A m \in Message : home'[m] = IF home[m] \in S THEN None ELSE home[m]
      /\ \A m \in Message :
            origin'[m] = IF home[m] \in S \/ origin[m] \in S THEN None ELSE origin[m]
      /\ \A t \in Ticket :
            mergedInto'[t] = IF t \in S \/ mergedInto[t] \in S THEN None ELSE mergedInto[t]
      /\ \A t \in Ticket : status'[t] = IF t \in S THEN "PURGED" ELSE status[t]
      /\ \A s \in Request \ {r} : req'[s] = req[s]
      /\ req'[r] = Idle
  BY <1>t DEF PurgeCommit, TypeOK
<1> HIDE DEF S
<1>4. OriginStored'
  BY <1>t, <1>1, <1>2 DEF OriginStored
<1>5. OriginPointsHome'
  <2> SUFFICES ASSUME NEW m \in Message, origin'[m] # None
               PROVE  mergedInto'[origin'[m]] = home'[m]
    BY DEF OriginPointsHome
  <2>1. /\ origin'[m] = origin[m] /\ home[m] \notin S /\ origin[m] \notin S
        /\ home'[m] = home[m] /\ origin[m] \in Ticket
    BY <1>2, <1>t DEF TypeOK, Maybe
  <2>2. QED
    BY <1>2, <1>t, <2>1 DEF OriginPointsHome
<1>6. MatchedOrigin'
  <2> SUFFICES ASSUME NEW s \in Request, req'[s].op = "matched", req'[s].origin # None
               PROVE  \/ mergedInto'[req'[s].origin] = req'[s].target
                      \/ "PURGED" \in {status'[req'[s].origin], status'[req'[s].target]}
    BY DEF MatchedOrigin
  <2>1. s # r /\ req'[s] = req[s]
    BY <1>2 DEF Idle
  <2>2. req[s].origin \in Ticket /\ req[s].target \in Ticket
    BY <1>t, <2>1, RequestKinds DEF Matched, Maybe
  <2>3. \/ mergedInto[req[s].origin] = req[s].target
        \/ "PURGED" \in {status[req[s].origin], status[req[s].target]}
    BY <1>t, <2>1 DEF MatchedOrigin
  <2>4. QED
    BY <1>1, <1>2, <2>1, <2>2, <2>3
<1>7. MergingFresh'
  <2> SUFFICES ASSUME NEW s \in Request, req'[s].op = "merging"
               PROVE  s \in MergeSlot /\ \A t \in req'[s].sources : mergedInto'[t] = None
    BY DEF MergingFresh
  <2>1. s # r /\ req'[s] = req[s]
    BY <1>2 DEF Idle
  <2>2. req[s].sources \subseteq Ticket
    BY <1>t, <2>1, RequestKinds DEF Merging
  <2>3. QED
    BY <1>t, <1>2, <2>1, <2>2 DEF MergingFresh
<1>8. QED
  BY <1>4, <1>5, <1>6, <1>7

\* A step that is no merge or purge transaction: messages stored get the origin their request
\* matched, and requests that start are right when they do.
LEMMA Inv2Other ==
  ASSUME Inv2, [Next]_vars, \A r \in Request : ~MergeCommit(r) /\ ~PurgeCommit(r)
  PROVE  OriginStored' /\ OriginPointsHome' /\ MatchedOrigin' /\ MergingFresh'
<1> USE NoneAssumption, SlotAssumption, MsgAssumption DEF db
<1>t. /\ TypeOK /\ ExclusiveWriters /\ UNCHANGED mergedInto
      /\ OriginStored /\ OriginPointsHome /\ MatchedOrigin /\ MergingFresh
  BY HomeWrites DEF Inv2, Inv1
<1>p. \A t \in Ticket : status[t] = "PURGED" => status'[t] = "PURGED"
  BY <1>t, StatusWrites DEF Inv2, StatusWrite, TypeOK
<1>m. ASSUME NEW s \in Request, req[s].op = "matched", req[s].origin # None
      PROVE  \/ mergedInto[req[s].origin] = req[s].target
             \/ "PURGED" \in {status'[req[s].origin], status'[req[s].target]}
  <2>1. req[s].origin \in Ticket /\ req[s].target \in Ticket
    BY <1>t, <1>m, RequestKinds DEF Matched, Maybe
  <2>2. QED
    BY <1>t, <1>m, <1>p, <2>1 DEF MatchedOrigin
<1>1. ASSUME UNCHANGED origin, \A m \in Message : home[m] # None => home'[m] = home[m]
      PROVE  OriginStored' /\ OriginPointsHome'
  BY <1>1, <1>t DEF OriginStored, OriginPointsHome
<1>2. ASSUME NEW r \in Request,
             \A s \in Request \ {r} : req'[s] = req[s],
             req'[r].op \notin {"matched", "merging"}
      PROVE  MatchedOrigin' /\ MergingFresh'
  BY <1>2, <1>t, <1>m DEF MatchedOrigin, MergingFresh
<1>3. CASE UNCHANGED <<home, origin, req>>
  BY <1>3, <1>t, <1>m DEF OriginStored, OriginPointsHome, MatchedOrigin, MergingFresh
<1>4. \A m \in Message : home[m] # None => home'[m] = home[m]
  BY HomeWrites DEF Inv2
<1>5. ASSUME NEW r \in Request, NEW e \in Email, NEW t \in Ticket, InboundMatch(r, e, t)
      PROVE  OriginStored' /\ OriginPointsHome' /\ MatchedOrigin' /\ MergingFresh'
  <2>1. OriginStored' /\ OriginPointsHome'
    BY <1>1, <1>4, <1>5 DEF InboundMatch
  <2>2. /\ req'[r].op = "matched"
        /\ req'[r].origin # None => mergedInto[req'[r].origin] = req'[r].target
        /\ \A s \in Request \ {r} : req'[s] = req[s]
    BY <1>5, <1>t DEF InboundMatch, InboundTarget, TypeOK
  <2>3. QED
    BY <1>t, <1>m, <2>1, <2>2 DEF MatchedOrigin, MergingFresh
<1>6. ASSUME NEW r \in Request, NEW p \in Ticket, NEW S \in SUBSET Ticket, MergeStart(r, p, S)
      PROVE  OriginStored' /\ OriginPointsHome' /\ MatchedOrigin' /\ MergingFresh'
  <2>1. OriginStored' /\ OriginPointsHome'
    BY <1>1, <1>4, <1>6 DEF MergeStart
  <2>2. /\ req'[r].op = "merging" /\ req'[r].sources = S
        /\ r \in MergeSlot /\ \A t \in S : mergedInto[t] = None
        /\ \A s \in Request \ {r} : req'[s] = req[s]
    BY <1>6, <1>t DEF MergeStart, Mergeable, TypeOK
  <2>3. QED
    BY <1>t, <1>m, <2>1, <2>2 DEF MatchedOrigin, MergingFresh
<1>7. ASSUME NEW r \in Request, InboundCommit(r)
      PROVE  OriginStored' /\ OriginPointsHome' /\ MatchedOrigin' /\ MergingFresh'
  <2> DEFINE e == req[r].email
  <2>1. /\ e \in Message /\ req[r].target \in Ticket
        /\ req[r].origin # None => mergedInto[req[r].origin] = req[r].target
    <3>1. req[r] \in Matched
      BY <1>7, <1>t, RequestKinds DEF InboundCommit
    <3>2. req[r].origin # None => status[req[r].origin] # "PURGED" /\ status[req[r].target] # "PURGED"
      BY <1>7 DEF InboundCommit, Exists, Gone
    <3>3. QED
      BY <1>7, <1>t, <3>1, <3>2 DEF InboundCommit, Matched, Message, MatchedOrigin
  <2>2. /\ home' = [home EXCEPT ![e] = req[r].target]
        /\ origin' = [origin EXCEPT ![e] = req[r].origin]
        /\ \A s \in Request \ {r} : req'[s] = req[s]
        /\ req'[r].op = "imported"
    BY <1>7, <1>t DEF InboundCommit, TypeOK
  <2> HIDE DEF e
  <2>3. OriginStored' /\ OriginPointsHome'
    BY <1>t, <2>1, <2>2 DEF OriginStored, OriginPointsHome, TypeOK
  <2>4. QED
    BY <1>2, <2>2, <2>3
<1>8. ASSUME NEW r \in Request, UNCHANGED origin,
             \A s \in Request \ {r} : req'[s] = req[s],
             req'[r].op \notin {"matched", "merging"}
      PROVE  OriginStored' /\ OriginPointsHome' /\ MatchedOrigin' /\ MergingFresh'
  BY <1>1, <1>2, <1>4, <1>8
<1>9. ASSUME NEW r \in Request, InboundRules(r) \/ ReplyRecord(r) \/ ReplyStamp(r)
      PROVE  OriginStored' /\ OriginPointsHome' /\ MatchedOrigin' /\ MergingFresh'
  <2>1. CASE InboundRules(r)
    BY <1>8, <1>t, <2>1, OpUpdate DEF InboundRules, TypeOK
  <2>2. CASE ReplyRecord(r)
    BY <1>8, <1>t, <2>2, OpUpdate DEF ReplyRecord, TypeOK
  <2>3. CASE ReplyStamp(r)
    BY <1>8, <1>t, <2>3, OpUpdate DEF ReplyStamp, TypeOK
  <2>4. QED
    BY <1>9, <2>1, <2>2, <2>3
<1>10. ASSUME NEW r \in Request, StoreFile(r) \/ ReplySettle(r) \/ Abort(r)
       PROVE  OriginStored' /\ OriginPointsHome' /\ MatchedOrigin' /\ MergingFresh'
  BY <1>8, <1>10, <1>t DEF StoreFile, ReplySettle, Abort, TypeOK, Idle
<1>11. CASE \/ \E r \in Request, e \in Email, t \in Ticket : InboundNew(r, e, t)
            \/ \E r \in Request, e \in Email : Refetch(r, e)
            \/ \E r \in Request, m \in Reply, t \in Ticket : ReplyStart(r, m, t)
            \/ \E r \in Request, S \in SUBSET Ticket : PurgeFind(r, S)
  BY <1>8, <1>11, <1>t DEF InboundNew, Refetch, ReplyStart, PurgeFind, TypeOK
<1>12. CASE \/ \E t \in Ticket : Create(t) \/ SoftDelete(t) \/ Restore(t)
            \/ \E t \in Ticket, s \in {"OPEN", "DONE"} : SetStatus(t, s)
            \/ UNCHANGED vars
  BY <1>3, <1>12 DEF Create, SoftDelete, Restore, SetStatus, vars
<1>13. QED
  BY <1>5, <1>6, <1>7, <1>9, <1>10, <1>11, <1>12 DEF Next, Begin, Resume

LEMMA Inv2Always == ASSUME SingleMerge PROVE Spec => []Inv2
<1>1. Inv2 /\ [Next]_vars => Inv2'
  <2> SUFFICES ASSUME Inv2, [Next]_vars PROVE Inv2'
    OBVIOUS
  <2>1. Inv1'
    BY Inv1Step DEF Inv2
  <2>2. OriginStored' /\ OriginPointsHome' /\ MatchedOrigin' /\ MergingFresh'
    BY Inv2Merge, Inv2Purge, Inv2Other, SingleMerge
  <2>3. QED
    BY <2>1, <2>2 DEF Inv2
<1>2. QED
  BY <1>1, Inv2Init, PTL DEF Spec

\* With merges one at a time, a message's origin is merged into the message's ticket.
THEOREM OriginAlwaysPointsHome == ASSUME SingleMerge PROVE Spec => []OriginPointsHome
<1>1. Inv2 => OriginPointsHome
  BY DEF Inv2
<1>2. QED
  BY <1>1, Inv2Always, SingleMerge, PTL

\* With merges one at a time, a merge pointer changes only by a purge: of the ticket it
\* names, or of its own.
THEOREM MergedAtMostOnce == ASSUME SingleMerge PROVE Spec => MergedOnce
<1> USE NoneAssumption
<1> DEFINE Once == \A t \in Ticket : mergedInto[t] # None /\ mergedInto'[t] # mergedInto[t] =>
                      Orphaned(t) \/ status'[t] = "PURGED"
<1>1. Inv2 /\ [Next]_vars => Once
  <2> SUFFICES ASSUME Inv2, [Next]_vars PROVE Once
    OBVIOUS
  <2>1. ASSUME NEW r \in Request, MergeCommit(r) PROVE Once
    BY <2>1 DEF MergeCommit, Inv2, MergingFresh
  <2>2. ASSUME NEW r \in Request, PurgeCommit(r) PROVE Once
    <3>1. req[r].tickets \subseteq Ticket
      BY <2>2, RequestKinds DEF Inv2, Inv1, PurgeCommit, Purging
    <3>2. QED
      BY <2>2, <3>1 DEF PurgeCommit, Orphaned, Inv2, Inv1, TypeOK, Maybe
  <2>3. CASE \A r \in Request : ~MergeCommit(r) /\ ~PurgeCommit(r)
    BY <2>3, HomeWrites DEF Inv2
  <2>4. QED
    BY <2>1, <2>2, <2>3
<1>2. Inv2 /\ [Next]_vars => [Once]_vars
  BY <1>1
<1>3. QED
  BY <1>2, Inv2Always, SingleMerge, PTL DEF Spec, MergedOnce

(***************************************************************************)
(* What holds when requests do not overlap at all: MergeSpec with "alone". *)
(***************************************************************************)

\* One request at most is in progress.
OneInProgress == \A r, s \in Request : req[r] # Idle /\ req[s] # Idle => r = s

\* Only a ticket that exists is deleted.
DeletedExists == \A t \in Ticket : deleted[t] => status[t] # "ABSENT"

\* A sync that stores an attachment knows the ticket of its message.
StoresAtHome ==
    \A r \in Request : req[r].op \in {"imported", "storing"} => home[req[r].email] = req[r].target

\* What a request is about to store a message on is as it was found.
TargetOpen ==
    \A r \in Request :
       /\ req[r].op \in {"matched", "sending"} => ~deleted[req[r].target]
       /\ req[r].op = "sending" => status[req[r].target] # "MERGED"

Serial == OneInProgress /\ FileWithMessage /\ DeletedExists /\ StoresAtHome /\ TargetOpen

Inv3 == Inv1 /\ alone \in BOOLEAN /\ (alone => Serial)

\* With every other slot idle, what Serial says of requests it says of one.
LEMMA OthersIdle ==
  ASSUME NEW r \in Request, \A s \in Request \ {r} : req'[s] = Idle,
         FileWithMessage', DeletedExists',
         req'[r].op \in {"imported", "storing"} => home'[req'[r].email] = req'[r].target,
         req'[r].op \in {"matched", "sending"} => ~deleted'[req'[r].target],
         req'[r].op = "sending" => status'[req'[r].target] # "MERGED"
  PROVE  Serial'
  BY DEF Serial, OneInProgress, StoresAtHome, TargetOpen, Idle

\* A request begins only when all slots are idle: the others stay so.
LEMMA SerialBegins ==
  ASSUME Inv1, Serial, AllIdle, Begin
  PROVE  Serial'
<1> USE NoneAssumption, MsgAssumption DEF db
<1>t. TypeOK /\ FileWithMessage /\ DeletedExists
  BY DEF Inv1, Serial
<1>1. CASE \/ \E t \in Ticket : Create(t) \/ SoftDelete(t) \/ Restore(t)
           \/ \E t \in Ticket, s \in {"OPEN", "DONE"} : SetStatus(t, s)
  <2>1. UNCHANGED <<home, fileAt, req>>
    BY <1>1 DEF Create, SoftDelete, Restore, SetStatus
  <2>2. FileWithMessage'
    BY <1>t, <2>1 DEF FileWithMessage
  <2>3. DeletedExists'
    BY <1>1, <1>t DEF Create, SoftDelete, Restore, SetStatus, DeletedExists, Visible, TypeOK
  <2> QED
    BY <2>1, <2>2, <2>3 DEF AllIdle, Serial, OneInProgress, StoresAtHome, TargetOpen, Idle
<1>2. ASSUME NEW r \in Request, NEW e \in Email, NEW t \in Ticket, InboundMatch(r, e, t)
      PROVE  Serial'
  <2>1. UNCHANGED <<home, fileAt, status, deleted>>
        /\ req'[r].op = "matched" /\ ~deleted[req'[r].target]
        /\ \A s \in Request \ {r} : req'[s] = Idle
    BY <1>2, <1>t DEF InboundMatch, AllIdle, TypeOK
  <2> QED
    BY <1>t, <2>1, OthersIdle DEF FileWithMessage, DeletedExists
<1>3. ASSUME NEW r \in Request, NEW e \in Email, NEW t \in Ticket, InboundNew(r, e, t)
      PROVE  Serial'
  <2>1. UNCHANGED <<fileAt, deleted>> /\ home[e] = None
        /\ home' = [home EXCEPT ![e] = t] /\ status' = [status EXCEPT ![t] = "OPEN"]
        /\ req'[r] = [op |-> "storing", email |-> e, target |-> t]
        /\ \A s \in Request \ {r} : req'[s] = Idle
    BY <1>3, <1>t DEF InboundNew, AllIdle, TypeOK
  <2>2. FileWithMessage'
    BY <1>t, <2>1 DEF FileWithMessage, TypeOK, Message
  <2>3. DeletedExists'
    BY <1>t, <2>1 DEF DeletedExists, TypeOK
  <2>4. home'[e] = t
    BY <1>t, <2>1 DEF TypeOK, Message
  <2> QED
    BY <2>1, <2>2, <2>3, <2>4, OthersIdle
<1>4. ASSUME NEW r \in Request, NEW e \in Email, Refetch(r, e) PROVE Serial'
  <2>1. UNCHANGED <<home, fileAt, status, deleted>>
        /\ req'[r] = [op |-> "storing", email |-> e, target |-> home[e]]
        /\ \A s \in Request \ {r} : req'[s] = Idle
    BY <1>4, <1>t DEF Refetch, AllIdle, TypeOK
  <2> QED
    BY <1>t, <2>1, OthersIdle DEF FileWithMessage, DeletedExists
<1>5. ASSUME NEW r \in Request, NEW m \in Reply, NEW t \in Ticket, ReplyStart(r, m, t)
      PROVE  Serial'
  <2>1. UNCHANGED <<home, fileAt, status, deleted>>
        /\ req'[r].op = "sending" /\ req'[r].target = t
        /\ ~deleted[t] /\ status[t] # "MERGED"
        /\ \A s \in Request \ {r} : req'[s] = Idle
    BY <1>5, <1>t DEF ReplyStart, Visible, AllIdle, TypeOK
  <2> QED
    BY <1>t, <2>1, OthersIdle DEF FileWithMessage, DeletedExists
<1>6. ASSUME NEW r \in Request, NEW p \in Ticket, NEW S \in SUBSET Ticket, MergeStart(r, p, S)
      PROVE  Serial'
  <2>1. UNCHANGED <<home, fileAt, status, deleted>> /\ req'[r].op = "merging"
        /\ \A s \in Request \ {r} : req'[s] = Idle
    BY <1>6, <1>t DEF MergeStart, AllIdle, TypeOK
  <2> QED
    BY <1>t, <2>1, OthersIdle DEF FileWithMessage, DeletedExists
<1>7. ASSUME NEW r \in Request, NEW S \in SUBSET Ticket, PurgeFind(r, S)
      PROVE  Serial'
  <2>1. UNCHANGED <<home, fileAt, status, deleted>> /\ req'[r].op = "purging"
        /\ \A s \in Request \ {r} : req'[s] = Idle
    BY <1>7, <1>t DEF PurgeFind, AllIdle, TypeOK
  <2> QED
    BY <1>t, <2>1, OthersIdle DEF FileWithMessage, DeletedExists
<1> QED
  BY <1>1, <1>2, <1>3, <1>4, <1>5, <1>6, <1>7 DEF Begin

\* The one request in progress goes on; every other slot stays idle.
LEMMA SerialResumes ==
  ASSUME Inv1, Serial, Resume
  PROVE  Serial'
<1> USE NoneAssumption, MsgAssumption DEF db
<1>t. TypeOK /\ ExclusiveWriters /\ FileWithMessage /\ DeletedExists /\ StoresAtHome /\ TargetOpen
  BY DEF Inv1, Serial
<1>1. PICK r \in Request : \/ InboundCommit(r) \/ InboundRules(r) \/ StoreFile(r)
                           \/ ReplyRecord(r) \/ ReplyStamp(r) \/ ReplySettle(r)
                           \/ MergeCommit(r) \/ PurgeCommit(r) \/ Abort(r)
  BY DEF Resume
<1>2. \A s \in Request \ {r} : req'[s] = Idle
  <2>1. req[r] # Idle
    BY <1>1 DEF InboundCommit, InboundRules, StoreFile, ReplyRecord, ReplyStamp, ReplySettle,
       MergeCommit, PurgeCommit, Abort, Idle
  <2>2. \A s \in Request \ {r} : req[s] = Idle
    BY <2>1 DEF Serial, OneInProgress
  <2> QED
    BY <1>1, <1>t, <2>2 DEF InboundCommit, InboundRules, StoreFile, ReplyRecord, ReplyStamp,
       ReplySettle, MergeCommit, PurgeCommit, Abort, TypeOK
<1>3. \A t \in Ticket : (deleted'[t] => deleted[t]) /\ (status'[t] = "ABSENT" => status[t] = "ABSENT")
  BY <1>1, <1>t DEF InboundCommit, InboundRules, StoreFile, ReplyRecord, ReplyStamp,
     ReplySettle, MergeCommit, PurgeCommit, Abort, RuleOutcome, TypeOK, Exists, Gone
<1>4. DeletedExists'
  BY <1>3, <1>t DEF DeletedExists
<1>5. CASE InboundCommit(r)
  <2>1. req[r].email \in Email /\ req[r].email \in Message /\ Writing(r, req[r].email)
    BY <1>5, <1>t, RequestKinds DEF InboundCommit, Matched, Message, Writing
  <2>2. home[req[r].email] = None
    BY <1>t, <2>1 DEF ExclusiveWriters
  <2>3. home' = [home EXCEPT ![req[r].email] = req[r].target] /\ fileAt' = fileAt
        /\ req'[r] = [op |-> "imported", email |-> req[r].email, target |-> req[r].target]
    BY <1>5, <1>t DEF InboundCommit, TypeOK
  <2>4. FileWithMessage'
    BY <1>t, <2>1, <2>2, <2>3 DEF FileWithMessage, TypeOK, Message
  <2>5. home'[req[r].email] = req[r].target
    BY <1>t, <2>1, <2>3 DEF TypeOK
  <2> QED
    BY <1>2, <1>4, <2>3, <2>4, <2>5, OthersIdle
<1>6. CASE InboundRules(r)
  <2>1. UNCHANGED <<home, fileAt>> /\ req'[r] = [req[r] EXCEPT !.op = "storing"]
    BY <1>6, <1>t DEF InboundRules, TypeOK
  <2>2. req'[r].op = "storing" /\ req'[r].email = req[r].email /\ req'[r].target = req[r].target
    <3>1. req[r] \in Imported
      BY <1>6, <1>t, RequestKinds DEF InboundRules
    <3> QED
      BY <2>1, <3>1 DEF Imported
  <2>3. home[req[r].email] = req[r].target
    BY <1>6, <1>t DEF InboundRules, StoresAtHome
  <2> QED
    BY <1>2, <1>4, <1>t, <2>1, <2>2, <2>3, OthersIdle DEF FileWithMessage
<1>7. CASE StoreFile(r)
  <2>1. req[r].email \in Email /\ home[req[r].email] = req[r].target
    BY <1>7, <1>t, RequestKinds DEF StoreFile, Imported, StoresAtHome
  <2>2. UNCHANGED home /\ req'[r] = Idle
        /\ fileAt' \in {fileAt, [fileAt EXCEPT ![req[r].email] = req[r].target]}
    BY <1>7, <1>t DEF StoreFile, TypeOK
  <2>3. FileWithMessage'
    BY <1>t, <2>1, <2>2 DEF FileWithMessage, TypeOK
  <2> QED
    BY <1>2, <1>4, <2>2, <2>3, OthersIdle DEF Idle
<1>8. CASE ReplyRecord(r)
  <2>1. req[r].reply \in Reply
    BY <1>8, <1>t, RequestKinds DEF ReplyRecord, Replying
  <2>2. fileAt' = fileAt /\ \A e \in Email : home'[e] = home[e]
    BY <1>8, <1>t, <2>1 DEF ReplyRecord, TypeOK, Message
  <2>3. req'[r].op = "recorded"
    BY <1>8, <1>t, OpUpdate DEF ReplyRecord, TypeOK
  <2> QED
    BY <1>2, <1>4, <1>t, <2>2, <2>3, OthersIdle DEF FileWithMessage
<1>9. CASE ReplyStamp(r) \/ ReplySettle(r) \/ Abort(r)
  <2>1. UNCHANGED <<home, fileAt>>
    BY <1>9 DEF ReplyStamp, ReplySettle, Abort
  <2>2. req'[r].op \in {"settling", "idle"}
    <3>1. CASE ReplyStamp(r)
      BY <3>1, <1>t, OpUpdate DEF ReplyStamp, TypeOK
    <3>2. CASE ReplySettle(r) \/ Abort(r)
      BY <3>2, <1>t DEF ReplySettle, Abort, TypeOK, Idle
    <3> QED
      BY <1>9, <3>1, <3>2
  <2> QED
    BY <1>2, <1>4, <1>t, <2>1, <2>2, OthersIdle DEF FileWithMessage
<1>10. CASE MergeCommit(r)
  <2>1. None \notin req[r].sources
    BY <1>10, <1>t, RequestKinds DEF MergeCommit, Merging
  <2>2. req'[r] = Idle
    BY <1>10, <1>t DEF MergeCommit, TypeOK
  <2>3. FileWithMessage'
    BY <1>10, <1>t, <2>1 DEF MergeCommit, FileWithMessage, Message
  <2> QED
    BY <1>2, <1>4, <2>2, <2>3, OthersIdle DEF Idle
<1>11. CASE PurgeCommit(r)
  <2>1. None \notin req[r].tickets
    BY <1>11, <1>t, RequestKinds DEF PurgeCommit, Purging
  <2>2. req'[r] = Idle
    BY <1>11, <1>t DEF PurgeCommit, TypeOK
  <2>3. FileWithMessage'
    BY <1>11, <1>t, <2>1 DEF PurgeCommit, FileWithMessage, Message
  <2> QED
    BY <1>2, <1>4, <2>2, <2>3, OthersIdle DEF Idle
<1> QED
  BY <1>1, <1>5, <1>6, <1>7, <1>8, <1>9, <1>10, <1>11

LEMMA Inv3Step == Inv3 /\ [MergeNext]_<<vars, alone>> => Inv3'
<1> SUFFICES ASSUME Inv3, [MergeNext]_<<vars, alone>> PROVE Inv3'
  OBVIOUS
<1>1. [Next]_vars /\ alone' = alone
  BY DEF MergeNext, Next
<1>2. Inv1' /\ alone' \in BOOLEAN
  BY <1>1, Inv1Step DEF Inv3
<1>3. ASSUME alone PROVE Serial'
  <2>1. CASE AllIdle /\ Begin
    BY <1>3, <2>1, SerialBegins DEF Inv3
  <2>2. CASE Resume
    BY <1>3, <2>2, SerialResumes DEF Inv3
  <2>3. CASE UNCHANGED vars
    BY <1>3, <2>3 DEF Inv3, vars, db, Serial, OneInProgress, FileWithMessage, DeletedExists,
       StoresAtHome, TargetOpen
  <2> QED
    BY <1>3, <2>1, <2>2, <2>3 DEF MergeNext
<1> QED
  BY <1>1, <1>2, <1>3 DEF Inv3

LEMMA Inv3Init == MergeInit => Inv3
<1> SUFFICES ASSUME MergeInit PROVE Inv3
  OBVIOUS
<1>1. Inv1 /\ alone \in BOOLEAN
  BY Inv1Init DEF MergeInit
<1>2. Serial
  BY DEF MergeInit, Init, Serial, OneInProgress, FileWithMessage, DeletedExists, StoresAtHome,
     TargetOpen, Idle, Message
<1> QED
  BY <1>1, <1>2 DEF Inv3

LEMMA Inv3Always == MergeSpec => []Inv3
  BY Inv3Init, Inv3Step, PTL DEF MergeSpec

\* One request after the other: an attachment is on the ticket of its message, so that
\* getDownload finds it.
THEOREM FilesStayWithMessages == MergeSpec => []FileWithMessageAlone
<1>1. Inv3 => FileWithMessageAlone
  BY DEF Inv3, Serial, FileWithMessageAlone
<1> QED
  BY <1>1, Inv3Always, PTL

\* One request after the other: no message is stored on a deleted ticket, no reply on a
\* merged one.
THEOREM MessagesReachOpenTickets == MergeSpec => OpenTicketsOnlyAlone
<1> USE NoneAssumption, MsgAssumption DEF db
<1> DEFINE Reaches == alone => \A i \in Message :
                         home[i] = None /\ home'[i] # None =>
                           /\ ~deleted[home'[i]]
                           /\ i \in Reply => status[home'[i]] # "MERGED"
<1>1. Inv3 /\ [MergeNext]_<<vars, alone>> => Reaches
  <2> SUFFICES ASSUME Inv3, [MergeNext]_<<vars, alone>>, alone,
                      NEW i \in Message, home[i] = None, home'[i] # None
               PROVE  ~deleted[home'[i]] /\ (i \in Reply => status[home'[i]] # "MERGED")
    OBVIOUS
  <2>t. TypeOK /\ DeletedExists /\ TargetOpen
    BY DEF Inv3, Inv1, Serial
  <2>1. CASE Begin
    <3>1. PICK r \in Request, e \in Email, t \in Ticket : InboundNew(r, e, t)
      BY <2>1 DEF Begin, Create, SetStatus, SoftDelete, Restore, InboundMatch, Refetch,
         ReplyStart, MergeStart, PurgeFind
    <3> QED
      BY <2>t, <3>1 DEF InboundNew, DeletedExists, TypeOK
  <2>2. CASE Resume
    <3>1. PICK r \in Request : InboundCommit(r) \/ ReplyRecord(r) \/ MergeCommit(r) \/ PurgeCommit(r)
      BY <2>2 DEF Resume, InboundRules, StoreFile, ReplyStamp, ReplySettle, Abort
    <3>2. CASE InboundCommit(r)
      <4>1. req[r].email \in Email
        BY <2>t, <3>2, RequestKinds DEF InboundCommit, Matched
      <4> QED
        BY <2>t, <3>2, <4>1 DEF InboundCommit, TargetOpen, TypeOK
    <3>3. CASE ReplyRecord(r)
      BY <2>t, <3>3 DEF ReplyRecord, TargetOpen, TypeOK
    <3>4. CASE MergeCommit(r)
      <4>1. None \notin req[r].sources
        BY <2>t, <3>4, RequestKinds DEF MergeCommit, Merging
      <4> QED
        BY <3>4, <4>1 DEF MergeCommit
    <3>5. CASE PurgeCommit(r)
      BY <3>5 DEF PurgeCommit
    <3> QED
      BY <3>1, <3>2, <3>3, <3>4, <3>5
  <2>3. CASE UNCHANGED vars
    BY <2>3 DEF vars
  <2> QED
    BY <2>1, <2>2, <2>3 DEF MergeNext
<1>2. Inv3 /\ [MergeNext]_<<vars, alone>> => [Reaches]_vars
  BY <1>1
<1> QED
  BY <1>2, Inv3Always, PTL DEF MergeSpec, OpenTicketsOnlyAlone
==============================================================================
