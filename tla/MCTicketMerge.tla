---------------------------- MODULE MCTicketMerge ----------------------------
(* TicketMerge on small sets.  Tickets, emails and replies are                *)
(* interchangeable; request slots are not, since only some may merge.         *)
(*                                                                            *)
(* MergeSpec has both ways of running: "alone", one request after the other,  *)
(* or requests overlapping; there, one ticket is deleted, and replies and     *)
(* deletions are not mixed, as a purge treats a reply's row as it does a mail's *)
EXTENDS TicketMerge, TLC

Symmetry == Permutations(Ticket) \cup Permutations(Email) \cup Permutations(Reply)

VARIABLE alone

Deletions == {t \in Ticket : deleted[t] \/ status[t] = "PURGED"}
NoReply == \A m \in Reply : home[m] = None /\ ~InProgress(m)

MergeInit == Init /\ alone \in BOOLEAN
MergeNext ==
    /\ UNCHANGED alone
    /\ \/ (alone => AllIdle) /\ Begin
       \/ Resume
    /\ alone \/ Deletions' = {} \/ (NoReply' /\ Cardinality(Deletions') = 1)
MergeSpec == MergeInit /\ [][MergeNext]_<<vars, alone>>

FileWithMessageAlone == alone => FileWithMessage
\* No message reaches a deleted ticket, and no reply a merged one.
OpenTicketsOnlyAlone ==
    [][alone => \A i \in Message :
          home[i] = None /\ home'[i] # None =>
              /\ ~deleted[home'[i]]
              /\ i \in Reply => status[home'[i]] # "MERGED"]_vars
==============================================================================
