----------------------------- MODULE MailIntake -----------------------------
(***************************************************************************)
(* What the synchronisation of a mailbox promises: every mail delivered to *)
(* it that is wanted is recorded, once, on a ticket or an event request.   *)
(***************************************************************************)
EXTENDS Sequences, Functions

CONSTANT Mail

VARIABLES
    wanted,         \* mails delivered that are not spam
    intake          \* the mails recorded, in the order of recording

vars == <<wanted, intake>>

Init == wanted \in SUBSET Mail /\ intake = <<>>

Deliver(m) ==
    /\ m \notin wanted
    /\ wanted' = wanted \cup {m}
    /\ UNCHANGED intake

Record(m) ==
    /\ m \in wanted \ Range(intake)
    /\ intake' = Append(intake, m)
    /\ UNCHANGED wanted

Next == \E m \in Mail : Deliver(m) \/ Record(m)

\* Nothing is recorded twice, and everything wanted is recorded in the end.
AtMostOnce == Init /\ [][Next]_vars
AtLeastOnce == \A m \in Mail : WF_vars(Record(m))

Spec == AtMostOnce /\ AtLeastOnce
=============================================================================
