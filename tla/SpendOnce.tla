------------------------------ MODULE SpendOnce ------------------------------
(***************************************************************************)
(* The promise of a one-time token: it may be issued and may expire, and   *)
(* whatever requests present it at the same time, at most one is let in.   *)
(***************************************************************************)
EXTENDS FiniteSets

CONSTANT Token

VARIABLES
    issued,         \* tokens that exist
    spent           \* tokens that have let somebody in

SpendInit == issued = {} /\ spent = {}

Issue(t) == t \notin issued /\ issued' = issued \cup {t} /\ UNCHANGED spent

Spend(t) == t \in issued \ spent /\ spent' = spent \cup {t} /\ UNCHANGED issued

SpendNext == \E t \in Token : Issue(t) \/ Spend(t)

SpendSpec == SpendInit /\ [][SpendNext]_<<issued, spent>>
==============================================================================
