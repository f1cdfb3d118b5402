------------------------------ MODULE Requests ------------------------------
(***************************************************************************)
(* What the modules of the administrative services share: a request slot   *)
(* holds "Idle" or a record of what the handler running in it has read,    *)
(* with the name of its next step in "op".  A database row that does not   *)
(* exist is "Absent".                                                      *)
(***************************************************************************)
EXTENDS Naturals, FiniteSets

Idle == [op |-> "idle"]
Absent == [gone |-> TRUE]
Present(table) == {k \in DOMAIN table : table[k] # Absent}
Lone(slots) == \A r \in DOMAIN slots : slots[r] = Idle
==============================================================================
