------------------------------- MODULE PageOps -------------------------------
(***************************************************************************)
(* How a page of the web client is described: the calls its handlers make  *)
(* and the controls that start them.                                       *)
(*                                                                         *)
(* A call sets a flag while it runs, <<cell, key, table>>: the state       *)
(* variable and the value put there ("row": the identifier of a row of     *)
(* table).  When it ends it clears the cell, and the page                  *)
(*   "reload"   reads its data anew,                                       *)
(*   "replace"  shows the fresh copy that is the answer,                   *)
(*   "patch"    adds the change to what it shows,                          *)
(*   "nothing"  shows nothing of it,                                       *)
(*   "choose"   chooses the new record as a filter and reads its data anew,*)
(*   "leave"    gives way to another page.                                 *)
(* A control is disabled while a cell holds one of its flags; the key      *)
(* "any" stands for every value.                                           *)
(***************************************************************************)
EXTENDS TLC

NoFlag == <<"none", "on", "none">>
On(cell) == <<cell, "on", "none">>
Key(cell, key) == <<cell, key, "none">>
ByRow(cell, table) == <<cell, "row", table>>
AnyOf(cell) == <<cell, "any", "none">>

(* Handlers that set flag and end with then: those that send no form, those *)
(* that send one and empty it when their call succeeds, and those that      *)
(* leave it to the load that follows to empty it.                           *)
LOCAL Handlers(names, flag, then, form) == [n \in names |-> [flag |-> flag, then |-> then, form |-> form]]
Calls(names, flag, then) == Handlers(names, flag, then, "none")
Posts(names, flag, then) == Handlers(names, flag, then, "sent")
Fills(names, flag, then) == Handlers(names, flag, then, "kept")

(* Controls disabled by one of flags. *)
Off(names, flags) == [n \in names |-> flags]
(* Controls disabled by the flag their own handler sets. *)
OwnFlag(handlers, names) == [n \in names |-> {handlers[n].flag}]

(* A page: its handlers, its controls, the handlers that create a record,  *)
(* those that make several calls of which the last may fail alone, and its *)
(* traits: "numbered" (answers to older loads are dropped), "queried" (the *)
(* data depend on filters), "hides" (nothing can be used while a load is   *)
(* in flight).                                                             *)
Page(handlers, controls, creates, twoSteps, traits) ==
  [handlers |-> handlers, controls |-> controls, creates |-> creates, twoSteps |-> twoSteps, traits |-> traits]
=============================================================================
