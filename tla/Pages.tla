-------------------------------- MODULE Pages --------------------------------
(***************************************************************************)
(* One page of the web client in one browser tab, whichever of the tables  *)
(* it is: calls in flight, the flags that disable its controls, its loads  *)
(* and what it shows in the end.  A behaviour uses two handlers of a page: *)
(* "first", whose form is followed, and "other".                           *)
(*                                                                         *)
(* A handler is a closure over the filters of the moment it was called: a  *)
(* load it begins when its call has ended asks for those.                  *)
(***************************************************************************)
EXTENDS Naturals, FiniteSets, PageOps

CONSTANTS
  WebPage,      \* name -> page
  FilterEdits,  \* bound: changes of the filters
  Haste         \* bound: how often a user in a hurry does not wait

VARIABLES
  page,         \* [name, traits] of the page
  first, other, \* the handlers used
  calm,         \* whether the user waits for every answer
  haste,        \* how often she did not
  cells,        \* the flags: cell -> key
  calls,        \* two slots of calls in flight
  loads,        \* two slots of loads in flight
  filters,      \* the filters chosen: number of changes made
  shown,        \* [filters, unseen]: what is shown was read under, and lacks
  failed,       \* the last load failed
  form,         \* first's form: [typed, made]
  late          \* a load was begun for filters no longer chosen

pageVars == <<page, first, other, calm, haste, cells, calls, loads, filters, shown, failed, form, late>>

Slot == 1 .. 2
NoCall == [none |-> TRUE]
Clear == <<"clear", "none">>

(* The two handlers, which may be the same, and what the page says of one. *)
Used == IF other = first THEN {"first"} ELSE {"first", "other"}
Of(h) == IF h = "first" THEN first ELSE other
Has(trait) == trait \in page.traits
Cells == {first.flag[1], other.flag[1], "loading"}

Handler(p, h) ==
  [name |-> h, flag |-> p.handlers[h].flag, then |-> p.handlers[h].then, form |-> p.handlers[h].form,
   off |-> p.controls[h], creates |-> h \in p.creates, twoSteps |-> h \in p.twoSteps]

(* What holds of the tables of pages: a control that creates a record is   *)
(* disabled by the flag of its own handler, unless that is of one row, the *)
(* handler makes several calls or it keeps what was typed; its cell is not *)
(* that of the loads, if the page has any; whoever heeds the flag sets the *)
(* same one.  No page that numbers its loads shows the copy an answer      *)
(* brings.                                                                 *)
ASSUME PagesAssumption ==
  \A n \in DOMAIN WebPage :
    LET p == WebPage[n] IN
    \A h \in DOMAIN p.controls :
      LET f == Handler(p, h) IN
      /\ "numbered" \in p.traits => f.then # "replace"
      /\ f.creates =>
           /\ f.flag[1] = "loading" => "queried" \notin p.traits
           /\ f.flag[2] = "row" \/ f.twoSteps \/ f.form = "kept" \/ f.flag \in f.off
           /\ \A o \in DOMAIN p.controls :
                LET g == Handler(p, o) IN
                /\ g.flag[1] = f.flag[1] /\ f.flag \in g.off => g.flag = f.flag
                /\ f.flag[1] = "loading" => g.then \notin {"refresh", "reload", "choose"}

(* Handlers alike in everything but their names and keys are of one kind:  *)
(* "first" is one of each kind.                                            *)
Firsts(p) ==
  LET Kind(g) == [cell |-> g.flag[1], key |-> g.flag[2] \in {"row", "on"}, row |-> g.flag[2] = "row",
                  own |-> IF g.off = {g.flag} THEN {<<"own", "flag">>} ELSE g.off,
                  then |-> g.then, creates |-> g.creates, twoSteps |-> g.twoSteps, form |-> g.form]
      kind == [h \in DOMAIN p.controls |-> Kind(Handler(p, h))]
  IN  {Handler(p, CHOOSE h \in DOMAIN kind : kind[h] = k) : k \in {kind[h] : h \in DOMAIN kind}}
(* Of "other" it only counts which flag it sets and how it ends. *)
Others(p, one) ==
  LET Kind(g) == [same |-> g.flag = one.flag, cell |-> g.flag[1], row |-> g.flag[2] = "row",
                  then |-> g.then, free |-> g.off = {}]
      kind == [o \in DOMAIN p.controls \ {one.name} |-> Kind(Handler(p, o))]
  IN  {one} \cup {Handler(p, CHOOSE o \in DOMAIN kind : kind[o] = k) : k \in {kind[o] : o \in DOMAIN kind}}

PagesInit ==
  /\ \E n \in DOMAIN WebPage :
       /\ page = [name |-> n, traits |-> WebPage[n].traits]
       /\ first \in Firsts(WebPage[n]) /\ other \in Others(WebPage[n], first)
  /\ calm \in BOOLEAN /\ haste = 0
  /\ cells = [c \in Cells |-> Clear]
  /\ calls = [s \in Slot |-> NoCall] /\ loads = [s \in Slot |-> NoCall]
  /\ filters = 0
  /\ shown = [filters |-> 0, unseen |-> {}]
  /\ failed = FALSE /\ late = FALSE
  /\ form = [typed |-> FALSE, made |-> 0]

Awaited == \E s \in Slot : calls[s] # NoCall \/ loads[s] # NoCall
Loading == \E s \in Slot : loads[s] # NoCall
Usable ==
  /\ Awaited => ~calm /\ haste < Haste
  /\ Has("hides") => ~Loading
  /\ haste' = IF Awaited THEN haste + 1 ELSE haste

(* The value a flag's cell takes for a row, and whether a flag is set. *)
KeyOf(flag, row) == <<IF flag[2] = "row" THEN row ELSE flag[2], flag[3]>>
IsSet(flag, row) ==
  /\ flag[1] \in Cells
  /\ IF flag[2] = "any" THEN cells[flag[1]] # Clear ELSE cells[flag[1]] = KeyOf(flag, row)
Enabled(h, row) == \A flag \in Of(h).off : ~IsSet(flag, row)

\* Mutant: an older load stays as good as the one begun after it.
LoadBeside(f, by, slots) ==
  \E s \in Slot :
    /\ slots[s] = NoCall /\ \A t \in Slot : t < s => slots[t] # NoCall
    /\ loads' = [slots EXCEPT ![s] = [filters |-> f, current |-> TRUE, since |-> {}, by |-> by]]

(* A load for filters f, begun by the call in slot by, or by none (0): the *)
(* last one begun is the current one.                                      *)
Load(f, by, slots) ==
  \E s \in Slot :
    /\ slots[s] = NoCall /\ \A t \in Slot : t < s => slots[t] # NoCall
    /\ loads' = [t \in Slot |->
         IF t = s THEN [filters |-> f, current |-> TRUE, since |-> {}, by |-> by]
         ELSE IF slots[t] = NoCall THEN NoCall ELSE [slots[t] EXCEPT !.current = FALSE]]

(* The user changes a filter: the page loads for it. *)
Choose ==
  /\ Has("queried") /\ Usable /\ filters < FilterEdits
  /\ filters' = filters + 1
  /\ Load(filters + 1, 0, loads)
  /\ late' = FALSE
  /\ cells' = [cells EXCEPT !["loading"] = <<"on", "none">>]
  /\ UNCHANGED <<page, first, other, calm, calls, shown, failed, form>>

(* The Refresh button. *)
Refresh(h) ==
  /\ Usable /\ Of(h).then = "refresh" /\ Enabled(h, "row1")
  /\ Load(filters, 0, loads)
  /\ late' = FALSE
  /\ cells' = [cells EXCEPT !["loading"] = <<"on", "none">>]
  /\ UNCHANGED <<page, first, other, calm, calls, filters, shown, failed, form>>

FillForm ==
  /\ Usable /\ first.form # "none" /\ first.creates /\ ~form.typed
  /\ form' = [form EXCEPT !.typed = TRUE, !.made = 0]
  /\ UNCHANGED <<page, first, other, calm, cells, calls, loads, filters, shown, failed, late>>

(* The record the followed form makes: of a row, the first one. *)
Creates(h, row) == Of(h) = first /\ first.creates /\ row = "row1"
Running(h) == \E s \in Slot : calls[s] # NoCall /\ calls[s].does = h

\* Mutant: a control stays enabled while the call it started is in flight.
UseAnyway(h, row, s) ==
  /\ Usable /\ Of(h).then # "refresh"
  /\ calls[s] = NoCall /\ \A t \in Slot : t < s => calls[t] # NoCall
  /\ Creates(h, row) /\ Of(h).form # "none" => form.typed
  /\ calls' = [calls EXCEPT ![s] = [does |-> h, row |-> row, filters |-> filters, since |-> {}, reading |-> FALSE]]
  /\ cells' = [c \in Cells |-> IF c = Of(h).flag[1] THEN KeyOf(Of(h).flag, row) ELSE cells[c]]
  /\ form' = IF Creates(h, row) /\ Of(h).form = "none" /\ ~Running(h) THEN [form EXCEPT !.made = 0] ELSE form
  /\ UNCHANGED <<page, first, other, calm, loads, filters, shown, failed, late>>

(* A control is used.  A form that creates a record must be filled. *)
Use(h, row, s) ==
  /\ Usable /\ Of(h).then # "refresh" /\ Enabled(h, row)
  /\ calls[s] = NoCall /\ \A t \in Slot : t < s => calls[t] # NoCall
  /\ Creates(h, row) /\ Of(h).form # "none" => form.typed
  /\ calls' = [calls EXCEPT ![s] = [does |-> h, row |-> row, filters |-> filters, since |-> {}, reading |-> FALSE]]
  /\ cells' = [c \in Cells |-> IF c = Of(h).flag[1] THEN KeyOf(Of(h).flag, row) ELSE cells[c]]
  /\ form' = IF Creates(h, row) /\ Of(h).form = "none" /\ ~Running(h) THEN [form EXCEPT !.made = 0] ELSE form
  /\ UNCHANGED <<page, first, other, calm, loads, filters, shown, failed, late>>

\* Mutant: a handler clears its flag at the end of its try, not in a finally.
FailStuck(s) ==
  /\ calls[s] # NoCall /\ ~calls[s].reading
  /\ calls' = [calls EXCEPT ![s] = NoCall]
  /\ UNCHANGED <<page, first, other, calm, haste, cells, loads, filters, shown, failed, form, late>>

(* The finally of a handler clears the cell, whoever set it last. *)
Cleared(s, values) == [c \in Cells |-> IF c = Of(calls[s].does).flag[1] THEN Clear ELSE values[c]]

(* Everything in flight may miss a change committed now that the page shows. *)
Displayed(h) == Of(h).then \in {"reload", "replace", "patch"}
Missing(h, slots) ==
  [s \in Slot |-> IF slots[s] # NoCall /\ Displayed(h) THEN [slots[s] EXCEPT !.since = @ \cup {h}] ELSE slots[s]]

Made(s, typed) ==
  LET h == calls[s].does IN
  form' = IF Creates(h, calls[s].row) THEN [form EXCEPT !.made = IF @ < 2 THEN @ + 1 ELSE 2, !.typed = typed]
          ELSE form

(* The call succeeded, and the page shows its change without a load. *)
Succeed(s) ==
  LET h == calls[s].does IN
  /\ calls[s] # NoCall /\ Of(h).then \notin {"reload", "choose"}
  /\ calls' = Missing(h, [calls EXCEPT ![s] = NoCall]) /\ loads' = Missing(h, loads)
  /\ cells' = Cleared(s, cells)
  /\ IF Of(h).then # "replace" THEN UNCHANGED shown
     ELSE \E stale \in {{}, calls[s].since} : shown' = [shown EXCEPT !.unseen = stale]
  /\ Made(s, FALSE)
  /\ UNCHANGED <<page, first, other, calm, haste, filters, failed, late>>

\* Mutant: it does not load.
SucceedWithoutLoad(s) ==
  /\ calls[s] # NoCall /\ Of(calls[s].does).then = "reload"
  /\ calls' = Missing(calls[s].does, [calls EXCEPT ![s] = NoCall]) /\ loads' = Missing(calls[s].does, loads)
  /\ cells' = Cleared(s, cells)
  /\ shown' = [shown EXCEPT !.unseen = @ \cup {calls[s].does}]
  /\ Made(s, FALSE)
  /\ UNCHANGED <<page, first, other, calm, haste, filters, failed, late>>

(* The call succeeded and the handler awaits a load, with the filters of   *)
(* the moment it was called.                                               *)
SucceedAndLoad(s) ==
  LET h == calls[s].does IN
  /\ calls[s] # NoCall /\ Of(h).then = "reload" /\ ~calls[s].reading
  /\ calls' = Missing(h, [calls EXCEPT ![s].reading = TRUE])
  /\ Load(calls[s].filters, s, Missing(h, loads))
  /\ late' = (late \/ calls[s].filters # filters)
  /\ cells' = [cells EXCEPT !["loading"] = <<"on", "none">>]
  /\ shown' = [shown EXCEPT !.unseen = @ \cup {h}]
  /\ Made(s, Of(h).form = "kept" /\ form.typed)
  /\ UNCHANGED <<page, first, other, calm, haste, filters, failed>>

(* The call succeeded and its record was chosen as a filter: the handler   *)
(* loads with the filters it knows, and the page for the new one.          *)
SucceedAndChoose(s) ==
  LET h == calls[s].does IN
  /\ calls[s] # NoCall /\ Of(h).then = "choose" /\ ~calls[s].reading /\ filters < FilterEdits
  /\ filters' = filters + 1
  /\ calls' = [calls EXCEPT ![s].reading = TRUE]
  /\ ~Loading
  /\ \E own \in Slot :
       loads' = [t \in Slot |->
         [filters |-> IF t = own THEN calls[s].filters ELSE filters + 1, current |-> t # own,
          since |-> {}, by |-> IF t = own THEN s ELSE 0]]
  /\ late' = TRUE
  /\ cells' = [cells EXCEPT !["loading"] = <<"on", "none">>]
  /\ Made(s, FALSE)
  /\ UNCHANGED <<page, first, other, calm, haste, shown, failed>>

(* The call failed, or its second step did. *)
Fail(s) ==
  LET h == calls[s].does IN
  /\ calls[s] # NoCall /\ ~calls[s].reading
  /\ cells' = Cleared(s, cells)
  /\ \/ calls' = [calls EXCEPT ![s] = NoCall] /\ UNCHANGED <<loads, shown, form>>
     \/ /\ Of(h).twoSteps
        /\ calls' = Missing(h, [calls EXCEPT ![s] = NoCall]) /\ loads' = Missing(h, loads)
        /\ shown' = [shown EXCEPT !.unseen = @ \cup {h}]
        /\ Made(s, form.typed)
  /\ UNCHANGED <<page, first, other, calm, haste, filters, failed, late>>

(* A load is answered, or refused. *)
Answer(l) ==
  LET load == loads[l]
      wanted == Has("numbered") => load.current
  IN
  /\ load # NoCall
  /\ loads' = [loads EXCEPT ![l] = NoCall]
  /\ calls' = IF load.by = 0 THEN calls ELSE [calls EXCEPT ![load.by] = NoCall]
  /\ LET over == IF wanted THEN [cells EXCEPT !["loading"] = Clear] ELSE cells
     IN  cells' = IF load.by = 0 THEN over ELSE Cleared(load.by, over)
  /\ \/ /\ wanted /\ failed' = FALSE
        /\ \E stale \in {{}, load.since} : shown' = [filters |-> load.filters, unseen |-> stale]
     \/ wanted /\ failed' = TRUE /\ UNCHANGED shown
     \/ ~wanted /\ UNCHANGED <<shown, failed>>
  /\ form' = IF first.form = "kept" /\ wanted /\ ~failed' THEN [form EXCEPT !.typed = FALSE] ELSE form
  /\ UNCHANGED <<page, first, other, calm, haste, filters, late>>

Rows(h) == IF Of(h).flag[2] = "row" THEN {"row1", "row2"} ELSE {"row1"}

PagesNext ==
  \/ Choose \/ FillForm
  \/ \E h \in Used : Refresh(h) \/ \E row \in Rows(h), s \in Slot : Use(h, row, s)
  \/ \E s \in Slot : Succeed(s) \/ SucceedAndLoad(s) \/ SucceedAndChoose(s) \/ Fail(s) \/ Answer(s)

-----------------------------------------------------------------------------
Settled == ~Awaited

(* What a page shows is what its filters ask for, once everything has been *)
(* answered and unless a call begun under other filters loaded after they  *)
(* were chosen: on a page that numbers its loads, whatever the user does,  *)
(* on the others if she waits for every answer.                            *)
ShowsChosen ==
  Settled /\ ~failed /\ ~late /\ (calm \/ Has("numbered")) => shown.filters = filters

(* It shows the changes made on it, partial failures excepted, in the same *)
(* circumstances; in a hurry, those its handlers load anew for.            *)
ShowsChanges ==
  Settled /\ ~failed /\ (calm \/ Has("numbered")) =>
    \A h \in shown.unseen : Of(h).twoSteps \/ (~calm /\ Of(h).then # "reload")

(* One filled form makes one record, however often its button is used and  *)
(* whatever fails, unless its flag is not its own, it makes several calls, *)
(* or it keeps what was typed until the page has been loaded.              *)
FlagShared ==
  first.flag[2] = "row" \/ (other # first /\ other.flag[1] = first.flag[1] /\ first.flag \notin other.off)
MadeOnce == form.made > 1 => first.twoSteps \/ FlagShared \/ first.form = "kept"

(* No control stays disabled once everything has been answered.            *)
NothingStuck == Settled => \A c \in Cells : cells[c] = Clear
=============================================================================
