--------------------------- MODULE TicketComposer ---------------------------
(***************************************************************************)
(* The reply composer of a ticket in one browser tab (apps/web/src/        *)
(* components/tickets/TicketReplyEditor.tsx): what the agent writes, the   *)
(* draft it leaves in localStorage, the calls it has in flight, and the    *)
(* files uploaded for the message.  The editor is an uncontrolled element: *)
(* a call that ends reads and writes the element as it is then, or fails   *)
(* on it when the component was unmounted meanwhile, which a reload of     *)
(* the ticket and the collapse button both do.  One call of a writing tool *)
(* is in flight at a time.                                                 *)
(***************************************************************************)
EXTENDS FiniteSets, Naturals

CONSTANTS
  Piece,        \* texts the agent writes, each once
  Suggested,    \* a text the assistant writes
  Completion,   \* its inline completion of what the agent writes
  Send,         \* slots for messages being sent
  Upload        \* files the agent attaches

ASSUME ComposerAssumption == Completion \notin Piece /\ Suggested \notin Piece \cup {Completion}

VARIABLES
  editor,       \* the texts in the editor
  mode,         \* "public" or "internal"
  stored,       \* the draft in localStorage
  mounted,      \* whether the editor is on the page
  menu,         \* whether the menu of send actions is open
  saving,       \* the flag that disables the send button
  sends,        \* messages in flight
  ai,           \* the call of a writing tool in flight
  inserted,     \* whether the page has a suggestion to insert (draftInsertRequest)
  hint,         \* the inline autocompletion: none, asked, stale or shown
  files,        \* where each upload is
  sent,         \* how many messages hold a text
  fate,         \* what became of a text of the agent's
  meant,        \* the mode the agent saw a piece in last
  mishap        \* an answer got lost, or the agent did not wait for a send

composerVars == <<editor, mode, stored, mounted, menu, saving, sends, ai, inserted, hint, files, sent, fate, meant, mishap>>

Own == Piece \cup {Completion}
Text == Own \cup {Suggested}
Nothing == [kind |-> "none"]
Draft(text, m) == IF text = {} THEN Nothing ELSE [kind |-> "draft", text |-> text, mode |-> m]
Call(kind, text, m, withFiles) == [kind |-> kind, text |-> text, mode |-> m, files |-> withFiles, orphan |-> FALSE]

ComposerTypeOK ==
  /\ editor \subseteq Text /\ mode \in {"public", "internal"}
  /\ mounted \in BOOLEAN /\ menu \in BOOLEAN /\ saving \in BOOLEAN /\ mishap \in BOOLEAN
  /\ inserted \in BOOLEAN
  /\ stored = Nothing \/ stored.text \in (SUBSET Text) \ {{}}
  /\ hint \in {"none", "asked", "stale", "shown"}
  /\ files \in [Upload -> {"none", "uploading", "orphan", "listed", "removing", "withdrawn", "dropped",
                           "loose", "sent", "deleted"}]
  /\ fate \in [Own -> {"unwritten", "written", "given", "late", "struck"}]

ComposerInit ==
  /\ editor = {} /\ mode = "public" /\ stored = Nothing
  /\ mounted = TRUE /\ menu = FALSE /\ saving = FALSE
  /\ sends = [s \in Send |-> Nothing] /\ ai = Nothing /\ inserted = FALSE /\ hint = "none"
  /\ files = [f \in Upload |-> "none"]
  /\ sent = [t \in Own |-> 0]
  /\ fate = [p \in Own |-> "unwritten"] /\ meant = [p \in Own |-> "public"]
  /\ mishap = FALSE

InFlight == {s \in Send : sends[s] # Nothing}
Waiting == InFlight # {} \/ ai # Nothing \/ \E f \in Upload : files[f] \in {"uploading", "orphan", "removing", "withdrawn"}

Listed == {f \in Upload : files[f] \in {"listed", "removing"}}

(* The effect that keeps the draft, after a change of text or mode. *)
Save(text, m) == stored' = Draft(text, m)

(* clearWritingSuggestions, and the input handler: an answer still due is  *)
(* out of number from now on.                                              *)
ClearHint == hint' = IF hint = "asked" THEN "stale" ELSE IF hint = "stale" THEN "stale" ELSE "none"

-----------------------------------------------------------------------------
(* The agent. *)
Type(p) ==
  /\ mounted /\ fate[p] = "unwritten"
  /\ editor' = editor \cup {p} /\ Save(editor', mode)
  /\ fate' = [fate EXCEPT ![p] = IF Waiting THEN "late" ELSE "written"]
  /\ meant' = [meant EXCEPT ![p] = mode]
  /\ ClearHint
  /\ UNCHANGED <<mode, mounted, menu, saving, sends, ai, inserted, files, sent, mishap>>

Erase(t) ==
  /\ mounted /\ t \in editor
  /\ editor' = editor \ {t} /\ Save(editor', mode)
  /\ fate' = [p \in Own |-> IF p = t THEN "given" ELSE fate[p]]
  /\ ClearHint
  /\ UNCHANGED <<mode, mounted, menu, saving, sends, ai, inserted, files, sent, meant, mishap>>

ChangeMode ==
  /\ mounted
  /\ mode' = IF mode = "public" THEN "internal" ELSE "public"
  /\ Save(editor, mode') /\ menu' = FALSE
  /\ meant' = [p \in Own |-> IF p \in editor THEN mode' ELSE meant[p]]
  /\ UNCHANGED <<editor, mounted, saving, sends, ai, inserted, hint, files, sent, fate, mishap>>

OpenMenu ==
  /\ mounted /\ ~saving /\ menu' = ~menu
  /\ UNCHANGED <<editor, mode, stored, mounted, saving, sends, ai, inserted, hint, files, sent, fate, meant, mishap>>

(* The suggestion takes the place of the text, which the agent agrees to.  *)
Suggests(text, m) ==
  /\ editor' = {Suggested} /\ Save(editor', m)
  /\ fate' = [p \in Own |-> IF p \in text THEN "given" ELSE fate[p]]

(* The brief's "use this reply": asked first when there is a text.         *)
InsertRequest ==
  /\ inserted' = TRUE
  /\ \/ mounted /\ Suggests(editor, mode) /\ ClearHint
     \/ (~mounted \/ editor # {}) /\ UNCHANGED <<editor, stored, fate, hint>>
  /\ UNCHANGED <<mode, mounted, menu, saving, sends, ai, files, sent, meant, mishap>>

(* The assistant's completion appears after the text and is none of it     *)
(* until Tab accepts it.  It is not asked for during a send or a tool.     *)
AskHint ==
  /\ mounted /\ editor # {} /\ hint = "none" /\ ~saving /\ (ai # Nothing => ai.orphan)
  /\ fate[Completion] = "unwritten"
  /\ hint' = "asked"
  /\ UNCHANGED <<editor, mode, stored, mounted, menu, saving, sends, ai, inserted, files, sent, fate, meant, mishap>>
AnswerHint ==
  /\ hint \in {"asked", "stale"}
  /\ hint' = IF hint = "asked" THEN "shown" ELSE "none"
  /\ UNCHANGED <<editor, mode, stored, mounted, menu, saving, sends, ai, inserted, files, sent, fate, meant, mishap>>
AcceptHint ==
  /\ mounted /\ hint = "shown"
  /\ editor' = editor \cup {Completion} /\ Save(editor', mode) /\ hint' = "none"
  /\ fate' = [fate EXCEPT ![Completion] = IF Waiting THEN "late" ELSE "written"]
  /\ meant' = [meant EXCEPT ![Completion] = mode]
  /\ UNCHANGED <<mode, mounted, menu, saving, sends, ai, inserted, files, sent, mishap>>

(* The page takes the editor away: to reload the ticket, or because it is  *)
(* collapsed.  Its state goes, its calls go on without an editor.          *)
Unmount(calls, where, leftover) ==
  /\ mounted' = FALSE /\ editor' = {} /\ mode' = "public" /\ menu' = FALSE /\ saving' = FALSE
  /\ hint' = "none"
  /\ sends' = [s \in Send |-> IF calls[s] = Nothing THEN Nothing ELSE [calls[s] EXCEPT !.orphan = TRUE]]
  /\ ai' = IF ai = Nothing THEN Nothing ELSE [ai EXCEPT !.orphan = TRUE]
  /\ files' = [f \in Upload |->
       CASE where[f] = "listed" -> leftover [] where[f] = "uploading" -> "orphan" [] OTHER -> where[f]]

Hide ==
  /\ mounted /\ Unmount(sends, files, "dropped")
  /\ mishap' = (mishap \/ InFlight # {})
  /\ UNCHANGED <<inserted, stored, sent, fate, meant>>

\* Mutant: the mode of the draft is not restored.
ShowInPublic ==
  /\ ~mounted /\ mounted' = TRUE
  /\ editor' = IF stored = Nothing THEN {} ELSE stored.text
  /\ UNCHANGED <<mode, stored, menu, saving, sends, ai, inserted, hint, files, sent, fate, meant, mishap>>

(* It comes back with the draft that was stored, and inserts the page's    *)
(* suggestion anew: asked first when there is a draft.                     *)
Show ==
  /\ ~mounted /\ mounted' = TRUE
  /\ LET text == IF stored = Nothing THEN {} ELSE stored.text IN
       /\ mode' = IF stored = Nothing THEN mode ELSE stored.mode
       /\ \/ inserted /\ Suggests(text, mode')
          \/ (~inserted \/ text # {}) /\ editor' = text /\ UNCHANGED <<stored, fate>>
  /\ UNCHANGED <<menu, saving, sends, ai, inserted, hint, files, sent, meant, mishap>>

-----------------------------------------------------------------------------
(* Sending. *)
Posting(s, call) ==
  /\ mounted /\ sends[s] = Nothing
  /\ sends' = [sends EXCEPT ![s] = call]
  /\ saving' = TRUE
  /\ UNCHANGED <<editor, mode, stored, mounted, menu, ai, inserted, files, sent, fate, meant>>

\* Mutant: the completion is not removed before the text is read.
SubmitWithHint(s) ==
  /\ editor # {} /\ UNCHANGED hint
  /\ Posting(s, Call("send", editor \cup (IF hint = "shown" THEN {Completion} ELSE {}), mode, Listed))

(* submitMessage up to its call. *)
Submit(s) == editor # {} /\ ClearHint /\ Posting(s, Call("send", editor, mode, Listed))
CloseFromMenu(s) == ClearHint /\ Posting(s, Call("close", {}, mode, {}))

\* Mutant: the button stays enabled.
SendButtonAlways(s) == Submit(s) /\ UNCHANGED mishap

SendButton(s) == ~saving /\ Submit(s) /\ UNCHANGED mishap

(* The items of the open menu are not disabled while a send is in flight. *)
MenuItem(s) == menu /\ (Submit(s) \/ CloseFromMenu(s)) /\ mishap' = (mishap \/ InFlight # {})

(* The message is recorded: each text it holds was sent once more. *)
Recorded(c) == sent' = [t \in Own |-> IF t \in c.text /\ sent[t] < 2 THEN sent[t] + 1 ELSE sent[t]]
WithMessage(c) ==
  [f \in Upload |-> IF f \notin c.files \/ files[f] = "deleted" THEN files[f]
                    ELSE IF files[f] = "removing" THEN "withdrawn" ELSE "sent"]

\* Mutant: the stored draft is forgotten about.
SendEndsKeeping(s) ==
  /\ sends[s].kind = "send" /\ ~sends[s].orphan
  /\ Recorded(sends[s])
  /\ Unmount([sends EXCEPT ![s] = Nothing], WithMessage(sends[s]), "loose")
  /\ UNCHANGED <<inserted, stored, fate, meant, mishap>>

(* The answer finds its editor: the text and the draft are removed, the    *)
(* list of files emptied and the ticket reloaded.                          *)
SendEnds(s) ==
  /\ sends[s].kind = "send" /\ ~sends[s].orphan
  /\ Recorded(sends[s]) /\ stored' = Nothing
  /\ Unmount([sends EXCEPT ![s] = Nothing], WithMessage(sends[s]), "loose")
  /\ UNCHANGED <<inserted, fate, meant, mishap>>

(* The answer finds no editor and fails on it: the draft stays stored. *)
SendEndsOrphaned(s) ==
  /\ sends[s].kind = "send" /\ sends[s].orphan
  /\ Recorded(sends[s])
  /\ files' = WithMessage(sends[s])
  /\ sends' = [sends EXCEPT ![s] = Nothing]
  /\ UNCHANGED <<editor, mode, stored, mounted, menu, saving, ai, inserted, hint, fate, meant, mishap>>

(* Closing the ticket reloads it, whichever editor asked. *)
CloseEnds(s) ==
  /\ sends[s].kind = "close"
  /\ Unmount([sends EXCEPT ![s] = Nothing], files, "dropped")
  /\ UNCHANGED <<inserted, stored, sent, fate, meant, mishap>>

(* Refused, or recorded with the answer lost: the text stays. *)
CallFails(s) ==
  /\ sends[s] # Nothing
  /\ \/ UNCHANGED <<sent, files, mishap>>
     \/ Recorded(sends[s]) /\ files' = WithMessage(sends[s]) /\ mishap' = TRUE
  /\ saving' = (saving /\ sends[s].orphan)
  /\ sends' = [sends EXCEPT ![s] = Nothing]
  /\ UNCHANGED <<editor, mode, stored, mounted, menu, ai, inserted, hint, fate, meant>>

-----------------------------------------------------------------------------
(* The writing tools replace the whole text by their answer, whatever was  *)
(* typed since.  Asked about a selection, they insert their answer where   *)
(* the page's selection is when it arrives: over whatever of the text is   *)
(* selected then, be it in another editor than the one that asked, or      *)
(* nowhere in the text.                                                    *)
RunAiAction(kind, text) ==
  /\ mounted /\ ai = Nothing
  /\ ai' = Call(kind, text, mode, {})
  /\ ClearHint
  /\ UNCHANGED <<editor, mode, stored, mounted, menu, saving, sends, inserted, files, sent, fate, meant, mishap>>

\* Mutant: the answer about a selection replaces the whole text, too.
AnswersWhole ==
  /\ ai # Nothing /\ ai' = Nothing
  /\ IF ai.orphan THEN UNCHANGED <<editor, stored, fate, hint>>
     ELSE /\ editor' = {Suggested} /\ Save(editor', mode)
          /\ fate' = [p \in Own |-> IF p \in ai.text \cap editor THEN "given" ELSE fate[p]]
          /\ hint' = IF hint = "shown" THEN "none" ELSE hint
  /\ UNCHANGED <<mode, mounted, menu, saving, sends, inserted, files, sent, meant, mishap>>

AiAnswers ==
  /\ ai # Nothing /\ ai' = Nothing
  /\ \/ /\ ai.kind = "whole" /\ ~ai.orphan
        /\ editor' = {Suggested} /\ Save(editor', mode)
        /\ fate' = [p \in Own |-> IF p \in ai.text \cap editor THEN "given" ELSE fate[p]]
        /\ hint' = IF hint = "shown" THEN "none" ELSE hint
     \/ /\ ai.kind = "selection" /\ mounted
        /\ \E over \in SUBSET editor :
             /\ editor' = (editor \ over) \cup {Suggested} /\ Save(editor', mode)
             /\ fate' = [p \in Own |-> IF p \notin over THEN fate[p]
                                       ELSE IF p \in ai.text THEN "given" ELSE "struck"]
        /\ ClearHint
     \/ (ai.orphan \/ ai.kind = "selection") /\ UNCHANGED <<editor, stored, fate, hint>>
  /\ UNCHANGED <<mode, mounted, menu, saving, sends, inserted, files, sent, meant, mishap>>

AiFails ==
  /\ ai # Nothing /\ ai' = Nothing
  /\ UNCHANGED <<editor, mode, stored, mounted, menu, saving, sends, inserted, hint, files, sent, fate, meant, mishap>>

-----------------------------------------------------------------------------
(* Attachments are stored when they are dropped or pasted. *)
Put(f, from, to) ==
  /\ files[f] \in from /\ files' = [files EXCEPT ![f] = to]
  /\ UNCHANGED <<editor, mode, stored, mounted, menu, saving, sends, ai, inserted, hint, sent, fate, meant, mishap>>
UploadFile(f) == mounted /\ Put(f, {"none"}, "uploading")
UploadEnds(f) == Put(f, {"uploading"}, "listed") \/ Put(f, {"orphan"}, "dropped")
UploadFails(f) == Put(f, {"uploading", "orphan"}, "none")

\* Mutant: the file leaves the list and stays on the server.
RemovedFromList(f) == Put(f, {"removing"}, "loose")

RemoveAttachment(f) == mounted /\ Put(f, {"listed"}, "removing")
Removed(f) == Put(f, {"removing", "withdrawn"}, "deleted")
RemoveFails(f) == Put(f, {"removing"}, IF mounted THEN "listed" ELSE "dropped") \/ Put(f, {"withdrawn"}, "sent")

-----------------------------------------------------------------------------
ComposerAgent ==
  \/ \E p \in Piece : Type(p)
  \/ \E t \in editor : Erase(t)
  \/ ChangeMode \/ OpenMenu \/ InsertRequest
  \/ AskHint \/ AcceptHint
  \/ Hide
  \/ \E s \in Send : SendButton(s) \/ MenuItem(s)
  \/ RunAiAction("whole", editor) \/ \E t \in editor : RunAiAction("selection", {t})
  \/ \E f \in Upload : UploadFile(f) \/ RemoveAttachment(f)
ComposerAnswers ==
  \/ Show \/ AnswerHint \/ AiAnswers \/ AiFails
  \/ \E s \in Send : SendEnds(s) \/ SendEndsOrphaned(s) \/ CloseEnds(s) \/ CallFails(s)
  \/ \E f \in Upload : UploadEnds(f) \/ UploadFails(f) \/ Removed(f) \/ RemoveFails(f)
ComposerNext == ComposerAgent \/ ComposerAnswers

-----------------------------------------------------------------------------
(* The draft in localStorage is what the editor shows, mode included. *)
StoredIsShown == mounted => stored = Draft(editor, mode)

(* A text written while no call was in flight is in the editor, in the     *)
(* stored draft or in a message, until the agent erases or replaces it, or *)
(* has it selected, not having asked about it, when the answer about       *)
(* another selection arrives.                                              *)
NothingLost ==
  \A p \in Piece : fate[p] = "written" =>
    p \in editor \/ (stored # Nothing /\ p \in stored.text) \/ sent[p] > 0

(* A text goes out in two messages only after a mishap: a lost answer, a   *)
(* menu item used during a send, or the editor hidden during one.          *)
SentOnce == ~mishap => \A p \in Piece : sent[p] < 2

(* What is in the editor is shown in the mode it was written in, or        *)
(* switched to by the agent: a note does not come back as a public reply.  *)
NotesStayInternal == mounted => \A p \in Piece \cap editor : meant[p] = mode

(* A file is left out of the message it was uploaded for only when the     *)
(* agent sends while it is still being uploaded, or unmounts the editor.   *)
FilesFollow == \A f \in Upload : files[f] # "loose"

(* No completion is sent that the agent did not accept. *)
HintNotSent ==
  \A s \in Send : sends[s] # Nothing /\ Completion \in sends[s].text => fate[Completion] # "unwritten"
=============================================================================
