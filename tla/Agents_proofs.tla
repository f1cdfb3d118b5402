---------------------------- MODULE Agents_proofs ----------------------------
(***************************************************************************)
(* What agents do and the client they do it with, as MCAgents composes     *)
(* them: for any texts and files in the composer of replies, any tables of *)
(* pages, any tickets and requests, and, with the tables of routes, roles  *)
(* and pages the repository has, any user and any sequence of her steps.   *)
(***************************************************************************)
EXTENDS MCAgents, TLAPS

(***************************************************************************)
(* The composer of replies.                                                *)
(***************************************************************************)

Modes == {"public", "internal"}
DraftRow == [kind : {"draft"}, text : (SUBSET Text) \ {{}}, mode : Modes]
InCall(kinds) ==
  [kind : kinds, text : SUBSET Text, mode : Modes, files : SUBSET Upload, orphan : BOOLEAN]

Hints == {"none", "asked", "stale", "shown"}
Fates == {"unwritten", "written", "given", "late", "struck"}
FileStates ==
  {"none", "uploading", "orphan", "listed", "removing", "withdrawn", "dropped", "loose", "sent", "deleted"}

ComposerShape ==
  /\ ComposerTypeOK
  /\ stored \in {Nothing} \cup DraftRow
  /\ sends \in [Send -> {Nothing} \cup InCall({"send", "close"})]
  /\ ai \in {Nothing} \cup InCall({"whole", "selection"})
  /\ sent \in [Own -> Nat] /\ meant \in [Own -> Modes]

\* A call that knows its editor has it: whoever takes the editor away orphans all calls.
EditorThere ==
  /\ ~mounted => editor = {} /\ mode = "public" /\ ~menu /\ ~saving
  /\ \A s \in InFlight : ~sends[s].orphan => mounted
  /\ ai # Nothing /\ ~ai.orphan => mounted

\* What a call replaces or removes when it ends is in it: whatever was written after it
\* began is "late".
Covers(text) == \A p \in Piece \cap editor : fate[p] = "written" => p \in text
CallsCover ==
  /\ \A s \in InFlight : sends[s].kind = "send" /\ ~sends[s].orphan => Covers(sends[s].text)
  /\ ai # Nothing /\ ai.kind = "whole" /\ ~ai.orphan => Covers(ai.text)

\* A text is nowhere: neither in the editor, nor in the draft, nor in a message in flight.
Nowhere(p) ==
  /\ p \notin editor /\ (stored # Nothing => p \notin stored.text)
  /\ \A s \in InFlight : p \notin sends[s].text

Unwritten == \A p \in Own : fate[p] = "unwritten" => Nowhere(p) /\ sent[p] = 0

\* Without a mishap there is one send at a time, its editor waiting for it, and a text
\* that was sent is nowhere else.
OneSend ==
  ~mishap =>
    /\ \A s \in InFlight : saving /\ mounted /\ ~sends[s].orphan /\ InFlight = {s}
    /\ \A p \in Piece : sent[p] < 2 /\ (sent[p] > 0 => Nowhere(p))

DraftsMeant == stored # Nothing => \A p \in Piece \cap stored.text : meant[p] = stored.mode

Pending(f) == files[f] \in {"uploading", "orphan", "removing", "withdrawn"}

\* An agent who waits has one send in flight or other calls, and the send takes every
\* file of the list along.
Patient ==
  alone =>
    /\ hurry = 0 /\ FilesFollow
    /\ \A s \in InFlight :
         /\ InFlight = {s} /\ ai = Nothing /\ \A f \in Upload : ~Pending(f)
         /\ sends[s].kind = "send" => \A f \in Upload : files[f] = "listed" => f \in sends[s].files

Composing ==
  /\ ComposerShape /\ StoredIsShown /\ EditorThere
  /\ NothingLost /\ CallsCover /\ Unwritten
  /\ OneSend /\ DraftsMeant /\ Patient

LEMMA Drafts ==
  ASSUME NEW text \in SUBSET Text, NEW m \in Modes
  PROVE  /\ Draft(text, m) \in {Nothing} \cup DraftRow
         /\ text = {} => Draft(text, m) = Nothing
         /\ text # {} => /\ Draft(text, m) \in DraftRow /\ Draft(text, m) # Nothing
                        /\ Draft(text, m).text = text /\ Draft(text, m).mode = m
  BY DEF Draft, DraftRow, Nothing, Modes

LEMMA NothingApart ==
  /\ Nothing \notin DraftRow
  /\ \A kinds : "none" \notin kinds => Nothing \notin InCall(kinds)
  BY DEF Nothing, DraftRow, InCall

\* What every step says of types, in one place.
LEMMA ShapeParts ==
  ASSUME Composing
  PROVE  /\ editor \in SUBSET Text /\ mode \in Modes /\ menu \in BOOLEAN /\ hint \in Hints
         /\ inserted \in BOOLEAN
         /\ files \in [Upload -> FileStates] /\ fate \in [Own -> Fates] /\ meant \in [Own -> Modes]
         /\ Piece \subseteq Own /\ Completion \in Own /\ Own \subseteq Text /\ Suggested \in Text
         /\ mounted => stored = Draft(editor, mode)
  BY DEF Composing, ComposerShape, ComposerTypeOK, StoredIsShown, Modes, Hints, FileStates, Fates, Own, Text

\* The mode shown is the one each text was written in, or switched to.
LEMMA NotesShown == ASSUME Composing PROVE NotesStayInternal
<1>1. mounted /\ editor # {} => stored # Nothing /\ stored.text = editor /\ stored.mode = mode
  BY ShapeParts, Drafts
<1> QED
  BY <1>1 DEF NotesStayInternal, Composing, DraftsMeant

\* The text becomes another, in mode m: typed, erased, replaced or switched by the agent, or
\* replaced by a tool, whose call then is over.
LEMMA TextChanges ==
  ASSUME Composing, alone' = alone, alone => hurry' = 0, mounted,
         NEW text \in SUBSET Text, NEW m \in Modes,
         editor' = text, mode' = m, stored' = Draft(text, m),
         UNCHANGED <<mounted, saving, sends, files, sent, mishap>>, ai' \in {ai, Nothing}, inserted' \in BOOLEAN,
         menu' \in BOOLEAN, hint' \in Hints, fate' \in [Own -> Fates], meant' \in [Own -> Modes],
         \A p \in Own : fate'[p] = "unwritten" => fate[p] = "unwritten" /\ p \notin text,
         \A p \in Piece : fate'[p] = "written" =>
            \/ p \in text /\ ~Waiting
            \/ p \in text /\ p \in editor /\ fate[p] = "written"
            \/ p \notin text /\ p \notin editor /\ fate[p] = "written",
         \A p \in Piece \cap text : meant'[p] = m /\ (p \in editor \/ fate[p] = "unwritten")
  PROVE  Composing'
<1>1. /\ stored' \in {Nothing} \cup DraftRow
      /\ text = {} => stored' = Nothing
      /\ text # {} => stored' # Nothing /\ stored'.text = text /\ stored'.mode = m
  BY Drafts
<1>2. /\ editor = {} => stored = Nothing
      /\ editor # {} => stored # Nothing /\ stored.text = editor
  BY ShapeParts, Drafts
<1>3. stored' = Nothing \/ stored'.text \in (SUBSET Text) \ {{}}
  BY <1>1
<1>4. ComposerShape'
  BY <1>1, <1>3 DEF Composing, ComposerShape, ComposerTypeOK, Modes, Hints, Fates
<1>5. StoredIsShown' /\ EditorThere'
  BY DEF StoredIsShown, EditorThere, Composing, InFlight
<1>6. NothingLost'
  BY <1>1, <1>2 DEF NothingLost, Composing
<1>7. CallsCover'
  BY DEF CallsCover, Covers, Composing, InFlight, Waiting
<1>8. Unwritten'
  BY <1>1, <1>2 DEF Unwritten, Nowhere, Composing, InFlight
<1>9. OneSend'
  BY <1>1, <1>2, ShapeParts DEF OneSend, Unwritten, Nowhere, Composing, InFlight
<1>10. DraftsMeant'
  BY <1>1 DEF DraftsMeant
<1>11. Patient'
  BY DEF Patient, Pending, FilesFollow, Composing, InFlight
<1> QED
  BY <1>4, <1>5, <1>6, <1>7, <1>8, <1>9, <1>10, <1>11 DEF Composing

LEMMA Typed ==
  ASSUME Composing, alone' = alone, alone => hurry' = 0, NEW p \in Piece, Type(p)
  PROVE  Composing'
<1> DEFINE text == editor \cup {p}
<1>1. text \in SUBSET Text /\ mode \in Modes
  BY ShapeParts
<1>2. /\ hint' \in Hints /\ fate' \in [Own -> Fates] /\ meant' \in [Own -> Modes] /\ menu' \in BOOLEAN
      /\ inserted' \in BOOLEAN
  BY ShapeParts DEF Type, ClearHint, Hints, Fates
<1>3. \A q \in Own : q # p => fate'[q] = fate[q] /\ meant'[q] = meant[q]
  BY ShapeParts DEF Type
<1>4. fate'[p] = (IF Waiting THEN "late" ELSE "written") /\ meant'[p] = mode
  BY ShapeParts DEF Type
<1>5. \A q \in Own : fate'[q] = "unwritten" => fate[q] = "unwritten" /\ q \notin text
  BY <1>3, <1>4 DEF Composing, Unwritten, Nowhere
<1>6. \A q \in Piece : fate'[q] = "written" =>
         \/ q \in text /\ ~Waiting
         \/ q \in text /\ q \in editor /\ fate[q] = "written"
         \/ q \notin text /\ q \notin editor /\ fate[q] = "written"
  BY <1>3, <1>4, ShapeParts
<1>7. \A q \in Piece \cap text : meant'[q] = mode /\ (q \in editor \/ fate[q] = "unwritten")
  BY <1>3, <1>4, ShapeParts, NotesShown DEF Type, NotesStayInternal
<1> QED
  BY <1>1, <1>2, <1>5, <1>6, <1>7, TextChanges DEF Type, Save

LEMMA Erased ==
  ASSUME Composing, alone' = alone, alone => hurry' = 0, NEW t \in editor, Erase(t)
  PROVE  Composing'
<1> DEFINE text == editor \ {t}
<1>1. text \in SUBSET Text /\ mode \in Modes
  BY ShapeParts
<1>2. /\ hint' \in Hints /\ fate' \in [Own -> Fates] /\ meant' \in [Own -> Modes] /\ menu' \in BOOLEAN
      /\ inserted' \in BOOLEAN
  BY ShapeParts DEF Erase, ClearHint, Hints, Fates
<1>3. \A q \in Own : fate'[q] = (IF q = t THEN "given" ELSE fate[q]) /\ meant'[q] = meant[q]
  BY DEF Erase
<1>4. \A q \in Own : fate'[q] = "unwritten" => fate[q] = "unwritten" /\ q \notin text
  BY <1>3 DEF Composing, Unwritten, Nowhere
<1>5. \A q \in Piece : fate'[q] = "written" =>
         \/ q \in text /\ q \in editor /\ fate[q] = "written"
         \/ q \notin text /\ q \notin editor /\ fate[q] = "written"
  BY <1>3, ShapeParts
<1>6. \A q \in Piece \cap text : meant'[q] = mode /\ q \in editor
  BY <1>3, ShapeParts, NotesShown DEF Erase, NotesStayInternal
<1> QED
  BY <1>1, <1>2, <1>4, <1>5, <1>6, TextChanges DEF Erase, Save

LEMMA ModeChanged ==
  ASSUME Composing, alone' = alone, alone => hurry' = 0, ChangeMode
  PROVE  Composing'
<1>1. editor \in SUBSET Text /\ mode' \in Modes
  BY ShapeParts DEF ChangeMode, Modes
<1>2. /\ hint' \in Hints /\ fate' \in [Own -> Fates] /\ meant' \in [Own -> Modes] /\ menu' \in BOOLEAN
      /\ inserted' \in BOOLEAN
  BY <1>1, ShapeParts DEF ChangeMode
<1>3. \A q \in Own : fate[q] = "unwritten" => q \notin editor
  BY DEF Composing, Unwritten, Nowhere
<1>4. \A q \in Piece \cap editor : meant'[q] = mode'
  BY ShapeParts DEF ChangeMode
<1> QED
  BY <1>1, <1>2, <1>3, <1>4, TextChanges DEF ChangeMode, Save

\* A text none of the agent's takes the place of some of hers, given up or struck.
LEMMA TextReplaced ==
  ASSUME Composing, alone' = alone, alone => hurry' = 0, mounted,
         NEW gone \in SUBSET Text, editor' = (editor \ gone) \cup {Suggested}, Save(editor', mode),
         \A p \in Own : fate'[p] = IF p \in gone \cap editor THEN fate'[p] ELSE fate[p],
         \A p \in Own \cap gone \cap editor : fate'[p] \in {"given", "struck"},
         fate' \in [Own -> Fates], UNCHANGED <<mode, mounted, saving, sends, files, sent, meant, mishap, menu>>,
         ai' \in {ai, Nothing}, hint' \in Hints, inserted' \in BOOLEAN
  PROVE  Composing'
<1> DEFINE text == (editor \ gone) \cup {Suggested}
<1>1. text \in SUBSET Text /\ mode \in Modes
  BY ShapeParts
<1>2. fate' \in [Own -> Fates] /\ meant' \in [Own -> Modes] /\ menu' \in BOOLEAN
  BY ShapeParts
<1>3. Suggested \notin Own
  BY ComposerAssumption DEF Own
<1>4. \A q \in Own : fate'[q] = "unwritten" => fate[q] = "unwritten" /\ q \notin text
  BY <1>3 DEF Composing, Unwritten, Nowhere
<1>5. \A q \in Piece : fate'[q] = "written" =>
         \/ q \in text /\ q \in editor /\ fate[q] = "written"
         \/ q \notin text /\ q \notin editor /\ fate[q] = "written"
  BY <1>3, ShapeParts
<1>6. \A q \in Piece \cap text : meant'[q] = mode /\ q \in editor
  BY <1>3, ShapeParts, NotesShown DEF NotesStayInternal
<1> QED
  BY <1>1, <1>2, <1>4, <1>5, <1>6, TextChanges DEF Save

LEMMA HintAccepted ==
  ASSUME Composing, alone' = alone, alone => hurry' = 0, AcceptHint
  PROVE  Composing'
<1> DEFINE text == editor \cup {Completion}
<1>1. text \in SUBSET Text /\ mode \in Modes
  BY ShapeParts
<1>2. /\ hint' \in Hints /\ fate' \in [Own -> Fates] /\ meant' \in [Own -> Modes] /\ menu' \in BOOLEAN
      /\ inserted' \in BOOLEAN
  BY ShapeParts DEF AcceptHint, Hints, Fates
<1>3. /\ \A q \in Own : q # Completion => fate'[q] = fate[q] /\ meant'[q] = meant[q]
      /\ fate'[Completion] # "unwritten"
  BY ShapeParts DEF AcceptHint
<1>4. \A q \in Own : fate'[q] = "unwritten" => fate[q] = "unwritten" /\ q \notin text
  BY <1>3 DEF Composing, Unwritten, Nowhere
<1>5. \A q \in Piece : q # Completion /\ q \in Own
  BY ComposerAssumption DEF Own
<1>6. \A q \in Piece : fate'[q] = "written" =>
         \/ q \in text /\ q \in editor /\ fate[q] = "written"
         \/ q \notin text /\ q \notin editor /\ fate[q] = "written"
  BY <1>3, <1>5
<1>7. \A q \in Piece \cap text : meant'[q] = mode /\ q \in editor
  BY <1>3, <1>5, NotesShown DEF AcceptHint, NotesStayInternal
<1> QED
  BY <1>1, <1>2, <1>4, <1>6, <1>7, TextChanges DEF AcceptHint, Save

\* Neither the text, nor the draft, nor a message changes; a call of a tool may begin with
\* part of the text or with all of it, or end.
LEMMA TextStays ==
  ASSUME Composing, alone' = alone, alone => hurry' = 0,
         UNCHANGED <<editor, mode, stored, mounted, saving, sends, sent, fate, meant, mishap>>,
         menu' \in BOOLEAN, mounted \/ ~menu', hint' \in Hints, inserted' \in BOOLEAN,
         files' \in [Upload -> FileStates],
         alone => FilesFollow',
         alone /\ InFlight # {} => UNCHANGED files /\ ai' \in {ai, Nothing},
         \/ ai' \in {ai, Nothing}
         \/ /\ mounted /\ ai' \in InCall({"whole", "selection"})
            /\ ai'.kind = "whole" => ai'.text = editor
  PROVE  Composing'
<1>1. Nothing \notin InCall({"whole", "selection"})
  BY NothingApart
<1>2. ComposerShape'
  BY DEF Composing, ComposerShape, ComposerTypeOK, Hints, FileStates
<1>3. StoredIsShown' /\ EditorThere' /\ NothingLost'
  BY DEF StoredIsShown, EditorThere, NothingLost, Composing, InFlight
<1>4. CallsCover'
  BY DEF CallsCover, Covers, Composing, InFlight
<1>5. Unwritten' /\ OneSend'
  BY DEF Unwritten, OneSend, Nowhere, Composing, InFlight
<1>6. DraftsMeant'
  BY DEF DraftsMeant, Composing
<1>7. Patient'
  BY DEF Patient, Pending, Composing, InFlight
<1> QED
  BY <1>2, <1>3, <1>4, <1>5, <1>6, <1>7 DEF Composing

LEMMA RequestInserted ==
  ASSUME Composing, alone' = alone, alone => hurry' = 0, InsertRequest
  PROVE  Composing'
<1>1. /\ inserted' \in BOOLEAN /\ menu' \in BOOLEAN /\ (mounted \/ ~menu')
      /\ UNCHANGED <<mode, mounted, menu, saving, sends, ai, files, sent, meant, mishap>>
  BY ShapeParts DEF InsertRequest, Composing, EditorThere
<1>2. CASE mounted /\ Suggests(editor, mode) /\ ClearHint
  <2>1. editor \in SUBSET Text /\ hint' \in Hints
    BY <1>2, ShapeParts DEF ClearHint, Hints
  <2>2. editor' = (editor \ editor) \cup {Suggested} /\ Save(editor', mode)
    BY <1>2 DEF Suggests
  <2>3. /\ fate' \in [Own -> Fates] /\ \A p \in Own \cap editor : fate'[p] \in {"given", "struck"}
        /\ \A p \in Own : fate'[p] = IF p \in editor THEN fate'[p] ELSE fate[p]
    BY <1>2, ShapeParts DEF Suggests, Fates
  <2> QED
    BY <1>1, <1>2, <2>1, <2>2, <2>3, TextReplaced
<1>3. CASE UNCHANGED <<editor, stored, fate, hint>>
  <2>1. hint' \in Hints /\ files' \in [Upload -> FileStates] /\ (alone => FilesFollow')
    BY <1>1, <1>3, ShapeParts DEF Composing, Patient, FilesFollow
  <2> QED
    BY <1>1, <1>3, <2>1, TextStays
<1> QED
  BY <1>2, <1>3 DEF InsertRequest

LEMMA MenuAndHints ==
  ASSUME Composing, alone' = alone, alone => hurry' = 0, OpenMenu \/ AskHint \/ AnswerHint
  PROVE  Composing'
<1>1. /\ UNCHANGED <<editor, mode, stored, mounted, saving, sends, ai, files, sent, fate, meant, mishap>>
      /\ inserted' \in BOOLEAN
  BY ShapeParts DEF OpenMenu, AskHint, AnswerHint
<1>2. menu' \in BOOLEAN /\ (mounted \/ ~menu') /\ hint' \in Hints
  <2>1. menu \in BOOLEAN /\ (mounted \/ ~menu) /\ hint \in Hints
    BY ShapeParts DEF Composing, EditorThere
  <2>2. CASE OpenMenu
    BY <2>1, <2>2 DEF OpenMenu
  <2>3. CASE AskHint
    BY <2>1, <2>3 DEF AskHint, Hints
  <2>4. CASE AnswerHint
    BY <2>1, <2>4 DEF AnswerHint, Hints
  <2> QED
    BY <2>2, <2>3, <2>4
<1>3. files' \in [Upload -> FileStates] /\ (alone => FilesFollow')
  BY <1>1, ShapeParts DEF Composing, Patient, FilesFollow
<1> QED
  BY <1>1, <1>2, <1>3, TextStays

LEMMA ToolBegins ==
  ASSUME Composing, alone' = alone, alone => hurry' = 0 /\ ~Waiting,
         NEW kind \in {"whole", "selection"}, NEW text \in SUBSET Text, kind = "whole" => text = editor,
         RunAiAction(kind, text)
  PROVE  Composing'
<1>1. /\ UNCHANGED <<editor, mode, stored, mounted, saving, sends, files, sent, fate, meant, mishap, menu>>
      /\ mounted /\ hint' \in Hints /\ inserted' \in BOOLEAN
  BY ShapeParts DEF RunAiAction, ClearHint, Hints
<1>2. ai' \in InCall({"whole", "selection"}) /\ (ai'.kind = "whole" => ai'.text = editor)
  BY ShapeParts DEF RunAiAction, Call, InCall
<1>3. menu' \in BOOLEAN /\ files' \in [Upload -> FileStates] /\ (alone => FilesFollow' /\ InFlight = {})
  BY <1>1, ShapeParts DEF Composing, Patient, FilesFollow, Waiting
<1> QED
  BY <1>1, <1>2, <1>3, TextStays

\* The answer about a selection arrives over what is selected then.
LEMMA SelectionAnswered ==
  ASSUME Composing, alone' = alone, alone => hurry' = 0, mounted, NEW over \in SUBSET editor,
         editor' = (editor \ over) \cup {Suggested}, Save(editor', mode), ClearHint, ai' = Nothing,
         fate' = [p \in Own |-> IF p \notin over THEN fate[p]
                                ELSE IF p \in ai.text THEN "given" ELSE "struck"],
         UNCHANGED <<mode, mounted, menu, saving, sends, inserted, files, sent, meant, mishap>>
  PROVE  Composing'
<1>1. over \in SUBSET Text /\ hint' \in Hints /\ inserted' \in BOOLEAN
  BY ShapeParts DEF ClearHint, Hints
<1>2. /\ fate' \in [Own -> Fates] /\ \A p \in Own \cap over \cap editor : fate'[p] \in {"given", "struck"}
      /\ \A p \in Own : fate'[p] = IF p \in over \cap editor THEN fate'[p] ELSE fate[p]
  BY ShapeParts DEF Fates
<1> QED
  BY <1>1, <1>2, TextReplaced

LEMMA ToolEnds ==
  ASSUME Composing, alone' = alone, alone => hurry' = 0, AiAnswers \/ AiFails
  PROVE  Composing'
<1>1. CASE UNCHANGED <<editor, stored, fate, hint>>
  <2>1. /\ UNCHANGED <<editor, mode, stored, mounted, saving, sends, files, sent, fate, meant, mishap, menu, hint>>
        /\ ai' = Nothing /\ inserted' \in BOOLEAN
    BY <1>1, ShapeParts DEF AiFails, AiAnswers
  <2>2. menu' \in BOOLEAN /\ (mounted \/ ~menu') /\ hint' \in Hints
    BY <2>1, ShapeParts DEF Composing, EditorThere
  <2>3. files' \in [Upload -> FileStates] /\ (alone => FilesFollow')
    BY <2>1, ShapeParts DEF Composing, Patient, FilesFollow
  <2> QED
    BY <2>1, <2>2, <2>3, TextStays
<1>2. CASE AiAnswers /\ ai.kind = "selection" /\ ~UNCHANGED <<editor, stored, fate, hint>>
  <2>1. PICK over \in SUBSET editor :
          /\ mounted /\ editor' = (editor \ over) \cup {Suggested} /\ Save(editor', mode) /\ ClearHint
          /\ fate' = [p \in Own |-> IF p \notin over THEN fate[p]
                                    ELSE IF p \in ai.text THEN "given" ELSE "struck"]
    BY <1>2 DEF AiAnswers
  <2>2. ai' = Nothing /\ UNCHANGED <<mode, mounted, menu, saving, sends, inserted, files, sent, meant, mishap>>
    BY <1>2 DEF AiAnswers
  <2> QED
    BY <2>1, <2>2, SelectionAnswered
<1>3. CASE AiAnswers /\ ai.kind # "selection" /\ ~UNCHANGED <<editor, stored, fate, hint>>
  <2> DEFINE text == {Suggested}
  <2>1. /\ ai.kind = "whole" /\ ~ai.orphan /\ ai # Nothing /\ ai' = Nothing
        /\ editor' = text /\ Save(editor', mode)
        /\ fate' = [p \in Own |-> IF p \in ai.text \cap editor THEN "given" ELSE fate[p]]
        /\ hint' = IF hint = "shown" THEN "none" ELSE hint
        /\ UNCHANGED <<mode, mounted, menu, saving, sends, inserted, files, sent, meant, mishap>>
    BY <1>3 DEF AiAnswers
  <2>2. mounted /\ mode \in Modes /\ inserted' \in BOOLEAN /\ hint' \in Hints
    BY <2>1, ShapeParts DEF Composing, EditorThere, Hints
  <2>3. text \in SUBSET Text /\ stored' = Draft(text, mode)
    BY <2>1, ShapeParts DEF Save
  <2>4. Suggested \notin Own
    BY ComposerAssumption DEF Own
  <2>5. fate' \in [Own -> Fates] /\ meant' \in [Own -> Modes] /\ menu' \in BOOLEAN
    BY <2>1, ShapeParts DEF Fates
  <2>6. \A q \in Own : fate'[q] = "unwritten" => fate[q] = "unwritten" /\ q \notin text
    BY <2>1, <2>4
  <2>7. \A q \in Piece : fate'[q] = "written" => q \notin text /\ q \notin editor /\ fate[q] = "written"
    BY <2>1, <2>4, ShapeParts DEF Composing, CallsCover, Covers
  <2>8. \A q \in Piece \cap text : meant'[q] = mode /\ q \in editor
    BY <2>4, ShapeParts
  <2> HIDE DEF text
  <2> QED
    BY <2>1, <2>2, <2>3, <2>5, <2>6, <2>7, <2>8, TextChanges
<1> QED
  BY <1>1, <1>2, <1>3 DEF AiFails

\* The steps of a file's upload and removal.
LEMMA FilePut ==
  ASSUME Composing, alone' = alone, alone => hurry' = 0, NEW f \in Upload,
         NEW from, NEW to \in FileStates, to # "loose", Put(f, from, to),
         alone => Pending(f) \/ ~Waiting
  PROVE  Composing'
<1>1. /\ UNCHANGED <<editor, mode, stored, mounted, menu, saving, sends, ai, hint, sent, fate, meant, mishap>>
      /\ inserted' \in BOOLEAN
  BY ShapeParts DEF Put
<1>2. menu' \in BOOLEAN /\ (mounted \/ ~menu') /\ hint' \in Hints
  BY <1>1, ShapeParts DEF Composing, EditorThere
<1>3. files' = [files EXCEPT ![f] = to] /\ files \in [Upload -> FileStates]
  BY ShapeParts DEF Put
<1>4. alone => FilesFollow'
  BY <1>3 DEF Composing, Patient, FilesFollow
<1>5. alone => InFlight = {}
  BY DEF Waiting, Composing, Patient
<1> QED
  BY <1>1, <1>2, <1>3, <1>4, <1>5, TextStays

LEMMA FileMoves ==
  ASSUME Composing, alone' = alone, alone => hurry' = 0, NEW f \in Upload,
         \/ UploadEnds(f) \/ UploadFails(f) \/ Removed(f) \/ RemoveFails(f)
         \/ (UploadFile(f) \/ RemoveAttachment(f)) /\ (alone => ~Waiting)
  PROVE  Composing'
<1> DEFINE Puts(from, to) == Put(f, from, to) /\ (alone => Pending(f) \/ ~Waiting)
<1>1. ASSUME NEW from, NEW to \in FileStates \ {"loose"}, Puts(from, to) PROVE Composing'
  BY <1>1, FilePut
<1>2. \/ Puts({"uploading"}, "listed") \/ Puts({"orphan"}, "dropped") \/ Puts({"uploading", "orphan"}, "none")
      \/ Puts({"removing", "withdrawn"}, "deleted") \/ Puts({"removing"}, "listed")
      \/ Puts({"removing"}, "dropped") \/ Puts({"withdrawn"}, "sent")
      \/ Puts({"none"}, "uploading") \/ Puts({"listed"}, "removing")
  BY DEF UploadEnds, UploadFails, Removed, RemoveFails, UploadFile, RemoveAttachment, Put, Pending
<1>3. {"listed", "dropped", "none", "deleted", "sent", "uploading", "removing"} \subseteq FileStates \ {"loose"}
  BY DEF FileStates
<1> HIDE DEF Puts
<1> QED
  BY <1>1, <1>2, <1>3

(***************************************************************************)
(* The editor comes and goes, and messages are sent.                       *)
(***************************************************************************)

\* A call made an orphan is that call otherwise.
LEMMA Orphaned ==
  ASSUME NEW kinds, "none" \notin kinds, NEW c \in InCall(kinds)
  PROVE  /\ [c EXCEPT !.orphan = TRUE] \in InCall(kinds) /\ [c EXCEPT !.orphan = TRUE] # Nothing
         /\ [c EXCEPT !.orphan = TRUE].orphan
         /\ [c EXCEPT !.orphan = TRUE].text = c.text /\ [c EXCEPT !.orphan = TRUE].kind = c.kind
  BY NothingApart DEF InCall

\* The editor goes, with some calls gone as well and files moved on: whatever the agent
\* wrote is in the draft, or in the message that has just been recorded.
LEMMA EditorGoes ==
  ASSUME Composing, alone' = alone, alone => hurry' = 0,
         NEW flying \in [Send -> {Nothing} \cup InCall({"send", "close"})],
         \A s \in Send : flying[s] \in {sends[s], Nothing},
         NEW where \in [Upload -> FileStates], NEW leftover \in FileStates, Unmount(flying, where, leftover),
         sent' \in [Own -> Nat], stored' = stored \/ (stored' = Nothing /\ mounted), UNCHANGED <<fate, meant>>,
         inserted' \in BOOLEAN, mishap' \in BOOLEAN, ~mishap' => ~mishap /\ \A s \in Send : flying[s] = Nothing,
         \A p \in Own : sent'[p] >= sent[p],
         stored' = Nothing => \A p \in Piece \cap editor : fate[p] = "written" => sent'[p] > 0,
         \A p \in Own : fate[p] = "unwritten" => sent'[p] = 0,
         ~mishap' => \A p \in Piece : sent'[p] < 2 /\ (sent'[p] > 0 => stored' = Nothing \/ p \notin stored.text),
         alone => /\ \A f \in Upload : where[f] # "loose" /\ (where[f] = "listed" => leftover # "loose")
                  /\ \A s \in Send : flying[s] = Nothing
  PROVE  Composing'
<1>1. /\ mounted' = FALSE /\ editor' = {} /\ mode' = "public" /\ menu' = FALSE /\ saving' = FALSE
      /\ hint' = "none"
      /\ ai' = IF ai = Nothing THEN Nothing ELSE [ai EXCEPT !.orphan = TRUE]
  BY DEF Unmount
<1>2. /\ sends' \in [Send -> {Nothing} \cup InCall({"send", "close"})]
      /\ \A s \in Send : sends'[s] # Nothing =>
           flying[s] # Nothing /\ sends[s] # Nothing /\ sends'[s].orphan /\ sends'[s].text = sends[s].text
  <2>1. \A s \in Send : flying[s] = Nothing \/ flying[s] \in InCall({"send", "close"})
    OBVIOUS
  <2>2. sends' = [s \in Send |-> IF flying[s] = Nothing THEN Nothing ELSE [flying[s] EXCEPT !.orphan = TRUE]]
    BY DEF Unmount
  <2> QED
    BY <2>1, <2>2, Orphaned
<1>3. files' \in [Upload -> FileStates]
  BY DEF Unmount, FileStates
<1>4. ai' \in {Nothing} \cup InCall({"whole", "selection"}) /\ (ai' # Nothing => ai'.orphan)
  BY <1>1, Orphaned DEF Composing, ComposerShape
<1>5. ComposerShape'
  <2>1. /\ stored' \in {Nothing} \cup DraftRow
        /\ stored' = Nothing \/ stored'.text \in (SUBSET Text) \ {{}}
        /\ fate \in [Own -> Fates] /\ meant \in [Own -> Modes] /\ mishap' \in BOOLEAN
    BY ShapeParts DEF Composing, ComposerShape, ComposerTypeOK
  <2>2. ComposerTypeOK'
    BY <1>1, <1>3, <2>1 DEF ComposerTypeOK, FileStates, Fates
  <2> QED
    BY <1>2, <1>4, <2>1, <2>2 DEF ComposerShape
<1>6. StoredIsShown' /\ EditorThere'
  BY <1>1, <1>2, <1>4 DEF StoredIsShown, EditorThere, InFlight
<1>7. NothingLost'
  <2>1. SUFFICES ASSUME NEW p \in Piece, fate[p] = "written"
                 PROVE  (stored' # Nothing /\ p \in stored'.text) \/ sent'[p] > 0
    BY DEF NothingLost
  <2>2. CASE sent[p] > 0
    BY <2>2, ShapeParts DEF Composing, ComposerShape
  <2>3. CASE p \in editor
    <3>1. stored # Nothing /\ p \in stored.text
      BY <2>3, ShapeParts, Drafts DEF Composing, EditorThere
    <3> QED
      BY <2>1, <2>3, <3>1
  <2>4. CASE stored # Nothing /\ p \in stored.text
    <3>1. CASE stored' = stored
      BY <2>4, <3>1
    <3>2. CASE stored' = Nothing /\ mounted
      BY <2>1, <2>4, <3>2, ShapeParts, Drafts
    <3> QED
      BY <3>1, <3>2
  <2> QED
    BY <2>1, <2>2, <2>3, <2>4 DEF Composing, NothingLost
<1>8. CallsCover'
  BY <1>2, <1>4 DEF CallsCover, InFlight
<1>9. Unwritten'
  BY <1>1, <1>2 DEF Unwritten, Nowhere, Composing, InFlight
<1>10. OneSend'
  BY <1>1, <1>2 DEF OneSend, Nowhere, InFlight
<1>11. DraftsMeant'
  BY DEF DraftsMeant, Composing
<1>12. Patient'
  BY <1>2 DEF Patient, FilesFollow, InFlight, Unmount, FileStates
<1> QED
  BY <1>5, <1>6, <1>7, <1>8, <1>9, <1>10, <1>11, <1>12 DEF Composing

LEMMA Hidden ==
  ASSUME Composing, alone' = alone, alone => hurry' = 0 /\ ~Waiting, Hide
  PROVE  Composing'
<1>1. /\ Unmount(sends, files, "dropped") /\ UNCHANGED <<inserted, stored, sent, fate, meant>>
      /\ mishap' = (mishap \/ InFlight # {}) /\ "dropped" \in FileStates
  BY DEF Hide, FileStates
<1>2. /\ inserted' \in BOOLEAN
      /\ sends \in [Send -> {Nothing} \cup InCall({"send", "close"})] /\ files \in [Upload -> FileStates]
      /\ sent \in [Own -> Nat] /\ mishap \in BOOLEAN
  BY <1>1, ShapeParts DEF Composing, ComposerShape, ComposerTypeOK
<1>3. InFlight = {} => \A s \in Send : sends[s] = Nothing
  BY DEF InFlight
<1>4. ~mishap' => \A p \in Piece : sent[p] < 2 /\ (sent[p] > 0 => stored = Nothing \/ p \notin stored.text)
  BY <1>1 DEF Composing, OneSend, Nowhere
<1>5. \A p \in Own : fate[p] = "unwritten" => sent[p] = 0
  BY DEF Composing, Unwritten
<1>6. alone => InFlight = {} /\ \A f \in Upload : files[f] # "loose"
  BY DEF Composing, Patient, FilesFollow, Waiting
<1>7. stored' = Nothing => \A p \in Piece \cap editor : fate[p] = "written" => sent'[p] > 0
  BY <1>1, ShapeParts, Drafts DEF Hide
<1>8. \A p \in Own : sent'[p] >= sent[p]
  BY <1>1, <1>2
<1> QED
  BY <1>1, <1>2, <1>3, <1>4, <1>5, <1>6, <1>7, <1>8, EditorGoes

\* What a recorded message does to the counts.
LEMMA Counted ==
  ASSUME sent \in [Own -> Nat], NEW c, Recorded(c)
  PROVE  /\ sent' \in [Own -> Nat]
         /\ \A p \in Own : /\ sent'[p] >= sent[p]
                           /\ p \in c.text => sent'[p] > 0
                           /\ p \notin c.text => sent'[p] = sent[p]
                           /\ sent[p] = 0 => sent'[p] < 2
  BY DEF Recorded

LEMMA WithMessageType ==
  ASSUME files \in [Upload -> FileStates], NEW c
  PROVE  /\ WithMessage(c) \in [Upload -> FileStates]
         /\ \A f \in Upload : /\ WithMessage(c)[f] = "listed" => files[f] = "listed" /\ f \notin c.files
                              /\ WithMessage(c)[f] = "loose" => files[f] = "loose"
  BY DEF WithMessage, FileStates

LEMMA SendEnded ==
  ASSUME Composing, alone' = alone, alone => hurry' = 0, NEW s \in Send, SendEnds(s)
  PROVE  Composing'
<1> DEFINE c == sends[s]
           flying == [sends EXCEPT ![s] = Nothing]
<1>1. /\ Unmount(flying, WithMessage(c), "loose") /\ UNCHANGED <<inserted, fate, meant, mishap>>
      /\ Recorded(c) /\ stored' = Nothing /\ c.kind = "send" /\ ~c.orphan /\ "loose" \in FileStates
  BY DEF SendEnds, FileStates
<1>2. /\ inserted' \in BOOLEAN
      /\ sends \in [Send -> {Nothing} \cup InCall({"send", "close"})] /\ files \in [Upload -> FileStates]
      /\ sent \in [Own -> Nat] /\ mishap \in BOOLEAN
  BY <1>1, ShapeParts DEF Composing, ComposerShape, ComposerTypeOK
<1>3. s \in InFlight /\ mounted
  BY <1>1 DEF InFlight, Nothing, Composing, EditorThere
<1>4. flying \in [Send -> {Nothing} \cup InCall({"send", "close"})] /\ \A t \in Send : flying[t] \in {sends[t], Nothing}
  BY <1>2
<1>5. InFlight = {s} => \A t \in Send : flying[t] = Nothing
  BY <1>2 DEF InFlight
<1>6. ~mishap => InFlight = {s} /\ \A p \in Piece : sent[p] < 2 /\ (sent[p] > 0 => p \notin c.text)
  BY <1>3 DEF Composing, OneSend, Nowhere
<1>7. /\ sent' \in [Own -> Nat] /\ \A p \in Own : sent'[p] >= sent[p]
      /\ \A p \in Own : fate[p] = "unwritten" => sent'[p] = 0
      /\ ~mishap => \A p \in Piece : sent'[p] < 2
  BY <1>1, <1>2, <1>3, <1>6, Counted, ShapeParts DEF Composing, Unwritten, Nowhere
<1>8. \A p \in Piece \cap editor : fate[p] = "written" => sent'[p] > 0
  BY <1>1, <1>2, <1>3, Counted, ShapeParts DEF Composing, CallsCover, Covers
<1>9. alone => /\ InFlight = {s}
               /\ \A f \in Upload : WithMessage(c)[f] # "loose" /\ WithMessage(c)[f] # "listed"
  BY <1>1, <1>2, <1>3, WithMessageType DEF Composing, Patient, FilesFollow
<1>10. WithMessage(c) \in [Upload -> FileStates]
  BY <1>2, WithMessageType
<1> HIDE DEF c, flying
<1> QED
  BY <1>1, <1>2, <1>3, <1>4, <1>5, <1>6, <1>7, <1>8, <1>9, <1>10, EditorGoes

LEMMA CloseEnded ==
  ASSUME Composing, alone' = alone, alone => hurry' = 0, NEW s \in Send, CloseEnds(s)
  PROVE  Composing'
<1> DEFINE flying == [sends EXCEPT ![s] = Nothing]
<1>1. /\ Unmount(flying, files, "dropped") /\ UNCHANGED <<inserted, stored, sent, fate, meant, mishap>>
      /\ sends[s].kind = "close" /\ "dropped" \in FileStates
  BY DEF CloseEnds, FileStates
<1>2. /\ inserted' \in BOOLEAN
      /\ sends \in [Send -> {Nothing} \cup InCall({"send", "close"})] /\ files \in [Upload -> FileStates]
      /\ sent \in [Own -> Nat] /\ mishap \in BOOLEAN
  BY <1>1, ShapeParts DEF Composing, ComposerShape, ComposerTypeOK
<1>3. s \in InFlight
  BY <1>1 DEF InFlight, Nothing
<1>4. flying \in [Send -> {Nothing} \cup InCall({"send", "close"})] /\ \A t \in Send : flying[t] \in {sends[t], Nothing}
  BY <1>2
<1>5. InFlight = {s} => \A t \in Send : flying[t] = Nothing
  BY <1>2 DEF InFlight
<1>6. ~mishap => /\ InFlight = {s}
                 /\ \A p \in Piece : sent[p] < 2 /\ (sent[p] > 0 => stored = Nothing \/ p \notin stored.text)
  BY <1>3 DEF Composing, OneSend, Nowhere
<1>7. stored = Nothing => \A p \in Piece \cap editor : fate[p] = "written" => sent[p] > 0
  BY ShapeParts, Drafts DEF Composing, EditorThere
<1>8. \A p \in Own : fate[p] = "unwritten" => sent[p] = 0
  BY DEF Composing, Unwritten
<1>9. alone => InFlight = {s} /\ \A f \in Upload : files[f] # "loose"
  BY <1>3 DEF Composing, Patient, FilesFollow
<1>10. sent' \in [Own -> Nat] /\ \A p \in Own : sent'[p] >= sent[p]
  BY <1>1, <1>2
<1> HIDE DEF flying
<1> QED
  BY <1>1, <1>2, <1>4, <1>5, <1>6, <1>7, <1>8, <1>9, <1>10, EditorGoes

\* The editor comes back with the stored draft.
LEMMA Shows ==
  ASSUME Composing, alone' = alone, alone => hurry' = 0, Show
  PROVE  Composing'
<1> DEFINE text == IF stored = Nothing THEN {} ELSE stored.text
           m == IF stored = Nothing THEN mode ELSE stored.mode
<1>1. /\ ~mounted /\ mounted' = TRUE /\ InFlight' = InFlight /\ mode' = m
      /\ UNCHANGED <<menu, saving, sends, ai, inserted, hint, files, sent, meant, mishap>>
      /\ Suggests(text, m) \/ (editor' = text /\ UNCHANGED <<stored, fate>>)
  BY DEF Show, InFlight
<1>2. /\ editor = {} /\ mode = "public" /\ text \in SUBSET Text /\ m \in Modes
      /\ stored = Draft(text, m) /\ (stored # Nothing => stored.text = text /\ stored.mode = m)
      /\ stored = Nothing => text = {}
  BY <1>1 DEF Composing, EditorThere, ComposerShape, DraftRow, Draft, Nothing, Modes
<1> HIDE DEF text, m
<1>3. CASE editor' = text /\ UNCHANGED <<stored, fate>>
  <2>1. ComposerShape' /\ StoredIsShown'
    BY <1>1, <1>2, <1>3 DEF Composing, ComposerShape, ComposerTypeOK, StoredIsShown, Modes
  <2> QED
    BY <1>1, <1>2, <1>3, <2>1
       DEF Composing, EditorThere, NothingLost, CallsCover, Covers, Unwritten, Nowhere, OneSend, DraftsMeant,
           Patient, Pending, FilesFollow
<1>4. CASE Suggests(text, m)
  <2>1. /\ editor' = {Suggested} /\ stored' = Draft({Suggested}, m) /\ Suggested \notin Own
        /\ fate' = [p \in Own |-> IF p \in text THEN "given" ELSE fate[p]]
    BY <1>4, ComposerAssumption DEF Suggests, Save, Own
  <2>2. /\ stored' \in DraftRow /\ stored' # Nothing /\ stored'.text = {Suggested} /\ stored'.mode = m
        /\ stored'.text \in (SUBSET Text) \ {{}}
    <3>1. {Suggested} \in SUBSET Text /\ {Suggested} # {}
      BY ShapeParts
    <3>2. Draft({Suggested}, m).text = {Suggested} /\ Draft({Suggested}, m).mode = m
          /\ Draft({Suggested}, m) \in DraftRow /\ Draft({Suggested}, m) # Nothing
      BY <1>2, <3>1, Drafts
    <3> QED
      BY <2>1, <3>1, <3>2
  <2>3. fate' \in [Own -> Fates]
    BY <2>1, ShapeParts DEF Fates
  <2>4. ComposerShape' /\ StoredIsShown'
    BY <1>1, <1>2, <2>1, <2>2, <2>3, ShapeParts
       DEF Composing, ComposerShape, ComposerTypeOK, StoredIsShown, Modes, Fates
  <2>5. EditorThere' /\ Patient'
    BY <1>1 DEF Composing, EditorThere, Patient, Pending, FilesFollow
  <2>6. \A p \in Piece : p \in Own /\ p \notin editor' /\ p \notin stored'.text
    BY <2>1, <2>2, ShapeParts
  <2>7. NothingLost'
    BY <1>1, <1>2, <2>1, <2>6, ShapeParts DEF Composing, NothingLost
  <2>8. CallsCover' /\ DraftsMeant'
    BY <1>1, <2>6 DEF CallsCover, Covers, DraftsMeant
  <2>9. \A p \in Own : Nowhere(p) => Nowhere(p)'
    BY <1>1, <2>1, <2>2 DEF Nowhere
  <2>10. Unwritten' /\ OneSend'
    BY <1>1, <2>1, <2>9, ShapeParts DEF Composing, Unwritten, OneSend
  <2> QED
    BY <2>4, <2>5, <2>7, <2>8, <2>10 DEF Composing
<1> QED
  BY <1>1, <1>3, <1>4

\* A call is posted: of the whole text, when it sends.
LEMMA Posted ==
  ASSUME Composing, alone' = alone, alone => hurry' = 0 /\ ~Waiting, NEW s \in Send,
         NEW c \in InCall({"send", "close"}), Posting(s, c), ClearHint,
         ~c.orphan /\ c.text \subseteq editor,
         c.kind = "send" => c.text = editor /\ c.files = Listed,
         mishap' \in BOOLEAN, ~mishap' => ~mishap /\ InFlight = {}
  PROVE  Composing'
<1>1. /\ mounted /\ sends[s] = Nothing /\ sends' = [sends EXCEPT ![s] = c] /\ saving' = TRUE
      /\ UNCHANGED <<editor, mode, stored, mounted, menu, ai, inserted, files, sent, fate, meant>>
  BY DEF Posting
<1>2. c # Nothing /\ sends \in [Send -> {Nothing} \cup InCall({"send", "close"})]
  BY NothingApart DEF Composing, ComposerShape
<1>3. /\ \A t \in Send : sends'[t] = IF t = s THEN c ELSE sends[t]
      /\ InFlight' = InFlight \cup {s}
  BY <1>1, <1>2 DEF InFlight
<1>4. hint' \in Hints
  BY ShapeParts DEF ClearHint, Hints
<1>5. ComposerShape'
  <2>1. sends' \in [Send -> {Nothing} \cup InCall({"send", "close"})]
    BY <1>1, <1>2
  <2> QED
    BY <1>1, <1>4, <2>1 DEF Composing, ComposerShape, ComposerTypeOK, Hints
<1>6. StoredIsShown' /\ EditorThere' /\ NothingLost'
  BY <1>1, <1>3 DEF StoredIsShown, EditorThere, NothingLost, Composing
<1>7. CallsCover'
  BY <1>1, <1>3 DEF CallsCover, Covers, Composing
<1>8. Unwritten'
  BY <1>1, <1>3 DEF Unwritten, Nowhere, Composing
<1>9. OneSend'
  BY <1>1, <1>3 DEF OneSend, Nowhere, Composing
<1>10. DraftsMeant'
  BY <1>1 DEF DraftsMeant, Composing
<1>11. Patient'
  BY <1>1, <1>3 DEF Patient, Pending, FilesFollow, Waiting, Listed, Composing
<1> QED
  BY <1>5, <1>6, <1>7, <1>8, <1>9, <1>10, <1>11 DEF Composing

LEMMA Sent ==
  ASSUME Composing, alone' = alone, alone => hurry' = 0 /\ ~Waiting, NEW s \in Send,
         SendButton(s) \/ MenuItem(s)
  PROVE  Composing'
<1>1. ~saving /\ ~mishap => InFlight = {}
  BY DEF Composing, OneSend
<1>2. mishap' \in BOOLEAN /\ (~mishap' => ~mishap /\ InFlight = {})
  BY <1>1 DEF SendButton, MenuItem, Composing, ComposerShape, ComposerTypeOK
<1>3. editor \in SUBSET Text /\ mode \in Modes /\ Listed \in SUBSET Upload
  BY ShapeParts DEF Listed
<1>4. CASE Submit(s)
  <2>1. PICK c : c = Call("send", editor, mode, Listed)
    OBVIOUS
  <2>2. /\ c \in InCall({"send", "close"}) /\ ~c.orphan /\ c.text \subseteq editor
        /\ c.text = editor /\ c.files = Listed
    BY <1>3, <2>1 DEF Call, InCall
  <2> QED
    BY <1>2, <1>4, <2>1, <2>2, Posted DEF Submit
<1>5. CASE CloseFromMenu(s)
  <2>1. PICK c : c = Call("close", {}, mode, {})
    OBVIOUS
  <2>2. c \in InCall({"send", "close"}) /\ ~c.orphan /\ c.text \subseteq editor /\ c.kind # "send"
    BY <1>3, <2>1 DEF Call, InCall
  <2> QED
    BY <1>2, <1>5, <2>1, <2>2, Posted DEF CloseFromMenu
<1> QED
  BY <1>4, <1>5 DEF SendButton, MenuItem

\* A call ends and the text stays: it was refused, or recorded and the answer lost or without
\* an editor.
LEMMA CallGone ==
  ASSUME Composing, alone' = alone, alone => hurry' = 0, NEW s \in InFlight,
         sends' = [sends EXCEPT ![s] = Nothing],
         UNCHANGED <<editor, mode, stored, mounted, menu, ai, inserted, hint, fate, meant>>,
         saving' \in BOOLEAN, saving' => saving,
         \/ UNCHANGED <<sent, files, mishap>>
         \/ Recorded(sends[s]) /\ files' = WithMessage(sends[s]) /\ mishap' = TRUE
  PROVE  Composing'
<1>1. /\ sends \in [Send -> {Nothing} \cup InCall({"send", "close"})] /\ sent \in [Own -> Nat]
      /\ files \in [Upload -> FileStates] /\ s \in Send
  BY ShapeParts DEF Composing, ComposerShape, InFlight
<1>2. /\ \A t \in Send : sends'[t] = IF t = s THEN Nothing ELSE sends[t]
      /\ InFlight' = InFlight \ {s}
  BY <1>1 DEF InFlight
<1>3. /\ sent' \in [Own -> Nat] /\ \A p \in Own : sent'[p] >= sent[p]
      /\ \A p \in Own : fate[p] = "unwritten" => sent'[p] = 0
  BY <1>1, Counted DEF Composing, Unwritten, Nowhere
<1>4. files' \in [Upload -> FileStates] /\ (alone => \A f \in Upload : files'[f] # "loose")
  BY <1>1, WithMessageType DEF Composing, Patient, FilesFollow
<1>5. ComposerShape'
  <2>1. sends' \in [Send -> {Nothing} \cup InCall({"send", "close"})]
    BY <1>1
  <2> QED
    BY <1>3, <1>4, <2>1 DEF Composing, ComposerShape, ComposerTypeOK, FileStates
<1>6. StoredIsShown' /\ EditorThere'
  BY <1>1, <1>2 DEF StoredIsShown, EditorThere, Composing
<1>7. NothingLost'
  BY <1>1, <1>3, ShapeParts DEF NothingLost, Composing
<1>8. CallsCover'
  BY <1>2 DEF CallsCover, Covers, Composing
<1>9. Unwritten'
  BY <1>2, <1>3 DEF Unwritten, Nowhere, Composing
<1>10. OneSend'
  BY <1>2 DEF OneSend, Nowhere, Composing
<1>11. DraftsMeant'
  BY DEF DraftsMeant, Composing
<1>12. Patient'
  BY <1>2, <1>4 DEF Patient, Pending, FilesFollow, Composing
<1> QED
  BY <1>5, <1>6, <1>7, <1>8, <1>9, <1>10, <1>11, <1>12 DEF Composing

LEMMA CallEnded ==
  ASSUME Composing, alone' = alone, alone => hurry' = 0, NEW s \in Send, SendEndsOrphaned(s) \/ CallFails(s)
  PROVE  Composing'
<1>1. s \in InFlight /\ (~mishap => ~sends[s].orphan) /\ saving \in BOOLEAN /\ mishap \in BOOLEAN
  BY DEF SendEndsOrphaned, CallFails, InFlight, Nothing, Composing, OneSend, ComposerShape, ComposerTypeOK
<1>2. CASE SendEndsOrphaned(s)
  BY <1>1, <1>2, CallGone DEF SendEndsOrphaned
<1>3. CASE CallFails(s)
  BY <1>1, <1>3, CallGone DEF CallFails
<1> QED
  BY <1>2, <1>3

LEMMA ComposingInit ==
  ASSUME ComposerInit, alone = (hurry = 0)
  PROVE  Composing
<1>1. InFlight = {}
  BY DEF ComposerInit, InFlight
<1>2. ComposerShape
  BY DEF ComposerInit, ComposerShape, ComposerTypeOK, Nothing, Modes
<1>3. StoredIsShown
  BY DEF ComposerInit, StoredIsShown, Draft
<1>4. EditorThere /\ CallsCover /\ DraftsMeant
  BY <1>1 DEF ComposerInit, EditorThere, CallsCover, DraftsMeant
<1>5. NothingLost /\ Unwritten /\ OneSend
  BY <1>1 DEF ComposerInit, NothingLost, Unwritten, Nowhere, Own, OneSend
<1>6. Patient
  BY <1>1 DEF ComposerInit, Patient, FilesFollow
<1> QED
  BY <1>2, <1>3, <1>4, <1>5, <1>6 DEF Composing

LEMMA ComposingStep ==
  ASSUME Composing, (ComposerAgent /\ (alone => ~Waiting)) \/ ComposerAnswers, alone' = alone, alone => hurry' = 0
  PROVE  Composing'
<1>1. CASE ComposerAgent /\ (alone => ~Waiting)
  <2>1. editor \in SUBSET Text /\ \A t \in editor : {t} \in SUBSET Text
    BY ShapeParts
  <2> QED
    BY <1>1, <2>1, Typed, Erased, ModeChanged, MenuAndHints, RequestInserted, HintAccepted, Hidden, Sent,
       ToolBegins, FileMoves DEF ComposerAgent
<1>2. CASE ComposerAnswers
  BY <1>2, Shows, MenuAndHints, ToolEnds, SendEnded, CallEnded, CloseEnded, FileMoves DEF ComposerAnswers
<1> QED
  BY <1>1, <1>2

(***************************************************************************)
(* The composer where the run exercises it.                                *)
(***************************************************************************)

ComposingInFocus ==
  /\ alone \in BOOLEAN
  /\ focus = "composer" => Composing

LEMMA ComposerMoves ==
  ASSUME ComposingInFocus, [AgentsNext]_agentVars
  PROVE  ComposingInFocus'
<1>1. CASE ComposerTurn
  <2>1. alone => hurry = 0
    BY <1>1 DEF ComposerTurn, ComposingInFocus, Composing, Patient
  <2>2. /\ alone' = alone /\ focus' = focus /\ Composing /\ (alone => hurry' = 0)
        /\ (ComposerAgent /\ (alone => ~Waiting)) \/ ComposerAnswers
    BY <1>1, <2>1 DEF ComposerTurn, ComposingInFocus
  <2> QED
    BY <2>2, ComposingStep DEF ComposingInFocus
<1>2. CASE LifecycleTurn \/ AccessTurn \/ PagesTurn
  BY <1>2 DEF LifecycleTurn, AccessTurn, PagesTurn, ComposingInFocus
<1>3. CASE UNCHANGED agentVars
  <2>1. UNCHANGED <<composerVars, focus, alone, hurry>>
    BY <1>3 DEF agentVars
  <2> QED
    BY <2>1 DEF ComposingInFocus, composerVars, Composing, ComposerShape, ComposerTypeOK, StoredIsShown, EditorThere,
       NothingLost, CallsCover, Covers, Unwritten, Nowhere, OneSend, DraftsMeant, Patient, Pending, FilesFollow,
       InFlight
<1> QED
  BY <1>1, <1>2, <1>3 DEF AgentsNext

LEMMA ComposerAlways == AgentsSpec => []ComposingInFocus
<1>1. AgentsInit => ComposingInFocus
  BY ComposingInit DEF AgentsInit, ComposingInFocus
<1>2. ComposingInFocus /\ [AgentsNext]_agentVars => ComposingInFocus'
  BY ComposerMoves
<1> QED
  BY <1>1, <1>2, PTL DEF AgentsSpec

\* Whatever the agent writes and however the calls of the composer overlap and fail: no text
\* written while nothing was in flight is lost, unless she has it selected when the answer
\* about another selection arrives; the draft is what is shown, no completion is sent that
\* was not accepted, and an agent who waits loses no file.
THEOREM ComposerKeepsAll == AgentsSpec => []ComposerKeeps
<1>1. ComposingInFocus => ComposerKeeps
  <2>1. Composing => HintNotSent
    BY DEF Composing, Unwritten, Nowhere, HintNotSent, InFlight, Own
  <2> QED
    BY <2>1 DEF ComposingInFocus, ComposerKeeps, Composing, ComposerShape, Patient
<1> QED
  BY <1>1, ComposerAlways, PTL

\* Without a mishap a text goes out at most once, and with or without one it is shown, and
\* so sent, in the mode it was written in or switched to.
THEOREM ComposerSendsOnce == AgentsSpec => []ComposerSends
<1>1. ComposingInFocus => ComposerSends
  <2>1. Composing => SentOnce /\ NotesStayInternal
    BY NotesShown DEF Composing, OneSend, SentOnce
  <2> QED
    BY <2>1 DEF ComposingInFocus, ComposerSends
<1> QED
  BY <1>1, ComposerAlways, PTL

(***************************************************************************)
(* A page.                                                                 *)
(***************************************************************************)

Hs == {"first", "other"}
CallRow == [does : Used, row : {"row1", "row2"}, filters : Nat, since : SUBSET Hs, reading : BOOLEAN]
LoadRow == [filters : Nat, current : BOOLEAN, since : SUBSET Hs, by : 0 .. 2]

PageShape ==
  /\ calls \in [Slot -> {NoCall} \cup CallRow] /\ loads \in [Slot -> {NoCall} \cup LoadRow]
  /\ cells = [c \in Cells |-> cells[c]]
  /\ form \in [typed : BOOLEAN, made : 0 .. 2] /\ shown \in [filters : Nat, unseen : SUBSET Hs]
  /\ filters \in Nat /\ calm \in BOOLEAN /\ failed \in BOOLEAN /\ late \in BOOLEAN

\* What PagesAssumption says of the two handlers used.
HandlersFit ==
  /\ Has("numbered") => \A h \in Used : Of(h).then # "replace"
  /\ first.creates =>
       /\ first.flag[1] = "loading" =>
            ~Has("queried") /\ \A h \in Used : Of(h).then \notin {"refresh", "reload", "choose"}
       /\ first.flag[2] = "row" \/ first.twoSteps \/ first.form = "kept" \/ first.flag \in first.off
       /\ \A h \in Used : Of(h).flag[1] = first.flag[1] /\ first.flag \in Of(h).off => Of(h).flag = first.flag

\* Only a handler that awaits a load is still in flight after its call succeeded, and it
\* awaits one of its own.
LoadFor(l, s) == loads[l] # NoCall /\ loads[l].by = s
ReadingLoads ==
  /\ \A s \in Slot : calls[s] # NoCall /\ calls[s].reading => Of(calls[s].does).then \in {"reload", "choose"}
  /\ \A l, s \in Slot : LoadFor(l, s) => calls[s] # NoCall /\ calls[s].reading
  /\ \A l, m, s \in Slot : LoadFor(l, s) /\ LoadFor(m, s) => l = m

\* A calm user has one call in flight, or the loads that follow one.
Waits ==
  calm =>
    /\ \A s, t \in Slot : calls[s] # NoCall /\ calls[t] # NoCall => s = t
    /\ \A s, l \in Slot : calls[s] # NoCall /\ loads[l] # NoCall => calls[s].reading
    /\ \A s \in Slot : calls[s] # NoCall /\ ~calls[s].reading => calls[s].since = {}

\* A load whose answer will be shown.
Wanted(l) == loads[l] # NoCall /\ (Has("numbered") => loads[l].current)
AwaitsLoad == \E l \in Slot : Wanted(l)
Orderly == calm \/ Has("numbered")

\* What is shown, or will be once the answers are in, is what was chosen ...
Choosing ==
  ~late /\ Orderly =>
    /\ \A l \in Slot : Wanted(l) => loads[l].filters = filters
    /\ failed \/ shown.filters = filters \/ AwaitsLoad

\* ... and has every change but those that may be missed.
MayBeMissed(h) == Of(h).twoSteps \/ (~calm /\ Of(h).then # "reload")
Showing ==
  Orderly =>
    /\ \A l \in Slot : Wanted(l) => \A h \in loads[l].since : MayBeMissed(h)
    /\ \A h \in shown.unseen : MayBeMissed(h) \/ failed \/ AwaitsLoad

\* Somebody is still in flight who will clear a cell that is set.
Clearing ==
  \A c \in Cells : cells[c] # Clear =>
    \/ \E s \in Slot : calls[s] # NoCall /\ Of(calls[s].does).flag[1] = c
    \/ c = "loading" /\ AwaitsLoad

\* The calls that set the cell of the followed form are alone on it, and it disables
\* their controls; while the call that makes the record runs, what was typed is still
\* there and has made none yet.
OwnControl == first.creates /\ ~first.twoSteps /\ ~FlagShared /\ first.form # "kept"
Making(s) == calls[s] # NoCall /\ calls[s].does = "first"
Holding(s) == calls[s] # NoCall /\ Of(calls[s].does).flag[1] = first.flag[1]
OneMaker ==
  OwnControl =>
    /\ \A s, t \in Slot : Holding(s) /\ Holding(t) => s = t
    /\ \A s \in Slot : Holding(s) => cells[first.flag[1]] = KeyOf(first.flag, "row1")
    /\ \A s \in Slot : Making(s) /\ ~calls[s].reading => form.made = 0 /\ (first.form # "none" => form.typed)
    /\ form.typed => form.made = 0
    /\ form.made < 2
    /\ first.flag[1] = "loading" => \A l \in Slot : loads[l] = NoCall
MadeByFirst == ~first.creates => form.made = 0

Paging ==
  /\ PageShape /\ HandlersFit /\ ReadingLoads /\ Waits
  /\ Choosing /\ Showing /\ Clearing /\ OneMaker /\ MadeByFirst

LEMMA NoRow == NoCall \notin CallRow /\ NoCall \notin LoadRow
  BY DEF NoCall, CallRow, LoadRow

\* A change that calls and loads in flight may miss leaves everything else of them alone.
LEMMA MissingCalls ==
  ASSUME NEW h \in Hs, NEW slots \in [Slot -> {NoCall} \cup CallRow]
  PROVE  /\ Missing(h, slots) \in [Slot -> {NoCall} \cup CallRow]
         /\ \A s \in Slot : Missing(h, slots)[s] = NoCall <=> slots[s] = NoCall
         /\ \A s \in Slot : slots[s] # NoCall =>
              /\ Missing(h, slots)[s].does = slots[s].does /\ Missing(h, slots)[s].row = slots[s].row
              /\ Missing(h, slots)[s].filters = slots[s].filters /\ Missing(h, slots)[s].reading = slots[s].reading
              /\ Missing(h, slots)[s].since \in {slots[s].since, slots[s].since \cup {h}}
<1>1. ASSUME NEW s \in Slot, slots[s] # NoCall
      PROVE  /\ [slots[s] EXCEPT !.since = @ \cup {h}] \in CallRow
             /\ [slots[s] EXCEPT !.since = @ \cup {h}].does = slots[s].does
             /\ [slots[s] EXCEPT !.since = @ \cup {h}].row = slots[s].row
             /\ [slots[s] EXCEPT !.since = @ \cup {h}].filters = slots[s].filters
             /\ [slots[s] EXCEPT !.since = @ \cup {h}].reading = slots[s].reading
             /\ [slots[s] EXCEPT !.since = @ \cup {h}].since = slots[s].since \cup {h}
  <2>1. slots[s] \in CallRow
    BY <1>1
  <2> QED
    BY <2>1 DEF CallRow, Hs
<1>2. \A s \in Slot : Missing(h, slots)[s] =
        IF slots[s] # NoCall /\ Displayed(h) THEN [slots[s] EXCEPT !.since = @ \cup {h}] ELSE slots[s]
  BY DEF Missing
<1>3. \A s \in Slot : Missing(h, slots)[s] \in {NoCall} \cup CallRow
  BY <1>1, <1>2
<1>4. Missing(h, slots) = [s \in Slot |-> Missing(h, slots)[s]]
  BY DEF Missing
<1>5. Missing(h, slots) \in [Slot -> {NoCall} \cup CallRow]
  BY <1>3, <1>4
<1>6. \A s \in Slot : Missing(h, slots)[s] = NoCall <=> slots[s] = NoCall
  BY <1>1, <1>2, NoRow
<1> QED
  BY <1>1, <1>2, <1>5, <1>6

LEMMA MissingLoads ==
  ASSUME NEW h \in Hs, NEW slots \in [Slot -> {NoCall} \cup LoadRow]
  PROVE  /\ Missing(h, slots) \in [Slot -> {NoCall} \cup LoadRow]
         /\ \A s \in Slot : Missing(h, slots)[s] = NoCall <=> slots[s] = NoCall
         /\ \A s \in Slot : slots[s] # NoCall =>
              /\ Missing(h, slots)[s].filters = slots[s].filters
              /\ Missing(h, slots)[s].current = slots[s].current /\ Missing(h, slots)[s].by = slots[s].by
              /\ Missing(h, slots)[s].since \in {slots[s].since, slots[s].since \cup {h}}
<1>1. ASSUME NEW s \in Slot, slots[s] # NoCall
      PROVE  /\ [slots[s] EXCEPT !.since = @ \cup {h}] \in LoadRow
             /\ [slots[s] EXCEPT !.since = @ \cup {h}].filters = slots[s].filters
             /\ [slots[s] EXCEPT !.since = @ \cup {h}].current = slots[s].current
             /\ [slots[s] EXCEPT !.since = @ \cup {h}].by = slots[s].by
             /\ [slots[s] EXCEPT !.since = @ \cup {h}].since = slots[s].since \cup {h}
  <2>1. slots[s] \in LoadRow
    BY <1>1
  <2> QED
    BY <2>1 DEF LoadRow, Hs
<1>2. \A s \in Slot : Missing(h, slots)[s] =
        IF slots[s] # NoCall /\ Displayed(h) THEN [slots[s] EXCEPT !.since = @ \cup {h}] ELSE slots[s]
  BY DEF Missing
<1>3. \A s \in Slot : Missing(h, slots)[s] \in {NoCall} \cup LoadRow
  BY <1>1, <1>2
<1>4. Missing(h, slots) = [s \in Slot |-> Missing(h, slots)[s]]
  BY DEF Missing
<1>5. Missing(h, slots) \in [Slot -> {NoCall} \cup LoadRow]
  BY <1>3, <1>4
<1>6. \A s \in Slot : Missing(h, slots)[s] = NoCall <=> slots[s] = NoCall
  BY <1>1, <1>2, NoRow
<1> QED
  BY <1>1, <1>2, <1>5, <1>6

\* A load begins: it is the current one, and the others are no longer.
Begun(s, f, by, slots) ==
  /\ slots[s] = NoCall /\ loads'[s] \in LoadRow
  /\ loads'[s].filters = f /\ loads'[s].current /\ loads'[s].since = {} /\ loads'[s].by = by
  /\ \A t \in Slot \ {s} :
       /\ loads'[t] = NoCall <=> slots[t] = NoCall
       /\ loads'[t] # NoCall =>
            /\ ~loads'[t].current /\ loads'[t].filters = slots[t].filters
            /\ loads'[t].since = slots[t].since /\ loads'[t].by = slots[t].by

LEMMA LoadBegun ==
  ASSUME NEW f \in Nat, NEW by \in 0 .. 2, NEW slots \in [Slot -> {NoCall} \cup LoadRow], Load(f, by, slots)
  PROVE  /\ loads' \in [Slot -> {NoCall} \cup LoadRow]
         /\ \E s \in Slot : Begun(s, f, by, slots)
<1>1. PICK s \in Slot :
        /\ slots[s] = NoCall
        /\ loads' = [t \in Slot |->
             IF t = s THEN [filters |-> f, current |-> TRUE, since |-> {}, by |-> by]
             ELSE IF slots[t] = NoCall THEN NoCall ELSE [slots[t] EXCEPT !.current = FALSE]]
  BY DEF Load
<1>2. [filters |-> f, current |-> TRUE, since |-> {}, by |-> by] \in LoadRow
  BY DEF LoadRow
<1>3. ASSUME NEW t \in Slot, slots[t] # NoCall
      PROVE  /\ [slots[t] EXCEPT !.current = FALSE] \in LoadRow
             /\ ~[slots[t] EXCEPT !.current = FALSE].current
             /\ [slots[t] EXCEPT !.current = FALSE].filters = slots[t].filters
             /\ [slots[t] EXCEPT !.current = FALSE].since = slots[t].since
             /\ [slots[t] EXCEPT !.current = FALSE].by = slots[t].by
  <2>1. slots[t] \in LoadRow
    BY <1>3
  <2> QED
    BY <2>1 DEF LoadRow
<1>4. loads'[s] = [filters |-> f, current |-> TRUE, since |-> {}, by |-> by]
  BY <1>1
<1>5. \A t \in Slot \ {s} :
        loads'[t] = IF slots[t] = NoCall THEN NoCall ELSE [slots[t] EXCEPT !.current = FALSE]
  BY <1>1
<1>6. \A t \in Slot : loads'[t] \in {NoCall} \cup LoadRow
  BY <1>2, <1>3, <1>4, <1>5
<1>7. loads' = [t \in Slot |-> loads'[t]]
  BY <1>1
<1>8. loads' \in [Slot -> {NoCall} \cup LoadRow]
  BY <1>6, <1>7
<1>9. /\ loads'[s] \in LoadRow /\ loads'[s].filters = f
      /\ loads'[s].current /\ loads'[s].since = {} /\ loads'[s].by = by
  BY <1>2, <1>4
<1>10. ASSUME NEW t \in Slot \ {s}
       PROVE  /\ loads'[t] = NoCall <=> slots[t] = NoCall
              /\ loads'[t] # NoCall =>
                   /\ ~loads'[t].current /\ loads'[t].filters = slots[t].filters
                   /\ loads'[t].since = slots[t].since /\ loads'[t].by = slots[t].by
  <2>1. CASE slots[t] = NoCall
    BY <1>5, <2>1
  <2>2. CASE slots[t] # NoCall
    <3>1. loads'[t] = [slots[t] EXCEPT !.current = FALSE]
      BY <1>5, <2>2
    <3> QED
      BY <1>3, <2>2, <3>1, NoRow
  <2> QED
    BY <2>1, <2>2
<1> QED
  BY <1>1, <1>8, <1>9, <1>10 DEF Begun

\* Which page it is and which handlers are used never changes.
SamePage == page' = page /\ first' = first /\ other' = other /\ calm' = calm

LEMMA PageStays ==
  ASSUME SamePage
  PROVE  /\ Used' = Used /\ Cells' = Cells /\ CallRow' = CallRow /\ (\A h : Of(h)' = Of(h))
         /\ Orderly' = Orderly /\ OwnControl' = OwnControl /\ (\A h : MayBeMissed(h)' = MayBeMissed(h))
         /\ HandlersFit => HandlersFit'
<1>1. Used' = Used
  BY DEF SamePage, Used
<1>2. \A h : Of(h)' = Of(h)
  BY DEF SamePage, Of
<1>3. \A trait : Has(trait)' = Has(trait)
  BY DEF SamePage, Has
<1>4. Cells' = Cells /\ CallRow' = CallRow
  BY <1>1 DEF SamePage, Cells, CallRow
<1>5. Orderly' = Orderly
  BY <1>3 DEF SamePage, Orderly
<1>6. OwnControl' = OwnControl
  BY DEF SamePage, OwnControl, FlagShared
<1>7. \A h : MayBeMissed(h)' = MayBeMissed(h)
  BY <1>2 DEF SamePage, MayBeMissed
<1>8. HandlersFit => HandlersFit'
  BY <1>1, <1>2, <1>3 DEF SamePage, HandlersFit
<1> QED
  BY <1>1, <1>2, <1>4, <1>5, <1>6, <1>7, <1>8

\* A load nobody in flight waits for: the user chose another filter or refreshes.
LEMMA LoadStarts ==
  ASSUME Paging, SamePage, filters' \in Nat, Load(filters', 0, loads), ~calm \/ ~Awaited, late' = FALSE,
         cells' = [cells EXCEPT !["loading"] = <<"on", "none">>],
         OwnControl => first.flag[1] # "loading",
         UNCHANGED <<calls, shown, failed, form>>
  PROVE  Paging'
<1>1. PICK s \in Slot : Begun(s, filters', 0, loads)
  <2>1. loads \in [Slot -> {NoCall} \cup LoadRow] /\ 0 \in 0 .. 2
    BY DEF Paging, PageShape
  <2> QED
    BY <2>1, LoadBegun
<1>2. loads' \in [Slot -> {NoCall} \cup LoadRow]
  BY LoadBegun DEF Paging, PageShape
<1>3. cells' = [c \in Cells |-> cells'[c]] /\ \A c \in Cells \ {"loading"} : cells'[c] = cells[c]
  BY DEF Paging, PageShape
<1>4. PageShape'
  BY <1>2, <1>3, PageStays DEF Paging, PageShape, SamePage, LoadRow
<1>5. Wanted(s)'
  BY <1>1, NoRow DEF Begun, Wanted
<1>6. AwaitsLoad'
  BY <1>5 DEF AwaitsLoad
<1>7. \A t \in Slot \ {s} : Orderly /\ Wanted(t)' => FALSE
  BY <1>1 DEF Begun, Wanted, Orderly, Awaited, SamePage, Has
<1>8. Waits' /\ MadeByFirst'
  BY <1>1, PageStays DEF Paging, Waits, MadeByFirst, SamePage, Awaited
<1>13. ReadingLoads'
  <2>1. \A l, t \in Slot : LoadFor(l, t)' => LoadFor(l, t)
    BY <1>1 DEF Begun, LoadFor, Slot
  <2> QED
    BY <2>1, PageStays DEF Paging, ReadingLoads, Of, SamePage
<1>9. Choosing'
  BY <1>1, <1>6, <1>7, PageStays DEF Begun, Choosing
<1>10. Showing'
  BY <1>1, <1>6, <1>7, PageStays DEF Begun, Showing
<1>11. Clearing'
  BY <1>3, <1>6, PageStays DEF Paging, Clearing
<1>12. OneMaker'
  <2>1. OwnControl => cells'[first.flag[1]] = cells[first.flag[1]]
    BY <1>3 DEF Cells
  <2>2. KeyOf(first.flag, "row1")' = KeyOf(first.flag, "row1") /\ first' = first
    BY DEF SamePage, KeyOf
  <2>3. form' = form /\ calls' = calls /\ \A t \in Slot : Making(t)' = Making(t) /\ Holding(t)' = Holding(t)
    BY DEF Making, Holding, Of, SamePage
  <2>4. OneMaker
    BY DEF Paging
  <2> QED
    BY <2>1, <2>2, <2>3, <2>4, PageStays DEF OneMaker, Of, SamePage
<1> QED
  BY <1>4, <1>8, <1>9, <1>10, <1>11, <1>12, <1>13, PageStays DEF Paging

LEMMA Chosen ==
  ASSUME Paging, Choose
  PROVE  Paging'
<1>1. SamePage /\ (~calm \/ ~Awaited)
  BY DEF Choose, Usable, SamePage
<1>2. filters' \in Nat /\ Load(filters', 0, loads)
  BY DEF Choose, Paging, PageShape
<1>3. OwnControl => first.flag[1] # "loading"
  BY DEF Choose, Paging, HandlersFit, OwnControl
<1> QED
  BY <1>1, <1>2, <1>3, LoadStarts DEF Choose

LEMMA Refreshed ==
  ASSUME Paging, NEW h \in Used, Refresh(h)
  PROVE  Paging'
<1>1. SamePage /\ (~calm \/ ~Awaited)
  BY DEF Refresh, Usable, SamePage
<1>2. filters' \in Nat /\ Load(filters', 0, loads)
  BY DEF Refresh, Paging, PageShape
<1>3. OwnControl => first.flag[1] # "loading"
  BY DEF Refresh, Paging, HandlersFit, OwnControl
<1> QED
  BY <1>1, <1>2, <1>3, LoadStarts DEF Refresh

LEMMA Filled ==
  ASSUME Paging, FillForm
  PROVE  Paging'
<1>1. SamePage /\ UNCHANGED <<cells, calls, loads, filters, shown, failed, late>>
  BY DEF FillForm, SamePage
<1>2. form' = [form EXCEPT !.typed = TRUE, !.made = 0] /\ ~form.typed /\ first.creates /\ first.form # "none"
  BY DEF FillForm
<1>3. form' \in [typed : BOOLEAN, made : 0 .. 2] /\ form'.typed /\ form'.made = 0
  <2>1. form \in [typed : BOOLEAN, made : 0 .. 2]
    BY DEF Paging, PageShape
  <2>2. form' = [typed |-> TRUE, made |-> 0]
    BY <1>2, <2>1
  <2> QED
    BY <2>2
<1>4. PageShape'
  BY <1>1, <1>3, PageStays DEF Paging, PageShape, SamePage
<1>5. \A l \in Slot : Wanted(l)' = Wanted(l)
  BY <1>1 DEF Wanted, SamePage, Has
<1>6. AwaitsLoad' = AwaitsLoad
  BY <1>5 DEF AwaitsLoad
<1>7. ReadingLoads' /\ Waits' /\ Clearing'
  BY <1>1, <1>6, PageStays DEF Paging, ReadingLoads, LoadFor, Waits, Clearing, SamePage
<1>8. Choosing' /\ Showing'
  BY <1>1, <1>5, <1>6, PageStays DEF Paging, Choosing, Showing
<1>9. OneMaker' /\ MadeByFirst'
  <2>1. \A t \in Slot : Making(t)' = Making(t) /\ Holding(t)' = Holding(t)
    BY <1>1 DEF Making, Holding, Of, SamePage
  <2>2. KeyOf(first.flag, "row1")' = KeyOf(first.flag, "row1") /\ first' = first
    BY <1>1 DEF SamePage, KeyOf
  <2>3. OneMaker
    BY DEF Paging
  <2>4. OneMaker'
    <3>1. SamePage /\ cells' = cells /\ calls' = calls /\ loads' = loads
      BY <1>1
    <3>2. OwnControl' = OwnControl
      BY <3>1, PageStays
    <3> QED
      BY <1>3, <2>1, <2>2, <2>3, <3>1, <3>2 DEF OneMaker
  <2> QED
    BY <1>2, <2>2, <2>4 DEF MadeByFirst
<1> QED
  BY <1>1, <1>4, <1>7, <1>8, <1>9, PageStays DEF Paging

\* Whoever sets the cell of the followed form sets it alike and heeds it.
LEMMA OwnFlagOff ==
  ASSUME HandlersFit, OwnControl, NEW h \in Used, Of(h).flag[1] = first.flag[1]
  PROVE  first.flag \in Of(h).off /\ Of(h).flag = first.flag /\ first.flag[2] # "row"
<1>1. first.flag \in Of(h).off
  BY DEF HandlersFit, OwnControl, FlagShared, Of, Used
<1> QED
  BY <1>1 DEF HandlersFit, OwnControl, FlagShared

LEMMA ControlUsed ==
  ASSUME Paging, NEW h \in Used, NEW which \in Rows(h), NEW s \in Slot, Use(h, which, s)
  PROVE  Paging'
<1> DEFINE call == [does |-> h, row |-> which, filters |-> filters, since |-> {}, reading |-> FALSE]
<1>1. SamePage /\ UNCHANGED <<loads, filters, shown, failed, late>> /\ (~calm \/ ~Awaited)
  BY DEF Use, Usable, SamePage
<1>2. call \in CallRow
  BY DEF CallRow, Rows, Paging, PageShape
<1>3. calls[s] = NoCall /\ calls' \in [Slot -> {NoCall} \cup CallRow] /\ calls'[s] = call
      /\ \A t \in Slot \ {s} : calls'[t] = calls[t]
  BY <1>2 DEF Use, Paging, PageShape
<1>4. call.does = h /\ call.row = which /\ call.since = {} /\ ~call.reading /\ call # NoCall
  BY <1>2, NoRow
<1>5. cells' = [c \in Cells |-> IF c = Of(h).flag[1] THEN KeyOf(Of(h).flag, which) ELSE cells[c]]
  BY DEF Use
<1>6. form' = form \/ form' = [form EXCEPT !.made = 0]
  BY DEF Use
<1>7. form' \in [typed : BOOLEAN, made : 0 .. 2] /\ form'.typed = form.typed /\ form'.made \in {0, form.made}
  BY <1>6 DEF Paging, PageShape
<1> HIDE DEF call
<1>8. PageShape'
  BY <1>1, <1>3, <1>5, <1>7, PageStays DEF Paging, PageShape, SamePage
<1>9. \A l \in Slot : Wanted(l)' = Wanted(l)
  BY <1>1 DEF Wanted, SamePage, Has
<1>10. AwaitsLoad' = AwaitsLoad
  BY <1>9 DEF AwaitsLoad
<1>11. ReadingLoads'
  <2>1. \A l, t \in Slot : LoadFor(l, t)' <=> LoadFor(l, t)
    BY <1>1 DEF LoadFor
  <2> QED
    BY <1>1, <1>3, <1>4, <2>1 DEF Paging, ReadingLoads, Of, SamePage
<1>12. Waits'
  BY <1>1, <1>3, <1>4 DEF Paging, Waits, SamePage, Awaited
<1>13. Choosing' /\ Showing'
  BY <1>1, <1>9, <1>10, PageStays DEF Paging, Choosing, Showing
<1>14. Clearing'
  <2>1. ASSUME NEW c \in Cells, cells'[c] # Clear
        PROVE  \/ \E t \in Slot : calls'[t] # NoCall /\ Of(calls'[t].does).flag[1] = c
               \/ c = "loading" /\ AwaitsLoad
    <3>1. CASE c = Of(h).flag[1]
      BY <1>3, <1>4, <3>1
    <3>2. CASE c # Of(h).flag[1]
      <4>1. cells[c] # Clear
        BY <1>5, <2>1, <3>2
      <4>2. CASE \E t \in Slot : calls[t] # NoCall /\ Of(calls[t].does).flag[1] = c
        BY <1>3, <4>2
      <4> QED
        BY <4>1, <4>2 DEF Paging, Clearing
    <3> QED
      BY <3>1, <3>2
  <2> QED
    BY <1>1, <1>10, <2>1, PageStays DEF Clearing, Of, SamePage
<1>15. MadeByFirst'
  BY <1>1, <1>7 DEF Paging, MadeByFirst, SamePage
<1>16. ASSUME OwnControl, Of(h).flag[1] = first.flag[1]
       PROVE  /\ which = "row1" /\ KeyOf(Of(h).flag, which) = KeyOf(first.flag, "row1")
              /\ \A t \in Slot : ~Holding(t)
  <2>1. first.flag \in Of(h).off /\ Of(h).flag = first.flag /\ first.flag[2] # "row"
    BY <1>16, OwnFlagOff DEF Paging
  <2>2. which = "row1"
    BY <2>1 DEF Rows
  <2>3. ~IsSet(first.flag, "row1")
    BY <2>1, <2>2 DEF Use, Enabled
  <2>4. cells[first.flag[1]] # KeyOf(first.flag, "row1")
    BY <2>3 DEF IsSet, Cells, KeyOf, Clear
  <2> QED
    BY <1>16, <2>1, <2>2, <2>4 DEF Paging, OneMaker
<1>17. OneMaker'
  <2> SUFFICES ASSUME OwnControl
               PROVE  OneMaker'
    BY <1>1, PageStays DEF OneMaker
  <2>1. ASSUME NEW t \in Slot \ {s}
        PROVE  Holding(t)' = Holding(t) /\ Making(t)' = Making(t)
    BY <1>1, <1>3 DEF Holding, Making, Of, SamePage
  <2>2. Holding(s)' <=> Of(h).flag[1] = first.flag[1]
    BY <1>1, <1>3, <1>4 DEF Holding, Of, SamePage
  <2>3. Making(s)' <=> h = "first"
    BY <1>3, <1>4 DEF Making
  <2>4. \A t, u \in Slot : Holding(t)' /\ Holding(u)' => t = u
    BY <1>16, <2>1, <2>2 DEF Paging, OneMaker
  <2>5. \A t \in Slot : Holding(t)' => cells'[first.flag[1]] = KeyOf(first.flag, "row1")
    BY <1>5, <1>16, <2>1, <2>2 DEF Paging, OneMaker, Cells
  <2>6. ASSUME NEW t \in Slot, Making(t)', ~calls'[t].reading
        PROVE  form'.made = 0 /\ (first.form # "none" => form'.typed)
    <3>1. CASE t = s
      <4>1. h = "first" /\ Of(h) = first /\ first.creates /\ which = "row1" /\ \A u \in Slot : ~Making(u)
        BY <1>16, <2>3, <2>6, <3>1 DEF OwnControl, Of, Holding, Making
      <4>2. Creates(h, which) /\ ~Running(h)
        BY <4>1 DEF Creates, Running, Making
      <4>3. CASE first.form = "none"
        <5>1. form' = [form EXCEPT !.made = 0]
          BY <4>1, <4>2, <4>3 DEF Use
        <5> QED
          BY <4>3, <5>1 DEF Paging, PageShape
      <4>4. CASE first.form # "none"
        <5>1. form.typed
          BY <4>1, <4>2, <4>4 DEF Use
        <5> QED
          BY <1>7, <5>1 DEF Paging, OneMaker
      <4> QED
        BY <4>3, <4>4
    <3>2. CASE t # s
      BY <1>3, <1>7, <2>1, <2>6, <3>2 DEF Paging, OneMaker
    <3> QED
      BY <3>1, <3>2
  <2>7. (form'.typed => form'.made = 0) /\ form'.made < 2
    BY <1>7 DEF Paging, OneMaker
  <2>8. first.flag[1] = "loading" => \A l \in Slot : loads'[l] = NoCall
    BY <1>1 DEF Paging, OneMaker
  <2> QED
    BY <1>1, <2>4, <2>5, <2>6, <2>7, <2>8 DEF OneMaker, KeyOf, SamePage
<1> QED
  BY <1>1, <1>8, <1>11, <1>12, <1>13, <1>14, <1>15, <1>17, PageStays DEF Paging

\* A call, or a load, is still in flight as it was.
CallStays(t) ==
  /\ calls'[t] = NoCall <=> calls[t] = NoCall
  /\ calls[t] # NoCall => calls'[t].does = calls[t].does /\ calls'[t].reading = calls[t].reading
LoadStays(t) ==
  /\ loads'[t] = NoCall <=> loads[t] = NoCall
  /\ loads[t] # NoCall =>
       loads'[t].filters = loads[t].filters /\ loads'[t].current = loads[t].current /\ loads'[t].by = loads[t].by

\* What is made of the form when the call in slot s succeeds.
LEMMA FormMade ==
  ASSUME Paging, NEW s \in Slot, calls[s] # NoCall, ~calls[s].reading, NEW typed \in BOOLEAN, Made(s, typed)
  PROVE  /\ form' \in [typed : BOOLEAN, made : 0 .. 2]
         /\ ~first.creates \/ calls[s].does # "first" => form' = form
         /\ form' # form /\ OwnControl => Making(s) /\ form'.made = 1 /\ form'.typed = typed
<1> DEFINE h == calls[s].does
<1>1. h \in Used /\ form \in [typed : BOOLEAN, made : 0 .. 2]
  BY DEF Paging, PageShape, CallRow
<1>2. Creates(h, calls[s].row) => h = "first" /\ first.creates
  BY <1>1 DEF Creates, Of, Used
<1>3. CASE Creates(h, calls[s].row)
  <2>1. form' = [form EXCEPT !.made = IF @ < 2 THEN @ + 1 ELSE 2, !.typed = typed]
    BY <1>3 DEF Made
  <2>2. form' = [typed |-> typed, made |-> IF form.made < 2 THEN form.made + 1 ELSE 2]
    BY <1>1, <2>1
  <2>3. OwnControl => form.made = 0 /\ Making(s)
    BY <1>2, <1>3 DEF Paging, OneMaker, Making
  <2>4. form.made \in 0 .. 2
    BY <1>1
  <2>5. (IF form.made < 2 THEN form.made + 1 ELSE 2) \in 0 .. 2
    BY <2>4
  <2>6. form' \in [typed : BOOLEAN, made : 0 .. 2] /\ form'.typed = typed
        /\ form'.made = IF form.made < 2 THEN form.made + 1 ELSE 2
    BY <2>2, <2>5
  <2> QED
    BY <1>2, <1>3, <2>3, <2>6
<1>4. CASE ~Creates(h, calls[s].row)
  BY <1>1, <1>4 DEF Made
<1> QED
  BY <1>3, <1>4

\* A call ends, and no load follows it.
LEMMA CallOver ==
  ASSUME Paging, SamePage, NEW s \in Slot, calls[s] # NoCall, ~calls[s].reading,
         calls' \in [Slot -> {NoCall} \cup CallRow], calls'[s] = NoCall, \A t \in Slot \ {s} : CallStays(t),
         loads' \in [Slot -> {NoCall} \cup LoadRow], \A l \in Slot : LoadStays(l),
         ~calm => \A l \in Slot : loads[l] # NoCall => \A g \in loads'[l].since \ loads[l].since : MayBeMissed(g),
         cells' = Cleared(s, cells), UNCHANGED <<filters, failed, late>>,
         shown' \in [filters : Nat, unseen : SUBSET Hs], shown'.filters = shown.filters,
         Orderly => \A g \in shown'.unseen : g \in shown.unseen \/ MayBeMissed(g),
         form' \in [typed : BOOLEAN, made : 0 .. 2], ~first.creates => form' = form,
         form' # form /\ OwnControl => Making(s) /\ form'.made = 1 /\ ~form'.typed
  PROVE  Paging'
<1>1. cells' = [c \in Cells |-> IF c = Of(calls[s].does).flag[1] THEN Clear ELSE cells[c]]
  BY DEF Cleared
<1>2. PageShape'
  BY <1>1, PageStays DEF Paging, PageShape, SamePage
<1>3. \A l \in Slot : Wanted(l)' = Wanted(l)
  BY DEF Wanted, SamePage, Has, LoadStays
<1>4. AwaitsLoad' = AwaitsLoad
  BY <1>3 DEF AwaitsLoad
<1>5. calm => \A t \in Slot : calls'[t] = NoCall /\ loads'[t] = NoCall /\ loads[t] = NoCall
  BY DEF Paging, Waits, CallStays, LoadStays
<1>6. ReadingLoads'
  <2>1. \A l, t \in Slot : LoadFor(l, t)' <=> LoadFor(l, t)
    BY DEF LoadFor, LoadStays
  <2> QED
    BY <2>1 DEF Paging, ReadingLoads, CallStays, Of, SamePage
<1>7. Waits'
  BY <1>5 DEF Waits, SamePage
<1>8. Choosing'
  <2>1. \A l \in Slot : Wanted(l) => loads'[l].filters = loads[l].filters
    BY DEF Wanted, LoadStays
  <2> QED
    BY <1>3, <1>4, <2>1, PageStays DEF Paging, Choosing
<1>9. Showing'
  <2>1. Orderly => \A l \in Slot : Wanted(l) => \A g \in loads'[l].since : MayBeMissed(g)
    BY <1>5 DEF Paging, Showing, Wanted, SamePage
  <2>2. Orderly => \A g \in shown'.unseen : MayBeMissed(g) \/ failed \/ AwaitsLoad
    BY DEF Paging, Showing
  <2> QED
    BY <1>3, <1>4, <2>1, <2>2, PageStays DEF Showing
<1>10. Clearing'
  <2>1. ASSUME NEW c \in Cells, cells'[c] # Clear
        PROVE  \/ \E t \in Slot : calls'[t] # NoCall /\ Of(calls'[t].does).flag[1] = c
               \/ c = "loading" /\ AwaitsLoad
    <3>1. c # Of(calls[s].does).flag[1] /\ cells[c] # Clear
      BY <1>1, <2>1
    <3>2. CASE \E t \in Slot : calls[t] # NoCall /\ Of(calls[t].does).flag[1] = c
      BY <3>1, <3>2 DEF CallStays
    <3> QED
      BY <3>1, <3>2 DEF Paging, Clearing
  <2> QED
    BY <1>4, <2>1, PageStays DEF Clearing, Of, SamePage
<1>11. MadeByFirst'
  BY DEF Paging, MadeByFirst, SamePage
<1>12. OneMaker'
  <2> SUFFICES ASSUME OwnControl
               PROVE  OneMaker'
    BY PageStays DEF OneMaker
  <2>1. \A t \in Slot \ {s} : Holding(t)' = Holding(t) /\ (Making(t)' = Making(t))
    BY DEF Holding, Making, Of, SamePage, CallStays
  <2>2. ~Holding(s)' /\ ~Making(s)'
    BY DEF Holding, Making
  <2>3. \A t, u \in Slot : Holding(t)' /\ Holding(u)' => t = u
    BY <2>1, <2>2 DEF Paging, OneMaker
  <2>4. ASSUME NEW t \in Slot, Holding(t)'
        PROVE  cells'[first.flag[1]] = KeyOf(first.flag, "row1")
    <3>1. t # s /\ Holding(t)
      BY <2>1, <2>2, <2>4
    <3>2. Of(calls[s].does).flag[1] # first.flag[1]
      BY <3>1 DEF Paging, OneMaker, Holding
    <3> QED
      BY <1>1, <3>1, <3>2 DEF Paging, OneMaker, Cells
  <2>5. ASSUME NEW t \in Slot, Making(t)', ~calls'[t].reading
        PROVE  form'.made = 0 /\ (first.form # "none" => form'.typed)
    <3>1. t # s /\ Making(t) /\ ~calls[t].reading
      BY <2>1, <2>2, <2>5 DEF CallStays, Making
    <3>2. ~Making(s)
      BY <3>1 DEF Paging, OneMaker, Making, Holding, Of
    <3> QED
      BY <3>1, <3>2 DEF Paging, OneMaker
  <2>6. (form'.typed => form'.made = 0) /\ form'.made < 2
    BY DEF Paging, OneMaker
  <2>7. first.flag[1] = "loading" => \A l \in Slot : loads'[l] = NoCall
    BY DEF Paging, OneMaker, LoadStays
  <2> QED
    BY <2>3, <2>4, <2>5, <2>6, <2>7 DEF OneMaker, KeyOf, SamePage
<1> QED
  BY <1>2, <1>6, <1>7, <1>8, <1>9, <1>10, <1>11, <1>12, PageStays DEF Paging

LEMMA Succeeded ==
  ASSUME Paging, NEW s \in Slot, Succeed(s)
  PROVE  Paging'
<1> DEFINE h == calls[s].does
           rest == [calls EXCEPT ![s] = NoCall]
<1>1. SamePage /\ calls[s] # NoCall /\ Of(h).then \notin {"reload", "choose"} /\ ~calls[s].reading
  BY DEF Succeed, SamePage, Paging, ReadingLoads
<1>2. h \in Used /\ h \in Hs /\ rest \in [Slot -> {NoCall} \cup CallRow]
      /\ rest[s] = NoCall /\ \A t \in Slot \ {s} : rest[t] = calls[t]
  BY <1>1 DEF Paging, PageShape, CallRow, Used, Hs
<1>3. calls' = Missing(h, rest) /\ loads' = Missing(h, loads)
  BY DEF Succeed
<1> HIDE DEF rest
<1>4. calls' \in [Slot -> {NoCall} \cup CallRow] /\ calls'[s] = NoCall /\ \A t \in Slot \ {s} : CallStays(t)
  BY <1>2, <1>3, MissingCalls DEF CallStays
<1>5. loads \in [Slot -> {NoCall} \cup LoadRow]
  BY DEF Paging, PageShape
<1>6. /\ loads' \in [Slot -> {NoCall} \cup LoadRow] /\ \A l \in Slot : LoadStays(l)
      /\ \A l \in Slot : loads[l] # NoCall => loads'[l].since \subseteq loads[l].since \cup {h}
  <2>1. \A l \in Slot : loads[l] # NoCall => loads'[l].since \in {loads[l].since, loads[l].since \cup {h}}
    BY <1>2, <1>3, <1>5, MissingLoads
  <2>2. loads' \in [Slot -> {NoCall} \cup LoadRow] /\ \A l \in Slot : LoadStays(l)
    BY <1>2, <1>3, <1>5, MissingLoads DEF LoadStays
  <2> QED
    BY <2>1, <2>2
<1>7. ~calm => MayBeMissed(h)
  BY <1>1 DEF MayBeMissed
<1>8. cells' = Cleared(s, cells) /\ UNCHANGED <<filters, failed, late>> /\ Made(s, FALSE)
  BY DEF Succeed
<1>9. /\ shown' \in [filters : Nat, unseen : SUBSET Hs] /\ shown'.filters = shown.filters
      /\ Orderly => \A g \in shown'.unseen : g \in shown.unseen \/ MayBeMissed(g)
  <2>1. shown \in [filters : Nat, unseen : SUBSET Hs] /\ calls[s] \in CallRow
    BY <1>1 DEF Paging, PageShape
  <2>2. CASE Of(h).then # "replace"
    BY <2>1, <2>2 DEF Succeed
  <2>3. CASE Of(h).then = "replace"
    <3>1. PICK stale \in {{}, calls[s].since} : shown' = [shown EXCEPT !.unseen = stale]
      BY <2>3 DEF Succeed
    <3>2. stale \in SUBSET Hs
      BY <2>1 DEF CallRow
    <3>3. shown'.unseen = stale /\ shown'.filters = shown.filters /\ shown' \in [filters : Nat, unseen : SUBSET Hs]
      BY <2>1, <3>1, <3>2
    <3>4. Orderly => calm
      BY <1>2, <2>3 DEF Orderly, Paging, HandlersFit
    <3>5. calm => calls[s].since = {}
      BY <1>1 DEF Paging, Waits
    <3> QED
      BY <3>3, <3>4, <3>5
  <2> QED
    BY <2>2, <2>3
<1>10. /\ form' \in [typed : BOOLEAN, made : 0 .. 2] /\ (~first.creates => form' = form)
       /\ form' # form /\ OwnControl => Making(s) /\ form'.made = 1 /\ ~form'.typed
  BY <1>1, <1>8, FormMade
<1> QED
  BY <1>1, <1>4, <1>6, <1>7, <1>8, <1>9, <1>10, CallOver

LEMMA CallFailed ==
  ASSUME Paging, NEW s \in Slot, Fail(s)
  PROVE  Paging'
<1> DEFINE h == calls[s].does
           rest == [calls EXCEPT ![s] = NoCall]
<1>1. SamePage /\ calls[s] # NoCall /\ ~calls[s].reading
  BY DEF Fail, SamePage
<1>2. h \in Used /\ h \in Hs /\ rest \in [Slot -> {NoCall} \cup CallRow]
      /\ rest[s] = NoCall /\ \A t \in Slot \ {s} : rest[t] = calls[t]
  BY <1>1 DEF Paging, PageShape, CallRow, Used, Hs
<1>3. cells' = Cleared(s, cells) /\ UNCHANGED <<filters, failed, late>>
  BY DEF Fail
<1>4. /\ loads \in [Slot -> {NoCall} \cup LoadRow] /\ form \in [typed : BOOLEAN, made : 0 .. 2]
      /\ shown \in [filters : Nat, unseen : SUBSET Hs]
  BY DEF Paging, PageShape
<1>5. CASE calls' = rest /\ UNCHANGED <<loads, shown, form>>
  <2>1. \A t \in Slot \ {s} : CallStays(t)
    BY <1>2, <1>5 DEF CallStays
  <2>2. \A l \in Slot : LoadStays(l)
    BY <1>5 DEF LoadStays
  <2>3. calls' \in [Slot -> {NoCall} \cup CallRow] /\ calls'[s] = NoCall
    BY <1>2, <1>5
  <2>4. loads' = loads /\ shown' = shown /\ form' = form
    BY <1>5
  <2> HIDE DEF rest
  <2> QED
    BY <1>1, <1>3, <1>4, <2>1, <2>2, <2>3, <2>4, CallOver
<1>6. CASE /\ Of(h).twoSteps
           /\ calls' = Missing(h, rest) /\ loads' = Missing(h, loads)
           /\ shown' = [shown EXCEPT !.unseen = @ \cup {h}]
           /\ Made(s, form.typed)
  <2> HIDE DEF rest
  <2>1. calls' \in [Slot -> {NoCall} \cup CallRow] /\ calls'[s] = NoCall /\ \A t \in Slot \ {s} : CallStays(t)
    BY <1>2, <1>6, MissingCalls DEF CallStays
  <2>2. \A l \in Slot : loads[l] # NoCall => loads'[l].since \in {loads[l].since, loads[l].since \cup {h}}
    BY <1>2, <1>4, <1>6, MissingLoads
  <2>3. loads' \in [Slot -> {NoCall} \cup LoadRow] /\ \A l \in Slot : LoadStays(l)
    BY <1>2, <1>4, <1>6, MissingLoads DEF LoadStays
  <2>4. MayBeMissed(h)
    BY <1>6 DEF MayBeMissed
  <2>5. shown' \in [filters : Nat, unseen : SUBSET Hs] /\ shown'.filters = shown.filters
        /\ shown'.unseen = shown.unseen \cup {h}
    BY <1>2, <1>4, <1>6
  <2>6. form.typed \in BOOLEAN
    BY <1>4
  <2>7. /\ form' \in [typed : BOOLEAN, made : 0 .. 2] /\ (~first.creates => form' = form)
        /\ (calls[s].does # "first" => form' = form)
    BY <1>1, <1>6, <2>6, FormMade
  <2>8. OwnControl => calls[s].does # "first"
    BY <1>6 DEF OwnControl, Of
  <2> QED
    BY <1>1, <1>3, <2>1, <2>2, <2>3, <2>4, <2>5, <2>7, <2>8, CallOver
<1> QED
  BY <1>5, <1>6 DEF Fail

\* A call succeeds and stays in flight until the load it begins has been answered.
LEMMA CallReads ==
  ASSUME Paging, SamePage, NEW s \in Slot, calls[s] # NoCall, Of(calls[s].does).then \in {"reload", "choose"},
         calls' \in [Slot -> {NoCall} \cup CallRow], calls'[s] # NoCall, calls'[s].does = calls[s].does,
         calls'[s].reading, \A t \in Slot \ {s} : CallStays(t),
         \A l \in Slot, t \in Slot \ {s} : LoadFor(l, t)' => LoadFor(l, t),
         \A l, m \in Slot : LoadFor(l, s)' /\ LoadFor(m, s)' => l = m,
         loads' \in [Slot -> {NoCall} \cup LoadRow], AwaitsLoad',
         Orderly => \A l \in Slot : Wanted(l)' => loads'[l].since = {},
         ~late' /\ Orderly => \A l \in Slot : Wanted(l)' => loads'[l].filters = filters',
         cells' = [cells EXCEPT !["loading"] = <<"on", "none">>],
         filters' \in Nat, late' \in BOOLEAN, failed' = failed, shown' \in [filters : Nat, unseen : SUBSET Hs],
         form' \in [typed : BOOLEAN, made : 0 .. 2], ~first.creates => form' = form,
         form' # form /\ OwnControl => Making(s) /\ form'.made = 1 /\ ~form'.typed
  PROVE  Paging'
<1>1. cells' = [c \in Cells |-> cells'[c]] /\ \A c \in Cells \ {"loading"} : cells'[c] = cells[c]
  BY DEF Paging, PageShape
<1>2. PageShape'
  BY <1>1, PageStays DEF Paging, PageShape, SamePage
<1>3. ReadingLoads'
  BY DEF Paging, ReadingLoads, CallStays, Of, SamePage
<1>4. Waits'
  BY DEF Paging, Waits, CallStays, SamePage
<1>5. Choosing' /\ Showing'
  BY PageStays DEF Choosing, Showing
<1>6. Clearing'
  <2>1. ASSUME NEW c \in Cells, cells'[c] # Clear, c # "loading"
        PROVE  \E t \in Slot : calls'[t] # NoCall /\ Of(calls'[t].does).flag[1] = c
    <3>1. PICK t \in Slot : calls[t] # NoCall /\ Of(calls[t].does).flag[1] = c
      BY <1>1, <2>1 DEF Paging, Clearing
    <3>2. calls'[t] # NoCall /\ calls'[t].does = calls[t].does
      BY <3>1 DEF CallStays
    <3> QED
      BY <3>1, <3>2
  <2> QED
    BY <2>1, PageStays DEF Clearing, Of, SamePage
<1>7. MadeByFirst'
  BY DEF Paging, MadeByFirst, SamePage
<1>8. OneMaker'
  <2> SUFFICES ASSUME OwnControl
               PROVE  OneMaker'
    BY PageStays DEF OneMaker
  <2>1. calls[s].does \in Used
    BY DEF Paging, PageShape, CallRow
  <2>2. first.flag[1] # "loading"
    BY <2>1 DEF Paging, HandlersFit, OwnControl
  <2>3. \A t \in Slot : Holding(t)' = Holding(t) /\ Making(t)' = Making(t)
    BY DEF Holding, Making, Of, SamePage, CallStays
  <2>4. cells'[first.flag[1]] = cells[first.flag[1]]
    BY <1>1, <2>2 DEF Cells
  <2>5. ASSUME NEW t \in Slot, Making(t)', ~calls'[t].reading
        PROVE  form'.made = 0 /\ (first.form # "none" => form'.typed)
    <3>1. t # s /\ Making(t) /\ ~calls[t].reading
      BY <2>3, <2>5 DEF CallStays, Making
    <3>2. ~Making(s)
      BY <3>1 DEF Paging, OneMaker, Making, Holding, Of
    <3> QED
      BY <3>1, <3>2 DEF Paging, OneMaker
  <2>6. (form'.typed => form'.made = 0) /\ form'.made < 2
    BY DEF Paging, OneMaker
  <2>7. /\ \A t, u \in Slot : Holding(t)' /\ Holding(u)' => t = u
        /\ \A t \in Slot : Holding(t)' => cells'[first.flag[1]] = KeyOf(first.flag, "row1")
    BY <2>3, <2>4 DEF Paging, OneMaker
  <2> QED
    BY <2>2, <2>5, <2>6, <2>7 DEF OneMaker, KeyOf, SamePage
<1> QED
  BY <1>2, <1>3, <1>4, <1>5, <1>6, <1>7, <1>8, PageStays DEF Paging

LEMMA SucceededAndLoads ==
  ASSUME Paging, NEW s \in Slot, SucceedAndLoad(s)
  PROVE  Paging'
<1> DEFINE h == calls[s].does
           now == [calls EXCEPT ![s].reading = TRUE]
           typed == Of(h).form = "kept" /\ form.typed
<1>1. SamePage /\ calls[s] # NoCall /\ Of(h).then = "reload" /\ ~calls[s].reading
  BY DEF SucceedAndLoad, SamePage
<1>2. calls[s] \in CallRow /\ loads \in [Slot -> {NoCall} \cup LoadRow]
      /\ shown \in [filters : Nat, unseen : SUBSET Hs] /\ form \in [typed : BOOLEAN, made : 0 .. 2]
  BY <1>1 DEF Paging, PageShape
<1>3. h \in Used /\ h \in Hs /\ calls[s].filters \in Nat
  BY <1>2 DEF CallRow, Used, Hs
<1>4. [calls[s] EXCEPT !.reading = TRUE] \in CallRow
      /\ [calls[s] EXCEPT !.reading = TRUE].does = h /\ [calls[s] EXCEPT !.reading = TRUE].reading
  BY <1>2 DEF CallRow
<1>5. now \in [Slot -> {NoCall} \cup CallRow] /\ now[s] = [calls[s] EXCEPT !.reading = TRUE]
      /\ \A t \in Slot \ {s} : now[t] = calls[t]
  BY <1>4 DEF Paging, PageShape
<1>6. calls' = Missing(h, now)
  BY DEF SucceedAndLoad
<1> HIDE DEF now
<1>7. /\ calls' \in [Slot -> {NoCall} \cup CallRow] /\ calls'[s] # NoCall
      /\ calls'[s].does = h /\ calls'[s].reading /\ \A t \in Slot \ {s} : CallStays(t)
  <2>1. /\ calls' \in [Slot -> {NoCall} \cup CallRow]
        /\ \A t \in Slot : calls'[t] = NoCall <=> now[t] = NoCall
        /\ \A t \in Slot : now[t] # NoCall => calls'[t].does = now[t].does /\ calls'[t].reading = now[t].reading
    BY <1>3, <1>5, <1>6, MissingCalls
  <2>2. now[s] # NoCall /\ now[s].does = h /\ now[s].reading
    BY <1>4, <1>5, NoRow
  <2> QED
    BY <1>5, <2>1, <2>2 DEF CallStays
<1> DEFINE missed == Missing(h, loads)
<1>8. missed \in [Slot -> {NoCall} \cup LoadRow]
      /\ \A l \in Slot : (missed[l] = NoCall <=> loads[l] = NoCall)
           /\ (loads[l] # NoCall => missed[l].filters = loads[l].filters /\ missed[l].by = loads[l].by)
  BY <1>2, <1>3, MissingLoads
<1>9. Load(calls[s].filters, s, missed) /\ late' = (late \/ calls[s].filters # filters)
      /\ cells' = [cells EXCEPT !["loading"] = <<"on", "none">>]
      /\ shown' = [shown EXCEPT !.unseen = @ \cup {h}] /\ Made(s, typed) /\ UNCHANGED <<filters, failed>>
  BY DEF SucceedAndLoad
<1> HIDE DEF missed
<1>10. s \in 0 .. 2
  BY DEF Slot
<1>11. loads' \in [Slot -> {NoCall} \cup LoadRow]
  BY <1>3, <1>8, <1>9, <1>10, LoadBegun
<1>12. PICK u \in Slot : Begun(u, calls[s].filters, s, missed)
  BY <1>3, <1>8, <1>9, <1>10, LoadBegun
<1>13. Wanted(u)' /\ AwaitsLoad'
  BY <1>12, NoRow DEF Begun, Wanted, AwaitsLoad
<1>14. Orderly => \A l \in Slot \ {u} : ~Wanted(l)'
  <2>1. ASSUME calm
        PROVE  \A l \in Slot : missed[l] = NoCall
    BY <1>1, <1>8, <2>1 DEF Paging, Waits
  <2> QED
    BY <1>1, <1>12, <2>1 DEF Begun, Wanted, Orderly, SamePage, Has
<1>15. loads'[u].since = {} /\ loads'[u].filters = calls[s].filters
  BY <1>12 DEF Begun
<1>16. late' \in BOOLEAN /\ filters' \in Nat /\ failed' = failed /\ filters' = filters
  BY <1>9 DEF Paging, PageShape
<1>17. shown' \in [filters : Nat, unseen : SUBSET Hs]
  BY <1>2, <1>3, <1>9
<1>18. /\ form' \in [typed : BOOLEAN, made : 0 .. 2] /\ (~first.creates => form' = form)
       /\ form' # form /\ OwnControl => Making(s) /\ form'.made = 1 /\ form'.typed = typed
  <2>1. typed \in BOOLEAN
    BY <1>2
  <2> HIDE DEF typed
  <2> QED
    BY <1>1, <1>9, <2>1, FormMade
<1>19. OwnControl /\ Making(s) => ~typed
  BY DEF OwnControl, Making, Of
<1>20. /\ \A l \in Slot, t \in Slot \ {s} : LoadFor(l, t)' => LoadFor(l, t)
       /\ \A l, m \in Slot : LoadFor(l, s)' /\ LoadFor(m, s)' => l = m
  <2>1. \A l \in Slot \ {u} : loads'[l] # NoCall => loads[l] # NoCall /\ loads'[l].by = loads[l].by
    BY <1>8, <1>12 DEF Begun
  <2>2. \A l \in Slot : ~LoadFor(l, s)
    BY <1>1 DEF Paging, ReadingLoads
  <2>3. loads'[u].by = s
    BY <1>12 DEF Begun
  <2> QED
    BY <2>1, <2>2, <2>3 DEF LoadFor
<1> QED
  BY <1>1, <1>7, <1>9, <1>11, <1>13, <1>14, <1>15, <1>16, <1>17, <1>18, <1>19, <1>20, CallReads

LEMMA SucceededAndChooses ==
  ASSUME Paging, NEW s \in Slot, SucceedAndChoose(s)
  PROVE  Paging'
<1>1. SamePage /\ calls[s] # NoCall /\ Of(calls[s].does).then = "choose" /\ ~calls[s].reading
      /\ filters' = filters + 1 /\ late' = TRUE /\ shown' = shown /\ failed' = failed /\ Made(s, FALSE)
      /\ cells' = [cells EXCEPT !["loading"] = <<"on", "none">>]
  BY DEF SucceedAndChoose, SamePage
<1>2. calls[s] \in CallRow /\ filters \in Nat /\ shown \in [filters : Nat, unseen : SUBSET Hs]
  BY <1>1 DEF Paging, PageShape
<1>3. [calls[s] EXCEPT !.reading = TRUE] \in CallRow
      /\ [calls[s] EXCEPT !.reading = TRUE].does = calls[s].does /\ [calls[s] EXCEPT !.reading = TRUE].reading
  BY <1>2 DEF CallRow
<1>4. calls' \in [Slot -> {NoCall} \cup CallRow] /\ calls'[s] = [calls[s] EXCEPT !.reading = TRUE]
      /\ \A t \in Slot \ {s} : calls'[t] = calls[t]
  BY <1>3 DEF SucceedAndChoose, Paging, PageShape
<1>5. calls'[s] # NoCall /\ calls'[s].does = calls[s].does /\ calls'[s].reading
      /\ \A t \in Slot \ {s} : CallStays(t)
  BY <1>3, <1>4, NoRow DEF CallStays
<1>6. PICK own \in Slot :
        loads' = [t \in Slot |->
          [filters |-> IF t = own THEN calls[s].filters ELSE filters + 1, current |-> t # own,
           since |-> {}, by |-> IF t = own THEN s ELSE 0]]
  BY DEF SucceedAndChoose
<1>7. ASSUME NEW t \in Slot
      PROVE  loads'[t] \in LoadRow /\ loads'[t].since = {} /\ loads'[t].current = (t # own)
             /\ loads'[t].by = IF t = own THEN s ELSE 0
  <2>1. (IF t = own THEN calls[s].filters ELSE filters + 1) \in Nat /\ (IF t = own THEN s ELSE 0) \in 0 .. 2
    BY <1>2 DEF CallRow, Slot
  <2> QED
    BY <1>6, <2>1 DEF LoadRow
<1>8. loads' \in [Slot -> {NoCall} \cup LoadRow]
  BY <1>6, <1>7
<1>9. PICK t \in Slot : t # own
  BY DEF Slot
<1>10. AwaitsLoad'
  BY <1>7, <1>9, NoRow DEF AwaitsLoad, Wanted
<1>11. /\ form' \in [typed : BOOLEAN, made : 0 .. 2] /\ (~first.creates => form' = form)
       /\ form' # form /\ OwnControl => Making(s) /\ form'.made = 1 /\ ~form'.typed
  BY <1>1, FormMade
<1>12. filters' \in Nat /\ late' \in BOOLEAN
  BY <1>1, <1>2
<1>13. /\ \A l \in Slot, u \in Slot \ {s} : LoadFor(l, u)' => LoadFor(l, u)
       /\ \A l, m \in Slot : LoadFor(l, s)' /\ LoadFor(m, s)' => l = m
  BY <1>7 DEF LoadFor, Slot
<1> QED
  BY <1>1, <1>2, <1>4, <1>5, <1>7, <1>8, <1>10, <1>11, <1>12, <1>13, CallReads

LEMMA Answered ==
  ASSUME Paging, NEW l \in Slot, Answer(l)
  PROVE  Paging'
<1> DEFINE wanted == Has("numbered") => loads[l].current
           over == IF wanted THEN [cells EXCEPT !["loading"] = Clear] ELSE cells
           b == loads[l].by
<1>1. SamePage /\ loads[l] # NoCall /\ loads' = [loads EXCEPT ![l] = NoCall] /\ UNCHANGED <<filters, late>>
      /\ calls' = (IF b = 0 THEN calls ELSE [calls EXCEPT ![b] = NoCall])
      /\ cells' = (IF b = 0 THEN over ELSE Cleared(b, over))
  BY DEF Answer, SamePage
<1>2. loads[l] \in LoadRow /\ shown \in [filters : Nat, unseen : SUBSET Hs]
      /\ form \in [typed : BOOLEAN, made : 0 .. 2]
  BY <1>1 DEF Paging, PageShape
<1>3. b \in 0 .. 2 /\ loads[l].filters \in Nat /\ loads[l].since \in SUBSET Hs /\ (b # 0 => b \in Slot)
  BY <1>2 DEF LoadRow, Slot
<1>4. loads' \in [Slot -> {NoCall} \cup LoadRow] /\ loads'[l] = NoCall /\ \A t \in Slot \ {l} : loads'[t] = loads[t]
  BY <1>1 DEF Paging, PageShape
<1>5. calls' \in [Slot -> {NoCall} \cup CallRow] /\ \A t \in Slot : calls'[t] = IF t = b THEN NoCall ELSE calls[t]
  BY <1>1, <1>3 DEF Paging, PageShape, Slot
<1>6. wanted <=> Wanted(l)
  BY <1>1 DEF Wanted
<1>7. \A t \in Slot : Wanted(t)' <=> t # l /\ Wanted(t)
  BY <1>1, <1>4 DEF Wanted, SamePage, Has
<1>8. over = [c \in Cells |-> IF wanted /\ c = "loading" THEN Clear ELSE cells[c]]
  BY DEF Paging, PageShape
<1>9. cells' = [c \in Cells |-> IF b # 0 /\ c = Of(calls[b].does).flag[1] THEN Clear ELSE over[c]]
  <2>1. CASE b = 0
    BY <1>1, <1>8, <2>1
  <2>2. CASE b # 0
    BY <1>1, <2>2 DEF Cleared
  <2> QED
    BY <2>1, <2>2
<1>10. /\ wanted /\ ~failed' => shown'.filters = loads[l].filters /\ shown'.unseen \subseteq loads[l].since
       /\ wanted /\ failed' => shown' = shown
       /\ ~wanted => shown' = shown /\ failed' = failed
       /\ shown' \in [filters : Nat, unseen : SUBSET Hs] /\ failed' \in BOOLEAN
  <2>1. CASE wanted /\ failed' = FALSE
             /\ \E stale \in {{}, loads[l].since} : shown' = [filters |-> loads[l].filters, unseen |-> stale]
    <3>1. PICK stale \in {{}, loads[l].since} : shown' = [filters |-> loads[l].filters, unseen |-> stale]
      BY <2>1
    <3>2. stale \in SUBSET Hs /\ stale \subseteq loads[l].since
      BY <1>3
    <3> QED
      BY <1>3, <2>1, <3>1, <3>2
  <2>2. CASE wanted /\ failed' = TRUE /\ shown' = shown
    BY <1>2, <2>2
  <2>3. CASE ~wanted /\ shown' = shown /\ failed' = failed
    BY <1>2, <2>3 DEF Paging, PageShape
  <2> QED
    BY <2>1, <2>2, <2>3 DEF Answer
<1>11. form' = form \/ (first.form = "kept" /\ form' = [form EXCEPT !.typed = FALSE])
  BY DEF Answer
<1>12. form' \in [typed : BOOLEAN, made : 0 .. 2] /\ form'.made = form.made /\ (first.form # "kept" => form' = form)
  BY <1>2, <1>11
<1> HIDE DEF over, wanted, b
<1>13. PageShape'
  BY <1>1, <1>4, <1>5, <1>9, <1>10, <1>12, PageStays DEF Paging, PageShape, SamePage
<1>14. ReadingLoads'
  <2>1. \A m, t \in Slot : LoadFor(m, t)' <=> m # l /\ LoadFor(m, t)
    BY <1>4 DEF LoadFor
  <2>2. \A t \in Slot : b = t => LoadFor(l, t)
    BY <1>1 DEF LoadFor, b
  <2> QED
    BY <1>1, <1>5, <2>1, <2>2 DEF Paging, ReadingLoads, Of, SamePage
<1>15. Waits'
  BY <1>1, <1>4, <1>5 DEF Paging, Waits, SamePage
<1>16. Choosing'
  <2>1. SamePage /\ Orderly' = Orderly /\ filters' = filters /\ late' = late
    BY <1>1, PageStays
  <2>2. ~late /\ Orderly => \A t \in Slot : Wanted(t)' => loads'[t].filters = filters
    BY <1>4, <1>7 DEF Paging, Choosing
  <2>3. ~late /\ Orderly => failed' \/ shown'.filters = filters \/ AwaitsLoad'
    BY <1>6, <1>7, <1>10 DEF Paging, Choosing, AwaitsLoad
  <2> QED
    BY <2>1, <2>2, <2>3 DEF Choosing
<1>17. Showing'
  <2>1. Orderly => \A t \in Slot : Wanted(t)' => \A g \in loads'[t].since : MayBeMissed(g)
    BY <1>4, <1>7 DEF Paging, Showing
  <2>2. Orderly => \A g \in shown'.unseen : MayBeMissed(g) \/ failed' \/ AwaitsLoad'
    BY <1>6, <1>7, <1>10 DEF Paging, Showing, AwaitsLoad
  <2> QED
    BY <1>1, <2>1, <2>2, PageStays DEF Showing
<1>18. Clearing'
  <2>1. ASSUME NEW c \in Cells, cells'[c] # Clear
        PROVE  \/ \E t \in Slot : calls'[t] # NoCall /\ Of(calls'[t].does).flag[1] = c
               \/ c = "loading" /\ AwaitsLoad'
    <3>1. cells[c] # Clear /\ ~(b # 0 /\ c = Of(calls[b].does).flag[1]) /\ ~(wanted /\ c = "loading")
      BY <1>8, <1>9, <2>1
    <3>2. CASE \E t \in Slot : calls[t] # NoCall /\ Of(calls[t].does).flag[1] = c
      <4>1. PICK t \in Slot : calls[t] # NoCall /\ Of(calls[t].does).flag[1] = c
        BY <3>2
      <4>2. t # b
        BY <3>1, <4>1 DEF Slot
      <4> QED
        BY <1>5, <4>1, <4>2
    <3>3. CASE c = "loading" /\ AwaitsLoad
      BY <1>6, <1>7, <3>1, <3>3 DEF AwaitsLoad
    <3> QED
      BY <3>1, <3>2, <3>3 DEF Paging, Clearing
  <2> QED
    BY <1>1, <2>1, PageStays DEF Clearing, Of, SamePage
<1>19. MadeByFirst'
  BY <1>1, <1>12 DEF Paging, MadeByFirst, SamePage
<1>20. OneMaker'
  <2> SUFFICES ASSUME OwnControl
               PROVE  OneMaker'
    BY <1>1, PageStays DEF OneMaker
  <2>1. form' = form /\ first.flag[1] # "loading"
    BY <1>1, <1>12 DEF Paging, OneMaker, OwnControl
  <2>2. ASSUME NEW t \in Slot
        PROVE  (Holding(t)' <=> t # b /\ Holding(t)) /\ (Making(t)' <=> t # b /\ Making(t))
    BY <1>1, <1>5 DEF Holding, Making, Of, SamePage
  <2>3. \A t, u \in Slot : Holding(t)' /\ Holding(u)' => t = u
    BY <2>2 DEF Paging, OneMaker
  <2>4. ASSUME NEW t \in Slot, Holding(t)'
        PROVE  cells'[first.flag[1]] = KeyOf(first.flag, "row1")
    <3>1. cells[first.flag[1]] = KeyOf(first.flag, "row1") /\ t # b /\ Holding(t)
      BY <2>2, <2>4 DEF Paging, OneMaker
    <3>2. CASE b # 0 /\ calls[b] # NoCall /\ Of(calls[b].does).flag[1] = first.flag[1]
      BY <1>3, <3>1, <3>2 DEF Paging, OneMaker, Holding
    <3>3. CASE b = 0 \/ Of(calls[b].does).flag[1] # first.flag[1]
      BY <1>8, <1>9, <2>1, <3>1, <3>3 DEF Cells
    <3>4. b # 0 => calls[b] # NoCall
      BY <1>1, <1>3 DEF Paging, ReadingLoads, LoadFor, b
    <3> QED
      BY <3>2, <3>3, <3>4
  <2>5. \A t \in Slot : Making(t)' /\ ~calls'[t].reading => form.made = 0 /\ (first.form # "none" => form.typed)
    BY <1>5, <2>2 DEF Paging, OneMaker
  <2> QED
    BY <1>1, <2>1, <2>3, <2>4, <2>5 DEF Paging, OneMaker, KeyOf, SamePage
<1> QED
  BY <1>1, <1>13, <1>14, <1>15, <1>16, <1>17, <1>18, <1>19, <1>20, PageStays DEF Paging

\* The handlers used are two of the page's.
LEMMA FirstsAre ==
  ASSUME NEW p, NEW f \in Firsts(p)
  PROVE  \E h \in DOMAIN p.controls : f = Handler(p, h)
<1> DEFINE Kind(g) == [cell |-> g.flag[1], key |-> g.flag[2] \in {"row", "on"}, row |-> g.flag[2] = "row",
                       own |-> IF g.off = {g.flag} THEN {<<"own", "flag">>} ELSE g.off,
                       then |-> g.then, creates |-> g.creates, twoSteps |-> g.twoSteps, form |-> g.form]
           kind == [h \in DOMAIN p.controls |-> Kind(Handler(p, h))]
           One(k) == CHOOSE h \in DOMAIN kind : kind[h] = k
<1>1. f \in {Handler(p, One(k)) : k \in {kind[h] : h \in DOMAIN kind}}
  BY DEF Firsts
<1>2. DOMAIN kind = DOMAIN p.controls
  OBVIOUS
<1> HIDE DEF kind
<1>3. PICK h \in DOMAIN kind : f = Handler(p, One(kind[h]))
  BY <1>1
<1>4. One(kind[h]) \in DOMAIN kind
  OBVIOUS
<1> QED
  BY <1>2, <1>3, <1>4

LEMMA OthersAre ==
  ASSUME NEW p, NEW one, NEW f \in Others(p, one)
  PROVE  f = one \/ \E h \in DOMAIN p.controls : f = Handler(p, h)
<1> DEFINE Kind(g) == [same |-> g.flag = one.flag, cell |-> g.flag[1], row |-> g.flag[2] = "row",
                       then |-> g.then, free |-> g.off = {}]
           kind == [o \in DOMAIN p.controls \ {one.name} |-> Kind(Handler(p, o))]
           One(k) == CHOOSE o \in DOMAIN kind : kind[o] = k
<1>1. f \in {one} \cup {Handler(p, One(k)) : k \in {kind[o] : o \in DOMAIN kind}}
  BY DEF Others
<1>2. DOMAIN kind = DOMAIN p.controls \ {one.name}
  OBVIOUS
<1> HIDE DEF kind
<1>3. ASSUME f # one
      PROVE  \E h \in DOMAIN kind : f = Handler(p, One(kind[h]))
  BY <1>1, <1>3
<1>4. ASSUME NEW h \in DOMAIN kind
      PROVE  One(kind[h]) \in DOMAIN kind
  OBVIOUS
<1> QED
  BY <1>2, <1>3, <1>4

LEMMA PagingInit ==
  ASSUME PagesInit
  PROVE  Paging
<1>1. PICK n \in DOMAIN WebPage :
        /\ page = [name |-> n, traits |-> WebPage[n].traits]
        /\ first \in Firsts(WebPage[n]) /\ other \in Others(WebPage[n], first)
  BY DEF PagesInit
<1> DEFINE p == WebPage[n]
<1>2. PICK h \in DOMAIN p.controls : first = Handler(p, h)
  BY <1>1, FirstsAre
<1>3. PICK o \in DOMAIN p.controls : other = Handler(p, o)
  BY <1>1, <1>2, OthersAre
<1>4. page.traits = p.traits
  BY <1>1
<1>5. HandlersFit
  BY <1>2, <1>3, <1>4, PagesAssumption DEF HandlersFit, Used, Of, Has
<1>6. /\ calm \in BOOLEAN /\ cells = [c \in Cells |-> Clear] /\ filters = 0 /\ failed = FALSE /\ late = FALSE
      /\ calls = [s \in Slot |-> NoCall] /\ loads = [s \in Slot |-> NoCall]
      /\ shown = [filters |-> 0, unseen |-> {}] /\ form = [typed |-> FALSE, made |-> 0]
  BY DEF PagesInit
<1>7. PageShape
  <2>1. calls \in [Slot -> {NoCall} \cup CallRow] /\ loads \in [Slot -> {NoCall} \cup LoadRow]
    BY <1>6
  <2>2. cells = [c \in Cells |-> cells[c]]
    BY <1>6
  <2>3. form \in [typed : BOOLEAN, made : 0 .. 2] /\ shown \in [filters : Nat, unseen : SUBSET Hs]
    BY <1>6
  <2> QED
    BY <1>6, <2>1, <2>2, <2>3 DEF PageShape
<1>8. ReadingLoads /\ Waits /\ Choosing /\ Showing /\ Clearing /\ OneMaker /\ MadeByFirst
  BY <1>6 DEF ReadingLoads, LoadFor, Waits, Choosing, Showing, Wanted, Clearing, OneMaker, Holding, Making, MadeByFirst
<1> QED
  BY <1>5, <1>7, <1>8 DEF Paging

LEMMA PagingStep ==
  ASSUME Paging, PagesNext
  PROVE  Paging'
  BY Chosen, Filled, Refreshed, ControlUsed, Succeeded, SucceededAndLoads, SucceededAndChooses, CallFailed, Answered
     DEF PagesNext

PagingInFocus == focus = "pages" => Paging

LEMMA PagingMoves ==
  ASSUME PagingInFocus, [AgentsNext]_agentVars
  PROVE  PagingInFocus'
<1>1. CASE PagesTurn
  BY <1>1, PagingStep DEF PagesTurn, PagingInFocus
<1>2. CASE LifecycleTurn \/ AccessTurn \/ ComposerTurn
  BY <1>2 DEF LifecycleTurn, AccessTurn, ComposerTurn, PagingInFocus
<1>3. CASE UNCHANGED agentVars
  <2>1. SamePage /\ UNCHANGED <<pageVars, focus>>
    BY <1>3 DEF agentVars, pageVars, SamePage
  <2>2. Paging => Paging'
    BY <2>1, PageStays DEF pageVars, Paging, PageShape, ReadingLoads, LoadFor, Waits, Choosing, Showing, Wanted,
       AwaitsLoad, Clearing, OneMaker, Holding, Making, MadeByFirst, Of, Has, KeyOf
  <2> QED
    BY <2>1, <2>2 DEF PagingInFocus
<1> QED
  BY <1>1, <1>2, <1>3 DEF AgentsNext

LEMMA PagingAlways == AgentsSpec => []PagingInFocus
<1>1. AgentsInit => PagingInFocus
  BY PagingInit DEF AgentsInit, PagingInFocus
<1>2. PagingInFocus /\ [AgentsNext]_agentVars => PagingInFocus'
  BY PagingMoves
<1> QED
  BY <1>1, <1>2, PTL DEF AgentsSpec

\* Once everything has been answered, a page that numbers its loads, or whose user waits
\* for every answer, shows what its filters ask for and the changes made on it.
THEOREM PagesShow == AgentsSpec => []PageShows
<1>1. Paging => ShowsChosen /\ ShowsChanges
  <2>1. Settled => ~AwaitsLoad
    BY DEF Settled, Awaited, AwaitsLoad, Wanted
  <2> QED
    BY <2>1 DEF Paging, Choosing, Showing, ShowsChosen, ShowsChanges, Orderly, MayBeMissed
<1>2. PagingInFocus => PageShows
  BY <1>1 DEF PagingInFocus, PageShows
<1> QED
  BY <1>2, PagingAlways, PTL

\* A filled form makes one record, whatever its user and the other handler do, and no
\* control stays disabled once everything has been answered.
THEOREM PagesAct == AgentsSpec => []PageActs
<1>1. Paging => MadeOnce
  <2>1. Paging => form.made < 2 \/ ~OwnControl
    BY DEF Paging, OneMaker
  <2>2. Paging /\ form.made > 1 => first.creates
    BY DEF Paging, MadeByFirst
  <2>3. Paging => form.made \in Nat
    BY DEF Paging, PageShape
  <2> QED
    BY <2>1, <2>2, <2>3 DEF OwnControl, MadeOnce
<1>2. Paging => NothingStuck
  BY DEF Paging, Clearing, NothingStuck, Settled, Awaited, AwaitsLoad, Wanted
<1>3. PagingInFocus => PageActs
  BY <1>1, <1>2 DEF PagingInFocus, PageActs
<1> QED
  BY <1>3, PagingAlways, PTL

(***************************************************************************)
(* The ticket with the statuses and rules an organization starts with, and *)
(* one request after the other.                                            *)
(***************************************************************************)

Times == {"null", "recent", "old"}
SeededRow == [status : SystemStatus, def : SystemStatus \cup {"none"}, closedAt : Times, resolved : BOOLEAN]

ReopenRule == SeededRules["CUSTOMER_REPLIED"][1]
WaitRule == SeededRules["CUSTOMER_REPLIED"][2]
CustomerRules == <<ReopenRule, WaitRule>>
ReplyRules == SeededRules["TECHNICIAN_REPLIED"]

SeededMatched == [op : {"matched"}, ticket : Ticket, reopen : BOOLEAN, wait : BOOLEAN, prior : Times]
SeededTriggered == [op : {"triggered"}, ticket : Ticket, trigger : Trigger, prior : Times \cup {"unset"}]
SeededApplying ==
  [op : {"applying"}, ticket : Ticket, trigger : {"CUSTOMER_REPLIED", "TECHNICIAN_REPLIED"},
   def : SystemStatus, closedAt : Times, replied : BOOLEAN, rest : {CustomerRules, <<WaitRule>>, ReplyRules}]
SeededSending == [op : {"sending", "recorded"}, ticket : Ticket, kind : MessageKind]
SeededMoving == [op : {"moving"}, ticket : Ticket, target : SystemStatus]
SeededRequest == SeededMatched \cup SeededTriggered \cup SeededApplying \cup SeededSending \cup SeededMoving

\* A row is good when an active ticket has no trace of an end and its two columns agree.
Clean(w) == w.status \in ActiveStatus => w.closedAt = "null" /\ ~w.resolved
Agreeing(w) == w.def # "none" => w.status = w.def
Good(w) == Clean(w) /\ Agreeing(w)

\* The rules of a customer's reply bring the definition along: from a completed one, or to
\* that of a ticket that waits because somebody replied before.
AwaitsStaff(w, answered) == w.status = "WAITING_ON_TECHNICIAN" /\ answered
Mendable(w, answered) == Agreeing(w) \/ w.def \in Completed \/ AwaitsStaff(w, answered)

\* What request q has read of its row w, and of the replies, is still true, and what it has
\* yet to write makes the row good.
Business(q, w, answered) ==
  /\ q.op = "matched" =>
       Good(w) /\ (q.reopen <=> w.status \in Completed) /\ (q.wait <=> w.status # "MERGED" /\ answered)
  /\ q.op \in {"sending", "recorded"} => Good(w)
  /\ q.op = "triggered" =>
       /\ Clean(w)
       /\ q.trigger = "CUSTOMER_REPLIED" => Mendable(w, answered)
       /\ q.trigger \in {"TICKET_ASSIGNED", "MANUAL_REOPEN"} => Agreeing(w)
  /\ q.op = "applying" =>
       /\ Clean(w) /\ q.def = w.def
       /\ q.trigger = "CUSTOMER_REPLIED" =>
            /\ q.replied = answered
            /\ \/ q.rest = CustomerRules /\ Mendable(w, answered)
               \/ q.rest = <<WaitRule>> /\ (Agreeing(w) \/ AwaitsStaff(w, answered))
       /\ q.trigger = "TECHNICIAN_REPLIED" => q.rest = ReplyRules
  /\ q.op = "moving" => Good(Seeded!Transition(w, q.target))

OneByOne ==
  /\ row \in [Ticket -> SeededRow \cup {Absent}] /\ replied \in [Ticket -> BOOLEAN]
  /\ req \in [Request -> {Idle} \cup SeededRequest]
  /\ \A r, s \in Request : req[r] # Idle /\ req[s] # Idle => r = s
  /\ \A t \in Ticket : row[t] # Absent /\ (\A r \in Request : req[r] # Idle => req[r].ticket # t) => Good(row[t])
  /\ \A r \in Request : req[r] # Idle =>
       row[req[r].ticket] \in SeededRow /\ Business(req[r], row[req[r].ticket], replied[req[r].ticket])

SeededInTurn == (focus # "lifecycle" => ~seeded) /\ (seeded => OneByOne)

LEMMA SeededStatus ==
  /\ SystemStatus = {"NEW", "OPEN", "IN_PROGRESS", "WAITING_ON_CUSTOMER", "WAITING_ON_TECHNICIAN",
                     "WAITING_ON_THIRD_PARTY", "RESOLVED", "CLOSED", "REOPENED", "CANCELLED", "MERGED"}
  /\ Seeded!SystemStatus = SystemStatus /\ Seeded!Completed = Completed /\ Seeded!ActiveStatus = ActiveStatus
  /\ ActiveStatus = {"NEW", "OPEN", "IN_PROGRESS", "WAITING_ON_CUSTOMER", "WAITING_ON_TECHNICIAN",
                     "WAITING_ON_THIRD_PARTY", "REOPENED"}
<1>1. SystemStatus = {"NEW", "OPEN", "IN_PROGRESS", "WAITING_ON_CUSTOMER", "WAITING_ON_TECHNICIAN",
                     "WAITING_ON_THIRD_PARTY", "RESOLVED", "CLOSED", "REOPENED", "CANCELLED", "MERGED"}
  BY DEF SystemStatus, Category
<1>2. Seeded!SystemStatus = SystemStatus
  BY DEF Seeded!SystemStatus, Seeded!Category, SystemStatus, Category
<1>3. Seeded!Completed = Completed
  BY DEF Seeded!Completed, Completed
<1>4. Seeded!ActiveStatus = ActiveStatus
  BY <1>2, <1>3 DEF Seeded!ActiveStatus, ActiveStatus
<1>5. ActiveStatus = {"NEW", "OPEN", "IN_PROGRESS", "WAITING_ON_CUSTOMER", "WAITING_ON_TECHNICIAN",
                     "WAITING_ON_THIRD_PARTY", "REOPENED"}
  BY <1>1 DEF ActiveStatus, Completed
<1> QED
  BY <1>1, <1>2, <1>3, <1>4, <1>5

\* A transition makes a row good, unless it finds both columns there and the times not.
LEMMA SeededMove ==
  ASSUME NEW w \in SeededRow, NEW d \in SystemStatus
  PROVE  /\ Seeded!Transition(w, d) \in SeededRow
         /\ Seeded!Transition(w, d).def = d
         /\ Clean(w) \/ w.def # d \/ w.status # d => Good(Seeded!Transition(w, d))
<1> DEFINE time == IF d = "CLOSED" THEN "recent"
                   ELSE IF d \in ActiveStatus \cup {"RESOLVED"} THEN "null" ELSE w.closedAt
           flag == IF d = "RESOLVED" THEN TRUE ELSE IF d \in ActiveStatus THEN FALSE ELSE w.resolved
           m == [status |-> d, def |-> d, closedAt |-> time, resolved |-> flag]
<1>1. SeededSys[d] = d
  BY DEF SeededSys
<1>2. Seeded!Moved(w, d) = m
  <2>1. Seeded!Moved(w, d) = [w EXCEPT !.status = d, !.def = d, !.closedAt = time, !.resolved = flag]
    BY <1>1, SeededStatus DEF Seeded!Moved
  <2> HIDE DEF time, flag
  <2> QED
    BY <2>1 DEF SeededRow
<1>3. m \in SeededRow /\ m.def = d /\ m.status = d
  BY DEF SeededRow, Times
<1>4. Good(m)
  BY SeededStatus DEF Good, Clean, Agreeing
<1>5. Seeded!Transition(w, d) = IF w.def = d /\ w.status = d THEN w ELSE m
  BY <1>1, <1>2 DEF Seeded!Transition
<1> HIDE DEF m
<1>6. CASE w.def = d /\ w.status = d
  BY <1>5, <1>6 DEF Good, Agreeing
<1>7. CASE ~(w.def = d /\ w.status = d)
  BY <1>3, <1>4, <1>5, <1>7
<1> QED
  BY <1>6, <1>7

\* The rules an organization starts with, and what they match.
LEMMA SeededRulesAre ==
  /\ SeededRules["CUSTOMER_REPLIED"] = CustomerRules /\ ReplyRules = <<ReplyRules[1]>>
  /\ SeededRules["TICKET_ASSIGNED"] = <<>> /\ SeededRules["MANUAL_REOPEN"] = <<>>
  /\ ReopenRule.from = Completed /\ ReopenRule.target = "REOPENED" /\ ReopenRule.prior = "any"
  /\ ReopenRule.window = FALSE /\ ReopenRule.stop = TRUE
  /\ WaitRule = [from |-> {}, target |-> "WAITING_ON_TECHNICIAN", prior |-> "yes", window |-> FALSE, stop |-> TRUE]
  /\ ReplyRules[1] = [from |-> {}, target |-> "WAITING_ON_CUSTOMER", prior |-> "any", window |-> FALSE, stop |-> TRUE]
<1>1. SeededRules["CUSTOMER_REPLIED"] =
        << [AnyFrom("REOPENED", "any") EXCEPT !.from = Completed], AnyFrom("WAITING_ON_TECHNICIAN", "yes") >>
  BY DEF SeededRules, Trigger
<1>2. SeededRules["TECHNICIAN_REPLIED"] = << AnyFrom("WAITING_ON_CUSTOMER", "any") >>
  BY DEF SeededRules, Trigger
<1>3. SeededRules["TICKET_ASSIGNED"] = <<>> /\ SeededRules["MANUAL_REOPEN"] = <<>>
  BY DEF SeededRules, Trigger
<1>4. ReopenRule = [AnyFrom("REOPENED", "any") EXCEPT !.from = Completed]
      /\ WaitRule = AnyFrom("WAITING_ON_TECHNICIAN", "yes") /\ ReplyRules[1] = AnyFrom("WAITING_ON_CUSTOMER", "any")
  BY <1>1, <1>2 DEF ReopenRule, WaitRule, ReplyRules
<1>5. /\ ReopenRule.from = Completed /\ ReopenRule.target = "REOPENED" /\ ReopenRule.prior = "any"
      /\ ReopenRule.window = FALSE /\ ReopenRule.stop = TRUE
  BY <1>4 DEF AnyFrom
<1>6. SeededRules["CUSTOMER_REPLIED"] = CustomerRules /\ ReplyRules = <<ReplyRules[1]>>
  BY <1>1, <1>2, <1>4 DEF CustomerRules, ReplyRules
<1> QED
  BY <1>3, <1>4, <1>5, <1>6 DEF AnyFrom

LEMMA SeededMatches ==
  ASSUME NEW q \in SeededApplying
  PROVE  /\ Seeded!Matches(ReopenRule, q) <=> q.def \in Completed
         /\ Seeded!Matches(WaitRule, q) <=> q.replied
         /\ Seeded!Matches(ReplyRules[1], q)
<1>1. Seeded!Matches(ReopenRule, q) <=> q.def \in Completed
  BY SeededRulesAre DEF Seeded!Matches, Completed
<1>2. Seeded!Matches(WaitRule, q) <=> q.replied
  BY SeededRulesAre DEF Seeded!Matches, SeededApplying
<1>3. Seeded!Matches(ReplyRules[1], q)
  BY SeededRulesAre DEF Seeded!Matches
<1> QED
  BY <1>1, <1>2, <1>3

\* A request takes its turn: it writes its ticket's row and goes on, or ends.
LEMMA TurnTaken ==
  ASSUME OneByOne, NEW r \in Request, NEW t \in Ticket,
         (\A s \in Request : req[s] = Idle) \/ (req[r] # Idle /\ req[r].ticket = t),
         NEW w \in SeededRow, row' = [row EXCEPT ![t] = w],
         NEW q \in {Idle} \cup SeededRequest, req' = [req EXCEPT ![r] = q],
         replied' \in [Ticket -> BOOLEAN],
         q = Idle => Good(w), q # Idle => q.ticket = t /\ Business(q, w, replied'[t])
  PROVE  OneByOne'
<1>1. row' \in [Ticket -> SeededRow \cup {Absent}] /\ row'[t] = w /\ \A u \in Ticket \ {t} : row'[u] = row[u]
  BY DEF OneByOne
<1>2. req' \in [Request -> {Idle} \cup SeededRequest] /\ req'[r] = q /\ \A s \in Request \ {r} : req'[s] = req[s]
  BY DEF OneByOne
<1>3. \A s \in Request \ {r} : req[s] = Idle
  BY DEF OneByOne
<1>4. \A s, u \in Request : req'[s] # Idle /\ req'[u] # Idle => s = u
  BY <1>2, <1>3
<1>5. ASSUME NEW u \in Ticket, row'[u] # Absent, \A s \in Request : req'[s] # Idle => req'[s].ticket # u
      PROVE  Good(row'[u])
  <2>1. CASE u = t
    BY <1>1, <1>2, <1>5, <2>1
  <2>2. CASE u # t
    <3>1. row'[u] = row[u] /\ \A s \in Request : req[s] # Idle => req[s].ticket # u
      BY <1>1, <1>3, <2>2
    <3> QED
      BY <1>5, <3>1 DEF OneByOne
  <2> QED
    BY <2>1, <2>2
<1>6. ASSUME NEW s \in Request, req'[s] # Idle
      PROVE  row'[req'[s].ticket] \in SeededRow
             /\ Business(req'[s], row'[req'[s].ticket], replied'[req'[s].ticket])
  <2>1. s = r /\ req'[s] = q /\ q.ticket = t
    BY <1>2, <1>3, <1>6
  <2> QED
    BY <1>1, <1>6, <2>1
<1> QED
  BY <1>1, <1>2, <1>4, <1>5, <1>6 DEF OneByOne

\* A row is written while nothing is in progress.
LEMMA RowTaken ==
  ASSUME OneByOne, \A s \in Request : req[s] = Idle, NEW t \in Ticket, NEW w \in SeededRow, Good(w),
         row' = [row EXCEPT ![t] = w], UNCHANGED <<req, replied>>
  PROVE  OneByOne'
<1>1. row' \in [Ticket -> SeededRow \cup {Absent}] /\ row'[t] = w /\ \A u \in Ticket \ {t} : row'[u] = row[u]
  BY DEF OneByOne
<1>2. \A u \in Ticket : row'[u] # Absent => Good(row'[u])
  BY <1>1 DEF OneByOne
<1> QED
  BY <1>1, <1>2 DEF OneByOne

LEMMA SeededExists ==
  ASSUME OneByOne, NEW t \in Ticket
  PROVE  /\ Seeded!Exists(t) <=> row[t] # Absent
         /\ row[t] # Absent => row[t] \in SeededRow
         /\ row[t] \in SeededRow => row[t] # Absent
         /\ row = [row EXCEPT ![t] = row[t]]
<1>1. row[t] \in SeededRow \cup {Absent} /\ row = [row EXCEPT ![t] = row[t]]
  BY DEF OneByOne
<1>2. row[t] \in SeededRow => row[t].status # "ABSENT" /\ row[t] # Absent
  BY SeededStatus DEF SeededRow, Absent
<1>3. Absent.status = "ABSENT"
  BY DEF Absent
<1> QED
  BY <1>1, <1>2, <1>3 DEF Seeded!Exists

\* Nothing is in progress: every ticket there is good.
LEMMA AllGood ==
  ASSUME OneByOne, \A s \in Request : req[s] = Idle, NEW t \in Ticket, Seeded!Exists(t)
  PROVE  row[t] \in SeededRow /\ Good(row[t]) /\ Clean(row[t])
  BY SeededExists DEF OneByOne, Good

LEMMA SeededBeginRow ==
  ASSUME OneByOne, \A s \in Request : req[s] = Idle, NEW t \in Ticket,
         \/ Seeded!Create(t) \/ Seeded!CreateFromPortal(t) \/ Seeded!CloseTicket(t)
         \/ Seeded!MergeSource(t) \/ Seeded!Age(t)
  PROVE  OneByOne'
<1>1. CASE Seeded!Create(t)
  <2> DEFINE w == [status |-> "NEW", def |-> "NEW", closedAt |-> "null", resolved |-> FALSE]
  <2>1. w \in SeededRow /\ Good(w)
    BY SeededStatus DEF SeededRow, Times, Good, Clean, Agreeing
  <2>2. row' = [row EXCEPT ![t] = w] /\ UNCHANGED <<req, replied>>
    BY <1>1, SeededStatus DEF Seeded!Create, Seeded!Fresh, SeededSys, MCDefault
  <2> HIDE DEF w
  <2> QED
    BY <2>1, <2>2, RowTaken
<1>2. CASE Seeded!CreateFromPortal(t)
  <2> DEFINE w == [status |-> "NEW", def |-> "none", closedAt |-> "null", resolved |-> FALSE]
  <2>1. w \in SeededRow /\ Good(w)
    BY SeededStatus DEF SeededRow, Times, Good, Clean, Agreeing
  <2>2. row' = [row EXCEPT ![t] = w] /\ UNCHANGED <<req, replied>>
    BY <1>2 DEF Seeded!CreateFromPortal, Seeded!Fresh, MCNoDef
  <2> HIDE DEF w
  <2> QED
    BY <2>1, <2>2, RowTaken
<1>3. CASE Seeded!CloseTicket(t)
  <2>1. row[t] \in SeededRow /\ Clean(row[t])
    BY <1>3, AllGood DEF Seeded!CloseTicket
  <2>2. "CLOSED" \in SystemStatus /\ MCNamed["CLOSED"] = "CLOSED"
    BY SeededStatus DEF MCNamed
  <2>3. row' = [row EXCEPT ![t] = Seeded!Transition(row[t], "CLOSED")] /\ UNCHANGED <<req, replied>>
    BY <1>3, <2>2 DEF Seeded!CloseTicket
  <2> QED
    BY <2>1, <2>2, <2>3, SeededMove, RowTaken
<1>4. CASE Seeded!MergeSource(t)
  <2> DEFINE w == [row[t] EXCEPT !.status = "MERGED", !.def = "MERGED", !.closedAt = "recent"]
  <2>1. row[t] \in SeededRow
    BY <1>4, AllGood DEF Seeded!MergeSource
  <2>2. "MERGED" \in SystemStatus /\ MCNamed["MERGED"] = "MERGED" /\ "recent" \in Times
    BY SeededStatus DEF MCNamed, Times
  <2>3. w \in SeededRow /\ w.status = "MERGED" /\ w.def = "MERGED"
    BY <2>1, <2>2 DEF SeededRow
  <2>4. Good(w)
    BY <2>3, SeededStatus DEF Good, Clean, Agreeing
  <2>5. row' = [row EXCEPT ![t] = w] /\ UNCHANGED <<req, replied>>
    BY <1>4, <2>2 DEF Seeded!MergeSource
  <2> HIDE DEF w
  <2> QED
    BY <2>3, <2>4, <2>5, RowTaken
<1>5. CASE Seeded!Age(t)
  <2> DEFINE w == [row[t] EXCEPT !.closedAt = "old"]
  <2>1. row[t] \in SeededRow /\ Good(row[t]) /\ row[t].closedAt = "recent"
    BY <1>5, AllGood DEF Seeded!Age
  <2>2. w \in SeededRow /\ w.status = row[t].status /\ w.def = row[t].def
    BY <2>1 DEF SeededRow, Times
  <2>3. Good(w)
    BY <2>1, <2>2 DEF Good, Clean, Agreeing
  <2>4. row' = [row EXCEPT ![t] = w] /\ UNCHANGED <<req, replied>>
    BY <1>5 DEF Seeded!Age
  <2> HIDE DEF w
  <2> QED
    BY <2>2, <2>3, <2>4, RowTaken
<1> QED
  BY <1>1, <1>2, <1>3, <1>4, <1>5

\* What a request is about, by its kind.
LEMMA SeededKinds ==
  /\ \A q \in SeededRequest : q # Idle /\ q.ticket \in Ticket
  /\ \A q \in {Idle} \cup SeededRequest :
       /\ q.op = "matched" => q \in SeededMatched
       /\ q.op = "triggered" => q \in SeededTriggered
       /\ q.op = "applying" => q \in SeededApplying
       /\ q.op \in {"sending", "recorded"} => q \in SeededSending
       /\ q.op = "moving" => q \in SeededMoving
<1> USE DEF SeededRequest, SeededMatched, SeededTriggered, SeededApplying, SeededSending, SeededMoving
<1>1. Idle.op = "idle"
  BY DEF Idle
<1>2. \A q \in SeededRequest : q.op # "idle" /\ q.ticket \in Ticket
  OBVIOUS
<1>3. \A q \in {Idle} \cup SeededRequest : q.op = "matched" => q \in SeededMatched
  BY <1>1
<1>4. \A q \in {Idle} \cup SeededRequest : q.op = "triggered" => q \in SeededTriggered
  BY <1>1
<1>5. \A q \in {Idle} \cup SeededRequest : q.op = "applying" => q \in SeededApplying
  BY <1>1
<1>6. \A q \in {Idle} \cup SeededRequest : q.op \in {"sending", "recorded"} => q \in SeededSending
  BY <1>1
<1>7. \A q \in {Idle} \cup SeededRequest : q.op = "moving" => q \in SeededMoving
  BY <1>1
<1> QED
  BY <1>1, <1>2, <1>3, <1>4, <1>5, <1>6, <1>7

\* Rules about to be applied.
LEMMA TriggeredMade ==
  ASSUME NEW t \in Ticket, NEW g \in Trigger, NEW p \in Times \cup {"unset"}, NEW w, Clean(w), NEW answered,
         g = "CUSTOMER_REPLIED" => Mendable(w, answered),
         g \in {"TICKET_ASSIGNED", "MANUAL_REOPEN"} => Agreeing(w)
  PROVE  LET q == [op |-> "triggered", ticket |-> t, trigger |-> g, prior |-> p] IN
         /\ q \in SeededRequest /\ q # Idle /\ q.ticket = t /\ Business(q, w, answered)
<1> DEFINE q == [op |-> "triggered", ticket |-> t, trigger |-> g, prior |-> p]
<1>1. q \in SeededTriggered
  BY DEF SeededTriggered
<1>2. q \in SeededRequest
  BY <1>1 DEF SeededRequest
<1>3. q.op = "triggered" /\ q.trigger = g /\ q.ticket = t
  OBVIOUS
<1> HIDE DEF q
<1>4. Business(q, w, answered)
  BY <1>3 DEF Business
<1> QED
  BY <1>2, <1>3, <1>4, SeededKinds DEF q

\* A transition about to be made.
LEMMA MovingMade ==
  ASSUME NEW t \in Ticket, NEW d \in SystemStatus, NEW w \in SeededRow,
         Clean(w) \/ w.def # d \/ w.status # d, NEW answered
  PROVE  LET q == [op |-> "moving", ticket |-> t, target |-> d] IN
         /\ q \in SeededRequest /\ q # Idle /\ q.ticket = t /\ Business(q, w, answered)
<1> DEFINE q == [op |-> "moving", ticket |-> t, target |-> d]
<1>1. q \in SeededMoving
  BY DEF SeededMoving
<1>2. q \in SeededRequest
  BY <1>1 DEF SeededRequest
<1>3. q.op = "moving" /\ q.target = d /\ q.ticket = t
  OBVIOUS
<1> HIDE DEF q
<1>4. Business(q, w, answered)
  BY <1>3, SeededMove DEF Business
<1> QED
  BY <1>2, <1>3, <1>4, SeededKinds DEF q

\* A message being sent: its ticket is good.
LEMMA SendingMade ==
  ASSUME NEW t \in Ticket, NEW kind \in MessageKind, NEW op \in {"sending", "recorded"}, NEW w, Good(w), NEW answered
  PROVE  LET q == [op |-> op, ticket |-> t, kind |-> kind] IN
         /\ q \in SeededRequest /\ q # Idle /\ q.ticket = t /\ Business(q, w, answered)
<1> DEFINE q == [op |-> op, ticket |-> t, kind |-> kind]
<1>1. q \in SeededSending
  BY DEF SeededSending
<1>2. q \in SeededRequest
  BY <1>1 DEF SeededRequest
<1>3. q.op = op /\ q.ticket = t
  OBVIOUS
<1> HIDE DEF q
<1>4. Business(q, w, answered)
  BY <1>3 DEF Business
<1> QED
  BY <1>2, <1>3, <1>4, SeededKinds DEF q

\* A status set by staff, and the rules that may follow.
LEMMA StatusSet ==
  ASSUME OneByOne, \A s \in Request : req[s] = Idle, NEW r \in Request, NEW t \in Ticket, NEW w \in SeededRow,
         Good(w), row' = [row EXCEPT ![t] = w], replied' = replied, NEW g \in {"TICKET_ASSIGNED", "MANUAL_REOPEN"},
         req' = req \/ req' = [req EXCEPT ![r] = Seeded!TriggeredBy(t, g)]
  PROVE  OneByOne'
<1>1. CASE req' = req
  BY <1>1, RowTaken
<1>2. CASE req' = [req EXCEPT ![r] = Seeded!TriggeredBy(t, g)]
  <2> DEFINE q == [op |-> "triggered", ticket |-> t, trigger |-> g, prior |-> "unset"]
  <2>1. req' = [req EXCEPT ![r] = q]
    BY <1>2 DEF Seeded!TriggeredBy
  <2>2. g \in Trigger /\ g # "CUSTOMER_REPLIED" /\ Clean(w) /\ Agreeing(w)
    BY DEF Trigger, Good
  <2>3. q \in SeededRequest /\ q # Idle /\ q.ticket = t /\ Business(q, w, replied'[t])
    BY <2>2, TriggeredMade
  <2> HIDE DEF q
  <2>4. replied' \in [Ticket -> BOOLEAN]
    BY DEF OneByOne
  <2> QED
    BY <2>1, <2>3, <2>4, TurnTaken
<1> QED
  BY <1>1, <1>2

LEMMA SeededMatchRow ==
  ASSUME OneByOne, \A s \in Request : req[s] = Idle, NEW r \in Request, NEW t \in Ticket, Seeded!InboundMatch(r, t)
  PROVE  OneByOne'
<1> DEFINE reopen == row[t].status \in Completed
           wait == row[t].status # "MERGED" /\ replied[t]
           prior == row[t].closedAt
           q == [op |-> "matched", ticket |-> t, reopen |-> reopen, wait |-> wait, prior |-> prior]
<1>1. row[t] \in SeededRow /\ Good(row[t]) /\ row = [row EXCEPT ![t] = row[t]]
  BY AllGood, SeededExists DEF Seeded!InboundMatch
<1>2. req' = [req EXCEPT ![r] = q] /\ row' = row /\ replied' = replied
  BY SeededStatus DEF Seeded!InboundMatch, Seeded!Reopens
<1>3. prior \in Times /\ reopen \in BOOLEAN /\ wait \in BOOLEAN
  BY <1>1 DEF SeededRow
<1>4. (reopen <=> row[t].status \in Completed) /\ (wait <=> row[t].status # "MERGED" /\ replied[t])
  OBVIOUS
<1> HIDE DEF reopen, wait, prior
<1>5. q \in SeededMatched /\ q.op = "matched" /\ q.reopen = reopen /\ q.wait = wait /\ q.ticket = t
  BY <1>3 DEF SeededMatched
<1> HIDE DEF q
<1>6. q \in SeededRequest /\ q # Idle
  BY <1>5, SeededKinds DEF SeededRequest
<1>7. Business(q, row[t], replied[t])
  BY <1>1, <1>4, <1>5 DEF Business
<1>8. row' = [row EXCEPT ![t] = row[t]] /\ replied' \in [Ticket -> BOOLEAN] /\ replied'[t] = replied[t]
  BY <1>1, <1>2 DEF OneByOne
<1> QED
  BY <1>1, <1>2, <1>5, <1>6, <1>7, <1>8, TurnTaken

LEMMA SeededBeginRequest ==
  ASSUME OneByOne, \A s \in Request : req[s] = Idle, NEW r \in Request, NEW t \in Ticket,
         \/ \E kind \in MessageKind : Seeded!MessageStart(r, t, kind)
         \/ \E d \in SystemStatus : Seeded!UpdateState(r, t, d)
         \/ \E d \in SystemStatus \cup {"none"}, assigned \in BOOLEAN : Seeded!Assign(r, t, d, assigned)
         \/ \E s \in SystemStatus : Seeded!BulkByStatus(r, t, s)
  PROVE  OneByOne'
<1>1. ASSUME NEW kind \in MessageKind, Seeded!MessageStart(r, t, kind)
      PROVE  OneByOne'
  <2> DEFINE q == [op |-> "sending", ticket |-> t, kind |-> kind]
  <2>1. row[t] \in SeededRow /\ Good(row[t]) /\ row = [row EXCEPT ![t] = row[t]]
    BY <1>1, AllGood, SeededExists DEF Seeded!MessageStart
  <2>2. req' = [req EXCEPT ![r] = q] /\ row' = row /\ replied' = replied
    BY <1>1 DEF Seeded!MessageStart
  <2>3. q \in SeededRequest /\ q # Idle /\ q.ticket = t /\ Business(q, row[t], replied[t])
    BY <2>1, SendingMade
  <2> HIDE DEF q
  <2>4. row' = [row EXCEPT ![t] = row[t]] /\ replied' \in [Ticket -> BOOLEAN] /\ replied'[t] = replied[t]
    BY <2>1, <2>2 DEF OneByOne
  <2> QED
    BY <2>1, <2>2, <2>3, <2>4, TurnTaken
<1>2. ASSUME NEW d \in SystemStatus, Seeded!UpdateState(r, t, d)
      PROVE  OneByOne'
  <2> DEFINE w == Seeded!Transition(row[t], d)
  <2>1. row[t] \in SeededRow /\ Clean(row[t])
    BY <1>2, AllGood DEF Seeded!UpdateState
  <2>2. w \in SeededRow /\ Good(w)
    BY <2>1, SeededMove
  <2>3. row' = [row EXCEPT ![t] = w] /\ replied' = replied
        /\ (req' = req \/ req' = [req EXCEPT ![r] = Seeded!TriggeredBy(t, "MANUAL_REOPEN")])
    BY <1>2 DEF Seeded!UpdateState
  <2> HIDE DEF w
  <2> QED
    BY <2>2, <2>3, StatusSet
<1>3. ASSUME NEW d \in SystemStatus \cup {"none"}, NEW assigned \in BOOLEAN, Seeded!Assign(r, t, d, assigned)
      PROVE  OneByOne'
  <2> DEFINE w == IF d = "none" THEN row[t] ELSE Seeded!Transition(row[t], d)
  <2>1. row[t] \in SeededRow /\ Good(row[t]) /\ Clean(row[t])
    BY <1>3, AllGood DEF Seeded!Assign
  <2>2. w \in SeededRow /\ Good(w)
    BY <2>1, SeededMove
  <2>3. row' = [row EXCEPT ![t] = w] /\ replied' = replied
        /\ (req' = req \/ req' = [req EXCEPT ![r] = Seeded!TriggeredBy(t, "TICKET_ASSIGNED")])
    BY <1>3 DEF Seeded!Assign, MCNoDef
  <2> HIDE DEF w
  <2> QED
    BY <2>2, <2>3, StatusSet
<1>4. ASSUME NEW d \in SystemStatus, Seeded!BulkByStatus(r, t, d)
      PROVE  OneByOne'
  <2> DEFINE time == IF d = "CLOSED" THEN "recent"
                     ELSE IF d \in {"REOPENED", "OPEN"} THEN "null" ELSE row[t].closedAt
             w == [row[t] EXCEPT !.closedAt = time]
             q == [op |-> "moving", ticket |-> t, target |-> d]
  <2>1. row[t] \in SeededRow /\ Good(row[t]) /\ MCNamed[d] = d
    BY <1>4, AllGood DEF Seeded!BulkByStatus, MCNamed
  <2>2. row' = [row EXCEPT ![t] = w] /\ req' = [req EXCEPT ![r] = q] /\ replied' = replied
    BY <1>4, <2>1 DEF Seeded!BulkByStatus
  <2>3. time \in Times /\ (row[t].closedAt = "null" /\ d # "CLOSED" => time = "null")
    BY <2>1 DEF SeededRow, Times
  <2> HIDE DEF time
  <2>4. w \in SeededRow /\ w.status = row[t].status /\ w.def = row[t].def /\ w.resolved = row[t].resolved
        /\ w.closedAt = time
    BY <2>1, <2>3 DEF SeededRow
  <2> HIDE DEF w
  <2>5. Clean(w) \/ w.def # d \/ w.status # d
    BY <2>1, <2>3, <2>4, SeededStatus DEF Good, Clean, Completed
  <2>6. q \in SeededRequest /\ q # Idle /\ q.ticket = t /\ Business(q, w, replied'[t])
    BY <2>4, <2>5, MovingMade
  <2> HIDE DEF q
  <2>7. replied' \in [Ticket -> BOOLEAN]
    BY <2>2 DEF OneByOne
  <2>8. w \in SeededRow /\ row' = [row EXCEPT ![t] = w] /\ q \in {Idle} \cup SeededRequest /\ req' = [req EXCEPT ![r] = q]
    BY <2>2, <2>4, <2>6
  <2> QED
    BY <2>6, <2>7, <2>8, TurnTaken
<1> QED
  BY <1>1, <1>2, <1>3, <1>4

LEMMA SeededBegin ==
  ASSUME OneByOne, \A s \in Request : req[s] = Idle, Seeded!Begin
  PROVE  OneByOne'
<1>1. CASE \E t \in Ticket : \/ Seeded!Create(t) \/ Seeded!CreateFromPortal(t) \/ Seeded!CloseTicket(t)
                             \/ Seeded!MergeSource(t) \/ Seeded!Age(t)
  BY <1>1, SeededBeginRow
<1>2. CASE \E r \in Request, t \in Ticket : Seeded!InboundMatch(r, t)
  BY <1>2, SeededMatchRow
<1>3. CASE \E r \in Request, t \in Ticket :
             \/ \E kind \in MessageKind : Seeded!MessageStart(r, t, kind)
             \/ \E d \in SystemStatus : Seeded!UpdateState(r, t, d)
             \/ \E d \in SystemStatus \cup {"none"}, assigned \in BOOLEAN : Seeded!Assign(r, t, d, assigned)
             \/ \E s \in SystemStatus : Seeded!BulkByStatus(r, t, s)
  BY <1>3, SeededBeginRequest
<1> QED
  BY <1>1, <1>2, <1>3, SeededStatus DEF Seeded!Begin, MCNoDef, Seeded!MessageKind, MessageKind

\* A request in progress has its ticket, and what it has read of it.
LEMMA InProgress ==
  ASSUME OneByOne, NEW r \in Request, req[r].op # "idle"
  PROVE  /\ req[r] # Idle /\ req[r] \in SeededRequest /\ req[r].ticket \in Ticket
         /\ row[req[r].ticket] \in SeededRow /\ Business(req[r], row[req[r].ticket], replied[req[r].ticket])
         /\ row = [row EXCEPT ![req[r].ticket] = row[req[r].ticket]] /\ replied[req[r].ticket] \in BOOLEAN
<1>1. req[r] # Idle
  BY DEF Idle
<1>2. req[r] \in SeededRequest /\ req[r].ticket \in Ticket
  BY <1>1, SeededKinds DEF OneByOne
<1> QED
  BY <1>1, <1>2 DEF OneByOne

\* A customer's reply writes the status alone, in a way its rules can mend.
LEMMA SeededCommit ==
  ASSUME OneByOne, NEW r \in Request, Seeded!InboundCommit(r)
  PROVE  OneByOne'
<1> DEFINE p == req[r]
           t == p.ticket
           old == row[t]
           status == IF p.wait THEN "WAITING_ON_TECHNICIAN" ELSE IF p.reopen THEN "REOPENED" ELSE old.status
           time == IF p.reopen THEN "null" ELSE old.closedAt
           flag == IF p.reopen THEN FALSE ELSE old.resolved
           w == [old EXCEPT !.status = status, !.closedAt = time, !.resolved = flag]
           q == [op |-> "triggered", ticket |-> t, trigger |-> "CUSTOMER_REPLIED", prior |-> p.prior]
<1>1. p.op = "matched" /\ row' = [row EXCEPT ![t] = w] /\ req' = [req EXCEPT ![r] = q] /\ replied' = replied
  BY DEF Seeded!InboundCommit
<1>2. p # Idle /\ p \in SeededRequest /\ t \in Ticket /\ old \in SeededRow /\ Business(p, old, replied[t])
  BY <1>1, InProgress
<1>3. p.prior \in Times /\ p.reopen \in BOOLEAN /\ p.wait \in BOOLEAN
  BY <1>1, <1>2, SeededKinds DEF SeededMatched
<1>4. Good(old) /\ (p.reopen <=> old.status \in Completed) /\ (p.wait <=> old.status # "MERGED" /\ replied[t])
  BY <1>1, <1>2 DEF Business
<1>5. status \in SystemStatus /\ time \in Times /\ flag \in BOOLEAN
  BY <1>2, SeededStatus DEF SeededRow, Times
<1>6. status \in ActiveStatus => time = "null" /\ ~flag
  BY <1>2, <1>4, SeededStatus DEF Good, Clean, Completed, SeededRow
<1>7. \/ old.def # "none" => status = old.def
      \/ old.def \in Completed
      \/ status = "WAITING_ON_TECHNICIAN" /\ replied[t]
  BY <1>4 DEF Good, Agreeing
<1> HIDE DEF status, time, flag
<1>8. w \in SeededRow /\ w.status = status /\ w.closedAt = time /\ w.resolved = flag /\ w.def = old.def
  BY <1>2, <1>5 DEF SeededRow
<1> HIDE DEF w
<1>9. Clean(w) /\ Mendable(w, replied[t])
  BY <1>6, <1>7, <1>8 DEF Clean, Mendable, Agreeing, AwaitsStaff
<1>10. q \in SeededRequest /\ q # Idle /\ q.ticket = t /\ Business(q, w, replied'[t])
  BY <1>1, <1>2, <1>3, <1>9, TriggeredMade DEF Trigger
<1> HIDE DEF q, p
<1>11. replied' \in [Ticket -> BOOLEAN]
  BY <1>1 DEF OneByOne
<1>12. q \in {Idle} \cup SeededRequest /\ req[r] # Idle /\ req[r].ticket = t
  BY <1>2, <1>10 DEF p
<1> HIDE DEF t
<1> QED
  BY <1>1, <1>2, <1>8, <1>10, <1>11, <1>12, TurnTaken

LEMMA SeededMoves ==
  ASSUME OneByOne, NEW r \in Request, Seeded!Move(r)
  PROVE  OneByOne'
<1> DEFINE p == req[r]
           t == p.ticket
           w == Seeded!Transition(row[t], p.target)
<1>1. p.op = "moving" /\ row' = [row EXCEPT ![t] = w] /\ req' = [req EXCEPT ![r] = Idle] /\ replied' = replied
  BY DEF Seeded!Move, Seeded!Idle, Idle
<1>2. p # Idle /\ p \in SeededRequest /\ t \in Ticket /\ row[t] \in SeededRow /\ Business(p, row[t], replied[t])
  BY <1>1, InProgress
<1>3. p.target \in SystemStatus
  BY <1>1, <1>2, SeededKinds DEF SeededMoving
<1>4. w \in SeededRow /\ Good(w)
  BY <1>1, <1>2, <1>3, SeededMove DEF Business
<1>5. replied' \in [Ticket -> BOOLEAN]
  BY <1>1 DEF OneByOne
<1> HIDE DEF w
<1> QED
  BY <1>1, <1>2, <1>4, <1>5, TurnTaken

LEMMA SeededRecord ==
  ASSUME OneByOne, NEW r \in Request, Seeded!MessageRecord(r)
  PROVE  OneByOne'
<1> DEFINE p == req[r]
           t == p.ticket
           q == [op |-> "recorded", ticket |-> t, kind |-> p.kind]
           answered == replied[t] \/ p.kind # "note_and_close"
<1>1. p.op = "sending" /\ row' = row /\ req' = [req EXCEPT ![r] = [p EXCEPT !.op = "recorded"]]
      /\ replied' = [replied EXCEPT ![t] = answered]
  BY DEF Seeded!MessageRecord
<1>2. p # Idle /\ p \in SeededRequest /\ t \in Ticket /\ row[t] \in SeededRow /\ Business(p, row[t], replied[t])
      /\ row = [row EXCEPT ![t] = row[t]]
  BY <1>1, InProgress
<1>3. Good(row[t]) /\ p \in SeededSending
  BY <1>1, <1>2, SeededKinds DEF Business
<1>4. [p EXCEPT !.op = "recorded"] = q /\ p.kind \in MessageKind
  BY <1>3 DEF SeededSending
<1>5. q \in SeededRequest /\ q # Idle /\ q.ticket = t /\ Business(q, row[t], replied'[t])
  BY <1>2, <1>3, <1>4, SendingMade
<1>6. answered \in BOOLEAN
  OBVIOUS
<1> HIDE DEF answered, q
<1>7. replied' \in [Ticket -> BOOLEAN]
  BY <1>1, <1>6 DEF OneByOne
<1>8. q \in {Idle} \cup SeededRequest /\ row' = [row EXCEPT ![t] = row[t]] /\ req' = [req EXCEPT ![r] = q]
  BY <1>1, <1>2, <1>4, <1>5
<1> QED
  BY <1>2, <1>5, <1>7, <1>8, TurnTaken

LEMMA SeededStamp ==
  ASSUME OneByOne, NEW r \in Request, Seeded!MessageStamp(r)
  PROVE  OneByOne'
<1> DEFINE p == req[r]
           t == p.ticket
<1>1. p.op = "recorded" /\ replied' = replied /\ replied' \in [Ticket -> BOOLEAN]
  BY DEF Seeded!MessageStamp, OneByOne
<1>2. p # Idle /\ p \in SeededRequest /\ t \in Ticket /\ row[t] \in SeededRow
  BY <1>1, InProgress
<1>3. CASE p.kind = "send"
  <2> DEFINE w == [row[t] EXCEPT !.status = "WAITING_ON_CUSTOMER", !.closedAt = "null", !.resolved = FALSE]
             q == [op |-> "triggered", ticket |-> t, trigger |-> "TECHNICIAN_REPLIED", prior |-> "unset"]
  <2>1. row' = [row EXCEPT ![t] = w] /\ req' = [req EXCEPT ![r] = q]
    BY <1>3 DEF Seeded!MessageStamp
  <2>2. w \in SeededRow /\ w.closedAt = "null" /\ ~w.resolved
    BY <1>2, SeededStatus DEF SeededRow, Times
  <2>3. Clean(w)
    BY <2>2 DEF Clean
  <2> HIDE DEF w
  <2>4. q \in SeededRequest /\ q # Idle /\ q.ticket = t /\ Business(q, w, replied'[t])
    BY <1>2, <2>3, TriggeredMade DEF Trigger
  <2> HIDE DEF q
  <2> QED
    BY <1>1, <1>2, <2>1, <2>2, <2>4, TurnTaken
<1>4. CASE p.kind # "send"
  <2> DEFINE w == [row[t] EXCEPT !.status = "CLOSED", !.closedAt = "recent"]
             q == [op |-> "moving", ticket |-> t, target |-> "CLOSED"]
  <2>1. "CLOSED" \in SystemStatus /\ MCNamed["CLOSED"] = "CLOSED"
    BY SeededStatus DEF MCNamed
  <2>2. row' = [row EXCEPT ![t] = w] /\ req' = [req EXCEPT ![r] = q]
    BY <1>4, <2>1 DEF Seeded!MessageStamp
  <2>3. w \in SeededRow /\ w.status = "CLOSED"
    BY <1>2, <2>1 DEF SeededRow, Times
  <2>4. Clean(w)
    BY <2>3, SeededStatus DEF Clean
  <2> HIDE DEF w
  <2>5. q \in SeededRequest /\ q # Idle /\ q.ticket = t /\ Business(q, w, replied'[t])
    BY <1>2, <2>1, <2>3, <2>4, MovingMade
  <2> HIDE DEF q
  <2> QED
    BY <1>1, <1>2, <2>2, <2>3, <2>5, TurnTaken
<1> QED
  BY <1>3, <1>4

\* The rules are read: a row without a definition first gets the one of its status.
LEMMA SeededRulesRead ==
  ASSUME OneByOne, NEW r \in Request, Seeded!RulesBegin(r)
  PROVE  OneByOne'
<1> DEFINE p == req[r]
           t == p.ticket
           old == row[t]
           def == IF old.def = "none" THEN old.status ELSE old.def
           time == IF p.prior = "unset" THEN old.closedAt ELSE p.prior
           w == [old EXCEPT !.def = def]
           seen == [op |-> "applying", ticket |-> t, trigger |-> p.trigger, def |-> def, replied |-> replied[t],
                    closedAt |-> time, rest |-> SeededRules[p.trigger]]
           q == Seeded!Continue(seen)
<1>1. p.op = "triggered" /\ replied' = replied /\ replied' \in [Ticket -> BOOLEAN]
  BY DEF Seeded!RulesBegin, OneByOne
<1>2. p # Idle /\ p \in SeededRequest /\ t \in Ticket /\ old \in SeededRow /\ Business(p, old, replied[t])
      /\ replied[t] \in BOOLEAN
  BY <1>1, InProgress
<1>3. p.trigger \in Trigger /\ p.prior \in Times \cup {"unset"}
  BY <1>1, <1>2, SeededKinds DEF SeededTriggered
<1>4. MCNamed[old.status] = old.status
  BY <1>2 DEF MCNamed, SeededRow
<1>5. row' = [row EXCEPT ![t] = w] /\ req' = [req EXCEPT ![r] = q]
  BY <1>4 DEF Seeded!RulesBegin, MCNoDef
<1>6. Clean(old) /\ (p.trigger = "CUSTOMER_REPLIED" => Mendable(old, replied[t]))
      /\ (p.trigger \in {"TICKET_ASSIGNED", "MANUAL_REOPEN"} => Agreeing(old))
  BY <1>1, <1>2 DEF Business
<1>7. def \in SystemStatus /\ time \in Times /\ (old.def # "none" => def = old.def) /\ (old.def = "none" => def = old.status)
  BY <1>2, <1>3 DEF SeededRow
<1> HIDE DEF def, time
<1>8. w \in SeededRow /\ w.status = old.status /\ w.def = def /\ w.closedAt = old.closedAt /\ w.resolved = old.resolved
  BY <1>2, <1>7 DEF SeededRow
<1> HIDE DEF w
<1>9. Clean(w) /\ (Agreeing(old) => Agreeing(w)) /\ (Mendable(old, replied[t]) => Mendable(w, replied[t]))
  BY <1>6, <1>7, <1>8, SeededStatus DEF Clean, Agreeing, Mendable, AwaitsStaff, Completed
<1>10. q \in {Idle} \cup SeededRequest /\ (q = Idle => Good(w)) /\ (q # Idle => q.ticket = t /\ Business(q, w, replied[t]))
  <2>1. CASE p.trigger \in {"TICKET_ASSIGNED", "MANUAL_REOPEN"}
    <3>1. q = Idle
      BY <2>1, SeededRulesAre DEF Seeded!Continue, Seeded!Idle, Idle
    <3> QED
      BY <2>1, <3>1, <1>6, <1>9 DEF Good
  <2>2. CASE p.trigger \in {"CUSTOMER_REPLIED", "TECHNICIAN_REPLIED"}
    <3> DEFINE rest == SeededRules[p.trigger]
    <3>1. rest # <<>> /\ (p.trigger = "CUSTOMER_REPLIED" => rest = CustomerRules)
          /\ (p.trigger = "TECHNICIAN_REPLIED" => rest = ReplyRules)
      BY <2>2, SeededRulesAre DEF CustomerRules, ReplyRules
    <3> HIDE DEF rest
    <3>2. seen = [op |-> "applying", ticket |-> t, trigger |-> p.trigger, def |-> def, replied |-> replied[t],
                  closedAt |-> time, rest |-> rest]
      BY DEF rest
    <3>3. seen.op = "applying" /\ seen.ticket = t /\ seen.trigger = p.trigger /\ seen.def = def
          /\ seen.replied = replied[t] /\ seen.rest = rest
      BY <3>2
    <3>4. q = seen
      BY <3>1, <3>3 DEF Seeded!Continue
    <3>5. seen \in SeededApplying
      BY <2>2, <1>2, <1>7, <3>1, <3>2 DEF SeededApplying
    <3> HIDE DEF seen
    <3>6. seen \in SeededRequest /\ seen # Idle
      BY <3>5, SeededKinds DEF SeededRequest
    <3>7. Business(seen, w, replied[t])
      BY <2>2, <1>6, <1>8, <1>9, <3>1, <3>3 DEF Business
    <3> QED
      BY <3>3, <3>4, <3>6, <3>7
  <2> QED
    BY <1>3, <2>1, <2>2 DEF Trigger
<1> HIDE DEF q
<1> QED
  BY <1>1, <1>2, <1>5, <1>8, <1>10, TurnTaken

\* The last rule to match moves the ticket and ends the request; the rules passed over
\* leave a row that the others can mend.
LEMMA SeededRule ==
  ASSUME OneByOne, NEW r \in Request, Seeded!RuleStep(r)
  PROVE  OneByOne'
<1> DEFINE p == req[r]
           t == p.ticket
           rule == Head(p.rest)
           hit == Seeded!Matches(rule, p)
           moved == IF hit THEN Seeded!Transition(row[t], rule.target) ELSE row[t]
           left == [p EXCEPT !.rest = Tail(p.rest), !.def = IF moved = row[t] THEN p.def ELSE rule.target]
           q == IF hit /\ rule.stop THEN Idle ELSE Seeded!Continue(left)
<1>1. p.op = "applying" /\ replied' = replied /\ replied' \in [Ticket -> BOOLEAN]
  BY DEF Seeded!RuleStep, OneByOne
<1>2. p # Idle /\ p \in SeededRequest /\ t \in Ticket /\ row[t] \in SeededRow /\ Business(p, row[t], replied[t])
  BY <1>1, InProgress
<1>3. p \in SeededApplying
  BY <1>1, <1>2, SeededKinds
<1>4. row' = [row EXCEPT ![t] = moved] /\ req' = [req EXCEPT ![r] = q]
  BY DEF Seeded!RuleStep, Seeded!Idle, Idle
<1>5. /\ Clean(row[t]) /\ p.def = row[t].def
      /\ p.trigger = "CUSTOMER_REPLIED" =>
            /\ p.replied = replied[t]
            /\ \/ p.rest = CustomerRules /\ Mendable(row[t], replied[t])
               \/ p.rest = <<WaitRule>> /\ (Agreeing(row[t]) \/ AwaitsStaff(row[t], replied[t]))
      /\ p.trigger = "TECHNICIAN_REPLIED" => p.rest = ReplyRules
  BY <1>1, <1>2 DEF Business
<1>6. p.trigger \in {"CUSTOMER_REPLIED", "TECHNICIAN_REPLIED"} /\ p.def \in SystemStatus
  BY <1>3 DEF SeededApplying
<1>7. ASSUME hit, rule.stop, rule.target \in SystemStatus
      PROVE  moved \in SeededRow /\ Good(moved) /\ q = Idle
  BY <1>2, <1>5, <1>7, SeededMove
<1>8. ASSUME ~hit
      PROVE  moved = row[t] /\ q = Seeded!Continue(left) /\ left = [p EXCEPT !.rest = Tail(p.rest), !.def = p.def]
  BY <1>8
<1>9. /\ moved \in SeededRow /\ q \in {Idle} \cup SeededRequest
      /\ q = Idle => Good(moved)
      /\ q # Idle => q.ticket = t /\ Business(q, moved, replied[t])
  <2>1. CASE p.rest = CustomerRules /\ p.trigger = "CUSTOMER_REPLIED"
    <3>1. rule = ReopenRule /\ Tail(p.rest) = <<WaitRule>>
      BY <2>1 DEF CustomerRules
    <3>2. hit <=> p.def \in Completed
      BY <1>3, <3>1, SeededMatches
    <3>3. CASE hit
      BY <1>7, <3>1, <3>3, SeededRulesAre, SeededStatus
    <3>4. CASE ~hit
      <4> DEFINE l == [p EXCEPT !.rest = <<WaitRule>>]
      <4>1. left = l /\ l \in SeededApplying
        BY <1>3, <1>8, <3>1, <3>4 DEF SeededApplying
      <4>2. l.rest = <<WaitRule>> /\ l.op = "applying" /\ l.ticket = t /\ l.def = p.def
            /\ l.replied = p.replied /\ l.trigger = p.trigger
        BY <1>3 DEF SeededApplying
      <4>3. q = Seeded!Continue(left) /\ moved = row[t]
        BY <1>8, <3>4
      <4> HIDE DEF l, q, moved, left
      <4>4. left.rest # <<>>
        <5>1. left.rest = <<WaitRule>>
          BY <4>1, <4>2
        <5> QED
          BY <5>1
      <4>5. q = l /\ moved = row[t]
        BY <4>1, <4>3, <4>4 DEF Seeded!Continue
      <4>6. l \in SeededRequest /\ l # Idle
        BY <4>1, SeededKinds DEF SeededRequest
      <4>7. Agreeing(row[t]) \/ AwaitsStaff(row[t], replied[t])
        BY <2>1, <1>5, <3>2, <3>4, SeededRulesAre DEF Mendable, CustomerRules
      <4>8. Business(l, row[t], replied[t])
        BY <2>1, <1>5, <4>2, <4>7 DEF Business
      <4> QED
        BY <1>2, <4>2, <4>5, <4>6, <4>8
    <3> QED
      BY <3>3, <3>4
  <2>2. CASE p.rest = <<WaitRule>> /\ p.trigger = "CUSTOMER_REPLIED"
    <3>1. rule = WaitRule /\ Tail(p.rest) = <<>>
      BY <2>2
    <3>2. hit <=> p.replied
      BY <1>3, <3>1, SeededMatches
    <3>3. CASE hit
      BY <1>7, <3>1, <3>3, SeededRulesAre, SeededStatus
    <3>4. CASE ~hit
      <4>1. left = [p EXCEPT !.rest = <<>>, !.def = p.def]
        BY <1>8, <3>1, <3>4
      <4>2. left.rest = <<>>
        BY <1>3, <4>1 DEF SeededApplying
      <4>3. q = Idle /\ moved = row[t]
        BY <1>8, <3>4, <4>2 DEF Seeded!Continue, Seeded!Idle, Idle
      <4>4. p.rest # CustomerRules
        BY <2>2 DEF CustomerRules
      <4>5. Agreeing(row[t])
        BY <2>2, <1>5, <3>2, <3>4, <4>4 DEF AwaitsStaff
      <4> HIDE DEF q, moved
      <4> QED
        BY <1>2, <1>5, <4>3, <4>5 DEF Good
    <3> QED
      BY <3>3, <3>4
  <2>3. CASE p.trigger = "TECHNICIAN_REPLIED"
    <3>1. rule = ReplyRules[1]
      <4>1. p.rest = <<ReplyRules[1]>>
        BY <2>3, <1>5, SeededRulesAre
      <4> QED
        BY <4>1
    <3>2. hit
      BY <1>3, <3>1, SeededMatches
    <3> QED
      BY <1>7, <3>1, <3>2, SeededRulesAre, SeededStatus
  <2> QED
    BY <1>5, <1>6, <2>1, <2>2, <2>3
<1> HIDE DEF q, moved
<1> QED
  BY <1>1, <1>2, <1>4, <1>9, TurnTaken

LEMMA SeededResume ==
  ASSUME OneByOne, Seeded!Resume
  PROVE  OneByOne'
  BY SeededCommit, SeededRulesRead, SeededRule, SeededRecord, SeededStamp, SeededMoves DEF Seeded!Resume

LEMMA SeededTurns ==
  ASSUME SeededInTurn, [AgentsNext]_agentVars
  PROVE  SeededInTurn'
<1>1. CASE LifecycleTurn
  <2>1. UNCHANGED <<focus, seeded>>
    BY <1>1 DEF LifecycleTurn, LifecycleNext
  <2>2. CASE seeded
    <3>1. (AllIdle /\ Seeded!Begin) \/ Seeded!Resume
      BY <1>1, <2>2 DEF LifecycleTurn, LifecycleNext
    <3>2. AllIdle => \A s \in Request : req[s] = Idle
      BY DEF AllIdle
    <3> QED
      BY <2>1, <2>2, <3>1, <3>2, SeededBegin, SeededResume DEF SeededInTurn
  <2> QED
    BY <2>1, <2>2 DEF SeededInTurn
<1>2. CASE PagesTurn \/ AccessTurn \/ ComposerTurn \/ UNCHANGED agentVars
  <2>1. UNCHANGED <<vars, seeded, focus>>
    BY <1>2 DEF PagesTurn, AccessTurn, ComposerTurn, agentVars
  <2>2. OneByOne => OneByOne'
    BY <2>1 DEF vars, OneByOne
  <2> QED
    BY <2>1, <2>2 DEF SeededInTurn
<1> QED
  BY <1>1, <1>2 DEF AgentsNext

LEMMA SeededAlways == AgentsSpec => []SeededInTurn
<1>1. AgentsInit => SeededInTurn
  <2>1. Init => OneByOne
    <3> SUFFICES ASSUME Init PROVE OneByOne
      OBVIOUS
    <3>1. \A r \in Request : req[r] = Idle
      BY DEF Init
    <3>2. \A t \in Ticket : row[t] = Absent
      BY DEF Init
    <3>3. row \in [Ticket -> SeededRow \cup {Absent}] /\ replied \in [Ticket -> BOOLEAN]
          /\ req \in [Request -> {Idle} \cup SeededRequest]
      BY DEF Init
    <3> QED
      BY <3>1, <3>2, <3>3 DEF OneByOne
  <2> QED
    BY <2>1 DEF AgentsInit, LifecycleInit, SeededInTurn
<1>2. SeededInTurn /\ [AgentsNext]_agentVars => SeededInTurn'
  BY SeededTurns
<1> QED
  BY <1>1, <1>2, PTL DEF AgentsSpec

\* With the rules an organization starts with, status and definition say the same once the
\* requests of a ticket have ended, and no active ticket has a closing time.
THEOREM SeededAgrees == AgentsSpec => []AgreesSeeded
<1>1. SeededInTurn => AgreesSeeded
  <2> SUFFICES ASSUME OneByOne, \A s \in Request : req[s] = Idle, NEW t \in Ticket
               PROVE  /\ Seeded!Exists(t) /\ row[t].def # "none" => row[t].status = SeededSys[row[t].def]
                      /\ row[t].status \in ActiveStatus => row[t].closedAt = "null" /\ ~row[t].resolved
    BY SeededStatus DEF SeededInTurn, AgreesSeeded, Seeded!StatusAgrees, Seeded!ActiveUnstamped, Seeded!AllIdle,
       Seeded!Idle, Idle, MCNoDef
  <2>1. CASE Seeded!Exists(t)
    <3>1. row[t] \in SeededRow /\ Good(row[t])
      BY <2>1, AllGood
    <3>2. row[t].def # "none" => SeededSys[row[t].def] = row[t].def
      BY <3>1 DEF SeededRow, SeededSys
    <3> QED
      BY <3>1, <3>2 DEF Good, Clean, Agreeing
  <2>2. CASE ~Seeded!Exists(t)
    BY <2>2, SeededStatus DEF Seeded!Exists
  <2> QED
    BY <2>1, <2>2
<1> QED
  BY <1>1, SeededAlways, PTL

(***************************************************************************)
(* The user, her permissions and the tables of routes and pages.           *)
(***************************************************************************)

\* Which permissions there are, and who holds them as seeded.
AuditedAreas ==
  {"tickets", "ticket_statuses", "ticket_messages", "ticket_attachments", "clients", "contacts", "devices",
   "reports", "audit_logs"}
AdminVerbs ==
  {"users", "groups", "roles"} \X {"create", "update", "delete"}
  \cup {"system_settings", "mailboxes"} \X {"update"} \cup {"maintenance", "spam"} \X {"manage"}
  \cup {"ticket_statuses", "ticket_workflows"} \X {"manage"} \cup May("ai_assistant", {"configure"})

Holds(r) == DEFAULT_ROLE_PERMISSIONS[r]

\* What each role holds as seeded.
LEMMA RolesAre ==
  /\ DOMAIN DEFAULT_ROLE_PERMISSIONS =
       {"SuperAdmin", "Admin", "Manager", "Technician", "ClientManager", "ClientUser", "Auditor"}
  /\ Holds("SuperAdmin") = INITIAL_PERMISSIONS /\ Holds("Admin") = INITIAL_PERMISSIONS
  /\ Holds("Manager") = INITIAL_PERMISSIONS \ ManagerLacks /\ Holds("Technician") = TechnicianHolds
  /\ Holds("ClientManager") = {p \in INITIAL_PERMISSIONS : p[1] \in {"clients", "client_domains", "contacts",
                        "tickets", "ticket_messages"}} \cup May("ticket_statuses", {"view"})
  /\ Holds("ClientUser") = May("tickets", {"view", "create"}) \cup May("ticket_statuses", {"view"})
                  \cup May("ticket_messages", {"view", "create_public"})
                  \cup May("ticket_attachments", {"view", "upload", "download"})
  /\ Holds("Auditor") = AuditedAreas \X {"view"}
  BY DEF DEFAULT_ROLE_PERMISSIONS, Holds, AuditedAreas

Administrators == {"SuperAdmin", "Admin"}

\* The permissions of the administration are of no other role.
LEMMA AdminsAlone ==
  ASSUME NEW r \in DOMAIN DEFAULT_ROLE_PERMISSIONS, r \notin Administrators, NEW p \in AdminVerbs
  PROVE  p \notin Holds(r)
<1>1. CASE r = "Manager"
  BY <1>1, RolesAre DEF ManagerLacks, AdminVerbs, May, INITIAL_PERMISSIONS
<1>2. CASE r = "Technician"
  BY <1>2, RolesAre DEF TechnicianHolds, AdminVerbs, May
<1>3. CASE r \in {"ClientManager", "ClientUser", "Auditor"}
  BY <1>3, RolesAre DEF AdminVerbs, AuditedAreas, May
<1> QED
  BY <1>1, <1>2, <1>3, RolesAre DEF Administrators

\* The changes only administrators may make, the routes an auditor keeps for herself, and
\* what the routes that pages load and offer ask for at most.
AdminPaths ==
  {"users", "users/:id/reset-mfa", "groups", "roles", "ticket-teams", "system-settings/general",
   "system-settings/operations", "system-settings/security", "system-settings/branding-assets", "mailboxes",
   "mailboxes/:id/sync", "mailboxes/:id/backfill", "maintenance/recycle-bin/settings",
   "maintenance/recycle-bin/cleanup", "maintenance/attachment-quarantine/rescan",
   "maintenance/attachment-quarantine/restore", "spam-blocklist", "ai/providers", "ai/providers/:id/models",
   "ai/providers/:id/test", "ai/action-settings", "support-portal/config", "support-portal/form/fields",
   "support-portal/form/sections", "ticket-workflow/statuses", "ticket-workflow/statuses/:id/restore",
   "ticket-workflow/rules"}
OwnChanges ==
  {"PATCH"} \X {"profile", "profile/signature", "profile/password", "notifications", "notification-preferences/me",
                "notification-preferences/users"}
  \cup {"POST"} \X {"profile/mfa/setup", "profile/mfa/confirm", "profile/mfa/disable", "notifications/read-all"}
  \cup {"POST", "PATCH", "DELETE"} \X {"tickets/views", "devices/views"}
  \cup {"PUT", "DELETE"} \X {"devices/:id/favorite"} \cup {<<"PUT", "dashboard/preferences">>}
  \cup {"PATCH"} \X {"tickets/bulk", "tickets/:id/state"}
EventPaths ==
  {"event-services", "event-services/recycle-bin", "event-services/my-tasks", "event-services/calendar",
   "event-services/recycle-bin/restore", "event-services/:id",
   "event-services/:id/attachments/download", "event-services/:id/attachments/preview", "event-services/:id/tasks",
   "event-services/:id/tasks/calendar", "event-services/:id/tasks/external-invite", "event-services/:id/comments",
   "event-services/:id/messages", "event-services/:id/external-specialists", "event-services/:id/attachments"}
KnowledgePaths ==
  {"knowledge-base/categories", "knowledge-base/articles", "knowledge-base/articles/attachments",
   "knowledge-base/articles/from-ticket", "knowledge-base/articles/bulk-status",
   "knowledge-base/articles/sync-onenote-media", "knowledge-base/articles/bulk-delete",
   "knowledge-base/import/pdf", "knowledge-base/import/onenote", "knowledge-base/import/commit"}
TicketChanges ==
  {"PATCH"} \X {"tickets/:id/assignment", "tickets/bulk"}
  \cup {"POST"} \X {"tickets/:id/merge", "tickets/bulk/delete", "tickets/bulk/restore", "tickets/:id/messages",
                    "tickets/:id/close"}
TicketVerbs == {"view", "update", "delete", "assign", "reply", "close", "reopen", "merge"}
ClientPaths == {"clients", "contacts", "client-domains"}
ClientAreas == {"clients", "contacts", "client_domains"}
RemoteCalls ==
  {"POST"} \X {"devices/rmm-sync", "devices/:id/rmm-details/refresh", "devices/:id/remote-access/connection-attempts"}
ReportCalls ==
  {"POST", "PATCH", "DELETE"} \X {"reports/definitions", "reports/schedules"}
  \cup {<<"GET", "reports/export">>, <<"POST", "reports/send">>}
Drafting == {<<"ai_assistant", "use">>, <<"tickets", "view">>, <<"tickets", "reply">>}
Briefing == {<<"ai_assistant", "use">>, <<"tickets", "view">>}
BriefCalls == {"GET", "POST"} \X {"tickets/:id/ai/brief"} \cup {"POST"} \X {"tickets/:id/ai/brief/translations"}
ProfilePaths ==
  {"profile", "profile/signature", "profile/password", "profile/mfa/setup", "profile/mfa/confirm",
   "profile/mfa/disable", "notification-preferences/me"}

AtMost(routes, most, route, needed) == route \in routes => needed \subseteq most

TicketServed(route, needed) ==
  /\ AtMost({"GET"} \X {"tickets", "tickets/views", "tickets/statistics", "tickets/:id"}
            \cup {"PATCH"} \X {"tickets/:id/state", "tickets/bulk"}, May("tickets", {"view"}), route, needed)
  /\ AtMost({"PATCH"} \X {"tickets/:id/assignment"}, May("tickets", {"assign"}), route, needed)
  /\ AtMost({"PATCH"} \X {"tickets/:id/planning"} \cup {"POST", "DELETE"} \X {"tickets/:id/external-specialists"},
            May("tickets", {"update"}), route, needed)
  /\ AtMost({"POST"} \X {"tickets/bulk/delete"}, May("tickets", {"delete"}), route, needed)
  /\ AtMost({"POST"} \X {"tickets/:id/merge"}, May("tickets", {"merge"}), route, needed)

ProjectServed(route, needed) ==
  /\ AtMost({"GET"} \X {"projects"}, May("projects", {"view"}), route, needed)
  /\ AtMost({"POST"} \X {"projects", "projects/templates"}, May("projects", {"create"}), route, needed)
  /\ AtMost({"PATCH"} \X {"projects"} \cup {"POST"} \X {"projects/:id/milestones", "projects/:id/work-items"},
            May("projects", {"update"}), route, needed)
  /\ AtMost({"DELETE"} \X {"projects"}, May("projects", {"delete"}), route, needed)

AreaServed(route, needed) ==
  /\ AtMost({"GET"} \X {"auth/me", "profile"}, {}, route, needed)
  /\ AtMost({"GET"} \X {"operations/overview"}, {"operations", "tickets", "event_services"} \X {"view"},
            route, needed)
  /\ AtMost({"GET"} \X {"users"}, May("users", {"view"}), route, needed)
  /\ AtMost({"GET"} \X {"devices"}, May("devices", {"view"}), route, needed)
  /\ AtMost({"GET"} \X {"clients"}, May("clients", {"view"}), route, needed)
  /\ AtMost({"GET"} \X {"external-specialists"}, May("external_specialists", {"view"}), route, needed)
  /\ AtMost({"GET"} \X {"reports/summary"}, May("reports", {"view"}), route, needed)
  /\ AtMost({"GET"} \X {"reports/projects/executive-export"}, {<<"reports", "export">>, <<"projects", "view">>},
            route, needed)
  /\ AtMost({"POST"} \X {"reports/schedules", "reports/definitions"}, May("reports", {"manage"}), route, needed)
  /\ AtMost({"POST"} \X {"spam-blocklist"}, May("spam", {"manage"}), route, needed)

EventServed(route, needed) ==
  /\ route[2] \in EventPaths => needed \subseteq May("event_services", {"view", "update"})
  /\ AtMost({"GET"} \X {"event-services", "event-services/my-tasks", "event-services/services"},
            May("event_services", {"view"}), route, needed)
  /\ AtMost({"PATCH"} \X {"event-services/:id", "event-services/:id/tasks"}, May("event_services", {"update"}),
            route, needed)

KnowledgeServed(route, needed) ==
  /\ route[2] \in KnowledgePaths => needed \subseteq May("knowledge_base", Crud)
  /\ AtMost({"GET"} \X {"knowledge-base/articles", "knowledge-base/categories"}, May("knowledge_base", {"view"}),
            route, needed)
  /\ AtMost({"POST"} \X {"knowledge-base/articles/from-ticket"}, May("knowledge_base", {"create"}), route, needed)

\* What the controls ask for at most that are shown to all who see their page.
TicketOffers(route, needed) ==
  /\ AtMost({"POST"} \X {"tickets"}, May("tickets", {"create"}), route, needed)
  /\ AtMost({"POST", "PATCH", "DELETE"} \X {"tickets/views"}, May("tickets", {"view"}), route, needed)
  /\ AtMost(TicketChanges, May("tickets", TicketVerbs), route, needed)
  /\ AtMost({"POST"} \X {"tickets/:id/attachments"}, May("ticket_attachments", {"upload"}), route, needed)
  /\ AtMost({"DELETE"} \X {"tickets/:id/attachments"}, May("ticket_attachments", {"delete"}), route, needed)
  /\ AtMost({"GET"} \X {"tickets/:id/attachments/download-all", "tickets/:id/attachments/:file/download"},
            May("ticket_attachments", {"download"}), route, needed)
  /\ AtMost({"GET"} \X {"tickets/:id/attachments/:file/preview"}, May("ticket_attachments", {"view"}), route, needed)
  /\ AtMost({"POST"} \X {"tickets/:id/ai/draft"}, Drafting, route, needed)
  /\ AtMost(BriefCalls, Briefing, route, needed)

AreaOffers(route, needed) ==
  /\ route[2] \in ClientPaths => needed \subseteq ClientAreas \X Crud
  /\ AtMost({"POST", "PATCH", "DELETE"} \X {"devices/views"} \cup {"PUT", "DELETE"} \X {"devices/:id/favorite"},
            May("devices", {"view"}), route, needed)
  /\ AtMost(RemoteCalls, May("remote_access", {"connect", "configure"}), route, needed)
  /\ AtMost(ReportCalls, May("reports", {"manage", "export", "send"}), route, needed)
  /\ AtMost({"PUT"} \X {"dashboard/preferences"}, May("tickets", {"view"}), route, needed)
  /\ route[2] = "external-specialists" => needed \subseteq May("external_specialists", {"view", "manage"})
  /\ AtMost({"POST"} \X {"event-services/:id/ai/draft"}, May("ai_assistant", {"use"}), route, needed)
  /\ route[2] \in ProfilePaths => needed \subseteq {}

ProjectOffers(route, needed) ==
  /\ AtMost({"POST"} \X {"projects/templates/apply"}, May("projects", {"create"}), route, needed)
  /\ AtMost({"POST", "PATCH"} \X {"projects/:id/decisions"} \cup {"PATCH", "DELETE"} \X {"projects/:id/milestones"}
            \cup {"DELETE"} \X {"projects/:id/work-items"} \cup {"POST", "DELETE"} \X {"projects/:id/dependencies"},
            May("projects", {"update"}), route, needed)
  /\ AtMost({"DELETE"} \X {"projects/templates"}, May("projects", {"delete"}), route, needed)

Offering(route, needed) == TicketOffers(route, needed) /\ AreaOffers(route, needed) /\ ProjectOffers(route, needed)

\* A route asks for permissions of the catalogue; a change other than an auditor's own asks
\* for something, a change of the administration for what only administrators hold, and no
\* change for what an auditor holds, drafts aside, which also ask for the use of the assistant.
AiPaths ==
  {"tickets/:id/ai/draft", "tickets/:id/ai/brief", "tickets/:id/ai/summarize", "tickets/:id/ai/brief/translations"}
Some(needed) == \E p : p \in needed
Asked(route, needed) == route[1] = "GET" \/ route \in OwnChanges \/ Some(needed)
Restricted(route, needed) ==
  route[1] # "GET" /\ route \notin OwnChanges =>
    /\ route[2] \in AdminPaths => needed \subseteq AdminVerbs
    /\ IF route[2] \in AiPaths THEN <<"ai_assistant", "use">> \in needed
       ELSE \A p \in needed : p[1] \notin AuditedAreas \/ p[2] # "view"
Served(route, needed) ==
  /\ TicketServed(route, needed) /\ ProjectServed(route, needed) /\ AreaServed(route, needed)
  /\ EventServed(route, needed) /\ KnowledgeServed(route, needed)
Administers(route) == route[1] # "GET" => route[2] \in AdminPaths
Organizes(route) == route[2] \in EventPaths \/ route \in {"GET"} \X {"event-services/services"}
Teaches(route) == route[2] \in KnowledgePaths
Claim(kind, route, needed) ==
  /\ kind = "catalogued" => needed \subseteq INITIAL_PERMISSIONS
  /\ kind = "asked" => Asked(route, needed)
  /\ kind = "restricted" => Restricted(route, needed)
  /\ kind = "served" => Served(route, needed)
  /\ kind = "offering" => Offering(route, needed)
  /\ kind = "administers" => Administers(route)
  /\ kind = "events" => Organizes(route)
  /\ kind = "knowledge" => Teaches(route)
Claimed(kind, table) == \A route \in DOMAIN table : Claim(kind, route, table[route])
Asking(kind, needed, methods, paths) == \A method \in methods, path \in paths : Claim(kind, <<method, path>>, needed)

\* What each of several tables claims, they claim together; a table claims what each of its
\* routes does.
LEMMA TogetherClaimed ==
  ASSUME NEW kind, NEW tables, \A table \in tables : Claimed(kind, table)
  PROVE  Claimed(kind, Together(tables))
<1>1. ASSUME NEW route \in UNION {DOMAIN table : table \in tables}
      PROVE  Claim(kind, route, (CHOOSE table \in tables : route \in DOMAIN table)[route])
  BY DEF Claimed
<1> QED
  BY <1>1 DEF Claimed, Together

LEMMA AskingClaimed ==
  ASSUME NEW kind, NEW needed, NEW methods, NEW paths, Asking(kind, needed, methods, paths)
  PROVE  Claimed(kind, Needs(needed, methods, paths))
  BY DEF Claimed, Asking, Needs

\* What is asked for is something.
LEMMA MayAsked ==
  ASSUME NEW area, NEW verb
  PROVE  Some(May(area, {verb}))
<1>1. <<area, verb>> \in May(area, {verb})
  BY DEF May
<1> QED
  BY <1>1 DEF Some

LEMMA SomeEither ==
  ASSUME NEW some, NEW others, Some(some)
  PROVE  Some(some \cup others)
  BY DEF Some

LEMMA ChangesAsk ==
  /\ Some(May("tickets", {"view"})) /\ Some(May("tickets", {"create"})) /\ Some(May("tickets", {"update"}))
  /\ Some(May("tickets", {"delete"})) /\ Some(May("tickets", {"merge"})) /\ Some(May("tickets", {"assign"}))
  /\ Some(May("tickets", {"close"})) /\ Some(May("tickets", {"reply"}))
  /\ Some(May("users", {"create"})) /\ Some(May("users", {"update"})) /\ Some(May("users", {"delete"}))
  /\ Some(May("groups", {"create"})) /\ Some(May("groups", {"update"})) /\ Some(May("groups", {"delete"}))
  /\ Some(May("roles", {"create"})) /\ Some(May("roles", {"update"})) /\ Some(May("roles", {"delete"}))
  /\ Some(May("clients", {"create"})) /\ Some(May("clients", {"update"})) /\ Some(May("clients", {"delete"}))
  /\ Some(May("contacts", {"create"})) /\ Some(May("contacts", {"update"})) /\ Some(May("contacts", {"delete"}))
  /\ Some(May("auto_replies", {"create"})) /\ Some(May("auto_replies", {"update"}))
  /\ Some(May("auto_replies", {"delete"}))
  /\ Some(May("client_domains", {"create"})) /\ Some(May("client_domains", {"update"}))
  /\ Some(May("client_domains", {"delete"}))
  /\ Some(May("projects", {"create"})) /\ Some(May("projects", {"update"})) /\ Some(May("projects", {"delete"}))
  /\ Some(May("knowledge_base", {"create"})) /\ Some(May("knowledge_base", {"update"}))
  /\ Some(May("knowledge_base", {"delete"}))
  /\ Some(May("ticket_attachments", {"upload"})) /\ Some(May("ticket_attachments", {"delete"}))
  /\ Some(May("system_settings", {"update"}))
  /\ Some(May("system_settings", {"view"})) /\ Some(May("ticket_statuses", {"manage"}))
  /\ Some(May("ticket_workflows", {"manage"}))
  /\ Some(May("ai_assistant", {"use"})) /\ Some(May("ai_assistant", {"configure"}))
  /\ Some(May("external_specialists", {"manage"}))
  /\ Some(May("event_services", {"view"})) /\ Some(May("event_services", {"update"}))
  /\ Some(May("event_services", {"manage_forms"}))
  /\ Some(May("reports", {"manage"})) /\ Some(May("reports", {"send"})) /\ Some(May("devices", {"view"}))
  /\ Some(May("remote_access", {"configure"})) /\ Some(May("remote_access", {"connect"}))
  /\ Some(May("mailboxes", {"update"}))
  /\ Some(May("maintenance", {"manage"})) /\ Some(May("spam", {"manage"}))
<1>1. /\ Some(May("tickets", {"view"})) /\ Some(May("tickets", {"create"})) /\ Some(May("tickets", {"update"}))
      /\ Some(May("tickets", {"delete"})) /\ Some(May("tickets", {"merge"})) /\ Some(May("tickets", {"assign"}))
      /\ Some(May("tickets", {"close"})) /\ Some(May("tickets", {"reply"}))
  BY MayAsked
<1>2. /\ Some(May("users", {"create"})) /\ Some(May("users", {"update"})) /\ Some(May("users", {"delete"}))
      /\ Some(May("groups", {"create"})) /\ Some(May("groups", {"update"})) /\ Some(May("groups", {"delete"}))
      /\ Some(May("roles", {"create"})) /\ Some(May("roles", {"update"})) /\ Some(May("roles", {"delete"}))
      /\ Some(May("clients", {"create"})) /\ Some(May("clients", {"update"})) /\ Some(May("clients", {"delete"}))
  BY MayAsked
<1>3. /\ Some(May("contacts", {"create"})) /\ Some(May("contacts", {"update"}))
      /\ Some(May("contacts", {"delete"}))
      /\ Some(May("auto_replies", {"create"})) /\ Some(May("auto_replies", {"update"}))
      /\ Some(May("auto_replies", {"delete"}))
      /\ Some(May("client_domains", {"create"})) /\ Some(May("client_domains", {"update"}))
      /\ Some(May("client_domains", {"delete"}))
      /\ Some(May("projects", {"create"})) /\ Some(May("projects", {"update"}))
      /\ Some(May("projects", {"delete"}))
      /\ Some(May("knowledge_base", {"create"})) /\ Some(May("knowledge_base", {"update"}))
      /\ Some(May("knowledge_base", {"delete"}))
  BY MayAsked
<1>4. /\ Some(May("ticket_attachments", {"upload"})) /\ Some(May("ticket_attachments", {"delete"}))
      /\ Some(May("system_settings", {"update"}))
      /\ Some(May("system_settings", {"view"})) /\ Some(May("ticket_statuses", {"manage"}))
      /\ Some(May("ticket_workflows", {"manage"}))
      /\ Some(May("ai_assistant", {"use"})) /\ Some(May("ai_assistant", {"configure"}))
      /\ Some(May("external_specialists", {"manage"}))
      /\ Some(May("event_services", {"view"})) /\ Some(May("event_services", {"update"}))
      /\ Some(May("event_services", {"manage_forms"}))
      /\ Some(May("reports", {"manage"})) /\ Some(May("reports", {"send"})) /\ Some(May("devices", {"view"}))
      /\ Some(May("remote_access", {"configure"})) /\ Some(May("remote_access", {"connect"}))
      /\ Some(May("mailboxes", {"update"}))
      /\ Some(May("maintenance", {"manage"})) /\ Some(May("spam", {"manage"}))
  BY MayAsked
<1> QED
  BY <1>1, <1>2, <1>3, <1>4

\* Every permission a route asks for is one of the catalogue.
LEMMA Catalogued == Claimed("catalogued", RouteNeeds)
<1>1. Claimed("catalogued", TicketsController)
  BY TogetherClaimed, AskingClaimed DEF TicketsController, Asking, Claim, INITIAL_PERMISSIONS,
     May, Crud, Read, Open
<1>2. Claimed("catalogued", TicketAttachmentsController)
  BY TogetherClaimed, AskingClaimed DEF TicketAttachmentsController, Asking, Claim, INITIAL_PERMISSIONS,
     May, Crud, Read, Open
<1>3. Claimed("catalogued", SupportPortalController)
  BY TogetherClaimed, AskingClaimed DEF SupportPortalController, Asking, Claim, INITIAL_PERMISSIONS,
     May, Crud, Read, Open
<1>4. Claimed("catalogued", TicketRoutingController)
  BY TogetherClaimed, AskingClaimed DEF TicketRoutingController, Asking, Claim, INITIAL_PERMISSIONS,
     May, Crud, Read, Open
<1>5. Claimed("catalogued", TicketTeamsController)
  BY TogetherClaimed, AskingClaimed DEF TicketTeamsController, Asking, Claim, INITIAL_PERMISSIONS,
     May, Crud, Read, Open
<1>6. Claimed("catalogued", TicketWorkflowController)
  BY TogetherClaimed, AskingClaimed DEF TicketWorkflowController, Asking, Claim, INITIAL_PERMISSIONS,
     May, Crud, Read, Open
<1>7. Claimed("catalogued", AiAssistantController)
  BY TogetherClaimed, AskingClaimed DEF AiAssistantController, Asking, Claim, INITIAL_PERMISSIONS,
     May, Crud, Read, Open
<1>8. Claimed("catalogued", EventAiController)
  BY TogetherClaimed, AskingClaimed DEF EventAiController, Asking, Claim, INITIAL_PERMISSIONS,
     May, Crud, Read, Open
<1>9. Claimed("catalogued", AiConfigController)
  BY TogetherClaimed, AskingClaimed DEF AiConfigController, Asking, Claim, INITIAL_PERMISSIONS,
     May, Crud, Read, Open
<1>10. Claimed("catalogued", UsersController)
  BY TogetherClaimed, AskingClaimed DEF UsersController, Table, Asking, Claim, INITIAL_PERMISSIONS,
     May, Crud, Read, Open
<1>11. Claimed("catalogued", GroupsController)
  BY TogetherClaimed, AskingClaimed DEF GroupsController, Table, Asking, Claim, INITIAL_PERMISSIONS,
     May, Crud, Read, Open
<1>12. Claimed("catalogued", RolesController)
  BY TogetherClaimed, AskingClaimed DEF RolesController, Table, Asking, Claim, INITIAL_PERMISSIONS,
     May, Crud, Read, Open
<1>13. Claimed("catalogued", PermissionsController)
  BY TogetherClaimed, AskingClaimed DEF PermissionsController, Asking, Claim, INITIAL_PERMISSIONS,
     May, Crud, Read, Open
<1>14. Claimed("catalogued", ClientsController)
  BY TogetherClaimed, AskingClaimed DEF ClientsController, Table, Asking, Claim, INITIAL_PERMISSIONS,
     May, Crud, Read, Open
<1>15. Claimed("catalogued", ContactsController)
  BY TogetherClaimed, AskingClaimed DEF ContactsController, Table, Asking, Claim, INITIAL_PERMISSIONS,
     May, Crud, Read, Open
<1>16. Claimed("catalogued", AutoRepliesController)
  BY TogetherClaimed, AskingClaimed DEF AutoRepliesController, Table, Asking, Claim, INITIAL_PERMISSIONS,
     May, Crud, Read, Open
<1>17. Claimed("catalogued", ClientDomainsController)
  BY TogetherClaimed, AskingClaimed DEF ClientDomainsController, Table, Asking, Claim, INITIAL_PERMISSIONS,
     May, Crud, Read, Open
<1>18. Claimed("catalogued", ExternalSpecialistsController)
  BY TogetherClaimed, AskingClaimed DEF ExternalSpecialistsController, Asking, Claim, INITIAL_PERMISSIONS,
     May, Crud, Read, Open
<1>19. Claimed("catalogued", EventListController)
  BY TogetherClaimed, AskingClaimed DEF EventListController, Asking, Claim, INITIAL_PERMISSIONS,
     May, Crud, Read, Open
<1>20. Claimed("catalogued", EventConfigController)
  BY TogetherClaimed, AskingClaimed DEF EventConfigController, Asking, Claim, INITIAL_PERMISSIONS,
     May, Crud, Read, Open
<1>21. Claimed("catalogued", EventRequestController)
  BY TogetherClaimed, AskingClaimed DEF EventRequestController, Asking, Claim, INITIAL_PERMISSIONS,
     May, Crud, Read, Open
<1>22. Claimed("catalogued", ProjectsController)
  BY TogetherClaimed, AskingClaimed DEF ProjectsController, Asking, Claim, INITIAL_PERMISSIONS,
     May, Crud, Read, Open
<1>23. Claimed("catalogued", ReportsController)
  BY TogetherClaimed, AskingClaimed DEF ReportsController, Asking, Claim, INITIAL_PERMISSIONS,
     May, Crud, Read, Open
<1>24. Claimed("catalogued", DevicesController)
  BY TogetherClaimed, AskingClaimed DEF DevicesController, Asking, Claim, INITIAL_PERMISSIONS,
     May, Crud, Read, Open
<1>25. Claimed("catalogued", RemoteAccessController)
  BY TogetherClaimed, AskingClaimed DEF RemoteAccessController, Asking, Claim, INITIAL_PERMISSIONS,
     May, Crud, Read, Open
<1>26. Claimed("catalogued", DashboardController)
  BY TogetherClaimed, AskingClaimed DEF DashboardController, Asking, Claim, INITIAL_PERMISSIONS,
     May, Crud, Read, Open
<1>27. Claimed("catalogued", OperationsController)
  BY TogetherClaimed, AskingClaimed DEF OperationsController, Asking, Claim, INITIAL_PERMISSIONS,
     May, Crud, Read, Open
<1>28. Claimed("catalogued", KnowledgeController)
  BY TogetherClaimed, AskingClaimed DEF KnowledgeController, Asking, Claim, INITIAL_PERMISSIONS,
     May, Crud, Read, Open
<1>29. Claimed("catalogued", KnowledgeImportController)
  BY TogetherClaimed, AskingClaimed DEF KnowledgeImportController, Asking, Claim, INITIAL_PERMISSIONS,
     May, Crud, Read, Open
<1>30. Claimed("catalogued", MailboxesController)
  BY TogetherClaimed, AskingClaimed DEF MailboxesController, Asking, Claim, INITIAL_PERMISSIONS,
     May, Crud, Read, Open
<1>31. Claimed("catalogued", MaintenanceController)
  BY TogetherClaimed, AskingClaimed DEF MaintenanceController, Asking, Claim, INITIAL_PERMISSIONS,
     May, Crud, Read, Open
<1>32. Claimed("catalogued", SpamController)
  BY TogetherClaimed, AskingClaimed DEF SpamController, Asking, Claim, INITIAL_PERMISSIONS,
     May, Crud, Read, Open
<1>33. Claimed("catalogued", NotificationsController)
  BY TogetherClaimed, AskingClaimed DEF NotificationsController, Asking, Claim, INITIAL_PERMISSIONS,
     May, Crud, Read, Open
<1>34. Claimed("catalogued", ProfileController)
  BY TogetherClaimed, AskingClaimed DEF ProfileController, Asking, Claim, INITIAL_PERMISSIONS,
     May, Crud, Read, Open
<1>35. Claimed("catalogued", SystemHealthController)
  BY TogetherClaimed, AskingClaimed DEF SystemHealthController, Asking, Claim, INITIAL_PERMISSIONS,
     May, Crud, Read, Open
<1>36. Claimed("catalogued", SystemSettingsController)
  BY TogetherClaimed, AskingClaimed DEF SystemSettingsController, Asking, Claim, INITIAL_PERMISSIONS,
     May, Crud, Read, Open
<1>37. Claimed("catalogued", AuthController)
  BY TogetherClaimed, AskingClaimed DEF AuthController, Asking, Claim, INITIAL_PERMISSIONS,
     May, Crud, Read, Open
<1> QED
  BY <1>1, <1>2, <1>3, <1>4, <1>5, <1>6, <1>7, <1>8, <1>9, <1>10, <1>11, <1>12, <1>13, <1>14, <1>15, <1>16, <1>17,
     <1>18, <1>19, <1>20, <1>21, <1>22, <1>23, <1>24, <1>25, <1>26, <1>27, <1>28, <1>29, <1>30, <1>31, <1>32,
     <1>33, <1>34, <1>35, <1>36, <1>37, TogetherClaimed DEF RouteNeeds

\* A change other than an auditor's own asks for something.
LEMMA ChangesAsked == Claimed("asked", RouteNeeds)
<1>1. Claimed("asked", TicketsController)
  BY ChangesAsk, TogetherClaimed, AskingClaimed DEF TicketsController, Asking, Claim, Asked, OwnChanges, Read
<1>2. Claimed("asked", TicketAttachmentsController)
  BY ChangesAsk, TogetherClaimed, AskingClaimed DEF TicketAttachmentsController, Asking, Claim, Asked, OwnChanges,
     Read
<1>3. Claimed("asked", SupportPortalController)
  BY ChangesAsk, TogetherClaimed, AskingClaimed DEF SupportPortalController, Asking, Claim, Asked, OwnChanges,
     Read
<1>4. Claimed("asked", TicketRoutingController)
  BY ChangesAsk, TogetherClaimed, AskingClaimed DEF TicketRoutingController, Asking, Claim, Asked, OwnChanges,
     Read
<1>5. Claimed("asked", TicketTeamsController)
  BY ChangesAsk, TogetherClaimed, AskingClaimed DEF TicketTeamsController, Asking, Claim, Asked, OwnChanges, Read
<1>6. Claimed("asked", TicketWorkflowController)
  BY ChangesAsk, TogetherClaimed, AskingClaimed DEF TicketWorkflowController, Asking, Claim, Asked, OwnChanges,
     Read
<1>7. Claimed("asked", AiAssistantController)
  <2>1. Some(May("ai_assistant", {"use"}) \cup May("tickets", {"view", "reply"}))
        /\ Some(May("ai_assistant", {"use"}) \cup May("tickets", {"view"}))
    BY ChangesAsk, SomeEither
  <2>2. Asking("asked", May("ai_assistant", {"use"}) \cup May("tickets", {"view", "reply"}), {"POST"},
               {"tickets/:id/ai/draft"})
    BY <2>1 DEF Asking, Claim, Asked
  <2>3. \A methods, paths :
          Asking("asked", May("ai_assistant", {"use"}) \cup May("tickets", {"view"}), methods, paths)
    BY <2>1 DEF Asking, Claim, Asked
  <2> QED
    BY <2>2, <2>3, AskingClaimed, TogetherClaimed DEF AiAssistantController
<1>8. Claimed("asked", EventAiController)
  BY ChangesAsk, TogetherClaimed, AskingClaimed DEF EventAiController, Asking, Claim, Asked, OwnChanges, Read
<1>9. Claimed("asked", AiConfigController)
  BY ChangesAsk, TogetherClaimed, AskingClaimed DEF AiConfigController, Asking, Claim, Asked, OwnChanges, Read
<1>10. Claimed("asked", UsersController)
  BY ChangesAsk, TogetherClaimed, AskingClaimed DEF UsersController, Table, Asking, Claim, Asked, OwnChanges, Read
<1>11. Claimed("asked", GroupsController)
  BY ChangesAsk, TogetherClaimed, AskingClaimed DEF GroupsController, Table, Asking, Claim, Asked, OwnChanges,
     Read
<1>12. Claimed("asked", RolesController)
  BY ChangesAsk, TogetherClaimed, AskingClaimed DEF RolesController, Table, Asking, Claim, Asked, OwnChanges, Read
<1>13. Claimed("asked", PermissionsController)
  BY ChangesAsk, TogetherClaimed, AskingClaimed DEF PermissionsController, Asking, Claim, Asked, OwnChanges, Read
<1>14. Claimed("asked", ClientsController)
  BY ChangesAsk, TogetherClaimed, AskingClaimed DEF ClientsController, Table, Asking, Claim, Asked, OwnChanges,
     Read
<1>15. Claimed("asked", ContactsController)
  BY ChangesAsk, TogetherClaimed, AskingClaimed DEF ContactsController, Table, Asking, Claim, Asked, OwnChanges,
     Read
<1>16. Claimed("asked", AutoRepliesController)
  BY ChangesAsk, TogetherClaimed, AskingClaimed DEF AutoRepliesController, Table, Asking, Claim, Asked,
     OwnChanges, Read
<1>17. Claimed("asked", ClientDomainsController)
  BY ChangesAsk, TogetherClaimed, AskingClaimed DEF ClientDomainsController, Table, Asking, Claim, Asked,
     OwnChanges, Read
<1>18. Claimed("asked", ExternalSpecialistsController)
  BY ChangesAsk, TogetherClaimed, AskingClaimed DEF ExternalSpecialistsController, Asking, Claim, Asked,
     OwnChanges, Read
<1>19. Claimed("asked", EventListController)
  BY ChangesAsk, TogetherClaimed, AskingClaimed DEF EventListController, Asking, Claim, Asked, OwnChanges, Read
<1>20. Claimed("asked", EventConfigController)
  BY ChangesAsk, TogetherClaimed, AskingClaimed DEF EventConfigController, Asking, Claim, Asked, OwnChanges, Read
<1>21. Claimed("asked", EventRequestController)
  BY ChangesAsk, TogetherClaimed, AskingClaimed DEF EventRequestController, Asking, Claim, Asked, OwnChanges, Read
<1>22. Claimed("asked", ProjectsController)
  BY ChangesAsk, TogetherClaimed, AskingClaimed DEF ProjectsController, Asking, Claim, Asked, OwnChanges, Read
<1>23. Claimed("asked", ReportsController)
  <2>1. Some(May("reports", {"send"}) \cup May("projects", {"view"}))
    BY ChangesAsk, SomeEither
  <2>2. \A methods, paths :
          Asking("asked", May("reports", {"send"}) \cup May("projects", {"view"}), methods, paths)
    BY <2>1 DEF Asking, Claim, Asked
  <2>3. \A methods, paths : /\ Asking("asked", May("reports", {"send"}), methods, paths)
                             /\ Asking("asked", May("reports", {"manage"}), methods, paths)
    BY ChangesAsk DEF Asking, Claim, Asked
  <2>4. \A needed, paths : Asking("asked", needed, Read, paths)
    BY DEF Asking, Claim, Asked, Read
  <2> QED
    BY <2>2, <2>3, <2>4, AskingClaimed, TogetherClaimed DEF ReportsController
<1>24. Claimed("asked", DevicesController)
  BY ChangesAsk, TogetherClaimed, AskingClaimed DEF DevicesController, Asking, Claim, Asked, OwnChanges, Read
<1>25. Claimed("asked", RemoteAccessController)
  BY ChangesAsk, TogetherClaimed, AskingClaimed DEF RemoteAccessController, Asking, Claim, Asked, OwnChanges, Read
<1>26. Claimed("asked", DashboardController)
  BY ChangesAsk, TogetherClaimed, AskingClaimed DEF DashboardController, Asking, Claim, Asked, OwnChanges, Read
<1>27. Claimed("asked", OperationsController)
  BY ChangesAsk, TogetherClaimed, AskingClaimed DEF OperationsController, Asking, Claim, Asked, OwnChanges, Read
<1>28. Claimed("asked", KnowledgeController)
  BY ChangesAsk, TogetherClaimed, AskingClaimed DEF KnowledgeController, Asking, Claim, Asked, OwnChanges, Read
<1>29. Claimed("asked", KnowledgeImportController)
  BY ChangesAsk, TogetherClaimed, AskingClaimed DEF KnowledgeImportController, Asking, Claim, Asked, OwnChanges,
     Read
<1>30. Claimed("asked", MailboxesController)
  BY ChangesAsk, TogetherClaimed, AskingClaimed DEF MailboxesController, Asking, Claim, Asked, OwnChanges, Read
<1>31. Claimed("asked", MaintenanceController)
  BY ChangesAsk, TogetherClaimed, AskingClaimed DEF MaintenanceController, Asking, Claim, Asked, OwnChanges, Read
<1>32. Claimed("asked", SpamController)
  BY ChangesAsk, TogetherClaimed, AskingClaimed DEF SpamController, Asking, Claim, Asked, OwnChanges, Read
<1>33. Claimed("asked", NotificationsController)
  BY ChangesAsk, TogetherClaimed, AskingClaimed DEF NotificationsController, Asking, Claim, Asked, OwnChanges,
     Read
<1>34. Claimed("asked", ProfileController)
  BY ChangesAsk, TogetherClaimed, AskingClaimed DEF ProfileController, Asking, Claim, Asked, OwnChanges, Read
<1>35. Claimed("asked", SystemHealthController)
  BY ChangesAsk, TogetherClaimed, AskingClaimed DEF SystemHealthController, Asking, Claim, Asked, OwnChanges, Read
<1>36. Claimed("asked", SystemSettingsController)
  BY ChangesAsk, TogetherClaimed, AskingClaimed DEF SystemSettingsController, Asking, Claim, Asked, OwnChanges,
     Read
<1>37. Claimed("asked", AuthController)
  BY ChangesAsk, TogetherClaimed, AskingClaimed DEF AuthController, Asking, Claim, Asked, OwnChanges, Read
<1> QED
  BY <1>1, <1>2, <1>3, <1>4, <1>5, <1>6, <1>7, <1>8, <1>9, <1>10, <1>11, <1>12, <1>13, <1>14, <1>15, <1>16, <1>17,
     <1>18, <1>19, <1>20, <1>21, <1>22, <1>23, <1>24, <1>25, <1>26, <1>27, <1>28, <1>29, <1>30, <1>31, <1>32,
     <1>33, <1>34, <1>35, <1>36, <1>37, TogetherClaimed DEF RouteNeeds

\* Changes ask for what those they are kept from lack.
LEMMA ChangesRestricted == Claimed("restricted", RouteNeeds)
<1>1. Claimed("restricted", TicketsController)
  BY TogetherClaimed, AskingClaimed DEF TicketsController, Asking, Claim, Restricted, OwnChanges,
     AdminPaths, AdminVerbs, AiPaths, AuditedAreas, Read, May, Open
<1>2. Claimed("restricted", TicketAttachmentsController)
  BY TogetherClaimed, AskingClaimed DEF TicketAttachmentsController, Asking, Claim, Restricted, OwnChanges,
     AdminPaths, AdminVerbs, AiPaths, AuditedAreas, Read, May, Open
<1>3. Claimed("restricted", SupportPortalController)
  BY TogetherClaimed, AskingClaimed DEF SupportPortalController, Asking, Claim, Restricted, OwnChanges,
     AdminPaths, AdminVerbs, AiPaths, AuditedAreas, Read, May, Open
<1>4. Claimed("restricted", TicketRoutingController)
  BY TogetherClaimed, AskingClaimed DEF TicketRoutingController, Asking, Claim, Restricted, OwnChanges,
     AdminPaths, AdminVerbs, AiPaths, AuditedAreas, Read, May, Open
<1>5. Claimed("restricted", TicketTeamsController)
  BY TogetherClaimed, AskingClaimed DEF TicketTeamsController, Asking, Claim, Restricted, OwnChanges,
     AdminPaths, AdminVerbs, AiPaths, AuditedAreas, Read, May, Open
<1>6. Claimed("restricted", TicketWorkflowController)
  BY TogetherClaimed, AskingClaimed DEF TicketWorkflowController, Asking, Claim, Restricted, OwnChanges,
     AdminPaths, AdminVerbs, AiPaths, AuditedAreas, Read, May, Open
<1>7. Claimed("restricted", AiAssistantController)
  BY TogetherClaimed, AskingClaimed DEF AiAssistantController, Asking, Claim, Restricted, OwnChanges,
     AdminPaths, AdminVerbs, AiPaths, AuditedAreas, Read, May, Open
<1>8. Claimed("restricted", EventAiController)
  BY TogetherClaimed, AskingClaimed DEF EventAiController, Asking, Claim, Restricted, OwnChanges,
     AdminPaths, AdminVerbs, AiPaths, AuditedAreas, Read, May, Open
<1>9. Claimed("restricted", AiConfigController)
  BY TogetherClaimed, AskingClaimed DEF AiConfigController, Asking, Claim, Restricted, OwnChanges,
     AdminPaths, AdminVerbs, AiPaths, AuditedAreas, Read, May, Open
<1>10. Claimed("restricted", UsersController)
  BY TogetherClaimed, AskingClaimed DEF UsersController, Table, Asking, Claim, Restricted, OwnChanges,
     AdminPaths, AdminVerbs, AiPaths, AuditedAreas, Read, May, Open
<1>11. Claimed("restricted", GroupsController)
  BY TogetherClaimed, AskingClaimed DEF GroupsController, Table, Asking, Claim, Restricted, OwnChanges,
     AdminPaths, AdminVerbs, AiPaths, AuditedAreas, Read, May, Open
<1>12. Claimed("restricted", RolesController)
  BY TogetherClaimed, AskingClaimed DEF RolesController, Table, Asking, Claim, Restricted, OwnChanges,
     AdminPaths, AdminVerbs, AiPaths, AuditedAreas, Read, May, Open
<1>13. Claimed("restricted", PermissionsController)
  BY TogetherClaimed, AskingClaimed DEF PermissionsController, Asking, Claim, Restricted, OwnChanges,
     AdminPaths, AdminVerbs, AiPaths, AuditedAreas, Read, May, Open
<1>14. Claimed("restricted", ClientsController)
  BY TogetherClaimed, AskingClaimed DEF ClientsController, Table, Asking, Claim, Restricted, OwnChanges,
     AdminPaths, AdminVerbs, AiPaths, AuditedAreas, Read, May, Open
<1>15. Claimed("restricted", ContactsController)
  BY TogetherClaimed, AskingClaimed DEF ContactsController, Table, Asking, Claim, Restricted, OwnChanges,
     AdminPaths, AdminVerbs, AiPaths, AuditedAreas, Read, May, Open
<1>16. Claimed("restricted", AutoRepliesController)
  BY TogetherClaimed, AskingClaimed DEF AutoRepliesController, Table, Asking, Claim, Restricted, OwnChanges,
     AdminPaths, AdminVerbs, AiPaths, AuditedAreas, Read, May, Open
<1>17. Claimed("restricted", ClientDomainsController)
  BY TogetherClaimed, AskingClaimed DEF ClientDomainsController, Table, Asking, Claim, Restricted, OwnChanges,
     AdminPaths, AdminVerbs, AiPaths, AuditedAreas, Read, May, Open
<1>18. Claimed("restricted", ExternalSpecialistsController)
  BY TogetherClaimed, AskingClaimed DEF ExternalSpecialistsController, Asking, Claim, Restricted, OwnChanges,
     AdminPaths, AdminVerbs, AiPaths, AuditedAreas, Read, May, Open
<1>19. Claimed("restricted", EventListController)
  BY TogetherClaimed, AskingClaimed DEF EventListController, Asking, Claim, Restricted, OwnChanges,
     AdminPaths, AdminVerbs, AiPaths, AuditedAreas, Read, May, Open
<1>20. Claimed("restricted", EventConfigController)
  BY TogetherClaimed, AskingClaimed DEF EventConfigController, Asking, Claim, Restricted, OwnChanges,
     AdminPaths, AdminVerbs, AiPaths, AuditedAreas, Read, May, Open
<1>21. Claimed("restricted", EventRequestController)
  BY TogetherClaimed, AskingClaimed DEF EventRequestController, Asking, Claim, Restricted, OwnChanges,
     AdminPaths, AdminVerbs, AiPaths, AuditedAreas, Read, May, Open
<1>22. Claimed("restricted", ProjectsController)
  BY TogetherClaimed, AskingClaimed DEF ProjectsController, Asking, Claim, Restricted, OwnChanges,
     AdminPaths, AdminVerbs, AiPaths, AuditedAreas, Read, May, Open
<1>23. Claimed("restricted", ReportsController)
  BY TogetherClaimed, AskingClaimed DEF ReportsController, Asking, Claim, Restricted, OwnChanges,
     AdminPaths, AdminVerbs, AiPaths, AuditedAreas, Read, May, Open
<1>24. Claimed("restricted", DevicesController)
  BY TogetherClaimed, AskingClaimed DEF DevicesController, Asking, Claim, Restricted, OwnChanges,
     AdminPaths, AdminVerbs, AiPaths, AuditedAreas, Read, May, Open
<1>25. Claimed("restricted", RemoteAccessController)
  BY TogetherClaimed, AskingClaimed DEF RemoteAccessController, Asking, Claim, Restricted, OwnChanges,
     AdminPaths, AdminVerbs, AiPaths, AuditedAreas, Read, May, Open
<1>26. Claimed("restricted", DashboardController)
  BY TogetherClaimed, AskingClaimed DEF DashboardController, Asking, Claim, Restricted, OwnChanges,
     AdminPaths, AdminVerbs, AiPaths, AuditedAreas, Read, May, Open
<1>27. Claimed("restricted", OperationsController)
  BY TogetherClaimed, AskingClaimed DEF OperationsController, Asking, Claim, Restricted, OwnChanges,
     AdminPaths, AdminVerbs, AiPaths, AuditedAreas, Read, May, Open
<1>28. Claimed("restricted", KnowledgeController)
  BY TogetherClaimed, AskingClaimed DEF KnowledgeController, Asking, Claim, Restricted, OwnChanges,
     AdminPaths, AdminVerbs, AiPaths, AuditedAreas, Read, May, Open
<1>29. Claimed("restricted", KnowledgeImportController)
  BY TogetherClaimed, AskingClaimed DEF KnowledgeImportController, Asking, Claim, Restricted, OwnChanges,
     AdminPaths, AdminVerbs, AiPaths, AuditedAreas, Read, May, Open
<1>30. Claimed("restricted", MailboxesController)
  BY TogetherClaimed, AskingClaimed DEF MailboxesController, Asking, Claim, Restricted, OwnChanges,
     AdminPaths, AdminVerbs, AiPaths, AuditedAreas, Read, May, Open
<1>31. Claimed("restricted", MaintenanceController)
  BY TogetherClaimed, AskingClaimed DEF MaintenanceController, Asking, Claim, Restricted, OwnChanges,
     AdminPaths, AdminVerbs, AiPaths, AuditedAreas, Read, May, Open
<1>32. Claimed("restricted", SpamController)
  BY TogetherClaimed, AskingClaimed DEF SpamController, Asking, Claim, Restricted, OwnChanges,
     AdminPaths, AdminVerbs, AiPaths, AuditedAreas, Read, May, Open
<1>33. Claimed("restricted", NotificationsController)
  BY TogetherClaimed, AskingClaimed DEF NotificationsController, Asking, Claim, Restricted, OwnChanges,
     AdminPaths, AdminVerbs, AiPaths, AuditedAreas, Read, May, Open
<1>34. Claimed("restricted", ProfileController)
  BY TogetherClaimed, AskingClaimed DEF ProfileController, Asking, Claim, Restricted, OwnChanges,
     AdminPaths, AdminVerbs, AiPaths, AuditedAreas, Read, May, Open
<1>35. Claimed("restricted", SystemHealthController)
  BY TogetherClaimed, AskingClaimed DEF SystemHealthController, Asking, Claim, Restricted, OwnChanges,
     AdminPaths, AdminVerbs, AiPaths, AuditedAreas, Read, May, Open
<1>36. Claimed("restricted", SystemSettingsController)
  BY TogetherClaimed, AskingClaimed DEF SystemSettingsController, Asking, Claim, Restricted, OwnChanges,
     AdminPaths, AdminVerbs, AiPaths, AuditedAreas, Read, May, Open
<1>37. Claimed("restricted", AuthController)
  BY TogetherClaimed, AskingClaimed DEF AuthController, Asking, Claim, Restricted, OwnChanges,
     AdminPaths, AdminVerbs, AiPaths, AuditedAreas, Read, May, Open
<1> QED
  BY <1>1, <1>2, <1>3, <1>4, <1>5, <1>6, <1>7, <1>8, <1>9, <1>10, <1>11, <1>12, <1>13, <1>14, <1>15, <1>16, <1>17,
     <1>18, <1>19, <1>20, <1>21, <1>22, <1>23, <1>24, <1>25, <1>26, <1>27, <1>28, <1>29, <1>30, <1>31, <1>32,
     <1>33, <1>34, <1>35, <1>36, <1>37, TogetherClaimed DEF RouteNeeds

\* What pages load and offer asks for no more than the page or the control shows.
LEMMA RoutesServed == Claimed("served", RouteNeeds)
<1>1. Claimed("served", TicketsController)
  BY TogetherClaimed, AskingClaimed DEF TicketsController, Asking, Claim, Served, TicketServed, ProjectServed,
     AreaServed, EventServed, KnowledgeServed, AtMost, EventPaths, KnowledgePaths, May, Read, Crud, Open
<1>2. Claimed("served", TicketAttachmentsController)
  BY TogetherClaimed, AskingClaimed DEF TicketAttachmentsController, Asking, Claim, Served, TicketServed,
     ProjectServed, AreaServed, EventServed, KnowledgeServed, AtMost, EventPaths, KnowledgePaths, May, Read, Crud,
     Open
<1>3. Claimed("served", SupportPortalController)
  BY TogetherClaimed, AskingClaimed DEF SupportPortalController, Asking, Claim, Served, TicketServed,
     ProjectServed, AreaServed, EventServed, KnowledgeServed, AtMost, EventPaths, KnowledgePaths, May, Read, Crud,
     Open
<1>4. Claimed("served", TicketRoutingController)
  BY TogetherClaimed, AskingClaimed DEF TicketRoutingController, Asking, Claim, Served, TicketServed,
     ProjectServed, AreaServed, EventServed, KnowledgeServed, AtMost, EventPaths, KnowledgePaths, May, Read, Crud,
     Open
<1>5. Claimed("served", TicketTeamsController)
  BY TogetherClaimed, AskingClaimed DEF TicketTeamsController, Asking, Claim, Served, TicketServed, ProjectServed,
     AreaServed, EventServed, KnowledgeServed, AtMost, EventPaths, KnowledgePaths, May, Read, Crud, Open
<1>6. Claimed("served", TicketWorkflowController)
  BY TogetherClaimed, AskingClaimed DEF TicketWorkflowController, Asking, Claim, Served, TicketServed,
     ProjectServed, AreaServed, EventServed, KnowledgeServed, AtMost, EventPaths, KnowledgePaths, May, Read, Crud,
     Open
<1>7. Claimed("served", AiAssistantController)
  BY TogetherClaimed, AskingClaimed DEF AiAssistantController, Asking, Claim, Served, TicketServed, ProjectServed,
     AreaServed, EventServed, KnowledgeServed, AtMost, EventPaths, KnowledgePaths, May, Read, Crud, Open
<1>8. Claimed("served", EventAiController)
  BY TogetherClaimed, AskingClaimed DEF EventAiController, Asking, Claim, Served, TicketServed, ProjectServed,
     AreaServed, EventServed, KnowledgeServed, AtMost, EventPaths, KnowledgePaths, May, Read, Crud, Open
<1>9. Claimed("served", AiConfigController)
  BY TogetherClaimed, AskingClaimed DEF AiConfigController, Asking, Claim, Served, TicketServed, ProjectServed,
     AreaServed, EventServed, KnowledgeServed, AtMost, EventPaths, KnowledgePaths, May, Read, Crud, Open
<1>10. Claimed("served", UsersController)
  <2>1. Claimed("served", Table("users", "users"))
    BY TogetherClaimed, AskingClaimed DEF Table, Asking, Claim, Served, TicketServed, ProjectServed, AreaServed,
     EventServed, KnowledgeServed, AtMost, EventPaths, KnowledgePaths, May, Read, Crud, Open
  <2> QED
    BY <2>1, TogetherClaimed, AskingClaimed DEF UsersController, Asking, Claim, Served, TicketServed,
       ProjectServed, AreaServed, EventServed, KnowledgeServed, AtMost, EventPaths, KnowledgePaths, May, Read,
       Crud, Open
<1>11. Claimed("served", GroupsController)
  BY TogetherClaimed, AskingClaimed DEF GroupsController, Table, Asking, Claim, Served, TicketServed,
     ProjectServed, AreaServed, EventServed, KnowledgeServed, AtMost, EventPaths, KnowledgePaths, May, Read, Crud,
     Open
<1>12. Claimed("served", RolesController)
  BY TogetherClaimed, AskingClaimed DEF RolesController, Table, Asking, Claim, Served, TicketServed,
     ProjectServed, AreaServed, EventServed, KnowledgeServed, AtMost, EventPaths, KnowledgePaths, May, Read, Crud,
     Open
<1>13. Claimed("served", PermissionsController)
  BY TogetherClaimed, AskingClaimed DEF PermissionsController, Asking, Claim, Served, TicketServed, ProjectServed,
     AreaServed, EventServed, KnowledgeServed, AtMost, EventPaths, KnowledgePaths, May, Read, Crud, Open
<1>14. Claimed("served", ClientsController)
  BY TogetherClaimed, AskingClaimed DEF ClientsController, Table, Asking, Claim, Served, TicketServed,
     ProjectServed, AreaServed, EventServed, KnowledgeServed, AtMost, EventPaths, KnowledgePaths, May, Read, Crud,
     Open
<1>15. Claimed("served", ContactsController)
  BY TogetherClaimed, AskingClaimed DEF ContactsController, Table, Asking, Claim, Served, TicketServed,
     ProjectServed, AreaServed, EventServed, KnowledgeServed, AtMost, EventPaths, KnowledgePaths, May, Read, Crud,
     Open
<1>16. Claimed("served", AutoRepliesController)
  BY TogetherClaimed, AskingClaimed DEF AutoRepliesController, Table, Asking, Claim, Served, TicketServed,
     ProjectServed, AreaServed, EventServed, KnowledgeServed, AtMost, EventPaths, KnowledgePaths, May, Read, Crud,
     Open
<1>17. Claimed("served", ClientDomainsController)
  <2>1. Claimed("served", Table("client_domains", "client-domains"))
    BY TogetherClaimed, AskingClaimed DEF Table, Asking, Claim, Served, TicketServed, ProjectServed, AreaServed,
     EventServed, KnowledgeServed, AtMost, EventPaths, KnowledgePaths, May, Read, Crud, Open
  <2> QED
    BY <2>1, TogetherClaimed, AskingClaimed DEF ClientDomainsController, Asking, Claim, Served, TicketServed,
       ProjectServed, AreaServed, EventServed, KnowledgeServed, AtMost, EventPaths, KnowledgePaths, May, Read,
       Crud, Open
<1>18. Claimed("served", ExternalSpecialistsController)
  BY TogetherClaimed, AskingClaimed DEF ExternalSpecialistsController, Asking, Claim, Served, TicketServed,
     ProjectServed, AreaServed, EventServed, KnowledgeServed, AtMost, EventPaths, KnowledgePaths, May, Read, Crud,
     Open
<1>19. Claimed("served", EventListController)
  BY TogetherClaimed, AskingClaimed DEF EventListController, Asking, Claim, Served, TicketServed, ProjectServed,
     AreaServed, EventServed, KnowledgeServed, AtMost, EventPaths, KnowledgePaths, May, Read, Crud, Open
<1>20. Claimed("served", EventConfigController)
  BY TogetherClaimed, AskingClaimed DEF EventConfigController, Asking, Claim, Served, TicketServed, ProjectServed,
     AreaServed, EventServed, KnowledgeServed, AtMost, EventPaths, KnowledgePaths, May, Read, Crud, Open
<1>21. Claimed("served", EventRequestController)
  BY TogetherClaimed, AskingClaimed DEF EventRequestController, Asking, Claim, Served, TicketServed,
     ProjectServed, AreaServed, EventServed, KnowledgeServed, AtMost, EventPaths, KnowledgePaths, May, Read, Crud,
     Open
<1>22. Claimed("served", ProjectsController)
  BY TogetherClaimed, AskingClaimed DEF ProjectsController, Asking, Claim, Served, TicketServed, ProjectServed,
     AreaServed, EventServed, KnowledgeServed, AtMost, EventPaths, KnowledgePaths, May, Read, Crud, Open
<1>23. Claimed("served", ReportsController)
  BY TogetherClaimed, AskingClaimed DEF ReportsController, Asking, Claim, Served, TicketServed, ProjectServed,
     AreaServed, EventServed, KnowledgeServed, AtMost, EventPaths, KnowledgePaths, May, Read, Crud, Open
<1>24. Claimed("served", DevicesController)
  BY TogetherClaimed, AskingClaimed DEF DevicesController, Asking, Claim, Served, TicketServed, ProjectServed,
     AreaServed, EventServed, KnowledgeServed, AtMost, EventPaths, KnowledgePaths, May, Read, Crud, Open
<1>25. Claimed("served", RemoteAccessController)
  BY TogetherClaimed, AskingClaimed DEF RemoteAccessController, Asking, Claim, Served, TicketServed,
     ProjectServed, AreaServed, EventServed, KnowledgeServed, AtMost, EventPaths, KnowledgePaths, May, Read, Crud,
     Open
<1>26. Claimed("served", DashboardController)
  BY TogetherClaimed, AskingClaimed DEF DashboardController, Asking, Claim, Served, TicketServed, ProjectServed,
     AreaServed, EventServed, KnowledgeServed, AtMost, EventPaths, KnowledgePaths, May, Read, Crud, Open
<1>27. Claimed("served", OperationsController)
  BY TogetherClaimed, AskingClaimed DEF OperationsController, Asking, Claim, Served, TicketServed, ProjectServed,
     AreaServed, EventServed, KnowledgeServed, AtMost, EventPaths, KnowledgePaths, May, Read, Crud, Open
<1>28. Claimed("served", KnowledgeController)
  BY TogetherClaimed, AskingClaimed DEF KnowledgeController, Asking, Claim, Served, TicketServed, ProjectServed,
     AreaServed, EventServed, KnowledgeServed, AtMost, EventPaths, KnowledgePaths, May, Read, Crud, Open
<1>29. Claimed("served", KnowledgeImportController)
  BY TogetherClaimed, AskingClaimed DEF KnowledgeImportController, Asking, Claim, Served, TicketServed,
     ProjectServed, AreaServed, EventServed, KnowledgeServed, AtMost, EventPaths, KnowledgePaths, May, Read, Crud,
     Open
<1>30. Claimed("served", MailboxesController)
  BY TogetherClaimed, AskingClaimed DEF MailboxesController, Asking, Claim, Served, TicketServed, ProjectServed,
     AreaServed, EventServed, KnowledgeServed, AtMost, EventPaths, KnowledgePaths, May, Read, Crud, Open
<1>31. Claimed("served", MaintenanceController)
  BY TogetherClaimed, AskingClaimed DEF MaintenanceController, Asking, Claim, Served, TicketServed, ProjectServed,
     AreaServed, EventServed, KnowledgeServed, AtMost, EventPaths, KnowledgePaths, May, Read, Crud, Open
<1>32. Claimed("served", SpamController)
  BY TogetherClaimed, AskingClaimed DEF SpamController, Asking, Claim, Served, TicketServed, ProjectServed,
     AreaServed, EventServed, KnowledgeServed, AtMost, EventPaths, KnowledgePaths, May, Read, Crud, Open
<1>33. Claimed("served", NotificationsController)
  BY TogetherClaimed, AskingClaimed DEF NotificationsController, Asking, Claim, Served, TicketServed,
     ProjectServed, AreaServed, EventServed, KnowledgeServed, AtMost, EventPaths, KnowledgePaths, May, Read, Crud,
     Open
<1>34. Claimed("served", ProfileController)
  BY TogetherClaimed, AskingClaimed DEF ProfileController, Asking, Claim, Served, TicketServed, ProjectServed,
     AreaServed, EventServed, KnowledgeServed, AtMost, EventPaths, KnowledgePaths, May, Read, Crud, Open
<1>35. Claimed("served", SystemHealthController)
  BY TogetherClaimed, AskingClaimed DEF SystemHealthController, Asking, Claim, Served, TicketServed,
     ProjectServed, AreaServed, EventServed, KnowledgeServed, AtMost, EventPaths, KnowledgePaths, May, Read, Crud,
     Open
<1>36. Claimed("served", SystemSettingsController)
  BY TogetherClaimed, AskingClaimed DEF SystemSettingsController, Asking, Claim, Served, TicketServed,
     ProjectServed, AreaServed, EventServed, KnowledgeServed, AtMost, EventPaths, KnowledgePaths, May, Read, Crud,
     Open
<1>37. Claimed("served", AuthController)
  BY TogetherClaimed, AskingClaimed DEF AuthController, Asking, Claim, Served, TicketServed, ProjectServed,
     AreaServed, EventServed, KnowledgeServed, AtMost, EventPaths, KnowledgePaths, May, Read, Crud, Open
<1> QED
  BY <1>1, <1>2, <1>3, <1>4, <1>5, <1>6, <1>7, <1>8, <1>9, <1>10, <1>11, <1>12, <1>13, <1>14, <1>15, <1>16, <1>17,
     <1>18, <1>19, <1>20, <1>21, <1>22, <1>23, <1>24, <1>25, <1>26, <1>27, <1>28, <1>29, <1>30, <1>31, <1>32,
     <1>33, <1>34, <1>35, <1>36, <1>37, TogetherClaimed DEF RouteNeeds

\* What pages offer to all who see them asks for no more than named here.
LEMMA RoutesOffered == Claimed("offering", RouteNeeds)
<1>1. Claimed("offering", TicketsController)
  BY TogetherClaimed, AskingClaimed DEF TicketsController, Asking, Claim, Offering, TicketOffers, AreaOffers,
     ProjectOffers, AtMost, TicketChanges, TicketVerbs, ClientPaths, ClientAreas, RemoteCalls, ReportCalls, Drafting,
     Briefing, BriefCalls, ProfilePaths, May, Read, Crud, Open
<1>2. Claimed("offering", TicketAttachmentsController)
  BY TogetherClaimed, AskingClaimed DEF TicketAttachmentsController, Asking, Claim, Offering, TicketOffers, AreaOffers,
     ProjectOffers, AtMost, TicketChanges, TicketVerbs, ClientPaths, ClientAreas, RemoteCalls, ReportCalls, Drafting,
     Briefing, BriefCalls, ProfilePaths, May, Read, Crud, Open
<1>3. Claimed("offering", SupportPortalController)
  BY TogetherClaimed, AskingClaimed DEF SupportPortalController, Asking, Claim, Offering, TicketOffers, AreaOffers,
     ProjectOffers, AtMost, TicketChanges, TicketVerbs, ClientPaths, ClientAreas, RemoteCalls, ReportCalls, Drafting,
     Briefing, BriefCalls, ProfilePaths, May, Read, Crud, Open
<1>4. Claimed("offering", TicketRoutingController)
  BY TogetherClaimed, AskingClaimed DEF TicketRoutingController, Asking, Claim, Offering, TicketOffers, AreaOffers,
     ProjectOffers, AtMost, TicketChanges, TicketVerbs, ClientPaths, ClientAreas, RemoteCalls, ReportCalls, Drafting,
     Briefing, BriefCalls, ProfilePaths, May, Read, Crud, Open
<1>5. Claimed("offering", TicketTeamsController)
  BY TogetherClaimed, AskingClaimed DEF TicketTeamsController, Asking, Claim, Offering, TicketOffers, AreaOffers,
     ProjectOffers, AtMost, TicketChanges, TicketVerbs, ClientPaths, ClientAreas, RemoteCalls, ReportCalls, Drafting,
     Briefing, BriefCalls, ProfilePaths, May, Read, Crud, Open
<1>6. Claimed("offering", TicketWorkflowController)
  BY TogetherClaimed, AskingClaimed DEF TicketWorkflowController, Asking, Claim, Offering, TicketOffers, AreaOffers,
     ProjectOffers, AtMost, TicketChanges, TicketVerbs, ClientPaths, ClientAreas, RemoteCalls, ReportCalls, Drafting,
     Briefing, BriefCalls, ProfilePaths, May, Read, Crud, Open
<1>7. Claimed("offering", AiAssistantController)
  BY TogetherClaimed, AskingClaimed DEF AiAssistantController, Asking, Claim, Offering, TicketOffers, AreaOffers,
     ProjectOffers, AtMost, TicketChanges, TicketVerbs, ClientPaths, ClientAreas, RemoteCalls, ReportCalls, Drafting,
     Briefing, BriefCalls, ProfilePaths, May, Read, Crud, Open
<1>8. Claimed("offering", EventAiController)
  BY TogetherClaimed, AskingClaimed DEF EventAiController, Asking, Claim, Offering, TicketOffers, AreaOffers,
     ProjectOffers, AtMost, TicketChanges, TicketVerbs, ClientPaths, ClientAreas, RemoteCalls, ReportCalls, Drafting,
     Briefing, BriefCalls, ProfilePaths, May, Read, Crud, Open
<1>9. Claimed("offering", AiConfigController)
  BY TogetherClaimed, AskingClaimed DEF AiConfigController, Asking, Claim, Offering, TicketOffers, AreaOffers,
     ProjectOffers, AtMost, TicketChanges, TicketVerbs, ClientPaths, ClientAreas, RemoteCalls, ReportCalls, Drafting,
     Briefing, BriefCalls, ProfilePaths, May, Read, Crud, Open
<1>10. Claimed("offering", UsersController)
  BY TogetherClaimed, AskingClaimed DEF UsersController, Table, Asking, Claim, Offering, TicketOffers, AreaOffers,
     ProjectOffers, AtMost, TicketChanges, TicketVerbs, ClientPaths, ClientAreas, RemoteCalls, ReportCalls, Drafting,
     Briefing, BriefCalls, ProfilePaths, May, Read, Crud, Open
<1>11. Claimed("offering", GroupsController)
  BY TogetherClaimed, AskingClaimed DEF GroupsController, Table, Asking, Claim, Offering, TicketOffers, AreaOffers,
     ProjectOffers, AtMost, TicketChanges, TicketVerbs, ClientPaths, ClientAreas, RemoteCalls, ReportCalls, Drafting,
     Briefing, BriefCalls, ProfilePaths, May, Read, Crud, Open
<1>12. Claimed("offering", RolesController)
  BY TogetherClaimed, AskingClaimed DEF RolesController, Table, Asking, Claim, Offering, TicketOffers, AreaOffers,
     ProjectOffers, AtMost, TicketChanges, TicketVerbs, ClientPaths, ClientAreas, RemoteCalls, ReportCalls, Drafting,
     Briefing, BriefCalls, ProfilePaths, May, Read, Crud, Open
<1>13. Claimed("offering", PermissionsController)
  BY TogetherClaimed, AskingClaimed DEF PermissionsController, Asking, Claim, Offering, TicketOffers, AreaOffers,
     ProjectOffers, AtMost, TicketChanges, TicketVerbs, ClientPaths, ClientAreas, RemoteCalls, ReportCalls, Drafting,
     Briefing, BriefCalls, ProfilePaths, May, Read, Crud, Open
<1>14. Claimed("offering", ClientsController)
  BY TogetherClaimed, AskingClaimed DEF ClientsController, Table, Asking, Claim, Offering, TicketOffers, AreaOffers,
     ProjectOffers, AtMost, TicketChanges, TicketVerbs, ClientPaths, ClientAreas, RemoteCalls, ReportCalls, Drafting,
     Briefing, BriefCalls, ProfilePaths, May, Read, Crud, Open
<1>15. Claimed("offering", ContactsController)
  BY TogetherClaimed, AskingClaimed DEF ContactsController, Table, Asking, Claim, Offering, TicketOffers, AreaOffers,
     ProjectOffers, AtMost, TicketChanges, TicketVerbs, ClientPaths, ClientAreas, RemoteCalls, ReportCalls, Drafting,
     Briefing, BriefCalls, ProfilePaths, May, Read, Crud, Open
<1>16. Claimed("offering", AutoRepliesController)
  BY TogetherClaimed, AskingClaimed DEF AutoRepliesController, Table, Asking, Claim, Offering, TicketOffers, AreaOffers,
     ProjectOffers, AtMost, TicketChanges, TicketVerbs, ClientPaths, ClientAreas, RemoteCalls, ReportCalls, Drafting,
     Briefing, BriefCalls, ProfilePaths, May, Read, Crud, Open
<1>17. Claimed("offering", ClientDomainsController)
  BY TogetherClaimed, AskingClaimed DEF ClientDomainsController, Table, Asking, Claim, Offering, TicketOffers, AreaOffers,
     ProjectOffers, AtMost, TicketChanges, TicketVerbs, ClientPaths, ClientAreas, RemoteCalls, ReportCalls, Drafting,
     Briefing, BriefCalls, ProfilePaths, May, Read, Crud, Open
<1>18. Claimed("offering", ExternalSpecialistsController)
  BY TogetherClaimed, AskingClaimed DEF ExternalSpecialistsController, Asking, Claim, Offering, TicketOffers, AreaOffers,
     ProjectOffers, AtMost, TicketChanges, TicketVerbs, ClientPaths, ClientAreas, RemoteCalls, ReportCalls, Drafting,
     Briefing, BriefCalls, ProfilePaths, May, Read, Crud, Open
<1>19. Claimed("offering", EventListController)
  BY TogetherClaimed, AskingClaimed DEF EventListController, Asking, Claim, Offering, TicketOffers, AreaOffers,
     ProjectOffers, AtMost, TicketChanges, TicketVerbs, ClientPaths, ClientAreas, RemoteCalls, ReportCalls, Drafting,
     Briefing, BriefCalls, ProfilePaths, May, Read, Crud, Open
<1>20. Claimed("offering", EventConfigController)
  BY TogetherClaimed, AskingClaimed DEF EventConfigController, Asking, Claim, Offering, TicketOffers, AreaOffers,
     ProjectOffers, AtMost, TicketChanges, TicketVerbs, ClientPaths, ClientAreas, RemoteCalls, ReportCalls, Drafting,
     Briefing, BriefCalls, ProfilePaths, May, Read, Crud, Open
<1>21. Claimed("offering", EventRequestController)
  BY TogetherClaimed, AskingClaimed DEF EventRequestController, Asking, Claim, Offering, TicketOffers, AreaOffers,
     ProjectOffers, AtMost, TicketChanges, TicketVerbs, ClientPaths, ClientAreas, RemoteCalls, ReportCalls, Drafting,
     Briefing, BriefCalls, ProfilePaths, May, Read, Crud, Open
<1>22. Claimed("offering", ProjectsController)
  BY TogetherClaimed, AskingClaimed DEF ProjectsController, Asking, Claim, Offering, TicketOffers, AreaOffers,
     ProjectOffers, AtMost, TicketChanges, TicketVerbs, ClientPaths, ClientAreas, RemoteCalls, ReportCalls, Drafting,
     Briefing, BriefCalls, ProfilePaths, May, Read, Crud, Open
<1>23. Claimed("offering", ReportsController)
  BY TogetherClaimed, AskingClaimed DEF ReportsController, Asking, Claim, Offering, TicketOffers, AreaOffers,
     ProjectOffers, AtMost, TicketChanges, TicketVerbs, ClientPaths, ClientAreas, RemoteCalls, ReportCalls, Drafting,
     Briefing, BriefCalls, ProfilePaths, May, Read, Crud, Open
<1>24. Claimed("offering", DevicesController)
  BY TogetherClaimed, AskingClaimed DEF DevicesController, Asking, Claim, Offering, TicketOffers, AreaOffers,
     ProjectOffers, AtMost, TicketChanges, TicketVerbs, ClientPaths, ClientAreas, RemoteCalls, ReportCalls, Drafting,
     Briefing, BriefCalls, ProfilePaths, May, Read, Crud, Open
<1>25. Claimed("offering", RemoteAccessController)
  BY TogetherClaimed, AskingClaimed DEF RemoteAccessController, Asking, Claim, Offering, TicketOffers, AreaOffers,
     ProjectOffers, AtMost, TicketChanges, TicketVerbs, ClientPaths, ClientAreas, RemoteCalls, ReportCalls, Drafting,
     Briefing, BriefCalls, ProfilePaths, May, Read, Crud, Open
<1>26. Claimed("offering", DashboardController)
  BY TogetherClaimed, AskingClaimed DEF DashboardController, Asking, Claim, Offering, TicketOffers, AreaOffers,
     ProjectOffers, AtMost, TicketChanges, TicketVerbs, ClientPaths, ClientAreas, RemoteCalls, ReportCalls, Drafting,
     Briefing, BriefCalls, ProfilePaths, May, Read, Crud, Open
<1>27. Claimed("offering", OperationsController)
  BY TogetherClaimed, AskingClaimed DEF OperationsController, Asking, Claim, Offering, TicketOffers, AreaOffers,
     ProjectOffers, AtMost, TicketChanges, TicketVerbs, ClientPaths, ClientAreas, RemoteCalls, ReportCalls, Drafting,
     Briefing, BriefCalls, ProfilePaths, May, Read, Crud, Open
<1>28. Claimed("offering", KnowledgeController)
  BY TogetherClaimed, AskingClaimed DEF KnowledgeController, Asking, Claim, Offering, TicketOffers, AreaOffers,
     ProjectOffers, AtMost, TicketChanges, TicketVerbs, ClientPaths, ClientAreas, RemoteCalls, ReportCalls, Drafting,
     Briefing, BriefCalls, ProfilePaths, May, Read, Crud, Open
<1>29. Claimed("offering", KnowledgeImportController)
  BY TogetherClaimed, AskingClaimed DEF KnowledgeImportController, Asking, Claim, Offering, TicketOffers, AreaOffers,
     ProjectOffers, AtMost, TicketChanges, TicketVerbs, ClientPaths, ClientAreas, RemoteCalls, ReportCalls, Drafting,
     Briefing, BriefCalls, ProfilePaths, May, Read, Crud, Open
<1>30. Claimed("offering", MailboxesController)
  BY TogetherClaimed, AskingClaimed DEF MailboxesController, Asking, Claim, Offering, TicketOffers, AreaOffers,
     ProjectOffers, AtMost, TicketChanges, TicketVerbs, ClientPaths, ClientAreas, RemoteCalls, ReportCalls, Drafting,
     Briefing, BriefCalls, ProfilePaths, May, Read, Crud, Open
<1>31. Claimed("offering", MaintenanceController)
  BY TogetherClaimed, AskingClaimed DEF MaintenanceController, Asking, Claim, Offering, TicketOffers, AreaOffers,
     ProjectOffers, AtMost, TicketChanges, TicketVerbs, ClientPaths, ClientAreas, RemoteCalls, ReportCalls, Drafting,
     Briefing, BriefCalls, ProfilePaths, May, Read, Crud, Open
<1>32. Claimed("offering", SpamController)
  BY TogetherClaimed, AskingClaimed DEF SpamController, Asking, Claim, Offering, TicketOffers, AreaOffers,
     ProjectOffers, AtMost, TicketChanges, TicketVerbs, ClientPaths, ClientAreas, RemoteCalls, ReportCalls, Drafting,
     Briefing, BriefCalls, ProfilePaths, May, Read, Crud, Open
<1>33. Claimed("offering", NotificationsController)
  BY TogetherClaimed, AskingClaimed DEF NotificationsController, Asking, Claim, Offering, TicketOffers, AreaOffers,
     ProjectOffers, AtMost, TicketChanges, TicketVerbs, ClientPaths, ClientAreas, RemoteCalls, ReportCalls, Drafting,
     Briefing, BriefCalls, ProfilePaths, May, Read, Crud, Open
<1>34. Claimed("offering", ProfileController)
  BY TogetherClaimed, AskingClaimed DEF ProfileController, Asking, Claim, Offering, TicketOffers, AreaOffers,
     ProjectOffers, AtMost, TicketChanges, TicketVerbs, ClientPaths, ClientAreas, RemoteCalls, ReportCalls, Drafting,
     Briefing, BriefCalls, ProfilePaths, May, Read, Crud, Open
<1>35. Claimed("offering", SystemHealthController)
  BY TogetherClaimed, AskingClaimed DEF SystemHealthController, Asking, Claim, Offering, TicketOffers, AreaOffers,
     ProjectOffers, AtMost, TicketChanges, TicketVerbs, ClientPaths, ClientAreas, RemoteCalls, ReportCalls, Drafting,
     Briefing, BriefCalls, ProfilePaths, May, Read, Crud, Open
<1>36. Claimed("offering", SystemSettingsController)
  BY TogetherClaimed, AskingClaimed DEF SystemSettingsController, Asking, Claim, Offering, TicketOffers, AreaOffers,
     ProjectOffers, AtMost, TicketChanges, TicketVerbs, ClientPaths, ClientAreas, RemoteCalls, ReportCalls, Drafting,
     Briefing, BriefCalls, ProfilePaths, May, Read, Crud, Open
<1>37. Claimed("offering", AuthController)
  BY TogetherClaimed, AskingClaimed DEF AuthController, Asking, Claim, Offering, TicketOffers, AreaOffers,
     ProjectOffers, AtMost, TicketChanges, TicketVerbs, ClientPaths, ClientAreas, RemoteCalls, ReportCalls, Drafting,
     Briefing, BriefCalls, ProfilePaths, May, Read, Crud, Open
<1> QED
  BY <1>1, <1>2, <1>3, <1>4, <1>5, <1>6, <1>7, <1>8, <1>9, <1>10, <1>11, <1>12, <1>13, <1>14, <1>15, <1>16, <1>17,
     <1>18, <1>19, <1>20, <1>21, <1>22, <1>23, <1>24, <1>25, <1>26, <1>27, <1>28, <1>29, <1>30, <1>31, <1>32,
     <1>33, <1>34, <1>35, <1>36, <1>37, TogetherClaimed DEF RouteNeeds

\* The tables of the administration, of the event services and of the knowledge base hold
\* the paths they are served by.
LEMMA Administering ==
  /\ Claimed("administers", UsersController)
  /\ Claimed("administers", GroupsController)
  /\ Claimed("administers", RolesController)
  /\ Claimed("administers", TicketTeamsController)
  /\ Claimed("administers", SystemSettingsController)
  /\ Claimed("administers", MailboxesController)
  /\ Claimed("administers", MaintenanceController)
  /\ Claimed("administers", SpamController)
  /\ Claimed("administers", AiConfigController)
  /\ Claimed("administers", SupportPortalController)
  /\ Claimed("administers", TicketWorkflowController)
<1>1. Claimed("administers", UsersController)
  BY TogetherClaimed, AskingClaimed DEF UsersController, Table, Asking, Claim, Administers, AdminPaths, Read
<1>2. Claimed("administers", GroupsController)
  BY TogetherClaimed, AskingClaimed DEF GroupsController, Table, Asking, Claim, Administers, AdminPaths, Read
<1>3. Claimed("administers", RolesController)
  BY TogetherClaimed, AskingClaimed DEF RolesController, Table, Asking, Claim, Administers, AdminPaths, Read
<1>4. Claimed("administers", TicketTeamsController)
  BY TogetherClaimed, AskingClaimed DEF TicketTeamsController, Asking, Claim, Administers, AdminPaths, Read
<1>5. Claimed("administers", SystemSettingsController)
  BY TogetherClaimed, AskingClaimed DEF SystemSettingsController, Asking, Claim, Administers, AdminPaths, Read
<1>6. Claimed("administers", MailboxesController)
  BY TogetherClaimed, AskingClaimed DEF MailboxesController, Asking, Claim, Administers, AdminPaths, Read
<1>7. Claimed("administers", MaintenanceController)
  BY TogetherClaimed, AskingClaimed DEF MaintenanceController, Asking, Claim, Administers, AdminPaths, Read
<1>8. Claimed("administers", SpamController)
  BY TogetherClaimed, AskingClaimed DEF SpamController, Asking, Claim, Administers, AdminPaths, Read
<1>9. Claimed("administers", AiConfigController)
  BY TogetherClaimed, AskingClaimed DEF AiConfigController, Asking, Claim, Administers, AdminPaths, Read
<1>10. Claimed("administers", SupportPortalController)
  BY TogetherClaimed, AskingClaimed DEF SupportPortalController, Asking, Claim, Administers, AdminPaths, Read
<1>11. Claimed("administers", TicketWorkflowController)
  BY TogetherClaimed, AskingClaimed DEF TicketWorkflowController, Asking, Claim, Administers, AdminPaths, Read
<1> QED
  BY <1>1, <1>2, <1>3, <1>4, <1>5, <1>6, <1>7, <1>8, <1>9, <1>10, <1>11

LEMMA EventsAndKnowledge ==
  /\ Claimed("events", EventListController) /\ Claimed("events", EventRequestController)
  /\ Claimed("knowledge", KnowledgeController)
<1>1. Claimed("events", EventListController)
  BY TogetherClaimed, AskingClaimed DEF EventListController, Asking, Claim, Organizes, EventPaths, Read
<1>2. Claimed("events", EventRequestController)
  BY TogetherClaimed, AskingClaimed DEF EventRequestController, Asking, Claim, Organizes, EventPaths, Read
<1>3. Claimed("knowledge", KnowledgeController)
  BY TogetherClaimed, AskingClaimed DEF KnowledgeController, Asking, Claim, Teaches, KnowledgePaths, Read
<1> QED
  BY <1>1, <1>2, <1>3

\* The routes that pages load and offer exist.
LEMMA RoutesOf ==
  ASSUME NEW tables, NEW table \in tables
  PROVE  DOMAIN table \subseteq DOMAIN Together(tables)
  BY DEF Together

LEMMA Controllers ==
  /\ DOMAIN TicketsController \subseteq DOMAIN RouteNeeds /\ DOMAIN SpamController \subseteq DOMAIN RouteNeeds
  /\ DOMAIN ExternalSpecialistsController \subseteq DOMAIN RouteNeeds
  /\ DOMAIN EventListController \subseteq DOMAIN RouteNeeds
  /\ DOMAIN EventRequestController \subseteq DOMAIN RouteNeeds
  /\ DOMAIN KnowledgeController \subseteq DOMAIN RouteNeeds
  /\ DOMAIN OperationsController \subseteq DOMAIN RouteNeeds
  /\ DOMAIN ReportsController \subseteq DOMAIN RouteNeeds
  /\ DOMAIN ProjectsController \subseteq DOMAIN RouteNeeds /\ DOMAIN UsersController \subseteq DOMAIN RouteNeeds
  /\ DOMAIN GroupsController \subseteq DOMAIN RouteNeeds /\ DOMAIN RolesController \subseteq DOMAIN RouteNeeds
  /\ DOMAIN PermissionsController \subseteq DOMAIN RouteNeeds
  /\ DOMAIN DevicesController \subseteq DOMAIN RouteNeeds
  /\ DOMAIN ClientsController \subseteq DOMAIN RouteNeeds
  /\ DOMAIN MailboxesController \subseteq DOMAIN RouteNeeds
  /\ DOMAIN ClientDomainsController \subseteq DOMAIN RouteNeeds
  /\ DOMAIN TicketTeamsController \subseteq DOMAIN RouteNeeds
  /\ DOMAIN TicketRoutingController \subseteq DOMAIN RouteNeeds
  /\ DOMAIN AutoRepliesController \subseteq DOMAIN RouteNeeds
  /\ DOMAIN NotificationsController \subseteq DOMAIN RouteNeeds
  /\ DOMAIN ProfileController \subseteq DOMAIN RouteNeeds
  /\ DOMAIN AuthController \subseteq DOMAIN RouteNeeds
  /\ DOMAIN SystemSettingsController \subseteq DOMAIN RouteNeeds
  /\ DOMAIN MaintenanceController \subseteq DOMAIN RouteNeeds
  /\ DOMAIN AiConfigController \subseteq DOMAIN RouteNeeds
  /\ DOMAIN SupportPortalController \subseteq DOMAIN RouteNeeds
  /\ DOMAIN TicketWorkflowController \subseteq DOMAIN RouteNeeds
  /\ DOMAIN EventConfigController \subseteq DOMAIN RouteNeeds
<1>1. /\ DOMAIN TicketsController \subseteq DOMAIN RouteNeeds /\ DOMAIN SpamController \subseteq DOMAIN RouteNeeds
      /\ DOMAIN ExternalSpecialistsController \subseteq DOMAIN RouteNeeds
      /\ DOMAIN EventListController \subseteq DOMAIN RouteNeeds
  BY RoutesOf DEF RouteNeeds
<1>2. /\ DOMAIN EventRequestController \subseteq DOMAIN RouteNeeds
      /\ DOMAIN KnowledgeController \subseteq DOMAIN RouteNeeds
      /\ DOMAIN OperationsController \subseteq DOMAIN RouteNeeds
      /\ DOMAIN ReportsController \subseteq DOMAIN RouteNeeds
  BY RoutesOf DEF RouteNeeds
<1>3. /\ DOMAIN ProjectsController \subseteq DOMAIN RouteNeeds
      /\ DOMAIN UsersController \subseteq DOMAIN RouteNeeds
      /\ DOMAIN GroupsController \subseteq DOMAIN RouteNeeds /\ DOMAIN RolesController \subseteq DOMAIN RouteNeeds
  BY RoutesOf DEF RouteNeeds
<1>4. /\ DOMAIN PermissionsController \subseteq DOMAIN RouteNeeds
      /\ DOMAIN DevicesController \subseteq DOMAIN RouteNeeds
      /\ DOMAIN ClientsController \subseteq DOMAIN RouteNeeds
      /\ DOMAIN MailboxesController \subseteq DOMAIN RouteNeeds
  BY RoutesOf DEF RouteNeeds
<1>5. /\ DOMAIN ClientDomainsController \subseteq DOMAIN RouteNeeds
      /\ DOMAIN TicketTeamsController \subseteq DOMAIN RouteNeeds
      /\ DOMAIN TicketRoutingController \subseteq DOMAIN RouteNeeds
      /\ DOMAIN AutoRepliesController \subseteq DOMAIN RouteNeeds
  BY RoutesOf DEF RouteNeeds
<1>6. /\ DOMAIN NotificationsController \subseteq DOMAIN RouteNeeds
      /\ DOMAIN ProfileController \subseteq DOMAIN RouteNeeds
      /\ DOMAIN AuthController \subseteq DOMAIN RouteNeeds
      /\ DOMAIN SystemSettingsController \subseteq DOMAIN RouteNeeds
  BY RoutesOf DEF RouteNeeds
<1>7. /\ DOMAIN MaintenanceController \subseteq DOMAIN RouteNeeds
      /\ DOMAIN AiConfigController \subseteq DOMAIN RouteNeeds
      /\ DOMAIN SupportPortalController \subseteq DOMAIN RouteNeeds
      /\ DOMAIN TicketWorkflowController \subseteq DOMAIN RouteNeeds
  BY RoutesOf DEF RouteNeeds
<1>8. /\ DOMAIN EventConfigController \subseteq DOMAIN RouteNeeds
  BY RoutesOf DEF RouteNeeds
<1> QED
  BY <1>1, <1>2, <1>3, <1>4, <1>5, <1>6, <1>7, <1>8

LEMMA RoutesExist ==
  /\ {"GET"} \X {"tickets", "tickets/views", "tickets/statistics", "tickets/:id"} \subseteq DOMAIN RouteNeeds
  /\ {"PATCH"} \X {"tickets/:id/assignment", "tickets/:id/planning", "tickets/:id/state", "tickets/bulk"}
       \subseteq DOMAIN RouteNeeds
  /\ {"POST", "DELETE"} \X {"tickets/:id/external-specialists"} \subseteq DOMAIN RouteNeeds
  /\ {"POST"} \X {"tickets/bulk/delete", "tickets/:id/merge"} \subseteq DOMAIN RouteNeeds
  /\ {"GET", "PATCH", "DELETE"} \X {"projects"} \subseteq DOMAIN RouteNeeds
  /\ {"POST"} \X {"projects", "projects/templates", "projects/:id/milestones", "projects/:id/work-items"}
       \subseteq DOMAIN RouteNeeds
  /\ {"GET"} \X {"event-services", "event-services/my-tasks", "event-services/services"}
       \subseteq DOMAIN RouteNeeds
  /\ {"PATCH"} \X {"event-services/:id", "event-services/:id/tasks"} \subseteq DOMAIN RouteNeeds
  /\ {"GET"} \X {"knowledge-base/articles", "knowledge-base/categories"} \subseteq DOMAIN RouteNeeds
  /\ {"POST"} \X {"knowledge-base/articles/from-ticket"} \subseteq DOMAIN RouteNeeds
  /\ {"GET"} \X {"reports/summary", "reports/projects/executive-export"} \subseteq DOMAIN RouteNeeds
  /\ {"POST"} \X {"reports/schedules", "reports/definitions"} \subseteq DOMAIN RouteNeeds
  /\ {"GET"} \X {"operations/overview"} \subseteq DOMAIN RouteNeeds
  /\ {"POST"} \X {"spam-blocklist"} \subseteq DOMAIN RouteNeeds
  /\ {"GET"} \X {"users"} \subseteq DOMAIN RouteNeeds
  /\ {"GET"} \X {"groups"} \subseteq DOMAIN RouteNeeds
  /\ {"GET"} \X {"roles"} \subseteq DOMAIN RouteNeeds
  /\ {"GET"} \X {"permissions"} \subseteq DOMAIN RouteNeeds
  /\ {"GET"} \X {"devices"} \subseteq DOMAIN RouteNeeds
  /\ {"GET"} \X {"clients"} \subseteq DOMAIN RouteNeeds
  /\ {"GET"} \X {"external-specialists"} \subseteq DOMAIN RouteNeeds
  /\ {"GET"} \X {"mailboxes"} \subseteq DOMAIN RouteNeeds
  /\ {"GET"} \X {"client-domains/unmapped"} \subseteq DOMAIN RouteNeeds
  /\ {"GET"} \X {"ticket-teams"} \subseteq DOMAIN RouteNeeds
  /\ {"GET"} \X {"ticket-routing-rules"} \subseteq DOMAIN RouteNeeds
  /\ {"GET"} \X {"auto-replies"} \subseteq DOMAIN RouteNeeds
  /\ {"GET"} \X {"notification-preferences/users"} \subseteq DOMAIN RouteNeeds
  /\ {"GET"} \X {"profile"} \subseteq DOMAIN RouteNeeds
  /\ {"GET"} \X {"auth/me"} \subseteq DOMAIN RouteNeeds
<1>1. /\ {"GET"} \X {"tickets", "tickets/views", "tickets/statistics", "tickets/:id"}
           \subseteq DOMAIN TicketsController
      /\ {"PATCH"} \X {"tickets/:id/assignment", "tickets/:id/planning", "tickets/:id/state", "tickets/bulk"}
           \subseteq DOMAIN TicketsController
      /\ {"POST", "DELETE"} \X {"tickets/:id/external-specialists"} \subseteq DOMAIN TicketsController
      /\ {"POST"} \X {"tickets/bulk/delete", "tickets/:id/merge"} \subseteq DOMAIN TicketsController
  BY DEF TicketsController, Needs, Together, Read
<1>2. /\ {"GET", "PATCH", "DELETE"} \X {"projects"} \subseteq DOMAIN ProjectsController
      /\ {"POST"} \X {"projects", "projects/templates", "projects/:id/milestones", "projects/:id/work-items"}
           \subseteq DOMAIN ProjectsController
  BY DEF ProjectsController, Needs, Together, Read
<1>3. {"GET"} \X {"event-services", "event-services/my-tasks", "event-services/services"}
        \subseteq DOMAIN EventListController
  BY DEF EventListController, Needs, Together, Read
<1>4. {"PATCH"} \X {"event-services/:id", "event-services/:id/tasks"} \subseteq DOMAIN EventRequestController
  BY DEF EventRequestController, Needs, Together, Read
<1>5. /\ {"GET"} \X {"knowledge-base/articles", "knowledge-base/categories"} \subseteq DOMAIN KnowledgeController
      /\ {"POST"} \X {"knowledge-base/articles/from-ticket"} \subseteq DOMAIN KnowledgeController
  BY DEF KnowledgeController, Needs, Together, Read
<1>6. /\ {"GET"} \X {"reports/summary", "reports/projects/executive-export"} \subseteq DOMAIN ReportsController
      /\ {"POST"} \X {"reports/schedules", "reports/definitions"} \subseteq DOMAIN ReportsController
  BY DEF ReportsController, Needs, Together, Read
<1>7. {"GET"} \X {"operations/overview"} \subseteq DOMAIN OperationsController
  BY DEF OperationsController, Needs, Together, Read
<1>8. {"POST"} \X {"spam-blocklist"} \subseteq DOMAIN SpamController
  BY DEF SpamController, Needs, Together, Read
<1>9. {"GET"} \X {"users"} \subseteq DOMAIN UsersController
  BY DEF UsersController, Table, Needs, Together, Read
<1>10. {"GET"} \X {"groups"} \subseteq DOMAIN GroupsController
  BY DEF GroupsController, Table, Needs, Together, Read
<1>11. {"GET"} \X {"roles"} \subseteq DOMAIN RolesController
  BY DEF RolesController, Table, Needs, Together, Read
<1>12. {"GET"} \X {"permissions"} \subseteq DOMAIN PermissionsController
  BY DEF PermissionsController, Needs, Together, Read
<1>13. {"GET"} \X {"devices"} \subseteq DOMAIN DevicesController
  BY DEF DevicesController, Needs, Together, Read
<1>14. {"GET"} \X {"clients"} \subseteq DOMAIN ClientsController
  BY DEF ClientsController, Table, Needs, Together, Read
<1>15. {"GET"} \X {"external-specialists"} \subseteq DOMAIN ExternalSpecialistsController
  BY DEF ExternalSpecialistsController, Needs, Together, Read
<1>16. {"GET"} \X {"mailboxes"} \subseteq DOMAIN MailboxesController
  BY DEF MailboxesController, Needs, Together, Read
<1>17. {"GET"} \X {"client-domains/unmapped"} \subseteq DOMAIN ClientDomainsController
  BY DEF ClientDomainsController, Table, Needs, Together, Read
<1>18. {"GET"} \X {"ticket-teams"} \subseteq DOMAIN TicketTeamsController
  BY DEF TicketTeamsController, Needs, Together, Read
<1>19. {"GET"} \X {"ticket-routing-rules"} \subseteq DOMAIN TicketRoutingController
  BY DEF TicketRoutingController, Needs, Together, Read
<1>20. {"GET"} \X {"auto-replies"} \subseteq DOMAIN AutoRepliesController
  BY DEF AutoRepliesController, Table, Needs, Together, Read
<1>21. {"GET"} \X {"notification-preferences/users"} \subseteq DOMAIN NotificationsController
  BY DEF NotificationsController, Needs, Together, Read
<1>22. {"GET"} \X {"profile"} \subseteq DOMAIN ProfileController
  BY DEF ProfileController, Needs, Together, Read
<1>23. {"GET"} \X {"auth/me"} \subseteq DOMAIN AuthController
  BY DEF AuthController, Needs, Together, Read
<1> QED
  BY Controllers, <1>1, <1>2, <1>3, <1>4, <1>5, <1>6, <1>7, <1>8, <1>9, <1>10, <1>11, <1>12, <1>13, <1>14, <1>15,
     <1>16, <1>17, <1>18, <1>19, <1>20, <1>21, <1>22, <1>23

\* What those routes need at most, over all controllers.
Needed(routes, most) == \A route \in routes : RouteNeeds[route] \subseteq most

\* What a route that a page loads or offers asks for, area by area.
LEMMA TicketRoutesNeed ==
  /\ Needed({"GET"} \X {"tickets", "tickets/views", "tickets/statistics", "tickets/:id"}
            \cup {"PATCH"} \X {"tickets/:id/state", "tickets/bulk"}, May("tickets", {"view"}))
  /\ Needed({"PATCH"} \X {"tickets/:id/assignment"}, May("tickets", {"assign"}))
  /\ Needed({"PATCH"} \X {"tickets/:id/planning"} \cup {"POST", "DELETE"} \X {"tickets/:id/external-specialists"},
            May("tickets", {"update"}))
  /\ Needed({"POST"} \X {"tickets/bulk/delete"}, May("tickets", {"delete"}))
  /\ Needed({"POST"} \X {"tickets/:id/merge"}, May("tickets", {"merge"}))
<1>1. \A route \in DOMAIN RouteNeeds : TicketServed(route, RouteNeeds[route])
  BY RoutesServed DEF Claimed, Claim, Served
<1> QED
  BY <1>1, RoutesExist DEF TicketServed, AtMost, Needed

LEMMA ProjectRoutesNeed ==
  /\ Needed({"GET"} \X {"projects"}, May("projects", {"view"}))
  /\ Needed({"POST"} \X {"projects", "projects/templates"}, May("projects", {"create"}))
  /\ Needed({"PATCH"} \X {"projects"} \cup {"POST"} \X {"projects/:id/milestones", "projects/:id/work-items"},
            May("projects", {"update"}))
  /\ Needed({"DELETE"} \X {"projects"}, May("projects", {"delete"}))
<1>1. \A route \in DOMAIN RouteNeeds : ProjectServed(route, RouteNeeds[route])
  BY RoutesServed DEF Claimed, Claim, Served
<1> QED
  BY <1>1, RoutesExist DEF ProjectServed, AtMost, Needed

LEMMA OtherRoutesNeed ==
  /\ Needed({"GET"} \X {"auth/me", "profile"}, {})
  /\ Needed({"GET"} \X {"operations/overview"}, {"operations", "tickets", "event_services"} \X {"view"})
  /\ Needed({"GET"} \X {"users"}, May("users", {"view"}))
  /\ Needed({"GET"} \X {"devices"}, May("devices", {"view"}))
  /\ Needed({"GET"} \X {"clients"}, May("clients", {"view"}))
  /\ Needed({"GET"} \X {"external-specialists"}, May("external_specialists", {"view"}))
  /\ Needed({"GET"} \X {"reports/summary"}, May("reports", {"view"}))
  /\ Needed({"GET"} \X {"reports/projects/executive-export"}, {<<"reports", "export">>, <<"projects", "view">>})
  /\ Needed({"POST"} \X {"reports/schedules", "reports/definitions"}, May("reports", {"manage"}))
  /\ Needed({"POST"} \X {"spam-blocklist"}, May("spam", {"manage"}))
<1>1. \A route \in DOMAIN RouteNeeds : AreaServed(route, RouteNeeds[route])
  BY RoutesServed DEF Claimed, Claim, Served
<1> QED
  BY <1>1, RoutesExist DEF AreaServed, AtMost, Needed

LEMMA EventRoutesNeed ==
  /\ Needed({"GET"} \X {"event-services", "event-services/my-tasks", "event-services/services"},
            May("event_services", {"view"}))
  /\ Needed({"PATCH"} \X {"event-services/:id", "event-services/:id/tasks"}, May("event_services", {"update"}))
<1>1. \A route \in DOMAIN RouteNeeds : EventServed(route, RouteNeeds[route])
  BY RoutesServed DEF Claimed, Claim, Served
<1> QED
  BY <1>1, RoutesExist DEF EventServed, AtMost, Needed

LEMMA ArticleRoutesNeed ==
  /\ Needed({"GET"} \X {"knowledge-base/articles", "knowledge-base/categories"}, May("knowledge_base", {"view"}))
  /\ Needed({"POST"} \X {"knowledge-base/articles/from-ticket"}, May("knowledge_base", {"create"}))
<1>1. \A route \in DOMAIN RouteNeeds : KnowledgeServed(route, RouteNeeds[route])
  BY RoutesServed DEF Claimed, Claim, Served
<1> QED
  BY <1>1, RoutesExist DEF KnowledgeServed, AtMost, Needed

\* Every route of an event, and of an article, asks for permissions of its area.
LEMMA EventsNeed ==
  Needed(DOMAIN EventListController \cup DOMAIN EventRequestController, May("event_services", {"view", "update"}))
<1> SUFFICES ASSUME NEW route \in DOMAIN EventListController \cup DOMAIN EventRequestController
             PROVE  RouteNeeds[route] \subseteq May("event_services", {"view", "update"})
  BY DEF Needed
<1>1. Organizes(route)
  BY EventsAndKnowledge DEF Claimed, Claim
<1>2. EventServed(route, RouteNeeds[route])
  BY Controllers, RoutesServed DEF Claimed, Claim, Served
<1> QED
  BY <1>1, <1>2 DEF Organizes, EventServed, AtMost, May

LEMMA KnowledgeNeeds == Needed(DOMAIN KnowledgeController, May("knowledge_base", Crud))
<1> SUFFICES ASSUME NEW route \in DOMAIN KnowledgeController
             PROVE  RouteNeeds[route] \subseteq May("knowledge_base", Crud)
  BY DEF Needed
<1>1. Teaches(route)
  BY EventsAndKnowledge DEF Claimed, Claim
<1>2. KnowledgeServed(route, RouteNeeds[route])
  BY Controllers, RoutesServed DEF Claimed, Claim, Served
<1> QED
  BY <1>1, <1>2 DEF Teaches, KnowledgeServed

\* What else a role holds that holds a permission.
Follows(p, more) == \A r \in Roles : p \in Holds(r) => more \subseteq Holds(r)

LEMMA HeldTogether ==
  /\ Follows(<<"event_services", "view">>, {<<"event_services", "update">>, <<"users", "view">>})
  /\ Follows(<<"operations", "view">>, {"tickets", "event_services"} \X {"view"})
  /\ Follows(<<"knowledge_base", "view">>, May("knowledge_base", Crud))
  /\ Follows(<<"reports", "export">>, {<<"projects", "view">>})
  /\ Follows(<<"users", "create">>, INITIAL_PERMISSIONS)
  /\ Follows(<<"system_settings", "view">>, INITIAL_PERMISSIONS)
<1> DEFINE Extras(r) ==
      /\ <<"event_services", "view">> \in Holds(r) =>
           {<<"event_services", "update">>, <<"users", "view">>} \subseteq Holds(r)
      /\ <<"operations", "view">> \in Holds(r) => {"tickets", "event_services"} \X {"view"} \subseteq Holds(r)
      /\ <<"knowledge_base", "view">> \in Holds(r) => May("knowledge_base", Crud) \subseteq Holds(r)
      /\ <<"reports", "export">> \in Holds(r) => {<<"projects", "view">>} \subseteq Holds(r)
      /\ <<"users", "create">> \in Holds(r) => INITIAL_PERMISSIONS \subseteq Holds(r)
      /\ <<"system_settings", "view">> \in Holds(r) => INITIAL_PERMISSIONS \subseteq Holds(r)
<1>1. ASSUME NEW r \in {"SuperAdmin", "Admin"} PROVE Extras(r)
  <2>1. Holds(r) = INITIAL_PERMISSIONS
    BY RolesAre
  <2>2. {<<"event_services", "update">>, <<"users", "view">>} \subseteq INITIAL_PERMISSIONS
        /\ {"tickets", "event_services"} \X {"view"} \subseteq INITIAL_PERMISSIONS
        /\ May("knowledge_base", Crud) \subseteq INITIAL_PERMISSIONS
        /\ {<<"projects", "view">>} \subseteq INITIAL_PERMISSIONS
    BY DEF INITIAL_PERMISSIONS, May, Crud
  <2> QED
    BY <2>1, <2>2
<1>2. Extras("Manager")
  BY RolesAre DEF ManagerLacks, INITIAL_PERMISSIONS, May, Crud
<1>3. Extras("Technician")
  BY RolesAre DEF TechnicianHolds, INITIAL_PERMISSIONS, May, Crud
<1>4. ASSUME NEW r \in {"ClientManager", "ClientUser", "Auditor"} PROVE Extras(r)
  BY RolesAre DEF AuditedAreas, May
<1>5. \A r \in Roles : Extras(r)
  BY <1>1, <1>2, <1>3, <1>4, RolesAre DEF Roles
<1> QED
  BY <1>5 DEF Follows

\* With the roles as seeded, a user has what her roles hold; with one permission come others.
LEMMA SeededGrants ==
  ASSUME AsSeeded
  PROVE  Granted = UNION {Holds(r) : r \in userRoles}
  BY DEF AsSeeded, Granted, RolePermissions, Holds

LEMMA GrantedTogether ==
  ASSUME AsSeeded, userRoles \subseteq Roles, NEW p \in Granted, NEW more, Follows(p, more)
  PROVE  more \subseteq Granted
  BY SeededGrants DEF Follows

\* The sidebar and the permission of each page.
LEMMA Sidebar ==
  /\ DOMAIN dashboardNavigation = 1 .. 10 /\ Len(dashboardNavigation) = 10
  /\ dashboardNavigation[1] = [page |-> "dashboard", needs |-> View("tickets")]
  /\ dashboardNavigation[2] = [page |-> "operations", needs |-> View("operations")]
  /\ dashboardNavigation[3] = [page |-> "tickets", needs |-> View("tickets")]
  /\ dashboardNavigation[4] = [page |-> "event-services", needs |-> View("event_services")]
  /\ dashboardNavigation[5] = [page |-> "devices", needs |-> View("devices")]
  /\ dashboardNavigation[6] = [page |-> "reports", needs |-> View("reports")]
  /\ dashboardNavigation[7] = [page |-> "clients", needs |-> View("clients")]
  /\ dashboardNavigation[8] = [page |-> "knowledge-base", needs |-> View("knowledge_base")]
  /\ dashboardNavigation[9] = [page |-> "users", needs |-> <<"users", "create">>]
  /\ dashboardNavigation[10] = [page |-> "settings", needs |-> View("system_settings")]
  BY DEF dashboardNavigation

LEMMA PagesKnown ==
  /\ NavigationPages = {"dashboard", "operations", "tickets", "event-services", "devices", "reports", "clients",
                        "knowledge-base", "users", "settings"}
  /\ AppPages = NavigationPages \cup {"ticket", "external-specialists", "projects", "profile"}
<1>1. NavigationPages = {"dashboard", "operations", "tickets", "event-services", "devices", "reports", "clients",
                         "knowledge-base", "users", "settings"}
  BY Sidebar DEF NavigationPages
<1> QED
  BY <1>1 DEF AppPages, routePermissions

\* A page of the sidebar needs what its entry there needs.
LEMMA PlaceOf ==
  ASSUME NEW i \in 1 .. 10
  PROVE  routePermissions[dashboardNavigation[i].page] = dashboardNavigation[i].needs
<1>1. \A j \in 1 .. 10 : dashboardNavigation[j].page = dashboardNavigation[i].page => j = i
  BY Sidebar
<1>2. NeedsOf(dashboardNavigation[i].page) = i
  BY <1>1, Sidebar DEF NeedsOf
<1>3. dashboardNavigation[i].page \in NavigationPages
  BY Sidebar DEF NavigationPages
<1> QED
  BY <1>2, <1>3, PagesKnown DEF routePermissions

\* What each page needs to be shown.
LEMMA PagesNeed ==
  /\ routePermissions["dashboard"] = View("tickets") /\ routePermissions["operations"] = View("operations")
  /\ routePermissions["tickets"] = View("tickets") /\ routePermissions["event-services"] = View("event_services")
  /\ routePermissions["devices"] = View("devices") /\ routePermissions["reports"] = View("reports")
  /\ routePermissions["clients"] = View("clients") /\ routePermissions["knowledge-base"] = View("knowledge_base")
  /\ routePermissions["users"] = <<"users", "create">> /\ routePermissions["settings"] = View("system_settings")
  /\ routePermissions["ticket"] = View("tickets") /\ routePermissions["projects"] = View("projects")
  /\ routePermissions["external-specialists"] = View("external_specialists")
<1>1. /\ routePermissions["ticket"] = View("tickets") /\ routePermissions["projects"] = View("projects")
      /\ routePermissions["external-specialists"] = View("external_specialists")
  BY PagesKnown DEF routePermissions
<1>2. \A i \in 1 .. 10 : routePermissions[dashboardNavigation[i].page] = dashboardNavigation[i].needs
  BY PlaceOf
<1> QED
  BY <1>1, <1>2, Sidebar

\* The sidebar has a first entry, and shows only pages its permissions show.
Place(e) == e[1]
IsFirst(e, entries) == e \in entries /\ \A o \in entries : Place(e) <= Place(o)
FirstBelow(entries, n) == (\E e \in entries : Place(e) <= n) => \E e \in entries : IsFirst(e, entries)

\* A set of entries with places has a first one.
LEMMA HasFirst ==
  ASSUME NEW entries, entries # {}, \A e \in entries : Place(e) \in 1 .. 23
  PROVE  IsFirst(First(entries), entries)
<1>1. FirstBelow(entries, 0)
  BY DEF FirstBelow
<1>2. ASSUME NEW n \in Nat, FirstBelow(entries, n)
      PROVE  FirstBelow(entries, n + 1)
  <2>1. CASE \E e \in entries : Place(e) <= n
    BY <1>2, <2>1 DEF FirstBelow
  <2>2. CASE ~ \E e \in entries : Place(e) <= n
    BY <2>2 DEF FirstBelow, IsFirst
  <2> QED
    BY <2>1, <2>2
<1>3. FirstBelow(entries, 23)
  BY <1>1, <1>2
<1>4. \E e \in entries : IsFirst(e, entries)
  BY <1>3 DEF FirstBelow
<1> QED
  BY <1>4 DEF IsFirst, First, Place

Entry(e, known) == Place(e) \in 1 .. 23 /\ e[2] \in AppPages /\ Shown(e[2], known)

\* Every entry of the sidebar leads to a page its user may see, and so does the redirect.
LEMMA EntriesShown ==
  ASSUME NEW known, NEW e \in Navigation(known)
  PROVE  Entry(e, known)
<1> DEFINE item == dashboardNavigation
           showing == {i \in DOMAIN item : item[i].page # "users" /\ item[i].needs \in known}
           entries == {<<2 * i, item[i].page>> : i \in showing} \cup {<<2 * Len(item) + 2, "profile">>}
<1>1. ASSUME NEW f \in entries
      PROVE  Entry(f, known) /\ Place(f) < 23
  <2>1. CASE f = <<2 * Len(item) + 2, "profile">>
    BY <2>1, Sidebar, PagesKnown DEF Entry, Place, Shown
  <2>2. ASSUME NEW i \in showing, f = <<2 * i, item[i].page>>
        PROVE  Entry(f, known) /\ Place(f) < 23
    <3>1. i \in 1 .. 10 /\ item[i].needs \in known /\ item[i].page \in NavigationPages
      BY Sidebar DEF NavigationPages
    <3>2. Place(f) = 2 * i /\ f[2] = item[i].page
      BY <2>2 DEF Place
    <3> QED
      BY <3>1, <3>2, PlaceOf, PagesKnown DEF Entry, Shown
  <2> QED
    BY <2>1, <2>2
<1>2. IsFirst(First(entries), entries)
  BY <1>1, HasFirst DEF Entry
<1>3. Place(First(entries)) \in 1 .. 22
  BY <1>1, <1>2 DEF IsFirst, Entry
<1> HIDE DEF entries
<1>4. CASE View("projects") \in known /\ View("operations") \notin known
  <2>1. Navigation(known) = entries \cup {<<First(entries)[1] + 1, "projects">>}
    BY <1>4 DEF Navigation, entries
  <2>2. CASE e = <<First(entries)[1] + 1, "projects">>
    BY <1>3, <1>4, <2>2, PagesKnown, PagesNeed DEF Entry, Place, Shown
  <2> QED
    BY <1>1, <2>1, <2>2
<1>5. CASE ~(View("projects") \in known /\ View("operations") \notin known)
  <2>1. Navigation(known) = entries
    BY <1>5 DEF Navigation, entries
  <2> QED
    BY <1>1, <2>1
<1> QED
  BY <1>4, <1>5

LEMMA FallbackShown ==
  ASSUME NEW known, NEW at
  PROVE  FallbackHref(at, known) \in AppPages /\ Shown(FallbackHref(at, known), known)
<1> DEFINE others == {e \in Navigation(known) : e[2] # at}
<1>1. CASE others = {}
  <2>1. FallbackHref(at, known) = "profile"
    BY <1>1 DEF FallbackHref
  <2> QED
    BY <2>1, PagesKnown DEF Shown
<1>2. CASE others # {}
  <2>1. FallbackHref(at, known) = First(others)[2]
    BY <1>2 DEF FallbackHref
  <2>2. IsFirst(First(others), others)
    BY <1>2, EntriesShown, HasFirst DEF Entry
  <2> QED
    BY <2>1, <2>2, EntriesShown DEF IsFirst, Entry
<1> QED
  BY <1>1, <1>2

\* Who may open the pages of the administration holds every permission.
LEMMA AdministratorsServed ==
  ASSUME AsSeeded, userRoles \subseteq Roles, NEW at \in {"users", "settings"}, Shown(at, Granted),
         NEW route \in DOMAIN RouteNeeds
  PROVE  RouteNeeds[route] \subseteq Granted
<1>1. <<"users", "create">> \in Granted \/ <<"system_settings", "view">> \in Granted
  BY PagesNeed DEF View, Shown
<1>2. INITIAL_PERMISSIONS \subseteq Granted
  BY <1>1, GrantedTogether, HeldTogether
<1> QED
  BY <1>2, Catalogued DEF Claimed, Claim

\* With the roles as seeded, the API serves what a page loads and offers to whom it shows
\* the page and the control.
LEMMA LoadsServed ==
  ASSUME AsSeeded, userRoles \subseteq Roles, NEW at \in AppPages, Shown(at, Granted), NEW route \in PageLoads(at)
  PROVE  RouteNeeds[route] \subseteq Granted
<1> USE DEF Needed, May
<1>0. at # "profile" => routePermissions[at] \in Granted
  BY DEF Shown
<1>1. CASE at \in {"dashboard", "tickets", "ticket"}
  <2>1. <<"tickets", "view">> \in Granted
    BY <1>0, <1>1, PagesNeed DEF View
  <2>2. route \in {"GET"} \X {"tickets", "tickets/views", "tickets/statistics", "tickets/:id"}
                  \cup {"GET"} \X {"auth/me", "profile"}
    BY <1>1 DEF PageLoads, DashboardLoads, TicketsLoads, TicketLoads
  <2> QED
    BY <2>1, <2>2, TicketRoutesNeed, OtherRoutesNeed
<1>2. CASE at = "operations"
  <2>1. <<"operations", "view">> \in Granted
    BY <1>0, <1>2, PagesNeed DEF View
  <2>2. {"tickets", "event_services"} \X {"view"} \subseteq Granted
    BY <2>1, GrantedTogether, HeldTogether
  <2>3. route \in {"GET"} \X {"operations/overview"}
    BY <1>2 DEF PageLoads, OperationsLoads
  <2> QED
    BY <2>1, <2>2, <2>3, OtherRoutesNeed
<1>3. CASE at = "event-services"
  <2>1. <<"event_services", "view">> \in Granted
    BY <1>0, <1>3, PagesNeed DEF View
  <2>2. <<"users", "view">> \in Granted
    BY <2>1, GrantedTogether, HeldTogether
  <2>3. route \in {"GET"} \X {"event-services", "event-services/my-tasks", "event-services/services"}
                  \cup {"GET"} \X {"users"}
    BY <1>3 DEF PageLoads, EventServicesLoads
  <2> QED
    BY <2>1, <2>2, <2>3, EventRoutesNeed, OtherRoutesNeed
<1>4. CASE at \in {"devices", "reports", "clients", "projects", "external-specialists"}
  <2>1. /\ at = "devices" => <<"devices", "view">> \in Granted
        /\ at = "reports" => <<"reports", "view">> \in Granted
        /\ at = "clients" => <<"clients", "view">> \in Granted
        /\ at = "projects" => <<"projects", "view">> \in Granted
        /\ at = "external-specialists" => <<"external_specialists", "view">> \in Granted
    BY <1>0, <1>4, PagesNeed DEF View
  <2>2. \/ at = "devices" /\ route \in {"GET"} \X {"devices"}
        \/ at = "reports" /\ route \in {"GET"} \X {"reports/summary"}
        \/ at = "clients" /\ route \in {"GET"} \X {"clients"}
        \/ at = "projects" /\ route \in {"GET"} \X {"projects"}
        \/ at = "external-specialists" /\ route \in {"GET"} \X {"external-specialists"}
    BY <1>4 DEF PageLoads, DevicesLoads, ReportsLoads, ClientsLoads, ProjectsLoads, SpecialistsLoads
  <2>3. /\ Needed({"GET"} \X {"devices"}, {<<"devices", "view">>})
        /\ Needed({"GET"} \X {"reports/summary"}, {<<"reports", "view">>})
        /\ Needed({"GET"} \X {"clients"}, {<<"clients", "view">>})
        /\ Needed({"GET"} \X {"projects"}, {<<"projects", "view">>})
        /\ Needed({"GET"} \X {"external-specialists"}, {<<"external_specialists", "view">>})
    BY ProjectRoutesNeed, OtherRoutesNeed
  <2>4. /\ at = "devices" => RouteNeeds[route] \subseteq {<<"devices", "view">>}
        /\ at = "reports" => RouteNeeds[route] \subseteq {<<"reports", "view">>}
        /\ at = "clients" => RouteNeeds[route] \subseteq {<<"clients", "view">>}
        /\ at = "projects" => RouteNeeds[route] \subseteq {<<"projects", "view">>}
        /\ at = "external-specialists" => RouteNeeds[route] \subseteq {<<"external_specialists", "view">>}
    BY <2>2, <2>3
  <2> QED
    BY <1>4, <2>1, <2>4
<1>5. CASE at = "knowledge-base"
  <2>1. <<"knowledge_base", "view">> \in Granted
    BY <1>0, <1>5, PagesNeed DEF View
  <2>2. route \in {"GET"} \X {"knowledge-base/articles", "knowledge-base/categories"}
    BY <1>5 DEF PageLoads, KnowledgeLoads
  <2> QED
    BY <2>1, <2>2, ArticleRoutesNeed
<1>6. CASE at = "profile"
  <2>1. route \in {"GET"} \X {"auth/me", "profile"}
    BY <1>6 DEF PageLoads, ProfileLoads
  <2> QED
    BY <2>1, OtherRoutesNeed
<1>7. CASE at \in {"users", "settings"}
  <2>1. route \in DOMAIN RouteNeeds
    BY <1>7, RoutesExist DEF PageLoads, UsersLoads, SettingsLoads
  <2> QED
    BY <1>7, <2>1, AdministratorsServed
<1> QED
  BY <1>1, <1>2, <1>3, <1>4, <1>5, <1>6, <1>7, PagesKnown

\* What the offers of all pages need at most.
LEMMA TicketOffersNeed ==
  /\ Needed({"POST"} \X {"tickets"}, May("tickets", {"create"}))
  /\ Needed({"POST", "PATCH", "DELETE"} \X {"tickets/views"}, May("tickets", {"view"}))
  /\ Needed(TicketChanges, May("tickets", TicketVerbs))
  /\ Needed({"POST"} \X {"tickets/:id/attachments"}, May("ticket_attachments", {"upload"}))
  /\ Needed({"DELETE"} \X {"tickets/:id/attachments"}, May("ticket_attachments", {"delete"}))
  /\ Needed({"GET"} \X {"tickets/:id/attachments/download-all", "tickets/:id/attachments/:file/download"},
            May("ticket_attachments", {"download"}))
  /\ Needed({"GET"} \X {"tickets/:id/attachments/:file/preview"}, May("ticket_attachments", {"view"}))
  /\ Needed({"POST"} \X {"tickets/:id/ai/draft"}, Drafting)
  /\ Needed(BriefCalls, Briefing)
<1>1. \A route \in DOMAIN RouteNeeds : TicketOffers(route, RouteNeeds[route])
  BY RoutesOffered DEF Claimed, Claim, Offering
<1>2. /\ {"POST"} \X {"tickets"} \cup {"POST", "PATCH", "DELETE"} \X {"tickets/views"} \subseteq DOMAIN TicketsController
      /\ TicketChanges \subseteq DOMAIN TicketsController
  BY DEF TicketsController, Needs, Together, Read, TicketChanges
<1>3. {"POST", "DELETE"} \X {"tickets/:id/attachments"}
      \cup {"GET"} \X {"tickets/:id/attachments/download-all", "tickets/:id/attachments/:file/download",
                       "tickets/:id/attachments/:file/preview"} \subseteq DOMAIN TicketAttachmentsController
  BY DEF TicketAttachmentsController, Needs, Together, Read
<1>4. {"POST"} \X {"tickets/:id/ai/draft"} \cup BriefCalls \subseteq DOMAIN AiAssistantController
  BY DEF AiAssistantController, Needs, Together, Read, BriefCalls
<1>5. /\ DOMAIN TicketAttachmentsController \subseteq DOMAIN RouteNeeds
      /\ DOMAIN AiAssistantController \subseteq DOMAIN RouteNeeds
  BY RoutesOf DEF RouteNeeds
<1> QED
  BY <1>1, <1>2, <1>3, <1>4, <1>5, Controllers DEF TicketOffers, AtMost, Needed

LEMMA AreaOffersNeed ==
  /\ Needed({"POST", "PATCH", "DELETE"} \X ClientPaths, ClientAreas \X Crud)
  /\ Needed({"POST", "PATCH", "DELETE"} \X {"devices/views"} \cup {"PUT", "DELETE"} \X {"devices/:id/favorite"},
            May("devices", {"view"}))
  /\ Needed(RemoteCalls, May("remote_access", {"connect", "configure"}))
  /\ Needed(ReportCalls, May("reports", {"manage", "export", "send"}))
  /\ Needed({"PUT"} \X {"dashboard/preferences"}, May("tickets", {"view"}))
  /\ Needed({"GET", "POST", "PATCH", "DELETE"} \X {"external-specialists"},
            May("external_specialists", {"view", "manage"}))
  /\ Needed({"POST"} \X {"event-services/:id/ai/draft"}, May("ai_assistant", {"use"}))
<1>1. \A route \in DOMAIN RouteNeeds : AreaOffers(route, RouteNeeds[route])
  BY RoutesOffered DEF Claimed, Claim, Offering
<1>2. {"POST", "PATCH", "DELETE"} \X ClientPaths
        \subseteq DOMAIN ClientsController \cup DOMAIN ContactsController \cup DOMAIN ClientDomainsController
  <2>1. /\ {"POST", "PATCH", "DELETE"} \X {"clients"} \subseteq DOMAIN ClientsController
        /\ {"POST", "PATCH", "DELETE"} \X {"contacts"} \subseteq DOMAIN ContactsController
    BY DEF ClientsController, ContactsController, Table, Needs, Together
  <2>2. {"POST", "PATCH", "DELETE"} \X {"client-domains"} \subseteq DOMAIN ClientDomainsController
    BY DEF ClientDomainsController, Table, Needs, Together
  <2> QED
    BY <2>1, <2>2 DEF ClientPaths
<1>3. /\ {"POST", "PATCH", "DELETE"} \X {"devices/views"} \cup {"PUT", "DELETE"} \X {"devices/:id/favorite"}
           \cup {"POST"} \X {"devices/rmm-sync", "devices/:id/rmm-details/refresh"} \subseteq DOMAIN DevicesController
      /\ {"POST"} \X {"devices/:id/remote-access/connection-attempts"} \subseteq DOMAIN RemoteAccessController
  BY DEF DevicesController, RemoteAccessController, Needs, Together
<1>4. RemoteCalls \subseteq DOMAIN DevicesController \cup DOMAIN RemoteAccessController
  BY <1>3 DEF RemoteCalls
<1>5. ReportCalls \subseteq DOMAIN ReportsController
  BY DEF ReportsController, Needs, Together, Read, ReportCalls
<1>6. {"PUT"} \X {"dashboard/preferences"} \subseteq DOMAIN DashboardController
  BY DEF DashboardController, Needs, Together
<1>7. {"GET", "POST", "PATCH", "DELETE"} \X {"external-specialists"} \subseteq DOMAIN ExternalSpecialistsController
  BY DEF ExternalSpecialistsController, Needs, Together, Read
<1>8. {"POST"} \X {"event-services/:id/ai/draft"} \subseteq DOMAIN EventAiController
  BY DEF EventAiController, Needs
<1>9. /\ DOMAIN ContactsController \subseteq DOMAIN RouteNeeds /\ DOMAIN RemoteAccessController \subseteq DOMAIN RouteNeeds
      /\ DOMAIN DashboardController \subseteq DOMAIN RouteNeeds /\ DOMAIN EventAiController \subseteq DOMAIN RouteNeeds
  BY RoutesOf DEF RouteNeeds
<1>10. \A route \in {"POST", "PATCH", "DELETE"} \X ClientPaths : RouteNeeds[route] \subseteq ClientAreas \X Crud
  BY <1>1, <1>2, <1>9, Controllers DEF AreaOffers
<1>11. \A route \in {"GET", "POST", "PATCH", "DELETE"} \X {"external-specialists"} :
         RouteNeeds[route] \subseteq May("external_specialists", {"view", "manage"})
  BY <1>1, <1>7, Controllers DEF AreaOffers
<1> QED
  BY <1>1, <1>3, <1>4, <1>5, <1>6, <1>8, <1>9, <1>10, <1>11, Controllers DEF AreaOffers, AtMost, Needed

LEMMA ProjectOffersNeed ==
  /\ Needed({"POST"} \X {"projects/templates/apply"}, May("projects", {"create"}))
  /\ Needed({"POST", "PATCH"} \X {"projects/:id/decisions"} \cup {"PATCH", "DELETE"} \X {"projects/:id/milestones"}
            \cup {"DELETE"} \X {"projects/:id/work-items"} \cup {"POST", "DELETE"} \X {"projects/:id/dependencies"},
            May("projects", {"update"}))
  /\ Needed({"DELETE"} \X {"projects/templates"}, May("projects", {"delete"}))
<1>1. \A route \in DOMAIN RouteNeeds : ProjectOffers(route, RouteNeeds[route])
  BY RoutesOffered DEF Claimed, Claim, Offering
<1>2. /\ {"POST"} \X {"projects/templates/apply"} \subseteq DOMAIN ProjectsController
      /\ {"POST", "PATCH"} \X {"projects/:id/decisions"} \cup {"PATCH", "DELETE"} \X {"projects/:id/milestones"}
         \cup {"DELETE"} \X {"projects/:id/work-items"} \cup {"POST", "DELETE"} \X {"projects/:id/dependencies"}
           \subseteq DOMAIN ProjectsController
      /\ {"DELETE"} \X {"projects/templates"} \subseteq DOMAIN ProjectsController
  BY DEF ProjectsController, Needs, Together, Read
<1> QED
  BY <1>1, <1>2, Controllers DEF ProjectOffers, AtMost, Needed

\* Every route of the profile asks for nothing.
LEMMA ProfileNeeds ==
  Needed(DOMAIN ProfileController \cup {<<"PATCH", "notification-preferences/me">>}, {})
<1>1. ASSUME NEW route \in DOMAIN ProfileController
      PROVE  route[2] \in ProfilePaths
  BY DEF ProfileController, Needs, Together, ProfilePaths
<1>2. <<"PATCH", "notification-preferences/me">> \in DOMAIN NotificationsController
  BY DEF NotificationsController, Needs, Together
<1>3. \A route \in DOMAIN RouteNeeds : AreaOffers(route, RouteNeeds[route])
  BY RoutesOffered DEF Claimed, Claim, Offering
<1> QED
  BY <1>1, <1>2, <1>3, Controllers DEF AreaOffers, Needed, ProfilePaths

\* What the roles hold of what those offers need.
HoldsOffers(r) ==
  /\ <<"tickets", "view">> \in Holds(r)
  /\ r # "Auditor" => <<"tickets", "create">> \in Holds(r)
  /\ r \notin {"ClientUser", "Auditor"} => May("tickets", TicketVerbs) \subseteq Holds(r)
  /\ r \notin {"ClientManager", "ClientUser", "Auditor"} =>
       <<"ai_assistant", "use">> \in Holds(r)
       /\ May("ticket_attachments", {"view", "upload", "download", "delete"}) \subseteq Holds(r)
  /\ r = "ClientUser" => May("ticket_attachments", {"view", "upload", "download"}) \subseteq Holds(r)
  /\ r = "Auditor" => <<"ticket_attachments", "view">> \in Holds(r)
  /\ <<"clients", "view">> \in Holds(r) /\ r \notin {"Technician", "Auditor"} => ClientAreas \X Crud \subseteq Holds(r)
  /\ <<"devices", "view">> \in Holds(r) /\ r \notin {"Technician", "Auditor"} =>
       May("remote_access", {"connect", "configure"}) \subseteq Holds(r)
  /\ <<"reports", "view">> \in Holds(r) /\ r # "Auditor" =>
       May("reports", {"manage", "export", "send"}) \subseteq Holds(r)
  /\ <<"external_specialists", "view">> \in Holds(r) => <<"external_specialists", "manage">> \in Holds(r)
  /\ <<"event_services", "view">> \in Holds(r) =>
       {<<"external_specialists", "view">>, <<"external_specialists", "manage">>, <<"ai_assistant", "use">>}
         \subseteq Holds(r)
  /\ <<"tickets", "update">> \in Holds(r) /\ r # "ClientManager" =>
       May("external_specialists", {"view", "manage"}) \subseteq Holds(r)

LEMMA RolesHoldOffers ==
  ASSUME NEW r \in Roles
  PROVE  HoldsOffers(r)
<1>1. CASE r \in Administrators
  <2>1. Holds(r) = INITIAL_PERMISSIONS
    BY <1>1, RolesAre DEF Administrators
  <2>2. /\ May("tickets", TicketVerbs \cup {"create"}) \subseteq INITIAL_PERMISSIONS
        /\ May("ticket_attachments", {"view", "upload", "download", "delete"}) \subseteq INITIAL_PERMISSIONS
        /\ ClientAreas \X Crud \subseteq INITIAL_PERMISSIONS
        /\ May("remote_access", {"connect", "configure"}) \subseteq INITIAL_PERMISSIONS
        /\ May("reports", {"manage", "export", "send"}) \subseteq INITIAL_PERMISSIONS
        /\ May("external_specialists", {"view", "manage"}) \subseteq INITIAL_PERMISSIONS
        /\ <<"ai_assistant", "use">> \in INITIAL_PERMISSIONS
    BY DEF INITIAL_PERMISSIONS, May, Crud, TicketVerbs, ClientAreas
  <2> QED
    BY <1>1, <2>1, <2>2 DEF HoldsOffers, Administrators, May, TicketVerbs
<1>2. CASE r = "Manager"
  <2>1. /\ May("tickets", TicketVerbs \cup {"create"}) \subseteq Holds(r)
        /\ May("ticket_attachments", {"view", "upload", "download", "delete"}) \subseteq Holds(r)
        /\ ClientAreas \X Crud \subseteq Holds(r)
        /\ May("remote_access", {"connect", "configure"}) \subseteq Holds(r)
        /\ May("reports", {"manage", "export", "send"}) \subseteq Holds(r)
        /\ May("external_specialists", {"view", "manage"}) \subseteq Holds(r)
        /\ <<"ai_assistant", "use">> \in Holds(r)
    BY <1>2, RolesAre DEF ManagerLacks, INITIAL_PERMISSIONS, May, Crud, TicketVerbs, ClientAreas
  <2> QED
    BY <1>2, <2>1 DEF HoldsOffers, May, TicketVerbs
<1>3. CASE r = "Technician"
  <2>1. /\ May("tickets", TicketVerbs \cup {"create"}) \subseteq Holds(r)
        /\ May("ticket_attachments", {"view", "upload", "download", "delete"}) \subseteq Holds(r)
        /\ May("external_specialists", {"view", "manage"}) \subseteq Holds(r)
        /\ <<"ai_assistant", "use">> \in Holds(r)
        /\ <<"reports", "view">> \notin Holds(r)
    BY <1>3, RolesAre DEF TechnicianHolds, INITIAL_PERMISSIONS, May, Crud, TicketVerbs
  <2> QED
    BY <1>3, <2>1 DEF HoldsOffers, May, TicketVerbs
<1>4. CASE r = "ClientManager"
  <2>1. /\ May("tickets", TicketVerbs \cup {"create"}) \subseteq Holds(r)
        /\ ClientAreas \X Crud \subseteq Holds(r)
        /\ {<<"devices", "view">>, <<"reports", "view">>, <<"external_specialists", "view">>,
            <<"event_services", "view">>} \cap Holds(r) = {}
    BY <1>4, RolesAre DEF INITIAL_PERMISSIONS, May, Crud, TicketVerbs, ClientAreas
  <2> QED
    BY <1>4, <2>1 DEF HoldsOffers, May, TicketVerbs
<1>5. CASE r \in {"ClientUser", "Auditor"}
  BY <1>5, RolesAre DEF HoldsOffers, May, AuditedAreas
<1> QED
  BY <1>1, <1>2, <1>3, <1>4, <1>5, RolesAre DEF Roles, Administrators

\* A role that is shown a control that asks no permission may use it, or it is one of those
\* the role is refused.
RoleServed(at, r, control) ==
  RouteNeeds[control.route] \cup control.fields \subseteq Holds(r) \/ control \in RefusedTo(r, at)
Free(at, r, controls) == \A control \in controls : RoleServed(at, r, control)

\* Controls without fields are served to who holds what their routes need.
LEMMA UngatedFree ==
  ASSUME NEW at, NEW r, NEW routes, NEW most, Needed(routes, most), most \subseteq Holds(r)
  PROVE  Free(at, r, Ungated(routes))
<1> SUFFICES ASSUME NEW route \in routes
             PROVE  RoleServed(at, r, Control({}, route))
  BY DEF Free, Ungated
<1>1. RouteNeeds[route] \subseteq Holds(r)
  BY DEF Needed
<1>2. Control({}, route).route = route /\ Control({}, route).fields = {}
  BY DEF Control, FieldControl
<1> QED
  BY <1>1, <1>2 DEF RoleServed

LEMMA RefusedFree ==
  ASSUME NEW at, NEW r, NEW controls, controls \subseteq RefusedTo(r, at)
  PROVE  Free(at, r, controls)
  BY DEF Free, RoleServed

\* The ticket list: what a role may not do there it is refused alone.
LEMMA TicketEditsFree ==
  ASSUME NEW r \in Roles, r \notin {"ClientUser", "Auditor"}
  PROVE  Free("tickets", r, TicketEdits)
<1>1. May("tickets", TicketVerbs) \subseteq Holds(r)
  BY RolesHoldOffers DEF HoldsOffers
<1>2. \A route \in TicketChanges : RouteNeeds[route] \subseteq Holds(r)
  BY <1>1, TicketOffersNeed DEF Needed
<1> SUFFICES ASSUME NEW control \in TicketEdits
             PROVE  RouteNeeds[control.route] \cup control.fields \subseteq Holds(r)
  BY DEF Free, RoleServed
<1>3. control.route \in TicketChanges
  BY DEF TicketEdits, Ungated, Control, FieldControl, TicketChanges
<1>4. control.fields \subseteq May("tickets", TicketVerbs)
  BY DEF TicketEdits, Ungated, Control, FieldControl, May, TicketVerbs
<1> QED
  BY <1>1, <1>2, <1>3, <1>4

LEMMA TicketListFree ==
  ASSUME NEW r \in Roles
  PROVE  Free("tickets", r, TicketsControls)
<1> DEFINE views == Ungated({"POST", "PATCH", "DELETE"} \X {"tickets/views"})
<1>1. HoldsOffers(r)
  BY RolesHoldOffers
<1>2. Free("tickets", r, views)
  <2>1. May("tickets", {"view"}) \subseteq Holds(r)
    BY <1>1 DEF HoldsOffers, May
  <2> QED
    BY <2>1, TicketOffersNeed, UngatedFree
<1>3. Free("tickets", r, NewTickets)
  <2>1. CASE r = "Auditor"
    BY <2>1, RefusedFree DEF RefusedTo
  <2>2. CASE r # "Auditor"
    <3>1. May("tickets", {"create"}) \subseteq Holds(r)
      BY <1>1, <2>2 DEF HoldsOffers, May
    <3> QED
      BY <3>1, TicketOffersNeed, UngatedFree DEF NewTickets
  <2> QED
    BY <2>1, <2>2
<1>4. Free("tickets", r, TicketEdits)
  <2>1. CASE r \in {"ClientUser", "Auditor"}
    BY <2>1, RefusedFree DEF RefusedTo
  <2> QED
    BY <2>1, TicketEditsFree
<1> QED
  BY <1>2, <1>3, <1>4 DEF Free, TicketsControls

\* The ticket page: the composer, the drafts and the files.
TicketFree ==
  ReplyControls \cup DraftControls \cup UploadControls \cup FileDeletions \cup FileDownloads \cup FilePreviews

LEMMA TicketPageFree ==
  ASSUME NEW r \in Roles
  PROVE  Free("ticket", r, TicketFree)
<1>1. HoldsOffers(r)
  BY RolesHoldOffers
<1>2. Free("ticket", r, ReplyControls)
  <2>1. CASE r \in {"ClientUser", "Auditor"}
    BY <2>1, RefusedFree DEF RefusedTo
  <2>2. CASE r \notin {"ClientUser", "Auditor"}
    <3>1. May("tickets", TicketVerbs) \subseteq Holds(r)
      BY <1>1, <2>2 DEF HoldsOffers
    <3>2. Needed({"POST"} \X {"tickets/:id/messages", "tickets/:id/close"}, May("tickets", TicketVerbs))
      BY TicketOffersNeed DEF Needed, TicketChanges
    <3> QED
      BY <3>1, <3>2, UngatedFree DEF ReplyControls
  <2> QED
    BY <2>1, <2>2
<1>3. CASE r \in {"ClientManager", "ClientUser", "Auditor"}
  <2>1. Free("ticket", r, DraftControls)
    BY <1>3, RefusedFree DEF RefusedTo
  <2>2. Free("ticket", r, FileDeletions)
    BY <1>3, RefusedFree DEF RefusedTo
  <2>3. Free("ticket", r, UploadControls) /\ Free("ticket", r, FileDownloads) /\ Free("ticket", r, FilePreviews)
    <3>1. CASE r = "ClientManager"
      BY <3>1, RefusedFree DEF RefusedTo
    <3>2. CASE r = "ClientUser"
      <4>1. /\ May("ticket_attachments", {"upload"}) \subseteq Holds(r)
            /\ May("ticket_attachments", {"download"}) \subseteq Holds(r)
            /\ May("ticket_attachments", {"view"}) \subseteq Holds(r)
        BY <1>1, <3>2 DEF HoldsOffers, May
      <4> QED
        BY <4>1, TicketOffersNeed, UngatedFree DEF UploadControls, FileDownloads, FilePreviews
    <3>3. CASE r = "Auditor"
      <4>1. May("ticket_attachments", {"view"}) \subseteq Holds(r)
        BY <1>1, <3>3 DEF HoldsOffers, May
      <4>2. Free("ticket", r, FilePreviews)
        BY <4>1, TicketOffersNeed, UngatedFree DEF FilePreviews
      <4> QED
        BY <3>3, <4>2, RefusedFree DEF RefusedTo
    <3> QED
      BY <1>3, <3>1, <3>2, <3>3
  <2> QED
    BY <1>2, <2>1, <2>2, <2>3 DEF Free, TicketFree
<1>4. CASE r \notin {"ClientManager", "ClientUser", "Auditor"}
  <2>1. /\ May("ticket_attachments", {"upload"}) \subseteq Holds(r)
        /\ May("ticket_attachments", {"download"}) \subseteq Holds(r)
        /\ May("ticket_attachments", {"view"}) \subseteq Holds(r)
        /\ May("ticket_attachments", {"delete"}) \subseteq Holds(r)
    BY <1>1, <1>4 DEF HoldsOffers, May
  <2>2. Free("ticket", r, UploadControls) /\ Free("ticket", r, FileDownloads) /\ Free("ticket", r, FilePreviews) /\ Free("ticket", r, FileDeletions)
    BY <2>1, TicketOffersNeed, UngatedFree DEF UploadControls, FileDownloads, FilePreviews, FileDeletions
  <2>3. Drafting \subseteq Holds(r)
    BY <1>1, <1>4 DEF HoldsOffers, Drafting, May, TicketVerbs
  <2>4. Free("ticket", r, DraftControls)
    BY <2>3, TicketOffersNeed, UngatedFree DEF DraftControls
  <2> QED
    BY <1>2, <2>2, <2>4 DEF Free, TicketFree
<1> QED
  BY <1>3, <1>4

LEMMA NewSpecialistsFree ==
  ASSUME NEW r \in Roles, <<"tickets", "update">> \in Holds(r)
  PROVE  Free("ticket", r, NewSpecialists)
<1>1. CASE r = "ClientManager"
  BY <1>1, RefusedFree DEF RefusedTo
<1>2. CASE r # "ClientManager"
  <2>1. May("external_specialists", {"view", "manage"}) \subseteq Holds(r)
    BY <1>2, RolesHoldOffers DEF HoldsOffers
  <2>2. RouteNeeds[<<"POST", "external-specialists">>] \subseteq Holds(r)
    BY <2>1, AreaOffersNeed DEF Needed
  <2> QED
    BY <2>2 DEF Free, RoleServed, NewSpecialists, Control, FieldControl
<1> QED
  BY <1>1, <1>2

\* The pages of the clients, the devices and the reports.
LEMMA ClientsFree ==
  ASSUME NEW r \in Roles, <<"clients", "view">> \in Holds(r)
  PROVE  Free("clients", r, ClientEdits)
<1>1. CASE r \in {"Technician", "Auditor"}
  BY <1>1, RefusedFree DEF RefusedTo
<1>2. CASE r \notin {"Technician", "Auditor"}
  <2>1. ClientAreas \X Crud \subseteq Holds(r)
    BY <1>2, RolesHoldOffers DEF HoldsOffers
  <2>2. ClientEdits = Ungated({"POST", "PATCH", "DELETE"} \X ClientPaths)
    BY DEF ClientEdits, ClientPaths
  <2> QED
    BY <2>1, <2>2, AreaOffersNeed, UngatedFree
<1> QED
  BY <1>1, <1>2

LEMMA DevicesFree ==
  ASSUME NEW r \in Roles, <<"devices", "view">> \in Holds(r)
  PROVE  Free("devices", r, DeviceListControls)
<1> DEFINE own == {"POST", "PATCH", "DELETE"} \X {"devices/views"} \cup {"PUT", "DELETE"} \X {"devices/:id/favorite"}
<1>1. May("devices", {"view"}) \subseteq Holds(r)
  BY DEF May
<1>2. Free("devices", r, Ungated(own))
  BY <1>1, AreaOffersNeed, UngatedFree
<1>3. CASE r \in {"Technician", "Auditor"}
  <2>1. Free("devices", r, RemoteControls)
    BY <1>3, RefusedFree DEF RefusedTo
  <2> QED
    BY <1>2, <2>1 DEF Free, DeviceListControls
<1>4. CASE r \notin {"Technician", "Auditor"}
  <2>1. May("remote_access", {"connect", "configure"}) \subseteq Holds(r)
    BY <1>4, RolesHoldOffers DEF HoldsOffers
  <2>2. Free("devices", r, Ungated({"POST"} \X {"devices/rmm-sync", "devices/:id/rmm-details/refresh",
                                     "devices/:id/remote-access/connection-attempts"}))
    BY <2>1, AreaOffersNeed, UngatedFree DEF RemoteCalls
  <2>3. ASSUME NEW method \in {"POST", "PATCH"}
        PROVE  RoleServed("devices", r, FieldControl({}, <<method, "devices/views">>, May("remote_access", {"configure"})))
    <3>1. RouteNeeds[<<method, "devices/views">>] \subseteq Holds(r)
      BY <1>1, AreaOffersNeed DEF Needed
    <3>2. May("remote_access", {"configure"}) \subseteq Holds(r)
      BY <2>1 DEF May
    <3> QED
      BY <3>1, <3>2 DEF RoleServed, FieldControl
  <2>4. Free("devices", r, RemoteControls)
    BY <2>2, <2>3 DEF Free, RemoteControls
  <2> QED
    BY <1>2, <2>4 DEF Free, DeviceListControls
<1> QED
  BY <1>3, <1>4

LEMMA ReportsFree ==
  ASSUME NEW r \in Roles, <<"reports", "view">> \in Holds(r)
  PROVE  Free("reports", r, ReportEdits)
<1>1. CASE r = "Auditor"
  BY <1>1, RefusedFree DEF RefusedTo
<1>2. CASE r # "Auditor"
  <2>1. May("reports", {"manage", "export", "send"}) \subseteq Holds(r)
    BY <1>2, RolesHoldOffers DEF HoldsOffers
  <2>2. ReportEdits = Ungated(ReportCalls)
    BY DEF ReportEdits, ReportCalls
  <2> QED
    BY <2>1, <2>2, AreaOffersNeed, UngatedFree
<1> QED
  BY <1>1, <1>2

\* The pages that show all their controls to whoever may open them.
LEMMA EventsFree ==
  ASSUME NEW r \in Roles, <<"event_services", "view">> \in Holds(r)
  PROVE  Free("event-services", r, EventServicesControls)
<1>1. {<<"event_services", "view">>, <<"event_services", "update">>, <<"ai_assistant", "use">>,
       <<"external_specialists", "view">>, <<"external_specialists", "manage">>} \subseteq Holds(r)
  BY RolesHoldOffers, HeldTogether DEF HoldsOffers, Follows
<1> DEFINE routes == DOMAIN EventListController \cup DOMAIN EventRequestController \cup DOMAIN EventAiController
                     \cup {<<"POST", "external-specialists">>}
<1>2. DOMAIN EventAiController = {"POST"} \X {"event-services/:id/ai/draft"}
  BY DEF EventAiController, Needs
<1>3. Needed(routes, Holds(r))
  BY <1>1, <1>2, EventsNeed, AreaOffersNeed DEF Needed, May
<1> QED
  BY <1>3, UngatedFree DEF EventServicesControls

LEMMA ArticlesFree ==
  ASSUME NEW r \in Roles, <<"knowledge_base", "view">> \in Holds(r)
  PROVE  Free("knowledge-base", r, KnowledgeControls)
<1>1. May("knowledge_base", Crud) \subseteq Holds(r)
  BY HeldTogether DEF Follows
<1> DEFINE imports == {<<"GET", "knowledge-base/import/onenote">>}
                      \cup {"POST"} \X {"knowledge-base/import/pdf", "knowledge-base/import/onenote",
                                        "knowledge-base/import/commit"}
<1>2. imports \subseteq DOMAIN KnowledgeImportController
  BY DEF KnowledgeImportController, Needs, Together, Read
<1>3. DOMAIN KnowledgeImportController \subseteq DOMAIN RouteNeeds
  BY RoutesOf DEF RouteNeeds
<1>4. \A route \in DOMAIN RouteNeeds : KnowledgeServed(route, RouteNeeds[route])
  BY RoutesServed DEF Claimed, Claim, Served
<1>5. \A route \in imports : route[2] \in KnowledgePaths
  BY DEF KnowledgePaths
<1>6. Needed(imports, May("knowledge_base", Crud))
  BY <1>2, <1>3, <1>4, <1>5 DEF Needed, KnowledgeServed
<1>7. Needed(DOMAIN KnowledgeController \cup imports, May("knowledge_base", Crud))
  BY <1>6, KnowledgeNeeds DEF Needed
<1> HIDE DEF imports
<1>8. Free("knowledge-base", r, Ungated(DOMAIN KnowledgeController \cup imports))
  BY <1>1, <1>7, UngatedFree
<1> QED
  BY <1>8 DEF KnowledgeControls, imports

LEMMA SpecialistsFree ==
  ASSUME NEW r \in Roles, <<"external_specialists", "view">> \in Holds(r)
  PROVE  Free("external-specialists", r, SpecialistsControls)
<1>1. May("external_specialists", {"view", "manage"}) \subseteq Holds(r)
  BY RolesHoldOffers DEF HoldsOffers, May
<1>2. DOMAIN ExternalSpecialistsController \subseteq {"GET", "POST", "PATCH", "DELETE"} \X {"external-specialists"}
  BY DEF ExternalSpecialistsController, Needs, Together, Read
<1>3. Needed(DOMAIN ExternalSpecialistsController, May("external_specialists", {"view", "manage"}))
  BY <1>2, AreaOffersNeed DEF Needed
<1> QED
  BY <1>1, <1>3, UngatedFree DEF SpecialistsControls

LEMMA DashboardFree ==
  ASSUME NEW r \in Roles
  PROVE  Free("dashboard", r, DashboardControls)
<1>1. May("tickets", {"view"}) \subseteq Holds(r)
  BY RolesHoldOffers DEF HoldsOffers, May
<1>2. {"PUT"} \X {"dashboard/preferences"} = {<<"PUT", "dashboard/preferences">>}
  OBVIOUS
<1> QED
  BY <1>1, <1>2, AreaOffersNeed, UngatedFree DEF DashboardControls

\* Who may open the pages of the administration holds every permission.
LEMMA AdministrationFree ==
  ASSUME NEW r \in Roles, <<"users", "create">> \in Holds(r) \/ <<"system_settings", "view">> \in Holds(r)
  PROVE  Free("users", r, UsersControls) /\ Free("settings", r, SettingsControls)
<1>1. INITIAL_PERMISSIONS \subseteq Holds(r)
  BY HeldTogether DEF Follows
<1>2. Needed(DOMAIN RouteNeeds, INITIAL_PERMISSIONS)
  BY Catalogued DEF Claimed, Claim, Needed
<1>3. ASSUME NEW at, NEW routes, routes \subseteq DOMAIN RouteNeeds
      PROVE  Free(at, r, Ungated(routes))
  <2>1. Needed(routes, INITIAL_PERMISSIONS)
    BY <1>2, <1>3 DEF Needed
  <2> QED
    BY <1>1, <2>1, UngatedFree
<1>4. Free("users", r, UsersControls)
  BY <1>3, Controllers DEF UsersControls
<1> DEFINE others == {<<"POST", "client-domains/unmapped/:id/associate">>}
                     \cup {<<"PATCH", "notification-preferences/users">>, <<"POST", "devices/rmm-sync">>}
                     \cup {"GET", "PATCH"} \X {"devices/rmm-settings"}
                     \cup {"GET", "PATCH", "POST", "DELETE"} \X {"knowledge-base/config/onenote"}
           tables == DOMAIN SystemSettingsController \cup DOMAIN MailboxesController \cup DOMAIN MaintenanceController
     \cup DOMAIN SpamController \cup DOMAIN AiConfigController \cup DOMAIN TicketRoutingController
     \cup DOMAIN TicketTeamsController \cup DOMAIN AutoRepliesController \cup DOMAIN SupportPortalController
     \cup DOMAIN TicketWorkflowController \cup DOMAIN EventConfigController \cup DOMAIN SystemHealthController
     \cup DOMAIN ExternalSpecialistsController
<1>5. others \subseteq DOMAIN RouteNeeds
  <2>1. <<"POST", "client-domains/unmapped/:id/associate">> \in DOMAIN ClientDomainsController
    BY DEF ClientDomainsController, Table, Needs, Together
  <2>2. <<"PATCH", "notification-preferences/users">> \in DOMAIN NotificationsController
    BY DEF NotificationsController, Needs, Together
  <2>3. {<<"POST", "devices/rmm-sync">>} \cup {"GET", "PATCH"} \X {"devices/rmm-settings"} \subseteq DOMAIN DevicesController
    BY DEF DevicesController, Needs, Together
  <2>4. {"GET", "PATCH", "POST", "DELETE"} \X {"knowledge-base/config/onenote"} \subseteq DOMAIN KnowledgeImportController
    BY DEF KnowledgeImportController, Needs, Together, Read
  <2>5. DOMAIN KnowledgeImportController \subseteq DOMAIN RouteNeeds
    BY RoutesOf DEF RouteNeeds
  <2> QED
    BY <2>1, <2>2, <2>3, <2>4, <2>5, Controllers
<1>6. tables \subseteq DOMAIN RouteNeeds
  <2>1. DOMAIN SystemHealthController \subseteq DOMAIN RouteNeeds
    BY RoutesOf DEF RouteNeeds
  <2> QED
    BY <2>1, Controllers
<1>7. Free("settings", r, Ungated(tables \cup others))
  BY <1>3, <1>5, <1>6
<1>8. SettingsControls = Ungated(tables \cup others)
  <2>1. tables \cup others = tables \cup {<<"POST", "client-domains/unmapped/:id/associate">>}
     \cup {<<"PATCH", "notification-preferences/users">>, <<"POST", "devices/rmm-sync">>}
     \cup {"GET", "PATCH"} \X {"devices/rmm-settings"}
     \cup {"GET", "PATCH", "POST", "DELETE"} \X {"knowledge-base/config/onenote"}
    OBVIOUS
  <2> QED
    BY <2>1 DEF SettingsControls
<1> QED
  BY <1>4, <1>7, <1>8

\* A control shown with the permissions its route asks for is served to any user.
Gated(control, known) ==
  control.gate \subseteq known => RouteNeeds[control.route] \cup control.fields \subseteq known

LEMMA OwnGateServes ==
  ASSUME NEW gate, NEW route, NEW fields, NEW known,
         gate \subseteq known => RouteNeeds[route] \cup fields \subseteq known
  PROVE  Gated(FieldControl(gate, route, fields), known)
  BY DEF Gated, FieldControl

LEMMA GateServes ==
  ASSUME NEW gate, NEW route, NEW known, gate \subseteq known => RouteNeeds[route] \subseteq known
  PROVE  Gated(Control(gate, route), known)
  BY OwnGateServes DEF Control

LEMMA TicketGates ==
  ASSUME NEW known, <<"tickets", "view">> \in known, NEW control \in TicketControls
  PROVE  control \in TicketFree \/ control \in NewSpecialists \/ Gated(control, known)
<1>1. /\ RouteNeeds[<<"PATCH", "tickets/:id/assignment">>] \subseteq May("tickets", {"assign"})
      /\ RouteNeeds[<<"PATCH", "tickets/:id/planning">>] \subseteq May("tickets", {"update"})
      /\ RouteNeeds[<<"POST", "tickets/:id/external-specialists">>] \subseteq May("tickets", {"update"})
      /\ RouteNeeds[<<"DELETE", "tickets/:id/external-specialists">>] \subseteq May("tickets", {"update"})
      /\ RouteNeeds[<<"POST", "tickets/bulk/delete">>] \subseteq May("tickets", {"delete"})
      /\ RouteNeeds[<<"POST", "tickets/:id/merge">>] \subseteq May("tickets", {"merge"})
      /\ RouteNeeds[<<"POST", "knowledge-base/articles/from-ticket">>] \subseteq May("knowledge_base", {"create"})
      /\ RouteNeeds[<<"POST", "spam-blocklist">>] \subseteq May("spam", {"manage"})
  BY TicketRoutesNeed, OtherRoutesNeed, ArticleRoutesNeed DEF Needed
<1>2. /\ Gated(Control(May("tickets", {"assign"}), <<"PATCH", "tickets/:id/assignment">>), known)
      /\ Gated(Control(May("tickets", {"update"}), <<"PATCH", "tickets/:id/planning">>), known)
      /\ Gated(Control(May("tickets", {"update"}), <<"POST", "tickets/:id/external-specialists">>), known)
      /\ Gated(Control(May("tickets", {"update"}), <<"DELETE", "tickets/:id/external-specialists">>), known)
  BY <1>1, GateServes
<1>3. /\ Gated(Control(May("tickets", {"delete"}), <<"POST", "tickets/bulk/delete">>), known)
      /\ Gated(Control(May("tickets", {"merge"}), <<"POST", "tickets/:id/merge">>), known)
      /\ Gated(Control(May("knowledge_base", {"create"}), <<"POST", "knowledge-base/articles/from-ticket">>), known)
      /\ Gated(Control(May("spam", {"manage"}), <<"POST", "spam-blocklist">>), known)
  BY <1>1, GateServes
<1>4. ASSUME NEW verb
      PROVE  Gated(FieldControl(May("tickets", {verb}), <<"PATCH", "tickets/:id/state">>, May("tickets", {verb})), known)
  <2>1. RouteNeeds[<<"PATCH", "tickets/:id/state">>] \subseteq {<<"tickets", "view">>}
    BY TicketRoutesNeed DEF Needed, May
  <2> QED
    BY <2>1, OwnGateServes
<1>5. ASSUME NEW route \in BriefCalls
      PROVE  Gated(Control(May("ai_assistant", {"use"}) \cup May("tickets", {"view"}), route), known)
  <2>1. RouteNeeds[route] \subseteq May("ai_assistant", {"use"}) \cup May("tickets", {"view"})
    BY TicketOffersNeed DEF Needed, Briefing, May
  <2> QED
    BY <2>1, GateServes
<1>6. {<<"GET", "tickets/:id/ai/brief">>, <<"POST", "tickets/:id/ai/brief">>,
       <<"POST", "tickets/:id/ai/brief/translations">>} = BriefCalls
  BY DEF BriefCalls
<1>7. CASE control \in {FieldControl(May("tickets", {verb}), <<"PATCH", "tickets/:id/state">>, May("tickets", {verb})) :
                          verb \in {"update", "close", "reopen"}}
  BY <1>4, <1>7
<1>8. CASE control \in {Control(May("ai_assistant", {"use"}) \cup May("tickets", {"view"}), route) : route \in BriefCalls}
  BY <1>5, <1>8
<1> QED
  BY <1>2, <1>3, <1>6, <1>7, <1>8 DEF TicketControls, TicketFree

LEMMA OperationsGates ==
  ASSUME NEW known, <<"tickets", "view">> \in known,
         <<"reports", "export">> \in known => <<"projects", "view">> \in known,
         NEW control \in OperationsControls
  PROVE  Gated(control, known)
<1>1. /\ RouteNeeds[<<"PATCH", "event-services/:id">>] \subseteq May("event_services", {"update"})
      /\ RouteNeeds[<<"PATCH", "event-services/:id/tasks">>] \subseteq May("event_services", {"update"})
      /\ RouteNeeds[<<"POST", "reports/schedules">>] \subseteq May("reports", {"manage"})
      /\ RouteNeeds[<<"POST", "reports/definitions">>] \subseteq May("reports", {"manage"})
  BY EventRoutesNeed, OtherRoutesNeed DEF Needed
<1>2. /\ Gated(Control(May("event_services", {"update"}), <<"PATCH", "event-services/:id">>), known)
      /\ Gated(Control(May("event_services", {"update"}), <<"PATCH", "event-services/:id/tasks">>), known)
      /\ Gated(Control(May("reports", {"manage"}), <<"POST", "reports/schedules">>), known)
      /\ Gated(Control(May("reports", {"manage"}), <<"POST", "reports/definitions">>), known)
  BY <1>1, GateServes
<1>3. Gated(Control(May("reports", {"export"}), <<"GET", "reports/projects/executive-export">>), known)
  <2>1. RouteNeeds[<<"GET", "reports/projects/executive-export">>]
          \subseteq {<<"reports", "export">>, <<"projects", "view">>}
    BY OtherRoutesNeed DEF Needed
  <2> QED
    BY <2>1, GateServes DEF May
<1>4. ASSUME NEW verb
      PROVE  Gated(FieldControl(May("tickets", {"update", verb}), <<"PATCH", "tickets/bulk">>, May("tickets", {verb})),
                   known)
  <2>1. RouteNeeds[<<"PATCH", "tickets/bulk">>] \subseteq {<<"tickets", "view">>}
    BY TicketRoutesNeed DEF Needed, May
  <2>2. May("tickets", {verb}) \subseteq May("tickets", {"update", verb})
    BY DEF May
  <2> DEFINE gate == May("tickets", {"update", verb})
             fields == May("tickets", {verb})
  <2> HIDE DEF gate, fields
  <2>3. fields \subseteq gate
    BY <2>2 DEF gate, fields
  <2>4. Gated(FieldControl(gate, <<"PATCH", "tickets/bulk">>, fields), known)
    BY <2>1, <2>3, OwnGateServes
  <2> QED
    BY <2>4 DEF gate, fields
<1> QED
  BY <1>2, <1>3, <1>4 DEF OperationsControls

LEMMA ProjectsGates ==
  ASSUME NEW known, NEW control \in ProjectsControls
  PROVE  Gated(control, known)
<1>1. ASSUME NEW path \in {"projects", "projects/templates", "projects/templates/apply"}
      PROVE  Gated(Control(May("projects", {"create"}), <<"POST", path>>), known)
  <2>1. RouteNeeds[<<"POST", path>>] \subseteq May("projects", {"create"})
    BY ProjectRoutesNeed, ProjectOffersNeed DEF Needed
  <2> QED
    BY <2>1, GateServes
<1> DEFINE updates == {<<"PATCH", "projects">>} \cup {"POST", "PATCH"} \X {"projects/:id/decisions"}
                      \cup {"POST", "PATCH", "DELETE"} \X {"projects/:id/milestones"}
                      \cup {"POST", "DELETE"} \X {"projects/:id/work-items", "projects/:id/dependencies"}
<1>2. ASSUME NEW route \in updates
      PROVE  Gated(Control(May("projects", {"update"}), route), known)
  <2>1. RouteNeeds[route] \subseteq May("projects", {"update"})
    BY ProjectRoutesNeed, ProjectOffersNeed DEF Needed
  <2> QED
    BY <2>1, GateServes
<1>3. Gated(Control(May("projects", {"delete"}), <<"DELETE", "projects">>), known)
  <2>1. RouteNeeds[<<"DELETE", "projects">>] \subseteq May("projects", {"delete"})
    BY ProjectRoutesNeed DEF Needed
  <2> QED
    BY <2>1, GateServes
<1>4. Gated(Control(May("projects", {"create", "delete"}), <<"DELETE", "projects/templates">>), known)
  <2>1. RouteNeeds[<<"DELETE", "projects/templates">>] \subseteq May("projects", {"delete"})
    BY ProjectOffersNeed DEF Needed
  <2> QED
    BY <2>1, GateServes DEF May
<1> HIDE DEF updates
<1>5. control \in {Control(May("projects", {"create"}), <<"POST", path>>) :
                     path \in {"projects", "projects/templates", "projects/templates/apply"}}
      \/ control \in {Control(May("projects", {"update"}), route) : route \in updates}
      \/ control \in {Control(May("projects", {"delete"}), <<"DELETE", "projects">>),
                      Control(May("projects", {"create", "delete"}), <<"DELETE", "projects/templates">>)}
  BY DEF ProjectsControls, updates
<1> QED
  BY <1>1, <1>2, <1>3, <1>4, <1>5

\* Elsewhere than on the pages of the operations and of the projects a control asks no
\* permission, or is of the ticket page.
UngatedPages ==
  {"tickets", "clients", "devices", "reports", "event-services", "external-specialists", "knowledge-base", "users",
   "settings", "dashboard"}

LEMMA UngatedPagesFree ==
  ASSUME NEW r \in Roles, NEW at \in UngatedPages, Shown(at, Holds(r))
  PROVE  Free(at, r, PageControls(at))
<1>0. routePermissions[at] \in Holds(r)
  BY DEF Shown, UngatedPages
<1>1. CASE at \in {"tickets", "dashboard"}
  BY <1>1, TicketListFree, DashboardFree DEF PageControls
<1>2. CASE at = "clients"
  BY <1>0, <1>2, PagesNeed, ClientsFree DEF PageControls, View
<1>3. CASE at = "devices"
  BY <1>0, <1>3, PagesNeed, DevicesFree DEF PageControls, View
<1>4. CASE at = "reports"
  BY <1>0, <1>4, PagesNeed, ReportsFree DEF PageControls, View
<1>5. CASE at = "event-services"
  BY <1>0, <1>5, PagesNeed, EventsFree DEF PageControls, View
<1>6. CASE at = "external-specialists"
  BY <1>0, <1>6, PagesNeed, SpecialistsFree DEF PageControls, View
<1>7. CASE at = "knowledge-base"
  BY <1>0, <1>7, PagesNeed, ArticlesFree DEF PageControls, View
<1>8. CASE at \in {"users", "settings"}
  BY <1>0, <1>8, PagesNeed, AdministrationFree DEF PageControls, View
<1> QED
  BY <1>1, <1>2, <1>3, <1>4, <1>5, <1>6, <1>7, <1>8 DEF UngatedPages

LEMMA UngatedGates ==
  ASSUME NEW at \in UngatedPages, NEW control \in PageControls(at)
  PROVE  control.gate = {}
<1>1. ASSUME NEW routes, NEW c \in Ungated(routes)
      PROVE  c.gate = {}
  BY DEF Ungated, Control, FieldControl
<1>2. \A c \in TicketsControls : c.gate = {}
  BY <1>1 DEF TicketsControls, NewTickets, TicketEdits, FieldControl
<1>3. \A c \in DeviceListControls : c.gate = {}
  BY <1>1 DEF DeviceListControls, RemoteControls, FieldControl
<1>4. CASE at \in {"tickets", "devices"}
  BY <1>2, <1>3, <1>4 DEF PageControls
<1>5. CASE at \notin {"tickets", "devices"}
  <2>1. \E routes : PageControls(at) = Ungated(routes)
    BY <1>5 DEF PageControls, UngatedPages, ClientEdits, ReportEdits, EventServicesControls, SpecialistsControls,
       KnowledgeControls, UsersControls, SettingsControls, DashboardControls
  <2> QED
    BY <1>1, <2>1
<1> QED
  BY <1>4, <1>5

\* One tab of one user. What the shell knows is what the user may do unless that changed since; a redirect led to a
\* page she may see; and only a page she may not see is empty.
KnownPermissions == Unread \cup EditedPermissions \cup UNION {Holds(r) : r \in Roles}
AccessTab ==
  [page : AppPages, known : SUBSET KnownPermissions, asked : SUBSET UNION {PageLoads(at) : at \in AppPages},
   empty : BOOLEAN, byRedirect : BOOLEAN, stale : BOOLEAN, changed : BOOLEAN]

KnowsGranted == tab.known # Unread /\ ~tab.stale => tab.page = "profile" \/ tab.known = Granted
LedToShown == tab.byRedirect /\ ~tab.changed => Shown(tab.page, Granted)
EmptyUnshown == tab.empty /\ ~tab.changed /\ signedIn /\ AsSeeded => ~Shown(tab.page, Granted)

Accessing ==
  /\ tab \in AccessTab /\ userRoles \subseteq Roles
  /\ tab.asked \subseteq PageLoads(tab.page) /\ (tab.stale => tab.changed)
  /\ KnowsGranted /\ LedToShown /\ EmptyUnshown

\* A user has permissions the shell can have read.
LEMMA GrantedKnown ==
  ASSUME userRoles \subseteq Roles
  PROVE  Granted \subseteq KnownPermissions
  BY DEF Granted, RolePermissions, KnownPermissions, Holds

\* A page mounted anew has asked for its loads and knows nothing yet.
LEMMA MountedTab ==
  ASSUME NEW at \in AppPages, NEW led \in BOOLEAN, NEW since \in BOOLEAN
  PROVE  /\ Mounted(at, led, since) \in AccessTab
         /\ Mounted(at, led, since).page = at /\ Mounted(at, led, since).known = Unread
         /\ Mounted(at, led, since).asked = PageLoads(at) /\ Mounted(at, led, since).empty = FALSE
         /\ Mounted(at, led, since).byRedirect = led /\ Mounted(at, led, since).stale = FALSE
         /\ Mounted(at, led, since).changed = since
<1>1. Unread \in SUBSET KnownPermissions /\ PageLoads(at) \in SUBSET UNION {PageLoads(p) : p \in AppPages}
  BY DEF KnownPermissions
<1> HIDE DEF KnownPermissions, Unread, PageLoads
<1> QED
  BY <1>1 DEF Mounted, AccessTab

LEMMA Remounted ==
  ASSUME Accessing, NEW at \in AppPages, NEW led \in BOOLEAN, NEW since \in BOOLEAN,
         tab' = Mounted(at, led, since),
         led /\ ~since => Shown(at, Granted), UNCHANGED <<roleChanges, userRoles, signedIn>>
  PROVE  Accessing'
<1>1. Granted' = Granted
  BY DEF Granted, RolePermissions
<1>2. tab' \in AccessTab /\ tab'.page = at /\ tab'.known = Unread /\ tab'.asked = PageLoads(at) /\ ~tab'.empty
      /\ tab'.byRedirect = led /\ tab'.stale = FALSE /\ tab'.changed = since
  BY MountedTab
<1> QED
  BY <1>1, <1>2 DEF Accessing, KnowsGranted, LedToShown, EmptyUnshown

\* Each step keeps the invariant.
LEMMA MeRead ==
  ASSUME Accessing, ReadMe
  PROVE  Accessing'
<1>1. Granted' = Granted /\ (AsSeeded' <=> AsSeeded) /\ UNCHANGED <<userRoles, signedIn>>
  BY DEF ReadMe, Granted, RolePermissions, AsSeeded
<1>2. tab \in AccessTab /\ Granted \in SUBSET KnownPermissions /\ "profile" \in AppPages
  BY GrantedKnown, PagesKnown DEF Accessing
<1> HIDE DEF KnownPermissions, AppPages, Granted, Unread
<1>3. CASE signedIn
  <2>1. tab' = [tab EXCEPT !.known = Granted, !.stale = FALSE]
    BY <1>3 DEF ReadMe
  <2>2. tab' \in AccessTab /\ tab'.page = tab.page /\ tab'.known = Granted /\ tab'.asked = tab.asked
        /\ tab'.empty = tab.empty /\ tab'.byRedirect = tab.byRedirect /\ tab'.stale = FALSE
        /\ tab'.changed = tab.changed
    BY <1>2, <2>1 DEF AccessTab
  <2> QED
    BY <1>1, <2>2 DEF Accessing, KnowsGranted, LedToShown, EmptyUnshown
<1>4. CASE ~signedIn
  <2>1. tab' = [tab EXCEPT !.page = "profile", !.asked = {}, !.known = {}]
    BY <1>4 DEF ReadMe
  <2>2. tab' \in AccessTab /\ tab'.page = "profile" /\ tab'.asked = {}
        /\ tab'.byRedirect = tab.byRedirect /\ tab'.stale = tab.stale /\ tab'.changed = tab.changed
    BY <1>2, <2>1 DEF AccessTab
  <2> QED
    BY <1>1, <1>4, <2>2 DEF Accessing, KnowsGranted, LedToShown, EmptyUnshown, Shown
<1> QED
  BY <1>3, <1>4

LEMMA Redirected ==
  ASSUME Accessing, Redirect
  PROVE  Accessing'
<1> DEFINE next == FallbackHref(tab.page, tab.known)
<1>1. next \in AppPages /\ Shown(next, tab.known)
  BY FallbackShown
<1>2. tab.stale \in BOOLEAN
  BY DEF Accessing, AccessTab
<1>3. ~tab.stale => Shown(next, Granted)
  BY <1>1 DEF Redirect, Accessing, KnowsGranted, Shown
<1> HIDE DEF next
<1>4. tab' = Mounted(next, TRUE, tab.stale) /\ UNCHANGED <<roleChanges, userRoles, signedIn>>
  BY DEF Redirect, next
<1> QED
  BY <1>1, <1>2, <1>3, <1>4, Remounted

LEMMA LoadsAnswered ==
  ASSUME Accessing, AnswerLoads
  PROVE  Accessing'
<1>1. Granted' = Granted /\ (AsSeeded' <=> AsSeeded) /\ UNCHANGED <<userRoles, signedIn>>
  BY DEF AnswerLoads, Granted, RolePermissions, AsSeeded
<1> DEFINE refused == \E route \in tab.asked : ~Allowed(route)
<1>2. refused /\ signedIn /\ AsSeeded => ~Shown(tab.page, Granted)
  BY LoadsServed DEF Accessing, AccessTab, Allowed
<1> HIDE DEF refused
<1>3. tab' = [tab EXCEPT !.asked = {}, !.empty = refused]
  BY DEF AnswerLoads, refused
<1>4. tab \in AccessTab /\ refused \in BOOLEAN
  BY DEF Accessing, refused
<1> HIDE DEF KnownPermissions, AppPages, Granted, Unread
<1>5. tab' \in AccessTab /\ tab'.page = tab.page /\ tab'.known = tab.known /\ tab'.asked = {}
      /\ tab'.empty = refused /\ tab'.byRedirect = tab.byRedirect /\ tab'.stale = tab.stale
      /\ tab'.changed = tab.changed
  BY <1>3, <1>4 DEF AccessTab
<1> QED
  BY <1>1, <1>2, <1>5 DEF Accessing, KnowsGranted, LedToShown, EmptyUnshown

LEMMA Edited ==
  ASSUME Accessing, Edit, userRoles' \subseteq Roles
  PROVE  Accessing'
<1>1. tab \in AccessTab /\ tab' = [tab EXCEPT !.stale = TRUE, !.changed = TRUE]
  BY DEF Accessing, Edit
<1>2. tab' \in AccessTab /\ tab'.page = tab.page /\ tab'.asked = tab.asked /\ tab'.stale = TRUE /\ tab'.changed = TRUE
  BY <1>1 DEF AccessTab
<1> QED
  BY <1>2 DEF Accessing, KnowsGranted, LedToShown, EmptyUnshown

LEMMA AccessingStep ==
  ASSUME Accessing, AccessNext
  PROVE  Accessing'
<1>1. ASSUME NEW at \in AppPages, Visit(at) PROVE Accessing'
  BY <1>1, Remounted DEF Visit
<1>2. CASE \E r \in userRoles, p \in EditedPermissions : EditRole(r, p)
  BY <1>2, Edited DEF EditRole, Accessing
<1>3. CASE \E r \in Roles : Regroup({r})
  BY <1>3, Edited DEF Regroup
<1>4. CASE EndSession \/ Seed
  BY <1>4, Edited DEF EndSession, Seed, Accessing
<1> QED
  BY <1>1, <1>2, <1>3, <1>4, MeRead, Redirected, LoadsAnswered DEF AccessNext

LEMMA AccessingInit ==
  ASSUME AccessInit
  PROVE  Accessing
<1>1. PICK r \in Roles, s \in Roles : AccessInitAs({r, s})
  BY DEF AccessInit
<1>2. tab = Mounted("dashboard", FALSE, FALSE) /\ userRoles \subseteq Roles
  BY <1>1 DEF AccessInitAs
<1>3. "dashboard" \in AppPages
  BY PagesKnown
<1>4. tab \in AccessTab /\ tab.page = "dashboard" /\ tab.known = Unread /\ tab.asked = PageLoads("dashboard")
      /\ ~tab.empty /\ ~tab.byRedirect /\ ~tab.stale
  BY <1>2, <1>3, MountedTab
<1> QED
  BY <1>2, <1>4 DEF Accessing, KnowsGranted, LedToShown, EmptyUnshown

\* What the invariant says of the six statements.
LEMMA Settle ==
  ASSUME Accessing
  PROVE  RedirectsSettle /\ PagesNotEmptied
  BY DEF Accessing, KnowsGranted, LedToShown, EmptyUnshown, RedirectsSettle, PagesNotEmptied, Shown

\* A control of the page that does not work is one that one of the roles is refused.
LEMMA RoleAnswers ==
  ASSUME AsSeeded, signedIn, NEW r \in userRoles, NEW at, NEW control, RoleServed(at, r, control),
         Offers(at, control, Holds(r)), ~Works(control)
  PROVE  \E role \in userRoles : control \in RefusedTo(role, at) /\ Offers(at, control, RolePermissions(role))
<1>1. RolePermissions(r) = Holds(r) /\ Holds(r) \subseteq Granted
  BY SeededGrants DEF AsSeeded, RolePermissions, Holds
<1>2. control \in RefusedTo(r, at)
  BY <1>1 DEF RoleServed, Works, Allowed
<1> QED
  BY <1>1, <1>2

LEMMA OffersAreServed ==
  ASSUME Accessing
  PROVE  OffersServed
<1> DEFINE at == tab.page
<1> SUFFICES ASSUME AsSeeded, signedIn, ~tab.stale, tab.known # Unread,
                    NEW control \in PageControls(at), Offers(at, control, tab.known), ~Works(control)
             PROVE  \E role \in userRoles : control \in RefusedTo(role, at) /\ Offers(at, control, RolePermissions(role))
  BY DEF OffersServed
<1>1. at \in AppPages /\ userRoles \subseteq Roles
  BY DEF Accessing, AccessTab
<1> HIDE DEF at
<1>2. at # "profile" => tab.known = Granted
  BY DEF Accessing, KnowsGranted, at
<1>3. Granted = UNION {Holds(r) : r \in userRoles}
  BY SeededGrants
<1>4. ASSUME at # "profile", Gated(control, Granted)
      PROVE  FALSE
  BY <1>2, <1>4 DEF Gated, Offers, Works, Allowed
<1>5. CASE at = "profile"
  <2>1. /\ control \in Ungated(DOMAIN ProfileController \cup {<<"PATCH", "notification-preferences/me">>})
    BY <1>5 DEF PageControls, ProfileControls
  <2>2. control.route \in DOMAIN ProfileController \cup {<<"PATCH", "notification-preferences/me">>}
        /\ control.fields = {}
    BY <2>1 DEF Ungated, Control, FieldControl
  <2> QED
    BY <2>2, ProfileNeeds DEF Needed, Works, Allowed
<1>6. CASE at = "ticket"
  <2>1. <<"tickets", "view">> \in Granted
    BY <1>2, <1>6, PagesNeed DEF Offers, Shown, View
  <2>2. control \in TicketControls
    BY <1>6 DEF PageControls
  <2>3. control \in TicketFree \/ control \in NewSpecialists
    BY <1>4, <1>6, <2>1, <2>2, TicketGates
  <2>4. CASE control \in TicketFree
    <3>1. PICK r \in userRoles : <<"tickets", "view">> \in Holds(r)
      BY <1>3, <2>1
    <3>2. control.gate = {}
      BY <2>4 DEF TicketFree, ReplyControls, DraftControls, UploadControls, FileDeletions, FileDownloads,
         FilePreviews, Ungated, Control, FieldControl
    <3>3. Offers(at, control, Holds(r))
      BY <1>6, <3>1, <3>2, PagesNeed DEF Offers, Shown, View
    <3>4. RoleServed(at, r, control)
      BY <1>1, <1>6, <2>4, TicketPageFree DEF Free
    <3> QED
      BY <3>3, <3>4, RoleAnswers
  <2>5. CASE control \in NewSpecialists
    <3>1. control.gate = {<<"tickets", "update">>}
      BY <2>5 DEF NewSpecialists, Control, FieldControl, May
    <3>2. PICK r \in userRoles : <<"tickets", "update">> \in Holds(r)
      BY <1>2, <1>3, <1>6, <3>1 DEF Offers
    <3>3. <<"tickets", "view">> \in Holds(r)
      BY <1>1, RolesHoldOffers DEF HoldsOffers
    <3>4. Offers(at, control, Holds(r))
      BY <1>6, <3>1, <3>2, <3>3, PagesNeed DEF Offers, Shown, View
    <3>5. RoleServed(at, r, control)
      BY <1>1, <1>6, <2>5, <3>2, NewSpecialistsFree DEF Free
    <3> QED
      BY <3>4, <3>5, RoleAnswers
  <2> QED
    BY <2>3, <2>4, <2>5
<1>7. CASE at = "operations"
  <2>1. <<"operations", "view">> \in Granted
    BY <1>2, <1>7, PagesNeed DEF Offers, Shown, View
  <2>2. <<"tickets", "view">> \in Granted
    BY <1>1, <2>1, GrantedTogether, HeldTogether
  <2>3. <<"reports", "export">> \in Granted => <<"projects", "view">> \in Granted
    BY <1>1, GrantedTogether, HeldTogether
  <2>4. control \in OperationsControls
    BY <1>7 DEF PageControls
  <2> QED
    BY <1>4, <1>7, <2>2, <2>3, <2>4, OperationsGates
<1>8. CASE at = "projects"
  <2>1. control \in ProjectsControls
    BY <1>8 DEF PageControls
  <2> QED
    BY <1>4, <1>8, <2>1, ProjectsGates
<1>9. CASE at \in UngatedPages
  <2>1. routePermissions[at] \in Granted /\ at # "profile"
    BY <1>2, <1>9 DEF Offers, Shown, UngatedPages
  <2>2. PICK r \in userRoles : routePermissions[at] \in Holds(r)
    BY <1>3, <2>1
  <2>3. Shown(at, Holds(r))
    BY <2>2 DEF Shown
  <2>4. RoleServed(at, r, control)
    BY <1>1, <1>9, <2>3, UngatedPagesFree DEF Free
  <2>5. control.gate = {}
    BY <1>9, UngatedGates
  <2> QED
    BY <2>3, <2>4, <2>5, RoleAnswers DEF Offers
<1> QED
  BY <1>1, <1>5, <1>6, <1>7, <1>8, <1>9, PagesKnown DEF UngatedPages

\* No role but the two administrators changes the administration.
LEMMA AdministratorsOnly ==
  ASSUME userRoles \subseteq Roles
  PROVE  AdministratorsAlone
<1> SUFFICES ASSUME AsSeeded, userRoles \cap Administrators = {}, NEW route \in AdministrationRoutes, Allowed(route)
             PROVE  FALSE
  BY DEF AdministratorsAlone, Administrators
<1>1. route \in DOMAIN RouteNeeds /\ route[1] # "GET"
  BY DEF AdministrationRoutes
<1>2. Administers(route)
  BY Administering DEF AdministrationRoutes, Claimed, Claim
<1>3. route[2] \in AdminPaths
  BY <1>1, <1>2 DEF Administers
<1>4. route \notin OwnChanges
  BY <1>3 DEF AdminPaths, OwnChanges
<1>5. Asked(route, RouteNeeds[route]) /\ Restricted(route, RouteNeeds[route])
  BY <1>1, ChangesAsked, ChangesRestricted DEF Claimed, Claim
<1>6. PICK p : p \in RouteNeeds[route] /\ p \in AdminVerbs
  BY <1>1, <1>3, <1>4, <1>5 DEF Asked, Some, Restricted
<1>7. PICK r \in userRoles : p \in Holds(r)
  BY <1>6, SeededGrants DEF Allowed
<1> QED
  BY <1>6, <1>7, AdminsAlone DEF Roles

\* An auditor changes nothing but what is her own.
LEMMA AuditorsReadOnly == AuditorsOnlyRead
<1> SUFFICES ASSUME AsSeeded, userRoles = {"Auditor"}, NEW route \in DOMAIN RouteNeeds, route \notin OwnRoutes,
                    Allowed(route)
             PROVE  FALSE
  BY DEF AuditorsOnlyRead
<1>1. RouteNeeds[route] \subseteq AuditedAreas \X {"view"}
  BY SeededGrants, RolesAre DEF Allowed
<1>2. route[1] # "GET"
  BY DEF OwnRoutes
<1>3. route \notin OwnChanges
  <2>1. /\ {"PATCH"} \X {"profile", "profile/signature", "profile/password"} \subseteq DOMAIN ProfileController
        /\ {"POST"} \X {"profile/mfa/setup", "profile/mfa/confirm", "profile/mfa/disable"}
             \subseteq DOMAIN ProfileController
    BY DEF ProfileController, Needs, Together, Read
  <2>2. /\ {"PATCH"} \X {"notifications", "notification-preferences/me", "notification-preferences/users"}
             \subseteq DOMAIN NotificationsController
        /\ {"POST"} \X {"notifications/read-all"} \subseteq DOMAIN NotificationsController
    BY DEF NotificationsController, Needs, Together, Read
  <2> QED
    BY <2>1, <2>2 DEF OwnRoutes, OwnChanges
<1>4. Asked(route, RouteNeeds[route]) /\ Restricted(route, RouteNeeds[route])
  BY ChangesAsked, ChangesRestricted DEF Claimed, Claim
<1>5. PICK p : p \in RouteNeeds[route]
  BY <1>2, <1>3, <1>4 DEF Asked, Some
<1>6. \A q \in AuditedAreas \X {"view"} : q[1] \in AuditedAreas /\ q[2] = "view" /\ q # <<"ai_assistant", "use">>
  BY DEF AuditedAreas
<1> QED
  BY <1>1, <1>2, <1>3, <1>4, <1>5, <1>6 DEF Restricted

LEMMA AccessAgreed ==
  ASSUME Accessing
  PROVE  AccessAgrees
<1>1. CatalogueComplete
  BY Catalogued DEF CatalogueComplete, Claimed, Claim
<1> QED
  BY <1>1, Settle, OffersAreServed, AdministratorsOnly, AuditorsReadOnly DEF AccessAgrees, Accessing

AccessInFocus == focus = "access" => Accessing

LEMMA AccessMoves ==
  ASSUME AccessInFocus, [AgentsNext]_agentVars
  PROVE  AccessInFocus'
<1>1. CASE AccessTurn
  BY <1>1, AccessingStep DEF AccessTurn, AccessInFocus
<1>2. CASE LifecycleTurn \/ PagesTurn \/ ComposerTurn
  BY <1>2 DEF LifecycleTurn, PagesTurn, ComposerTurn, AccessInFocus
<1>3. CASE UNCHANGED agentVars
  <2>1. UNCHANGED <<accessVars, focus>>
    BY <1>3 DEF agentVars
  <2>2. Granted' = Granted /\ AsSeeded' = AsSeeded
    BY <2>1 DEF accessVars, Granted, RolePermissions, AsSeeded
  <2>3. Accessing => Accessing'
    BY <2>1, <2>2 DEF accessVars, Accessing, KnowsGranted, LedToShown, EmptyUnshown, Shown
  <2> QED
    BY <2>1, <2>3 DEF AccessInFocus
<1> QED
  BY <1>1, <1>2, <1>3 DEF AgentsNext

LEMMA AccessAlways == AgentsSpec => []AccessInFocus
<1>1. AgentsInit => AccessInFocus
  BY AccessingInit DEF AgentsInit, AccessInFocus
<1>2. AccessInFocus /\ [AgentsNext]_agentVars => AccessInFocus'
  BY AccessMoves
<1> QED
  BY <1>1, <1>2, PTL DEF AgentsSpec

\* With the roles as seeded, what a page loads is served to whom the client shows the page, and
\* so is what it offers, but for the controls each role is named to be refused; only
\* administrators change the administration and auditors only read; redirects settle on a page
\* the user may see, and no page she may see is left empty.
THEOREM AccessAgreesAlways == AgentsSpec => []AccessSafe
<1>1. AccessInFocus => AccessSafe
  BY AccessAgreed DEF AccessInFocus, AccessSafe
<1> QED
  BY <1>1, AccessAlways, PTL
=============================================================================
