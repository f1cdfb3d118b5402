------------------------------ MODULE MCOffice -------------------------------
(***************************************************************************)
(* Accounts, the directory of users, groups and roles, ticket attachments  *)
(* and event services, each on small sets.  They write different tables: a *)
(* behaviour exercises one of them, "focus".  With "alone" one request     *)
(* ends before the next begins and none dies.                              *)
(***************************************************************************)
EXTENDS Accounts, Directory, Attachments, Events, TLC

VARIABLES focus, alone

officeVars == <<accountVars, directoryVars, attachmentVars, eventVars, focus, alone>>

\* Every module has the same request slots.
Slots == Permutations(Clerk)

OfficeInit ==
    /\ focus \in {"accounts", "directory", "views", "attachments", "requests", "tasks", "notes"}
    /\ alone \in BOOLEAN
    /\ AccountsInit /\ DirectoryInit /\ AttachmentsInit
    /\ IF focus \in {"tasks", "notes"} THEN EventsOpen ELSE EventsInit

\* The operations whose overlaps the properties are about.
DirectoryContend ==
    \E by \in User, c \in Clerk :
       \/ \E u \in User, groups \in SUBSET Group : CreateUser(c, by, u, groups)
       \/ \E g \in Group, roles \in SUBSET Role :
             CreateGroup(by, g, roles) \/ UpdateGroup(c, by, g, roles) \/ DeleteGroup(by, g)
       \/ \E k \in Role : DeleteRole(by, k) \/ CreateRole(by, k, Permission)
AccountsContend ==
    \/ \E r \in Visitor, c \in Sign : CompleteSignIn(r, c)
    \/ \E r \in Visitor : Login(r) \/ VerifyMfa(r, TRUE) \/ ConfirmSetup(r)
    \/ \E c \in Sign : StartSignIn(c)
    \/ \E s \in Session : Logout(s)
    \/ StartSetup
AttachmentsContend ==
    LET a == CHOOSE b \in Attachment : TRUE IN
    \/ \E p \in Keeper : \/ Upload(p, a) \/ Rescan(p, a) \/ Download(p, {a})
                         \/ ManualCleanup(p) \/ BulkRescan(p)
    \/ DeleteAttachment(a) \/ Override(a) \/ Recycle \/ Unrecycle \/ Tick \/ Age
RequestsContend ==
    \/ \E p \in Planner, e \in Evt :
          \/ \E crew \in SUBSET Crew : Visit(p, e, crew)
          \/ UpdateRequest(p, e, "COMPLETED", {})
    \/ \E e \in Evt : Create(e, {})

AccountsTurn ==
    /\ focus = "accounts"
    /\ UNCHANGED <<directoryVars, attachmentVars, eventVars, focus, alone>>
    /\ \/ alone /\ Lone(visit) /\ AccountsBegin
       \/ ~alone /\ (AccountsContend \/ \E r \in Visitor : VisitorLost(r))
       \/ AccountsResume
DirectoryTurn ==
    /\ focus \in {"directory", "views"}
    /\ UNCHANGED <<accountVars, attachmentVars, eventVars, focus, alone>>
    /\ \/ focus = "directory" /\ alone /\ Lone(work) /\ DirectoryBegin
       \/ focus = "directory" /\ ~alone /\ DirectoryContend
       \/ focus = "views" /\ alone /\ Lone(work) /\ ViewsBegin
       \/ DirectoryResume
AttachmentsTurn ==
    /\ focus = "attachments"
    /\ UNCHANGED <<accountVars, directoryVars, eventVars, focus, alone>>
    /\ \/ alone /\ Lone(keep) /\ AttachmentsBegin
       \/ ~alone /\ (AttachmentsContend \/ \E p \in Slot : KeeperLost(p))
       \/ AttachmentsResume
EventsTurn ==
    /\ UNCHANGED <<accountVars, directoryVars, attachmentVars, focus, alone>>
    /\ \/ focus = "requests" /\ alone /\ Lone(plan) /\ RequestsBegin
       \/ focus = "requests" /\ ~alone /\ RequestsContend
       \/ focus = "tasks" /\ (alone => Lone(plan)) /\ TasksBegin
       \/ focus = "notes" /\ (alone => Lone(plan)) /\ NotesBegin
       \/ focus \in {"requests", "tasks", "notes"} /\ EventsResume
       \/ focus \in {"requests", "tasks", "notes"} /\ ~alone /\ EventsLoss

OfficeNext == AccountsTurn \/ DirectoryTurn \/ AttachmentsTurn \/ EventsTurn

OfficeSpec == OfficeInit /\ [][OfficeNext]_officeVars

\* With one request after the other: a recovery code lets in once, a reset ends every
\* sign-in but a challenge answered after it, and with two-factor its trusted browsers end.
AccountsSafe ==
    AccountsTypeOK /\ (alone => CodesOnce /\ ResetSignsOut /\ TrustEndsWithMfa)
\* Groups and roles refer to what exists; with one request after the other somebody is
\* active and a user has one default view.
DirectorySafe == DirectoryTypeOK /\ NothingDangles /\ (alone => SomeoneActive /\ OneDefaultView)
\* An attachment on offer has its file, but for late restores; with one request after the
\* other no file is left.
AttachmentsSafe == AttachmentsTypeOK /\ FilesKept /\ (alone => RowsAndFilesAgree)
\* A request comes from a form with fields, a task has one assignee, what is stored was
\* mailed and keeps its files; with one request after the other the last mail names the
\* status, unless it could not be sent.
EventsSafe ==
    /\ [](EventsTypeOK /\ FormBeforeRequest /\ SingleAssignee /\ StoredWasMailed)
    /\ [](alone => StatusTold)
    /\ FileKeepsMessage
==============================================================================
