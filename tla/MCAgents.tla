------------------------------ MODULE MCAgents ------------------------------
(***************************************************************************)
(* What agents do and the client they do it with: requests to one ticket,  *)
(* what a user may do, the composer of replies and every page, each on     *)
(* small sets.  A behaviour exercises one of them, "focus"; with "alone"   *)
(* the agent at the composer waits for every answer.                       *)
(***************************************************************************)
EXTENDS MCTicketLifecycle, Access, TicketComposer, Pages,
        TicketPages, SettingsPages, KnowledgePages, EventPages, OfficePages, PanelPages

CONSTANT Hurry  \* bound: how often the agent at the composer does not wait for an answer

VARIABLES focus, alone, hurry
agentVars == <<vars, seeded, accessVars, composerVars, pageVars, focus, alone, hurry>>

\* The one permission an administrator takes or gives: several pages load users.
ViewUsers == {<<"users", "view">>}

MCWebPage ==
  "settings" :> SettingsPage @@ "ticket" :> TicketPage @@ "tickets" :> TicketListPage
  @@ "articles" :> KnowledgeListPage @@ "article" :> ArticlePage
  @@ "event requests" :> RequestListPage @@ "event request" :> RequestPage @@ "calendar" :> CalendarPage
  @@ "event composer" :> ComposerPage @@ "event settings" :> EventConfigPage
  @@ "clients" :> ClientsPage @@ "users" :> UsersPage @@ "profile" :> ProfilePage
  @@ "report" :> ReportPage @@ "saved reports" :> ReportToolsPage
  @@ "devices" :> DevicesPage @@ "device" :> DevicePage @@ "operations" :> OperationsPage
  @@ "projects" :> ProjectsPage @@ "new project" :> NewProjectPage @@ "dashboard" :> DashboardPage
  @@ "portal" :> SupportPortalPage @@ "workflow" :> WorkflowPage @@ "rmm" :> RmmPage
  @@ "knowledge settings" :> KnowledgePanelPage @@ "specialists" :> ExternalSpecialistsPage
  @@ "public event" :> PublicEventPage @@ "public ticket" :> PublicTicketPage
  @@ "login" :> LoginPage @@ "reset" :> ResetPage @@ "bell" :> BellPage

AgentSymmetry == Requests \cup Permutations(Send)

\* The variables of what is not in focus.
AccessAway ==
    roleChanges = "away" /\ userRoles = "away" /\ signedIn = "away" /\ tab = "away" /\ edits = "away"
ComposerAway ==
    /\ editor = "away" /\ mode = "away" /\ stored = "away" /\ mounted = "away" /\ menu = "away"
    /\ saving = "away" /\ sends = "away" /\ ai = "away" /\ inserted = "away" /\ hint = "away" /\ files = "away"
    /\ sent = "away" /\ fate = "away" /\ meant = "away" /\ mishap = "away"
PagesAway ==
    /\ page = "away" /\ first = "away" /\ other = "away" /\ calm = "away" /\ haste = "away"
    /\ cells = "away" /\ calls = "away" /\ loads = "away" /\ filters = "away" /\ shown = "away"
    /\ failed = "away" /\ form = "away" /\ late = "away"

AgentsInit ==
    /\ focus \in {"lifecycle", "access", "composer", "pages"}
    /\ LifecycleInit /\ (focus # "lifecycle" => ~seeded)
    /\ IF focus = "access" THEN AccessInit ELSE AccessAway
    /\ IF focus = "composer" THEN ComposerInit ELSE ComposerAway
    /\ IF focus = "pages" THEN PagesInit ELSE PagesAway
    /\ hurry \in IF focus = "composer" THEN 0 .. Hurry ELSE {0}
    /\ alone = (hurry = 0)

LifecycleTurn ==
    /\ focus = "lifecycle" /\ LifecycleNext
    /\ UNCHANGED <<accessVars, composerVars, pageVars, focus, alone, hurry>>
AccessTurn ==
    /\ focus = "access" /\ AccessNext
    /\ UNCHANGED <<vars, seeded, composerVars, pageVars, focus, alone, hurry>>
\* An agent in a hurry attaches no files.
ComposerTurn ==
    /\ focus = "composer"
    /\ \/ ComposerAnswers /\ UNCHANGED hurry
       \/ /\ ComposerAgent /\ (~alone => files' = files)
          /\ IF Waiting THEN hurry > 0 /\ hurry' = hurry - 1 ELSE UNCHANGED hurry
    /\ UNCHANGED <<vars, seeded, accessVars, pageVars, focus, alone>>
PagesTurn ==
    /\ focus = "pages" /\ PagesNext
    /\ UNCHANGED <<vars, seeded, accessVars, composerVars, focus, alone, hurry>>

AgentsNext == LifecycleTurn \/ AccessTurn \/ ComposerTurn \/ PagesTurn
AgentsSpec == AgentsInit /\ [][AgentsNext]_agentVars

-----------------------------------------------------------------------------
\* What guards the API and what shapes the client agree.
AccessSafe == focus = "access" => AccessAgrees

\* A text leaves the composer unsent only when the agent erases or replaces it, or has it
\* selected when an AI answer about a selection arrives; it sends no completion nobody
\* accepted and loses no file of an agent who waits for every answer.
ComposerKeeps ==
    focus = "composer" => ComposerTypeOK /\ StoredIsShown /\ NothingLost /\ HintNotSent /\ (alone => FilesFollow)

\* It sends each text once, and no note as a public reply.
ComposerSends == focus = "composer" => SentOnce /\ NotesStayInternal

\* A page comes to show what was chosen and changed on it.
PageShows == focus = "pages" => ShowsChosen /\ ShowsChanges

\* Its forms make one record each, and its controls come back.
PageActs == focus = "pages" => MadeOnce /\ NothingStuck
=============================================================================
