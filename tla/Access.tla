------------------------------- MODULE Access -------------------------------
(***************************************************************************)
(* Who may do what: the roles of one user, the permissions of those roles, *)
(* one browser tab of that user and the API that answers it.  The API      *)
(* derives the permissions from the database on every request.  The tab    *)
(* reads them once, when a page mounts its AppShell (GET /auth/me), and    *)
(* decides from that copy which pages and controls to show, while the page *)
(* already loads its data: both may be wrong by the time the user clicks.  *)
(***************************************************************************)
EXTENDS ApiRoutes, Sequences, Naturals

CONSTANTS
  RoleEdits,        \* bound: changes of a role's permissions or of the user's groups
  EditedPermissions \* the permissions an administrator takes from or gives to a role

VARIABLES
  roleChanges,      \* <<role, permission>>: where the table RolePermission is not as seeded
  userRoles,        \* the roles the user has through her groups
  signedIn,         \* whether the session of the tab is still valid
  tab,              \* the page shown, the permissions its shell read, its outstanding loads
  edits             \* changes made so far

accessVars == <<roleChanges, userRoles, signedIn, tab, edits>>

Roles == DOMAIN DEFAULT_ROLE_PERMISSIONS
Unread == {<<"shell", "loading">>}

RolePermissions(r) ==
  LET changed == {p \in EditedPermissions : <<r, p>> \in roleChanges}
  IN  (DEFAULT_ROLE_PERMISSIONS[r] \ changed) \cup (changed \ DEFAULT_ROLE_PERMISSIONS[r])
Granted == UNION {RolePermissions(r) : r \in userRoles}

\* Mutant: some of what the route asks for is enough.
AllowedBySome(route) == signedIn /\ (RouteNeeds[route] = {} \/ RouteNeeds[route] \cap Granted # {})

(* PermissionsGuard after SessionAuthGuard: all of what the route asks for. *)
Allowed(route) == signedIn /\ RouteNeeds[route] \subseteq Granted

View(area) == <<area, "view">>

(* The entries of the sidebar and the permission that shows each of them.  *)
dashboardNavigation ==
  <<[page |-> "dashboard", needs |-> View("tickets")],
    [page |-> "operations", needs |-> View("operations")],
    [page |-> "tickets", needs |-> View("tickets")],
    [page |-> "event-services", needs |-> View("event_services")],
    [page |-> "devices", needs |-> View("devices")],
    [page |-> "reports", needs |-> View("reports")],
    [page |-> "clients", needs |-> View("clients")],
    [page |-> "knowledge-base", needs |-> View("knowledge_base")],
    [page |-> "users", needs |-> <<"users", "create">>],
    [page |-> "settings", needs |-> View("system_settings")]>>

NavigationPages == {dashboardNavigation[i].page : i \in DOMAIN dashboardNavigation}
NeedsOf(page) == (CHOOSE i \in DOMAIN dashboardNavigation : dashboardNavigation[i].page = page)

(* The permission a page's route asks of the shell; the ticket page falls   *)
(* under the prefix of the list, the profile asks for nothing.             *)
routePermissions ==
  [p \in NavigationPages \cup {"ticket", "external-specialists", "projects"} |->
     CASE p \in NavigationPages -> dashboardNavigation[NeedsOf(p)].needs
       [] p = "ticket" -> View("tickets")
       [] p = "external-specialists" -> View("external_specialists")
       [] p = "projects" -> View("projects")]

AppPages == DOMAIN routePermissions \cup {"profile"}
Shown(page, known) == page = "profile" \/ routePermissions[page] \in known

(* The sidebar, as pages at their places: Users is never an entry; Projects *)
(* stands in for Operations, after the first entry.                        *)
First(entries) == CHOOSE e \in entries : \A other \in entries : e[1] <= other[1]
Navigation(known) ==
  LET item == dashboardNavigation
      shown == {i \in DOMAIN item : item[i].page # "users" /\ item[i].needs \in known}
      entries == {<<2 * i, item[i].page>> : i \in shown} \cup {<<2 * Len(item) + 2, "profile">>}
  IN  IF View("projects") \in known /\ View("operations") \notin known
      THEN entries \cup {<<First(entries)[1] + 1, "projects">>}
      ELSE entries

(* The first entry that is not the page itself. *)
FallbackHref(page, known) ==
  LET others == {e \in Navigation(known) : e[2] # page}
  IN  IF others = {} THEN "profile" ELSE First(others)[2]

-----------------------------------------------------------------------------
(* What each page asks for when it mounts.  Loads are those whose refusal  *)
(* leaves the page empty with an error; refused lookups leave a choice or  *)
(* a card empty and nothing else.                                          *)
DashboardLoads == {<<"GET", "tickets/statistics">>}
OperationsLoads == {<<"GET", "operations/overview">>}
TicketsLoads == {<<"GET", "tickets">>, <<"GET", "tickets/views">>}
TicketLoads == {<<"GET", "tickets/:id">>, <<"GET", "auth/me">>}
EventServicesLoads == {"GET"} \X {"event-services", "event-services/my-tasks", "event-services/services", "users"}
DevicesLoads == {<<"GET", "devices">>}
ReportsLoads == {<<"GET", "reports/summary">>}
ClientsLoads == {<<"GET", "clients">>}
KnowledgeLoads == {"GET"} \X {"knowledge-base/articles", "knowledge-base/categories"}
UsersLoads == {"GET"} \X {"users", "groups", "roles", "permissions"}
ProjectsLoads == {<<"GET", "projects">>}
SpecialistsLoads == {<<"GET", "external-specialists">>}
ProfileLoads == {<<"GET", "profile">>}
SettingsLoads ==
  {"GET"} \X {"mailboxes", "clients", "client-domains/unmapped", "users", "ticket-teams",
              "ticket-routing-rules", "auto-replies", "notification-preferences/users"}

PageLoads(page) ==
  CASE page = "dashboard" -> DashboardLoads
    [] page = "operations" -> OperationsLoads
    [] page = "tickets" -> TicketsLoads
    [] page = "ticket" -> TicketLoads
    [] page = "event-services" -> EventServicesLoads
    [] page = "devices" -> DevicesLoads
    [] page = "reports" -> ReportsLoads
    [] page = "clients" -> ClientsLoads
    [] page = "knowledge-base" -> KnowledgeLoads
    [] page = "users" -> UsersLoads
    [] page = "projects" -> ProjectsLoads
    [] page = "external-specialists" -> SpecialistsLoads
    [] page = "profile" -> ProfileLoads
    [] page = "settings" -> SettingsLoads

(* The controls of a page as [gate, route, fields]: shown to who holds all *)
(* of gate, calling route, whose handler also asks for fields, the         *)
(* permissions of what this control changes.                               *)
FieldControl(gate, route, fields) == [gate |-> gate, route |-> route, fields |-> fields]
Control(gate, route) == FieldControl(gate, route, {})
Ungated(routes) == {Control({}, route) : route \in routes}

(* The controls that look at no permission and ask for more than the page: *)
(* the composer, the files of a ticket, the ticket list, the drafts, and   *)
(* what the clients, devices and reports pages change.                     *)
ReplyControls == Ungated({"POST"} \X {"tickets/:id/messages", "tickets/:id/close"})
DraftControls == Ungated({"POST"} \X {"tickets/:id/ai/draft"})
UploadControls == Ungated({"POST"} \X {"tickets/:id/attachments"})
FileDeletions == Ungated({"DELETE"} \X {"tickets/:id/attachments"})
FileDownloads ==
  Ungated({"GET"} \X {"tickets/:id/attachments/download-all", "tickets/:id/attachments/:file/download"})
FilePreviews == Ungated({"GET"} \X {"tickets/:id/attachments/:file/preview"})
NewTickets == Ungated({"POST"} \X {"tickets"})
TicketEdits ==
  Ungated({<<"PATCH", "tickets/:id/assignment">>}
          \cup {"POST"} \X {"tickets/:id/merge", "tickets/bulk/delete", "tickets/bulk/restore"})
  \cup {FieldControl({}, <<"PATCH", "tickets/bulk">>, May("tickets", {verb})) :
          verb \in {"update", "close", "reopen", "assign"}}
ClientEdits ==
  Ungated({"POST", "PATCH", "DELETE"} \X {"clients", "contacts", "client-domains"})
RemoteControls ==
  Ungated({"POST"} \X {"devices/rmm-sync", "devices/:id/rmm-details/refresh",
                       "devices/:id/remote-access/connection-attempts"})
  \cup {FieldControl({}, <<method, "devices/views">>, May("remote_access", {"configure"})) :
          method \in {"POST", "PATCH"}}
ReportEdits ==
  Ungated({"POST", "PATCH", "DELETE"} \X {"reports/definitions", "reports/schedules"}
          \cup {<<"GET", "reports/export">>, <<"POST", "reports/send">>})

\* Mutant: the assignees can be changed by whoever sees the ticket.
TicketControlsUngated == {Control({}, <<"PATCH", "tickets/:id/assignment">>)}

(* The one gate that asks for less than its route: a new external          *)
(* specialist, added while one is being assigned to the ticket.            *)
NewSpecialists == {Control(May("tickets", {"update"}), <<"POST", "external-specialists">>)}

TicketControls ==
  {Control(May("tickets", {"assign"}), <<"PATCH", "tickets/:id/assignment">>),
   Control(May("tickets", {"update"}), <<"PATCH", "tickets/:id/planning">>),
   Control(May("tickets", {"update"}), <<"POST", "tickets/:id/external-specialists">>),
   Control(May("tickets", {"update"}), <<"DELETE", "tickets/:id/external-specialists">>),
   Control(May("tickets", {"delete"}), <<"POST", "tickets/bulk/delete">>),
   Control(May("tickets", {"merge"}), <<"POST", "tickets/:id/merge">>),
   Control(May("knowledge_base", {"create"}), <<"POST", "knowledge-base/articles/from-ticket">>),
   Control(May("spam", {"manage"}), <<"POST", "spam-blocklist">>)}
  \cup {FieldControl(May("tickets", {verb}), <<"PATCH", "tickets/:id/state">>, May("tickets", {verb})) :
          verb \in {"update", "close", "reopen"}}
  \cup {Control(May("ai_assistant", {"use"}) \cup May("tickets", {"view"}), route) :
          route \in {<<"GET", "tickets/:id/ai/brief">>, <<"POST", "tickets/:id/ai/brief">>,
                     <<"POST", "tickets/:id/ai/brief/translations">>}}
  \cup NewSpecialists \cup ReplyControls \cup DraftControls \cup UploadControls \cup FileDeletions
  \cup FileDownloads \cup FilePreviews

TicketsControls == NewTickets \cup TicketEdits \cup Ungated({"POST", "PATCH", "DELETE"} \X {"tickets/views"})
DeviceListControls ==
  RemoteControls \cup Ungated({"POST", "PATCH", "DELETE"} \X {"devices/views"}
                             \cup {"PUT", "DELETE"} \X {"devices/:id/favorite"})

OperationsControls ==
  {Control(May("event_services", {"update"}), <<"PATCH", "event-services/:id">>),
   Control(May("event_services", {"update"}), <<"PATCH", "event-services/:id/tasks">>),
   Control(May("reports", {"export"}), <<"GET", "reports/projects/executive-export">>),
   Control(May("reports", {"manage"}), <<"POST", "reports/definitions">>),
   Control(May("reports", {"manage"}), <<"POST", "reports/schedules">>)}
  \cup {FieldControl(May("tickets", {"update", verb}), <<"PATCH", "tickets/bulk">>, May("tickets", {verb})) :
          verb \in {"update", "close", "reopen"}}

ProjectsControls ==
  {Control(May("projects", {"create"}), <<"POST", path>>) :
     path \in {"projects", "projects/templates", "projects/templates/apply"}}
  \cup {Control(May("projects", {"update"}), route) :
          route \in {<<"PATCH", "projects">>} \cup {"POST", "PATCH"} \X {"projects/:id/decisions"}
                    \cup {"POST", "PATCH", "DELETE"} \X {"projects/:id/milestones"}
                    \cup {"POST", "DELETE"} \X {"projects/:id/work-items", "projects/:id/dependencies"}}
  \cup {Control(May("projects", {"delete"}), <<"DELETE", "projects">>),
        Control(May("projects", {"create", "delete"}), <<"DELETE", "projects/templates">>)}

(* These pages show all their controls to whoever may open them. *)
EventServicesControls ==
  Ungated(DOMAIN EventListController \cup DOMAIN EventRequestController \cup DOMAIN EventAiController
          \cup {<<"POST", "external-specialists">>})
KnowledgeControls ==
  Ungated(DOMAIN KnowledgeController \cup {<<"GET", "knowledge-base/import/onenote">>}
          \cup {"POST"} \X {"knowledge-base/import/pdf", "knowledge-base/import/onenote",
                             "knowledge-base/import/commit"})
UsersControls == Ungated(DOMAIN UsersController \cup DOMAIN GroupsController \cup DOMAIN RolesController)
SpecialistsControls == Ungated(DOMAIN ExternalSpecialistsController)
SettingsControls ==
  Ungated(DOMAIN SystemSettingsController \cup DOMAIN MailboxesController \cup DOMAIN MaintenanceController
     \cup DOMAIN SpamController \cup DOMAIN AiConfigController \cup DOMAIN TicketRoutingController
     \cup DOMAIN TicketTeamsController \cup DOMAIN AutoRepliesController \cup DOMAIN SupportPortalController
     \cup DOMAIN TicketWorkflowController \cup DOMAIN EventConfigController \cup DOMAIN SystemHealthController
     \cup DOMAIN ExternalSpecialistsController \cup {<<"POST", "client-domains/unmapped/:id/associate">>}
     \cup {<<"PATCH", "notification-preferences/users">>, <<"POST", "devices/rmm-sync">>}
     \cup {"GET", "PATCH"} \X {"devices/rmm-settings"}
     \cup {"GET", "PATCH", "POST", "DELETE"} \X {"knowledge-base/config/onenote"})
DashboardControls == Ungated({<<"PUT", "dashboard/preferences">>})
ProfileControls == Ungated(DOMAIN ProfileController \cup {<<"PATCH", "notification-preferences/me">>})

PageControls(page) ==
  CASE page = "ticket" -> TicketControls
    [] page = "tickets" -> TicketsControls
    [] page = "clients" -> ClientEdits
    [] page = "devices" -> DeviceListControls
    [] page = "reports" -> ReportEdits
    [] page = "operations" -> OperationsControls
    [] page = "projects" -> ProjectsControls
    [] page = "event-services" -> EventServicesControls
    [] page = "external-specialists" -> SpecialistsControls
    [] page = "knowledge-base" -> KnowledgeControls
    [] page = "users" -> UsersControls
    [] page = "settings" -> SettingsControls
    [] page = "dashboard" -> DashboardControls
    [] page = "profile" -> ProfileControls

(* A page offers a control, and a control works: the API lets the route    *)
(* through and its handler finds the permissions of the fields.            *)
Offers(page, control, known) == Shown(page, known) /\ control.gate \subseteq known
Works(control) == Allowed(control.route) /\ control.fields \subseteq Granted

-----------------------------------------------------------------------------
(* A page just mounted.  stale: something changed since its shell read the *)
(* permissions; changed: since it was mounted, or since the permissions    *)
(* were read that the redirect to it acted on.                             *)
Mounted(page, byRedirect, changed) ==
  [page |-> page, known |-> Unread, asked |-> PageLoads(page), empty |-> FALSE,
   byRedirect |-> byRedirect, stale |-> FALSE, changed |-> changed]

AccessInitAs(roles) ==
  /\ roleChanges = {}
  /\ userRoles = roles
  /\ signedIn = TRUE
  /\ tab = Mounted("dashboard", FALSE, FALSE)
  /\ edits = 0

AccessInit == \E r, s \in Roles : AccessInitAs({r, s})

(* Open a page, by a link or an address: the proxy asks for a session       *)
(* cookie, which outlives a session that was revoked.                      *)
Visit(page) ==
  /\ tab' = Mounted(page, FALSE, FALSE)
  /\ UNCHANGED <<roleChanges, userRoles, signedIn, edits>>

(* GET /auth/me answers the shell: refused, the tab goes to the login page. *)
ReadMe ==
  /\ tab.known = Unread
  /\ IF signedIn THEN tab' = [tab EXCEPT !.known = Granted, !.stale = FALSE]
     ELSE tab' = [tab EXCEPT !.page = "profile", !.asked = {}, !.known = {}]
  /\ UNCHANGED <<roleChanges, userRoles, signedIn, edits>>

(* The shell leaves a page its permissions do not show. *)
Redirect ==
  /\ tab.known # Unread
  /\ ~Shown(tab.page, tab.known)
  /\ tab' = Mounted(FallbackHref(tab.page, tab.known), TRUE, tab.stale)
  /\ UNCHANGED <<roleChanges, userRoles, signedIn, edits>>

(* The API answers the loads of the page; one refusal empties the page. *)
AnswerLoads ==
  /\ tab.asked # {}
  /\ tab' = [tab EXCEPT !.asked = {}, !.empty = \E route \in tab.asked : ~Allowed(route)]
  /\ UNCHANGED <<roleChanges, userRoles, signedIn, edits>>

Edit ==
  /\ edits < RoleEdits
  /\ edits' = edits + 1
  /\ tab' = [tab EXCEPT !.stale = TRUE, !.changed = TRUE]

(* An administrator edits a role, which replaces its permissions. *)
EditRole(r, p) ==
  /\ Edit
  /\ roleChanges' = IF <<r, p>> \in roleChanges THEN roleChanges \ {<<r, p>>} ELSE roleChanges \cup {<<r, p>>}
  /\ UNCHANGED <<userRoles, signedIn>>

(* An administrator changes the groups of the user. *)
Regroup(roles) ==
  /\ Edit
  /\ roles # userRoles
  /\ userRoles' = roles
  /\ UNCHANGED <<roleChanges, signedIn>>

(* An administrator deactivates the user, or she signs out elsewhere. *)
EndSession ==
  /\ Edit
  /\ signedIn /\ signedIn' = FALSE
  /\ UNCHANGED <<roleChanges, userRoles>>

(* The seed runs again, at a deployment: it adds, and takes nothing away. *)
Seed ==
  /\ Edit
  /\ roleChanges' = {change \in roleChanges : change[2] \notin DEFAULT_ROLE_PERMISSIONS[change[1]]}
  /\ UNCHANGED <<userRoles, signedIn>>

AccessNext ==
  \/ \E page \in AppPages : Visit(page)
  \/ ReadMe
  \/ Redirect
  \/ AnswerLoads
  \/ \E r \in userRoles, p \in EditedPermissions : EditRole(r, p)
  \/ \E r \in Roles : Regroup({r})
  \/ EndSession
  \/ Seed

-----------------------------------------------------------------------------
AsSeeded == roleChanges = {}

(* A redirect of the shell leads to a page that the permissions it acted   *)
(* on show, so a redirect is never followed by another, back or onward,    *)
(* unless somebody changed the permissions since those were read.          *)
RedirectsSettle ==
  tab.byRedirect /\ ~tab.changed /\ tab.known # Unread => Shown(tab.page, tab.known)

(* With the roles as seeded, and whatever two roles a user has, a page her *)
(* sidebar shows is not emptied by the API refusing what the page loads.   *)
PagesNotEmptied ==
  tab.empty /\ ~tab.changed /\ signedIn /\ AsSeeded /\ tab.known # Unread => ~Shown(tab.page, tab.known)

(* The offers the API refuses, as the roles are seeded.  The client shows  *)
(* these without asking for the permission, and the role lacks it: a       *)
(* technician sees the edits of clients and the remote controls of devices *)
(* and may use neither; an auditor sees nearly every edit of the pages she *)
(* reads; a client's roles see the drafts, and file or ticket edits.       *)
(* Administrators and managers are refused nothing they are offered.       *)
RefusedTo(role, page) ==
  CASE page = "clients" /\ role \in {"Technician", "Auditor"} -> ClientEdits
    [] page = "devices" /\ role \in {"Technician", "Auditor"} -> RemoteControls
    [] page = "reports" /\ role = "Auditor" -> ReportEdits
    [] page = "tickets" /\ role = "ClientUser" -> TicketEdits
    [] page = "tickets" /\ role = "Auditor" -> TicketEdits \cup NewTickets
    [] page = "ticket" /\ role = "ClientManager" ->
         DraftControls \cup UploadControls \cup FileDeletions \cup FileDownloads \cup FilePreviews \cup NewSpecialists
    [] page = "ticket" /\ role = "ClientUser" -> ReplyControls \cup DraftControls \cup FileDeletions
    [] page = "ticket" /\ role = "Auditor" ->
         ReplyControls \cup DraftControls \cup UploadControls \cup FileDeletions \cup FileDownloads
    [] OTHER -> {}

(* With the roles as seeded, and while the shell knows what the user may   *)
(* do, a control that her page offers works, unless one of her roles is by *)
(* itself offered it and refused, as listed above.  So two roles together  *)
(* are refused nothing new, although one may open the page and another     *)
(* show the control.                                                       *)
OffersServed ==
  AsSeeded /\ signedIn /\ ~tab.stale /\ tab.known # Unread =>
    \A control \in PageControls(tab.page) :
      Offers(tab.page, control, tab.known) /\ ~Works(control) =>
        \E role \in userRoles :
          control \in RefusedTo(role, tab.page) /\ Offers(tab.page, control, RolePermissions(role))

(* A change of the accounts, the settings, the mailboxes or the workflow   *)
(* is never served to a user none of whose roles was given it: as seeded,  *)
(* only the two administrator roles are.                                   *)
AdministrationRoutes ==
  {route \in DOMAIN RouteNeeds : route[1] # "GET"}
  \cap (DOMAIN UsersController \cup DOMAIN GroupsController \cup DOMAIN RolesController
        \cup DOMAIN TicketTeamsController \cup DOMAIN SystemSettingsController \cup DOMAIN MailboxesController
        \cup DOMAIN MaintenanceController \cup DOMAIN SpamController \cup DOMAIN AiConfigController
        \cup DOMAIN SupportPortalController \cup DOMAIN TicketWorkflowController)
AdministratorsAlone ==
  AsSeeded /\ userRoles \cap {"SuperAdmin", "Admin"} = {} => \A route \in AdministrationRoutes : ~Allowed(route)

(* An auditor changes nothing but what is her own: the routes she may call *)
(* that are not reads keep views, preferences, her profile and her         *)
(* notifications, or check each field against a permission she lacks.      *)
OwnRoutes ==
  {route \in DOMAIN RouteNeeds : route[1] = "GET" \/ route \in DOMAIN ProfileController \cup DOMAIN NotificationsController}
  \cup {"POST", "PATCH", "DELETE"} \X {"tickets/views", "devices/views"}
  \cup {"PUT", "DELETE"} \X {"devices/:id/favorite"} \cup {<<"PUT", "dashboard/preferences">>}
  \cup {"PATCH"} \X {"tickets/bulk", "tickets/:id/state"}
AuditorsOnlyRead ==
  AsSeeded /\ userRoles = {"Auditor"} => \A route \in DOMAIN RouteNeeds \ OwnRoutes : ~Allowed(route)

(* Every permission a controller asks for is one of the catalogue. *)
CatalogueComplete == \A route \in DOMAIN RouteNeeds : RouteNeeds[route] \subseteq INITIAL_PERMISSIONS

(* The permissions that guard the API and those that shape the client agree: *)
(* the conjunction of the six statements above.                              *)
AccessAgrees ==
  /\ RedirectsSettle
  /\ PagesNotEmptied
  /\ OffersServed
  /\ AdministratorsAlone
  /\ AuditorsOnlyRead
  /\ CatalogueComplete
=============================================================================
