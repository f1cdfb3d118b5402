----------------------------- MODULE ApiRoutes -----------------------------
(***************************************************************************)
(* The HTTP surface of the API: for every route the permissions its        *)
(* controller asks for, and the permissions the seven seeded roles hold.   *)
(* A permission is <<area, verb>>, a route is <<method, path>>.  Each      *)
(* controller is one function from its routes to the set of permissions    *)
(* that SessionAuthGuard and PermissionsGuard demand together; the routes  *)
(* without a guard are listed apart, since nobody is refused there.        *)
(***************************************************************************)
May(area, verbs) == {area} \X verbs
Crud == {"view", "create", "update", "delete"}

(* Every route of paths, under each of methods, needs exactly needed. *)
Needs(needed, methods, paths) == [route \in methods \X paths |-> needed]
Read == {"GET"}
Open == {}

(* The routes of several tables together: no two of them have one in common. *)
Together(tables) ==
  [route \in UNION {DOMAIN table : table \in tables} |-> (CHOOSE table \in tables : route \in DOMAIN table)[route]]

INITIAL_PERMISSIONS ==
  {"users", "groups", "roles", "clients", "client_domains", "contacts", "projects", "mailboxes",
   "auto_replies", "devices"} \X Crud
  \cup May("permissions", {"view"})
  \cup May("tickets", Crud \cup {"assign", "reply", "close", "reopen", "merge"})
  \cup May("ticket_statuses", {"view", "manage"}) \cup May("ticket_workflows", {"manage"})
  \cup May("operations", {"view"})
  \cup May("event_services", Crud \cup {"assign", "manage_forms"})
  \cup May("external_specialists", {"view", "manage"})
  \cup May("ticket_messages", {"view", "create_internal", "create_public"})
  \cup May("ticket_attachments", {"view", "upload", "download", "delete"})
  \cup May("spam", {"view", "manage"}) \cup May("maintenance", {"view", "manage"})
  \cup May("signatures", {"view", "update"}) \cup May("ai_assistant", {"use", "configure"})
  \cup May("knowledge_base", Crud \cup {"publish"})
  \cup May("reports", {"view", "export", "manage", "send"})
  \cup May("remote_access", {"view", "connect", "configure"})
  \cup May("audit_logs", {"view", "export"}) \cup May("system_settings", {"view", "update"})

ManagerLacks ==
  {p \in INITIAL_PERMISSIONS : p[1] \in {"system_settings", "mailboxes", "maintenance", "spam", "roles"}}
  \cup May("permissions", {"view"}) \cup May("audit_logs", {"export"})
  \cup May("ai_assistant", {"configure"}) \cup May("ticket_statuses", {"manage"})
  \cup May("ticket_workflows", {"manage"})
  \cup {"users", "groups"} \X {"create", "update", "delete"}

\* Mutant: a technician may do whatever she may see.
TechnicianHoldsAll ==
  {p \in INITIAL_PERMISSIONS : p[1] \in {"tickets", "event_services", "external_specialists",
     "ticket_messages", "ticket_attachments", "knowledge_base", "devices", "groups", "users", "clients", "contacts"}}

TechnicianHolds ==
  {p \in INITIAL_PERMISSIONS : p[1] \in {"tickets", "event_services", "external_specialists",
     "ticket_messages", "ticket_attachments", "knowledge_base", "devices"}}
  \cup {"ticket_statuses", "operations", "projects", "clients", "contacts", "groups", "users"} \X {"view"}
  \cup May("ai_assistant", {"use"})

(* What the seed grants to each role of a new organization. *)
DEFAULT_ROLE_PERMISSIONS ==
  [SuperAdmin |-> INITIAL_PERMISSIONS,
   Admin |-> INITIAL_PERMISSIONS,
   Manager |-> INITIAL_PERMISSIONS \ ManagerLacks,
   Technician |-> TechnicianHolds,
   ClientManager |-> {p \in INITIAL_PERMISSIONS : p[1] \in {"clients", "client_domains", "contacts",
                        "tickets", "ticket_messages"}} \cup May("ticket_statuses", {"view"}),
   ClientUser |-> May("tickets", {"view", "create"}) \cup May("ticket_statuses", {"view"})
                  \cup May("ticket_messages", {"view", "create_public"})
                  \cup May("ticket_attachments", {"view", "upload", "download"}),
   Auditor |-> {"tickets", "ticket_statuses", "ticket_messages", "ticket_attachments", "clients",
                "contacts", "devices", "reports", "audit_logs"} \X {"view"}]

TicketsController ==
  Together(
    {Needs(May("tickets", {"view"}), Read,
           {"tickets", "tickets/views", "tickets/statistics", "tickets/assignment-options",
            "tickets/:id/merge-candidates", "tickets/:id"}),
     Needs(May("tickets", {"view"}), {"POST", "PATCH", "DELETE"}, {"tickets/views"}),
     Needs(May("tickets", {"view"}), {"PATCH"}, {"tickets/bulk", "tickets/:id/state"}),
     Needs(May("tickets", {"create"}), {"POST"}, {"tickets"}),
     Needs(May("tickets", {"delete"}), {"POST"}, {"tickets/bulk/delete"}),
     Needs(May("tickets", {"update"}), {"POST", "DELETE"}, {"tickets/:id/external-specialists"}),
     Needs(May("tickets", {"update"}), {"POST"}, {"tickets/bulk/restore"}),
     Needs(May("tickets", {"update"}), {"PATCH"}, {"tickets/:id/planning", "tickets/:id/watchers"}),
     Needs(May("tickets", {"merge"}), {"POST"}, {"tickets/:id/merge"}),
     Needs(May("tickets", {"assign"}), {"PATCH"}, {"tickets/:id/assignment"}),
     Needs(May("tickets", {"close"}), {"POST"}, {"tickets/:id/close"}),
     Needs(May("tickets", {"reply"}), {"POST"}, {"tickets/:id/messages"})})

TicketAttachmentsController ==
  Together(
    {Needs(May("ticket_attachments", {"upload"}), {"POST"}, {"tickets/:id/attachments"}),
     Needs(May("ticket_attachments", {"download"}), Read,
           {"tickets/:id/attachments/download-all", "tickets/:id/attachments/:file/download"}),
     Needs(May("ticket_attachments", {"view"}), Read, {"tickets/:id/attachments/:file/preview"}),
     Needs(May("ticket_attachments", {"delete"}), {"DELETE"}, {"tickets/:id/attachments"})})

SupportPortalController ==
  Together(
    {Needs(May("system_settings", {"view"}), Read, {"support-portal/config"}),
     Needs(May("system_settings", {"update"}), {"PATCH"}, {"support-portal/config"}),
     Needs(May("system_settings", {"update"}), {"POST", "PATCH", "DELETE"},
           {"support-portal/form/fields", "support-portal/form/sections"})})

TicketRoutingController ==
  Together(
    {Needs(May("tickets", {"view"}), Read, {"ticket-routing-rules"}),
     Needs(May("tickets", {"assign"}), {"POST", "PATCH", "DELETE"}, {"ticket-routing-rules"}),
     Needs(May("tickets", {"assign"}), {"POST"}, {"ticket-routing-rules/apply-existing"})})

TicketTeamsController ==
  Together(
    {Needs(May("tickets", {"assign"}), Read, {"ticket-teams"}),
     Needs(May("groups", {"create"}), {"POST"}, {"ticket-teams"}),
     Needs(May("groups", {"update"}), {"PATCH"}, {"ticket-teams"}),
     Needs(May("groups", {"delete"}), {"DELETE"}, {"ticket-teams"})})

TicketWorkflowController ==
  Together(
    {Needs(May("ticket_statuses", {"view"}), Read, {"ticket-workflow/statuses"}),
     Needs(May("ticket_statuses", {"manage"}), {"POST", "PATCH", "DELETE"}, {"ticket-workflow/statuses"}),
     Needs(May("ticket_statuses", {"manage"}), {"POST"}, {"ticket-workflow/statuses/:id/restore"}),
     Needs(May("ticket_workflows", {"manage"}), {"GET", "POST", "PATCH", "DELETE"}, {"ticket-workflow/rules"}),
     Needs(May("ticket_workflows", {"manage"}), Read, {"ticket-workflow/history"})})

AiAssistantController ==
  Together(
    {Needs(May("ai_assistant", {"use"}) \cup May("tickets", {"view", "reply"}), {"POST"}, {"tickets/:id/ai/draft"}),
     Needs(May("ai_assistant", {"use"}) \cup May("tickets", {"view"}), {"GET", "POST"}, {"tickets/:id/ai/brief"}),
     Needs(May("ai_assistant", {"use"}) \cup May("tickets", {"view"}), {"POST"},
           {"tickets/:id/ai/summarize", "tickets/:id/ai/brief/translations"})})

EventAiController == Needs(May("ai_assistant", {"use"}), {"POST"}, {"event-services/:id/ai/draft"})

AiConfigController ==
  Together(
    {Needs(May("ai_assistant", {"configure"}), {"GET", "POST", "PATCH", "DELETE"}, {"ai/providers"}),
     Needs(May("ai_assistant", {"configure"}), {"POST"}, {"ai/providers/:id/models", "ai/providers/:id/test"}),
     Needs(May("ai_assistant", {"configure"}), {"GET", "PATCH"}, {"ai/action-settings"})})

(* The four verbs of one table, each asking for the permission of its name. *)
Table(area, path) ==
  Together(
    {Needs(May(area, {"view"}), Read, {path}),
     Needs(May(area, {"create"}), {"POST"}, {path}),
     Needs(May(area, {"update"}), {"PATCH"}, {path}),
     Needs(May(area, {"delete"}), {"DELETE"}, {path})})

UsersController ==
  Together(
    {Table("users", "users"),
     Needs(May("tickets", {"assign"}), Read, {"users/assignable"}),
     Needs(May("users", {"update"}), {"POST"}, {"users/:id/reset-mfa"})})

GroupsController == Table("groups", "groups")
RolesController == Table("roles", "roles")
PermissionsController == Needs(May("permissions", {"view"}), Read, {"permissions"})
ClientsController == Table("clients", "clients")
ContactsController == Table("contacts", "contacts")
AutoRepliesController == Table("auto_replies", "auto-replies")
ClientDomainsController ==
  Together(
    {Table("client_domains", "client-domains"),
     Needs(May("client_domains", {"view"}), Read, {"client-domains/unmapped"}),
     Needs(May("client_domains", {"update"}), {"POST"}, {"client-domains/unmapped/:id/associate"})})

ExternalSpecialistsController ==
  Together(
    {Needs(May("external_specialists", {"view"}), Read, {"external-specialists"}),
     Needs(May("external_specialists", {"manage"}), {"POST", "PATCH", "DELETE"}, {"external-specialists"})})

EventPublicRoutes == {<<"GET", "public/event-services/form">>, <<"POST", "public/event-services/requests">>}

EventListController ==
  Together(
    {Needs(May("event_services", {"view"}), Read,
           {"event-services", "event-services/recycle-bin", "event-services/my-tasks",
            "event-services/calendar", "event-services/services"}),
     Needs(May("event_services", {"update"}), {"POST"},
           {"event-services", "event-services/recycle-bin", "event-services/recycle-bin/restore"}),
     Needs(May("event_services", {"view"}), {"PATCH"}, {"event-services/my-tasks"})})

EventConfigController ==
  Together(
    {Needs(May("event_services", {"manage_forms"}), {"GET", "PATCH"},
           {"event-services/config/turnstile", "event-services/config/portal", "event-services/config/calendar"}),
     Needs(May("event_services", {"manage_forms"}), {"POST", "PATCH"},
           {"event-services/services", "event-services/form/fields"}),
     Needs(May("event_services", {"manage_forms"}), Read, {"event-services/form"})})

EventRequestController ==
  Together(
    {Needs(May("event_services", {"view"}), Read,
           {"event-services/:id", "event-services/:id/attachments/download", "event-services/:id/attachments/preview"}),
     Needs(May("event_services", {"update"}), {"PATCH"}, {"event-services/:id"}),
     Needs(May("event_services", {"update"}), {"POST", "PATCH"}, {"event-services/:id/tasks"}),
     Needs(May("event_services", {"update"}), {"POST"},
           {"event-services/:id/tasks/calendar", "event-services/:id/tasks/external-invite",
            "event-services/:id/comments", "event-services/:id/messages"}),
     Needs(May("event_services", {"update"}), {"POST", "DELETE"},
           {"event-services/:id/external-specialists", "event-services/:id/attachments"})})

ProjectsController ==
  Together(
    {Needs(May("projects", {"view"}), Read, {"projects", "projects/templates", "projects/:id"}),
     Needs(May("projects", {"create"}), {"POST"}, {"projects", "projects/templates", "projects/templates/apply"}),
     Needs(May("projects", {"delete"}), {"DELETE"}, {"projects", "projects/templates"}),
     Needs(May("projects", {"update"}), {"PATCH"}, {"projects"}),
     Needs(May("projects", {"update"}), {"POST", "PATCH"}, {"projects/:id/decisions"}),
     Needs(May("projects", {"update"}), {"POST", "PATCH", "DELETE"}, {"projects/:id/milestones"}),
     Needs(May("projects", {"update"}), {"POST", "DELETE"}, {"projects/:id/work-items", "projects/:id/dependencies"})})

ReportsController ==
  Together(
    {Needs(May("reports", {"view"}), Read,
           {"reports/summary", "reports/definitions", "reports/templates", "reports/exports", "reports/schedules"}),
     Needs(May("reports", {"manage"}), {"POST", "PATCH", "DELETE"}, {"reports/definitions", "reports/schedules"}),
     Needs(May("reports", {"export"}), Read, {"reports/export"}),
     Needs(May("reports", {"send"}), {"POST"}, {"reports/send"}),
     Needs(May("reports", {"view"}) \cup May("projects", {"view"}), Read, {"reports/projects/executive-summary"}),
     Needs(May("reports", {"export"}) \cup May("projects", {"view"}), Read, {"reports/projects/executive-export"}),
     Needs(May("reports", {"send"}) \cup May("projects", {"view"}), {"POST"}, {"reports/projects/executive-send"})})

DevicesController ==
  Together(
    {Needs(May("devices", {"view"}), Read, {"devices", "devices/views", "devices/:id"}),
     Needs(May("devices", {"view"}), {"POST", "PATCH", "DELETE"}, {"devices/views"}),
     Needs(May("devices", {"view"}), {"PUT", "DELETE"}, {"devices/:id/favorite"}),
     Needs(May("remote_access", {"configure"}), {"GET", "PATCH"}, {"devices/rmm-settings"}),
     Needs(May("remote_access", {"configure"}), {"POST"}, {"devices/rmm-sync"}),
     Needs(May("remote_access", {"connect"}), {"POST"}, {"devices/:id/rmm-details/refresh"})})

RemoteAccessController ==
  Needs(May("remote_access", {"connect"}), {"POST"}, {"devices/:id/remote-access/connection-attempts"})

DashboardController ==
  Together(
    {Needs(May("tickets", {"view"}), {"GET", "PUT"}, {"dashboard/preferences"}),
     Needs(May("devices", {"view"}), Read, {"dashboard/device-statistics"})})

OperationsController ==
  Needs({"operations", "tickets", "event_services"} \X {"view"}, Read, {"operations/overview"})

KnowledgeController ==
  Together(
    {Needs(May("knowledge_base", {"view"}), Read,
           {"knowledge-base/categories", "knowledge-base/articles", "knowledge-base/articles/attachments"}),
     Needs(May("knowledge_base", {"create"}), {"POST"},
           {"knowledge-base/categories", "knowledge-base/articles", "knowledge-base/articles/from-ticket"}),
     Needs(May("knowledge_base", {"update"}), {"PATCH"}, {"knowledge-base/categories", "knowledge-base/articles"}),
     Needs(May("knowledge_base", {"update"}), {"POST"},
           {"knowledge-base/articles/bulk-status", "knowledge-base/articles/sync-onenote-media",
            "knowledge-base/articles/attachments"}),
     Needs(May("knowledge_base", {"delete"}), {"POST"}, {"knowledge-base/articles/bulk-delete"}),
     Needs(May("knowledge_base", {"delete"}), {"DELETE"}, {"knowledge-base/articles"})})

KnowledgeImportController ==
  Together(
    {Needs(May("knowledge_base", {"create"}), {"POST"},
           {"knowledge-base/import/pdf", "knowledge-base/import/onenote", "knowledge-base/import/commit"}),
     Needs(May("knowledge_base", {"create"}), Read, {"knowledge-base/import/onenote"}),
     Needs(May("system_settings", {"view"}), Read, {"knowledge-base/config/onenote"}),
     Needs(May("system_settings", {"update"}), {"PATCH", "POST", "DELETE"}, {"knowledge-base/config/onenote"})})

MailboxesController ==
  Together(
    {Needs(May("mailboxes", {"view"}), Read, {"mailboxes"}),
     Needs(May("mailboxes", {"update"}), {"PATCH"}, {"mailboxes"}),
     Needs(May("mailboxes", {"update"}), {"POST"}, {"mailboxes/:id/sync", "mailboxes/:id/backfill"})})

MaintenanceController ==
  Together(
    {Needs(May("maintenance", {"view"}), Read,
           {"maintenance/recycle-bin/summary", "maintenance/attachment-quarantine"}),
     Needs(May("maintenance", {"manage"}), {"PATCH"}, {"maintenance/recycle-bin/settings"}),
     Needs(May("maintenance", {"manage"}), {"POST"},
           {"maintenance/recycle-bin/cleanup", "maintenance/attachment-quarantine/rescan",
            "maintenance/attachment-quarantine/restore"})})

SpamController ==
  Together(
    {Needs(May("spam", {"view"}), Read, {"spam-blocklist"}),
     Needs(May("spam", {"manage"}), {"POST", "PATCH", "DELETE"}, {"spam-blocklist"})})

NotificationsController ==
  Together(
    {Needs(Open, Read, {"notifications", "notification-preferences/me"}),
     Needs(Open, {"PATCH"}, {"notifications", "notification-preferences/me"}),
     Needs(Open, {"POST"}, {"notifications/read-all"}),
     Needs(May("system_settings", {"view"}), Read, {"notification-preferences/users"}),
     Needs(May("system_settings", {"update"}), {"PATCH"}, {"notification-preferences/users"})})

ProfileController ==
  Together(
    {Needs(Open, {"GET", "PATCH"}, {"profile", "profile/signature"}),
     Needs(Open, {"PATCH"}, {"profile/password"}),
     Needs(Open, {"POST"}, {"profile/mfa/setup", "profile/mfa/confirm", "profile/mfa/disable"})})

SystemHealthController ==
  Together(
    {Needs(Open, Read, {"system-health/summary"}),
     Needs(May("system_settings", {"view"}), {"POST"}, {"system-health/check"}),
     Needs(May("system_settings", {"view"}), Read, {"system-health/history", "system-health/timeline"})})

SystemSettingsController ==
  Together(
    {Needs(May("system_settings", {"view"}), Read,
           {"system-settings/general", "system-settings/operations", "system-settings/security",
            "system-settings/attachment-policy", "system-settings/security-posture"}),
     Needs(May("system_settings", {"update"}), {"PATCH"},
           {"system-settings/general", "system-settings/operations", "system-settings/security"}),
     Needs(May("system_settings", {"update"}), {"POST"}, {"system-settings/branding-assets"}),
     Needs(May("audit_logs", {"view"}), Read, {"system-settings/audit-logs"}),
     Needs(May("audit_logs", {"export"}), Read, {"system-settings/audit-logs/export"})})

(* Routes without SessionAuthGuard: signing in, the public forms and pages. *)
AuthRoutes ==
  {"POST"} \X {"auth/login", "auth/mfa/verify-login", "auth/forgot-password", "auth/reset-password", "auth/logout"}
  \cup {"GET"} \X {"auth/microsoft/login", "auth/microsoft/callback", "auth/microsoft/mfa-challenge"}
AuthController == Needs(Open, Read, {"auth/me"})

(* What a call of route asks for, over all controllers. *)
RouteNeeds ==
  Together(
    {TicketsController, TicketAttachmentsController, SupportPortalController,
     TicketRoutingController, TicketTeamsController, TicketWorkflowController,
     AiAssistantController, EventAiController, AiConfigController, UsersController,
     GroupsController, RolesController, PermissionsController, ClientsController,
     ContactsController, AutoRepliesController, ClientDomainsController,
     ExternalSpecialistsController, EventListController, EventConfigController,
     EventRequestController, ProjectsController, ReportsController, DevicesController,
     RemoteAccessController, DashboardController, OperationsController, KnowledgeController,
     KnowledgeImportController, MailboxesController, MaintenanceController, SpamController,
     NotificationsController, ProfileController, SystemHealthController, SystemSettingsController,
     AuthController})
=============================================================================
