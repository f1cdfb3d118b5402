---------------------------- MODULE SettingsPages ----------------------------
(***************************************************************************)
(* The settings page (SettingsWorkspace.tsx), a section at a time.  All    *)
(* its sections share one busy value, the key of the call begun last, and  *)
(* one load, which rewrites the drafts of every form that edits a record.  *)
(* A control is disabled by its own key only.                              *)
(***************************************************************************)
EXTENDS PageOps

LOCAL Busy(key) == Key("busy", key)
LOCAL OwnKeys(handlers) == OwnFlag(handlers, DOMAIN handlers)

SettingsLoad == Calls({"loadSettingsData"}, NoFlag, "refresh")
SettingsRefresh == Off({"loadSettingsData"}, {On("loading")})

GeneralHandlers ==
  Posts({"saveGeneralSettings"}, Busy("general-settings"), "patch")
BrandingHandlers == Calls({"uploadBrandingAsset"}, Busy("branding"), "patch")
GeneralControls == OwnKeys(GeneralHandlers) @@ Off(DOMAIN BrandingHandlers, {})

MailboxHandlers ==
  Posts({"saveMailbox"}, ByRow("busy", "mailbox"), "reload")
  @@ Calls({"syncMailbox", "backfillMailbox"}, ByRow("busy", "mailbox"), "reload")
MailboxControls == OwnKeys(MailboxHandlers)

AutoReplyHandlers ==
  Posts({"saveAutoReplyTemplate"}, Busy("auto-reply"), "reload")
  @@ Calls({"deleteAutoReplyTemplate"}, ByRow("busy", "template"), "reload")
AutoReplyControls == OwnKeys(AutoReplyHandlers)

TeamHandlers ==
  Posts({"createTicketTeam"}, Busy("ticket-team"), "reload")
  @@ Posts({"updateTicketTeam"}, ByRow("busy", "team"), "reload")
  @@ Calls({"deactivateTicketTeam"}, ByRow("busy", "team"), "reload")
TeamControls == OwnKeys(TeamHandlers)

RoutingHandlers ==
  Posts({"submitRoutingRule"}, Busy("routing-rule"), "reload")
  @@ Calls({"deleteRoutingRule"}, ByRow("busy", "rule"), "reload")
  @@ Calls({"applyRoutingRulesToExistingTickets"}, Busy("routing-apply-existing"), "reload")
RoutingControls == OwnKeys(RoutingHandlers)

(* The domains chosen are associated side by side: some may fail. *)
DomainHandlers ==
  Calls({"associateDomain"}, ByRow("busy", "domain"), "reload")
  @@ Calls({"associateSelectedDomains"}, Busy("domain-bulk"), "reload")
DomainControls == OwnKeys(DomainHandlers)

NotificationHandlers ==
  Posts({"saveNotificationPreference"}, ByRow("busy", "preference"), "reload")
NotificationControls == OwnKeys(NotificationHandlers)

SpamHandlers ==
  Posts({"createSpamEntry"}, Busy("spam-create"), "reload")
  @@ Calls({"updateSpamEntry", "deleteSpamEntry"}, ByRow("busy", "spam"), "reload")
(* The notes of an entry are saved when the field loses the focus. *)
SpamNotes == Calls({"updateSpamNotes"}, ByRow("busy", "spam"), "reload")
SpamControls == OwnKeys(SpamHandlers) @@ Off(DOMAIN SpamNotes, {})

MaintenanceHandlers ==
  Posts({"saveMaintenanceSettings"}, Busy("maintenance-settings"), "reload")
  @@ Calls({"cleanupRecycleBin"}, Busy("maintenance-cleanup"), "reload")
QuarantineHandlers ==
  Calls({"rescanQuarantinedAttachment"}, ByRow("busy", "rescan"), "reload")
  @@ Calls({"rescanPendingAttachments"}, Busy("rescan-pending"), "reload")
  @@ Calls({"restoreQuarantinedAttachment"}, ByRow("busy", "restore"), "reload")
MaintenanceControls == OwnKeys(MaintenanceHandlers) @@ OwnKeys(QuarantineHandlers)

OperationsHandlers ==
  Posts({"saveOperationsSettings"}, Busy("operations-settings"), "patch")
OperationsSettingsControls == OwnKeys(OperationsHandlers)

LogHandlers == Calls({"applyAuditFilters"}, Busy("audit-logs"), "nothing")
LogControls == OwnKeys(LogHandlers)

SecurityHandlers ==
  Posts({"saveSecuritySettings"}, Busy("security-settings"), "patch")
SecurityControls == OwnKeys(SecurityHandlers)

ProviderHandlers ==
  Posts({"saveAiProvider"}, Busy("ai-provider"), "reload")
  @@ Calls({"deleteAiProvider"}, ByRow("busy", "ai-provider-delete"), "reload")
  @@ Posts({"addAiModel"}, ByRow("busy", "ai-model"), "reload")
  @@ Calls({"testAiProvider"}, ByRow("busy", "ai-test"), "nothing")
ActionHandlers ==
  Posts({"saveAiAction"}, ByRow("busy", "ai-action"), "reload")
  @@ Posts({"saveBulkAiActions"}, Busy("ai-action-bulk"), "reload")
AiControls == OwnKeys(ProviderHandlers) @@ OwnKeys(ActionHandlers)

HealthHandlers == Calls({"runSystemHealthCheck"}, Busy("system-health"), "patch")
HealthControls == OwnKeys(HealthHandlers)

SettingsHandlers ==
  SettingsLoad @@ GeneralHandlers @@ BrandingHandlers @@ MailboxHandlers @@ AutoReplyHandlers
  @@ TeamHandlers @@ RoutingHandlers @@ DomainHandlers @@ NotificationHandlers @@ SpamHandlers
  @@ SpamNotes @@ MaintenanceHandlers @@ QuarantineHandlers @@ OperationsHandlers @@ LogHandlers
  @@ SecurityHandlers @@ ProviderHandlers @@ ActionHandlers @@ HealthHandlers

SettingsButtons ==
  SettingsRefresh @@ GeneralControls @@ MailboxControls @@ AutoReplyControls @@ TeamControls
  @@ RoutingControls @@ DomainControls @@ NotificationControls @@ SpamControls
  @@ MaintenanceControls @@ OperationsSettingsControls @@ LogControls @@ SecurityControls
  @@ AiControls @@ HealthControls

SettingsCreate ==
  {"saveAutoReplyTemplate", "createTicketTeam", "submitRoutingRule", "createSpamEntry", "saveAiProvider", "addAiModel"}

SettingsPage ==
  Page(SettingsHandlers, SettingsButtons, SettingsCreate,
       {"associateSelectedDomains", "saveBulkAiActions"}, {})
=============================================================================
