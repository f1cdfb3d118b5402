----------------------------- MODULE OfficePages -----------------------------
(***************************************************************************)
(* The other workspaces of the web client: clients, users, the profile,    *)
(* reports, devices, operations, projects and the dashboard.               *)
(***************************************************************************)
EXTENDS PageOps

LOCAL OwnKeys(handlers) == OwnFlag(handlers, DOMAIN handlers)
LOCAL Saving == On("saving")

(* Clients (ClientsWorkspace.tsx): every writer reads the clients anew and *)
(* the contacts of the client it was called for.                           *)
ClientsLoad == Calls({"loadClients"}, NoFlag, "refresh")
ClientHandlers == Posts({"saveClient"}, Saving, "reload") @@ Calls({"deleteClient"}, Saving, "reload")
DomainRowHandlers ==
  Posts({"addDomain"}, Saving, "reload") @@ Calls({"updateDomain", "deleteDomain"}, Saving, "reload")
ContactHandlers == Posts({"saveContact"}, Saving, "reload") @@ Calls({"deleteContact"}, Saving, "reload")

ClientsControls ==
  Off({"loadClients"}, {On("loading"), Saving})
  @@ Off({"saveClient", "deleteClient", "addDomain", "saveContact"}, {Saving})
  @@ Off({"updateDomain", "deleteDomain", "deleteContact"}, {})

ClientsPage ==
  Page(ClientsLoad @@ ClientHandlers @@ DomainRowHandlers @@ ContactHandlers, ClientsControls,
       {"saveClient", "addDomain", "saveContact"}, {}, {"queried"})

-----------------------------------------------------------------------------
(* Users, groups and roles (UsersWorkspace.tsx). *)
AccessLoad == Calls({"loadAccessData"}, NoFlag, "refresh")
UserHandlers == Posts({"saveUser"}, Saving, "reload") @@ Calls({"deleteUser", "resetUserMfa"}, Saving, "reload")
GroupHandlers == Posts({"saveGroup"}, Saving, "reload") @@ Calls({"deleteGroup"}, Saving, "reload")
RoleHandlers == Posts({"saveRole"}, Saving, "reload") @@ Calls({"deleteRole"}, Saving, "reload")

UsersButtons ==
  Off({"loadAccessData"}, {On("loading"), Saving})
  @@ Off(DOMAIN UserHandlers \cup DOMAIN GroupHandlers \cup DOMAIN RoleHandlers, {Saving})

UsersPage ==
  Page(AccessLoad @@ UserHandlers @@ GroupHandlers @@ RoleHandlers, UsersButtons,
       {"saveUser", "saveGroup", "saveRole"}, {}, {})

-----------------------------------------------------------------------------
(* The profile (ProfileWorkspace.tsx). *)
AccountHandlers == Calls({"saveAccount"}, Key("busy", "account"), "reload")
PasswordHandlers == Posts({"savePassword"}, Key("busy", "password"), "nothing")
MfaHandlers ==
  Calls({"startMfaSetup"}, Key("busy", "mfa"), "nothing")
  @@ Posts({"confirmMfaSetup"}, Key("busy", "mfa"), "reload")
  @@ Posts({"disableMfa"}, Key("busy", "mfa"), "reload")
NotificationTypeHandlers == Calls({"saveNotifications"}, Key("busy", "notifications"), "patch")
SignatureHandlers == Calls({"saveSignature"}, Key("busy", "signature"), "patch")
LOCAL ProfileHandlers ==
  AccountHandlers @@ PasswordHandlers @@ MfaHandlers @@ NotificationTypeHandlers @@ SignatureHandlers

ProfilePage == Page(ProfileHandlers, OwnKeys(ProfileHandlers), {}, {}, {})

-----------------------------------------------------------------------------
(* Reports (ReportsWorkspace.tsx): the report, and the saved reports and   *)
(* schedules beside it.                                                    *)
ReportHandlers == Calls({"loadReport"}, NoFlag, "refresh")
ReportPage == Page(ReportHandlers, Off({"loadReport"}, {}), {}, {}, {"queried"})

SavedReportHandlers ==
  Posts({"saveReport"}, On("savedBusy"), "reload")
  @@ Calls({"updateSavedReport", "deleteSavedReport"}, On("savedBusy"), "reload")
DeliveryHandlers ==
  Posts({"sendReport", "createSchedule"}, On("deliveryBusy"), "reload")
  @@ Calls({"toggleSchedule", "deleteSchedule"}, On("deliveryBusy"), "reload")

ReportToolsPage ==
  Page(SavedReportHandlers @@ DeliveryHandlers, OwnKeys(SavedReportHandlers) @@ OwnKeys(DeliveryHandlers),
       {"saveReport", "sendReport", "createSchedule"}, {}, {"queried"})

-----------------------------------------------------------------------------
(* Devices (DevicesWorkspace.tsx) and one device (DeviceDetailWorkspace).  *)
DevicesLoad == Calls({"loadDevices"}, NoFlag, "refresh")
SyncHandlers == Calls({"syncDevices"}, Key("busy", "sync"), "reload")
DeviceViewHandlers ==
  Posts({"saveCurrentView"}, Key("busy", "view"), "nothing")
  @@ Calls({"deleteCurrentView"}, Key("busy", "view"), "nothing")
FavoriteHandlers == Calls({"toggleFavorite"}, ByRow("busy", "favorite"), "patch")
RemoteHandlers == Calls({"openRemote"}, ByRow("busy", "remote"), "nothing")

DevicesControls ==
  Off({"loadDevices"}, {On("loading")}) @@ Off({"syncDevices"}, {AnyOf("busy")})
  @@ OwnKeys(DeviceViewHandlers) @@ OwnKeys(FavoriteHandlers) @@ OwnKeys(RemoteHandlers)

DevicesPage ==
  Page(DevicesLoad @@ SyncHandlers @@ DeviceViewHandlers @@ FavoriteHandlers @@ RemoteHandlers, DevicesControls,
       {"saveCurrentView"}, {}, {"queried"})

DeviceHandlers ==
  Calls({"loadDevice"}, NoFlag, "refresh")
  @@ Calls({"openRemote"}, ByRow("busy", "remote"), "nothing")
  @@ Calls({"refreshRmmDetails"}, Key("busy", "details"), "replace")
DevicePage ==
  Page(DeviceHandlers,
       Off({"loadDevice"}, {On("loading")}) @@ OwnFlag(DeviceHandlers, {"openRemote", "refreshRmmDetails"}),
       {}, {}, {})

-----------------------------------------------------------------------------
(* Operations (OperationsWorkspace.tsx).  The executive report is defined  *)
(* and then scheduled; its button is never disabled.                       *)
OperationsLoad == Calls({"load"}, NoFlag, "refresh")
WorkItemHandlers == Calls({"updateStatus"}, ByRow("updatingItemId", "item"), "reload")
ExecutiveReportHandlers == Posts({"scheduleExecutiveReport"}, NoFlag, "nothing")

OperationsPage ==
  Page(OperationsLoad @@ WorkItemHandlers @@ ExecutiveReportHandlers,
       Off({"load"}, {On("loading")}) @@ OwnKeys(WorkItemHandlers) @@ Off({"scheduleExecutiveReport"}, {}),
       {"scheduleExecutiveReport"}, {"scheduleExecutiveReport"}, {})

-----------------------------------------------------------------------------
(* Projects (ProjectsWorkspace.tsx): every call is followed by a load,     *)
(* which empties the forms of the project shown.                           *)
ProjectsLoad == Calls({"load"}, NoFlag, "refresh")
ProjectHandlers ==
  Calls({"saveProject", "removeProject", "quickUpdateProject"}, Saving, "reload")
PlanHandlers ==
  Fills({"addMilestone", "addDecision", "addWorkItem", "addDependency"}, Saving, "reload")
  @@ Calls({"updateMilestone", "removeMilestone", "updateDecision", "removeWorkItem", "removeDependency"},
           Saving, "reload")
TemplateHandlers ==
  Posts({"saveTemplate"}, Saving, "reload") @@ Calls({"applyTemplate", "removeTemplate"}, Saving, "reload")
LOCAL ProjectWriters == ProjectHandlers @@ PlanHandlers @@ TemplateHandlers

ProjectsPage ==
  Page(ProjectsLoad @@ ProjectWriters, Off({"load"}, {On("loading")}) @@ OwnKeys(ProjectWriters),
       {"addMilestone", "addDecision", "addWorkItem", "addDependency", "saveTemplate"}, {}, {})

NewProjectHandlers == Posts({"submit"}, Saving, "leave")
NewProjectPage == Page(NewProjectHandlers, OwnKeys(NewProjectHandlers), {"submit"}, {}, {})

-----------------------------------------------------------------------------
(* The dashboard (DashboardWorkspace.tsx): its layout is a form of its own. *)
LayoutHandlers == Calls({"saveDashboardPreference"}, On("savingPreference"), "replace")
DashboardPage == Page(LayoutHandlers, OwnKeys(LayoutHandlers), {}, {}, {})
=============================================================================
