------------------------------ MODULE PanelPages ------------------------------
(***************************************************************************)
(* Small pages.  The settings panels with data of their own: the support   *)
(* portal, ticket workflow, the RMM integration, the knowledge base and    *)
(* external specialists.  And the pages of visitors who are not signed in, *)
(* with the bell: the public requests for an event and for support,        *)
(* signing in and resetting a password.                                    *)
(***************************************************************************)
EXTENDS PageOps

LOCAL Busy(key) == Key("busy", key)
LOCAL OwnKeys(handlers) == OwnFlag(handlers, DOMAIN handlers)

(* SupportPortalConfigPanel.tsx *)
PortalHandlers == Calls({"saveSettings"}, Busy("settings"), "reload")
SectionHandlers ==
  Posts({"createSection"}, Busy("create-section"), "reload")
  @@ Calls({"updateSection", "deleteSection"}, ByRow("busy", "section"), "reload")
  @@ Calls({"moveSection"}, Busy("reorder-sections"), "replace")
FieldHandlers ==
  Posts({"createField"}, Busy("create-field"), "reload")
  @@ Calls({"updateField", "deleteField"}, ByRow("busy", "field"), "reload")
  @@ Calls({"moveField"}, Busy("reorder-fields"), "replace")

SupportPortalPage ==
  Page(PortalHandlers @@ SectionHandlers @@ FieldHandlers,
       OwnKeys(PortalHandlers) @@ OwnKeys(SectionHandlers) @@ OwnKeys(FieldHandlers),
       {"createSection", "createField"}, {}, {})

-----------------------------------------------------------------------------
(* TicketWorkflowConfigPanel.tsx *)
WorkflowLoad == Calls({"load"}, NoFlag, "refresh")
StatusHandlers ==
  Posts({"saveStatus"}, Busy("STATUS"), "reload")
  @@ Calls({"removeStatus", "restoreStatus"}, ByRow("busy", "status"), "reload")
RuleHandlers ==
  Posts({"saveRule"}, Busy("RULE"), "reload")
  @@ Calls({"deleteRule", "toggleRule"}, ByRow("busy", "rule"), "reload")

WorkflowPage ==
  Page(WorkflowLoad @@ StatusHandlers @@ RuleHandlers,
       Off({"load"}, {On("loading")}) @@ OwnKeys(StatusHandlers) @@ OwnKeys(RuleHandlers),
       {"saveStatus", "saveRule"}, {}, {})

-----------------------------------------------------------------------------
(* RmmConfigPanel.tsx *)
RmmHandlers ==
  Calls({"saveSettings"}, Busy("save"), "patch") @@ Calls({"syncDevices"}, Busy("sync"), "patch")
RmmPage == Page(RmmHandlers, Off(DOMAIN RmmHandlers, {AnyOf("busy")}), {}, {}, {})

(* KnowledgeConfigPanel.tsx: connecting saves, and then leaves for         *)
(* Microsoft's page.                                                       *)
ConnectionHandlers ==
  Calls({"saveSettings"}, Busy("save"), "patch")
  @@ Calls({"connectOneNote"}, Busy("connect"), "leave")
  @@ Calls({"disconnectOneNote"}, Busy("disconnect"), "reload")
  @@ Calls({"testConnection"}, Busy("test"), "nothing")
KnowledgePanelPage == Page(ConnectionHandlers, OwnKeys(ConnectionHandlers), {}, {"connectOneNote"}, {})

(* ExternalSpecialistsSettingsPanel.tsx *)
ExternalPanelHandlers ==
  Calls({"load"}, NoFlag, "refresh")
  @@ Posts({"save"}, Busy("save"), "patch")
  @@ Calls({"archive"}, ByRow("busy", "archive"), "patch")
ExternalSpecialistsPage ==
  Page(ExternalPanelHandlers,
       Off({"load"}, {On("loading")}) @@ OwnFlag(ExternalPanelHandlers, {"save", "archive"}),
       {"save"}, {}, {})

-----------------------------------------------------------------------------
LOCAL Submitting == On("submitting")

PublicEventHandlers == Posts({"submit"}, Submitting, "leave")
PublicEventPage == Page(PublicEventHandlers, Off({"submit"}, {Submitting}), {"submit"}, {}, {})

PublicTicketHandlers == Posts({"submit"}, Submitting, "leave")
PublicTicketPage == Page(PublicTicketHandlers, Off({"submit"}, {Submitting}), {"submit"}, {}, {})

(* Password, code and forgotten password share one boolean. *)
LoginHandlers ==
  Posts({"handleSubmit"}, On("loading"), "leave")
  @@ Posts({"handleMfaSubmit"}, On("loading"), "leave")
  @@ Posts({"handleForgotPassword"}, On("loading"), "nothing")
LoginPage == Page(LoginHandlers, Off(DOMAIN LoginHandlers, {On("loading")}), DOMAIN LoginHandlers, {}, {})

ResetHandlers == Posts({"submit"}, On("loading"), "leave")
ResetPage == Page(ResetHandlers, Off({"submit"}, {On("loading")}), {"submit"}, {}, {})

BellHandlers == Calls({"markAllRead"}, On("busy"), "reload")
BellPage == Page(BellHandlers, Off({"markAllRead"}, {On("busy")}), {}, {}, {})
=============================================================================
