----------------------------- MODULE TicketPages -----------------------------
(* The page of a ticket (TicketDetailWorkspace.tsx) and the list of tickets  *)
(* (TicketsList.tsx) as tables of calls and controls.                        *)
EXTENDS PageOps

(* The page of a ticket. *)
AssignmentHandlers == Calls({"saveAssignment"}, On("assignmentBusy"), "patch")
StateHandlers == Calls({"updateTicketState"}, Key("toolBusy", "STATE"), "replace")
PlanningHandlers == Posts({"savePlanning"}, On("saving"), "patch")
ExternalHandlers ==
  Posts({"createExternalSpecialist"}, Key("toolBusy", "external-create"), "patch")
  @@ Calls({"addExternalToTicket"}, Key("toolBusy", "external-assign"), "replace")
  @@ Calls({"removeExternalFromTicket"}, ByRow("toolBusy", "external"), "replace")
MergeHandlers == Posts({"mergeTickets"}, On("mergeBusy"), "replace")
ToolHandlers ==
  Calls({"blockSenderEmail"}, Key("toolBusy", "EMAIL"), "nothing")
  @@ Calls({"blockSenderDomain"}, Key("toolBusy", "DOMAIN"), "nothing")
  @@ Calls({"createKnowledgeArticleDraft"}, Key("toolBusy", "KB"), "leave")
  @@ Calls({"deleteCurrentTicket"}, Key("toolBusy", "DELETE"), "leave")
BriefHandlers ==
  Calls({"generateAiBrief"}, On("aiBriefLoading"), "patch")
  @@ Calls({"changeGoalLanguage"}, On("goalTranslationLoading"), "patch")
TicketLoad == Calls({"load"}, NoFlag, "refresh")

TicketHandlers ==
  AssignmentHandlers @@ StateHandlers @@ PlanningHandlers @@ ExternalHandlers @@ MergeHandlers
  @@ ToolHandlers @@ BriefHandlers @@ TicketLoad

HeaderButtons == OwnFlag(StateHandlers, {"updateTicketState"}) @@ Off({"load"}, {})
ToolButtons == OwnFlag(ToolHandlers, DOMAIN ToolHandlers)
DetailButtons == OwnFlag(PlanningHandlers, {"savePlanning"})
GoalButtons ==
  Off({"generateAiBrief"}, {On("aiBriefLoading"), On("goalTranslationLoading")})
  @@ OwnFlag(BriefHandlers, {"changeGoalLanguage"})
AssignmentButtons ==
  OwnFlag(AssignmentHandlers, {"saveAssignment"}) @@ OwnFlag(ExternalHandlers, DOMAIN ExternalHandlers)
MergeButtons == OwnFlag(MergeHandlers, {"mergeTickets"})

TicketPage ==
  Page(TicketHandlers,
       HeaderButtons @@ ToolButtons @@ DetailButtons @@ GoalButtons @@ AssignmentButtons @@ MergeButtons,
       {"createExternalSpecialist", "blockSenderEmail", "blockSenderDomain", "createKnowledgeArticleDraft"},
       {}, {"hides"})

-----------------------------------------------------------------------------
(* The list of tickets. *)
LoadTickets == Calls({"loadTickets"}, NoFlag, "refresh")
ViewHandlers ==
  Posts({"createView"}, On("viewBusy"), "nothing")
  @@ Posts({"updateView"}, On("viewBusy"), "nothing")
  @@ Calls({"deleteCurrentView"}, On("viewBusy"), "nothing")
BulkHandlers ==
  Posts({"applyBulkUpdate"}, On("bulkBusy"), "reload")
  @@ Calls({"deleteSelectedTickets", "restoreSelectedTickets"}, On("bulkBusy"), "reload")
NewTicketHandlers == Posts({"createManualTicket"}, On("newTicketBusy"), "reload")
InlineHandlers == Calls({"assignTicketInline", "updateTicketInline"}, ByRow("inlineUpdatingTicket", "ticket"), "reload")
ListMergeHandlers == Posts({"mergeSelectedTickets"}, On("mergeBusy"), "reload")

TicketListHandlers ==
  LoadTickets @@ ViewHandlers @@ BulkHandlers @@ NewTicketHandlers @@ InlineHandlers @@ ListMergeHandlers

InlineControls == OwnFlag(InlineHandlers, DOMAIN InlineHandlers)
ListToolbar == Off({"loadTickets"}, {On("loading")})
BulkBar == OwnFlag(BulkHandlers, DOMAIN BulkHandlers)
ViewDialog == OwnFlag(ViewHandlers, DOMAIN ViewHandlers)
NewTicketDialog == OwnFlag(NewTicketHandlers, {"createManualTicket"})
MergeDialog == OwnFlag(ListMergeHandlers, {"mergeSelectedTickets"})

TicketListPage ==
  Page(TicketListHandlers,
       InlineControls @@ ListToolbar @@ BulkBar @@ ViewDialog @@ NewTicketDialog @@ MergeDialog,
       {"createView", "createManualTicket"}, {"createManualTicket"}, {"numbered", "queried"})
=============================================================================
