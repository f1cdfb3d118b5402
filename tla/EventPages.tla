------------------------------ MODULE EventPages ------------------------------
(***************************************************************************)
(* Event & Services in the web client: the list of requests and the page   *)
(* of one (EventServicesWorkspace.tsx), the calendar                       *)
(* (EventServicesCalendarView.tsx), the composer of comments               *)
(* (EventMessageComposer.tsx) and the settings panel                       *)
(* (EventServicesConfigPanel.tsx).  One string, busy, holds the key of the *)
(* call begun last; a button is disabled by its own.                       *)
(***************************************************************************)
EXTENDS PageOps

LOCAL Busy(key) == Key("busy", key)
LOCAL OwnKeys(handlers) == OwnFlag(handlers, DOMAIN handlers)

RequestListLoad == Calls({"loadData"}, NoFlag, "refresh")
QuickHandlers == Calls({"quickUpdateRequest"}, ByRow("busy", "quick"), "patch")
RecycleHandlers ==
  Calls({"moveSelectedToRecycleBin"}, Busy("delete"), "reload")
  @@ Calls({"loadRecycleBin"}, Busy("recycle-bin"), "nothing")
  @@ Calls({"restoreRequest"}, ByRow("busy", "restore"), "reload")
MyTaskHandlers == Calls({"saveMyTask"}, ByRow("busy", "my-task"), "reload")

RequestListPage ==
  LET handlers == QuickHandlers @@ RecycleHandlers @@ MyTaskHandlers
  IN  Page(RequestListLoad @@ handlers, Off({"loadData"}, {On("loading")}) @@ OwnKeys(handlers), {}, {}, {"queried"})

-----------------------------------------------------------------------------
RequestLoad == Calls({"loadSelected"}, NoFlag, "refresh")
RequestHandlers ==
  Calls({"saveRequest"}, Busy("request"), "replace")
  @@ Calls({"quickSetSelectedStatus"}, ByRow("busy", "status"), "replace")
EventTaskHandlers ==
  Posts({"createTask"}, Busy("task"), "reload")
  @@ Calls({"syncTaskCalendar"}, ByRow("busy", "calendar"), "reload")
(* A field of a task is saved when it loses the focus. *)
EventTaskFields == Calls({"updateTask"}, NoFlag, "reload")
EventExternalHandlers ==
  Posts({"createExternalSpecialist"}, Busy("external-create"), "patch")
  @@ Calls({"addExternalToEvent"}, Busy("external-assign"), "reload")
  @@ Calls({"removeExternalFromEvent"}, ByRow("busy", "external-remove"), "reload")
  @@ Calls({"sendExternalTaskInvite"}, ByRow("busy", "external-invite"), "reload")
CommentHandlers == Posts({"addComment"}, Busy("comment"), "reload")

RequestControls ==
  Off(DOMAIN RequestLoad \cup DOMAIN EventTaskFields, {})
  @@ OwnKeys(RequestHandlers) @@ OwnKeys(EventTaskHandlers) @@ OwnKeys(EventExternalHandlers)
  @@ OwnKeys(CommentHandlers)

RequestPage ==
  Page(RequestLoad @@ RequestHandlers @@ EventTaskHandlers @@ EventTaskFields @@ EventExternalHandlers
       @@ CommentHandlers,
       RequestControls, {"createTask", "createExternalSpecialist", "addComment"}, {}, {})

-----------------------------------------------------------------------------
CalendarLoad == Calls({"loadCalendar"}, NoFlag, "refresh")
SpecialistHandlers == Calls({"saveSpecialists"}, Busy("specialists"), "patch")
(* The task is created, and then the invitation sent. *)
CalendarTaskHandlers ==
  Posts({"createTask"}, Busy("task"), "reload")
  @@ Calls({"updateTask"}, ByRow("busy", "task"), "reload")
  @@ Calls({"sendExternalInvite"}, ByRow("busy", "invite"), "reload")
CalendarRequestHandlers == Posts({"createEventRequest"}, Busy("create-event"), "reload")

CalendarControls ==
  Off(DOMAIN CalendarLoad, {On("loading")})
  @@ OwnKeys(SpecialistHandlers) @@ OwnKeys(CalendarTaskHandlers) @@ OwnKeys(CalendarRequestHandlers)

CalendarPage ==
  Page(CalendarLoad @@ SpecialistHandlers @@ CalendarTaskHandlers @@ CalendarRequestHandlers, CalendarControls,
       {"createTask", "createEventRequest"}, {"createTask"}, {"queried"})

-----------------------------------------------------------------------------
MessageHandlers == Posts({"submitMessage"}, On("saving"), "reload")
RewriteHandlers == Calls({"runAiAction"}, On("aiBusy"), "nothing")

ComposerPage ==
  Page(MessageHandlers @@ RewriteHandlers, OwnKeys(MessageHandlers) @@ OwnKeys(RewriteHandlers),
       {"submitMessage"}, {}, {})

-----------------------------------------------------------------------------
ServiceHandlers ==
  Posts({"createService"}, Busy("service"), "reload")
  @@ Calls({"saveService", "toggleService", "moveService"}, ByRow("busy", "service"), "reload")
EventFieldHandlers ==
  Posts({"createField"}, Busy("field"), "reload")
  @@ Calls({"saveField", "toggleField", "moveField"}, ByRow("busy", "field"), "reload")
EventPortalHandlers ==
  Calls({"saveTurnstile"}, Busy("turnstile"), "patch")
  @@ Calls({"savePortalSettings"}, Busy("portal"), "patch")
  @@ Calls({"saveCalendarSettings"}, Busy("calendar"), "patch")

(* The switches and arrows of a row are never disabled. *)
EventConfigControls ==
  Off({"toggleService", "moveService", "toggleField", "moveField"}, {})
  @@ OwnKeys(ServiceHandlers) @@ OwnKeys(EventFieldHandlers) @@ OwnKeys(EventPortalHandlers)

EventConfigPage ==
  Page(ServiceHandlers @@ EventFieldHandlers @@ EventPortalHandlers, EventConfigControls,
       {"createService", "createField"}, {}, {})
=============================================================================
