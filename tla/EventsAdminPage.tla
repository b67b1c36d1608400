-------------------------- MODULE EventsAdminPage --------------------------
(***************************************************************************)
(* The dashboard's AdminEventsPage over EventCatalogue: the table of       *)
(* events, the dialogs, the mutations and the refetch that follows each of *)
(* them.  The table has been loaded, and nobody else manages the events.   *)
(***************************************************************************)
EXTENDS EventCatalogue

CONSTANT Toggles  \* publish and unpublish requests that may be in progress

ASSUME RequestsAssumption == /\ Requests = {"save", "delete", "list"} \cup Toggles
                             /\ {"save", "delete", "list"} \cap Toggles = {}

VARIABLES
    table,         \* the rows of the query ['admin', 'events']
    formOpen,      \* whether the form dialog is open
    editingEvent,  \* the event it edits, None for a new one
    deleteTarget   \* the event of the delete dialog, or None

dialogVars == <<formOpen, editingEvent, deleteTarget>>
pageVars == <<table, dialogVars>>
vars == <<catalogueVars, booking, request, pageVars>>

Rows == {<<e, event[e]>> : e \in {x \in Events : Exists(x)}}
Shown == {row[1] : row \in table}
ShownState(e) == (CHOOSE row \in table : row[1] = e)[2]

Init ==
    /\ CatalogueInit
    /\ table = Rows
    /\ formOpen = FALSE /\ editingEvent = None /\ deleteTarget = None

\* Both dialogs are modal.
NoDialog == ~formOpen /\ deleteTarget = None

Send(r, message) == request' = [request EXCEPT ![r] = message]
Message(kind, e) == [NoRequest EXCEPT !.pc = "arrived", !.kind = kind, !.event = e]

----------------------------------------------------------------------------
(* What the administrator does.                                            *)

ClickNew ==
    /\ NoDialog
    /\ formOpen' = TRUE /\ editingEvent' = None
    /\ UNCHANGED <<catalogueVars, booking, request, table, deleteTarget>>

ClickEdit(e) ==
    /\ NoDialog /\ e \in Shown
    /\ formOpen' = TRUE /\ editingEvent' = e
    /\ UNCHANGED <<catalogueVars, booking, request, table, deleteTarget>>

\* Cancel is disabled while a request is pending, a click beside the dialog is not.
CloseForm ==
    /\ formOpen /\ formOpen' = FALSE
    /\ UNCHANGED <<catalogueVars, booking, request, table, editingEvent, deleteTarget>>

\* handleSubmit: the form sends its sections with an update as well.
SubmitForm(hoursOk, plan) ==
    /\ formOpen /\ request["save"].pc = "idle"
    /\ \/ /\ editingEvent = None
          /\ \E e \in Events :
                /\ event[e] = "absent"
                /\ Send("save", [Message("create", e) EXCEPT !.hoursOk = hoursOk, !.plan = plan])
       \/ /\ editingEvent # None
          /\ Send("save", [Message("update", editingEvent) EXCEPT !.hoursOk = hoursOk, !.sections = TRUE])
    /\ UNCHANGED <<catalogueVars, booking, pageVars>>

ClickDelete(e) ==
    /\ NoDialog /\ e \in Shown
    /\ deleteTarget' = e
    /\ UNCHANGED <<catalogueVars, booking, request, table, formOpen, editingEvent>>

CloseDelete ==
    /\ deleteTarget # None /\ deleteTarget' = None
    /\ UNCHANGED <<catalogueVars, booking, request, table, formOpen, editingEvent>>

ConfirmDelete ==
    /\ deleteTarget # None /\ request["delete"].pc = "idle"
    /\ Send("delete", Message("remove", deleteTarget))
    /\ UNCHANGED <<catalogueVars, booking, pageVars>>

\* The button is never disabled, and does what the row shows.
TogglePublish(t, e) ==
    /\ NoDialog /\ e \in Shown
    /\ t \in Toggles /\ request[t].pc = "idle"
    /\ Send(t, Message(IF ShownState(e) = "published" THEN "unpublish" ELSE "publish", e))
    /\ UNCHANGED <<catalogueVars, booking, pageVars>>

----------------------------------------------------------------------------
(* What the answers do.                                                    *)

\* As Invalidate, if a refetch in flight were left to answer.
InvalidateUnlessFetching(r) ==
    request' = [request EXCEPT ![r] = NoRequest,
                               !["list"] = IF @.pc = "idle" THEN Message("list", None) ELSE @]

\* Request r is over; the list is fetched again, and a fetch in flight is
\* not listened to any more.
Invalidate(r) ==
    request' = [request EXCEPT ![r] = NoRequest, !["list"] = Message("list", None)]

\* As Succeeds, if only the dialogs were closed.
SucceedsSilently(r) ==
    /\ r # "list" /\ request[r].pc = "ok"
    /\ Send(r, NoRequest)
    /\ formOpen' = (formOpen /\ r # "save")
    /\ editingEvent' = IF request[r].kind = "update" THEN None ELSE editingEvent
    /\ deleteTarget' = IF r = "delete" THEN None ELSE deleteTarget
    /\ UNCHANGED <<catalogueVars, booking, table>>

\* onSuccess closes the dialog of its kind, whatever it shows by now.
Succeeds(r) ==
    /\ r # "list" /\ request[r].pc = "ok"
    /\ Invalidate(r)
    /\ formOpen' = (formOpen /\ r # "save")
    /\ editingEvent' = IF request[r].kind = "update" THEN None ELSE editingEvent
    /\ deleteTarget' = IF r = "delete" THEN None ELSE deleteTarget
    /\ UNCHANGED <<catalogueVars, booking, table>>

\* onError: a message in the dialog, if there is one.
Fails(r) ==
    /\ r # "list" /\ request[r].pc \in {"refused", "failed"}
    /\ Send(r, NoRequest)
    /\ UNCHANGED <<catalogueVars, booking, pageVars>>

Listed ==
    /\ request["list"].pc = "ok"
    /\ table' = request["list"].rows
    /\ Send("list", NoRequest)
    /\ UNCHANGED <<catalogueVars, booking, dialogVars>>

----------------------------------------------------------------------------
Next ==
    \/ \E r \in Requests : HandlerStep(r) /\ UNCHANGED pageVars
    \/ CustomerStep /\ UNCHANGED pageVars
    \/ ClickNew
    \/ \E e \in Events : ClickEdit(e) \/ ClickDelete(e)
    \/ CloseForm
    \/ \E hoursOk \in BOOLEAN, plan \in Plans : SubmitForm(hoursOk, plan)
    \/ CloseDelete
    \/ ConfirmDelete
    \/ \E t \in Toggles, e \in Events : TogglePublish(t, e)
    \/ \E r \in Requests : Succeeds(r) \/ Fails(r)
    \/ Listed

Spec == Init /\ [][Next]_vars

----------------------------------------------------------------------------
(* Properties.                                                             *)

\* Every value is of its type; the events that exist, and no others, have seats, of
\* codes that buildSeatRows makes; no dialog opens over another.
CatalogueTypeOK ==
    /\ event \in [Events -> {"absent", "draft", "published", "deleted"}]
    /\ \A e \in Events : IF Exists(e) THEN \E plan \in Plans : seats[e] = SeatCodes(plan)
                                   ELSE seats[e] = {}
    /\ total \in [Events -> Nat]
    /\ booking \in [Bookings -> [event : Events \cup {None},
                                 status : {"none", "placing", "active", "cancelled"}]]
    /\ \A r \in Requests : /\ request[r].pc \in {"idle", "arrived", "found", "counted"} \cup Answers
                           /\ request[r].kind \in Kinds
                           /\ request[r].event \in Events \cup {None}
    /\ table \subseteq Events \X {"draft", "published"}
    /\ formOpen \in BOOLEAN /\ {editingEvent, deleteTarget} \subseteq Events \cup {None}
    /\ ~(formOpen /\ deleteTarget # None)

\* A booking never loses its event or its seats, although remove counts the
\* bookings in one call and deletes the event in another (events.service.ts:95-104).
BookingsHaveEvents ==
    \A e \in Events : Referring(e) # {} => Exists(e) /\ seats[e] # {}

\* totalSeats, computed from the sections and never counted again, is the number
\* of seats that can be told apart by their codes, also if the names of two
\* sections begin alike (events.service.ts:21-36,140-155).
TotalSeatsCounted ==
    \A e \in Events : Exists(e) => total[e] = Cardinality(seats[e])

\* A deleted event stays deleted, also by requests that found it before
\* (events.service.ts:64-78,123-128).
DeletedStaysDeleted ==
    [][\A e \in Events : event[e] = "deleted" => event'[e] = "deleted"]_vars

\* A page that waits for nothing shows the events as they are, whichever way
\* its requests and refetches overlapped (AdminEventsPage.tsx:34-75).
TableMatchesServer ==
    (\A r \in Requests : request[r].pc = "idle") => table = Rows
============================================================================
