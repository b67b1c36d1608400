----------------------- MODULE EventsAdminPage_proofs -----------------------
(***************************************************************************)
(* The catalogue and the admin page over it, for any number of events,     *)
(* bookings and toggles in progress, and any lists of sections: the types, *)
(* BookingsHaveEvents, TotalSeatsCounted, DeletedStaysDeleted and          *)
(* TableMatchesServer.                                                     *)
(***************************************************************************)
EXTENDS EventsAdminPage, FiniteSetTheorems, TLAPS

RequestType ==
    [pc : {"idle", "arrived", "found", "counted"} \cup Answers, kind : Kinds,
     event : Events \cup {None}, hoursOk : BOOLEAN, sections : BOOLEAN,
     plan : Plans \cup {<<>>}, rows : SUBSET (Events \X {"draft", "published"})]

Types ==
    /\ CatalogueTypeOK
    /\ seats = [e \in Events |-> seats[e]]
    /\ request \in [Requests -> RequestType]

KindsOf(r) ==
    IF r = "save" THEN {"create", "update"}
    ELSE IF r = "delete" THEN {"remove"}
    ELSE IF r = "list" THEN {"list"}
    ELSE {"publish", "unpublish"}

\* What a request in progress is: of the kind of its mutation, and about an
\* event.  Nobody else creates the event that a request is about to create.
RequestShapes ==
    \A r \in Requests : request[r].pc # "idle" =>
        /\ request[r].kind \in KindsOf(r)
        /\ r # "list" => request[r].event \in Events
        /\ r = "list" => request[r].pc \in {"arrived", "ok"}
        /\ Arrived(r, {"create"}) => /\ request[r].plan \in Plans
                                     /\ event[request[r].event] = "absent"

\* The event of a booking, also of one that is being made, was there; it has
\* seats as long as it exists, and it exists once the booking is made.
BookedEvents ==
    \A b \in Bookings : booking[b].status # "none" =>
        /\ booking[b].event \in Events
        /\ event[booking[b].event] # "absent"
        /\ Exists(booking[b].event) => seats[booking[b].event] # {}
        /\ booking[b].status # "placing" => Exists(booking[b].event)

\* Some mutation was carried out, and the page has yet to fetch the list again.
Changed == \E r \in Requests \ {"list"} : request[r].pc = "ok"

TableFollows ==
    ~Changed => /\ request["list"].pc = "idle" => table = Rows
                /\ request["list"].pc = "ok" => request["list"].rows = Rows

CatalogueInv == Types /\ RequestShapes /\ BookedEvents /\ TotalSeatsCounted /\ TableFollows

----------------------------------------------------------------------------
(* A list of sections makes finitely many seats, counted by their codes.   *)

LEMMA SeatRowsFinite ==
    ASSUME NEW plan \in Plans
    PROVE  IsFiniteSet(SeatRows(plan))
<1> DEFINE D == DOMAIN plan
           Rowset(i) == {i} \X (1..plan[i].rows) \X (1..plan[i].seatsPerRow)
           T == {Rowset(i) : i \in D}
           f == [i \in D |-> Rowset(i)]
<1>1. plan \in Seq(Section)
    BY PlansAssumption
<1>2. IsFiniteSet(D)
    <2>1. D = 1 .. Len(plan) /\ Len(plan) \in Nat
        BY <1>1
    <2>. QED
        BY <2>1, FS_Interval
<1>3. ASSUME NEW i \in D
      PROVE  IsFiniteSet(Rowset(i))
    <2> DEFINE P == (1..plan[i].rows) \X (1..plan[i].seatsPerRow)
               g == [p \in P |-> <<i, p[1], p[2]>>]
    <2>1. plan[i] \in Section
        BY <1>1
    <2>2. IsFiniteSet(P)
        <3>1. plan[i].rows \in Int /\ plan[i].seatsPerRow \in Int
            BY <2>1 DEF Section
        <3>2. IsFiniteSet(1..plan[i].rows) /\ IsFiniteSet(1..plan[i].seatsPerRow)
            BY <3>1, FS_Interval
        <3>. QED
            BY <3>2, FS_Product
    <2>3. g \in Surjection(P, Rowset(i))
        <3>1. ASSUME NEW p \in P
              PROVE  g[p] \in Rowset(i)
            OBVIOUS
        <3>2. ASSUME NEW row \in Rowset(i)
              PROVE  \E p \in P : g[p] = row
            <4>1. <<row[2], row[3]>> \in P /\ row = <<i, row[2], row[3]>>
                OBVIOUS
            <4>2. g[<<row[2], row[3]>>] = row
                BY <4>1
            <4>. QED
                BY <4>1, <4>2
        <3>. QED
            BY <3>1, <3>2 DEF Surjection
    <2>. QED
        BY <2>2, <2>3, FS_Surjection
<1>4. f \in Surjection(D, T)
    BY DEF Surjection
<1>5. IsFiniteSet(T)
    BY <1>2, <1>4, FS_Surjection
<1>6. \A S \in T : IsFiniteSet(S)
    BY <1>3
<1>. QED
    BY <1>5, <1>6, FS_UNION DEF SeatRows

\* As many rows as codes: the key makes the code of a row an injection, which is
\* what ties the number that create() stores to the seats that it stores.
LEMMA RowsAreCounted ==
    ASSUME NEW plan \in Plans
    PROVE  /\ Cardinality(SeatRows(plan)) \in Nat
           /\ CodesUnique(plan) => Cardinality(SeatRows(plan)) = Cardinality(SeatCodes(plan))
<1> DEFINE f == [row \in SeatRows(plan) |-> SeatCode(plan, row)]
<1>1. IsFiniteSet(SeatRows(plan))
    BY SeatRowsFinite
<1>2. f \in Surjection(SeatRows(plan), SeatCodes(plan))
    BY DEF Surjection, SeatCodes
<1>3. CodesUnique(plan) => f \in Injection(SeatRows(plan), SeatCodes(plan))
    BY <1>2 DEF CodesUnique, Injection, IsInjective, Surjection
<1>. QED
    BY <1>1, <1>2, <1>3, FS_Surjection, FS_CardinalityType

----------------------------------------------------------------------------
(* The events: what a step may do to one.                                  *)

Untouched(e) == event'[e] = event[e] /\ seats'[e] = seats[e] /\ total'[e] = total[e]

Created(e) ==
    /\ event[e] = "absent" /\ event'[e] = "draft"
    /\ \E plan \in Plans : /\ CodesUnique(plan)
                           /\ seats'[e] = SeatCodes(plan)
                           /\ total'[e] = Cardinality(SeatRows(plan))

Written(e) ==
    /\ Exists(e) /\ event'[e] \in {"draft", "published"}
    /\ seats'[e] = seats[e] /\ total'[e] = total[e]

Deleted(e) ==
    /\ Exists(e) /\ Referring(e) = {}
    /\ event'[e] = "deleted" /\ seats'[e] = {} /\ total'[e] = total[e]

\* A row of the table is created, written or deleted; it is never created again.
LEMMA EventMoves ==
    ASSUME Types, RequestShapes, [Next]_vars
    PROVE  /\ \A e \in Events : Untouched(e) \/ Created(e) \/ Written(e) \/ Deleted(e)
           /\ event' = [e \in Events |-> event'[e]]
           /\ seats' = [e \in Events |-> seats'[e]]
           /\ total' = [e \in Events |-> total'[e]]
           /\ UNCHANGED booking \/ UNCHANGED catalogueVars
<1> USE DEF Types, CatalogueTypeOK, Untouched, Created, Written, Deleted
<1>1. CASE UNCHANGED catalogueVars
    BY <1>1 DEF catalogueVars
<1>2. ASSUME NEW r \in Requests, HandlerStep(r), ~UNCHANGED catalogueVars
      PROVE  /\ \A e \in Events : Untouched(e) \/ Created(e) \/ Written(e) \/ Deleted(e)
             /\ event' = [e \in Events |-> event'[e]]
             /\ seats' = [e \in Events |-> seats'[e]]
             /\ total' = [e \in Events |-> total'[e]]
             /\ UNCHANGED booking
    <2>1. CASE CreateEvent(r)
        <3>1. /\ event' = [event EXCEPT ![request[r].event] = "draft"]
              /\ seats' = [seats EXCEPT ![request[r].event] = SeatCodes(request[r].plan)]
              /\ total' = [total EXCEPT ![request[r].event] = Cardinality(SeatRows(request[r].plan))]
              /\ CodesUnique(request[r].plan)
              /\ UNCHANGED booking
            BY <1>2, <2>1 DEF CreateEvent, Goto
        <3>2. Arrived(r, {"create"}) /\ request[r].plan \in Plans /\ event[request[r].event] = "absent"
            BY <2>1 DEF CreateEvent, RequestShapes, Arrived
        <3>. QED
            BY <3>1, <3>2
    <2>2. CASE WriteEvent(r)
        BY <1>2, <2>2 DEF WriteEvent, Goto, Exists
    <2>3. CASE DeleteEvent(r)
        BY <1>2, <2>3 DEF DeleteEvent, DeletesEvent, Goto
    <2>4. ~(FindEvent(r) \/ CountBookings(r) \/ ListEvents(r))
        BY <1>2 DEF FindEvent, CountBookings, ListEvents, Goto
    <2>. QED
        BY <1>2, <2>1, <2>2, <2>3, <2>4 DEF HandlerStep
<1>3. (\E r \in Requests : HandlerStep(r)) \/ UNCHANGED catalogueVars
    BY DEF Next, CustomerStep, PlaceBooking, CommitBooking, CancelBooking, BookingGoto, ClickNew,
           ClickEdit, ClickDelete, CloseForm, SubmitForm, CloseDelete, ConfirmDelete,
           TogglePublish, Succeeds, Fails, Listed, vars
<1>. QED
    BY <1>1, <1>2, <1>3

\* A deleted event is not touched again (DeletedStaysDeleted).
LEMMA DeletedUntouched ==
    ASSUME Types, RequestShapes, [Next]_vars, NEW e \in Events, event[e] = "deleted"
    PROVE  event'[e] = "deleted"
BY EventMoves DEF Untouched, Created, Written, Deleted, Exists

\* What the customers do leaves the catalogue alone.
LEMMA BookedEventsStep ==
    ASSUME Types, RequestShapes, BookedEvents, [Next]_vars
    PROVE  BookedEvents'
<1> USE DEF Types, CatalogueTypeOK, BookedEvents
<1>1. CASE UNCHANGED booking
    <2> SUFFICES ASSUME NEW b \in Bookings, booking[b].status # "none",
                        NEW e \in Events, e = booking[b].event
                 PROVE  /\ event'[e] # "absent"
                        /\ Exists(e)' => seats'[e] # {}
                        /\ booking[b].status # "placing" => Exists(e)'
        BY <1>1
    <2>1. /\ event[e] # "absent"
          /\ Exists(e) => seats[e] # {}
          /\ booking[b].status # "placing" => Exists(e) /\ b \in Referring(e)
        BY DEF Referring
    <2>2. Untouched(e) \/ Created(e) \/ Written(e) \/ Deleted(e)
        BY EventMoves
    <2>. QED
        BY <2>1, <2>2 DEF Untouched, Created, Written, Deleted, Exists
<1>2. CASE UNCHANGED catalogueVars /\ CustomerStep
    <2>1. ASSUME NEW b \in Bookings, NEW e \in Events, PlaceBooking(b, e)
          PROVE  BookedEvents'
        BY <1>2, <2>1 DEF PlaceBooking, BookingGoto, catalogueVars, Exists
    <2>2. ASSUME NEW b \in Bookings, CommitBooking(b)
          PROVE  BookedEvents'
        BY <1>2, <2>2 DEF CommitBooking, BookingGoto, catalogueVars, Exists
    <2>3. ASSUME NEW b \in Bookings, CancelBooking(b)
          PROVE  BookedEvents'
        BY <1>2, <2>3 DEF CancelBooking, BookingGoto, catalogueVars, Exists
    <2>. QED
        BY <1>2, <2>1, <2>2, <2>3 DEF CustomerStep
<1>3. UNCHANGED booking \/ CustomerStep
    BY DEF Next, HandlerStep, CreateEvent, FindEvent, WriteEvent, CountBookings, DeleteEvent,
           DeletesEvent, ListEvents, Goto, ClickNew, ClickEdit, ClickDelete, CloseForm,
           SubmitForm, CloseDelete, ConfirmDelete, TogglePublish, Succeeds, Fails, Listed, vars
<1>4. CustomerStep => UNCHANGED catalogueVars
    BY DEF CustomerStep, PlaceBooking, CommitBooking, CancelBooking, BookingGoto
<1>. QED
    BY <1>1, <1>2, <1>3, <1>4

LEMMA TotalSeatsStep ==
    ASSUME Types, RequestShapes, TotalSeatsCounted, [Next]_vars
    PROVE  TotalSeatsCounted'
<1> SUFFICES ASSUME NEW e \in Events, Exists(e)'
             PROVE  total'[e] = Cardinality(seats'[e])
    BY DEF TotalSeatsCounted
<1>1. Untouched(e) \/ Created(e) \/ Written(e) \/ Deleted(e)
    BY EventMoves
<1>. QED
    BY <1>1, RowsAreCounted DEF Untouched, Created, Written, Deleted, Exists, TotalSeatsCounted

----------------------------------------------------------------------------
(* The types.                                                              *)

\* The rows of the events keep their types.
LEMMA EventTypesStep ==
    ASSUME Types, RequestShapes, [Next]_vars
    PROVE  /\ event' \in [Events -> {"absent", "draft", "published", "deleted"}]
           /\ \A e \in Events : IF Exists(e)' THEN \E plan \in Plans : seats'[e] = SeatCodes(plan)
                                           ELSE seats'[e] = {}
           /\ seats' = [e \in Events |-> seats'[e]]
           /\ total' \in [Events -> Nat]
<1> USE DEF Types, CatalogueTypeOK
<1>1. ASSUME NEW e \in Events
      PROVE  /\ event'[e] \in {"absent", "draft", "published", "deleted"}
             /\ IF Exists(e)' THEN \E plan \in Plans : seats'[e] = SeatCodes(plan)
                              ELSE seats'[e] = {}
             /\ total'[e] \in Nat
    <2>1. CASE Untouched(e)
        BY <2>1 DEF Untouched, Exists
    <2>2. CASE Created(e)
        BY <2>2, RowsAreCounted DEF Created, Exists
    <2>3. CASE Written(e)
        BY <2>3 DEF Written, Exists
    <2>4. CASE Deleted(e)
        BY <2>4 DEF Deleted, Exists
    <2>. QED
        BY <2>1, <2>2, <2>3, <2>4, EventMoves
<1>2. /\ event' = [e \in Events |-> event'[e]]
      /\ seats' = [e \in Events |-> seats'[e]]
      /\ total' = [e \in Events |-> total'[e]]
    BY EventMoves
<1>3. event' \in [Events -> {"absent", "draft", "published", "deleted"}]
    BY <1>1, <1>2
<1>4. total' \in [Events -> Nat]
    BY <1>1, <1>2
<1>. QED
    BY <1>1, <1>2, <1>3, <1>4

LEMMA BookingTypesStep ==
    ASSUME Types, [Next]_vars
    PROVE  booking' \in [Bookings -> [event : Events \cup {None},
                                     status : {"none", "placing", "active", "cancelled"}]]
<1> USE DEF Types, CatalogueTypeOK
<1>1. CASE CustomerStep
    BY <1>1 DEF CustomerStep, PlaceBooking, CommitBooking, CancelBooking, BookingGoto
<1>2. CASE ~CustomerStep
    BY <1>2
    DEF Next, HandlerStep, CreateEvent, FindEvent, WriteEvent, CountBookings, DeleteEvent,
        DeletesEvent, ListEvents, Goto, ClickNew, ClickEdit, ClickDelete, CloseForm, SubmitForm,
        CloseDelete, ConfirmDelete, TogglePublish, Succeeds, Fails, Listed, vars
<1>. QED
    BY <1>1, <1>2

LEMMA RowsType ==
    ASSUME event \in [Events -> {"absent", "draft", "published", "deleted"}]
    PROVE  Rows \in SUBSET (Events \X {"draft", "published"})
BY DEF Rows, Exists

LEMMA MessageType ==
    /\ NoRequest \in RequestType /\ NoRequest.pc = "idle"
    /\ \A kind \in Kinds, e \in Events \cup {None} :
          LET m == Message(kind, e)
          IN  m \in RequestType /\ m.pc = "arrived" /\ m.kind = kind /\ m.event = e
<1>1. NoRequest \in RequestType /\ NoRequest.pc = "idle"
    BY DEF NoRequest, RequestType, Kinds
<1>. QED
    BY <1>1 DEF Message, RequestType

\* What the form sends.
CreateMessage(e, hoursOk, plan) == [Message("create", e) EXCEPT !.hoursOk = hoursOk, !.plan = plan]
UpdateMessage(e, hoursOk) == [Message("update", e) EXCEPT !.hoursOk = hoursOk, !.sections = TRUE]

LEMMA FormMessages ==
    ASSUME NEW hoursOk \in BOOLEAN, NEW plan \in Plans, NEW e \in Events
    PROVE  /\ LET m == CreateMessage(e, hoursOk, plan)
              IN  /\ m \in RequestType /\ m.plan = plan
                  /\ m.pc = "arrived" /\ m.kind = "create" /\ m.event = e
           /\ LET m == UpdateMessage(e, hoursOk)
              IN  m \in RequestType /\ m.pc = "arrived" /\ m.kind = "update" /\ m.event = e
<1> DEFINE c == Message("create", e)
           u == Message("update", e)
<1>1. /\ c \in RequestType /\ c.pc = "arrived" /\ c.kind = "create" /\ c.event = e
      /\ u \in RequestType /\ u.pc = "arrived" /\ u.kind = "update" /\ u.event = e
    BY MessageType DEF Kinds
<1>2. /\ CreateMessage(e, hoursOk, plan) = [c EXCEPT !.hoursOk = hoursOk, !.plan = plan]
      /\ UpdateMessage(e, hoursOk) = [u EXCEPT !.hoursOk = hoursOk, !.sections = TRUE]
    BY DEF CreateMessage, UpdateMessage
<1> HIDE DEF c, u
<1>. QED
    BY <1>1, <1>2 DEF RequestType

\* A handler answers its request, and looks at no other.
LEMMA HandlerRequests ==
    ASSUME Types, RequestShapes, NEW r \in Requests, HandlerStep(r)
    PROVE  \/ /\ r # "list"
              /\ \E pc \in {"found", "counted"} \cup Answers :
                    request' = [request EXCEPT ![r].pc = pc, ![r].plan = <<>>]
              /\ request[r].pc \in {"arrived", "found", "counted"}
           \/ /\ r = "list" /\ request[r].pc = "arrived"
              /\ request' = [request EXCEPT ![r].pc = "ok", ![r].rows = Rows]
<1> USE DEF RequestShapes, KindsOf, Arrived, Answers
<1>1. CASE ListEvents(r)
    BY <1>1 DEF ListEvents, Rows
<1>2. CASE ~ListEvents(r)
    BY <1>2 DEF HandlerStep, CreateEvent, FindEvent, WriteEvent, CountBookings, DeleteEvent,
                DeletesEvent, Goto, Reply
<1>. QED
    BY <1>1, <1>2

\* What the page does to requests: it sends one, or is done with one.
Sends(r, message) ==
    /\ request[r].pc = "idle" /\ Send(r, message)
    /\ message.kind \in KindsOf(r) /\ message.pc = "arrived" /\ message.event \in Events
    /\ message.kind = "create" => message.plan \in Plans /\ event[message.event] = "absent"

LEMMA PageRequests ==
    ASSUME Types, [Next]_vars, ~ \E r \in Requests : HandlerStep(r) /\ UNCHANGED pageVars
    PROVE  \/ UNCHANGED <<request, table>>
           \/ /\ \E r \in Requests \ {"list"}, message \in RequestType : Sends(r, message)
              /\ UNCHANGED table
           \/ \E r \in Requests \ {"list"} : request[r].pc = "ok" /\ Invalidate(r)
           \/ /\ \E r \in Requests \ {"list"} :
                    /\ request[r].pc \in {"refused", "failed"}
                    /\ Send(r, NoRequest)
              /\ UNCHANGED table
           \/ request["list"].pc = "ok" /\ Send("list", NoRequest) /\ table' = request["list"].rows
<1> USE RequestsAssumption, NoEventAssumption DEF Types, CatalogueTypeOK
<1>1. CASE \E hoursOk \in BOOLEAN, plan \in Plans : SubmitForm(hoursOk, plan)
    <2>1. PICK hoursOk \in BOOLEAN, plan \in Plans : SubmitForm(hoursOk, plan)
        BY <1>1
    <2>0. UNCHANGED table
        BY <2>1 DEF SubmitForm, pageVars
    <2>2. CASE editingEvent = None
        <3>1. PICK e \in Events :
                  /\ event[e] = "absent"
                  /\ Send("save", [Message("create", e) EXCEPT !.hoursOk = hoursOk, !.plan = plan])
            BY <2>1, <2>2 DEF SubmitForm
        <3> DEFINE m == CreateMessage(e, hoursOk, plan)
        <3>2. /\ m \in RequestType
              /\ m.pc = "arrived" /\ m.kind = "create" /\ m.event = e /\ m.plan = plan
            BY FormMessages
        <3>3. request["save"].pc = "idle" /\ "save" \in Requests \ {"list"}
            BY <2>1 DEF SubmitForm
        <3>4. Send("save", m)
            BY <3>1 DEF CreateMessage
        <3> HIDE DEF m
        <3>5. Sends("save", m)
            BY <3>1, <3>2, <3>3, <3>4 DEF Sends, KindsOf
        <3>. QED
            BY <2>0, <3>2, <3>3, <3>5
    <2>3. CASE editingEvent # None
        <3> DEFINE m == UpdateMessage(editingEvent, hoursOk)
        <3>1. /\ m \in RequestType
              /\ m.pc = "arrived" /\ m.kind = "update" /\ m.event = editingEvent
            BY <2>3, FormMessages
        <3>2. /\ request["save"].pc = "idle" /\ "save" \in Requests \ {"list"}
              /\ editingEvent \in Events
            BY <2>1, <2>3 DEF SubmitForm
        <3>3. Send("save", m)
            BY <2>1, <2>3 DEF SubmitForm, UpdateMessage
        <3> HIDE DEF m
        <3>4. Sends("save", m)
            BY <3>1, <3>2, <3>3 DEF Sends, KindsOf
        <3>. QED
            BY <2>0, <3>1, <3>2, <3>4
    <2>. QED
        BY <2>2, <2>3
<1>2. CASE ConfirmDelete
    <2>1. Sends("delete", Message("remove", deleteTarget)) /\ deleteTarget \in Events
        BY <1>2, MessageType DEF Sends, ConfirmDelete, KindsOf, Kinds
    <2>2. UNCHANGED table
        BY <1>2 DEF ConfirmDelete, pageVars
    <2>. QED
        BY <2>1, <2>2, RequestsAssumption, MessageType DEF Kinds
<1>3. ASSUME NEW t \in Toggles, NEW e \in Events, TogglePublish(t, e)
      PROVE  /\ \E message \in RequestType : t \in Requests \ {"list"} /\ Sends(t, message)
             /\ UNCHANGED table
    <2>1. t \in Requests \ {"list"} /\ KindsOf(t) = {"publish", "unpublish"}
        BY DEF KindsOf
    <2>2. PICK kind \in {"publish", "unpublish"} :
              request[t].pc = "idle" /\ Send(t, Message(kind, e))
        BY <1>3 DEF TogglePublish
    <2>3. Message(kind, e) \in RequestType /\ Sends(t, Message(kind, e))
        BY <2>1, <2>2, MessageType DEF Sends, Kinds
    <2>4. UNCHANGED table
        BY <1>3 DEF TogglePublish, pageVars
    <2>. QED
        BY <2>1, <2>3, <2>4
<1>4. ASSUME NEW r \in Requests, Succeeds(r)
      PROVE  r # "list" /\ request[r].pc = "ok" /\ Invalidate(r)
    BY <1>4 DEF Succeeds
<1>5. ASSUME NEW r \in Requests, Fails(r)
      PROVE  /\ r # "list" /\ request[r].pc \in {"refused", "failed"} /\ Send(r, NoRequest)
             /\ UNCHANGED table
    BY <1>5 DEF Fails, pageVars
<1>6. CASE Listed
    BY <1>6 DEF Listed
<1>7. ASSUME ~ \E hoursOk \in BOOLEAN, plan \in Plans : SubmitForm(hoursOk, plan),
             ~ConfirmDelete, ~Listed,
             ~ \E t \in Toggles, e \in Events : TogglePublish(t, e),
             ~ \E r \in Requests : Succeeds(r) \/ Fails(r)
      PROVE  UNCHANGED <<request, table>>
    BY <1>7 DEF Next, CustomerStep, PlaceBooking, CommitBooking, CancelBooking, BookingGoto,
                ClickNew, ClickEdit, ClickDelete, CloseForm, CloseDelete, vars, pageVars
<1>. QED
    BY <1>1, <1>2, <1>3, <1>4, <1>5, <1>6, <1>7

\* An event comes to be by the request of the form alone.
LEMMA OnlySaveCreates ==
    ASSUME Types, RequestShapes, [Next]_vars,
           NEW e \in Events, event[e] = "absent", event'[e] # "absent"
    PROVE  request'["save"].pc = "ok"
<1> USE DEF Types, CatalogueTypeOK
<1>1. PICK r \in Requests : HandlerStep(r)
    BY DEF Next, CustomerStep, PlaceBooking, CommitBooking, CancelBooking, BookingGoto, ClickNew,
           ClickEdit, ClickDelete, CloseForm, SubmitForm, CloseDelete, ConfirmDelete,
           TogglePublish, Succeeds, Fails, Listed, vars, catalogueVars
<1>2. ~(FindEvent(r) \/ CountBookings(r) \/ ListEvents(r))
    BY DEF FindEvent, CountBookings, ListEvents, Goto, catalogueVars
<1>3. ~WriteEvent(r)
    BY DEF WriteEvent, Goto, Exists, catalogueVars
<1>4. ~DeleteEvent(r)
    BY DEF DeleteEvent, DeletesEvent, Goto, Exists, catalogueVars
<1>5. CreateEvent(r) /\ Reply(r, "ok")
    BY <1>1, <1>2, <1>3, <1>4 DEF HandlerStep, CreateEvent, Goto, catalogueVars
<1>6. r = "save"
    BY <1>5 DEF CreateEvent, Arrived, RequestShapes, KindsOf
<1>. QED
    BY <1>5, <1>6 DEF Reply, RequestType

\* What becomes of a request.
LEMMA RequestMoves ==
    ASSUME Types, RequestShapes, [Next]_vars, NEW q \in Requests
    PROVE  \/ request'[q] = request[q]
           \/ /\ q # "list" /\ request'[q] \in RequestType
              /\ request'[q].pc \in {"found", "counted"} \cup Answers
              /\ request'[q].kind = request[q].kind /\ request'[q].event = request[q].event
              /\ request[q].pc \in {"arrived", "found", "counted"}
           \/ /\ q = "list" /\ request'[q] \in RequestType
              /\ request'[q].pc = "ok" /\ request'[q].rows = Rows
              /\ request'[q].kind = request[q].kind /\ request[q].pc = "arrived"
           \/ /\ q # "list" /\ request'[q] \in RequestType
              /\ request'[q].pc = "arrived" /\ request[q].pc = "idle"
              /\ request'[q].kind \in KindsOf(q) /\ request'[q].event \in Events
              /\ request'[q].kind = "create" =>
                    request'[q].plan \in Plans /\ event[request'[q].event] = "absent"
           \/ request'[q] = NoRequest /\ (q = "list" => request[q].pc = "ok")
           \/ q = "list" /\ request'[q] = Message("list", None)
<1>0. /\ "list" \in Requests
      /\ request \in [Requests -> RequestType]
      /\ Rows \in SUBSET (Events \X {"draft", "published"})
    BY RequestsAssumption, RowsType DEF Types, CatalogueTypeOK
<1>1. ASSUME NEW r \in Requests, HandlerStep(r)
      PROVE  \/ request'[q] = request[q]
             \/ /\ q # "list" /\ request'[q] \in RequestType
                /\ request'[q].pc \in {"found", "counted"} \cup Answers
                /\ request'[q].kind = request[q].kind /\ request'[q].event = request[q].event
                /\ request[q].pc \in {"arrived", "found", "counted"}
             \/ /\ q = "list" /\ request'[q] \in RequestType
                /\ request'[q].pc = "ok" /\ request'[q].rows = Rows
                /\ request'[q].kind = request[q].kind /\ request[q].pc = "arrived"
    <2>1. CASE r # "list"
        <3>1. PICK pc \in {"found", "counted"} \cup Answers :
                  request' = [request EXCEPT ![r].pc = pc, ![r].plan = <<>>]
            BY <1>1, <2>1, HandlerRequests
        <3>2. request[r].pc \in {"arrived", "found", "counted"}
            BY <1>1, <2>1, HandlerRequests
        <3>. QED
            BY <1>0, <2>1, <3>1, <3>2 DEF RequestType
    <2>2. CASE r = "list"
        <3>1. request[r].pc = "arrived" /\ request' = [request EXCEPT ![r].pc = "ok", ![r].rows = Rows]
            BY <1>1, <2>2, HandlerRequests
        <3>. QED
            BY <1>0, <2>2, <3>1 DEF RequestType, Answers
    <2>. QED
        BY <2>1, <2>2
<1>2. CASE ~ \E r \in Requests : HandlerStep(r)
    BY <1>0, <1>2, PageRequests DEF Sends, Send, Invalidate
<1>. QED
    BY <1>1, <1>2

LEMMA RequestTypesStep ==
    ASSUME Types, RequestShapes, [Next]_vars
    PROVE  request' \in [Requests -> RequestType]
<1>1. request' = [r \in Requests |-> request'[r]]
    <2>1. request = [r \in Requests |-> request[r]]
        BY DEF Types
    <2>2. CASE \E r \in Requests : HandlerStep(r)
        BY <2>1, <2>2, HandlerRequests
    <2>3. CASE ~ \E r \in Requests : HandlerStep(r)
        BY <2>1, <2>3, PageRequests DEF Sends, Send, Invalidate
    <2>. QED
        BY <2>2, <2>3
<1>2. ASSUME NEW q \in Requests
      PROVE  request'[q] \in RequestType
    <2>1. request[q] \in RequestType /\ NoRequest \in RequestType
        BY MessageType DEF Types
    <2>2. Message("list", None) \in RequestType
        BY MessageType DEF Kinds
    <2>. QED
        BY <2>1, <2>2, RequestMoves
<1>. QED
    BY <1>1, <1>2

LEMMA ShapesStep ==
    ASSUME Types, RequestShapes, [Next]_vars
    PROVE  RequestShapes'
<1> SUFFICES ASSUME NEW q \in Requests, request'[q].pc # "idle"
             PROVE  /\ request'[q].kind \in KindsOf(q)
                    /\ q # "list" => request'[q].event \in Events
                    /\ q = "list" => request'[q].pc \in {"arrived", "ok"}
                    /\ request'[q].pc = "arrived" /\ request'[q].kind = "create" =>
                          request'[q].plan \in Plans /\ event'[request'[q].event] = "absent"
    BY DEF RequestShapes, Arrived
<1>1. /\ request'[q].kind \in KindsOf(q)
      /\ q # "list" => request'[q].event \in Events
      /\ q = "list" => request'[q].pc \in {"arrived", "ok"}
      /\ request'[q].pc = "arrived" /\ request'[q].kind = "create" =>
            request'[q].plan \in Plans /\ event[request'[q].event] = "absent"
    <2>1. NoRequest.pc = "idle"
        BY MessageType
    <2>2. Message("list", None).kind = "list" /\ Message("list", None).pc = "arrived"
        BY MessageType DEF Kinds
    <2>. QED
        BY <2>1, <2>2, RequestMoves, RequestsAssumption
        DEF RequestShapes, KindsOf, Arrived, Answers
<1>2. request'[q].pc = "arrived" /\ request'[q].kind = "create" => q = "save"
    BY <1>1, RequestsAssumption DEF KindsOf
<1>3. request'[q].pc = "arrived" /\ request'[q].kind = "create" =>
          event'[request'[q].event] = "absent"
    BY <1>1, <1>2, OnlySaveCreates
<1>. QED
    BY <1>1, <1>3

\* The types of the page's own state.
LEMMA PageTypesStep ==
    ASSUME Types, [Next]_vars
    PROVE  /\ table' \subseteq Events \X {"draft", "published"}
           /\ formOpen' \in BOOLEAN /\ {editingEvent', deleteTarget'} \subseteq Events \cup {None}
           /\ ~(formOpen' /\ deleteTarget' # None)
<1> USE DEF Types, CatalogueTypeOK
<1>1. Shown \subseteq Events
    BY DEF Shown
<1>2. CASE Listed
    <2>1. request["list"].rows \in SUBSET (Events \X {"draft", "published"})
        BY RequestsAssumption DEF RequestType
    <2>. QED
        BY <1>2, <2>1 DEF Listed, dialogVars
<1>3. CASE ClickNew \/ CloseForm \/ CloseDelete
    BY <1>3 DEF ClickNew, CloseForm, CloseDelete, NoDialog
<1>4. ASSUME NEW e \in Events, ClickEdit(e) \/ ClickDelete(e)
      PROVE  /\ table' = table /\ formOpen' \in BOOLEAN
             /\ {editingEvent', deleteTarget'} \subseteq Events \cup {None}
             /\ ~(formOpen' /\ deleteTarget' # None)
    <2>1. CASE ClickEdit(e)
        BY <2>1 DEF ClickEdit, NoDialog
    <2>2. CASE ClickDelete(e)
        BY <2>2 DEF ClickDelete, NoDialog
    <2>. QED
        BY <1>4, <2>1, <2>2
<1>5. ASSUME NEW r \in Requests, Succeeds(r)
      PROVE  /\ table' = table /\ formOpen' \in BOOLEAN
             /\ {editingEvent', deleteTarget'} \subseteq Events \cup {None}
             /\ ~(formOpen' /\ deleteTarget' # None)
    BY <1>5 DEF Succeeds
<1>6. ASSUME ~Listed, ~ClickNew, ~CloseForm, ~CloseDelete,
             \A e \in Events : ~ClickEdit(e) /\ ~ClickDelete(e),
             \A r \in Requests : ~Succeeds(r)
      PROVE  UNCHANGED pageVars
    BY <1>6 DEF Next, CustomerStep, PlaceBooking, CommitBooking, CancelBooking, BookingGoto,
                SubmitForm, ConfirmDelete, TogglePublish, Fails, vars, pageVars
<1>. QED
    BY <1>2, <1>3, <1>4, <1>5, <1>6 DEF pageVars, dialogVars

\* Whatever changes an event is a mutation that succeeds.
LEMMA ChangesSucceed ==
    ASSUME Types, RequestShapes, NEW r \in Requests, HandlerStep(r), ~UNCHANGED event
    PROVE  r # "list" /\ request'[r].pc = "ok"
<1>1. ~(FindEvent(r) \/ CountBookings(r) \/ ListEvents(r))
    BY DEF FindEvent, CountBookings, ListEvents, Goto, catalogueVars
<1>2. r # "list" /\ Reply(r, "ok")
    BY <1>1 DEF HandlerStep, CreateEvent, WriteEvent, DeleteEvent, DeletesEvent, Goto, catalogueVars,
                RequestShapes, KindsOf, Arrived
<1>. QED
    BY <1>2 DEF Reply, Types, RequestType

LEMMA TableFollowsStep ==
    ASSUME Types, RequestShapes, TableFollows, [Next]_vars
    PROVE  TableFollows'
<1> SUFFICES ASSUME ~Changed'
             PROVE  /\ request'["list"].pc = "idle" => table' = Rows'
                    /\ request'["list"].pc = "ok" => request'["list"].rows = Rows'
    BY DEF TableFollows
<1>0. /\ "list" \in Requests /\ request \in [Requests -> RequestType]
      /\ \A r \in Requests \ {"list"} : request'[r].pc # "ok"
      /\ NoRequest.pc = "idle" /\ Message("list", None).pc = "arrived"
    BY RequestsAssumption, MessageType DEF Types, Changed, Kinds
<1>1. ASSUME UNCHANGED event
      PROVE  Rows' = Rows
    BY <1>1 DEF Rows, Exists
<1>2. ASSUME NEW r \in Requests, HandlerStep(r), UNCHANGED pageVars
      PROVE  /\ request'["list"].pc = "idle" => table' = Rows'
             /\ request'["list"].pc = "ok" => request'["list"].rows = Rows'
    <2>1. Rows' = Rows /\ UNCHANGED table
        BY <1>0, <1>1, <1>2, ChangesSucceed DEF pageVars
    <2>2. CASE r # "list"
        <3>1. UNCHANGED request["list"] /\ ~Changed
            BY <1>0, <1>2, <2>2, HandlerRequests DEF Changed, RequestType, Answers
        <3>. QED
            BY <2>1, <3>1 DEF TableFollows
    <2>3. CASE r = "list"
        <3>1. request' = [request EXCEPT !["list"].pc = "ok", !["list"].rows = Rows]
            BY <1>2, <2>3, HandlerRequests
        <3>. QED
            BY <1>0, <2>1, <3>1 DEF RequestType
    <2>. QED
        BY <2>2, <2>3
<1>3. ASSUME ~ \E r \in Requests : HandlerStep(r) /\ UNCHANGED pageVars
      PROVE  /\ request'["list"].pc = "idle" => table' = Rows'
             /\ request'["list"].pc = "ok" => request'["list"].rows = Rows'
    <2>1. Rows' = Rows
        <3>1. UNCHANGED event
            BY <1>3 DEF Next, CustomerStep, PlaceBooking, CommitBooking, CancelBooking, BookingGoto,
                        ClickNew, ClickEdit, ClickDelete, CloseForm, SubmitForm, CloseDelete,
                        ConfirmDelete, TogglePublish, Succeeds, Fails, Listed, vars, catalogueVars
        <3>. QED
            BY <1>1, <3>1
    <2>2. CASE \E r \in Requests \ {"list"} : request[r].pc = "ok" /\ Invalidate(r)
        BY <1>0, <2>2 DEF Invalidate
    <2>3. CASE request["list"].pc = "ok" /\ Send("list", NoRequest) /\ table' = request["list"].rows
        <3>1. ~Changed
            BY <1>0, <2>3 DEF Changed, Send
        <3>. QED
            BY <1>0, <2>1, <2>3, <3>1 DEF TableFollows, Send
    <2>4. CASE /\ \E r \in Requests \ {"list"}, message \in RequestType : Sends(r, message)
               /\ UNCHANGED table
        <3>1. ~Changed /\ UNCHANGED request["list"]
            BY <1>0, <2>4 DEF Changed, Sends, Send
        <3>. QED
            BY <2>1, <2>4, <3>1 DEF TableFollows
    <2>5. CASE /\ \E r \in Requests \ {"list"} : /\ request[r].pc \in {"refused", "failed"}
                                                /\ Send(r, NoRequest)
               /\ UNCHANGED table
        <3>1. ~Changed /\ UNCHANGED request["list"]
            BY <1>0, <2>5 DEF Changed, Send
        <3>. QED
            BY <2>1, <2>5, <3>1 DEF TableFollows
    <2>6. CASE UNCHANGED request /\ UNCHANGED table
        BY <2>1, <2>6 DEF TableFollows, Changed
    <2>. QED
        BY <1>3, <2>2, <2>3, <2>4, <2>5, <2>6, PageRequests
<1>. QED
    BY <1>2, <1>3

----------------------------------------------------------------------------
(* The inductive invariant, and what follows from it.                      *)

LEMMA CatalogueInvInit == Init => CatalogueInv
<1> SUFFICES ASSUME Init
             PROVE  CatalogueInv
    OBVIOUS
<1> USE DEF Init, CatalogueInit
<1>0. NoRequest \in RequestType /\ NoRequest.pc = "idle"
    BY MessageType
<1>1. PICK plan \in Plans :
          /\ CodesUnique(plan)
          /\ seats = [e \in Events |-> IF Exists(e) THEN SeatCodes(plan) ELSE {}]
          /\ total = [e \in Events |-> IF Exists(e) THEN Cardinality(SeatRows(plan)) ELSE 0]
    OBVIOUS
<1>2. total \in [Events -> Nat]
    BY <1>1, RowsAreCounted
<1>3. request \in [Requests -> RequestType] /\ \A r \in Requests : request[r].pc = "idle"
    BY <1>0
<1>4. event \in [Events -> {"absent", "draft", "published", "deleted"}]
    OBVIOUS
<1>5. table \subseteq Events \X {"draft", "published"}
    BY <1>4, RowsType
<1>6. \A r \in Requests : /\ request[r].pc \in {"idle", "arrived", "found", "counted"} \cup Answers
                          /\ request[r].kind \in Kinds
                          /\ request[r].event \in Events \cup {None}
    BY <1>3 DEF RequestType
<1>7. booking \in [Bookings -> [event : Events \cup {None},
                                status : {"none", "placing", "active", "cancelled"}]]
    OBVIOUS
<1>8. Types
    BY <1>1, <1>2, <1>3, <1>4, <1>5, <1>6, <1>7 DEF Types, CatalogueTypeOK
<1>9. RequestShapes /\ BookedEvents
    BY <1>3 DEF RequestShapes, BookedEvents
<1>10. TotalSeatsCounted
    BY <1>1, RowsAreCounted DEF TotalSeatsCounted
<1>11. TableFollows
    BY <1>3, RequestsAssumption DEF TableFollows
<1>. QED
    BY <1>8, <1>9, <1>10, <1>11 DEF CatalogueInv

LEMMA TypesStep ==
    ASSUME Types, RequestShapes, [Next]_vars
    PROVE  Types'
<1>1. \A r \in Requests : /\ request'[r].pc \in {"idle", "arrived", "found", "counted"} \cup Answers
                          /\ request'[r].kind \in Kinds
                          /\ request'[r].event \in Events \cup {None}
    BY RequestTypesStep DEF RequestType
<1>. QED
    BY <1>1, EventTypesStep, BookingTypesStep, RequestTypesStep, PageTypesStep
    DEF Types, CatalogueTypeOK

LEMMA CatalogueInvStep == CatalogueInv /\ [Next]_vars => CatalogueInv'
BY TypesStep, ShapesStep, BookedEventsStep, TotalSeatsStep, TableFollowsStep DEF CatalogueInv

LEMMA CatalogueInvariant == Spec => []CatalogueInv
BY CatalogueInvInit, CatalogueInvStep, PTL DEF Spec

\* Every value keeps its type, and the two dialogs never meet
\* (AdminEventsPage.tsx, events.service.ts).
THEOREM CatalogueTypesHold == Spec => []CatalogueTypeOK
<1>1. CatalogueInv => CatalogueTypeOK
    BY DEF CatalogueInv, Types
<1>. QED
    BY <1>1, CatalogueInvariant, PTL

\* No booking loses its event or the event's seats, whatever removal was under
\* way when it was made (events.service.ts:95-104, the foreign keys of schema.prisma).
THEOREM EventsOutliveBookings == Spec => []BookingsHaveEvents
<1>1. CatalogueInv => BookingsHaveEvents
    BY DEF CatalogueInv, BookedEvents, BookingsHaveEvents, Referring
<1>. QED
    BY <1>1, CatalogueInvariant, PTL

\* totalSeats is the number of the event's seats at every instant, for any lists
\* of sections: the rows that are counted are the rows that are stored, because
\* none of them is lost to another one of its code (events.service.ts:21-36,140-155).
THEOREM TotalsAreRight == Spec => []TotalSeatsCounted
<1>1. CatalogueInv => TotalSeatsCounted
    BY DEF CatalogueInv
<1>. QED
    BY <1>1, CatalogueInvariant, PTL

\* No request brings a deleted event back (events.service.ts:64-78,123-128).
THEOREM DeletionIsFinal == Spec => DeletedStaysDeleted
<1>1. CatalogueInv /\ [Next]_vars =>
          [\A e \in Events : event[e] = "deleted" => event'[e] = "deleted"]_vars
    BY DeletedUntouched DEF CatalogueInv
<1>. QED
    BY <1>1, CatalogueInvariant, PTL DEF Spec, DeletedStaysDeleted

\* When nothing is under way the table shows what the server has, for any number
\* of mutations whose refetches drop each other (AdminEventsPage.tsx:34-75).
THEOREM TableCatchesUp == Spec => []TableMatchesServer
<1>1. CatalogueInv => TableMatchesServer
    BY RequestsAssumption DEF CatalogueInv, TableFollows, Changed, TableMatchesServer
<1>. QED
    BY <1>1, CatalogueInvariant, PTL
============================================================================
