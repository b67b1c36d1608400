--------------------------- MODULE EventCatalogue ---------------------------
(***************************************************************************)
(* admin-api's EventsService and the bookings that refer to its events.    *)
(* A handler runs from one awaited call to the next:                       *)
(*                                                                         *)
(*    create:             arrived -> ok                                    *)
(*    update:             arrived -> found -> ok                           *)
(*    publish, unpublish: arrived -> found -> ok                           *)
(*    remove:             arrived -> found -> counted -> ok                *)
(*                                                                         *)
(* and answers "refused" where the code throws a 4xx exception, "failed"   *)
(* where a call to the database rejects.  The events are those the         *)
(* requester may manage.                                                   *)
(***************************************************************************)
EXTENDS Integers, Sequences, FiniteSets

CONSTANTS
    Events,    \* ids of events that may come to exist
    Bookings,  \* bookings that customers may make
    Plans,     \* the lists of sections an event may be created from
    Requests,  \* requests to admin-api in progress
    None       \* no event

ASSUME NoEventAssumption == None \notin Events

VARIABLES
    event,     \* each Event row: not yet there, a draft, published, or deleted
    seats,     \* the seat codes of its Seat rows
    total,     \* Event.totalSeats
    booking,   \* each booking: its event, and how far it is
    request    \* each request: where its handler is, and what it carries

catalogueVars == <<event, seats, total>>

Kinds == {"create", "update", "remove", "publish", "unpublish", "list"}
Answers == {"ok", "refused", "failed"}
NoRequest == [pc |-> "idle", kind |-> "list", event |-> None, hoursOk |-> TRUE,
              sections |-> FALSE, plan |-> <<>>, rows |-> {}]

\* A section's name counts for its first letter only.
Section == [initial : STRING, rows : Nat \ {0}, seatsPerRow : Nat \ {0}]

ASSUME PlansAssumption == Plans \subseteq Seq(Section)

\* buildSeatRows makes one row for each section, letter and number, whatever
\* their codes; a code holds the section's initial, the letter and the number.
SeatRows(plan) ==
    UNION {{i} \X (1..plan[i].rows) \X (1..plan[i].seatsPerRow) : i \in DOMAIN plan}
SeatCode(plan, row) == <<plan[row[1]].initial, row[2], row[3]>>
SeatCodes(plan) == {SeatCode(plan, row) : row \in SeatRows(plan)}

\* The table's unique key: no two rows of one event have the same code.
CodesUnique(plan) ==
    \A x, y \in SeatRows(plan) : SeatCode(plan, x) = SeatCode(plan, y) => x = y

Exists(e) == event[e] \in {"draft", "published"}
Active(e) == {b \in Bookings : booking[b] = [event |-> e, status |-> "active"]}
Referring(e) == {b \in Bookings : booking[b].event = e /\ booking[b].status \in {"active", "cancelled"}}

CatalogueInit ==
    /\ event \in [Events -> {"absent", "draft", "published"}]
    /\ \E plan \in {p \in Plans : CodesUnique(p)} :
          /\ seats = [e \in Events |-> IF Exists(e) THEN SeatCodes(plan) ELSE {}]
          /\ total = [e \in Events |-> IF Exists(e) THEN Cardinality(SeatRows(plan)) ELSE 0]
    /\ booking = [b \in Bookings |-> [event |-> None, status |-> "none"]]
    /\ request = [r \in Requests |-> NoRequest]

Arrived(r, kinds) == request[r].pc = "arrived" /\ request[r].kind \in kinds
Reply(r, pc) == request' = [request EXCEPT ![r].pc = pc, ![r].plan = <<>>]

\* The handler goes on at pc, or answers with it, and has changed nothing.
Goto(r, pc) == Reply(r, pc) /\ UNCHANGED <<catalogueVars, booking>>

----------------------------------------------------------------------------
(* Creation, update, publication.                                          *)

\* As CreateEvent, if rows whose code is taken were skipped.
CreateEventSkippingDuplicates(r) ==
    LET e == request[r].event IN
    /\ Arrived(r, {"create"}) /\ request[r].hoursOk
    /\ event' = [event EXCEPT ![e] = "draft"]
    /\ seats' = [seats EXCEPT ![e] = SeatCodes(request[r].plan)]
    /\ total' = [total EXCEPT ![e] = Cardinality(SeatRows(request[r].plan))]
    /\ Reply(r, "ok")
    /\ UNCHANGED booking

\* The event is created with all its seats, or not at all if two of them would
\* have one code.  totalSeats is the number of the rows that were made.
CreateEvent(r) ==
    LET e == request[r].event
        plan == request[r].plan
    IN
    /\ Arrived(r, {"create"})
    /\ \/ ~request[r].hoursOk /\ Goto(r, "refused")
       \/ /\ request[r].hoursOk /\ ~CodesUnique(plan)
          /\ Goto(r, "failed")
       \/ /\ request[r].hoursOk /\ CodesUnique(plan)
          /\ event' = [event EXCEPT ![e] = "draft"]
          /\ seats' = [seats EXCEPT ![e] = SeatCodes(plan)]
          /\ total' = [total EXCEPT ![e] = Cardinality(SeatRows(plan))]
          /\ Reply(r, "ok")
          /\ UNCHANGED booking

\* The validation pipe refuses a property that UpdateEventDto does not have.
Whitelisted(message) == message.kind = "update" => ~message.sections

\* Refused as well: hours out of order, and what is asked of no event.
FindEvent(r) ==
    /\ Arrived(r, {"update", "remove", "publish", "unpublish"})
    /\ Goto(r, IF /\ Exists(request[r].event)
                  /\ Whitelisted(request[r])
                  /\ request[r].kind = "update" => request[r].hoursOk
               THEN "found" ELSE "refused")

\* As WriteEvent, if the write created the row that it does not find.
UpsertEvent(r) ==
    LET e == request[r].event IN
    /\ request[r].pc = "found" /\ request[r].kind \in {"update", "publish", "unpublish"}
    /\ event' = [event EXCEPT ![e] = CASE request[r].kind = "publish" -> "published"
                                       [] request[r].kind = "unpublish" -> "draft"
                                       [] OTHER -> @]
    /\ Reply(r, "ok")
    /\ UNCHANGED <<seats, total, booking>>

\* event.update: it rejects if the event was deleted since it was found.
WriteEvent(r) ==
    LET e == request[r].event IN
    /\ request[r].pc = "found" /\ request[r].kind \in {"update", "publish", "unpublish"}
    /\ \/ ~Exists(e) /\ Goto(r, "failed")
       \/ /\ Exists(e)
          /\ event' = [event EXCEPT ![e] = CASE request[r].kind = "publish" -> "published"
                                             [] request[r].kind = "unpublish" -> "draft"
                                             [] OTHER -> @]
          /\ Reply(r, "ok")
          /\ UNCHANGED <<seats, total, booking>>

----------------------------------------------------------------------------
(* Removal.                                                                *)

\* booking.count looks at bookings that are PENDING or CONFIRMED.
CountBookings(r) ==
    /\ request[r].pc = "found" /\ request[r].kind = "remove"
    /\ Goto(r, IF Active(request[r].event) = {} THEN "counted" ELSE "refused")

DeletesEvent(r) ==
    LET e == request[r].event IN
    /\ event' = [event EXCEPT ![e] = "deleted"]
    /\ seats' = [seats EXCEPT ![e] = {}]
    /\ Reply(r, "ok")
    /\ UNCHANGED <<total, booking>>

\* As DeleteEvent, trusting the count alone.
DeleteUnchecked(r) ==
    /\ request[r].pc = "counted"
    /\ DeletesEvent(r)

\* As DeleteEvent, if the event's seats were left behind.
DeleteLeavingSeats(r) ==
    LET e == request[r].event IN
    /\ request[r].pc = "counted" /\ Exists(e) /\ Referring(e) = {}
    /\ event' = [event EXCEPT ![e] = "deleted"]
    /\ Reply(r, "ok")
    /\ UNCHANGED <<seats, total, booking>>

\* event.delete takes the event's seats along; the foreign keys of bookings and
\* booking_seats restrict it, whatever the status of the booking.
DeleteEvent(r) ==
    /\ request[r].pc = "counted"
    /\ \/ /\ Exists(request[r].event) /\ Referring(request[r].event) = {}
          /\ DeletesEvent(r)
       \/ /\ ~Exists(request[r].event) \/ Referring(request[r].event) # {}
          /\ Goto(r, "failed")

\* findAll: the rows as they are now.
ListEvents(r) ==
    /\ Arrived(r, {"list"})
    /\ request' = [request EXCEPT ![r].pc = "ok", ![r].rows = {<<e, event[e]>> : e \in {x \in Events : Exists(x)}}]
    /\ UNCHANGED <<catalogueVars, booking>>

HandlerStep(r) ==
    \/ CreateEvent(r)
    \/ FindEvent(r)
    \/ WriteEvent(r)
    \/ CountBookings(r)
    \/ DeleteEvent(r)
    \/ ListEvents(r)

----------------------------------------------------------------------------
(* Customers.                                                              *)

BookingGoto(b, e, status) ==
    /\ booking' = [booking EXCEPT ![b] = [event |-> e, status |-> status]]
    /\ UNCHANGED <<catalogueVars, request>>

\* createBooking finds the event published, and some of its seats free.
PlaceBooking(b, e) ==
    /\ booking[b].status = "none"
    /\ event[e] = "published" /\ seats[e] # {}
    /\ BookingGoto(b, e, "placing")

\* Its transaction refers to the event and the seats, which must still be there.
CommitBooking(b) ==
    /\ booking[b].status = "placing"
    /\ IF Exists(booking[b].event) THEN BookingGoto(b, booking[b].event, "active")
                                   ELSE BookingGoto(b, None, "none")

\* The customer or an administrator cancels; the row stays.
CancelBooking(b) ==
    /\ booking[b].status = "active"
    /\ BookingGoto(b, booking[b].event, "cancelled")

CustomerStep ==
    \E b \in Bookings :
        \/ \E e \in Events : PlaceBooking(b, e)
        \/ CommitBooking(b)
        \/ CancelBooking(b)
============================================================================
