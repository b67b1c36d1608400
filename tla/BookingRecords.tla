--------------------------- MODULE BookingRecords ---------------------------
(***************************************************************************)
(* The Booking rows as their lists see them: who made a booking, what      *)
(* became of it, and what the reading routes of both services answer.      *)
(* Seats, locks and the calls of createBooking and processJob are left to  *)
(* BookingApi and BookingsWorker: here each is one step on the row.        *)
(***************************************************************************)
EXTENDS Integers, FiniteSets

CONSTANTS
    MaxBookings,  \* bound on the bookings made
    MaxRuns,      \* bound on the runs of processJob that reach a booking
    PageSize      \* rows of a page of findAll

ASSUME RowBoundsAssumption == MaxBookings \in Nat /\ MaxRuns \in Nat
ASSUME PageSizeAssumption == PageSize \in Nat \ {0}

VARIABLES
    status,  \* Booking.status, "NONE" when there is no such row
    owned,   \* the bookings whose userId is the user of the tab
    runs     \* the runs of processJob that the booking's job may still see

recordVars == <<status, owned, runs>>

\* A booking is its place in the order of createdAt.
Bookings == 1 .. MaxBookings
Statuses == {"PENDING", "CONFIRMED", "CANCELLED", "FAILED"}
Made == {b \in Bookings : status[b] # "NONE"}
Newest == Cardinality(Made)

RecordsTypeOK ==
    /\ status \in [Bookings -> Statuses \cup {"NONE"}]
    /\ Made = 1 .. Newest
    /\ owned \subseteq Made
    /\ runs \in [Bookings -> 0 .. MaxRuns]

RecordsInit ==
    /\ status = [b \in Bookings |-> "NONE"]
    /\ owned = {}
    /\ runs = [b \in Bookings |-> 0]

SetStatus(b, s) == status' = [status EXCEPT ![b] = s]

----------------------------------------------------------------------------
(* What is written.                                                        *)

\* createBooking, with userId if the request came with a token that was good.
Create(ofUser) ==
    /\ Newest < MaxBookings
    /\ SetStatus(Newest + 1, "PENDING")
    /\ runs' = [runs EXCEPT ![Newest + 1] = MaxRuns]
    /\ owned' = IF ofUser THEN owned \cup {Newest + 1} ELSE owned

\* OptionalJwtAuthGuard: a token that expired by now makes the user a guest.
CreateForUser == \E valid \in BOOLEAN : Create(valid)

\* A run of processJob confirms the booking or gives it up, whatever its status
\* is.  Another run may follow: a later call failed, or two runs overlap.
Process(b) ==
    /\ runs[b] > 0
    /\ \E s \in {"CONFIRMED", "FAILED"} : SetStatus(b, s)
    /\ \E left \in {0, runs[b] - 1} : runs' = [runs EXCEPT ![b] = left]
    /\ UNCHANGED owned

\* Another tab, or an organizer, cancels.
CancelElsewhere(b) ==
    /\ b \in Made /\ status[b] # "CANCELLED"
    /\ SetStatus(b, "CANCELLED")
    /\ UNCHANGED <<owned, runs>>

----------------------------------------------------------------------------
(* What is read.                                                           *)

\* A row counts for its booking, and for whether it is cancelled.
Row(b) == <<b, status[b] = "CANCELLED">>
Matching(filter) == {b \in Made : filter = "ALL" \/ status[b] = filter}
PagesOf(total) == (total + PageSize - 1) \div PageSize

\* As OnPage, skipping page * pageSize rows.
OnPageAfter(S, p) == {b \in S : Cardinality({a \in S : a > b}) \div PageSize = p}

\* Newest first, skip (page - 1) * pageSize, take pageSize.
OnPage(S, p) == {b \in S : Cardinality({a \in S : a > b}) \div PageSize = p - 1}

\* As Selected, if only its owner could look up a booking.
SelectedOfOwner(key) ==
    CASE key[1] = "mine"    -> owned
      [] key[1] = "booking" -> {key[2]} \cap owned
      [] key[1] = "admin"   -> OnPage(Matching(key[2]), key[3])

\* The rows that getMyBookings, getByRef and findAll find, each named by the
\* key of the query that asks for them.
Selected(key) ==
    CASE key[1] = "mine"    -> owned
      [] key[1] = "booking" -> {key[2]} \cap Made
      [] key[1] = "admin"   -> OnPage(Matching(key[2]), key[3])
============================================================================
