--------------------------- MODULE BookingCancel ---------------------------
(***************************************************************************)
(* The two handlers that cancel a booking: events-api's cancelBooking (by  *)
(* reference, open to the customer) and admin-api's cancel (by id).  Both  *)
(* read the booking, refuse one that is CANCELLED, and write in a          *)
(* transaction that does not look at the status again.  Only the           *)
(* customer's deletes the seat locks afterwards.                           *)
(***************************************************************************)
EXTENDS TicketStore

CONSTANTS CustomerCancels, AdminCancels  \* calls of the two handlers
ASSUME CancelsAssumption == CustomerCancels \cap AdminCancels = {}

VARIABLES
    cancelPc,     \* where each call is
    cancelTarget  \* the booking it read, or None

cancelVars == <<cancelPc, cancelTarget>>

Cancels == CustomerCancels \cup AdminCancels
CancelPc == {"idle", "cancel", "release", "cancelled", "refused", "error"}

CancelTypeOK ==
    /\ cancelPc \in [Cancels -> CancelPc]
    /\ cancelTarget \in [Cancels -> Requests \cup {None}]
    /\ \A c \in Cancels : cancelPc[c] \in {"cancel", "release"} => cancelTarget[c] # None

CancelInit ==
    /\ cancelPc = [c \in Cancels |-> "idle"]
    /\ cancelTarget = [c \in Cancels |-> None]

CancelGoto(c, pc) ==
    /\ cancelPc' = [cancelPc EXCEPT ![c] = pc]
    /\ UNCHANGED cancelTarget

\* The handler returns or throws.
CancelReturns(c, pc) ==
    /\ cancelPc' = [cancelPc EXCEPT ![c] = pc]
    /\ cancelTarget' = [cancelTarget EXCEPT ![c] = None]

----------------------------------------------------------------------------
\* booking.findUnique: the booking exists and may be cancelled.
FindBooking(c, b) ==
    /\ cancelPc[c] = "idle"
    /\ bookingStatus[b] \notin {"NONE", "CANCELLED"}
    /\ cancelPc' = [cancelPc EXCEPT ![c] = "cancel"]
    /\ cancelTarget' = [cancelTarget EXCEPT ![c] = b]
    /\ UNCHANGED <<storeVars, faultsLeft>>

\* booking.findUnique: no such booking (404) or already cancelled (400).
RefuseCancel(c, b) ==
    /\ cancelPc[c] = "idle"
    /\ bookingStatus[b] \in {"NONE", "CANCELLED"}
    /\ CancelGoto(c, "refused")
    /\ UNCHANGED <<storeVars, faultsLeft>>

\* The transaction; the admin's handler returns after it.
CancelTransaction(c) ==
    /\ cancelPc[c] = "cancel"
    /\ CancelBooking(cancelTarget[c])
    /\ IF c \in CustomerCancels THEN CancelGoto(c, "release")
                                ELSE CancelReturns(c, "cancelled")
    /\ UNCHANGED faultsLeft

\* The customer's handler deletes the locks of the booking's seats.
CancelRelease(c) ==
    /\ cancelPc[c] = "release"
    /\ DelLocks(bookingSeats[cancelTarget[c]])
    /\ CancelReturns(c, "cancelled")
    /\ UNCHANGED faultsLeft

\* The process dies or a call fails; what was done stays.
CancelStops(c) ==
    /\ Fault("cancelStops")
    /\ cancelPc[c] \in {"cancel", "release"}
    /\ CancelReturns(c, "error")
    /\ UNCHANGED storeVars

CancelStep(c) == CancelTransaction(c) \/ CancelRelease(c)

CancelNext ==
    \E c \in Cancels :
        \/ \E b \in Requests : FindBooking(c, b) \/ RefuseCancel(c, b)
        \/ CancelStep(c)
        \/ CancelStops(c)
============================================================================
