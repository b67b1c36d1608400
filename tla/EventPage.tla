----------------------------- MODULE EventPage -----------------------------
(***************************************************************************)
(* The dashboard as a customer uses it: EventDetailPage, the store of the  *)
(* selected seats, the cached seat maps and the requests to events-api.    *)
(* A booking is decided in one step here; BookingApi has its handler.      *)
(* An answer that tells of success arrives, one that fails may hide a      *)
(* booking that was made: the timeout and the 5xx answers.                 *)
(***************************************************************************)
EXTENDS Naturals, FiniteSets

CONSTANTS
    Events,     \* events on sale
    SeatsOf,    \* the seat codes of each; two events may share codes
    Attempts,   \* requests to book in progress
    MaxSeats,   \* seats one may select
    Contested,  \* the bound on the others: the seats whose status they change
    None        \* no event

Pages == Events \cup {"elsewhere", "confirmation"}
AllSeats == UNION {SeatsOf[e] : e \in Events}

ASSUME SeatsAssumption == DOMAIN SeatsOf = Events /\ None \notin Events
ASSUME PagesAssumption == Events \cap {"elsewhere", "confirmation"} = {}
ASSUME MaxSeatsAssumption == MaxSeats \in Nat

VARIABLES
    page,        \* the page open
    storeEvent,  \* useSeatSelectionStore: eventId
    selection,   \* selectedSeatCodes, each with the event on whose map it was chosen
    dialog,      \* whether the checkout dialog is open
    attempt,     \* each POST /bookings: its state, what it asks for, its page
    taken,       \* the server: each event's seats that are not AVAILABLE
    shown,       \* the cached seat map of each event
    fetch        \* the request for each event's seat map

storeVars == <<storeEvent, selection>>
mapVars == <<shown, fetch>>
vars == <<page, storeVars, dialog, attempt, taken, mapVars>>

NoAttempt == [pc |-> "idle", event |-> None, chosen |-> {}, key |-> None, here |-> FALSE]
NoFetch == [pc |-> "idle", seats |-> {}]
SentFetch == [pc |-> "sent", seats |-> {}]

Codes(choices) == {choice[2] : choice \in choices}

\* The request of this page that is pending: isSubmitting.
Submitting == \E a \in Attempts : attempt[a].here

Init ==
    /\ page = "elsewhere"
    /\ storeEvent = None /\ selection = {}
    /\ dialog = FALSE
    /\ attempt = [a \in Attempts |-> NoAttempt]
    /\ taken = [e \in Events |-> {}]
    /\ shown = [e \in Events |-> [loaded |-> FALSE, taken |-> {}]]
    /\ fetch = [e \in Events |-> NoFetch]

----------------------------------------------------------------------------
(* The customer.                                                           *)

\* As SetEventId, if the selection were kept.
SetEventIdOnly(e) == storeEvent' = e /\ UNCHANGED selection

SetEventId(e) ==
    /\ storeEvent' = e
    /\ selection' = IF storeEvent # e THEN {} ELSE selection

\* A link or the history opens a page.  The same component shows one event and
\* the next: its dialog and its pending request stay, under the new id.
Visit(p) ==
    /\ page # p /\ page' = p
    /\ IF p \in Events THEN SetEventId(p) ELSE UNCHANGED storeVars
    /\ LET same == {page, p} \subseteq Events IN
          /\ dialog' = (dialog /\ same)
          /\ attempt' = [a \in Attempts |->
                            [attempt[a] EXCEPT !.here = @ /\ same,
                                               !.key = IF attempt[a].here /\ same THEN p ELSE @]]
    /\ UNCHANGED <<taken, mapVars>>

\* As ToggleSeat, with a limit that is off by one.
ToggleBeyondLimit(s) ==
    /\ page \in Events /\ shown[page].loaded /\ ~dialog /\ s \in SeatsOf[page]
    /\ \/ /\ s \in Codes(selection)
          /\ selection' = {choice \in selection : choice[2] # s}
       \/ /\ s \notin Codes(selection) /\ s \notin shown[page].taken
          /\ Cardinality(selection) <= MaxSeats
          /\ selection' = selection \cup {<<page, s>>}
    /\ UNCHANGED <<page, storeEvent, dialog, attempt, taken, mapVars>>

\* A selected seat can be deselected whatever became of it; another one can be
\* selected if the map shows it free and the limit is not reached.
ToggleSeat(s) ==
    /\ page \in Events /\ shown[page].loaded /\ ~dialog /\ s \in SeatsOf[page]
    /\ \/ /\ s \in Codes(selection)
          /\ selection' = {choice \in selection : choice[2] # s}
       \/ /\ s \notin Codes(selection) /\ s \notin shown[page].taken
          /\ Cardinality(selection) < MaxSeats
          /\ selection' = selection \cup {<<page, s>>}
    /\ UNCHANGED <<page, storeEvent, dialog, attempt, taken, mapVars>>

\* BookingPanel's button counts the selected seats that the map has.
OpenCheckout ==
    /\ page \in Events /\ shown[page].loaded /\ ~dialog
    /\ Codes(selection) \cap SeatsOf[page] # {} /\ ~Submitting
    /\ dialog' = TRUE
    /\ UNCHANGED <<page, storeVars, attempt, taken, mapVars>>

\* A click beside the dialog closes it also while the request is pending.
CloseCheckout ==
    /\ dialog /\ dialog' = FALSE
    /\ UNCHANGED <<page, storeVars, attempt, taken, mapVars>>

\* The dialog is not drawn while the page loads.
Submit(a) ==
    /\ dialog /\ shown[page].loaded /\ ~Submitting
    /\ attempt[a] = NoAttempt
    /\ attempt' = [attempt EXCEPT ![a] = [pc |-> "sent", event |-> page, chosen |-> selection,
                                         key |-> page, here |-> TRUE]]
    /\ UNCHANGED <<page, storeVars, dialog, taken, mapVars>>

----------------------------------------------------------------------------
(* events-api.                                                             *)

Answer(a, pc) == attempt' = [attempt EXCEPT ![a].pc = pc]

\* CreateBookingDto: at least one seat, and at most ten, which the page never exceeds.
Valid(codes) == codes # {}

\* All the seats are booked or none; the page may be told that it failed, either way.
HandleBooking(a) ==
    /\ attempt[a].pc = "sent"
    /\ LET e == attempt[a].event
           codes == Codes(attempt[a].chosen)
       IN  \/ Answer(a, "failed") /\ UNCHANGED taken
           \/ /\ Valid(codes) /\ codes \subseteq SeatsOf[e] \ taken[e]
              /\ taken' = [taken EXCEPT ![e] = @ \cup codes]
              /\ Answer(a, "ok") \/ Answer(a, "failed")
    /\ UNCHANGED <<page, storeVars, dialog, mapVars>>

\* Bookings of other customers, and cancellations.
OthersChange(e, s) ==
    /\ <<e, s>> \in Contested
    /\ taken' = [taken EXCEPT ![e] = IF s \in @ THEN @ \ {s} ELSE @ \cup {s}]
    /\ UNCHANGED <<page, storeVars, dialog, attempt, mapVars>>

----------------------------------------------------------------------------
(* What the answers do.                                                    *)

\* invalidateQueries fetches the map of a page that is open again, and no longer
\* listens to a fetch in flight, unless it is the first.
Refetch(e) ==
    fetch' = IF page = e /\ (shown[e].loaded \/ fetch[e].pc = "idle")
             THEN [fetch EXCEPT ![e] = SentFetch] ELSE fetch

\* As BookingSucceeds, if a page that was left did nothing.
SucceedsIfHere(a) ==
    /\ attempt[a].pc = "ok"
    /\ attempt' = [b \in Attempts |-> IF b = a THEN NoAttempt ELSE [attempt[b] EXCEPT !.here = FALSE]]
    /\ IF attempt[a].here
       THEN /\ storeEvent' = None /\ selection' = {}
            /\ Refetch(attempt[a].key)
            /\ page' = "confirmation" /\ dialog' = FALSE
       ELSE UNCHANGED <<page, storeVars, dialog, fetch>>
    /\ UNCHANGED <<taken, shown>>

\* onSuccess runs also when the customer has gone to another page by now: it
\* empties the selection and opens the confirmation.
BookingSucceeds(a) ==
    /\ attempt[a].pc = "ok"
    /\ attempt' = [b \in Attempts |-> IF b = a THEN NoAttempt ELSE [attempt[b] EXCEPT !.here = FALSE]]
    /\ storeEvent' = None /\ selection' = {}
    /\ Refetch(attempt[a].key)
    /\ page' = "confirmation" /\ dialog' = FALSE
    /\ UNCHANGED <<taken, shown>>

\* onError: a message in the dialog; the selection stays.
BookingFails(a) ==
    /\ attempt[a].pc = "failed"
    /\ attempt' = [attempt EXCEPT ![a] = NoAttempt]
    /\ UNCHANGED <<page, storeVars, dialog, taken, mapVars>>

\* As FetchMap, without refetchInterval.
FetchMapOnce(e) ==
    /\ page = e /\ fetch[e].pc = "idle" /\ ~shown[e].loaded
    /\ fetch' = [fetch EXCEPT ![e] = SentFetch]
    /\ UNCHANGED <<page, storeVars, dialog, attempt, taken, shown>>

\* The page fetches the map as it opens and every 15 seconds.
FetchMap(e) ==
    /\ page = e /\ fetch[e].pc = "idle"
    /\ fetch' = [fetch EXCEPT ![e] = SentFetch]
    /\ UNCHANGED <<page, storeVars, dialog, attempt, taken, shown>>

\* getSeatMap.
ReadMap(e) ==
    /\ fetch[e].pc = "sent"
    /\ fetch' = [fetch EXCEPT ![e] = [pc |-> "read", seats |-> taken[e]]]
    /\ UNCHANGED <<page, storeVars, dialog, attempt, taken, shown>>

\* The answer fills the cache also when the page was left.
MapArrives(e) ==
    /\ fetch[e].pc = "read"
    /\ shown' = [shown EXCEPT ![e] = [loaded |-> TRUE, taken |-> fetch[e].seats]]
    /\ fetch' = [fetch EXCEPT ![e] = NoFetch]
    /\ UNCHANGED <<page, storeVars, dialog, attempt, taken>>

\* The map that was there stays.
MapFails(e) ==
    /\ fetch[e].pc # "idle"
    /\ fetch' = [fetch EXCEPT ![e] = NoFetch]
    /\ UNCHANGED <<page, storeVars, dialog, attempt, taken, shown>>

----------------------------------------------------------------------------
Next ==
    \/ \E p \in Pages \ {"confirmation"} : Visit(p)
    \/ \E s \in AllSeats : ToggleSeat(s)
    \/ OpenCheckout
    \/ CloseCheckout
    \/ \E a \in Attempts : \/ Submit(a)
                           \/ HandleBooking(a)
                           \/ BookingSucceeds(a)
                           \/ BookingFails(a)
    \/ \E e \in Events : \/ \E s \in SeatsOf[e] : OthersChange(e, s)
                         \/ FetchMap(e)
                         \/ ReadMap(e)
                         \/ MapArrives(e)
                         \/ MapFails(e)

\* The handlers run and the interval ticks; of the fetches that the network may
\* lose it does not lose all.
Fairness ==
    /\ \A a \in Attempts : /\ WF_vars(HandleBooking(a))
                           /\ WF_vars(BookingSucceeds(a))
                           /\ WF_vars(BookingFails(a))
    /\ \A e \in Events : /\ WF_vars(FetchMap(e))
                         /\ SF_vars(ReadMap(e))
                         /\ SF_vars(MapArrives(e))

Spec == Init /\ [][Next]_vars /\ Fairness

----------------------------------------------------------------------------
(* Properties.                                                             *)

\* Every value is of its type; never more seats are selected, and asked for,
\* than the page allows and the server accepts (EventDetailPage.tsx:25,130).
EventPageTypeOK ==
    /\ page \in Pages
    /\ storeEvent \in Events \cup {None}
    /\ selection \subseteq Events \X AllSeats /\ Cardinality(selection) <= MaxSeats
    /\ dialog \in BOOLEAN /\ (dialog => page \in Events)
    /\ \A a \in Attempts : /\ attempt[a].pc \in {"idle", "sent", "ok", "failed"}
                           /\ attempt[a].event \in Events \cup {None}
                           /\ Cardinality(attempt[a].chosen) <= MaxSeats
    /\ \A e \in Events : /\ taken[e] \cup shown[e].taken \cup fetch[e].seats \subseteq SeatsOf[e]
                         /\ fetch[e].pc \in {"idle", "sent", "read"}

\* "Switching events should never carry over a stale selection from a different
\* seat map" (seatSelectionStore.ts:18-19): what a page would book, and what a
\* request asks for, was chosen on the map of that event, whatever answers of
\* earlier requests cleared the store in between.
SelectionOfThisEvent ==
    /\ page \in Events => \A choice \in selection : choice[1] = page
    /\ \A a \in Attempts : \A choice \in attempt[a].chosen : choice[1] = attempt[a].event

\* A page that stays open comes to show the seats as they are once they change no
\* more, although the map is only polled, polls fail, and the answer of a poll may be
\* older than a booking (EventDetailPage.tsx:43-48).
SeatMapCatchesUp ==
    \A e \in Events :
        <>[](page = e) /\ <>[][FALSE]_(taken[e]) => <>[](shown[e].taken = taken[e])

\* A customer whose booking succeeds gets to the confirmation, wherever he is by
\* then (EventDetailPage.tsx:62-66).
SuccessIsConfirmed ==
    \A a \in Attempts : attempt[a].pc = "ok" ~> page = "confirmation"
============================================================================
