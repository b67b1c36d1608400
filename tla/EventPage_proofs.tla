-------------------------- MODULE EventPage_proofs --------------------------
(***************************************************************************)
(* The customer's page, for any events, seat codes, limit and requests in  *)
(* progress: the types with the limit on seats, and SelectionOfThisEvent.  *)
(***************************************************************************)
EXTENDS EventPage, FiniteSetTheorems, TLAPS

AttemptType ==
    [pc : {"idle", "sent", "ok", "failed"}, event : Events \cup {None},
     chosen : SUBSET (Events \X AllSeats), key : Pages \cup {None}, here : BOOLEAN]

\* Seats that may be selected together.
Selectable(S) == IsFiniteSet(S) /\ Cardinality(S) <= MaxSeats

CustomerTypes ==
    /\ page \in Pages
    /\ storeEvent \in Events \cup {None}
    /\ selection \subseteq Events \X AllSeats /\ Selectable(selection)
    /\ dialog \in BOOLEAN /\ (dialog => page \in Events)
    /\ attempt \in [Attempts -> AttemptType]
    /\ \A a \in Attempts : Selectable(attempt[a].chosen)

MapTypes ==
    /\ taken \in [Events -> SUBSET AllSeats]
    /\ shown \in [Events -> [loaded : BOOLEAN, taken : SUBSET AllSeats]]
    /\ fetch \in [Events -> [pc : {"idle", "sent", "read"}, seats : SUBSET AllSeats]]
    /\ \A e \in Events : taken[e] \cup shown[e].taken \cup fetch[e].seats \subseteq SeatsOf[e]

\* The store belongs to the event whose page is open, and what is selected to the
\* store's event, also on the pages that show no event: so a page that opens
\* either finds its own selection or drops it.
StoreFollowsPage ==
    /\ page \in Events => storeEvent = page
    /\ \A choice \in selection : choice[1] = storeEvent
    /\ \A a \in Attempts : \A choice \in attempt[a].chosen : choice[1] = attempt[a].event

PageInv == CustomerTypes /\ MapTypes /\ StoreFollowsPage

----------------------------------------------------------------------------
LEMMA EmptySelectable == Selectable({})
BY FS_EmptySet, MaxSeatsAssumption DEF Selectable

\* What ToggleSeat does to the selection.
LEMMA ToggledSelectable ==
    ASSUME NEW S, Selectable(S), NEW T
    PROVE  /\ T \subseteq S => Selectable(T)
           /\ \A x : Cardinality(S) < MaxSeats /\ T = S \cup {x} => Selectable(T)
<1>1. IsFiniteSet(S) /\ Cardinality(S) \in Nat
    BY FS_CardinalityType DEF Selectable
<1>2. ASSUME T \subseteq S
      PROVE  Selectable(T)
    <2>1. IsFiniteSet(T) /\ Cardinality(T) <= Cardinality(S)
        BY <1>1, <1>2, FS_Subset
    <2>2. Cardinality(T) \in Nat
        BY <2>1, FS_CardinalityType
    <2>. QED
        BY <1>1, <2>1, <2>2, MaxSeatsAssumption DEF Selectable
<1>3. ASSUME NEW x, Cardinality(S) < MaxSeats, T = S \cup {x}
      PROVE  Selectable(T)
    <2>1. /\ IsFiniteSet(S \cup {x})
          /\ Cardinality(S \cup {x}) = Cardinality(S) \/ Cardinality(S \cup {x}) = Cardinality(S) + 1
        BY <1>1, FS_AddElement
    <2>. QED
        BY <1>1, <1>3, <2>1, MaxSeatsAssumption DEF Selectable
<1>. QED
    BY <1>2, <1>3

LEMMA NoneTypes ==
    /\ NoAttempt \in AttemptType /\ NoAttempt.chosen = {}
    /\ \A e \in Events : SeatsOf[e] \subseteq AllSeats
    /\ {NoFetch, SentFetch} \subseteq [pc : {"idle", "sent", "read"}, seats : SUBSET AllSeats]
    /\ NoFetch.seats = {} /\ SentFetch.seats = {}
<1>1. NoAttempt \in AttemptType /\ NoAttempt.chosen = {}
    BY DEF NoAttempt, AttemptType
<1>2. \A e \in Events : SeatsOf[e] \subseteq AllSeats
    BY DEF AllSeats
<1>3. /\ {NoFetch, SentFetch} \subseteq [pc : {"idle", "sent", "read"}, seats : SUBSET AllSeats]
      /\ NoFetch.seats = {} /\ SentFetch.seats = {}
    BY DEF NoFetch, SentFetch
<1>. QED
    BY <1>1, <1>2, <1>3

LEMMA PageInvInit == Init => PageInv
<1> SUFFICES ASSUME Init
             PROVE  PageInv
    OBVIOUS
<1>1. CustomerTypes
    BY EmptySelectable, NoneTypes DEF Init, CustomerTypes, Pages
<1>2. MapTypes
    BY NoneTypes DEF Init, MapTypes
<1>3. StoreFollowsPage
    BY NoneTypes, PagesAssumption DEF Init, StoreFollowsPage
<1>. QED
    BY <1>1, <1>2, <1>3 DEF PageInv

----------------------------------------------------------------------------
(* The customer.                                                           *)

LEMMA VisitStep ==
    ASSUME PageInv, NEW p \in Pages, Visit(p)
    PROVE  CustomerTypes' /\ StoreFollowsPage'
<1> USE DEF PageInv
<1>1. /\ attempt' \in [Attempts -> AttemptType]
      /\ \A a \in Attempts : /\ attempt'[a].chosen = attempt[a].chosen
                             /\ attempt'[a].event = attempt[a].event
    BY DEF Visit, CustomerTypes, AttemptType
<1>2. CASE p \in Events
    BY <1>1, <1>2, EmptySelectable DEF Visit, SetEventId, CustomerTypes, StoreFollowsPage
<1>3. CASE p \notin Events
    BY <1>1, <1>3 DEF Visit, CustomerTypes, StoreFollowsPage, storeVars
<1>. QED
    BY <1>2, <1>3

LEMMA ToggleStep ==
    ASSUME PageInv, NEW s \in AllSeats, ToggleSeat(s)
    PROVE  CustomerTypes' /\ StoreFollowsPage'
<1> USE DEF PageInv, CustomerTypes
<1>1. Selectable(selection')
    BY ToggledSelectable DEF ToggleSeat
<1>2. selection' \subseteq Events \X AllSeats
    BY DEF ToggleSeat
<1>3. \A choice \in selection' : choice[1] = storeEvent
    BY DEF ToggleSeat, StoreFollowsPage
<1>. QED
    BY <1>1, <1>2, <1>3 DEF ToggleSeat, StoreFollowsPage

LEMMA SubmitStep ==
    ASSUME PageInv, NEW a \in Attempts, Submit(a)
    PROVE  CustomerTypes' /\ StoreFollowsPage'
<1> USE DEF PageInv
<1> DEFINE m == [pc |-> "sent", event |-> page, chosen |-> selection, key |-> page, here |-> TRUE]
<1>1. page \in Events /\ storeEvent = page
    BY DEF Submit, CustomerTypes, StoreFollowsPage
<1>2. m \in AttemptType /\ m.chosen = selection /\ m.event = page
    BY <1>1 DEF AttemptType, CustomerTypes
<1>3. attempt' = [attempt EXCEPT ![a] = m]
    BY DEF Submit
<1> HIDE DEF m
<1>4. attempt' \in [Attempts -> AttemptType] /\ \A b \in Attempts : Selectable(attempt'[b].chosen)
    BY <1>2, <1>3 DEF CustomerTypes
<1>5. \A b \in Attempts : \A choice \in attempt'[b].chosen : choice[1] = attempt'[b].event
    BY <1>1, <1>2, <1>3 DEF CustomerTypes, StoreFollowsPage
<1>. QED
    BY <1>4, <1>5 DEF Submit, CustomerTypes, StoreFollowsPage, storeVars

----------------------------------------------------------------------------
(* The answers.                                                            *)

\* Only pc of an attempt changes, or the attempt is over.
LEMMA AttemptStep ==
    ASSUME PageInv, NEW a \in Attempts, HandleBooking(a) \/ BookingSucceeds(a) \/ BookingFails(a)
    PROVE  CustomerTypes' /\ StoreFollowsPage'
<1> USE DEF PageInv
<1>1. CASE HandleBooking(a)
    <2>1. PICK pc \in {"ok", "failed"} : attempt' = [attempt EXCEPT ![a].pc = pc]
        BY <1>1 DEF HandleBooking, Answer
    <2>2. /\ attempt' \in [Attempts -> AttemptType]
          /\ \A b \in Attempts : /\ attempt'[b].chosen = attempt[b].chosen
                                 /\ attempt'[b].event = attempt[b].event
        BY <2>1 DEF CustomerTypes, AttemptType
    <2>. QED
        BY <1>1, <2>2 DEF HandleBooking, CustomerTypes, StoreFollowsPage, storeVars
<1>2. CASE BookingSucceeds(a)
    <2>1. /\ attempt' \in [Attempts -> AttemptType]
          /\ \A b \in Attempts : \/ attempt'[b] = NoAttempt
                                 \/ /\ attempt'[b].chosen = attempt[b].chosen
                                    /\ attempt'[b].event = attempt[b].event
        BY <1>2, NoneTypes DEF BookingSucceeds, CustomerTypes, AttemptType
    <2>. QED
        BY <1>2, <2>1, NoneTypes, EmptySelectable, PagesAssumption
        DEF BookingSucceeds, CustomerTypes, StoreFollowsPage, Pages
<1>3. CASE BookingFails(a)
    <2>1. /\ attempt' \in [Attempts -> AttemptType]
          /\ \A b \in Attempts : attempt'[b] = NoAttempt \/ attempt'[b] = attempt[b]
        BY <1>3, NoneTypes DEF BookingFails, CustomerTypes
    <2>. QED
        BY <1>3, <2>1, NoneTypes, EmptySelectable
        DEF BookingFails, CustomerTypes, StoreFollowsPage, storeVars
<1>. QED
    BY <1>1, <1>2, <1>3

\* No step marks a seat that the event does not have.
LEMMA MapStep ==
    ASSUME PageInv, [Next]_vars
    PROVE  MapTypes'
<1> USE NoneTypes DEF PageInv, MapTypes, mapVars
<1>1. ASSUME NEW a \in Attempts, HandleBooking(a)
      PROVE  MapTypes'
    BY <1>1 DEF HandleBooking
<1>2. ASSUME NEW a \in Attempts, BookingSucceeds(a)
      PROVE  MapTypes'
    <2>1. fetch' \in [Events -> [pc : {"idle", "sent", "read"}, seats : SUBSET AllSeats]]
        BY <1>2 DEF BookingSucceeds, Refetch
    <2>2. \A e \in Events : fetch'[e].seats \subseteq SeatsOf[e]
        BY <1>2 DEF BookingSucceeds, Refetch
    <2>. QED
        BY <1>2, <2>1, <2>2 DEF BookingSucceeds
<1>3. ASSUME NEW e \in Events, NEW s \in SeatsOf[e], OthersChange(e, s)
      PROVE  MapTypes'
    BY <1>3 DEF OthersChange
<1>4. ASSUME NEW e \in Events, FetchMap(e) \/ MapFails(e)
      PROVE  MapTypes'
    BY <1>4 DEF FetchMap, MapFails
<1>5. ASSUME NEW e \in Events, ReadMap(e)
      PROVE  MapTypes'
    BY <1>5 DEF ReadMap
<1>6. ASSUME NEW e \in Events, MapArrives(e)
      PROVE  MapTypes'
    BY <1>6 DEF MapArrives
<1>7. ASSUME UNCHANGED <<taken, mapVars>>
      PROVE  MapTypes'
    BY <1>7
<1>8. ASSUME \A a \in Attempts : ~HandleBooking(a) /\ ~BookingSucceeds(a),
             \A e \in Events : /\ \A s \in SeatsOf[e] : ~OthersChange(e, s)
                               /\ ~FetchMap(e) /\ ~MapFails(e) /\ ~ReadMap(e) /\ ~MapArrives(e)
      PROVE  UNCHANGED <<taken, mapVars>>
    BY <1>8 DEF Next, vars, Visit, ToggleSeat, OpenCheckout, CloseCheckout, Submit, BookingFails
<1>. QED
    BY <1>1, <1>2, <1>3, <1>4, <1>5, <1>6, <1>7, <1>8

LEMMA PageInvStep == PageInv /\ [Next]_vars => PageInv'
<1> SUFFICES ASSUME PageInv, [Next]_vars
             PROVE  CustomerTypes' /\ StoreFollowsPage'
    BY MapStep DEF PageInv
<1>1. ASSUME NEW p \in Pages, Visit(p)
      PROVE  CustomerTypes' /\ StoreFollowsPage'
    BY <1>1, VisitStep
<1>2. ASSUME NEW s \in AllSeats, ToggleSeat(s)
      PROVE  CustomerTypes' /\ StoreFollowsPage'
    BY <1>2, ToggleStep
<1>3. CASE OpenCheckout \/ CloseCheckout
    BY <1>3 DEF OpenCheckout, CloseCheckout, PageInv, CustomerTypes, StoreFollowsPage, storeVars
<1>4. ASSUME NEW a \in Attempts,
             Submit(a) \/ HandleBooking(a) \/ BookingSucceeds(a) \/ BookingFails(a)
      PROVE  CustomerTypes' /\ StoreFollowsPage'
    BY <1>4, SubmitStep, AttemptStep
<1>5. ASSUME UNCHANGED <<page, storeVars, dialog, attempt>>
      PROVE  CustomerTypes' /\ StoreFollowsPage'
    BY <1>5 DEF PageInv, CustomerTypes, StoreFollowsPage, storeVars
<1>6. ASSUME NEW e \in Events,
             \/ \E s \in SeatsOf[e] : OthersChange(e, s)
             \/ FetchMap(e) \/ ReadMap(e) \/ MapArrives(e) \/ MapFails(e)
      PROVE  UNCHANGED <<page, storeVars, dialog, attempt>>
    BY <1>6 DEF OthersChange, FetchMap, ReadMap, MapArrives, MapFails
<1>7. CASE UNCHANGED vars
    BY <1>5, <1>7 DEF vars
<1>. QED
    BY <1>1, <1>2, <1>3, <1>4, <1>5, <1>6, <1>7 DEF Next

LEMMA PageInvariant == Spec => []PageInv
BY PageInvInit, PageInvStep, PTL DEF Spec

\* Every value keeps its type, and no request asks for more seats than the limit
\* (EventDetailPage.tsx:25,130), whatever the customer clicks and whatever answers.
THEOREM EventPageTypesHold == Spec => []EventPageTypeOK
<1>1. PageInv => EventPageTypeOK
    BY DEF PageInv, CustomerTypes, MapTypes, EventPageTypeOK, AttemptType, Selectable
<1>. QED
    BY <1>1, PageInvariant, PTL

\* No seat chosen on one event's map is shown as selected, or asked for, on
\* another's, for any events that share codes (seatSelectionStore.ts:18-19).
THEOREM SelectionsStayWithTheirEvent == Spec => []SelectionOfThisEvent
<1>1. PageInv => SelectionOfThisEvent
    BY DEF PageInv, StoreFollowsPage, SelectionOfThisEvent
<1>. QED
    BY <1>1, PageInvariant, PTL
=============================================================================
