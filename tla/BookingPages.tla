---------------------------- MODULE BookingPages ----------------------------
(***************************************************************************)
(* The dashboard's pages over BookingRecords, in one tab: MyBookingsPage,  *)
(* BookingConfirmationPage and AdminBookingsPage.  They share one query    *)
(* cache; a query goes on when its page is left, and so does a mutation.   *)
(***************************************************************************)
EXTENDS BookingRecords

CONSTANTS
    Area,       \* the kinds of pages that the user goes to
    Filters,    \* the choices of the status filter, "ALL" among them
    Cancels,    \* cancel requests of the tab in progress
    MaxCached,  \* bound on the queries cached besides the one of a page that opens
    MaxChoices, \* bound on the filters and page numbers chosen
    MaxFaults   \* bound on failed fetches and lost answers together

ASSUME AreaAssumption == Area \subseteq {"mine", "booking", "admin"}
ASSUME FiltersAssumption == "ALL" \in Filters /\ Filters \subseteq Statuses \cup {"ALL"}
ASSUME BoundsAssumption == {MaxCached, MaxChoices, MaxFaults} \subseteq Nat

VARIABLES
    page,        \* the key of the query of the page that is open, or Elsewhere
    data,        \* the cached answer of each query
    fresh,       \* the queries whose answer is neither invalidated nor older than staleTime
    error,       \* the queries whose last fetch failed
    fetch,       \* the request of each query: what is still to be read for it, and what was
    cancel,      \* each POST .../cancel, and the query whose refetch it awaits then
    known,       \* history: the bookings of each query that the tab cancelled since it was answered
    choicesLeft, \* filters and page numbers that may still be chosen
    faultsLeft   \* failures that may still happen

cacheVars == <<data, fresh, error>>
boundVars == <<choicesLeft, faultsLeft>>
vars == <<recordVars, page, cacheVars, fetch, cancel, known, boundVars>>

Elsewhere == <<"elsewhere">>
Mine == <<"mine">>
Keys == {k \in {Mine} \cup {<<"booking", b>> : b \in Bookings}
                  \cup {<<"admin", f, p>> : f \in Filters, p \in 1 .. PagesOf(MaxBookings)} :
           k[1] \in Area}
IsList(k) == k[1] \in {"mine", "admin"}

NoData == [loaded |-> FALSE, rows |-> {}, total |-> 0]
NoFetch == [sent |-> FALSE, unread |-> {}, rows |-> {}, total |-> 0]
NoCancel ==
    [pc |-> "idle", kind |-> "none", booking |-> 0, here |-> FALSE, awaits |-> Elsewhere]

\* findAll reads rows and count in parallel.
Sent(k) ==
    [NoFetch EXCEPT !.sent = TRUE,
                    !.unread = IF k[1] = "admin" THEN {"rows", "total"} ELSE {"rows"}]

\* The bookings that a list offers to cancel.
Offers(k) == {b \in Bookings : <<b, FALSE>> \in data[k].rows}

Init ==
    /\ RecordsInit
    /\ page = Elsewhere
    /\ data = [k \in Keys |-> NoData]
    /\ fresh = {} /\ error = {}
    /\ fetch = [k \in Keys |-> NoFetch]
    /\ cancel = [c \in Cancels |-> NoCancel]
    /\ known = [k \in Keys |-> {}]
    /\ choicesLeft = MaxChoices /\ faultsLeft = MaxFaults

----------------------------------------------------------------------------
(* The query cache.                                                        *)

\* Starts a request for each of the queries; one that has no answer yet is
\* pending again, whatever its last fetch came to.
Fetch(ks) ==
    /\ fetch' = [k \in Keys |-> IF k \in ks THEN Sent(k) ELSE fetch[k]]
    /\ error' = error \ {k \in ks : ~data[k].loaded}

\* As Mount, if an answer never grew stale.
MountOnce(k) ==
    Fetch({j \in {k} \cap Keys : ~fetch[j].sent /\ ~data[j].loaded})

\* A page that opens fetches what is missing or stale, if nothing is under way.
Mount(k) ==
    Fetch({j \in {k} \cap Keys : ~fetch[j].sent /\ j \notin fresh})

\* As Invalidate, leaving the other pages and filters of the list as they are.
InvalidateShown(kind) ==
    LET hit == {k \in {page} \cap Keys : k[1] = kind}
    IN  /\ fresh' = fresh \ hit
        /\ Fetch({k \in hit : data[k].loaded \/ ~fetch[k].sent})

\* As Invalidate, without refetching the page's own query.
InvalidateOnly(kind) ==
    /\ fresh' = {k \in fresh : k[1] # kind}
    /\ Fetch({})

\* invalidateQueries: every query whose key begins so counts as stale.  The
\* one of the page is fetched again: a request in flight is dropped for it,
\* unless it is the query's first.
Invalidate(kind) ==
    /\ fresh' = {k \in fresh : k[1] # kind}
    /\ Fetch({k \in {page} \cap Keys : k[1] = kind /\ (data[k].loaded \/ ~fetch[k].sent)})

\* A fetch of k is answered, fails or is dropped: no mutation awaits it any more.
Settled(k) == [c \in Cancels |-> IF cancel[c].awaits = k THEN NoCancel ELSE cancel[c]]

ReadRows(k) ==
    /\ "rows" \in fetch[k].unread
    /\ fetch' = [fetch EXCEPT ![k].unread = @ \ {"rows"},
                              ![k].rows = {Row(b) : b \in Selected(k)}]
    /\ UNCHANGED <<recordVars, page, cacheVars, cancel, known, boundVars>>

ReadTotal(k) ==
    /\ "total" \in fetch[k].unread
    /\ fetch' = [fetch EXCEPT ![k].unread = @ \ {"total"},
                              ![k].total = Cardinality(Matching(k[2]))]
    /\ UNCHANGED <<recordVars, page, cacheVars, cancel, known, boundVars>>

\* The answer counts as fresh, also if the query was invalidated since it was sent.
Arrives(k) ==
    /\ fetch[k].sent /\ fetch[k].unread = {}
    /\ data' = [data EXCEPT ![k] = [loaded |-> TRUE, rows |-> fetch[k].rows, total |-> fetch[k].total]]
    /\ fresh' = fresh \cup {k}
    /\ error' = error \ {k}
    /\ fetch' = [fetch EXCEPT ![k] = NoFetch]
    /\ cancel' = Settled(k)
    /\ known' = [known EXCEPT ![k] = {}]
    /\ UNCHANGED <<recordVars, page, boundVars>>

\* staleTime is over.
Ages(k) ==
    /\ k \in fresh /\ fresh' = fresh \ {k}
    /\ UNCHANGED <<recordVars, page, data, error, fetch, cancel, known, boundVars>>

\* gcTime is over for a query whose page was left.
Collect(k) ==
    /\ k # page /\ ~fetch[k].sent
    /\ data[k].loaded \/ k \in error
    /\ data' = [data EXCEPT ![k] = NoData]
    /\ fresh' = fresh \ {k} /\ error' = error \ {k}
    /\ known' = [known EXCEPT ![k] = {}]
    /\ UNCHANGED <<recordVars, page, fetch, cancel, boundVars>>

----------------------------------------------------------------------------
(* The user.                                                               *)

\* The component stays when only filter or page number change.  One that goes
\* forgets its pending mutation, and nobody cares what refetch that awaits.
Leaves(m, k) ==
    IF k[1] = page[1] THEN m
    ELSE IF m.pc = "refetching" THEN NoCancel ELSE [m EXCEPT !.here = FALSE]

\* Page k opens.
Open(k) ==
    /\ k \in Keys \cup {Elsewhere} /\ page # k
    /\ Cardinality({j \in Keys \ {k} : data[j].loaded \/ fetch[j].sent}) <= MaxCached
    /\ page' = k
    /\ cancel' = [c \in Cancels |-> Leaves(cancel[c], k)]
    /\ Mount(k)
    /\ UNCHANGED <<data, fresh, known, faultsLeft>>

Visit(k) ==
    /\ k \in {Elsewhere, Mine} \/ (k = <<"admin", "ALL", 1>> /\ page[1] # "admin")
    /\ Open(k)
    /\ UNCHANGED <<recordVars, choicesLeft>>

Choose(k) ==
    /\ choicesLeft > 0 /\ choicesLeft' = choicesLeft - 1
    /\ Open(k)
    /\ UNCHANGED recordVars

\* Another filter starts at page 1.
ChooseFilter(f) ==
    /\ page[1] = "admin" /\ f # page[2]
    /\ Choose(<<"admin", f, 1>>)

\* The pages are offered when the answer counts more than one.
ChoosePage(p) ==
    /\ page[1] = "admin" /\ data[page].loaded
    /\ PagesOf(data[page].total) > 1 /\ p <= PagesOf(data[page].total)
    /\ Choose(<<"admin", page[2], p>>)

\* A booking sent from the event page succeeds and leads to its confirmation,
\* whatever page is open by then.
Book ==
    /\ CreateForUser
    /\ Open(<<"booking", Newest + 1>>)
    /\ UNCHANGED choicesLeft

PostCancel(c, b) ==
    /\ cancel[c] = NoCancel
    /\ cancel' = [cancel EXCEPT ![c] = [pc |-> "arrived", kind |-> page[1], booking |-> b,
                                       here |-> TRUE, awaits |-> Elsewhere]]
    /\ UNCHANGED <<recordVars, page, cacheVars, fetch, known, boundVars>>

\* As ClickCancel, with a button that stays enabled.
ClickCancelAgain(c, b) ==
    /\ page \in Keys /\ IsList(page)
    /\ b \in Offers(page)
    /\ PostCancel(c, b)

\* The buttons are disabled while a cancel of this page is pending, which it is
\* until the list is fetched again: onSuccess returns the promise of that.
ClickCancel(c, b) ==
    /\ page \in Keys /\ IsList(page)
    /\ b \in Offers(page)
    /\ \A d \in Cancels : ~cancel[d].here
    /\ PostCancel(c, b)

----------------------------------------------------------------------------
(* A cancel: both handlers read the booking, and write it in a second call. *)

CancelPc == {"arrived", "found", "ok", "refused", "failed", "refetching"}

CancelGoto(c, pc) == cancel' = [cancel EXCEPT ![c].pc = pc]

FindBooking(c) ==
    /\ cancel[c].pc = "arrived"
    /\ CancelGoto(c, IF status[cancel[c].booking] = "CANCELLED" THEN "refused" ELSE "found")
    /\ UNCHANGED <<recordVars, page, cacheVars, fetch, known, boundVars>>

WriteCancel(c) ==
    /\ cancel[c].pc = "found"
    /\ SetStatus(cancel[c].booking, "CANCELLED")
    /\ CancelGoto(c, "ok")
    /\ UNCHANGED <<owned, runs, page, cacheVars, fetch, known, boundVars>>

\* The cached queries that will see the cancel before they count as fresh again:
\* not one that is being fetched while another page is open.
WillSee(k) == data[k].loaded /\ (k = page \/ ~fetch[k].sent)

\* onSuccess.  The fetch it starts may drop the one that a later cancel awaits.
CancelSucceeds(c) ==
    /\ cancel[c].pc = "ok"
    /\ Invalidate(cancel[c].kind)
    /\ LET others == IF page[1] = cancel[c].kind /\ data[page].loaded THEN Settled(page) ELSE cancel
       IN  cancel' = [others EXCEPT ![c] = IF cancel[c].here
                                           THEN [cancel[c] EXCEPT !.pc = "refetching", !.awaits = page]
                                           ELSE NoCancel]
    /\ known' = [k \in Keys |->
                   IF k[1] = cancel[c].kind /\ WillSee(k) /\ status[cancel[c].booking] = "CANCELLED"
                   THEN known[k] \cup {cancel[c].booking} ELSE known[k]]
    /\ UNCHANGED <<recordVars, page, data, boundVars>>

\* There is no onError: the list stays as it is.
CancelFails(c) ==
    /\ cancel[c].pc \in {"refused", "failed"}
    /\ cancel' = [cancel EXCEPT ![c] = NoCancel]
    /\ UNCHANGED <<recordVars, page, cacheVars, fetch, known, boundVars>>

----------------------------------------------------------------------------
(* Failures.                                                               *)

Fault == faultsLeft > 0 /\ faultsLeft' = faultsLeft - 1

\* A fetch fails and its one retry too.  (If the retry succeeds, the fetch only
\* read later.)
FetchFails(k) ==
    /\ Fault
    /\ fetch[k].sent
    /\ error' = error \cup {k}
    /\ fetch' = [fetch EXCEPT ![k] = NoFetch]
    /\ cancel' = Settled(k)
    /\ UNCHANGED <<recordVars, page, data, fresh, known, choicesLeft>>

\* A cancel gets no answer.  It may have been carried out; if not, its handler may
\* have died, or writes later and is then one of the cancels of CancelElsewhere.
CancelLost(c) ==
    /\ Fault
    /\ cancel[c].pc \in {"arrived", "found", "ok"}
    /\ CancelGoto(c, "failed")
    /\ UNCHANGED <<recordVars, page, cacheVars, fetch, known, choicesLeft>>

----------------------------------------------------------------------------
\* What others do; a booking that is confirmed after its cancel may be offered.
Others ==
    /\ \/ Create(FALSE)
       \/ \E b \in Bookings : Process(b) \/ CancelElsewhere(b)
    /\ known' = [k \in Keys |-> {b \in known[k] : status'[b] = "CANCELLED"}]
    /\ UNCHANGED <<page, cacheVars, fetch, cancel, boundVars>>

User ==
    \/ \E k \in Keys \cup {Elsewhere} : Visit(k)
    \/ \E f \in Filters : ChooseFilter(f)
    \/ \E p \in 1 .. PagesOf(MaxBookings) : ChoosePage(p)
    \/ Book
    \/ \E c \in Cancels, b \in Bookings : ClickCancel(c, b)

CancelStep(c) == FindBooking(c) \/ WriteCancel(c) \/ CancelSucceeds(c) \/ CancelFails(c)

Next ==
    \/ Others
    \/ User
    \/ \E k \in Keys : ReadRows(k) \/ ReadTotal(k) \/ Arrives(k)
    \/ \E k \in Keys : Ages(k) \/ Collect(k) \/ FetchFails(k)
    \/ \E c \in Cancels : CancelStep(c) \/ CancelLost(c)

Spec == Init /\ [][Next]_vars

\* The server answers each request in time, though a refetch may drop it, and
\* answers grow old.  Nobody has to visit a page, and nothing has to fail.
Fairness ==
    /\ \A k \in Keys : /\ SF_vars(ReadRows(k)) /\ SF_vars(ReadTotal(k)) /\ SF_vars(Arrives(k))
                       /\ WF_vars(Ages(k))
    /\ \A c \in Cancels : WF_vars(CancelStep(c))

FairSpec == Spec /\ Fairness

----------------------------------------------------------------------------
(* Properties.                                                             *)

\* The values of the variables, and what ties them together: an answer that
\* counts as fresh is there and not being fetched, and the open page has an
\* answer, a request under way, or an error to show.  A page waits for at most
\* one cancel, and its buttons are not disabled for good: what a cancel awaits
\* is under way.
BookingPagesTypeOK ==
    /\ RecordsTypeOK
    /\ page \in Keys \cup {Elsewhere}
    /\ data \in [Keys -> [loaded : BOOLEAN, rows : SUBSET (Bookings \X BOOLEAN), total : 0 .. MaxBookings]]
    /\ fetch \in [Keys -> [sent : BOOLEAN, unread : SUBSET {"rows", "total"},
                           rows : SUBSET (Bookings \X BOOLEAN), total : 0 .. MaxBookings]]
    /\ \A k \in fresh : k \in Keys /\ data[k].loaded /\ ~fetch[k].sent
    /\ error \subseteq Keys
    /\ \A c \in Cancels : cancel[c] = NoCancel
                            \/ /\ cancel[c].pc \in CancelPc
                               /\ cancel[c].booking \in Made
                               /\ cancel[c].here => page[1] = cancel[c].kind
                               /\ IF cancel[c].pc = "refetching"
                                  THEN cancel[c].here /\ cancel[c].awaits \in Keys
                                                      /\ fetch[cancel[c].awaits].sent
                                  ELSE cancel[c].awaits = Elsewhere
    /\ \A c, d \in Cancels : cancel[c].here /\ cancel[d].here => c = d
    /\ page \in Keys => data[page].loaded \/ fetch[page].sent \/ page \in error

\* Without a filter, the table of a page beyond the first is never empty, and
\* its number is one that the pagination offers: rows and count are read at
\* different instants, in either order, but bookings only become more.
UnfilteredPagesFilled ==
    \A k \in Keys : k[1] = "admin" /\ k[2] = "ALL" /\ k[3] > 1 /\ data[k].loaded =>
        data[k].rows # {} /\ k[3] <= PagesOf(data[k].total)

\* A booking that this tab cancelled is not offered for cancelling by any list
\* that counts as fresh, on whatever page and under whatever filter, nor by an
\* answer under way, unless it was confirmed in the meantime.  (A list that was
\* first fetched, or fetched for a page since left, when the cancel succeeded
\* is excepted: its fetch is not restarted, and its answer may be older.)
CancelsOutlastCache ==
    \A k \in Keys : \A b \in known[k] :
        /\ k \in fresh => b \notin Offers(k)
        /\ <<b, FALSE>> \notin fetch[k].rows

\* After a cancel that succeeded, the list that is open stops offering the
\* booking, unless its refetch fails, the user leaves, the answer got lost or
\* the booking was confirmed after all.
CancelIsShown ==
    \A c \in Cancels, b \in Bookings, k \in Keys :
        (/\ cancel[c].pc = "ok" /\ cancel[c].booking = b
         /\ page = k /\ k[1] = cancel[c].kind /\ data[k].loaded)
            ~> (\/ b \notin Offers(k) \/ k \in error \/ page # k
                \/ cancel[c].pc = "failed" \/ status[b] # "CANCELLED")

\* A user who keeps coming back to his bookings sees them as they are, once
\* they no longer change.  (One who stays on the page does not: nothing
\* refetches it.)
MyListCatchesUp ==
    /\ []<>(page = Mine) /\ []<>(page # Mine)
    /\ <>[][FALSE]_<<status, owned>>
    => <>[](page = Mine /\ data[Mine].loaded => data[Mine].rows = {Row(b) : b \in owned})

\* The confirmation page finds its booking, also if the booking was stored as a
\* guest's, unless the fetch fails or the user leaves.
ConfirmationOpens ==
    \A b \in Bookings : LET k == <<"booking", b>> IN
        k \in Keys =>
            (page = k ~> (\/ data[k].loaded /\ data[k].rows # {}
                          \/ k \in error \/ page # k))
============================================================================
