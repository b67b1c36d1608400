------------------------- MODULE BookingPages_proofs -------------------------
(***************************************************************************)
(* The bookings pages, for any number of bookings and cancels in progress, *)
(* any page size, filters and kinds of pages: the types of the records and *)
(* of the query cache, UnfilteredPagesFilled and CancelsOutlastCache.      *)
(***************************************************************************)
EXTENDS BookingPages, FiniteSetTheorems, TLAPS

\* A job that may still run is the job of a booking that was made.
RecordsInv == RecordsTypeOK /\ \A b \in Bookings : runs[b] > 0 => b \in Made

CancelType ==
    [pc : {"idle"} \cup CancelPc, kind : {"none", "mine", "booking", "admin"}, booking : Nat,
     here : BOOLEAN, awaits : Keys \cup {Elsewhere}]

CancelOK(c) ==
    \/ cancel[c] = NoCancel
    \/ /\ cancel[c].pc \in CancelPc
       /\ cancel[c].booking \in Made
       /\ cancel[c].here => page[1] = cancel[c].kind
       /\ IF cancel[c].pc = "refetching"
          THEN cancel[c].here /\ cancel[c].awaits \in Keys /\ fetch[cancel[c].awaits].sent
          ELSE cancel[c].awaits = Elsewhere

CancelTypes ==
    /\ cancel \in [Cancels -> CancelType]
    /\ \A c \in Cancels : CancelOK(c)
    /\ \A c, d \in Cancels : cancel[c].here /\ cancel[d].here => c = d

AnswerType == [loaded : BOOLEAN, rows : SUBSET (Bookings \X BOOLEAN), total : 0 .. MaxBookings]
FetchType == [sent : BOOLEAN, unread : SUBSET {"rows", "total"},
              rows : SUBSET (Bookings \X BOOLEAN), total : 0 .. MaxBookings]

\* A query that is not being fetched has read nothing.
CacheTypes ==
    /\ page \in Keys \cup {Elsewhere}
    /\ data \in [Keys -> AnswerType]
    /\ fetch \in [Keys -> FetchType]
    /\ fresh \subseteq Keys /\ error \subseteq Keys
    /\ known \in [Keys -> SUBSET Bookings]
    /\ \A k \in Keys : /\ k \in fresh => data[k].loaded /\ ~fetch[k].sent
                       /\ ~fetch[k].sent => fetch[k].rows = {} /\ fetch[k].unread = {}
    /\ page \in Keys => data[page].loaded \/ fetch[page].sent \/ page \in error

\* The count of a list without a filter is of bookings that were made, so a page
\* that is open, or asked for, has bookings.
Beyond(k) == k[1] = "admin" /\ k[2] = "ALL" /\ k[3] > 1

CountsInv ==
    \A k \in Keys :
        /\ k[1] = "admin" /\ k[2] = "ALL" => data[k].total <= Newest /\ fetch[k].total <= Newest
        /\ Beyond(k) =>
              /\ page = k \/ fetch[k].sent => k[3] <= PagesOf(Newest)
              /\ data[k].loaded => data[k].rows # {} /\ k[3] <= PagesOf(data[k].total)
              /\ fetch[k].sent /\ "rows" \notin fetch[k].unread => fetch[k].rows # {}
              /\ fetch[k].sent /\ "total" \notin fetch[k].unread => k[3] <= PagesOf(fetch[k].total)

\* What the tab knows to be cancelled is cancelled, and no answer says otherwise.
KnownInv ==
    \A k \in Keys : \A b \in known[k] :
        /\ status[b] = "CANCELLED"
        /\ <<b, FALSE>> \notin fetch[k].rows
        /\ k \in fresh => <<b, FALSE>> \notin data[k].rows

\* Whatever an answer offers to cancel was made.
RowsInv == \A k \in Keys : data[k].rows \cup fetch[k].rows \subseteq Made \X BOOLEAN

PagesInv == RecordsInv /\ CancelTypes /\ CacheTypes /\ RowsInv /\ CountsInv /\ KnownInv

----------------------------------------------------------------------------
(* Pages of a list.                                                        *)

LEMMA PagesMonotone ==
    ASSUME NEW m \in Nat, NEW n \in Nat, m <= n
    PROVE  PagesOf(m) \in Nat /\ PagesOf(m) <= PagesOf(n)
BY PageSizeAssumption DEF PagesOf

\* Page p of n rows that are numbered from 1 has a row, if the pagination offers it.
LEMMA PagesFilled ==
    ASSUME NEW n \in Nat, NEW p \in Nat \ {0}, p <= PagesOf(n)
    PROVE  OnPage(1 .. n, p) # {}
<1> DEFINE skipped == (p - 1) * PageSize
           b == n - skipped
           above == {a \in 1 .. n : a > b}
<1>1. skipped \in Nat /\ skipped <= n - 1 /\ skipped \div PageSize = p - 1
    BY PageSizeAssumption DEF PagesOf
<1> HIDE DEF skipped
<1>2. b \in 1 .. n /\ above = (b + 1) .. n /\ n - b = skipped
    BY <1>1
<1>3. Cardinality(above) = skipped
    <2> HIDE DEF b
    <2>1. ASSUME NEW l \in Int, l = b + 1
          PROVE  Cardinality(l .. n) = n - b
        <3>1. Cardinality(l .. n) = IF l > n THEN 0 ELSE n - l + 1
            BY FS_Interval
        <3>. QED
            BY <1>2, <2>1, <3>1
    <2>2. Cardinality((b + 1) .. n) = n - b
        BY <1>2, <2>1
    <2>. QED
        BY <1>2, <2>2
<1>. QED
    BY <1>1, <1>2, <1>3 DEF OnPage

----------------------------------------------------------------------------
(* The records.                                                            *)

LEMMA MadeFinite ==
    /\ IsFiniteSet(Made) /\ Newest \in 0 .. MaxBookings
    /\ \A f : Cardinality(Matching(f)) \in 0 .. Newest
<1>1. IsFiniteSet(Bookings) /\ Cardinality(Bookings) = MaxBookings
    BY FS_Interval, RowBoundsAssumption DEF Bookings
<1>2. Made \subseteq Bookings
    BY DEF Made
<1>3. IsFiniteSet(Made) /\ Newest <= MaxBookings
    BY <1>1, <1>2, FS_Subset DEF Newest
<1>4. Newest \in Nat
    BY <1>3, FS_CardinalityType DEF Newest
<1>5. ASSUME NEW f
      PROVE  Cardinality(Matching(f)) \in 0 .. Newest
    <2>1. Matching(f) \subseteq Made
        BY DEF Matching
    <2>2. IsFiniteSet(Matching(f)) /\ Cardinality(Matching(f)) <= Newest
        BY <1>3, <2>1, FS_Subset DEF Newest
    <2>3. Cardinality(Matching(f)) \in Nat
        BY <2>2, FS_CardinalityType
    <2>. QED
        BY <1>4, <2>2, <2>3
<1>. QED
    BY <1>3, <1>4, <1>5, RowBoundsAssumption

\* What a step does to the records.
Rewritten(b, s) ==
    /\ b \in Made /\ s \in Statuses /\ SetStatus(b, s)
    /\ UNCHANGED owned
    /\ runs' \in [Bookings -> 0 .. MaxRuns] /\ \A x \in Bookings : runs'[x] <= runs[x]

LEMMA RecordMoves ==
    ASSUME RecordsInv, CancelTypes, [Next]_vars
    PROVE  \/ UNCHANGED recordVars
           \/ \E ofUser \in BOOLEAN : Create(ofUser)
           \/ \E b \in Bookings, s \in Statuses :
                 Rewritten(b, s) /\ (s = "CANCELLED" \/ Others)
<1>1. ASSUME NEW b \in Bookings, Process(b), Others
      PROVE  \E s \in Statuses : Rewritten(b, s)
    <2>1. PICK s \in {"CONFIRMED", "FAILED"} : SetStatus(b, s)
        BY <1>1 DEF Process
    <2>2. PICK left \in {0, runs[b] - 1} : runs' = [runs EXCEPT ![b] = left]
        BY <1>1 DEF Process
    <2>3. b \in Made /\ runs[b] \in 1 .. MaxRuns /\ UNCHANGED owned
        BY <1>1, RowBoundsAssumption DEF Process, RecordsInv, RecordsTypeOK
    <2>4. left \in 0 .. MaxRuns /\ left <= runs[b]
        BY <2>2, <2>3, RowBoundsAssumption
    <2>5. runs' \in [Bookings -> 0 .. MaxRuns] /\ \A x \in Bookings : runs'[x] <= runs[x]
        BY <2>2, <2>4, RowBoundsAssumption DEF RecordsInv, RecordsTypeOK
    <2>. QED
        BY <2>1, <2>3, <2>5 DEF Rewritten, Statuses
<1>2. \A x \in Bookings : runs[x] <= runs[x]
    BY RowBoundsAssumption DEF RecordsInv, RecordsTypeOK
<1>3. ASSUME NEW b \in Bookings, CancelElsewhere(b)
      PROVE  Rewritten(b, "CANCELLED") /\ "CANCELLED" \in Statuses
    BY <1>2, <1>3 DEF CancelElsewhere, Rewritten, Statuses, RecordsInv, RecordsTypeOK
<1>4. ASSUME NEW c \in Cancels, WriteCancel(c)
      PROVE  \E b \in Bookings : Rewritten(b, "CANCELLED") /\ "CANCELLED" \in Statuses
    <2>1. cancel[c].booking \in Made
        BY <1>4 DEF WriteCancel, CancelTypes, CancelOK, NoCancel
    <2>2. cancel[c].booking \in Bookings
        BY <2>1 DEF Made
    <2>3. Rewritten(cancel[c].booking, "CANCELLED") /\ "CANCELLED" \in Statuses
        BY <1>2, <1>4, <2>1 DEF WriteCancel, Rewritten, Statuses, RecordsInv, RecordsTypeOK
    <2>. QED
        BY <2>2, <2>3
<1>5. CASE Others
    BY <1>1, <1>3, <1>5 DEF Others
<1>6. CASE Book
    BY <1>6 DEF Book, CreateForUser
<1>7. ASSUME ~Others, ~Book, \A c \in Cancels : ~WriteCancel(c)
      PROVE  UNCHANGED recordVars
    BY <1>7 DEF Next, User, Visit, ChooseFilter, ChoosePage, Choose, ClickCancel, PostCancel, ReadRows, ReadTotal,
                Arrives, Ages, Collect, FetchFails, CancelStep, FindBooking, CancelSucceeds,
                CancelFails, CancelLost, vars
<1>. QED
    BY <1>4, <1>5, <1>6, <1>7

\* Bookings become more, and only others take a cancel back.
LEMMA RecordsStep ==
    ASSUME RecordsInv, CancelTypes, [Next]_vars
    PROVE  /\ RecordsInv'
           /\ Made \subseteq Made' /\ Newest <= Newest'
           /\ \A b \in Bookings : status[b] = "CANCELLED" => status'[b] = "CANCELLED" \/ Others
<1> USE DEF RecordsInv, RecordsTypeOK
<1>0. Newest \in Nat /\ "NONE" \notin Statuses
    BY MadeFinite DEF Statuses
<1>1. CASE UNCHANGED recordVars
    <2>1. Made' = Made
        BY <1>1 DEF recordVars, Made
    <2>2. Newest' = Newest
        BY <2>1 DEF Newest
    <2>. QED
        BY <1>0, <1>1, <2>1, <2>2 DEF recordVars
<1>2. ASSUME NEW ofUser \in BOOLEAN, Create(ofUser)
      PROVE  /\ RecordsInv'
             /\ Made \subseteq Made' /\ Newest <= Newest'
             /\ \A b \in Bookings : status[b] = "CANCELLED" => status'[b] = "CANCELLED"
    <2> DEFINE n == Newest + 1
    <2>1. n \in Bookings /\ n \notin Made
        BY <1>0, <1>2, RowBoundsAssumption DEF Create, Bookings
    <2> HIDE DEF n
    <2>2. status' = [status EXCEPT ![n] = "PENDING"] /\ runs' = [runs EXCEPT ![n] = MaxRuns]
        BY <1>2 DEF Create, SetStatus, n
    <2>3. Made' = Made \cup {n}
        BY <2>1, <2>2 DEF Made
    <2>4. Made' = 1 .. n
        BY <1>0, <2>3 DEF n
    <2>5. Newest' = n
        BY <1>0, <2>4, FS_Interval DEF Newest, n
    <2>6. owned' \subseteq Made'
        BY <1>2, <2>3 DEF Create, n
    <2>7. /\ status' \in [Bookings -> Statuses \cup {"NONE"}]
          /\ runs' \in [Bookings -> 0 .. MaxRuns]
          /\ \A b \in Bookings : runs'[b] > 0 => b \in Made'
        BY <2>1, <2>2, <2>3, RowBoundsAssumption DEF Statuses
    <2>8. \A b \in Bookings : status[b] = "CANCELLED" => status'[b] = "CANCELLED"
        BY <2>1, <2>2 DEF Made
    <2>9. Newest <= Newest'
        BY <1>0, <2>5 DEF n
    <2>. QED
        BY <2>3, <2>4, <2>5, <2>6, <2>7, <2>8, <2>9
<1>3. ASSUME NEW b \in Bookings, NEW s \in Statuses, Rewritten(b, s), s = "CANCELLED" \/ Others
      PROVE  /\ RecordsInv'
             /\ Made \subseteq Made' /\ Newest <= Newest'
             /\ \A x \in Bookings : status[x] = "CANCELLED" => status'[x] = "CANCELLED" \/ Others
    <2>1. status' = [status EXCEPT ![b] = s] /\ b \in Made
        BY <1>3 DEF Rewritten, SetStatus
    <2>2. Made' = Made
        BY <1>0, <2>1 DEF Made
    <2>3. Newest' = Newest
        BY <2>2 DEF Newest
    <2>4. \A x \in Bookings : runs'[x] > 0 => x \in Made'
        BY <1>3, <2>2, RowBoundsAssumption DEF Rewritten
    <2>. QED
        BY <1>0, <1>3, <2>1, <2>2, <2>3, <2>4 DEF Rewritten
<1>. QED
    BY <1>1, <1>2, <1>3, RecordMoves

----------------------------------------------------------------------------
(* The query cache: what a step does to a query.                           *)

LEMMA KeyShapes ==
    /\ Elsewhere \notin Keys /\ Elsewhere[1] = "elsewhere"
    /\ \A k \in Keys : /\ k[1] \in {"mine", "booking", "admin"}
                       /\ k[1] = "admin" => k[3] \in Nat \ {0}
<1>1. \A k \in Keys : /\ k[1] \in {"mine", "booking", "admin"}
                      /\ k[1] = "admin" => k[3] \in Nat \ {0}
    BY DEF Keys, Mine
<1>2. Elsewhere[1] = "elsewhere"
    BY DEF Elsewhere
<1>. QED
    BY <1>1, <1>2

LEMMA SentType ==
    /\ NoFetch \in FetchType /\ NoData \in AnswerType
    /\ ~NoFetch.sent /\ NoFetch.rows = {} /\ NoFetch.unread = {} /\ NoFetch.total = 0
    /\ ~NoData.loaded /\ NoData.total = 0
    /\ \A k \in Keys : /\ Sent(k) \in FetchType /\ Sent(k).sent
                       /\ Sent(k).rows = {} /\ Sent(k).total = 0
                       /\ "rows" \in Sent(k).unread
                       /\ k[1] = "admin" => "total" \in Sent(k).unread
<1>1. /\ NoFetch \in FetchType
      /\ ~NoFetch.sent /\ NoFetch.rows = {} /\ NoFetch.unread = {} /\ NoFetch.total = 0
    BY RowBoundsAssumption DEF NoFetch, FetchType
<1>2. NoData \in AnswerType /\ ~NoData.loaded /\ NoData.total = 0
    BY RowBoundsAssumption DEF NoData, AnswerType
<1>3. ASSUME NEW k \in Keys
      PROVE  /\ Sent(k) \in FetchType /\ Sent(k).sent
             /\ Sent(k).rows = {} /\ Sent(k).total = 0
             /\ "rows" \in Sent(k).unread
             /\ k[1] = "admin" => "total" \in Sent(k).unread
    BY <1>1 DEF Sent, FetchType
<1>. QED
    BY <1>1, <1>2, <1>3

Stays(q) ==
    /\ data'[q] = data[q] /\ fetch'[q] = fetch[q]
    /\ q \in fresh' => q \in fresh
    /\ known'[q] \subseteq known[q]

\* Nothing is under way for it, and its answer does not count as fresh any more.
Invalidated(q) ==
    /\ data'[q] = data[q] /\ fetch'[q] = fetch[q]
    /\ ~fetch[q].sent /\ q \notin fresh'

\* Only the open page's query is asked for.
Starts(q) ==
    /\ data'[q] = data[q] /\ fetch'[q] = Sent(q)
    /\ q \notin fresh' /\ q = page'

LEMMA OpenMoves ==
    ASSUME CacheTypes, NEW k, Open(k)
    PROVE  /\ \A q \in Keys : Stays(q) \/ Starts(q)
           /\ page' = k /\ k \in Keys \cup {Elsewhere}
           /\ data' = data /\ fresh' = fresh /\ known' = known
           /\ fetch' = [q \in Keys |-> fetch'[q]] /\ error' \subseteq error
           /\ k \in Keys => data'[k].loaded \/ fetch'[k].sent
<1> DEFINE ks == {j \in {k} \cap Keys : ~fetch[j].sent /\ j \notin fresh}
<1>1. /\ fetch' = [q \in Keys |-> IF q \in ks THEN Sent(q) ELSE fetch[q]]
      /\ error' = error \ {q \in ks : ~data[q].loaded}
      /\ page' = k /\ k \in Keys \cup {Elsewhere}
      /\ data' = data /\ fresh' = fresh /\ known' = known
    BY DEF Open, Mount, Fetch
<1>2. k \in Keys => data'[k].loaded \/ fetch'[k].sent
    BY <1>1, SentType DEF CacheTypes
<1>3. \A q \in Keys : Stays(q) \/ Starts(q)
    BY <1>1 DEF Stays, Starts
<1>. QED
    BY <1>1, <1>2, <1>3

LEMMA SuccessMoves ==
    ASSUME CacheTypes, NEW c \in Cancels, CancelSucceeds(c)
    PROVE  /\ \A q \in Keys : Stays(q) \/ Starts(q) \/ Invalidated(q)
           /\ page' = page /\ data' = data /\ fresh' \subseteq fresh
           /\ fetch' = [q \in Keys |-> fetch'[q]] /\ error' \subseteq error
           /\ page \in Keys => data'[page].loaded \/ fetch'[page].sent \/ page \in error'
           /\ known' = [q \in Keys |-> known'[q]]
           /\ \A q \in Keys : \A b \in known'[q] :
                 b \in known[q] \/ (b = cancel[c].booking /\ status[b] = "CANCELLED")
<1> DEFINE kind == cancel[c].kind
           hit == {k \in {page} \cap Keys : k[1] = kind /\ (data[k].loaded \/ ~fetch[k].sent)}
<1>1. /\ fresh' = {k \in fresh : k[1] # kind}
      /\ fetch' = [q \in Keys |-> IF q \in hit THEN Sent(q) ELSE fetch[q]]
      /\ error' = error \ {q \in hit : ~data[q].loaded}
      /\ page' = page /\ data' = data
      /\ known' = [k \in Keys |->
                      IF k[1] = kind /\ WillSee(k) /\ status[cancel[c].booking] = "CANCELLED"
                      THEN known[k] \cup {cancel[c].booking} ELSE known[k]]
    BY DEF CancelSucceeds, Invalidate, Fetch
<1> HIDE DEF kind
<1>2. page \in Keys => data'[page].loaded \/ fetch'[page].sent \/ page \in error'
    BY <1>1, SentType DEF CacheTypes
<1>3. ASSUME NEW q \in Keys
      PROVE  Stays(q) \/ Starts(q) \/ Invalidated(q)
    <2>1. CASE q \in hit
        BY <1>1, <2>1 DEF Starts
    <2>2. CASE q \notin hit /\ q[1] = kind /\ WillSee(q)
        BY <1>1, <2>2 DEF Invalidated, WillSee
    <2>3. CASE q \notin hit /\ ~(q[1] = kind /\ WillSee(q))
        BY <1>1, <2>3 DEF Stays
    <2>. QED
        BY <2>1, <2>2, <2>3
<1>. QED
    BY <1>1, <1>2, <1>3

LEMMA CacheMoves ==
    ASSUME CacheTypes, [Next]_vars
    PROVE  \A q \in Keys :
               \/ Stays(q) \/ Starts(q) \/ Invalidated(q)
               \/ ReadRows(q) \/ ReadTotal(q) \/ Arrives(q) \/ FetchFails(q) \/ Collect(q)
<1> SUFFICES ASSUME NEW q \in Keys
             PROVE  \/ Stays(q) \/ Starts(q) \/ Invalidated(q)
                    \/ ReadRows(q) \/ ReadTotal(q) \/ Arrives(q) \/ FetchFails(q) \/ Collect(q)
    OBVIOUS
<1>1. ASSUME NEW k, Open(k)
      PROVE  Stays(q) \/ Starts(q)
    BY <1>1, OpenMoves
<1>2. ASSUME NEW c \in Cancels, CancelSucceeds(c)
      PROVE  Stays(q) \/ Starts(q) \/ Invalidated(q)
    BY <1>2, SuccessMoves
<1>3. ASSUME NEW k \in Keys, k # q,
             ReadRows(k) \/ ReadTotal(k) \/ Arrives(k) \/ FetchFails(k) \/ Collect(k)
      PROVE  Stays(q)
    BY <1>3 DEF Stays, CacheTypes, ReadRows, ReadTotal, Arrives, FetchFails, Collect, cacheVars
<1>4. ASSUME NEW k \in Keys, Ages(k)
      PROVE  Stays(q)
    BY <1>4 DEF Stays, Ages
<1>5. CASE Others
    BY <1>5 DEF Stays, Others, cacheVars
<1>6. ASSUME NEW c \in Cancels,
             FindBooking(c) \/ WriteCancel(c) \/ CancelFails(c) \/ CancelLost(c)
             \/ \E b \in Bookings : ClickCancel(c, b)
      PROVE  Stays(q)
    BY <1>6 DEF Stays, FindBooking, WriteCancel, CancelFails, CancelLost, ClickCancel, PostCancel, cacheVars
<1>7. CASE UNCHANGED vars
    BY <1>7 DEF Stays, vars, cacheVars
<1>8. User => \/ \E k : Open(k)
              \/ \E c \in Cancels, b \in Bookings : ClickCancel(c, b)
    BY DEF User, Visit, ChooseFilter, ChoosePage, Choose, Book
<1>. QED
    BY <1>1, <1>2, <1>3, <1>4, <1>5, <1>6, <1>7, <1>8 DEF Next, CancelStep

LEMMA ReadTypes ==
    ASSUME RecordsInv, CacheTypes, NEW q \in Keys
    PROVE  /\ Selected(q) \subseteq Made
           /\ {Row(b) : b \in Selected(q)} \in SUBSET (Bookings \X BOOLEAN)
           /\ Cardinality(Matching(q[2])) \in 0 .. MaxBookings
<1>1. Selected(q) \subseteq Made
    BY KeyShapes DEF Selected, OnPage, Matching, RecordsInv, RecordsTypeOK
<1>2. ASSUME NEW b \in Made
      PROVE  Row(b) \in Bookings \X BOOLEAN
    BY DEF Row, Made
<1>. QED
    BY <1>1, <1>2, MadeFinite, RowBoundsAssumption

\* What one query holds keeps its type.
LEMMA QueryTypesStep ==
    ASSUME RecordsInv, CacheTypes, [Next]_vars, NEW q \in Keys
    PROVE  /\ data'[q] \in AnswerType /\ fetch'[q] \in FetchType
           /\ q \in fresh' => data'[q].loaded /\ ~fetch'[q].sent
           /\ ~fetch'[q].sent => fetch'[q].rows = {} /\ fetch'[q].unread = {}
<1>0. /\ data[q] \in AnswerType /\ fetch[q] \in FetchType
      /\ q \in fresh => data[q].loaded /\ ~fetch[q].sent
      /\ ~fetch[q].sent => fetch[q].rows = {} /\ fetch[q].unread = {}
    BY DEF CacheTypes
<1>1. CASE Stays(q) \/ Invalidated(q)
    BY <1>0, <1>1 DEF Stays, Invalidated
<1>2. CASE Starts(q)
    BY <1>0, <1>2, SentType DEF Starts
<1>3. CASE ReadRows(q)
    <2>1. /\ fetch' = [fetch EXCEPT ![q].unread = @ \ {"rows"},
                                   ![q].rows = {Row(b) : b \in Selected(q)}]
          /\ "rows" \in fetch[q].unread /\ data' = data /\ fresh' = fresh
        BY <1>3 DEF ReadRows, cacheVars
    <2>2. /\ fetch'[q] \in FetchType /\ fetch'[q].sent = fetch[q].sent
        BY <1>0, <2>1, ReadTypes DEF CacheTypes, FetchType
    <2>. QED
        BY <1>0, <2>1, <2>2
<1>4. CASE ReadTotal(q)
    <2>1. /\ fetch' = [fetch EXCEPT ![q].unread = @ \ {"total"},
                                   ![q].total = Cardinality(Matching(q[2]))]
          /\ "total" \in fetch[q].unread /\ data' = data /\ fresh' = fresh
        BY <1>4 DEF ReadTotal, cacheVars
    <2>2. /\ fetch'[q] \in FetchType /\ fetch'[q].sent = fetch[q].sent
        BY <1>0, <2>1, ReadTypes DEF CacheTypes, FetchType
    <2>. QED
        BY <1>0, <2>1, <2>2
<1>5. CASE Arrives(q)
    <2>1. /\ data'[q] = [loaded |-> TRUE, rows |-> fetch[q].rows, total |-> fetch[q].total]
          /\ fetch'[q] = NoFetch
        BY <1>5 DEF Arrives, CacheTypes
    <2>2. data'[q] \in AnswerType /\ data'[q].loaded
        BY <1>0, <2>1 DEF AnswerType, FetchType
    <2>. QED
        BY <2>1, <2>2, SentType
<1>6. CASE FetchFails(q)
    <2>1. fetch'[q] = NoFetch /\ data' = data /\ q \notin fresh'
        BY <1>0, <1>6 DEF FetchFails, CacheTypes
    <2>. QED
        BY <1>0, <2>1, SentType
<1>7. CASE Collect(q)
    <2>1. fetch' = fetch /\ data'[q] = NoData /\ q \notin fresh'
        BY <1>7 DEF Collect, CacheTypes
    <2>. QED
        BY <1>0, <2>1, SentType
<1>. QED
    BY <1>1, <1>2, <1>3, <1>4, <1>5, <1>6, <1>7, CacheMoves

LEMMA CacheTypesStep ==
    ASSUME RecordsInv, CancelTypes, CacheTypes, [Next]_vars
    PROVE  CacheTypes'
<1> DEFINE Frame ==
        /\ data' = [k \in Keys |-> data'[k]] /\ fetch' = [k \in Keys |-> fetch'[k]]
        /\ fresh' \subseteq Keys /\ error' \subseteq Keys
        /\ known' \in [Keys -> SUBSET Bookings]
        /\ page' \in Keys \cup {Elsewhere}
        /\ page' \in Keys => data'[page'].loaded \/ fetch'[page'].sent \/ page' \in error'
<1>1. ASSUME NEW k, Open(k)
      PROVE  Frame
    BY <1>1, OpenMoves DEF CacheTypes
<1>2. ASSUME NEW c \in Cancels, CancelSucceeds(c)
      PROVE  Frame
    <2>1. cancel[c].booking \in Bookings
        BY <1>2 DEF CancelSucceeds, CancelTypes, CancelOK, NoCancel, Made
    <2>2. known' \in [Keys -> SUBSET Bookings]
        BY <1>2, <2>1, SuccessMoves DEF CacheTypes
    <2>. QED
        BY <1>2, <2>2, SuccessMoves DEF CacheTypes
<1>3. ASSUME NEW k \in Keys, ReadRows(k) \/ ReadTotal(k)
      PROVE  Frame
    BY <1>3 DEF CacheTypes, FetchType, ReadRows, ReadTotal, cacheVars
<1>4. ASSUME NEW k \in Keys, Arrives(k)
      PROVE  Frame
    <2>1. page' = page /\ data' = [data EXCEPT ![k] = data'[k]] /\ data'[k].loaded
        BY <1>4 DEF Arrives, CacheTypes
    <2>2. fetch' = [fetch EXCEPT ![k] = NoFetch] /\ error' = error \ {k}
          /\ fresh' = fresh \cup {k} /\ known' = [known EXCEPT ![k] = {}]
        BY <1>4 DEF Arrives
    <2>. QED
        BY <2>1, <2>2 DEF CacheTypes
<1>5. ASSUME NEW k \in Keys, FetchFails(k)
      PROVE  Frame
    BY <1>5 DEF CacheTypes, FetchFails
<1>6. ASSUME NEW k \in Keys, Collect(k)
      PROVE  Frame
    BY <1>6 DEF CacheTypes, Collect
<1>7. ASSUME NEW k \in Keys, Ages(k)
      PROVE  Frame
    BY <1>7 DEF CacheTypes, Ages
<1>8. Others => Frame
    BY DEF CacheTypes, Others, cacheVars
<1>9. ASSUME UNCHANGED <<page, cacheVars, fetch, known>>
      PROVE  Frame
    BY <1>9 DEF CacheTypes, cacheVars
<1>10. ASSUME NEW c \in Cancels,
              FindBooking(c) \/ WriteCancel(c) \/ CancelFails(c) \/ CancelLost(c)
              \/ \E b \in Bookings : ClickCancel(c, b)
       PROVE  Frame
    BY <1>9, <1>10 DEF FindBooking, WriteCancel, CancelFails, CancelLost, ClickCancel, PostCancel
<1>11. UNCHANGED vars => UNCHANGED <<page, cacheVars, fetch, known>>
    BY DEF vars
<1> HIDE DEF Frame
<1>12. User => \/ \E k : Open(k)
               \/ \E c \in Cancels, b \in Bookings : ClickCancel(c, b)
    BY DEF User, Visit, ChooseFilter, ChoosePage, Choose, Book
<1>13. User => Frame
    BY <1>1, <1>10, <1>12
<1>14. ASSUME NEW k \in Keys,
              ReadRows(k) \/ ReadTotal(k) \/ Arrives(k) \/ Ages(k) \/ Collect(k) \/ FetchFails(k)
       PROVE  Frame
    BY <1>3, <1>4, <1>5, <1>6, <1>7, <1>14
<1>15. ASSUME NEW c \in Cancels, CancelStep(c) \/ CancelLost(c)
       PROVE  Frame
    BY <1>2, <1>10, <1>15 DEF CancelStep
<1>16. UNCHANGED vars => Frame
    BY <1>9, <1>11
<1>17. Frame
    BY <1>8, <1>13, <1>14, <1>15, <1>16 DEF Next
<1>. QED
    BY <1>17, QueryTypesStep DEF CacheTypes, Frame

LEMMA RowsStep ==
    ASSUME RecordsInv, CancelTypes, CacheTypes, RowsInv, [Next]_vars
    PROVE  RowsInv'
<1> SUFFICES ASSUME NEW q \in Keys
             PROVE  data'[q].rows \cup fetch'[q].rows \subseteq Made' \X BOOLEAN
    BY DEF RowsInv
<1>0. data[q].rows \cup fetch[q].rows \subseteq Made' \X BOOLEAN
    BY RecordsStep DEF RowsInv
<1>1. CASE Stays(q) \/ Invalidated(q) \/ Starts(q)
    BY <1>0, <1>1, SentType DEF Stays, Invalidated, Starts
<1>2. CASE ReadRows(q)
    <2>1. \A b \in Selected(q) : Row(b) \in Made' \X BOOLEAN
        BY ReadTypes, RecordsStep DEF Row
    <2>2. fetch'[q].rows = {Row(b) : b \in Selected(q)} /\ data' = data
        BY <1>2 DEF ReadRows, cacheVars, CacheTypes, FetchType
    <2>. QED
        BY <1>0, <2>1, <2>2
<1>3. CASE ReadTotal(q)
    <2>1. fetch'[q].rows = fetch[q].rows /\ data' = data
        BY <1>3 DEF ReadTotal, cacheVars, CacheTypes, FetchType
    <2>. QED
        BY <1>0, <2>1
<1>4. CASE Arrives(q)
    BY <1>0, <1>4, SentType DEF Arrives, CacheTypes
<1>5. CASE FetchFails(q)
    BY <1>0, <1>5, SentType DEF FetchFails, CacheTypes
<1>6. CASE Collect(q)
    BY <1>0, <1>6 DEF Collect, CacheTypes, NoData
<1>. QED
    BY <1>1, <1>2, <1>3, <1>4, <1>5, <1>6, CacheMoves

----------------------------------------------------------------------------
(* The cancels.                                                            *)

LEMMA NoCancelType ==
    /\ NoCancel \in CancelType /\ ~NoCancel.here /\ NoCancel.awaits = Elsewhere
    /\ NoCancel.pc = "idle" /\ [NoCancel EXCEPT !.here = FALSE] = NoCancel
<1>1. /\ NoCancel \in CancelType /\ NoCancel.here = FALSE
      /\ NoCancel.awaits = Elsewhere /\ NoCancel.pc = "idle"
    BY DEF NoCancel, CancelType
<1>2. ASSUME NEW r \in CancelType, r.here = FALSE
      PROVE  [r EXCEPT !.here = FALSE] = r
    BY <1>2 DEF CancelType
<1>. QED
    BY <1>1, <1>2

\* A fetch goes on until it is answered or fails.
LEMMA FetchGoesOn ==
    ASSUME CacheTypes, [Next]_vars, NEW q \in Keys, fetch[q].sent
    PROVE  fetch'[q].sent \/ Arrives(q) \/ FetchFails(q)
<1>1. CASE Stays(q) \/ Starts(q)
    BY <1>1, SentType DEF Stays, Starts
<1>2. CASE ReadRows(q) \/ ReadTotal(q)
    BY <1>2 DEF ReadRows, ReadTotal, CacheTypes, FetchType
<1>3. CASE Invalidated(q) \/ Collect(q)
    BY <1>3 DEF Invalidated, Collect
<1>. QED
    BY <1>1, <1>2, <1>3, CacheMoves

\* A cancel after the step; it is no page's that it was not before.
Kept(d) ==
    /\ cancel'[d] \in CancelType
    /\ CancelOK(d)'
    /\ cancel'[d].here => cancel[d].here

LEMMA CancelsKept ==
    ASSUME CancelTypes, cancel' = [d \in Cancels |-> cancel'[d]], \A d \in Cancels : Kept(d)
    PROVE  CancelTypes'
BY DEF CancelTypes, Kept

\* One that goes on as it was, on the same page, is kept if its fetch goes on.
LEMMA SameKept ==
    ASSUME RecordsInv, CancelTypes, [Next]_vars, NEW d \in Cancels, cancel'[d] = cancel[d],
           page'[1] = page[1],
           cancel[d].awaits \in Keys /\ fetch[cancel[d].awaits].sent => fetch'[cancel[d].awaits].sent
    PROVE  Kept(d)
<1>1. cancel[d] \in CancelType /\ CancelOK(d) /\ Made \subseteq Made'
    BY RecordsStep DEF CancelTypes
<1>. QED
    BY <1>1 DEF Kept, CancelOK

\* The page that opens is the same component's, or the old one's cancels are its
\* own no more.
LEMMA OpenCancels ==
    ASSUME RecordsInv, CancelTypes, CacheTypes, [Next]_vars, NEW k, Open(k)
    PROVE  CancelTypes'
<1>1. cancel' = [d \in Cancels |-> Leaves(cancel[d], k)] /\ page' = k
    BY DEF Open
<1>2. \A q \in Keys : fetch[q].sent => fetch'[q].sent
    BY OpenMoves, SentType DEF Stays, Starts
<1>3. ASSUME NEW d \in Cancels
      PROVE  Kept(d)
    <2>1. cancel[d] \in CancelType /\ CancelOK(d) /\ Made \subseteq Made'
        BY RecordsStep DEF CancelTypes
    <2>2. CASE k[1] = page[1]
        BY <1>1, <1>2, <2>2, SameKept DEF Leaves
    <2>3. CASE k[1] # page[1] /\ cancel[d].pc = "refetching"
        BY <1>1, <2>3, NoCancelType DEF Leaves, Kept, CancelOK
    <2>4. CASE k[1] # page[1] /\ cancel[d].pc # "refetching"
        <3>1. cancel'[d] = [cancel[d] EXCEPT !.here = FALSE]
            BY <1>1, <2>4 DEF Leaves
        <3>2. /\ cancel'[d] \in CancelType /\ ~cancel'[d].here
              /\ cancel'[d].pc = cancel[d].pc /\ cancel'[d].awaits = cancel[d].awaits
              /\ cancel'[d].booking = cancel[d].booking
            BY <2>1, <3>1 DEF CancelType
        <3>3. cancel[d] = NoCancel => cancel'[d] = NoCancel
            BY <3>1, NoCancelType
        <3>. QED
            BY <2>1, <2>4, <3>2, <3>3 DEF Kept, CancelOK
    <2>. QED
        BY <2>2, <2>3, <2>4
<1>. QED
    BY <1>1, <1>3, CancelsKept

\* A cancel that succeeds waits for the fetch of its page, if that is still open.
LEMMA SuccessCancels ==
    ASSUME RecordsInv, CancelTypes, CacheTypes, [Next]_vars, NEW c \in Cancels, CancelSucceeds(c)
    PROVE  CancelTypes'
<1> DEFINE others == IF page[1] = cancel[c].kind /\ data[page].loaded THEN Settled(page) ELSE cancel
           m == IF cancel[c].here THEN [cancel[c] EXCEPT !.pc = "refetching", !.awaits = page] ELSE NoCancel
<1>1. cancel' = [others EXCEPT ![c] = m] /\ page' = page /\ cancel[c].pc = "ok"
    BY DEF CancelSucceeds
<1>2. \A q \in Keys : fetch[q].sent => fetch'[q].sent
    BY SuccessMoves, SentType DEF Stays, Starts, Invalidated
<1>3. others \in [Cancels -> CancelType] /\ \A d \in Cancels : others[d] \in {cancel[d], NoCancel}
    BY NoCancelType DEF Settled, CancelTypes
<1>4. cancel[c] \in CancelType /\ CancelOK(c) /\ Made \subseteq Made'
    BY RecordsStep DEF CancelTypes
<1> HIDE DEF others
<1>5. ASSUME NEW d \in Cancels \ {c}
      PROVE  Kept(d)
    <2>1. cancel'[d] \in {cancel[d], NoCancel}
        BY <1>1, <1>3
    <2>2. CASE cancel'[d] = cancel[d]
        BY <1>1, <1>2, <2>2, SameKept
    <2>3. CASE cancel'[d] = NoCancel
        BY <2>3, NoCancelType DEF Kept, CancelOK
    <2>. QED
        BY <2>1, <2>2, <2>3
<1>6. cancel'[c] = m
    BY <1>1, <1>3
<1>7. ASSUME cancel[c].here
      PROVE  Kept(c)
    <2>1. cancel[c].booking \in Made /\ page[1] = cancel[c].kind
        BY <1>1, <1>4, <1>7, NoCancelType DEF CancelOK
    <2>2. page \in Keys
        BY <1>4, <2>1, KeyShapes DEF CacheTypes, CancelType
    <2>3. fetch'[page].sent
        BY <2>1, <2>2, SentType DEF CancelSucceeds, Invalidate, Fetch
    <2>4. /\ cancel'[c] \in CancelType /\ cancel'[c].pc = "refetching" /\ cancel'[c].awaits = page
          /\ cancel'[c].here = cancel[c].here /\ cancel'[c].kind = cancel[c].kind
          /\ cancel'[c].booking = cancel[c].booking
        BY <1>4, <1>6, <1>7, <2>2 DEF CancelType, CancelPc
    <2>5. CancelOK(c)'
        BY <1>1, <1>4, <1>7, <2>1, <2>2, <2>3, <2>4 DEF CancelOK, CancelPc
    <2> HIDE DEF m
    <2>. QED
        BY <1>7, <2>4, <2>5 DEF Kept
<1>8. ASSUME ~cancel[c].here
      PROVE  Kept(c)
    <2>1. cancel'[c] = NoCancel
        BY <1>6, <1>8
    <2> HIDE DEF m
    <2>. QED
        BY <2>1, NoCancelType DEF Kept, CancelOK
<1>9. cancel' = [d \in Cancels |-> cancel'[d]]
    BY <1>1, <1>3
<1>. QED
    BY <1>5, <1>7, <1>8, <1>9, CancelsKept

\* A fetch that ends ends what awaits it.
LEMMA SettledCancels ==
    ASSUME RecordsInv, CancelTypes, CacheTypes, [Next]_vars, NEW k \in Keys, Arrives(k) \/ FetchFails(k)
    PROVE  CancelTypes'
<1>1. /\ cancel' = [d \in Cancels |-> IF cancel[d].awaits = k THEN NoCancel ELSE cancel[d]]
      /\ page' = page /\ \A q \in Keys \ {k} : fetch'[q] = fetch[q]
    BY DEF Arrives, FetchFails, Settled, CacheTypes
<1>2. ASSUME NEW d \in Cancels
      PROVE  Kept(d)
    <2>1. CASE cancel[d].awaits = k
        BY <1>1, <2>1, NoCancelType DEF Kept, CancelOK
    <2>2. CASE cancel[d].awaits # k
        BY <1>1, <2>2, SameKept
    <2>. QED
        BY <2>1, <2>2
<1>. QED
    BY <1>1, <1>2, CancelsKept

\* A cancel goes on at its handler.
LEMMA GotoCancels ==
    ASSUME RecordsInv, CancelTypes, [Next]_vars, NEW c \in Cancels,
           NEW pc \in {"found", "ok", "refused", "failed"},
           CancelGoto(c, pc), cancel[c].pc \in {"arrived", "found", "ok"}, UNCHANGED <<page, fetch>>
    PROVE  CancelTypes'
<1>0. cancel \in [Cancels -> CancelType]
    BY DEF CancelTypes
<1>1. cancel' \in [Cancels -> CancelType] /\ \A d \in Cancels \ {c} : cancel'[d] = cancel[d]
    BY <1>0 DEF CancelGoto, CancelType, CancelPc
<1>2. /\ cancel'[c].pc = pc /\ cancel'[c].here = cancel[c].here /\ cancel'[c].kind = cancel[c].kind
      /\ cancel'[c].booking = cancel[c].booking /\ cancel'[c].awaits = cancel[c].awaits
    BY <1>0 DEF CancelGoto, CancelType
<1>3. CancelOK(c) /\ cancel[c] # NoCancel /\ Made \subseteq Made'
    BY NoCancelType, RecordsStep DEF CancelTypes
<1>4. Kept(c)
    BY <1>1, <1>2, <1>3 DEF Kept, CancelOK, CancelPc
<1>5. \A d \in Cancels \ {c} : Kept(d)
    BY <1>1, SameKept
<1>. QED
    BY <1>1, <1>4, <1>5, CancelsKept

\* A page with no cancel of its own sends one.
LEMMA PostCancels ==
    ASSUME RecordsInv, CancelTypes, CacheTypes, RowsInv, [Next]_vars,
           NEW c \in Cancels, NEW b \in Bookings, ClickCancel(c, b)
    PROVE  CancelTypes'
<1> DEFINE m == [pc |-> "arrived", kind |-> page[1], booking |-> b, here |-> TRUE, awaits |-> Elsewhere]
<1>1. /\ cancel' = [cancel EXCEPT ![c] = m] /\ page \in Keys /\ UNCHANGED <<page, fetch>>
      /\ \A d \in Cancels : ~cancel[d].here
    BY DEF ClickCancel, PostCancel
<1>2. b \in Nat /\ page[1] \in {"mine", "booking", "admin"}
    BY <1>1, KeyShapes DEF Bookings
<1>3. /\ m \in CancelType /\ m.pc = "arrived" /\ m.booking = b /\ m.kind = page[1]
      /\ m.awaits = Elsewhere
    BY <1>2 DEF CancelType, CancelPc
<1>4. b \in Made /\ Made \subseteq Made'
    BY <1>1, RecordsStep DEF ClickCancel, Offers, RowsInv
<1> HIDE DEF m
<1>5. cancel' \in [Cancels -> CancelType] /\ cancel'[c] = m /\ \A d \in Cancels \ {c} : cancel'[d] = cancel[d]
    BY <1>1, <1>3 DEF CancelTypes
<1>6. CancelOK(c)'
    BY <1>1, <1>3, <1>4, <1>5 DEF CancelOK, CancelPc
<1>7. \A d \in Cancels \ {c} : CancelOK(d)' /\ ~cancel'[d].here
    BY <1>1, <1>5, SameKept DEF Kept
<1>. QED
    BY <1>5, <1>6, <1>7 DEF CancelTypes

\* A cancel goes on, and the page that waits for it stays or is left.
LEMMA CancelTypesStep ==
    ASSUME RecordsInv, CancelTypes, CacheTypes, RowsInv, [Next]_vars
    PROVE  CancelTypes'
<1>1. ASSUME UNCHANGED <<page, cancel>>, \A k \in Keys : ~Arrives(k) /\ ~FetchFails(k)
      PROVE  CancelTypes'
    <2>1. \A d \in Cancels : Kept(d)
        BY <1>1, FetchGoesOn, SameKept
    <2>2. cancel' = [d \in Cancels |-> cancel'[d]]
        BY <1>1 DEF CancelTypes
    <2>. QED
        BY <2>1, <2>2, CancelsKept
<1>2. ASSUME NEW c \in Cancels, CancelStep(c) \/ CancelLost(c)
      PROVE  CancelTypes'
    <2>1. CASE CancelSucceeds(c)
        BY <2>1, SuccessCancels
    <2>2. CASE CancelFails(c)
        <3>1. cancel' = [cancel EXCEPT ![c] = NoCancel] /\ UNCHANGED <<page, fetch>>
            BY <2>2 DEF CancelFails
        <3>2. \A d \in Cancels : cancel'[d] = cancel[d] \/ cancel'[d] = NoCancel
            BY <3>1 DEF CancelTypes
        <3>3. \A d \in Cancels : Kept(d)
            BY <3>1, <3>2, NoCancelType, SameKept DEF Kept, CancelOK
        <3>4. cancel' = [d \in Cancels |-> cancel'[d]]
            BY <3>1 DEF CancelTypes
        <3>. QED
            BY <3>3, <3>4, CancelsKept
    <2>3. CASE FindBooking(c) \/ WriteCancel(c) \/ CancelLost(c)
        <3>1. \E pc \in {"found", "ok", "refused", "failed"} : CancelGoto(c, pc)
            BY <2>3 DEF FindBooking, WriteCancel, CancelLost
        <3>2. cancel[c].pc \in {"arrived", "found", "ok"} /\ UNCHANGED <<page, fetch>>
            BY <2>3 DEF FindBooking, WriteCancel, CancelLost
        <3>. QED
            BY <3>1, <3>2, GotoCancels
    <2>. QED
        BY <1>2, <2>1, <2>2, <2>3 DEF CancelStep
<1>3. User => \/ \E k : Open(k)
              \/ \E c \in Cancels, b \in Bookings : ClickCancel(c, b)
    BY DEF User, Visit, ChooseFilter, ChoosePage, Choose, Book
<1>4. ASSUME ~User, \A c \in Cancels : ~(CancelStep(c) \/ CancelLost(c)),
             \A k \in Keys : ~Arrives(k) /\ ~FetchFails(k)
      PROVE  UNCHANGED <<page, cancel>>
    BY <1>4 DEF Next, Others, ReadRows, ReadTotal, Ages, Collect, vars
<1>. QED
    BY <1>1, <1>2, <1>3, <1>4, OpenCancels, PostCancels, SettledCancels

----------------------------------------------------------------------------
(* UnfilteredPagesFilled.                                                  *)

\* A page that opens is one that the pagination offers.
LEMMA PageOffered ==
    ASSUME RecordsInv, CacheTypes, CountsInv, [Next]_vars, page' \in Keys, Beyond(page')
    PROVE  page'[3] <= PagesOf(Newest)
<1>1. CASE page' = page
    BY <1>1 DEF CountsInv
<1>2. ASSUME NEW p \in 1 .. PagesOf(MaxBookings), ChoosePage(p)
      PROVE  page'[3] <= PagesOf(Newest)
    <2>1. page' = <<"admin", page[2], p>> /\ p <= PagesOf(data[page].total) /\ page[1] = "admin"
        BY <1>2 DEF ChoosePage, Choose, Open
    <2>2. page \in Keys /\ page[2] = "ALL"
        BY <2>1, KeyShapes DEF CacheTypes, Beyond
    <2>3. data[page].total \in Nat /\ data[page].total <= Newest /\ Newest \in Nat
        BY <2>1, <2>2, MadeFinite DEF CountsInv, CacheTypes, AnswerType
    <2>4. /\ PagesOf(data[page].total) <= PagesOf(Newest)
          /\ PagesOf(data[page].total) \in Nat /\ PagesOf(Newest) \in Nat
        BY <2>3, PagesMonotone
    <2>5. PagesOf(MaxBookings) \in Nat
        BY PagesMonotone, RowBoundsAssumption
    <2>. QED
        BY <2>1, <2>4, <2>5
<1>3. ASSUME page' # page
      PROVE  \/ \E p \in 1 .. PagesOf(MaxBookings) : ChoosePage(p)
             \/ \E f \in Filters : page' = <<"admin", f, 1>>
             \/ page' \in {Elsewhere, Mine, <<"admin", "ALL", 1>>, <<"booking", Newest + 1>>}
    BY <1>3 DEF Next, User, Visit, ChooseFilter, Choose, Open, Book, ClickCancel, PostCancel, Others, ReadRows,
                ReadTotal, Arrives, Ages, Collect, FetchFails, CancelStep, FindBooking, WriteCancel,
                CancelSucceeds, CancelFails, CancelLost, vars
<1>4. ASSUME \/ \E f \in Filters : page' = <<"admin", f, 1>>
             \/ page' \in {Elsewhere, Mine, <<"admin", "ALL", 1>>, <<"booking", Newest + 1>>}
      PROVE  FALSE
    BY <1>4 DEF Beyond, Elsewhere, Mine
<1>. QED
    BY <1>1, <1>2, <1>3, <1>4

LEMMA CountsStep ==
    ASSUME RecordsInv, CancelTypes, CacheTypes, CountsInv, [Next]_vars
    PROVE  CountsInv'
<1> SUFFICES ASSUME NEW q \in Keys
             PROVE  /\ q[1] = "admin" /\ q[2] = "ALL" =>
                          data'[q].total <= Newest' /\ fetch'[q].total <= Newest'
                    /\ Beyond(q) =>
                          /\ page' = q \/ fetch'[q].sent => q[3] <= PagesOf(Newest')
                          /\ data'[q].loaded => /\ data'[q].rows # {}
                                                /\ q[3] <= PagesOf(data'[q].total)
                          /\ fetch'[q].sent /\ "rows" \notin fetch'[q].unread => fetch'[q].rows # {}
                          /\ fetch'[q].sent /\ "total" \notin fetch'[q].unread =>
                                q[3] <= PagesOf(fetch'[q].total)
    BY DEF CountsInv, PagesOf
<1>0. Newest \in Nat /\ Newest' \in Nat /\ Newest <= Newest'
    <2>1. Newest \in Nat /\ Newest <= Newest'
        BY MadeFinite, RecordsStep
    <2>2. IsFiniteSet(Bookings) /\ Made' \subseteq Bookings
        BY FS_Interval, RowBoundsAssumption DEF Made, Bookings
    <2>3. IsFiniteSet(Made')
        BY <2>2, FS_Subset
    <2>. QED
        BY <2>1, <2>3, FS_CardinalityType DEF Newest
<1>1. PagesOf(Newest) \in Nat /\ PagesOf(Newest') \in Nat /\ PagesOf(Newest) <= PagesOf(Newest')
    BY <1>0, PagesMonotone
<1>2. /\ data[q] \in AnswerType /\ fetch[q] \in FetchType
      /\ data[q].total \in Nat /\ fetch[q].total \in Nat
    BY DEF CacheTypes, AnswerType, FetchType
<1>3. /\ q[1] = "admin" /\ q[2] = "ALL" =>
            data[q].total <= Newest' /\ fetch[q].total <= Newest'
      /\ Beyond(q) =>
            /\ page' = q \/ fetch[q].sent => q[3] <= PagesOf(Newest')
            /\ data[q].loaded => data[q].rows # {} /\ q[3] <= PagesOf(data[q].total)
            /\ fetch[q].sent /\ "rows" \notin fetch[q].unread => fetch[q].rows # {}
            /\ fetch[q].sent /\ "total" \notin fetch[q].unread => q[3] <= PagesOf(fetch[q].total)
    <2>1. Beyond(q) => q[3] \in Nat
        BY KeyShapes DEF Beyond
    <2>2. page' = q /\ Beyond(q) => q[3] <= PagesOf(Newest)
        BY PageOffered
    <2>. QED
        BY <1>0, <1>1, <1>2, <2>1, <2>2 DEF CountsInv
<1>4. CASE Stays(q) \/ Invalidated(q)
    BY <1>3, <1>4 DEF Stays, Invalidated
<1>5. CASE Starts(q)
    <2>1. Sent(q).total = 0 /\ "rows" \in Sent(q).unread /\ (Beyond(q) => "total" \in Sent(q).unread)
        BY SentType DEF Beyond
    <2>. QED
        BY <1>0, <1>3, <1>5, <2>1 DEF Starts
<1>6. CASE ReadRows(q)
    <2>1. /\ fetch'[q].rows = {Row(b) : b \in Selected(q)}
          /\ fetch'[q].unread = fetch[q].unread \ {"rows"}
          /\ fetch'[q].sent = fetch[q].sent /\ fetch'[q].total = fetch[q].total
          /\ data' = data
        BY <1>2, <1>6 DEF ReadRows, cacheVars, CacheTypes, FetchType
    <2>2. fetch[q].sent
        BY <1>6 DEF ReadRows, CacheTypes
    <2>3. Beyond(q) => Selected(q) # {}
        <3> SUFFICES ASSUME Beyond(q)
                     PROVE  Selected(q) # {}
            OBVIOUS
        <3>1. Selected(q) = OnPage(1 .. Newest, q[3])
            BY DEF Selected, Matching, Beyond, RecordsInv, RecordsTypeOK, Made
        <3>2. q[3] \in Nat \ {0} /\ q[3] <= PagesOf(Newest)
            BY <2>2, KeyShapes DEF CountsInv, Beyond
        <3>. QED
            BY <1>0, <3>1, <3>2, PagesFilled
    <2>. QED
        BY <1>3, <2>1, <2>3
<1>7. CASE ReadTotal(q)
    <2>1. /\ fetch'[q].total = Cardinality(Matching(q[2]))
          /\ fetch'[q].unread = fetch[q].unread \ {"total"}
          /\ fetch'[q].sent = fetch[q].sent /\ fetch'[q].rows = fetch[q].rows
          /\ data' = data /\ Newest' = Newest
        BY <1>2, <1>7 DEF ReadTotal, cacheVars, CacheTypes, FetchType, Newest, Made, recordVars
    <2>2. fetch[q].sent
        BY <1>7 DEF ReadTotal, CacheTypes
    <2>3. q[2] = "ALL" => Cardinality(Matching(q[2])) = Newest
        <3>1. q[2] = "ALL" => Matching(q[2]) = Made
            BY DEF Matching
        <3>. QED
            BY <3>1 DEF Newest
    <2>4. Beyond(q) => q[3] <= PagesOf(Newest)
        BY <2>2 DEF CountsInv
    <2>. QED
        BY <1>0, <1>3, <2>1, <2>2, <2>3, <2>4 DEF Beyond
<1>8. CASE Arrives(q)
    <2>1. /\ data'[q].total = fetch[q].total /\ data'[q].rows = fetch[q].rows
          /\ fetch[q].sent /\ fetch[q].unread = {}
          /\ fetch'[q] = NoFetch
        BY <1>8 DEF Arrives, CacheTypes
    <2>. QED
        BY <1>0, <1>3, <2>1, SentType
<1>9. CASE FetchFails(q)
    <2>1. data' = data /\ fetch'[q] = NoFetch
        BY <1>9 DEF FetchFails, CacheTypes
    <2>. QED
        BY <1>0, <1>3, <2>1, SentType
<1>10. CASE Collect(q)
    <2>1. data'[q] = NoData /\ fetch' = fetch
        BY <1>10 DEF Collect, CacheTypes
    <2>. QED
        BY <1>0, <1>3, <2>1, SentType
<1>. QED
    BY <1>4, <1>5, <1>6, <1>7, <1>8, <1>9, <1>10, CacheMoves

----------------------------------------------------------------------------
(* CancelsOutlastCache.                                                    *)

\* What is known to be cancelled is cancelled: others who take a cancel back are
\* heard of.
LEMMA KnownCancelled ==
    ASSUME PagesInv, [Next]_vars, NEW q \in Keys, NEW b \in known'[q]
    PROVE  status'[b] = "CANCELLED" /\ b \in Bookings
<1> USE DEF PagesInv
<1>1. b \in Bookings
    BY CacheTypesStep DEF CacheTypes
<1>2. CASE Others
    <2>1. known' = [k \in Keys |-> {x \in known[k] : status'[x] = "CANCELLED"}]
        BY <1>2 DEF Others
    <2>. QED
        BY <1>1, <2>1
<1>3. ASSUME b \in known[q], ~Others
      PROVE  status'[b] = "CANCELLED"
    BY <1>1, <1>3, RecordsStep DEF KnownInv
<1>4. ASSUME NEW c \in Cancels, CancelSucceeds(c)
      PROVE  b \in known[q] \/ status'[b] = "CANCELLED"
    BY <1>4, SuccessMoves DEF CancelSucceeds, recordVars
<1>5. ASSUME ~Others, \A c \in Cancels : ~CancelSucceeds(c)
      PROVE  known'[q] \subseteq known[q]
    <2>1. ASSUME NEW k \in Keys, Arrives(k) \/ Collect(k)
          PROVE  known'[q] \subseteq known[q]
        BY <2>1 DEF Arrives, Collect, CacheTypes
    <2>2. ASSUME \A k \in Keys : ~Arrives(k) /\ ~Collect(k)
          PROVE  known' = known
        BY <1>5, <2>2 DEF Next, User, Visit, ChooseFilter, ChoosePage, Choose, Open, Book, ClickCancel,
                PostCancel, ReadRows, ReadTotal, Ages, FetchFails, CancelStep, FindBooking, WriteCancel,
                CancelFails, CancelLost, vars
    <2>. QED
        BY <2>1, <2>2
<1>. QED
    BY <1>1, <1>2, <1>3, <1>4, <1>5

LEMMA KnownStep ==
    ASSUME PagesInv, [Next]_vars
    PROVE  KnownInv'
<1> USE DEF PagesInv
<1> SUFFICES ASSUME NEW q \in Keys, NEW b \in known'[q]
             PROVE  /\ <<b, FALSE>> \notin fetch'[q].rows
                    /\ q \in fresh' => <<b, FALSE>> \notin data'[q].rows
    BY KnownCancelled DEF KnownInv
<1>1. CASE Stays(q)
    BY <1>1 DEF Stays, KnownInv
<1>2. CASE Invalidated(q)
    BY <1>2 DEF Invalidated, CacheTypes
<1>3. CASE Starts(q)
    BY <1>3, SentType DEF Starts
<1>4. CASE ReadRows(q)
    <2>1. /\ fetch'[q].rows = {Row(x) : x \in Selected(q)}
          /\ data' = data /\ fresh' = fresh /\ known' = known
        BY <1>4 DEF ReadRows, cacheVars, CacheTypes, FetchType
    <2>2. status[b] = "CANCELLED"
        BY <2>1 DEF KnownInv
    <2>3. \A x \in Selected(q) : Row(x) # <<b, FALSE>>
        BY <2>2 DEF Row
    <2>. QED
        BY <2>1, <2>3 DEF KnownInv
<1>5. CASE ReadTotal(q)
    <2>1. /\ fetch'[q].rows = fetch[q].rows
          /\ data' = data /\ fresh' = fresh /\ known' = known
        BY <1>5 DEF ReadTotal, cacheVars, CacheTypes, FetchType
    <2>. QED
        BY <2>1 DEF KnownInv
<1>6. CASE Arrives(q) \/ Collect(q)
    BY <1>6 DEF Arrives, Collect, CacheTypes
<1>7. CASE FetchFails(q)
    <2>1. fetch'[q] = NoFetch /\ data' = data /\ fresh' = fresh /\ known' = known
        BY <1>7 DEF FetchFails, CacheTypes
    <2>. QED
        BY <2>1, SentType DEF KnownInv
<1>. QED
    BY <1>1, <1>2, <1>3, <1>4, <1>5, <1>6, <1>7, CacheMoves

----------------------------------------------------------------------------
(* The inductive invariant, and what follows from it.                      *)

LEMMA PagesInvInit == Init => PagesInv
<1> SUFFICES ASSUME Init
             PROVE  PagesInv
    OBVIOUS
<1>1. RecordsInv
    <2>1. Made = {}
        BY DEF Init, RecordsInit, Made
    <2>2. Newest = 0
        BY <2>1, FS_EmptySet DEF Newest
    <2>. QED
        BY <2>1, <2>2, RowBoundsAssumption DEF Init, RecordsInit, RecordsInv, RecordsTypeOK
<1>2. CancelTypes
    BY NoCancelType DEF Init, CancelTypes, CancelOK
<1>3. CacheTypes
    BY SentType, KeyShapes DEF Init, CacheTypes
<1>4. RowsInv /\ KnownInv
    BY SentType DEF Init, RowsInv, KnownInv, NoData
<1>5. CountsInv
    BY SentType, KeyShapes, MadeFinite DEF Init, CountsInv
<1>. QED
    BY <1>1, <1>2, <1>3, <1>4, <1>5 DEF PagesInv

LEMMA PagesInvStep == PagesInv /\ [Next]_vars => PagesInv'
BY RecordsStep, CancelTypesStep, CacheTypesStep, RowsStep, CountsStep, KnownStep DEF PagesInv

LEMMA PagesInvariant == Spec => []PagesInv
BY PagesInvInit, PagesInvStep, PTL DEF Spec

\* Every value keeps its type; a fresh answer is there, a page is never left with
\* neither an answer, a request nor an error, and waits for at most one cancel.
THEOREM BookingPagesTypesHold == Spec => []BookingPagesTypeOK
<1>1. PagesInv => BookingPagesTypeOK
    BY DEF PagesInv, RecordsInv, CancelTypes, CancelType, CancelOK, CacheTypes, AnswerType,
           FetchType, BookingPagesTypeOK
<1>. QED
    BY <1>1, PagesInvariant, PTL

\* No page of the unfiltered table is empty beyond the first, for any page size
\* and any bookings made between the two reads of an answer.
THEOREM PagesStayFilled == Spec => []UnfilteredPagesFilled
<1>1. PagesInv => UnfilteredPagesFilled
    BY DEF PagesInv, CountsInv, Beyond, UnfilteredPagesFilled
<1>. QED
    BY <1>1, PagesInvariant, PTL

\* No list that counts as fresh offers a booking that the tab knows to be
\* cancelled, whatever queries are cached and however their refetches overlap.
THEOREM CacheRespectsCancels == Spec => []CancelsOutlastCache
<1>1. PagesInv => CancelsOutlastCache
    BY DEF PagesInv, KnownInv, CancelsOutlastCache, Offers
<1>. QED
    BY <1>1, PagesInvariant, PTL
==============================================================================
