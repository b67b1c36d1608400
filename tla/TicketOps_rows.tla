--------------------------- MODULE TicketOps_rows ---------------------------
(***************************************************************************)
(* Safety of the rows the services leave in Postgres, for every value of   *)
(* the constants and with every failure: BookedSeatHasBooking,             *)
(* FailedMeansExhausted and DoneIsComplete.  RowsExist, that every service *)
(* deals with rows that exist, is what the three rest on.                  *)
(***************************************************************************)
EXTENDS TicketOps_types

Exists(b) == bookingStatus[b] # "NONE"

\* Where a request is before its transaction; nothing comes back to here.
BeforeBooking == {"idle", "findSeats", "acquire", "rollback", "transaction", "rejected"}

\* A booking has a job, and a request creates its booking in its transaction.
RequestRows ==
    \A b \in Requests :
        /\ Exists(b) <=> jobStatus[b] # "NONE"
        /\ reqPc[b] \in BeforeBooking => ~Exists(b)

\* A cancel call and a worker deal with bookings that exist.
CancelRows ==
    \A c \in Cancels : cancelPc[c] \in {"cancel", "release"} => Exists(cancelTarget[c])

WorkerRows ==
    \A w \in Workers :
        /\ \A b \in batch[w] : Exists(b)
        /\ workerPc[w] \notin {"idle", "next", "findJob"} => Exists(current[w])

RowsExist == TypeOK /\ RequestRows /\ CancelRows /\ WorkerRows

----------------------------------------------------------------------------
(* RowsExist is inductive.                                                 *)

\* createBooking: only its transaction writes bookings and jobs.
LEMMA ApiRows ==
    ASSUME RowsExist, ApiNext, ~ \E r \in Requests : Transaction(r)
    PROVE  /\ UNCHANGED <<bookingStatus, bookingSeats, seatStatus, jobStatus, attempts, notified>>
           /\ \A r \in Requests : reqPc'[r] \in BeforeBooking => reqPc[r] \in BeforeBooking
<1> USE DEF RowsExist, TypeOK, ApiTypeOK, BeforeBooking, storeVars, seatVars, jobVars, lockVars
<1>1. PICK r \in Requests :
          \/ \E S \in SUBSET Seats : Receive(r, S)
          \/ RequestStep(r)
          \/ RequestFault(r)
    BY DEF ApiNext
<1>2. CASE \E S \in SUBSET Seats : Receive(r, S)
    BY <1>2 DEF Receive
<1>3. CASE RequestStep(r)
    BY <1>3
    DEF RequestStep, SeatsAvailable, SeatsTaken, AcquireLock, LockTaken, LockConflict, Rollback,
        Push, Release, Continue, Finish, SetNx, DelLocks, PushMessage
<1>4. CASE RequestFault(r)
    BY <1>4
    DEF RequestFault, RequestStops, LockReplyLost, LockResent, TransactionFails,
        FailsAfterCommit, Continue, Finish, SetNx, PushMessage, InFlight, InFlightPc
<1>. QED
    BY <1>1, <1>2, <1>3, <1>4

LEMMA TransactionRows ==
    ASSUME RowsExist, NEW r \in Requests, Transaction(r), UNCHANGED <<cancelVars, workerVars>>
    PROVE  RequestRows' /\ CancelRows' /\ WorkerRows'
<1> USE DEF RowsExist, TypeOK, StoreTypeOK, Exists, Transaction, CreateBooking, Continue
<1>1. RequestRows'
    BY DEF RequestRows, ApiTypeOK, BeforeBooking
<1>2. CancelRows'
    BY DEF CancelRows, cancelVars
<1>3. WorkerRows'
    BY DEF WorkerRows, WorkerTypeOK, workerVars
<1>. QED
    BY <1>1, <1>2, <1>3

LEMMA CancelNextRows ==
    ASSUME RowsExist, CancelNext, UNCHANGED <<apiVars, workerVars>>
    PROVE  RequestRows' /\ CancelRows' /\ WorkerRows'
<1> USE DEF RowsExist, TypeOK, StoreTypeOK, CancelTypeOK, Exists, storeVars, seatVars, jobVars
<1>1. PICK c \in Cancels :
          \/ \E b \in Requests : FindBooking(c, b) \/ RefuseCancel(c, b)
          \/ CancelStep(c)
          \/ CancelStops(c)
    BY DEF CancelNext
<1>2. CASE CancelTransaction(c)
    <2>1. cancelTarget[c] \in Requests /\ Exists(cancelTarget[c])
        BY <1>2 DEF CancelTransaction, CancelRows
    <2>2. \A b \in Requests : /\ Exists(b)' <=> Exists(b)
                              /\ jobStatus'[b] = jobStatus[b]
        BY <1>2, <2>1 DEF CancelTransaction, CancelBooking
    <2>3. RequestRows'
        BY <2>2 DEF RequestRows, apiVars
    <2>4. CancelRows'
        BY <1>2, <2>2 DEF CancelTransaction, CancelRows, CancelGoto, CancelReturns
    <2>5. WorkerRows'
        BY <2>2 DEF WorkerRows, WorkerTypeOK, workerVars
    <2>. QED
        BY <2>3, <2>4, <2>5
<1>3. CASE ~CancelTransaction(c)
    <2>1. UNCHANGED <<bookingStatus, jobStatus>> /\ CancelRows'
        BY <1>1, <1>3
        DEF FindBooking, RefuseCancel, CancelStep, CancelRelease, CancelStops, CancelRows,
            CancelGoto, CancelReturns, DelLocks
    <2>. QED
        BY <2>1 DEF RequestRows, WorkerRows, apiVars, workerVars
<1>. QED
    BY <1>2, <1>3

LEMMA WorkerNextRows ==
    ASSUME RowsExist, WorkerNext, UNCHANGED <<apiVars, cancelVars>>
    PROVE  /\ RequestRows' /\ CancelRows' /\ WorkerRows'
           /\ \A b \in Requests : Exists(b)' <=> Exists(b)
<1> USE DEF RowsExist, TypeOK, StoreTypeOK, WorkerTypeOK, Exists, storeVars, seatVars, jobVars
<1>1. PICK w \in Workers :
          \/ Trigger(w)
          \/ WorkerStep(w)
          \/ WorkerCallFails(w)
          \/ WorkerStops(w)
    BY DEF WorkerNext
<1>2. \A b \in Requests : /\ Exists(b)' <=> Exists(b)
                          /\ jobStatus'[b] # "NONE" <=> jobStatus[b] # "NONE"
    <2>1. CASE FailBooking(w) \/ Confirm(w)
        BY <2>1 DEF WorkerRows, FailBooking, Confirm, SetBookingStatus
    <2>2. CASE FailJob(w) \/ BeginJob(w) \/ JobDone(w) \/ RetryLater(w) \/ WorkerCallFails(w)
        BY <2>2
        DEF WorkerRows, RequestRows, FailJob, BeginJob, JobDone, RetryLater, WorkerCallFails,
            SetJobStatus, StartAttempt, TryPc
    <2>3. CASE UNCHANGED <<bookingStatus, jobStatus>>
        BY <2>3
    <2>4. CASE Trigger(w) \/ WorkerStops(w)
        BY <2>4 DEF Trigger, Sweep, ReceiveMessage, PopMessage, WorkerStops
    <2>5. ASSUME WorkerStep(w),
                 ~(FailBooking(w) \/ Confirm(w) \/ FailJob(w) \/ BeginJob(w) \/ JobDone(w)
                     \/ RetryLater(w))
          PROVE  UNCHANGED <<bookingStatus, jobStatus>>
        BY <2>5
        DEF WorkerStep, NextJob, ProcessMessage, LoadJob, Notify, ReleaseSeatLocks,
            RecordConfirmation, DelLocks
    <2>. QED
        BY <1>1, <2>1, <2>2, <2>3, <2>4, <2>5
<1>3. RequestRows'
    BY <1>2 DEF RequestRows, apiVars
<1>4. CancelRows'
    BY <1>2 DEF CancelRows, CancelTypeOK, cancelVars
<1>5. WorkerRows'
    <2>1. CASE \E S \in SUBSET Requests : Sweep(w, S)
        BY <2>1 DEF WorkerRows, RequestRows, Sweep, StuckJobs
    <2>2. CASE ReceiveMessage(w)
        BY <1>2, <2>2 DEF WorkerRows, ReceiveMessage
    <2>3. CASE \E b \in Requests : NextJob(w, b)
        BY <2>3 DEF WorkerRows, NextJob
    <2>4. CASE ProcessMessage(w)
        BY <1>2, <2>4, JobIdAssumption DEF WorkerRows, ProcessMessage, FindJob, JobReturns
    <2>5. ASSUME NEW pc, WorkerGoto(w, pc), workerPc[w] \notin {"idle", "next", "findJob"}
          PROVE  WorkerRows'
        BY <1>2, <2>5 DEF WorkerRows, WorkerGoto
    <2>6. ASSUME JobReturns(w)
          PROVE  WorkerRows'
        BY <1>2, <2>6 DEF WorkerRows, JobReturns
    <2>7. CASE LoadJob(w) \/ FailJob(w) \/ FailBooking(w) \/ BeginJob(w) \/ Confirm(w)
        BY <2>5, <2>6, <2>7 DEF LoadJob, FailJob, FailBooking, BeginJob, Confirm
    <2>8. CASE Notify(w) \/ ReleaseSeatLocks(w) \/ JobDone(w) \/ RetryLater(w)
        BY <2>5, <2>6, <2>8 DEF Notify, ReleaseSeatLocks, JobDone, RetryLater
    <2>9. CASE WorkerCallFails(w)
        BY <2>5, <2>9 DEF WorkerCallFails, TryPc
    <2>10. CASE WorkerStops(w)
        BY <1>2, <2>10 DEF WorkerRows, WorkerStops
    <2>. QED
        BY <1>1, <2>1, <2>2, <2>3, <2>4, <2>7, <2>8, <2>9, <2>10 DEF Trigger, WorkerStep
<1>. QED
    BY <1>2, <1>3, <1>4, <1>5

LEMMA RowsExistStep ==
    ASSUME RowsExist, [Next]_vars, TypeOK'
    PROVE  RowsExist'
<1> USE DEF RowsExist
<1>1. ASSUME UNCHANGED <<bookingStatus, jobStatus, cancelVars, workerVars>>,
             \A r \in Requests : reqPc'[r] \in BeforeBooking => reqPc[r] \in BeforeBooking
      PROVE  RowsExist'
    BY <1>1 DEF RequestRows, CancelRows, WorkerRows, Exists, cancelVars, workerVars
<1>2. CASE ApiNext /\ UNCHANGED <<cancelVars, workerVars>>
    <2>1. CASE \E r \in Requests : Transaction(r)
        BY <1>2, <2>1, TransactionRows
    <2>2. CASE ~ \E r \in Requests : Transaction(r)
        BY <1>1, <1>2, <2>2, ApiRows
    <2>. QED
        BY <2>1, <2>2
<1>3. CASE CancelNext /\ UNCHANGED <<apiVars, workerVars>>
    BY <1>3, CancelNextRows
<1>4. CASE WorkerNext /\ UNCHANGED <<apiVars, cancelVars>>
    BY <1>4, WorkerNextRows
<1>5. CASE Tick
    BY <1>1, <1>5 DEF Tick, StoreTick, workerVars, cancelVars
<1>6. CASE RedisRestart /\ UNCHANGED <<apiVars, cancelVars, workerVars>>
    BY <1>1, <1>6 DEF RedisRestart, jobVars, apiVars
<1>7. CASE CommandResent
    BY <1>1, <1>7, ResentDeletesOrPushes
    DEF CommandResent, DelLocks, PushMessage, jobVars, apiVars
<1>8. CASE UNCHANGED vars
    BY <1>1, <1>8 DEF vars, storeVars, apiVars
<1>. QED
    BY <1>2, <1>3, <1>4, <1>5, <1>6, <1>7, <1>8 DEF Next

\* Requests, cancel calls and workers deal with rows that exist.
THEOREM RowsExistAlways == Spec => []RowsExist
<1>1. Init /\ TypeOK => RowsExist
    BY DEF Init, StoreInit, ApiInit, CancelInit, WorkerInit, RowsExist, RequestRows, CancelRows,
           WorkerRows, Exists
<1>2. RowsExist /\ [Next]_vars /\ TypeOK' => RowsExist'
    BY RowsExistStep
<1>. QED
    BY <1>1, <1>2, TypeCorrect, PTL DEF Spec

----------------------------------------------------------------------------
(* No seat is stranded.                                                    *)

\* The steps that write seats or bookings are the two transactions and the
\* worker's two updates of the booking.
LEMMA BookingWrites ==
    ASSUME RowsExist, [Next]_vars
    PROVE  \/ UNCHANGED <<seatStatus, bookingSeats, bookingStatus>>
           \/ \E r \in Requests : Transaction(r)
           \/ \E c \in Cancels : CancelTransaction(c)
           \/ \E w \in Workers : FailBooking(w) \/ Confirm(w)
<1> USE DEF storeVars, seatVars
<1>1. CASE ApiNext
    BY <1>1, ApiRows
<1>2. CASE CancelNext
    BY <1>2 DEF CancelNext, FindBooking, RefuseCancel, CancelStep, CancelRelease, CancelStops,
                DelLocks
<1>3. CASE WorkerNext
    <2>1. PICK w \in Workers :
              \/ Trigger(w)
              \/ WorkerStep(w)
              \/ WorkerCallFails(w)
              \/ WorkerStops(w)
        BY <1>3 DEF WorkerNext
    <2>2. CASE Trigger(w) \/ WorkerCallFails(w) \/ WorkerStops(w)
        BY <2>2 DEF Trigger, Sweep, ReceiveMessage, PopMessage, WorkerCallFails, SetJobStatus,
                    WorkerStops
    <2>3. CASE WorkerStep(w)
        BY <2>3
        DEF WorkerStep, NextJob, ProcessMessage, LoadJob, FailJob, BeginJob, Notify,
            ReleaseSeatLocks, JobDone, RetryLater, SetJobStatus, StartAttempt,
            RecordConfirmation, DelLocks
    <2>. QED
        BY <2>1, <2>2, <2>3
<1>4. CASE Tick \/ RedisRestart
    BY <1>4 DEF Tick, StoreTick, RedisRestart
<1>5. CASE CommandResent
    BY <1>5, ResentDeletesOrPushes DEF DelLocks, PushMessage
<1>6. CASE UNCHANGED vars
    BY <1>6 DEF vars
<1>. QED
    BY <1>1, <1>2, <1>3, <1>4, <1>5, <1>6 DEF Next

\* A BOOKED seat is always in a booking that can be cancelled, whatever fails
\* and whichever handlers race (BookedSeatHasBooking).
THEOREM NoSeatStranded == Spec => []BookedSeatHasBooking
<1>1. Init => BookedSeatHasBooking
    BY DEF Init, StoreInit, BookedSeatHasBooking
<1>2. RowsExist /\ BookedSeatHasBooking /\ [Next]_vars => BookedSeatHasBooking'
    <2> SUFFICES ASSUME RowsExist, BookedSeatHasBooking, [Next]_vars
                 PROVE  BookedSeatHasBooking'
        OBVIOUS
    <2> USE DEF RowsExist, TypeOK, StoreTypeOK, BookedSeatHasBooking
    <2>1. CASE UNCHANGED <<seatStatus, bookingSeats, bookingStatus>>
        BY <2>1
    <2>2. ASSUME NEW r \in Requests, Transaction(r)
          PROVE  BookedSeatHasBooking'
        <3>1. bookingStatus[r] = "NONE"
            BY <2>2 DEF Transaction, RequestRows, BeforeBooking, Exists
        <3>. QED
            BY <2>2, <3>1 DEF Transaction, CreateBooking
    <2>3. ASSUME NEW c \in Cancels, CancelTransaction(c)
          PROVE  BookedSeatHasBooking'
        BY <2>3 DEF CancelTransaction, CancelBooking, CancelTypeOK
    <2>4. ASSUME NEW w \in Workers, FailBooking(w) \/ Confirm(w)
          PROVE  BookedSeatHasBooking'
        BY <2>4 DEF FailBooking, Confirm, SetBookingStatus, seatVars
    <2>. QED
        BY <2>1, <2>2, <2>3, <2>4, BookingWrites
<1>. QED
    BY <1>1, <1>2, RowsExistAlways, PTL DEF Spec

----------------------------------------------------------------------------
(* A booking given up had its attempts, and a job that is done did its     *)
(* work.                                                                   *)

\* A request's locks are on seats it asks for, those of a booking on seats of
\* the booking.
LocksOnOwnSeats ==
    \A s \in Seats, r \in Requests : seatLock[s] = r =>
        /\ reqPc[r] \notin {"idle", "findSeats"}
        /\ reqPc[r] \in {"acquire", "rollback", "transaction"} => s \in reqSeats[r]
        /\ Exists(r) => s \in bookingSeats[r]

\* What a worker has behind it when it comes to a call of processJob.
Progress(w) ==
    /\ workerPc[w] \in {"failJob", "failBooking"} => attempts[current[w]] >= MaxJobAttempts
    /\ workerPc[w] \in {"notify", "release", "done"} => bookingStatus[current[w]] # "PENDING"
    /\ workerPc[w] \in {"release", "done"} => notified[current[w]] > 0
    /\ workerPc[w] = "done" => \A s \in Seats : seatLock[s] # current[w]

WorkerProgress == \A w \in Workers : Progress(w)

JobInv ==
    /\ RowsExist
    /\ LocksOnOwnSeats
    /\ WorkerProgress
    /\ FailedMeansExhausted
    /\ DoneIsComplete

\* Nobody takes a lock in the name of a booking.
NoLockAfterBooking ==
    \A s \in Seats, r \in Requests :
        seatLock'[s] = r /\ Exists(r)' => seatLock[s] = r \/ ~Exists(r)

LEMMA ApiLocks ==
    ASSUME JobInv, ApiNext
    PROVE  LocksOnOwnSeats' /\ NoLockAfterBooking
<1> USE NoneAssumption
    DEF JobInv, RowsExist, TypeOK, StoreTypeOK, ApiTypeOK, LocksOnOwnSeats, NoLockAfterBooking,
        Exists, storeVars, seatVars, jobVars, lockVars
<1>1. PICK r \in Requests :
          \/ \E S \in SUBSET Seats : Receive(r, S)
          \/ RequestStep(r)
          \/ RequestFault(r)
    BY DEF ApiNext
<1>2. reqPc[r] \in BeforeBooking => ~Exists(r)
    BY DEF RequestRows
<1>3. CASE \E S \in SUBSET Seats : Receive(r, S)
    BY <1>3 DEF Receive
<1>4. ASSUME NEW pc \in {"rejected", "error", "booked"}, Finish(r, pc),
             UNCHANGED <<bookingStatus, bookingSeats>>,
             reqPc[r] \notin {"idle", "findSeats"} \/ UNCHANGED seatLock,
             \A s \in Seats : seatLock'[s] = seatLock[s] \/ seatLock'[s] = None
      PROVE  LocksOnOwnSeats' /\ NoLockAfterBooking
    BY <1>4 DEF Finish
<1>5. CASE SeatsAvailable(r)
    BY <1>5 DEF SeatsAvailable, Continue
<1>6. CASE SeatsTaken(r) \/ Rollback(r) \/ Release(r) \/ Push(r) \/ RequestStops(r)
    BY <1>4, <1>6 DEF SeatsTaken, Rollback, Release, Push, RequestStops, DelLocks, PushMessage
<1>7. CASE \E s \in Seats : LockConflict(r, s)
    <2>1. CASE Finish(r, "rejected")
        BY <1>4, <1>7, <2>1 DEF LockConflict
    <2>2. CASE Continue(r, "rollback")
        BY <1>7, <2>2 DEF LockConflict, Continue
    <2>. QED
        BY <1>7, <2>1, <2>2 DEF LockConflict
<1>8. ASSUME NEW s \in Seats, SetNx(s, r), s \in reqSeats[r], reqPc[r] = "acquire"
      PROVE  /\ NoLockAfterBooking
             /\ (\E pc \in {"error", "rejected"} : Finish(r, pc)) => LocksOnOwnSeats'
             /\ Continue(r, "rollback") => LocksOnOwnSeats'
             /\ LockTaken(r, s) => LocksOnOwnSeats'
    <2>1. ~Exists(r) /\ ~Exists(r)'
        BY <1>2, <1>8 DEF SetNx, BeforeBooking
    <2>2. NoLockAfterBooking
        BY <1>8, <2>1 DEF SetNx
    <2>3. ASSUME NEW pc \in {"error", "rejected"}, Finish(r, pc)
          PROVE  LocksOnOwnSeats'
        BY <1>8, <2>1, <2>3 DEF SetNx, Finish
    <2>4. ASSUME LockTaken(r, s)
          PROVE  LocksOnOwnSeats'
        BY <1>8, <2>1, <2>4 DEF SetNx, LockTaken
    <2>5. ASSUME Continue(r, "rollback")
          PROVE  LocksOnOwnSeats'
        BY <1>8, <2>1, <2>5 DEF SetNx, Continue
    <2>. QED
        BY <2>2, <2>3, <2>4, <2>5
<1>9. CASE \E s \in Seats : AcquireLock(r, s) \/ LockReplyLost(r, s) \/ LockResent(r, s)
    BY <1>8, <1>9 DEF AcquireLock, LockReplyLost, LockResent
<1>10. CASE Transaction(r)
    BY <1>2, <1>10 DEF Transaction, CreateBooking, Continue, BeforeBooking
<1>11. CASE FailsAfterCommit(r) \/ TransactionFails(r)
    BY <1>11 DEF FailsAfterCommit, TransactionFails, PushMessage, Continue
<1>. QED
    BY <1>1, <1>3, <1>5, <1>6, <1>7, <1>9, <1>10, <1>11 DEF RequestStep, RequestFault

\* A step of another component: locks are at most deleted, bookings neither
\* created nor given other seats.
LEMMA OtherLocks ==
    ASSUME JobInv, [Next]_vars, ~ApiNext
    PROVE  /\ LocksOnOwnSeats' /\ NoLockAfterBooking
           /\ \A s \in Seats : seatLock'[s] = seatLock[s] \/ seatLock'[s] = None
<1> USE DEF JobInv, RowsExist, TypeOK, storeVars, seatVars, jobVars, lockVars
<1>1. /\ \A s \in Seats : seatLock'[s] = seatLock[s] \/ seatLock'[s] = None
      /\ UNCHANGED <<reqPc, reqSeats, bookingSeats>>
      /\ \A b \in Requests : Exists(b)' <=> Exists(b)
    <2> USE DEF StoreTypeOK
    <2>1. CASE CancelNext /\ UNCHANGED <<apiVars, workerVars>>
        <3>1. \A b \in Requests : Exists(b)' <=> Exists(b)
            BY <2>1 DEF CancelNext, FindBooking, RefuseCancel, CancelStep, CancelRelease,
                CancelTransaction, CancelBooking, CancelStops, DelLocks, CancelRows, CancelTypeOK,
                Exists
        <3>. QED
            BY <2>1, <3>1 DEF CancelNext, FindBooking, RefuseCancel, CancelStep, CancelRelease,
                CancelTransaction, CancelBooking, CancelStops, DelLocks, apiVars
    <2>2. CASE WorkerNext /\ UNCHANGED <<apiVars, cancelVars>>
        <3>1. \A b \in Requests : Exists(b)' <=> Exists(b)
            BY <2>2, WorkerNextRows
        <3>2. PICK w \in Workers :
                  \/ Trigger(w)
                  \/ WorkerStep(w)
                  \/ WorkerCallFails(w)
                  \/ WorkerStops(w)
            BY <2>2 DEF WorkerNext
        <3>3. CASE Trigger(w) \/ WorkerCallFails(w) \/ WorkerStops(w)
            BY <2>2, <3>1, <3>3
            DEF Trigger, Sweep, ReceiveMessage, PopMessage, WorkerCallFails, SetJobStatus,
                WorkerStops, apiVars
        <3>4. CASE WorkerStep(w)
            BY <2>2, <3>1, <3>4
            DEF WorkerStep, NextJob, ProcessMessage, LoadJob, FailJob, FailBooking, BeginJob,
                Confirm, Notify, ReleaseSeatLocks, JobDone, RetryLater, SetJobStatus,
                SetBookingStatus, StartAttempt, RecordConfirmation, DelLocks, apiVars
        <3>. QED
            BY <3>2, <3>3, <3>4
    <2>3. CASE Tick \/ (RedisRestart /\ UNCHANGED <<apiVars, cancelVars, workerVars>>)
        BY <2>3 DEF Tick, StoreTick, RedisRestart, apiVars, Exists
    <2>4. CASE CommandResent
        BY <2>4, ResentDeletesOrPushes
        DEF CommandResent, DelLocks, PushMessage, lockVars, apiVars, Exists
    <2>5. CASE UNCHANGED vars
        BY <2>5 DEF vars, apiVars, Exists
    <2>. QED
        BY <2>1, <2>2, <2>3, <2>4, <2>5 DEF Next
<1>. QED
    BY <1>1, NoneAssumption DEF LocksOnOwnSeats, NoLockAfterBooking

\* A step that is not the worker's: it may create a pending booking, cancel
\* one, and take locks for requests without a booking.
LEMMA OtherJobs ==
    ASSUME JobInv, UNCHANGED <<workerPc, current, attempts, notified>>, NoLockAfterBooking,
           \A b \in Requests :
              IF Exists(b)
              THEN /\ jobStatus'[b] = jobStatus[b]
                   /\ bookingStatus'[b] \in {bookingStatus[b], "CANCELLED"}
              ELSE /\ jobStatus'[b] \in {"NONE", "PENDING"}
                   /\ bookingStatus'[b] = jobStatus'[b]
    PROVE  WorkerProgress' /\ FailedMeansExhausted' /\ DoneIsComplete'
<1> USE DEF JobInv, RowsExist, TypeOK, StoreTypeOK, Exists
<1>1. WorkerProgress'
    <2> SUFFICES ASSUME NEW w \in Workers, workerPc[w] \notin {"idle", "next", "findJob"}
                 PROVE  Progress(w)'
        BY DEF WorkerProgress, Progress
    <2>1. current[w] \in Requests /\ Exists(current[w])
        BY DEF WorkerTypeOK, WorkerRows
    <2>. QED
        BY <2>1 DEF WorkerProgress, Progress, NoLockAfterBooking
<1>2. FailedMeansExhausted'
    BY DEF FailedMeansExhausted
<1>3. DoneIsComplete'
    <2> SUFFICES ASSUME NEW b \in Requests, jobStatus'[b] = "DONE"
                 PROVE  /\ notified'[b] > 0
                        /\ bookingStatus'[b] # "PENDING"
                        /\ \A s \in Seats : seatLock'[s] # b
        BY DEF DoneIsComplete
    <2>1. Exists(b) /\ jobStatus[b] = "DONE" /\ bookingStatus'[b] \in {bookingStatus[b], "CANCELLED"}
        OBVIOUS
    <2>2. Exists(b)'
        BY <2>1
    <2>. QED
        BY <2>1, <2>2 DEF DoneIsComplete, NoLockAfterBooking
<1>. QED
    BY <1>1, <1>2, <1>3

\* What a step of the worker never undoes.
JobsGrow ==
    /\ \A b \in Requests :
          /\ attempts[b] \in Nat /\ attempts'[b] \in Nat /\ attempts'[b] >= attempts[b]
          /\ notified[b] \in Nat /\ notified'[b] \in Nat /\ notified'[b] >= notified[b]
          /\ bookingStatus'[b] = "PENDING" => bookingStatus[b] = "PENDING"
    /\ \A s \in Seats : seatLock'[s] = seatLock[s] \/ seatLock'[s] = None

LEMMA ProgressKept ==
    ASSUME JobsGrow, NEW w, Progress(w), workerPc'[w] = workerPc[w], current'[w] = current[w],
           workerPc[w] \notin {"idle", "next"} => current[w] \in Requests
    PROVE  Progress(w)'
<1>1. CASE workerPc[w] \in {"idle", "next"}
    BY <1>1 DEF Progress
<1>2. CASE current[w] \in Requests
    BY <1>2, NoneAssumption, MaxJobAttemptsAssumption DEF Progress, JobsGrow
<1>. QED
    BY <1>1, <1>2

LEMMA FailedKept ==
    ASSUME JobsGrow, FailedMeansExhausted,
           \A b \in Requests : bookingStatus'[b] = "FAILED" =>
               bookingStatus[b] = "FAILED" \/ attempts[b] >= MaxJobAttempts
    PROVE  FailedMeansExhausted'
BY MaxJobAttemptsAssumption DEF FailedMeansExhausted, JobsGrow

LEMMA DoneKept ==
    ASSUME JobsGrow, DoneIsComplete,
           \A b \in Requests : jobStatus'[b] = "DONE" =>
               \/ jobStatus[b] = "DONE"
               \/ /\ notified[b] > 0
                  /\ bookingStatus[b] # "PENDING"
                  /\ \A s \in Seats : seatLock[s] # b
    PROVE  DoneIsComplete'
BY NoneAssumption DEF DoneIsComplete, JobsGrow

\* A step of the worker.  Bookings neither appear nor become pending again, and
\* locks only disappear.
LEMMA WorkerJobs ==
    ASSUME JobInv, WorkerNext, TypeOK', UNCHANGED <<apiVars, cancelVars>>
    PROVE  WorkerProgress' /\ FailedMeansExhausted' /\ DoneIsComplete'
<1> USE DEF JobInv, RowsExist, TypeOK, StoreTypeOK, WorkerTypeOK
<1>1. PICK w \in Workers :
          \/ Trigger(w)
          \/ WorkerStep(w)
          \/ WorkerCallFails(w)
          \/ WorkerStops(w)
    BY DEF WorkerNext
<1>2. JobsGrow
    <2> USE DEF JobsGrow, storeVars, seatVars, jobVars, lockVars
    <2>1. CASE Trigger(w) \/ WorkerCallFails(w) \/ WorkerStops(w)
        BY <2>1 DEF Trigger, Sweep, ReceiveMessage, PopMessage, WorkerCallFails, SetJobStatus,
                    WorkerStops
    <2>2. CASE FailBooking(w) \/ Confirm(w)
        BY <2>2 DEF FailBooking, Confirm, SetBookingStatus
    <2>3. CASE BeginJob(w)
        BY <2>3 DEF BeginJob, StartAttempt
    <2>4. CASE Notify(w)
        BY <2>4 DEF Notify, RecordConfirmation
    <2>5. CASE ReleaseSeatLocks(w)
        BY <2>5 DEF ReleaseSeatLocks, DelLocks
    <2>6. CASE FailJob(w) \/ JobDone(w) \/ RetryLater(w)
        BY <2>6 DEF FailJob, JobDone, RetryLater, SetJobStatus
    <2>7. CASE ProcessMessage(w) \/ LoadJob(w) \/ (\E b \in Requests : NextJob(w, b))
        BY <2>7 DEF ProcessMessage, LoadJob, NextJob
    <2>. QED
        BY <1>1, <2>1, <2>2, <2>3, <2>4, <2>5, <2>6, <2>7 DEF WorkerStep
<1>3. \A v \in Workers \ {w} : workerPc'[v] = workerPc[v] /\ current'[v] = current[v]
    BY <1>1
    DEF Trigger, Sweep, ReceiveMessage, WorkerCallFails, WorkerStops, WorkerStep, NextJob,
        ProcessMessage, LoadJob, FailJob, FailBooking, BeginJob, Confirm, Notify,
        ReleaseSeatLocks, JobDone, RetryLater, WorkerGoto, JobReturns
<1>4. ASSUME NEW v \in Workers \ {w}
      PROVE  Progress(v)'
    <2>1. Progress(v)
        BY DEF WorkerProgress
    <2>2. workerPc[v] \notin {"idle", "next"} => current[v] \in Requests
        OBVIOUS
    <2>. QED
        BY <1>2, <1>3, <2>1, <2>2, ProgressKept
<1>5. Progress(w)'
    <2>1. ASSUME workerPc'[w] \in {"idle", "next", "findJob", "load", "begin", "confirm", "catch"}
          PROVE  Progress(w)'
        BY <2>1 DEF Progress
    <2>2. CASE Trigger(w) \/ WorkerStops(w) \/ WorkerCallFails(w)
        BY <2>1, <2>2
        DEF Trigger, Sweep, ReceiveMessage, WorkerStops, WorkerCallFails, WorkerGoto
    <2>3. CASE (\E b \in Requests : NextJob(w, b)) \/ ProcessMessage(w)
        BY <2>1, <2>3 DEF NextJob, ProcessMessage, JobReturns
    <2>4. CASE FailBooking(w) \/ BeginJob(w) \/ JobDone(w) \/ RetryLater(w)
        BY <2>1, <2>4 DEF FailBooking, BeginJob, JobDone, RetryLater, WorkerGoto, JobReturns
    <2>5. CASE LoadJob(w)
        BY <2>5 DEF LoadJob, WorkerGoto, JobReturns, Progress, storeVars
    <2>6. CASE FailJob(w)
        BY <2>6 DEF FailJob, SetJobStatus, WorkerGoto, WorkerProgress, Progress
    <2>7. CASE Confirm(w)
        BY <2>7 DEF Confirm, SetBookingStatus, WorkerGoto, Progress
    <2>8. CASE Notify(w)
        BY <2>8 DEF Notify, RecordConfirmation, WorkerGoto, WorkerProgress, Progress
    <2>9. CASE ReleaseSeatLocks(w)
        <3>1. current[w] \in Requests /\ Exists(current[w])
            BY <2>9 DEF ReleaseSeatLocks, WorkerRows
        <3>2. \A s \in Seats : seatLock'[s] # current[w]
            BY <2>9, <3>1, NoneAssumption DEF ReleaseSeatLocks, DelLocks, LocksOnOwnSeats
        <3>. QED
            BY <2>9, <3>2 DEF ReleaseSeatLocks, DelLocks, WorkerGoto, WorkerProgress, Progress
    <2>. QED
        BY <1>1, <2>2, <2>3, <2>4, <2>5, <2>6, <2>7, <2>8, <2>9 DEF WorkerStep
<1>6. WorkerProgress'
    BY <1>4, <1>5 DEF WorkerProgress
<1>7. FailedMeansExhausted'
    <2>1. CASE FailBooking(w)
        <3>1. attempts[current[w]] >= MaxJobAttempts
            BY <2>1 DEF FailBooking, WorkerProgress, Progress
        <3>. QED
            BY <1>2, <2>1, <3>1, FailedKept DEF FailBooking, SetBookingStatus
    <2>2. CASE Confirm(w)
        BY <1>2, <2>2, FailedKept DEF Confirm, SetBookingStatus
    <2>3. CASE UNCHANGED bookingStatus
        BY <1>2, <2>3, FailedKept
    <2>4. FailBooking(w) \/ Confirm(w) \/ UNCHANGED bookingStatus
        BY <1>1
        DEF Trigger, Sweep, ReceiveMessage, PopMessage, WorkerCallFails, WorkerStops, WorkerStep,
            NextJob, ProcessMessage, LoadJob, FailJob, BeginJob, Notify, ReleaseSeatLocks, JobDone,
            RetryLater, SetJobStatus, StartAttempt, RecordConfirmation, DelLocks, storeVars
    <2>. QED
        BY <2>1, <2>2, <2>3, <2>4
<1>8. DoneIsComplete'
    <2>1. CASE UNCHANGED jobStatus
        BY <1>2, <2>1, DoneKept
    <2>2. ASSUME NEW status \in JobStatus, SetJobStatus(current[w], status), workerPc[w] = "done"
          PROVE  DoneIsComplete'
        <3>1. /\ notified[current[w]] > 0
              /\ bookingStatus[current[w]] # "PENDING"
              /\ \A s \in Seats : seatLock[s] # current[w]
            BY <2>2 DEF WorkerProgress, Progress
        <3>. QED
            BY <1>2, <2>2, <3>1, DoneKept DEF SetJobStatus
    <2>3. ASSUME NEW status \in {"PENDING", "PROCESSING", "FAILED"},
                 jobStatus' = [jobStatus EXCEPT ![current[w]] = status]
          PROVE  DoneIsComplete'
        BY <1>2, <2>3, DoneKept
    <2>4. CASE JobDone(w) \/ WorkerCallFails(w)
        BY <2>1, <2>2, <2>4 DEF JobDone, WorkerCallFails, JobStatus, storeVars
    <2>5. CASE FailJob(w) \/ RetryLater(w) \/ BeginJob(w)
        BY <2>3, <2>5 DEF FailJob, RetryLater, BeginJob, SetJobStatus, StartAttempt
    <2>6. ASSUME ~(JobDone(w) \/ WorkerCallFails(w) \/ FailJob(w) \/ RetryLater(w) \/ BeginJob(w))
          PROVE  UNCHANGED jobStatus
        BY <1>1, <2>6
        DEF Trigger, Sweep, ReceiveMessage, PopMessage, WorkerStops, WorkerStep, NextJob,
            ProcessMessage, LoadJob, FailBooking, Confirm, Notify, ReleaseSeatLocks,
            SetBookingStatus, RecordConfirmation, DelLocks, storeVars, jobVars
    <2>. QED
        BY <2>1, <2>4, <2>5, <2>6
<1>. QED
    BY <1>6, <1>7, <1>8

\* A step that is not the worker's leaves the workers and their counters alone.
LEMMA OthersLeaveJobs ==
    ASSUME [Next]_vars, ~(WorkerNext /\ UNCHANGED <<apiVars, cancelVars>>)
    PROVE  UNCHANGED <<workerPc, batch, current, attempts, notified>>
BY DEF Next, ApiNext, Receive, RequestStep, SeatsAvailable, SeatsTaken, AcquireLock,
       LockConflict, Rollback, Transaction, Push, Release, RequestFault, RequestStops,
       LockReplyLost, LockResent, TransactionFails, FailsAfterCommit, CancelNext, FindBooking,
       RefuseCancel, CancelStep, CancelTransaction, CancelRelease, CancelStops, Tick,
       StoreTick, CommandResent, RedisRestart, SetNx, DelLocks, CreateBooking, PushMessage, CancelBooking,
       vars, storeVars, jobVars, workerVars

\* Nor does it change a job, or a booking that exists other than cancel it.
LEMMA OthersLeaveRows ==
    ASSUME RowsExist, TypeOK', [Next]_vars, ~(WorkerNext /\ UNCHANGED <<apiVars, cancelVars>>)
    PROVE  \A b \in Requests :
              IF Exists(b)
              THEN /\ jobStatus'[b] = jobStatus[b]
                   /\ bookingStatus'[b] \in {bookingStatus[b], "CANCELLED"}
              ELSE /\ jobStatus'[b] \in {"NONE", "PENDING"}
                   /\ bookingStatus'[b] = jobStatus'[b]
<1> USE DEF RowsExist, RequestRows, Exists
<1>1. CASE \E r \in Requests : Transaction(r)
    BY <1>1 DEF Transaction, CreateBooking, TypeOK, StoreTypeOK, BeforeBooking
<1>2. CASE \E c \in Cancels : CancelTransaction(c)
    BY <1>2 DEF CancelTransaction, CancelBooking, CancelRows, TypeOK, StoreTypeOK, jobVars
<1>3. CASE UNCHANGED <<bookingStatus, jobStatus>>
    BY <1>3
<1>4. ASSUME ~ \E r \in Requests : Transaction(r),
             ~ \E c \in Cancels : CancelTransaction(c)
      PROVE  UNCHANGED <<bookingStatus, jobStatus>>
    <2>1. CASE ApiNext
        BY <1>4, <2>1, ApiRows
    <2>2. CASE ~ApiNext
        BY <1>4, <2>2
        DEF Next, CancelNext, FindBooking, RefuseCancel, CancelStep, CancelRelease,
            CancelStops, Tick, StoreTick, CommandResent, RedisRestart, DelLocks, PushMessage,
            vars, storeVars, jobVars
    <2>. QED
        BY <2>1, <2>2
<1>. QED
    BY <1>1, <1>2, <1>3, <1>4

\* JobInv is inductive.
LEMMA JobInvStep ==
    ASSUME JobInv, [Next]_vars, RowsExist'
    PROVE  JobInv'
<1>1. TypeOK' /\ RowsExist
    BY DEF RowsExist, JobInv
<1>2. LocksOnOwnSeats' /\ NoLockAfterBooking
    BY ApiLocks, OtherLocks
<1>3. CASE WorkerNext /\ UNCHANGED <<apiVars, cancelVars>>
    BY <1>1, <1>2, <1>3, WorkerJobs DEF JobInv
<1>4. CASE ~(WorkerNext /\ UNCHANGED <<apiVars, cancelVars>>)
    <2>1. UNCHANGED <<workerPc, current, attempts, notified>>
        BY <1>4, OthersLeaveJobs
    <2>2. \A b \in Requests :
              IF Exists(b)
              THEN /\ jobStatus'[b] = jobStatus[b]
                   /\ bookingStatus'[b] \in {bookingStatus[b], "CANCELLED"}
              ELSE /\ jobStatus'[b] \in {"NONE", "PENDING"}
                   /\ bookingStatus'[b] = jobStatus'[b]
        BY <1>1, <1>4, OthersLeaveRows
    <2>. QED
        BY <1>2, <2>1, <2>2, OtherJobs DEF JobInv
<1>. QED
    BY <1>3, <1>4

LEMMA JobInvAlways == Spec => []JobInv
<1>1. Init /\ RowsExist => JobInv
    BY NoneAssumption
    DEF Init, StoreInit, ApiInit, WorkerInit, JobInv, LocksOnOwnSeats, WorkerProgress, Progress,
        FailedMeansExhausted, DoneIsComplete
<1>2. JobInv /\ [Next]_vars /\ RowsExist' => JobInv'
    BY JobInvStep
<1>. QED
    BY <1>1, <1>2, RowsExistAlways, PTL DEF Spec

\* A booking is FAILED only after MaxJobAttempts attempts, with any number of
\* overlapping sweeps (FailedMeansExhausted).
THEOREM FailedAfterAllAttempts == Spec => []FailedMeansExhausted
<1>1. JobInv => FailedMeansExhausted
    BY DEF JobInv
<1>. QED
    BY <1>1, JobInvAlways, PTL

\* A job that is DONE left a confirmation, a decided booking and no lock, with
\* any number of overlapping sweeps and any failures (DoneIsComplete).
THEOREM DoneJobsAreComplete == Spec => []DoneIsComplete
<1>1. JobInv => DoneIsComplete
    BY DEF JobInv
<1>. QED
    BY <1>1, JobInvAlways, PTL
============================================================================
