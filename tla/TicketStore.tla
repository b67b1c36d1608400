---------------------------- MODULE TicketStore ----------------------------
(***************************************************************************)
(* What the services of TicketOps share: the Postgres tables that hold     *)
(* seats, bookings and booking jobs, the Redis keys that hold seat locks,  *)
(* and the Redis list of booking messages.  One event is modelled.         *)
(*                                                                         *)
(* Every operator below is one call of a service to a store: it takes      *)
(* effect at one instant and leaves the rest of the store alone.  A Prisma *)
(* $transaction is one call.  The services are the modules that extend     *)
(* this one; they take other steps between two calls of a handler.         *)
(***************************************************************************)
EXTENDS Integers, Sequences, FiniteSets

CONSTANTS
    Seats,           \* the seats of the event
    Requests,        \* booking requests; the booking a request creates has its name
    None,            \* no request
    LockTtl,         \* ticks a seat lock lives (SEAT_LOCK_TTL_SECONDS)
    StuckThreshold,  \* ticks before a job counts as stuck (STUCK_JOB_THRESHOLD_MS)
    FaultKinds,      \* the failures that may happen
    MaxFaults        \* bound on the number of failures in a behaviour

ASSUME NoneAssumption == None \notin Requests
ASSUME LockTtlAssumption == LockTtl \in Nat \ {0}
ASSUME StuckThresholdAssumption == StuckThreshold \in Nat
ASSUME MaxFaultsAssumption == MaxFaults \in Nat

VARIABLES
    seatStatus,     \* Seat.status
    bookingStatus,  \* Booking.status, "NONE" when there is no such row
    bookingSeats,   \* the seats of the booking's BookingSeat rows
    jobStatus,      \* BookingJob.status, "NONE" when there is no such row
    jobAge,         \* ticks since BookingJob.createdAt, up to OldJob
    attempts,       \* BookingJob.attempts
    notified,       \* confirmation Notification rows of the booking
    seatLock,       \* the request whose token the seat's lock key holds, or None
    lockTtl,        \* ticks until the lock key expires; 0: no key, or no expiry
    queue,          \* bookings:queue, oldest message first
    faultsLeft      \* failures that may still happen

seatVars == <<seatStatus, bookingSeats>>
jobVars == <<jobStatus, jobAge, attempts>>
lockVars == <<seatLock, lockTtl>>
storeVars == <<seatStatus, bookingStatus, bookingSeats, jobStatus, jobAge,
               attempts, notified, seatLock, lockTtl, queue>>

SeatStatus == {"AVAILABLE", "BOOKED"}
BookingStatus == {"NONE", "PENDING", "CONFIRMED", "CANCELLED", "FAILED"}
JobStatus == {"NONE", "PENDING", "PROCESSING", "DONE", "FAILED"}

\* A job older than the threshold is stuck; how much older makes no difference.
OldJob == StuckThreshold + 1

\* BookingJob rows have an id of their own, which is not the booking's id.
JobId(b) == <<"job", b>>
ASSUME JobIdAssumption == \A b, c \in Requests : JobId(b) # c

\* The jobId field of the message events-api pushes for booking b.
MessageJobId(b) == b

\* bookingJob.findUnique({id}): the bookings whose job row has that id.
FindJob(id) == {b \in Requests : jobStatus[b] # "NONE" /\ JobId(b) = id}

\* As StuckJobs without the cutoff on createdAt.
OpenJobs == {b \in Requests : jobStatus[b] \in {"PENDING", "PROCESSING"}}

\* As StuckJobs without the jobs a dead worker left in PROCESSING.
StuckPendingJobs == {b \in Requests : jobStatus[b] = "PENDING" /\ jobAge[b] > StuckThreshold}

\* The open jobs the reconciliation query returns.
StuckJobs == {b \in Requests : /\ jobStatus[b] \in {"PENDING", "PROCESSING"}
                               /\ jobAge[b] > StuckThreshold}

StoreTypeOK ==
    /\ seatStatus \in [Seats -> SeatStatus]
    /\ bookingStatus \in [Requests -> BookingStatus]
    /\ bookingSeats \in [Requests -> SUBSET Seats]
    /\ jobStatus \in [Requests -> JobStatus]
    /\ jobAge \in [Requests -> 0 .. OldJob]
    /\ attempts \in [Requests -> Nat]
    /\ notified \in [Requests -> Nat]
    /\ seatLock \in [Seats -> Requests \cup {None}]
    /\ lockTtl \in [Seats -> 0 .. LockTtl]
    /\ queue \in Seq(Requests)

FaultsTypeOK == faultsLeft \in 0 .. MaxFaults

StoreInit ==
    /\ seatStatus = [s \in Seats |-> "AVAILABLE"]
    /\ bookingStatus = [b \in Requests |-> "NONE"]
    /\ bookingSeats = [b \in Requests |-> {}]
    /\ jobStatus = [b \in Requests |-> "NONE"]
    /\ jobAge = [b \in Requests |-> 0]
    /\ attempts = [b \in Requests |-> 0]
    /\ notified = [b \in Requests |-> 0]
    /\ seatLock = [s \in Seats |-> None]
    /\ lockTtl = [s \in Seats |-> 0]
    /\ queue = <<>>
    /\ faultsLeft = MaxFaults

\* A failure of one kind happens now.
Fault(kind) ==
    /\ kind \in FaultKinds
    /\ faultsLeft > 0
    /\ faultsLeft' = faultsLeft - 1

----------------------------------------------------------------------------
(* Redis: the seat locks and the list.                                     *)

\* As SetNx without the EX option: the key never expires.
SetNxWithoutExpiry(s, token) ==
    /\ seatLock[s] = None
    /\ seatLock' = [seatLock EXCEPT ![s] = token]
    /\ UNCHANGED <<seatVars, jobVars, bookingStatus, notified, queue, lockTtl>>

\* As SetNx with an expiry of one tick.
SetNxBriefly(s, token) ==
    /\ seatLock[s] = None
    /\ seatLock' = [seatLock EXCEPT ![s] = token]
    /\ lockTtl' = [lockTtl EXCEPT ![s] = 1]
    /\ UNCHANGED <<seatVars, jobVars, bookingStatus, notified, queue>>

\* As SetNx without the NX option: a held key is overwritten.
SetWithoutNx(s, token) ==
    /\ seatLock' = [seatLock EXCEPT ![s] = token]
    /\ lockTtl' = [lockTtl EXCEPT ![s] = LockTtl]
    /\ UNCHANGED <<seatVars, jobVars, bookingStatus, notified, queue>>

\* SET key token EX ttl NX, when it answers OK.
SetNx(s, token) ==
    /\ seatLock[s] = None
    /\ seatLock' = [seatLock EXCEPT ![s] = token]
    /\ lockTtl' = [lockTtl EXCEPT ![s] = LockTtl]
    /\ UNCHANGED <<seatVars, jobVars, bookingStatus, notified, queue>>

\* DEL of the lock keys of seats S, whoever holds them.
DelLocks(S) ==
    /\ seatLock' = [s \in Seats |-> IF s \in S THEN None ELSE seatLock[s]]
    /\ lockTtl' = [s \in Seats |-> IF s \in S THEN 0 ELSE lockTtl[s]]
    /\ UNCHANGED <<seatVars, jobVars, bookingStatus, notified, queue>>

\* LPUSH of the message for booking b.
PushMessage(b) ==
    /\ queue' = Append(queue, MessageJobId(b))
    /\ UNCHANGED <<seatVars, jobVars, lockVars, bookingStatus, notified>>

\* BRPOP, when it returns a message.
PopMessage ==
    /\ queue # <<>>
    /\ queue' = Tail(queue)
    /\ UNCHANGED <<seatVars, jobVars, lockVars, bookingStatus, notified>>

----------------------------------------------------------------------------
(* Postgres: bookings, seats and jobs.                                     *)

\* The transaction of createBooking.  The seats are set to BOOKED whatever
\* their status is.
CreateBooking(b, S) ==
    /\ bookingStatus' = [bookingStatus EXCEPT ![b] = "PENDING"]
    /\ bookingSeats' = [bookingSeats EXCEPT ![b] = S]
    /\ seatStatus' = [s \in Seats |-> IF s \in S THEN "BOOKED" ELSE seatStatus[s]]
    /\ jobStatus' = [jobStatus EXCEPT ![b] = "PENDING"]
    /\ UNCHANGED <<lockVars, jobAge, attempts, notified, queue>>

\* As CancelBooking with the updateMany on the seats left out.
CancelBookingOnly(b) ==
    /\ bookingStatus' = [bookingStatus EXCEPT ![b] = "CANCELLED"]
    /\ UNCHANGED <<seatVars, jobVars, lockVars, notified, queue>>

\* The transaction of both cancel handlers.  Neither the booking's nor the
\* seats' status is looked at again.
CancelBooking(b) ==
    /\ bookingStatus' = [bookingStatus EXCEPT ![b] = "CANCELLED"]
    /\ seatStatus' = [s \in Seats |-> IF s \in bookingSeats[b] THEN "AVAILABLE"
                                                              ELSE seatStatus[s]]
    /\ UNCHANGED <<bookingSeats, jobVars, lockVars, notified, queue>>

\* booking.update({data: {status}}).
SetBookingStatus(b, status) ==
    /\ bookingStatus' = [bookingStatus EXCEPT ![b] = status]
    /\ UNCHANGED <<seatVars, jobVars, lockVars, notified, queue>>

\* bookingJob.update({data: {status}}).
SetJobStatus(b, status) ==
    /\ jobStatus' = [jobStatus EXCEPT ![b] = status]
    /\ UNCHANGED <<seatVars, lockVars, bookingStatus, jobAge, attempts, notified, queue>>

\* bookingJob.update({data: {status: 'PROCESSING', attempts: {increment: 1}}}).
StartAttempt(b) ==
    /\ jobStatus' = [jobStatus EXCEPT ![b] = "PROCESSING"]
    /\ attempts' = [attempts EXCEPT ![b] = @ + 1]
    /\ UNCHANGED <<seatVars, lockVars, bookingStatus, jobAge, notified, queue>>

\* notification.create of a booking confirmation.
RecordConfirmation(b) ==
    /\ notified' = [notified EXCEPT ![b] = @ + 1]
    /\ UNCHANGED <<seatVars, jobVars, lockVars, bookingStatus, queue>>

----------------------------------------------------------------------------
(* Time and restarts.                                                      *)

\* As StoreTick, counting on below zero for keys that do not exist.
TickPastZero ==
    /\ seatLock' = [s \in Seats |-> IF lockTtl[s] = 1 THEN None ELSE seatLock[s]]
    /\ lockTtl' = [s \in Seats |-> IF lockTtl[s] > -1 THEN lockTtl[s] - 1 ELSE -1]
    /\ UNCHANGED <<seatVars, jobVars, bookingStatus, notified, queue>>

\* One tick passes: locks run out and jobs grow older.
StoreTick ==
    /\ seatLock' = [s \in Seats |-> IF lockTtl[s] = 1 THEN None ELSE seatLock[s]]
    /\ lockTtl' = [s \in Seats |-> IF lockTtl[s] > 0 THEN lockTtl[s] - 1 ELSE 0]
    /\ jobAge' = [b \in Requests |->
                    IF jobStatus[b] # "NONE" /\ jobAge[b] < OldJob
                    THEN jobAge[b] + 1 ELSE jobAge[b]]
    /\ UNCHANGED <<seatVars, bookingStatus, jobStatus, attempts, notified, queue>>

\* Redis restarts and comes back with neither the locks nor the list.
RedisRestart ==
    /\ Fault("redisRestart")
    /\ seatLock' = [s \in Seats |-> None]
    /\ lockTtl' = [s \in Seats |-> 0]
    /\ queue' = <<>>
    /\ UNCHANGED <<seatVars, jobVars, bookingStatus, notified>>
============================================================================
