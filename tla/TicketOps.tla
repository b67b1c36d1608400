------------------------------ MODULE TicketOps ------------------------------
(***************************************************************************)
(* The booking path of TicketOps: events-api and admin-api (BookingApi,    *)
(* BookingCancel) and bookings-worker (BookingsWorker) over the Postgres   *)
(* and Redis state of TicketStore, with time, failures and restarts.       *)
(***************************************************************************)
EXTENDS BookingApi, BookingCancel, BookingsWorker

vars == <<storeVars, faultsLeft, apiVars, cancelVars, workerVars>>

Init ==
    /\ StoreInit
    /\ ApiInit
    /\ CancelInit
    /\ WorkerInit

\* One tick of time.  A request that has been in flight for RequestTime ticks
\* ends before the next one.
Tick ==
    /\ \A r \in Requests : InFlight(r) => reqAge[r] < RequestTime
    /\ StoreTick
    /\ reqAge' = [r \in Requests |-> IF InFlight(r) THEN reqAge[r] + 1 ELSE reqAge[r]]
    /\ UNCHANGED <<reqPc, reqSeats, held, faultsLeft, cancelVars, workerVars>>

\* The connection to Redis drops before the reply of a DEL or an LPUSH that took
\* effect.  ioredis sends the command again (LockResent says what that means for
\* a SET): whoever sent it still waits, and a key it deletes the second time may
\* have become another's.
CommandResent ==
    /\ Fault("commandResent")
    /\ \/ \E r \in Requests : \/ reqPc[r] = "rollback" /\ DelLocks(held[r])
                              \/ reqPc[r] = "release" /\ DelLocks(reqSeats[r])
                              \/ reqPc[r] = "push" /\ PushMessage(r)
       \/ \E c \in Cancels : cancelPc[c] = "release" /\ DelLocks(bookingSeats[cancelTarget[c]])
       \/ \E w \in Workers : workerPc[w] = "release" /\ DelLocks(bookingSeats[current[w]])
    /\ UNCHANGED <<apiVars, cancelVars, workerVars>>

Next ==
    \/ ApiNext /\ UNCHANGED <<cancelVars, workerVars>>
    \/ CancelNext /\ UNCHANGED <<apiVars, workerVars>>
    \/ WorkerNext /\ UNCHANGED <<apiVars, cancelVars>>
    \/ Tick
    \/ CommandResent
    \/ RedisRestart /\ UNCHANGED <<apiVars, cancelVars, workerVars>>

Spec == Init /\ [][Next]_vars

\* A handler that has begun goes on, the sweep and the consumer come back for
\* what there is to do, and time passes.  Nothing makes a client call, a
\* failure happen or Redis restart.
Fairness ==
    /\ \A r \in Requests :
          WF_vars(RequestStep(r) /\ UNCHANGED <<cancelVars, workerVars>>)
    /\ \A c \in Cancels :
          WF_vars(CancelStep(c) /\ UNCHANGED <<apiVars, workerVars>>)
    /\ \A w \in Workers :
          WF_vars((Trigger(w) \/ WorkerStep(w)) /\ UNCHANGED <<apiVars, cancelVars>>)
    /\ WF_vars(Tick)

FairSpec == Spec /\ Fairness

----------------------------------------------------------------------------
(* Invariants.                                                             *)

\* Every variable has its type, and no counter leaves its range.
TypeOK == StoreTypeOK /\ FaultsTypeOK /\ ApiTypeOK /\ CancelTypeOK /\ WorkerTypeOK

Active(b) == bookingStatus[b] \in {"PENDING", "CONFIRMED"}

\* No seat is in two bookings that are pending or confirmed: the availability
\* check, the locks and the transaction of createBooking together admit one
\* booking per seat (bookings.service.ts:59-128).
NoDoubleBooking ==
    \A a, b \in Requests :
        a # b /\ Active(a) /\ Active(b) => bookingSeats[a] \cap bookingSeats[b] = {}

\* A request about to write its booking holds the lock of every seat of it,
\* however long it waited and whoever deleted locks in the meantime: nothing
\* renews or looks at them after acquireLocks (seat-lock.service.ts:39-60).
TransactionHoldsItsLocks ==
    \A r \in Requests :
        reqPc[r] = "transaction" => \A s \in reqSeats[r] : seatLock[s] = r

\* No seat is stranded: a BOOKED seat is in a booking that exists and that can
\* still be cancelled, which is the one way to free the seat ("a crash here can
\* never permanently strand a seat", bookings.service.ts:93-96).
BookedSeatHasBooking ==
    \A s \in Seats : seatStatus[s] = "BOOKED" =>
        \E b \in Requests : /\ s \in bookingSeats[b]
                            /\ bookingStatus[b] \notin {"NONE", "CANCELLED"}

\* A request turned away with a conflict leaves no lock of its own behind
\* ("roll back everything we grabbed in this call", seat-lock.service.ts:52-54).
RejectedLeavesNoLock ==
    \A r \in Requests :
        reqPc[r] = "rejected" => \A s \in Seats : seatLock[s] # r

\* A job that is DONE did all of its work, whichever workers shared it and
\* whatever failed on the way: the customer has a confirmation, the booking is
\* no longer pending, and no lock of the booking is left
\* (bookings-processor.service.ts:100-153).
DoneIsComplete ==
    \A b \in Requests : jobStatus[b] = "DONE" =>
        /\ notified[b] > 0
        /\ bookingStatus[b] # "PENDING"
        /\ \A s \in Seats : seatLock[s] # b

\* A booking is given up as FAILED only after all the attempts it is allowed,
\* although workers share the counter (bookings-processor.service.ts:77-95).
FailedMeansExhausted ==
    \A b \in Requests : bookingStatus[b] = "FAILED" => attempts[b] >= MaxJobAttempts

\* Sweeps that overlap on one job may exceed the limit of attempts, the first
\* excepted by at most one each: the limit is checked on a read made before the
\* increment (bookings-processor.service.ts:77-95).  The consumer never reaches
\* a job.
AttemptsBounded ==
    \A b \in Requests : attempts[b] < MaxJobAttempts + Cardinality(Sweeps)

\* A booking is confirmed to its customer at most once for each attempt at its
\* job, however workers overlap and wherever an attempt fails: what bounds the
\* confirmations is the limit of attempts (bookings-processor.service.ts:92-117).
ConfirmationsBounded == \A b \in Requests : notified[b] <= attempts[b]

\* The job of b is open, so that the sweep finds it, or a worker is about to
\* give b up.
InHand(b) ==
    \/ jobStatus[b] \in {"PENDING", "PROCESSING"}
    \/ \E w \in Workers : workerPc[w] = "failBooking" /\ current[w] = b

\* No step loses a pending booking, by closing its job and leaving it pending
\* for ever (reconciliation-sweep.service.ts:35-41), but a failure between
\* giving up the job and giving up the booking
\* (bookings-processor.service.ts:81-88), which nothing repairs.
PendingHasOpenJob ==
    [][\A b \in Requests :
         \/ (bookingStatus[b] = "PENDING" => InHand(b))
                => (bookingStatus'[b] = "PENDING" => InHand(b)')
         \/ /\ faultsLeft' < faultsLeft
            /\ \E w \in Workers : workerPc[w] = "failBooking" /\ current[w] = b]_vars

\* Every message in the queue leads the consumer to a job: it is pushed "for the
\* worker to pick up immediately" (bookings.service.ts:130).
QueuedJobIsFound ==
    \A i \in 1 .. Len(queue) : FindJob(queue[i]) # {}

----------------------------------------------------------------------------
(* Action properties.                                                      *)

\* A lock is not taken from a request that is still in flight by anything but
\* a step of that request: not by another's clean-up (releaseLocks and release
\* look at no holder) and not by its expiry (seat-lock.service.ts:45-46,62-66).
LockKeptInFlight ==
    [][\A r \in Requests, s \in Seats :
          /\ seatLock[s] = r
          /\ reqPc[r] \in {"acquire", "transaction"}
          /\ reqPc'[r] = reqPc[r]
          => seatLock'[s] = r]_vars

\* As long as no booking is cancelled, the booking path implements SeatSales: a
\* seat is sold to the booking it is in.
SeatOwner(s) ==
    IF \E b \in Requests : s \in bookingSeats[b]
    THEN CHOOSE b \in Requests : s \in bookingSeats[b]
    ELSE None

Sales == INSTANCE SeatSales
            WITH Customers <- Requests, Nobody <- None,
                 soldTo <- [s \in Seats |-> SeatOwner(s)], sale <- bookingStatus
ImplementsSeatSales == Sales!SalesSpec

\* A cancelled booking stays cancelled, also when its job is processed after it
\* (bookings-processor.service.ts:105-108).
CancelledStaysCancelled ==
    [][\A b \in Requests :
          bookingStatus[b] = "CANCELLED" => bookingStatus'[b] = "CANCELLED"]_vars

----------------------------------------------------------------------------
(* Liveness.                                                               *)

\* Every lock is freed, also one whose request died with it: the keys expire
\* (seat-lock.service.ts:42-48).
LockEventuallyFreed ==
    \A r \in Requests, s \in Seats : (seatLock[s] = r) ~> (seatLock[s] # r)

\* Every job is settled in the end, also one whose message was lost or whose
\* worker died in the middle of it (reconciliation-sweep.service.ts:8-17).
JobEventuallySettled ==
    \A b \in Requests :
        (jobStatus[b] \in {"PENDING", "PROCESSING"}) ~> (jobStatus[b] \in {"DONE", "FAILED"})

\* Every request gets its answer: requests that want each other's seats in
\* opposite orders do not wait for each other (seat-lock.service.ts:51-56).
RequestEventuallyAnswered ==
    \A r \in Requests : InFlight(r) ~> ~InFlight(r)
============================================================================
