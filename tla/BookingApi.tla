----------------------------- MODULE BookingApi -----------------------------
(***************************************************************************)
(* events-api, POST /bookings: BookingsService.createBooking and the locks *)
(* it takes through SeatLockService.  A handler runs from one awaited call *)
(* to the next; between two calls anything may happen elsewhere.           *)
(*                                                                         *)
(*    idle -> findSeats -> acquire -> transaction -> push -> booked        *)
(*                 |          |            |           |                   *)
(*             rejected   rollback         +--release--+                   *)
(*                            |                 |                          *)
(*                        rejected            error                        *)
(***************************************************************************)
EXTENDS TicketStore

CONSTANT RequestTime  \* ticks a request may stay in flight
ASSUME RequestTimeAssumption == RequestTime \in Nat

VARIABLES
    reqPc,     \* where each request is
    reqSeats,  \* the seats it asks for: uniqueSeatCodes
    held,      \* the locks acquireLocks took so far: acquired
    reqAge     \* ticks since it started

apiVars == <<reqPc, reqSeats, held, reqAge>>

InFlightPc == {"findSeats", "acquire", "rollback", "transaction", "push", "release"}
RequestPc == InFlightPc \cup {"idle", "booked", "rejected", "error"}
InFlight(r) == reqPc[r] \in InFlightPc

ApiTypeOK ==
    /\ reqPc \in [Requests -> RequestPc]
    /\ reqSeats \in [Requests -> SUBSET Seats]
    /\ held \in [Requests -> SUBSET Seats]
    /\ reqAge \in [Requests -> 0 .. RequestTime]

ApiInit ==
    /\ reqPc = [r \in Requests |-> "idle"]
    /\ reqSeats = [r \in Requests |-> {}]
    /\ held = [r \in Requests |-> {}]
    /\ reqAge = [r \in Requests |-> 0]

Continue(r, pc) ==
    /\ reqPc' = [reqPc EXCEPT ![r] = pc]
    /\ UNCHANGED <<reqSeats, held, reqAge>>

\* The handler returns or throws; its local variables are gone.
Finish(r, pc) ==
    /\ reqPc' = [reqPc EXCEPT ![r] = pc]
    /\ reqSeats' = [reqSeats EXCEPT ![r] = {}]
    /\ held' = [held EXCEPT ![r] = {}]
    /\ reqAge' = [reqAge EXCEPT ![r] = 0]

----------------------------------------------------------------------------
\* A request for existing seats of the published event arrives.
Receive(r, S) ==
    /\ reqPc[r] = "idle"
    /\ S # {}
    /\ reqPc' = [reqPc EXCEPT ![r] = "findSeats"]
    /\ reqSeats' = [reqSeats EXCEPT ![r] = S]
    /\ UNCHANGED <<held, reqAge, storeVars, faultsLeft>>

\* seat.findMany: every requested seat reads AVAILABLE.
SeatsAvailable(r) ==
    /\ reqPc[r] = "findSeats"
    /\ \A s \in reqSeats[r] : seatStatus[s] = "AVAILABLE"
    /\ Continue(r, "acquire")
    /\ UNCHANGED <<storeVars, faultsLeft>>

\* seat.findMany: some seat is taken, the answer is 409.
SeatsTaken(r) ==
    /\ reqPc[r] = "findSeats"
    /\ \E s \in reqSeats[r] : seatStatus[s] # "AVAILABLE"
    /\ Finish(r, "rejected")
    /\ UNCHANGED <<storeVars, faultsLeft>>

\* The last lock in hand, acquireLocks succeeds and the transaction is next.
LockTaken(r, s) ==
    /\ held' = [held EXCEPT ![r] = @ \cup {s}]
    /\ reqPc' = [reqPc EXCEPT ![r] = IF reqSeats[r] \subseteq held[r] \cup {s}
                                     THEN "transaction" ELSE "acquire"]
    /\ UNCHANGED <<reqSeats, reqAge>>

\* SET NX of the next seat answers OK.  The client chose the order of seats.
AcquireLock(r, s) ==
    /\ reqPc[r] = "acquire"
    /\ s \in reqSeats[r] \ held[r]
    /\ SetNx(s, r)
    /\ LockTaken(r, s)
    /\ UNCHANGED faultsLeft

\* As LockConflict, waiting for the lock instead of giving up.
WaitForLock(r, s) ==
    /\ reqPc[r] = "acquire"
    /\ s \in reqSeats[r] \ held[r]
    /\ seatLock[s] # None
    /\ UNCHANGED <<apiVars, storeVars, faultsLeft>>

\* As LockConflict without the rollback: the locks taken so far stay.
ConflictWithoutRollback(r, s) ==
    /\ reqPc[r] = "acquire"
    /\ s \in reqSeats[r] \ held[r]
    /\ seatLock[s] # None
    /\ Finish(r, "rejected")
    /\ UNCHANGED <<storeVars, faultsLeft>>

\* SET NX of the next seat finds it locked; what was acquired is rolled back.
LockConflict(r, s) ==
    /\ reqPc[r] = "acquire"
    /\ s \in reqSeats[r] \ held[r]
    /\ seatLock[s] # None
    /\ IF held[r] = {} THEN Finish(r, "rejected") ELSE Continue(r, "rollback")
    /\ UNCHANGED <<storeVars, faultsLeft>>

\* As Rollback, deleting the keys of all the requested seats.
RollbackAll(r) ==
    /\ reqPc[r] = "rollback"
    /\ DelLocks(reqSeats[r])
    /\ Finish(r, "rejected")
    /\ UNCHANGED faultsLeft

\* releaseLocks(acquired), then the answer is 409.
Rollback(r) ==
    /\ reqPc[r] = "rollback"
    /\ DelLocks(held[r])
    /\ Finish(r, "rejected")
    /\ UNCHANGED faultsLeft

\* The booking, the seats and the job row are written in one transaction.
Transaction(r) ==
    /\ reqPc[r] = "transaction"
    /\ CreateBooking(r, reqSeats[r])
    /\ Continue(r, "push")
    /\ UNCHANGED faultsLeft

\* The message is pushed and the booking is returned to the client.
Push(r) ==
    /\ reqPc[r] = "push"
    /\ PushMessage(r)
    /\ Finish(r, "booked")
    /\ UNCHANGED faultsLeft

\* The catch block: releaseLocks(uniqueSeatCodes), then the error is rethrown.
Release(r) ==
    /\ reqPc[r] = "release"
    /\ DelLocks(reqSeats[r])
    /\ Finish(r, "error")
    /\ UNCHANGED faultsLeft

----------------------------------------------------------------------------
\* The process dies, or a call outside the try block (a read, a SET, a DEL)
\* fails: nothing is undone.
RequestStops(r) ==
    /\ Fault("requestStops")
    /\ InFlight(r)
    /\ Finish(r, "error")
    /\ UNCHANGED storeVars

\* A SET takes effect and its reply is lost.  acquireLocks is called outside
\* the try block, so no lock is released.
LockReplyLost(r, s) ==
    /\ Fault("lockReplyLost")
    /\ reqPc[r] = "acquire"
    /\ s \in reqSeats[r] \ held[r]
    /\ SetNx(s, r)
    /\ Finish(r, "error")

\* The connection drops before the reply of a SET that took effect.  ioredis
\* sends the command again, and the request finds the key it set itself.
LockResent(r, s) ==
    /\ Fault("lockResent")
    /\ reqPc[r] = "acquire"
    /\ s \in reqSeats[r] \ held[r]
    /\ SetNx(s, r)
    /\ IF held[r] = {} THEN Finish(r, "rejected") ELSE Continue(r, "rollback")

\* The transaction rolls back.
TransactionFails(r) ==
    /\ Fault("transactionFails")
    /\ reqPc[r] = "transaction"
    /\ Continue(r, "release")
    /\ UNCHANGED storeVars

\* The booking is committed, and the request fails all the same: the reply of
\* the commit is lost, or LPUSH fails, with or without its effect.
FailsAfterCommit(r) ==
    /\ Fault("failsAfterCommit")
    /\ reqPc[r] = "push"
    /\ Continue(r, "release")
    /\ PushMessage(r) \/ UNCHANGED storeVars

RequestStep(r) ==
    \/ SeatsAvailable(r)
    \/ SeatsTaken(r)
    \/ \E s \in Seats : AcquireLock(r, s)
    \/ \E s \in Seats : LockConflict(r, s)
    \/ Rollback(r)
    \/ Transaction(r)
    \/ Push(r)
    \/ Release(r)

RequestFault(r) ==
    \/ RequestStops(r)
    \/ \E s \in Seats : LockReplyLost(r, s)
    \/ \E s \in Seats : LockResent(r, s)
    \/ TransactionFails(r)
    \/ FailsAfterCommit(r)

ApiNext ==
    \E r \in Requests :
        \/ \E S \in SUBSET Seats : Receive(r, S)
        \/ RequestStep(r)
        \/ RequestFault(r)
============================================================================
