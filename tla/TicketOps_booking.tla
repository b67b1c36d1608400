-------------------------- MODULE TicketOps_booking --------------------------
(***************************************************************************)
(* No double booking, for any number of seats, requests, sweeps and        *)
(* consumers.  BookingPath says what the argument needs: nothing is        *)
(* cancelled, a request that committed does not fail, Redis does not lose  *)
(* its keys, no DEL is sent again, a lock outlives two requests, and a job *)
(* is not stuck while a request may be in flight.  All other failures may  *)
(* happen.                                                                 *)
(***************************************************************************)
EXTENDS TicketOps_rows

BookingPath ==
    /\ Cancels = {}
    /\ "failsAfterCommit" \notin FaultKinds
    /\ "redisRestart" \notin FaultKinds
    /\ "commandResent" \notin FaultKinds
    /\ 2 * RequestTime < LockTtl
    /\ RequestTime <= StuckThreshold

\* From its reading the seats AVAILABLE to its transaction, a request relies on
\* what it read.
HoldPc == {"acquire", "rollback", "transaction", "release"}

\* A request holds the locks it counts on, and they were set after it started.
HoldsLocks(r) ==
    /\ held[r] \subseteq reqSeats[r]
    /\ reqPc[r] \in {"idle", "findSeats"} => held[r] = {}
    /\ reqPc[r] \in {"transaction", "release"} => held[r] = reqSeats[r]
    /\ reqPc[r] = "release" => ~Exists(r)
    /\ reqPc[r] \in HoldPc \cup {"findSeats"} => reqSeats[r] # {}
    /\ reqPc[r] \in HoldPc =>
          \A s \in Seats : /\ s \in held[r] => seatLock[s] = r
                           /\ seatLock[s] = r => lockTtl[s] + reqAge[r] >= LockTtl

HeldLocks == \A r \in Requests : HoldsLocks(r)

\* The worker has nothing to do with a job before the job is stuck.
JobsAreOld ==
    /\ \A b \in Requests : ~Exists(b) => jobAge[b] = 0
    /\ \A w \in Workers :
          /\ \A b \in batch[w] : jobAge[b] > StuckThreshold
          /\ workerPc[w] \notin {"idle", "next", "findJob"} => jobAge[current[w]] > StuckThreshold

\* A seat r has read AVAILABLE and that was BOOKED since is locked: by the
\* request of its booking, which is younger than r, and for longer than r
\* can stay in flight.
LockedFor(r, s, b) ==
    /\ seatLock[s] = b
    /\ Exists(b)
    /\ s \in bookingSeats[b]
    /\ jobAge[b] <= reqAge[r]
    /\ lockTtl[s] + reqAge[r] > RequestTime

ReadsLocked(r) ==
    \A s \in Seats :
        reqPc[r] \in HoldPc /\ s \in reqSeats[r] /\ seatStatus[s] = "BOOKED" =>
            \E b \in Requests \ {r} : LockedFor(r, s, b)

StaleReadsLocked == \A r \in Requests : ReadsLocked(r)

\* A seat is in one booking at most, and BOOKED then.
OneBookingPerSeat ==
    /\ \A b \in Requests : ~Exists(b) => bookingSeats[b] = {}
    /\ \A b \in Requests : Exists(b) =>
          \A s \in bookingSeats[b] :
              /\ seatStatus[s] = "BOOKED"
              /\ \A c \in Requests : Exists(c) /\ s \in bookingSeats[c] => c = b

BookingInv ==
    /\ JobInv
    /\ HeldLocks
    /\ JobsAreOld
    /\ StaleReadsLocked
    /\ OneBookingPerSeat

----------------------------------------------------------------------------
(* The worker and time.                                                    *)

LEMMA BookingTypes ==
    ASSUME BookingInv
    PROVE  TypeOK /\ RowsExist /\ JobInv
BY DEF BookingInv, JobInv, RowsExist

\* A worker looks only at jobs that are stuck.
LEMMA WorkerOld ==
    ASSUME BookingInv, WorkerNext, UNCHANGED <<apiVars, cancelVars>>
    PROVE  JobsAreOld' /\ UNCHANGED jobAge
<1> USE DEF BookingInv, TypeOK, StoreTypeOK, WorkerTypeOK, storeVars, jobVars
<1>1. TypeOK
    BY BookingTypes
<1>2. PICK w \in Workers :
          \/ Trigger(w)
          \/ WorkerStep(w)
          \/ WorkerCallFails(w)
          \/ WorkerStops(w)
    BY DEF WorkerNext
<1>3. UNCHANGED jobAge
    BY <1>2
    DEF Trigger, Sweep, ReceiveMessage, PopMessage, WorkerCallFails, WorkerStops, WorkerStep,
        NextJob, ProcessMessage, LoadJob, FailJob, FailBooking, BeginJob, Confirm, Notify,
        ReleaseSeatLocks, JobDone, RetryLater, SetJobStatus, SetBookingStatus, StartAttempt,
        RecordConfirmation, DelLocks
<1>4. \A b \in Requests : Exists(b)' <=> Exists(b)
    BY WorkerNextRows, BookingTypes
<1>5. ASSUME UNCHANGED batch,
             \A v \in Workers : workerPc'[v] \notin {"idle", "next", "findJob"} =>
                 current'[v] = current[v] /\ workerPc[v] \notin {"idle", "next", "findJob"}
      PROVE  JobsAreOld'
    BY <1>3, <1>4, <1>5 DEF JobsAreOld
<1>6. CASE \E S \in SUBSET Requests : Sweep(w, S)
    BY <1>1, <1>3, <1>4, <1>6 DEF Sweep, StuckJobs, JobsAreOld
<1>7. CASE ReceiveMessage(w)
    BY <1>1, <1>3, <1>4, <1>7 DEF ReceiveMessage, JobsAreOld
<1>8. CASE \E b \in Requests : NextJob(w, b)
    BY <1>1, <1>3, <1>4, <1>8 DEF NextJob, JobsAreOld
<1>9. CASE ProcessMessage(w)
    BY <1>1, <1>5, <1>9, JobIdAssumption DEF ProcessMessage, FindJob, JobReturns
<1>10. ASSUME NEW pc, WorkerGoto(w, pc), workerPc[w] \notin {"idle", "next", "findJob"}
       PROVE  JobsAreOld'
    BY <1>1, <1>5, <1>10 DEF WorkerGoto
<1>11. ASSUME JobReturns(w)
       PROVE  JobsAreOld'
    BY <1>1, <1>5, <1>11 DEF JobReturns
<1>12. CASE LoadJob(w) \/ FailJob(w) \/ FailBooking(w) \/ BeginJob(w) \/ Confirm(w)
    BY <1>3, <1>10, <1>11, <1>12 DEF LoadJob, FailJob, FailBooking, BeginJob, Confirm
<1>13. CASE Notify(w) \/ ReleaseSeatLocks(w) \/ JobDone(w) \/ RetryLater(w)
    BY <1>3, <1>10, <1>11, <1>13 DEF Notify, ReleaseSeatLocks, JobDone, RetryLater
<1>14. CASE WorkerCallFails(w)
    BY <1>3, <1>10, <1>14 DEF WorkerCallFails, TryPc
<1>15. CASE WorkerStops(w)
    BY <1>1, <1>3, <1>4, <1>15 DEF WorkerStops, JobsAreOld
<1>. QED
    BY <1>2, <1>3, <1>6, <1>7, <1>8, <1>9, <1>12, <1>13, <1>14, <1>15 DEF Trigger, WorkerStep

\* The seats of a stuck job's booking are no business of a request in flight.
LEMMA StuckSeatsUnwanted ==
    ASSUME BookingInv, BookingPath, NEW w \in Workers, workerPc[w] = "release",
           NEW r \in Requests, reqPc[r] \in HoldPc, NEW s \in bookingSeats[current[w]]
    PROVE  s \notin reqSeats[r]
<1>0. /\ current[w] \in Requests /\ Exists(current[w])
      /\ jobAge[current[w]] > StuckThreshold
      /\ s \in Seats
    BY BookingTypes
    DEF TypeOK, StoreTypeOK, WorkerTypeOK, RowsExist, WorkerRows, BookingInv, JobsAreOld
<1>1. /\ current[w] \in Requests /\ Exists(current[w])
      /\ jobAge[current[w]] > StuckThreshold
      /\ s \in Seats /\ seatStatus[s] = "BOOKED"
    BY <1>0 DEF BookingInv, OneBookingPerSeat
<1>2. SUFFICES ASSUME s \in reqSeats[r]
               PROVE  FALSE
    OBVIOUS
<1>3. PICK b \in Requests \ {r} : LockedFor(r, s, b)
    BY <1>1, <1>2 DEF BookingInv, StaleReadsLocked, ReadsLocked
<1>4. b = current[w]
    BY <1>1, <1>3 DEF BookingInv, OneBookingPerSeat, LockedFor
<1>5. /\ jobAge[b] \in Nat /\ jobAge[b] <= reqAge[r]
      /\ reqAge[r] \in Nat /\ reqAge[r] <= RequestTime
    BY <1>3, BookingTypes, RequestTimeAssumption, StuckThresholdAssumption
    DEF TypeOK, StoreTypeOK, ApiTypeOK, LockedFor, OldJob
<1>. QED
    BY <1>1, <1>4, <1>5, RequestTimeAssumption, StuckThresholdAssumption DEF BookingPath

\* A step that leaves requests, bookings, seats and locks alone.
LEMMA QuietBooking ==
    ASSUME BookingInv, \A b \in Requests : Exists(b)' <=> Exists(b),
           UNCHANGED <<apiVars, bookingSeats, seatStatus, seatLock, lockTtl, jobAge>>
    PROVE  HeldLocks' /\ StaleReadsLocked' /\ OneBookingPerSeat'
BY DEF BookingInv, HeldLocks, HoldsLocks, StaleReadsLocked, ReadsLocked, LockedFor, OneBookingPerSeat, apiVars

LEMMA WorkerBooking ==
    ASSUME BookingInv, BookingPath, WorkerNext, UNCHANGED <<apiVars, cancelVars>>
    PROVE  HeldLocks' /\ JobsAreOld' /\ StaleReadsLocked' /\ OneBookingPerSeat'
<1>1. JobsAreOld' /\ UNCHANGED jobAge
    BY WorkerOld
<1>2. \A b \in Requests : Exists(b)' <=> Exists(b)
    BY WorkerNextRows, BookingTypes
<1>3. ASSUME NEW w \in Workers, ReleaseSeatLocks(w)
      PROVE  HeldLocks' /\ StaleReadsLocked' /\ OneBookingPerSeat'
    <2>1. /\ UNCHANGED <<apiVars, bookingSeats, seatStatus>>
          /\ \A s \in Seats \ bookingSeats[current[w]] :
                seatLock'[s] = seatLock[s] /\ lockTtl'[s] = lockTtl[s]
          /\ \A s \in Seats \cap bookingSeats[current[w]] : seatLock'[s] = None
        BY <1>3 DEF ReleaseSeatLocks, DelLocks, seatVars
    <2>2. \A r \in Requests : reqPc[r] \in HoldPc => reqSeats[r] \cap bookingSeats[current[w]] = {}
        BY <1>3, StuckSeatsUnwanted DEF ReleaseSeatLocks
    <2>3. HeldLocks'
        <3> SUFFICES ASSUME NEW r \in Requests, reqPc[r] \in HoldPc, NEW s \in Seats
                     PROVE  /\ s \in held[r] => seatLock'[s] = r
                            /\ seatLock'[s] = r => lockTtl'[s] + reqAge[r] >= LockTtl
            BY <1>2, <2>1 DEF HeldLocks, HoldsLocks, BookingInv, apiVars
        <3>1. /\ held[r] \subseteq reqSeats[r]
              /\ s \in held[r] => seatLock[s] = r
              /\ seatLock[s] = r => lockTtl[s] + reqAge[r] >= LockTtl
            BY DEF HeldLocks, HoldsLocks, BookingInv
        <3>. QED
            BY <2>1, <2>2, <3>1, NoneAssumption
    <2>4. StaleReadsLocked'
        <3> SUFFICES ASSUME NEW r \in Requests, reqPc[r] \in HoldPc, NEW s \in Seats,
                            s \in reqSeats[r], seatStatus[s] = "BOOKED"
                     PROVE  \E b \in Requests \ {r} : LockedFor(r, s, b)'
            BY <2>1 DEF StaleReadsLocked, ReadsLocked, apiVars
        <3>1. PICK b \in Requests \ {r} : LockedFor(r, s, b)
            BY DEF BookingInv, StaleReadsLocked, ReadsLocked
        <3>2. LockedFor(r, s, b)'
            BY <1>1, <1>2, <2>1, <2>2, <3>1 DEF LockedFor, apiVars
        <3>. QED
            BY <3>2
    <2>5. OneBookingPerSeat'
        BY <1>2, <2>1 DEF BookingInv, OneBookingPerSeat
    <2>. QED
        BY <2>3, <2>4, <2>5
<1>4. ASSUME ~ \E w \in Workers : ReleaseSeatLocks(w)
      PROVE  UNCHANGED <<bookingSeats, seatStatus, seatLock, lockTtl>>
    BY <1>4
    DEF WorkerNext, Trigger, Sweep, ReceiveMessage, PopMessage, WorkerCallFails, WorkerStops,
        WorkerStep, NextJob, ProcessMessage, LoadJob, FailJob, FailBooking, BeginJob, Confirm,
        Notify, JobDone, RetryLater, SetJobStatus, SetBookingStatus, StartAttempt,
        RecordConfirmation, storeVars, seatVars, lockVars
<1>. QED
    BY <1>1, <1>2, <1>3, <1>4, QuietBooking

\* While a tick passes no lock expires that a request in flight relies on.
LEMMA TickBooking ==
    ASSUME BookingInv, BookingPath, Tick
    PROVE  HeldLocks' /\ JobsAreOld' /\ StaleReadsLocked' /\ OneBookingPerSeat'
<1> USE DEF Tick, StoreTick, seatVars, jobVars
<1>1. /\ \A s \in Seats : lockTtl[s] \in Nat
      /\ \A b \in Requests : jobAge[b] \in Nat /\ jobAge[b] <= OldJob
      /\ \A r \in Requests : reqAge[r] \in Nat
      /\ reqAge' \in [Requests -> Nat]
      /\ RequestTime \in Nat /\ LockTtl \in Nat /\ StuckThreshold \in Nat
      /\ 2 * RequestTime < LockTtl /\ OldJob = StuckThreshold + 1
    BY BookingTypes, RequestTimeAssumption, LockTtlAssumption, StuckThresholdAssumption
    DEF TypeOK, StoreTypeOK, ApiTypeOK, BookingPath, OldJob
<1>2. \A r \in Requests : reqPc[r] \in HoldPc =>
          reqAge[r] < RequestTime /\ reqAge'[r] = reqAge[r] + 1
    BY DEF HoldPc, InFlight, InFlightPc
<1>3. \A b \in Requests : Exists(b)' <=> Exists(b)
    BY DEF Exists
<1>4. HeldLocks'
    <2> SUFFICES ASSUME NEW r \in Requests, reqPc[r] \in HoldPc, NEW s \in Seats
                 PROVE  /\ s \in held[r] => seatLock'[s] = r
                        /\ seatLock'[s] = r => lockTtl'[s] + reqAge'[r] >= LockTtl
        BY <1>3 DEF HeldLocks, HoldsLocks, BookingInv
    <2>1. /\ s \in held[r] => seatLock[s] = r
          /\ seatLock[s] = r => lockTtl[s] + reqAge[r] >= LockTtl
        BY DEF HeldLocks, HoldsLocks, BookingInv
    <2>2. s \in held[r] => lockTtl[s] > 1
        BY <1>1, <1>2, <2>1
    <2>3. s \in held[r] => seatLock'[s] = seatLock[s] /\ lockTtl'[s] = lockTtl[s] - 1
        BY <1>1, <2>2
    <2>4. seatLock'[s] = r => seatLock[s] = r
        BY NoneAssumption
    <2>. QED
        BY <1>1, <1>2, <2>1, <2>3, <2>4
<1>5. JobsAreOld'
    <2>1. \A b \in Requests : jobAge'[b] >= jobAge[b] /\ jobAge'[b] \in Nat
        BY <1>1
    <2>2. \A b \in Requests : ~Exists(b) => jobAge'[b] = 0
        BY BookingTypes DEF BookingInv, JobsAreOld, RowsExist, RequestRows
    <2>3. ASSUME NEW w \in Workers
          PROVE  /\ \A b \in batch[w] : jobAge'[b] > StuckThreshold
                 /\ workerPc[w] \notin {"idle", "next", "findJob"} =>
                        jobAge'[current[w]] > StuckThreshold
        <3>1. /\ batch[w] \subseteq Requests
              /\ workerPc[w] \notin {"idle", "next", "findJob"} => current[w] \in Requests
            BY BookingTypes DEF TypeOK, WorkerTypeOK
        <3>. QED
            BY <1>1, <2>1, <3>1 DEF BookingInv, JobsAreOld
    <2>. QED
        BY <1>3, <2>2, <2>3 DEF JobsAreOld, workerVars
<1>6. StaleReadsLocked'
    <2> SUFFICES ASSUME NEW r \in Requests, reqPc[r] \in HoldPc, NEW s \in Seats,
                        s \in reqSeats[r], seatStatus[s] = "BOOKED"
                 PROVE  \E b \in Requests \ {r} : LockedFor(r, s, b)'
        BY DEF StaleReadsLocked, ReadsLocked
    <2>1. PICK b \in Requests \ {r} : LockedFor(r, s, b)
        BY DEF BookingInv, StaleReadsLocked, ReadsLocked
    <2>2. lockTtl[s] > 1
        BY <1>1, <1>2, <2>1 DEF LockedFor
    <2>3. seatLock'[s] = seatLock[s] /\ lockTtl'[s] = lockTtl[s] - 1
        BY <1>1, <2>2
    <2>4. jobAge'[b] <= jobAge[b] + 1
        BY <1>1
    <2>5. LockedFor(r, s, b)'
        BY <1>1, <1>2, <1>3, <2>1, <2>3, <2>4 DEF LockedFor
    <2>. QED
        BY <2>5
<1>7. OneBookingPerSeat'
    BY <1>3 DEF BookingInv, OneBookingPerSeat
<1>. QED
    BY <1>4, <1>5, <1>6, <1>7

----------------------------------------------------------------------------
(* The requests.                                                           *)

\* A step of request r that touches no lock but its own, and none at all once
\* its booking exists, disturbs no other request.
LEMMA OthersBooking ==
    ASSUME BookingInv, NEW r \in Requests, NEW q \in Requests \ {r},
           reqPc'[q] = reqPc[q], reqSeats'[q] = reqSeats[q], held'[q] = held[q],
           reqAge'[q] = reqAge[q],
           UNCHANGED <<bookingStatus, bookingSeats, seatStatus, jobAge>>,
           \A s \in Seats :
               \/ seatLock'[s] = seatLock[s] /\ lockTtl'[s] = lockTtl[s]
               \/ /\ ~Exists(r)
                  /\ seatLock[s] \in {None, r}
                  /\ seatLock'[s] \in {None, r}
    PROVE  HoldsLocks(q)' /\ ReadsLocked(q)'
<1>1. HoldsLocks(q) /\ ReadsLocked(q)
    BY DEF BookingInv, HeldLocks, StaleReadsLocked
<1>2. HoldsLocks(q)'
    BY <1>1, NoneAssumption DEF HoldsLocks, Exists
<1>3. ReadsLocked(q)'
    <2> SUFFICES ASSUME NEW s \in Seats, reqPc[q] \in HoldPc, s \in reqSeats[q],
                        seatStatus[s] = "BOOKED"
                 PROVE  \E b \in Requests \ {q} : LockedFor(q, s, b)'
        BY DEF ReadsLocked
    <2>1. PICK b \in Requests \ {q} : LockedFor(q, s, b)
        BY <1>1 DEF ReadsLocked
    <2>2. LockedFor(q, s, b)'
        BY <2>1, NoneAssumption DEF LockedFor, Exists
    <2>. QED
        BY <2>2
<1>. QED
    BY <1>2, <1>3

\* The transaction: every seat of it is AVAILABLE, in no booking, and locked by
\* r for longer than any other request can stay in flight.
LEMMA TransactionBooking ==
    ASSUME BookingInv, BookingPath, NEW r \in Requests, Transaction(r),
           UNCHANGED <<cancelVars, workerVars>>
    PROVE  HeldLocks' /\ JobsAreOld' /\ StaleReadsLocked' /\ OneBookingPerSeat'
<1> USE DEF Transaction, CreateBooking, Continue, lockVars
<1>1. TypeOK /\ ~Exists(r)
    BY BookingTypes DEF RowsExist, RequestRows, BeforeBooking
<1>2. /\ reqPc' = [reqPc EXCEPT ![r] = "push"]
      /\ UNCHANGED <<reqSeats, held, reqAge, seatLock, lockTtl, jobAge>>
    OBVIOUS
<1>3. \A b \in Requests : /\ Exists(b)' <=> Exists(b) \/ b = r
                          /\ b # r => bookingSeats'[b] = bookingSeats[b]
                          /\ bookingSeats'[r] = reqSeats[r]
    BY <1>1 DEF Exists, TypeOK, StoreTypeOK
<1>4. /\ \A s \in reqSeats[r] : s \in Seats /\ seatStatus'[s] = "BOOKED"
      /\ \A s \in Seats \ reqSeats[r] : seatStatus'[s] = seatStatus[s]
    BY <1>1 DEF TypeOK, StoreTypeOK, ApiTypeOK
<1>5. \A s \in reqSeats[r] : seatLock[s] = r /\ lockTtl[s] + reqAge[r] >= LockTtl
    BY <1>4 DEF BookingInv, HeldLocks, HoldsLocks, HoldPc
<1>6. \A s \in reqSeats[r] : seatStatus[s] # "BOOKED"
    BY <1>4, <1>5 DEF BookingInv, StaleReadsLocked, ReadsLocked, LockedFor, HoldPc
<1>7. HeldLocks'
    BY <1>1, <1>2, <1>3 DEF BookingInv, HeldLocks, HoldsLocks, HoldPc, TypeOK, ApiTypeOK
<1>8. JobsAreOld'
    BY <1>2, <1>3 DEF BookingInv, JobsAreOld, workerVars
<1>9. StaleReadsLocked'
    <2> SUFFICES ASSUME NEW q \in Requests, reqPc'[q] \in HoldPc, NEW s \in Seats,
                        s \in reqSeats[q], seatStatus'[s] = "BOOKED"
                 PROVE  \E b \in Requests \ {q} : LockedFor(q, s, b)'
        BY <1>2 DEF StaleReadsLocked, ReadsLocked
    <2>1. q # r /\ reqPc[q] \in HoldPc
        BY <1>1, <1>2 DEF HoldPc, TypeOK, ApiTypeOK
    <2>2. CASE s \in reqSeats[r]
        <3>1. /\ jobAge[r] = 0 /\ reqAge[q] \in Nat /\ reqAge[r] \in 0 .. RequestTime
              /\ lockTtl[s] \in Nat /\ RequestTime \in Nat /\ LockTtl \in Nat
              /\ 2 * RequestTime < LockTtl
            BY <1>1, RequestTimeAssumption, LockTtlAssumption
            DEF BookingInv, JobsAreOld, TypeOK, StoreTypeOK, ApiTypeOK, BookingPath
        <3>2. lockTtl[s] + reqAge[r] >= LockTtl /\ seatLock[s] = r
            BY <1>5, <2>2
        <3>3. lockTtl[s] + reqAge[q] > RequestTime /\ jobAge[r] <= reqAge[q]
            BY <3>1, <3>2
        <3>4. LockedFor(q, s, r)'
            BY <1>2, <1>3, <2>2, <3>2, <3>3 DEF LockedFor
        <3>. QED
            BY <2>1, <3>4
    <2>3. CASE s \notin reqSeats[r]
        <3>1. PICK b \in Requests \ {q} : LockedFor(q, s, b)
            BY <1>4, <2>1, <2>3 DEF BookingInv, StaleReadsLocked, ReadsLocked
        <3>2. LockedFor(q, s, b)'
            BY <1>1, <1>2, <1>3, <3>1 DEF LockedFor
        <3>. QED
            BY <3>2
    <2>. QED
        BY <2>2, <2>3
<1>10. OneBookingPerSeat'
    BY <1>1, <1>3, <1>4, <1>6 DEF BookingInv, OneBookingPerSeat, TypeOK, StoreTypeOK
<1>. QED
    BY <1>7, <1>8, <1>9, <1>10

\* The request that took the step, the transaction excepted.
LEMMA OwnBooking ==
    ASSUME BookingInv, BookingPath, NEW r \in Requests,
           \/ \E S \in SUBSET Seats : Receive(r, S)
           \/ RequestStep(r)
           \/ RequestFault(r),
           ~Transaction(r)
    PROVE  /\ HoldsLocks(r)' /\ ReadsLocked(r)'
           /\ UNCHANGED jobAge
           /\ \A q \in Requests \ {r} : /\ reqPc'[q] = reqPc[q]
                                        /\ reqSeats'[q] = reqSeats[q]
                                        /\ held'[q] = held[q]
                                        /\ reqAge'[q] = reqAge[q]
           /\ \A s \in Seats :
                  \/ seatLock'[s] = seatLock[s] /\ lockTtl'[s] = lockTtl[s]
                  \/ ~Exists(r) /\ seatLock[s] \in {None, r} /\ seatLock'[s] \in {None, r}
<1> DEFINE Others == \A q \in Requests \ {r} : /\ reqPc'[q] = reqPc[q]
                                               /\ reqSeats'[q] = reqSeats[q]
                                               /\ held'[q] = held[q]
                                               /\ reqAge'[q] = reqAge[q]
           Locks == \A s \in Seats :
                        \/ seatLock'[s] = seatLock[s] /\ lockTtl'[s] = lockTtl[s]
                        \/ /\ ~Exists(r)
                           /\ seatLock[s] \in {None, r}
                           /\ seatLock'[s] \in {None, r}
           Mine == HoldsLocks(r)' /\ ReadsLocked(r)'
<1> USE DEF storeVars, seatVars, jobVars, lockVars
<1>1. /\ TypeOK
      /\ reqPc[r] \in BeforeBooking => ~Exists(r)
      /\ LocksOnOwnSeats
      /\ HoldsLocks(r) /\ ReadsLocked(r)
    BY BookingTypes
    DEF RowsExist, RequestRows, JobInv, BookingInv, HeldLocks, StaleReadsLocked
<1>2. \A s \in held[r] : reqPc[r] \in HoldPc /\ s \in Seats => seatLock[s] = r
    BY <1>1 DEF HoldsLocks
<1>3. ASSUME NEW pc \in {"booked", "rejected", "error"}, Finish(r, pc)
      PROVE  Others /\ Mine
    BY <1>1, <1>3 DEF Finish, HoldsLocks, ReadsLocked, HoldPc, TypeOK, ApiTypeOK
<1>4. CASE \E S \in SUBSET Seats : Receive(r, S)
    BY <1>1, <1>4 DEF Receive, HoldsLocks, ReadsLocked, HoldPc, TypeOK, ApiTypeOK
<1>5. CASE SeatsAvailable(r)
    <2>1. \A s \in Seats : seatLock[s] # r
        BY <1>1, <1>5 DEF SeatsAvailable, LocksOnOwnSeats
    <2>. QED
        BY <1>1, <1>5, <2>1
        DEF SeatsAvailable, Continue, HoldsLocks, ReadsLocked, HoldPc, TypeOK, ApiTypeOK
<1>6. CASE SeatsTaken(r) \/ Push(r) \/ RequestStops(r)
    BY <1>3, <1>6 DEF SeatsTaken, Push, PushMessage, RequestStops
<1>7. CASE Rollback(r) \/ Release(r)
    <2>1. ~Exists(r) /\ (Rollback(r) => DelLocks(held[r])) /\ (Release(r) => DelLocks(held[r]))
        BY <1>1, <1>7 DEF Rollback, Release, BeforeBooking, HoldsLocks
    <2>2. Locks
        BY <1>2, <1>7, <2>1 DEF Rollback, Release, DelLocks, HoldPc
    <2>. QED
        BY <1>3, <1>7, <2>2 DEF Rollback, Release, DelLocks
<1>8. ASSUME NEW s \in Seats, SetNx(s, r), s \in reqSeats[r], reqPc[r] = "acquire"
      PROVE  Locks
    BY <1>1, <1>8 DEF SetNx, BeforeBooking, TypeOK, StoreTypeOK
<1>9. CASE \E s \in Seats : LockReplyLost(r, s)
    BY <1>3, <1>8, <1>9 DEF LockReplyLost, SetNx
<1>10. CASE \E s \in Seats : LockResent(r, s)
    <2>1. PICK s \in Seats : LockResent(r, s)
        BY <1>10
    <2>2. /\ Locks /\ UNCHANGED jobAge
          /\ UNCHANGED <<bookingStatus, bookingSeats, seatStatus>>
          /\ seatLock[s] = None /\ lockTtl'[s] = LockTtl
          /\ \A t \in Seats \ {s} : seatLock'[t] = seatLock[t] /\ lockTtl'[t] = lockTtl[t]
        BY <1>1, <1>8, <2>1 DEF LockResent, SetNx, TypeOK, StoreTypeOK
    <2>3. CASE Finish(r, "rejected")
        BY <1>3, <2>2, <2>3
    <2>4. CASE Continue(r, "rollback")
        <3>1. /\ reqPc'[r] = "rollback" /\ UNCHANGED <<reqSeats, held, reqAge>> /\ Others
              /\ reqPc[r] = "acquire" /\ s \notin held[r]
            BY <1>1, <2>1, <2>4 DEF LockResent, Continue, TypeOK, ApiTypeOK
        <3>2. HoldsLocks(r)'
            <4>1. LockTtl + reqAge[r] >= LockTtl
                BY <1>1, LockTtlAssumption, RequestTimeAssumption DEF TypeOK, ApiTypeOK
            <4>. QED
                BY <1>1, <2>2, <3>1, <4>1 DEF HoldsLocks, HoldPc
        <3>3. ReadsLocked(r)'
            BY <1>1, <2>2, <3>1, NoneAssumption DEF ReadsLocked, LockedFor, HoldPc, Exists
        <3>. QED
            BY <2>2, <3>1, <3>2, <3>3
    <2>. QED
        BY <2>1, <2>3, <2>4 DEF LockResent
<1>11. CASE \E s \in Seats : AcquireLock(r, s)
    <2>1. PICK s \in Seats : AcquireLock(r, s)
        BY <1>11
    <2>2. /\ Locks /\ Others /\ UNCHANGED jobAge
          /\ UNCHANGED <<bookingStatus, bookingSeats, seatStatus, reqSeats, reqAge>>
        BY <1>1, <1>8, <2>1 DEF AcquireLock, LockTaken, SetNx, TypeOK, ApiTypeOK
    <2>3. /\ held'[r] = held[r] \cup {s}
          /\ reqPc'[r] = IF reqSeats[r] \subseteq held[r] \cup {s} THEN "transaction" ELSE "acquire"
          /\ s \in reqSeats[r] /\ reqPc[r] = "acquire" /\ ~Exists(r)
        BY <1>1, <2>1 DEF AcquireLock, LockTaken, TypeOK, ApiTypeOK, BeforeBooking
    <2>4. \A t \in Seats : /\ seatLock'[t] = IF t = s THEN r ELSE seatLock[t]
                           /\ lockTtl'[t] = IF t = s THEN LockTtl ELSE lockTtl[t]
        BY <1>1, <2>1 DEF AcquireLock, SetNx, TypeOK, StoreTypeOK
    <2>5. LockTtl + reqAge[r] >= LockTtl
        BY <1>1, LockTtlAssumption, RequestTimeAssumption DEF TypeOK, ApiTypeOK
    <2>6. HoldsLocks(r)'
        BY <1>1, <2>2, <2>3, <2>4, <2>5 DEF HoldsLocks, HoldPc
    <2>7. ReadsLocked(r)'
        <3> SUFFICES ASSUME NEW t \in Seats, t \in reqSeats[r], seatStatus[t] = "BOOKED"
                     PROVE  \E b \in Requests \ {r} : LockedFor(r, t, b)'
            BY <2>2 DEF ReadsLocked
        <3>1. PICK b \in Requests \ {r} : LockedFor(r, t, b)
            BY <1>1, <2>3 DEF ReadsLocked, HoldPc
        <3>2. t # s
            BY <2>1, <3>1, NoneAssumption DEF AcquireLock, SetNx, LockedFor
        <3>3. LockedFor(r, t, b)'
            BY <2>2, <2>4, <3>1, <3>2 DEF LockedFor, Exists
        <3>. QED
            BY <3>3
    <2>. QED
        BY <2>2, <2>6, <2>7
<1>12. ASSUME NEW pc \in {"rollback", "release"}, Continue(r, pc), UNCHANGED storeVars,
              reqPc[r] \in {"acquire", "transaction"},
              pc = "release" => reqPc[r] = "transaction"
       PROVE  Others /\ Mine
    <2>1. reqPc'[r] = pc /\ UNCHANGED <<reqSeats, held, reqAge>> /\ ~Exists(r) /\ Others
        BY <1>1, <1>12 DEF Continue, TypeOK, ApiTypeOK, BeforeBooking
    <2>2. HoldsLocks(r)'
        BY <1>1, <1>12, <2>1 DEF HoldsLocks, HoldPc, Exists
    <2>3. ReadsLocked(r)'
        BY <1>1, <1>12, <2>1 DEF ReadsLocked, LockedFor, HoldPc, Exists
    <2>. QED
        BY <2>1, <2>2, <2>3
<1>13. CASE \E s \in Seats : LockConflict(r, s)
    <2>1. CASE Finish(r, "rejected")
        BY <1>3, <1>13, <2>1 DEF LockConflict
    <2>2. CASE Continue(r, "rollback")
        BY <1>12, <1>13, <2>2 DEF LockConflict
    <2>. QED
        BY <1>13, <2>1, <2>2 DEF LockConflict
<1>14. CASE TransactionFails(r)
    BY <1>12, <1>14 DEF TransactionFails
<1>15. CASE FailsAfterCommit(r)
    BY <1>15 DEF FailsAfterCommit, Fault, BookingPath
<1>. QED
    BY <1>4, <1>5, <1>6, <1>7, <1>9, <1>10, <1>11, <1>13, <1>14, <1>15
    DEF RequestStep, RequestFault

LEMMA ApiBooking ==
    ASSUME BookingInv, BookingPath, ApiNext, UNCHANGED <<cancelVars, workerVars>>
    PROVE  HeldLocks' /\ JobsAreOld' /\ StaleReadsLocked' /\ OneBookingPerSeat'
<1>1. CASE \E r \in Requests : Transaction(r)
    BY <1>1, TransactionBooking
<1>2. CASE ~ \E r \in Requests : Transaction(r)
    <2>1. PICK r \in Requests :
              \/ \E S \in SUBSET Seats : Receive(r, S)
              \/ RequestStep(r)
              \/ RequestFault(r)
        BY DEF ApiNext
    <2>2. /\ UNCHANGED <<bookingStatus, bookingSeats, seatStatus>>
          /\ \A b \in Requests : Exists(b)' <=> Exists(b)
        BY <1>2, ApiRows, BookingTypes DEF Exists
    <2>3. HoldsLocks(r)' /\ ReadsLocked(r)' /\ UNCHANGED jobAge
        BY <1>2, <2>1, OwnBooking
    <2>4. \A q \in Requests \ {r} : HoldsLocks(q)' /\ ReadsLocked(q)'
        <3> TAKE q \in Requests \ {r}
        <3>1. /\ reqPc'[q] = reqPc[q]
              /\ reqSeats'[q] = reqSeats[q]
              /\ held'[q] = held[q]
              /\ reqAge'[q] = reqAge[q]
              /\ \A s \in Seats :
                     \/ seatLock'[s] = seatLock[s] /\ lockTtl'[s] = lockTtl[s]
                     \/ ~Exists(r) /\ seatLock[s] \in {None, r} /\ seatLock'[s] \in {None, r}
            BY <1>2, <2>1, OwnBooking
        <3>. QED
            BY <2>2, <2>3, <3>1, OthersBooking
    <2>5. HeldLocks' /\ StaleReadsLocked'
        BY <2>3, <2>4 DEF HeldLocks, StaleReadsLocked
    <2>6. JobsAreOld'
        BY <2>2, <2>3 DEF BookingInv, JobsAreOld, workerVars
    <2>7. OneBookingPerSeat'
        BY <2>2 DEF BookingInv, OneBookingPerSeat
    <2>. QED
        BY <2>5, <2>6, <2>7
<1>. QED
    BY <1>1, <1>2

----------------------------------------------------------------------------
(* BookingInv is inductive.                                                *)

LEMMA BookingInvStep ==
    ASSUME BookingInv, BookingPath, [Next]_vars, JobInv'
    PROVE  BookingInv'
<1>1. CASE ApiNext /\ UNCHANGED <<cancelVars, workerVars>>
    BY <1>1, ApiBooking DEF BookingInv
<1>2. CASE CancelNext
    BY <1>2 DEF CancelNext, BookingPath
<1>3. CASE WorkerNext /\ UNCHANGED <<apiVars, cancelVars>>
    BY <1>3, WorkerBooking DEF BookingInv
<1>4. CASE Tick
    BY <1>4, TickBooking DEF BookingInv
<1>5. CASE RedisRestart \/ CommandResent
    BY <1>5 DEF RedisRestart, CommandResent, Fault, BookingPath
<1>6. CASE UNCHANGED vars
    <2>1. /\ \A b \in Requests : Exists(b)' <=> Exists(b)
          /\ UNCHANGED <<apiVars, workerVars, bookingSeats, seatStatus, seatLock, lockTtl, jobAge>>
        BY <1>6 DEF vars, storeVars, Exists
    <2>2. JobsAreOld'
        BY <2>1 DEF BookingInv, JobsAreOld, workerVars
    <2>. QED
        BY <2>1, <2>2, QuietBooking DEF BookingInv
<1>. QED
    BY <1>1, <1>2, <1>3, <1>4, <1>5, <1>6 DEF Next

LEMMA BookingInvAlways == ASSUME BookingPath PROVE Spec => []BookingInv
<1>1. Init /\ JobInv => BookingInv
    <2> SUFFICES ASSUME Init, JobInv
                 PROVE  HeldLocks /\ JobsAreOld /\ StaleReadsLocked /\ OneBookingPerSeat
        BY DEF BookingInv
    <2>. QED
        BY DEF Init, StoreInit, ApiInit, WorkerInit, HeldLocks, HoldsLocks, JobsAreOld, HoldPc,
               StaleReadsLocked, ReadsLocked, OneBookingPerSeat, Exists
<1>2. BookingInv /\ [Next]_vars /\ JobInv' => BookingInv'
    BY BookingInvStep
<1>. QED
    BY <1>1, <1>2, JobInvAlways, PTL DEF Spec

\* No seat is in two bookings that are pending or confirmed, for any number of
\* concurrent requests, sweeps and consumers, as long as nothing is cancelled,
\* no committed request fails and Redis keeps its keys (NoDoubleBooking).
THEOREM NoDoubleBookingHolds == ASSUME BookingPath PROVE Spec => []NoDoubleBooking
<1>1. BookingInv => NoDoubleBooking
    <2> SUFFICES ASSUME BookingInv, NEW a \in Requests, NEW b \in Requests, a # b,
                        Active(a), Active(b), NEW s \in bookingSeats[a] \cap bookingSeats[b]
                 PROVE  FALSE
        BY DEF NoDoubleBooking
    <2>1. Exists(a) /\ Exists(b)
        BY DEF Active, Exists
    <2>. QED
        BY <2>1 DEF BookingInv, OneBookingPerSeat
<1>. QED
    BY <1>1, BookingInvAlways, PTL

\* A request about to write its booking holds all of its locks, under the same
\* conditions (TransactionHoldsItsLocks).
THEOREM LocksHeldAtTransaction == ASSUME BookingPath PROVE Spec => []TransactionHoldsItsLocks
<1>1. BookingInv => TransactionHoldsItsLocks
    <2> SUFFICES ASSUME BookingInv, NEW r \in Requests, reqPc[r] = "transaction",
                        NEW s \in reqSeats[r]
                 PROVE  seatLock[s] = r
        BY DEF TransactionHoldsItsLocks
    <2>1. s \in Seats
        BY BookingTypes DEF TypeOK, ApiTypeOK
    <2>. QED
        BY <2>1 DEF BookingInv, HeldLocks, HoldsLocks, HoldPc
<1>. QED
    BY <1>1, BookingInvAlways, PTL

\* No step of another request, of a worker or of time takes a lock away from a
\* request that counts on it, under the same conditions (LockKeptInFlight).
THEOREM LocksKeptInFlight == ASSUME BookingPath PROVE Spec => LockKeptInFlight
<1> DEFINE Kept == \A r \in Requests, s \in Seats :
                       /\ seatLock[s] = r
                       /\ reqPc[r] \in {"acquire", "transaction"}
                       /\ reqPc'[r] = reqPc[r]
                       => seatLock'[s] = r
<1>1. ASSUME BookingInv, [Next]_vars
      PROVE  Kept
    <2> SUFFICES ASSUME NEW r \in Requests, NEW s \in Seats, seatLock[s] = r,
                        reqPc[r] \in {"acquire", "transaction"}, reqPc'[r] = reqPc[r]
                 PROVE  seatLock'[s] = r
        OBVIOUS
    <2>1. CASE ApiNext
        <3>1. PICK q \in Requests :
                  \/ \E S \in SUBSET Seats : Receive(q, S)
                  \/ RequestStep(q)
                  \/ RequestFault(q)
            BY <2>1 DEF ApiNext
        <3>2. CASE Transaction(q)
            BY <3>2 DEF Transaction, CreateBooking, lockVars
        <3>3. CASE q # r /\ ~Transaction(q)
            BY <1>1, <3>1, <3>3, OwnBooking, NoneAssumption
        <3>4. CASE q = r
            <4>1. r # None
                BY NoneAssumption
            <4>2. UNCHANGED seatLock \/ \E t \in Seats : AcquireLock(r, t)
                BY <1>1, <3>1, <3>4, BookingTypes
                DEF RequestStep, SeatsAvailable, SeatsTaken, LockConflict, Rollback, Transaction,
                    Push, Release, Receive, RequestFault, RequestStops, LockReplyLost, LockResent,
                    TransactionFails, FailsAfterCommit, Continue, Finish, PushMessage,
                    CreateBooking, TypeOK, ApiTypeOK, storeVars, lockVars
            <4>. QED
                BY <1>1, <4>1, <4>2, BookingTypes DEF AcquireLock, SetNx, TypeOK, StoreTypeOK
        <3>. QED
            BY <3>2, <3>3, <3>4
    <2>2. CASE CancelNext
        BY <2>2 DEF CancelNext, BookingPath
    <2>3. CASE WorkerNext
        <3>1. CASE \E w \in Workers : ReleaseSeatLocks(w)
            <4>1. PICK w \in Workers : ReleaseSeatLocks(w)
                BY <3>1
            <4>2. s \in reqSeats[r]
                BY <1>1, BookingTypes DEF JobInv, LocksOnOwnSeats
            <4>3. s \notin bookingSeats[current[w]]
                BY <1>1, <4>1, <4>2, StuckSeatsUnwanted DEF ReleaseSeatLocks, HoldPc
            <4>. QED
                BY <4>1, <4>3 DEF ReleaseSeatLocks, DelLocks
        <3>2. CASE ~ \E w \in Workers : ReleaseSeatLocks(w)
            BY <2>3, <3>2
            DEF WorkerNext, Trigger, Sweep, ReceiveMessage, PopMessage, WorkerCallFails,
                WorkerStops, WorkerStep, NextJob, ProcessMessage, LoadJob, FailJob, FailBooking,
                BeginJob, Confirm, Notify, JobDone, RetryLater, SetJobStatus, SetBookingStatus,
                StartAttempt, RecordConfirmation, storeVars, lockVars
        <3>. QED
            BY <3>1, <3>2
    <2>4. CASE Tick
        <3>1. lockTtl[s] + reqAge[r] >= LockTtl /\ reqAge[r] < RequestTime
            BY <1>1, <2>4
            DEF BookingInv, HeldLocks, HoldsLocks, HoldPc, Tick, InFlight, InFlightPc
        <3>2. /\ lockTtl[s] \in Nat /\ reqAge[r] \in Nat /\ RequestTime \in Nat /\ LockTtl \in Nat
              /\ 2 * RequestTime < LockTtl
            BY <1>1, BookingTypes, LockTtlAssumption, RequestTimeAssumption
            DEF TypeOK, StoreTypeOK, ApiTypeOK, BookingPath
        <3>3. lockTtl[s] # 1
            BY <3>1, <3>2
        <3>. QED
            BY <2>4, <3>3 DEF Tick, StoreTick
    <2>5. CASE RedisRestart \/ CommandResent
        BY <2>5 DEF RedisRestart, CommandResent, Fault, BookingPath
    <2>6. CASE UNCHANGED vars
        BY <2>6 DEF vars, storeVars
    <2>. QED
        BY <1>1, <2>1, <2>2, <2>3, <2>4, <2>5, <2>6 DEF Next
<1>2. BookingInv /\ [Next]_vars => [Kept]_vars
    BY <1>1
<1>. QED
    BY <1>2, BookingInvAlways, PTL DEF Spec, LockKeptInFlight

----------------------------------------------------------------------------
(* Under the same conditions the booking path implements SeatSales.  A     *)
(* seat is mapped to the booking it is in, which OneBookingPerSeat makes   *)
(* unique, and a sale to its booking's status.  The transaction of         *)
(* createBooking is a sale, the worker's two updates of the booking decide *)
(* it, and every other step is invisible.                                  *)

\* A seat's owner is the one booking it is in.
LEMMA OwnerOfSeat ==
    ASSUME OneBookingPerSeat, NEW b \in Requests, NEW s \in bookingSeats[b]
    PROVE  SeatOwner(s) = b
BY DEF OneBookingPerSeat, SeatOwner

LEMMA OwnerOfFreeSeat ==
    ASSUME NEW s, \A b \in Requests : s \notin bookingSeats[b]
    PROVE  SeatOwner(s) = None
BY DEF SeatOwner

\* The transaction sells the seats of the request.
LEMMA TransactionSells ==
    ASSUME BookingInv, BookingInv', NEW r \in Requests, Transaction(r)
    PROVE  Sales!Sell(r, reqSeats[r])
<1> USE DEF Transaction, CreateBooking
<1>1. /\ TypeOK /\ OneBookingPerSeat /\ OneBookingPerSeat'
      /\ ~Exists(r)
      /\ reqSeats[r] # {}
    BY BookingTypes
    DEF BookingInv, HeldLocks, HoldsLocks, HoldPc, RowsExist, RequestRows, BeforeBooking
<1>2. /\ bookingStatus[r] = "NONE"
      /\ bookingStatus' = [bookingStatus EXCEPT ![r] = "PENDING"]
      /\ \A b \in Requests : bookingSeats'[b] = IF b = r THEN reqSeats[r] ELSE bookingSeats[b]
    BY <1>1 DEF Exists, TypeOK, StoreTypeOK
<1>3. \A s \in reqSeats[r], b \in Requests : s \notin bookingSeats[b]
    <2> SUFFICES ASSUME NEW s \in reqSeats[r], NEW b \in Requests, s \in bookingSeats[b]
                 PROVE  FALSE
        OBVIOUS
    <2>1. Exists(b) /\ b # r /\ s \in Seats
        BY <1>1 DEF OneBookingPerSeat, TypeOK, StoreTypeOK, ApiTypeOK
    <2>2. s \in bookingSeats'[b] /\ s \in bookingSeats'[r]
        BY <1>2, <2>1
    <2>3. Exists(b)' /\ Exists(r)'
        BY <1>1, <1>2, <2>1 DEF Exists, TypeOK, StoreTypeOK
    <2>4. b = r
        BY <1>1, <2>2, <2>3 DEF OneBookingPerSeat
    <2>. QED
        BY <2>1, <2>4
<1>4. \A s \in reqSeats[r] : SeatOwner(s) = None
    BY <1>3, OwnerOfFreeSeat
<1>5. \A s \in Seats : SeatOwner(s)' = IF s \in reqSeats[r] THEN r ELSE SeatOwner(s)
    <2> TAKE s \in Seats
    <2>1. CASE s \in reqSeats[r]
        <3>1. s \in bookingSeats'[r]
            BY <1>2, <2>1
        <3>. QED
            BY <1>1, <2>1, <3>1 DEF OneBookingPerSeat, SeatOwner
    <2>2. CASE s \notin reqSeats[r] /\ \E b \in Requests : s \in bookingSeats[b]
        <3>1. PICK b \in Requests : s \in bookingSeats[b]
            BY <2>2
        <3>2. s \in bookingSeats'[b]
            BY <1>1, <1>2, <3>1 DEF OneBookingPerSeat
        <3>3. SeatOwner(s) = b
            BY <1>1, <3>1, OwnerOfSeat
        <3>4. SeatOwner(s)' = b
            BY <1>1, <3>2 DEF OneBookingPerSeat, SeatOwner
        <3>. QED
            BY <2>2, <3>3, <3>4
    <2>3. CASE s \notin reqSeats[r] /\ ~ \E b \in Requests : s \in bookingSeats[b]
        <3>1. \A b \in Requests : s \notin bookingSeats'[b]
            BY <1>2, <2>3
        <3>2. SeatOwner(s) = None
            BY <2>3, OwnerOfFreeSeat
        <3>3. SeatOwner(s)' = None
            BY <3>1 DEF SeatOwner
        <3>. QED
            BY <2>3, <3>2, <3>3
    <2>. QED
        BY <2>1, <2>2, <2>3
<1>6. \A s \in reqSeats[r] : s \in Seats
    BY <1>1 DEF TypeOK, ApiTypeOK
<1>. QED
    BY <1>1, <1>2, <1>4, <1>5, <1>6 DEF Sales!Sell

\* Any step is a sale, a decision or invisible.
LEMMA StepSimulation ==
    ASSUME BookingInv, BookingInv', BookingPath, [Next]_vars
    PROVE  [Sales!SalesNext]_(Sales!salesVars)
<1>1. \/ UNCHANGED <<seatStatus, bookingSeats, bookingStatus>>
      \/ \E r \in Requests : Transaction(r)
      \/ \E c \in Cancels : CancelTransaction(c)
      \/ \E w \in Workers : FailBooking(w) \/ Confirm(w)
    BY BookingWrites, BookingTypes
<1>2. CASE UNCHANGED <<seatStatus, bookingSeats, bookingStatus>>
    BY <1>2 DEF Sales!salesVars, SeatOwner
<1>3. CASE \E r \in Requests : Transaction(r)
    <2>1. PICK r \in Requests : Transaction(r)
        BY <1>3
    <2>2. Sales!Sell(r, reqSeats[r]) /\ reqSeats[r] \in SUBSET Seats
        BY <2>1, TransactionSells, BookingTypes DEF TypeOK, ApiTypeOK
    <2>. QED
        BY <2>2 DEF Sales!SalesNext
<1>4. CASE \E w \in Workers : FailBooking(w) \/ Confirm(w)
    <2>1. PICK w \in Workers : FailBooking(w) \/ Confirm(w)
        BY <1>4
    <2>2. PICK outcome \in {"CONFIRMED", "FAILED"} : SetBookingStatus(current[w], outcome)
        BY <2>1 DEF FailBooking, Confirm
    <2>3. /\ current[w] \in Requests
          /\ bookingStatus[current[w]] # "NONE"
        BY <2>1, BookingTypes
        DEF FailBooking, Confirm, RowsExist, WorkerRows, Exists, TypeOK, WorkerTypeOK
    <2>4. [s \in Seats |-> SeatOwner(s)]' = [s \in Seats |-> SeatOwner(s)]
        BY <2>2 DEF SetBookingStatus, seatVars, SeatOwner
    <2>5. Sales!Decide(current[w], outcome)
        BY <2>2, <2>3, <2>4 DEF Sales!Decide, SetBookingStatus
    <2>. QED
        BY <2>3, <2>5 DEF Sales!SalesNext
<1>. QED
    BY <1>1, <1>2, <1>3, <1>4 DEF BookingPath

\* The services sell each seat at most once, all seats of a request or none,
\* and never take a seat back, as SeatSales demands (ImplementsSeatSales).
THEOREM ServicesImplementSeatSales == ASSUME BookingPath PROVE Spec => ImplementsSeatSales
<1>1. Init => Sales!SalesInit
    BY DEF Init, StoreInit, Sales!SalesInit, SeatOwner
<1>2. BookingInv /\ BookingInv' /\ [Next]_vars => [Sales!SalesNext]_(Sales!salesVars)
    BY StepSimulation
<1>. QED
    BY <1>1, <1>2, BookingInvAlways, PTL DEF Spec, ImplementsSeatSales, Sales!SalesSpec
============================================================================
