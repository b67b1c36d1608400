--------------------------- MODULE TicketOps_types ---------------------------
(***************************************************************************)
(* The variables of TicketOps keep their types, for every value of the     *)
(* constants.  The other proof modules build on this one.                  *)
(***************************************************************************)
EXTENDS TicketOps, TLAPS

----------------------------------------------------------------------------
(* Types.  First the calls to the stores, then the services' steps.        *)

LEMMA SetNxType ==
    ASSUME StoreTypeOK, NEW s \in Seats, NEW r \in Requests, SetNx(s, r)
    PROVE  StoreTypeOK'
BY LockTtlAssumption DEF StoreTypeOK, SetNx, seatVars, jobVars, OldJob

LEMMA DelLocksType ==
    ASSUME StoreTypeOK, NEW S, DelLocks(S)
    PROVE  StoreTypeOK'
BY LockTtlAssumption DEF StoreTypeOK, DelLocks, seatVars, jobVars, OldJob

LEMMA PushMessageType ==
    ASSUME StoreTypeOK, NEW b \in Requests, PushMessage(b)
    PROVE  StoreTypeOK'
BY DEF StoreTypeOK, PushMessage, MessageJobId, seatVars, jobVars, lockVars, OldJob

LEMMA PopMessageType ==
    ASSUME StoreTypeOK, PopMessage
    PROVE  StoreTypeOK' /\ Head(queue) \in Requests
BY DEF StoreTypeOK, PopMessage, seatVars, jobVars, lockVars, OldJob

LEMMA CreateBookingType ==
    ASSUME StoreTypeOK, NEW b \in Requests, NEW S \in SUBSET Seats, CreateBooking(b, S)
    PROVE  StoreTypeOK'
BY DEF StoreTypeOK, CreateBooking, lockVars, OldJob, SeatStatus, BookingStatus, JobStatus

LEMMA CancelBookingType ==
    ASSUME StoreTypeOK, NEW b \in Requests, CancelBooking(b)
    PROVE  StoreTypeOK'
BY DEF StoreTypeOK, CancelBooking, jobVars, lockVars, OldJob, SeatStatus, BookingStatus

LEMMA SetBookingStatusType ==
    ASSUME StoreTypeOK, NEW b \in Requests, NEW status \in BookingStatus,
           SetBookingStatus(b, status)
    PROVE  StoreTypeOK'
BY DEF StoreTypeOK, SetBookingStatus, seatVars, jobVars, lockVars, OldJob

LEMMA SetJobStatusType ==
    ASSUME StoreTypeOK, NEW b \in Requests, NEW status \in JobStatus,
           SetJobStatus(b, status)
    PROVE  StoreTypeOK'
BY DEF StoreTypeOK, SetJobStatus, seatVars, lockVars, OldJob

LEMMA StartAttemptType ==
    ASSUME StoreTypeOK, NEW b \in Requests, StartAttempt(b)
    PROVE  StoreTypeOK'
BY DEF StoreTypeOK, StartAttempt, seatVars, lockVars, OldJob, JobStatus

LEMMA RecordConfirmationType ==
    ASSUME StoreTypeOK, NEW b \in Requests, RecordConfirmation(b)
    PROVE  StoreTypeOK'
BY DEF StoreTypeOK, RecordConfirmation, seatVars, jobVars, lockVars, OldJob

LEMMA StoreTickType ==
    ASSUME StoreTypeOK, StoreTick
    PROVE  StoreTypeOK'
BY LockTtlAssumption, StuckThresholdAssumption DEF StoreTypeOK, StoreTick, seatVars, OldJob

LEMMA StoreUnchangedType ==
    ASSUME StoreTypeOK, UNCHANGED storeVars
    PROVE  StoreTypeOK'
BY DEF StoreTypeOK, storeVars, OldJob

LEMMA FaultType ==
    ASSUME FaultsTypeOK, NEW kind, Fault(kind)
    PROVE  FaultsTypeOK'
BY MaxFaultsAssumption DEF FaultsTypeOK, Fault

LEMMA NoFaultType ==
    ASSUME FaultsTypeOK, UNCHANGED faultsLeft
    PROVE  FaultsTypeOK'
BY DEF FaultsTypeOK

LEMMA ContinueType ==
    ASSUME ApiTypeOK, NEW r \in Requests, NEW pc \in RequestPc, Continue(r, pc)
    PROVE  ApiTypeOK'
BY DEF ApiTypeOK, Continue

LEMMA FinishType ==
    ASSUME ApiTypeOK, NEW r \in Requests, NEW pc \in RequestPc, Finish(r, pc)
    PROVE  ApiTypeOK'
BY RequestTimeAssumption DEF ApiTypeOK, Finish

\* Every step of createBooking keeps the types.
LEMMA ApiNextType ==
    ASSUME TypeOK, ApiNext
    PROVE  StoreTypeOK' /\ FaultsTypeOK' /\ ApiTypeOK'
<1> USE DEF TypeOK
<1>1. PICK r \in Requests :
          \/ \E S \in SUBSET Seats : Receive(r, S)
          \/ RequestStep(r)
          \/ RequestFault(r)
    BY DEF ApiNext
<1>2. ASSUME NEW S \in SUBSET Seats, Receive(r, S)
      PROVE  StoreTypeOK' /\ FaultsTypeOK' /\ ApiTypeOK'
    BY <1>2, StoreUnchangedType, NoFaultType DEF Receive, ApiTypeOK, RequestPc, InFlightPc
<1>3. CASE SeatsAvailable(r)
    BY <1>3, StoreUnchangedType, NoFaultType, ContinueType
    DEF SeatsAvailable, RequestPc, InFlightPc
<1>4. CASE SeatsTaken(r)
    BY <1>4, StoreUnchangedType, NoFaultType, FinishType DEF SeatsTaken, RequestPc
<1>5. ASSUME NEW s \in Seats, AcquireLock(r, s)
      PROVE  StoreTypeOK' /\ FaultsTypeOK' /\ ApiTypeOK'
    BY <1>5, SetNxType, NoFaultType
    DEF AcquireLock, LockTaken, ApiTypeOK, RequestPc, InFlightPc
<1>6. ASSUME NEW s \in Seats, LockConflict(r, s)
      PROVE  StoreTypeOK' /\ FaultsTypeOK' /\ ApiTypeOK'
    BY <1>6, StoreUnchangedType, NoFaultType, FinishType, ContinueType
    DEF LockConflict, RequestPc, InFlightPc
<1>7. CASE Rollback(r)
    BY <1>7, DelLocksType, NoFaultType, FinishType DEF Rollback, RequestPc
<1>8. CASE Transaction(r)
    <2>1. reqSeats[r] \in SUBSET Seats
        BY DEF ApiTypeOK
    <2>. QED
        BY <1>8, <2>1, CreateBookingType, NoFaultType, ContinueType
        DEF Transaction, RequestPc, InFlightPc
<1>9. CASE Push(r)
    BY <1>9, PushMessageType, NoFaultType, FinishType DEF Push, RequestPc
<1>10. CASE Release(r)
    BY <1>10, DelLocksType, NoFaultType, FinishType DEF Release, RequestPc
<1>11. CASE RequestStops(r)
    BY <1>11, StoreUnchangedType, FaultType, FinishType DEF RequestStops, RequestPc
<1>12. ASSUME NEW s \in Seats, LockReplyLost(r, s)
       PROVE  StoreTypeOK' /\ FaultsTypeOK' /\ ApiTypeOK'
    BY <1>12, SetNxType, FaultType, FinishType DEF LockReplyLost, RequestPc
<1>13. ASSUME NEW s \in Seats, LockResent(r, s)
       PROVE  StoreTypeOK' /\ FaultsTypeOK' /\ ApiTypeOK'
    BY <1>13, SetNxType, FaultType, FinishType, ContinueType
    DEF LockResent, RequestPc, InFlightPc
<1>14. CASE TransactionFails(r)
    BY <1>14, StoreUnchangedType, FaultType, ContinueType
    DEF TransactionFails, RequestPc, InFlightPc
<1>15. CASE FailsAfterCommit(r)
    BY <1>15, StoreUnchangedType, PushMessageType, FaultType, ContinueType
    DEF FailsAfterCommit, RequestPc, InFlightPc
<1>. QED
    BY <1>1, <1>2, <1>3, <1>4, <1>5, <1>6, <1>7, <1>8, <1>9, <1>10, <1>11, <1>12,
       <1>13, <1>14, <1>15
    DEF RequestStep, RequestFault

\* Every step of the two cancel handlers keeps the types.
LEMMA CancelNextType ==
    ASSUME TypeOK, CancelNext
    PROVE  StoreTypeOK' /\ FaultsTypeOK' /\ CancelTypeOK'
<1> USE DEF TypeOK
<1>1. PICK c \in Cancels :
          \/ \E b \in Requests : FindBooking(c, b) \/ RefuseCancel(c, b)
          \/ CancelStep(c)
          \/ CancelStops(c)
    BY DEF CancelNext
<1>2. ASSUME NEW b \in Requests, FindBooking(c, b)
      PROVE  StoreTypeOK' /\ FaultsTypeOK' /\ CancelTypeOK'
    BY NoneAssumption, <1>2, StoreUnchangedType, NoFaultType DEF FindBooking, CancelTypeOK, CancelPc
<1>3. ASSUME NEW b \in Requests, RefuseCancel(c, b)
      PROVE  StoreTypeOK' /\ FaultsTypeOK' /\ CancelTypeOK'
    BY <1>3, StoreUnchangedType, NoFaultType
    DEF RefuseCancel, CancelGoto, CancelTypeOK, CancelPc
<1>4. CASE CancelTransaction(c)
    <2>1. cancelTarget[c] \in Requests
        BY <1>4 DEF CancelTransaction, CancelTypeOK
    <2>2. CancelTypeOK'
        BY <1>4 DEF CancelTransaction, CancelGoto, CancelReturns, CancelTypeOK, CancelPc
    <2>. QED
        BY <1>4, <2>1, <2>2, CancelBookingType, NoFaultType DEF CancelTransaction
<1>5. CASE CancelRelease(c)
    BY <1>5, DelLocksType, NoFaultType
    DEF CancelRelease, CancelReturns, CancelTypeOK, CancelPc
<1>6. CASE CancelStops(c)
    BY <1>6, StoreUnchangedType, FaultType
    DEF CancelStops, CancelReturns, CancelTypeOK, CancelPc
<1>. QED
    BY <1>1, <1>2, <1>3, <1>4, <1>5, <1>6 DEF CancelStep

\* Every step of the worker keeps the types.
LEMMA WorkerNextType ==
    ASSUME TypeOK, WorkerNext
    PROVE  StoreTypeOK' /\ FaultsTypeOK' /\ WorkerTypeOK'
<1> USE DEF TypeOK
<1>1. PICK w \in Workers :
          \/ Trigger(w)
          \/ WorkerStep(w)
          \/ WorkerCallFails(w)
          \/ WorkerStops(w)
    BY DEF WorkerNext
<1>2. ASSUME NEW S \in SUBSET Requests, Sweep(w, S)
      PROVE  StoreTypeOK' /\ FaultsTypeOK' /\ WorkerTypeOK'
    BY <1>2, StoreUnchangedType, NoFaultType DEF Sweep, WorkerTypeOK, WorkerPc
<1>3. CASE ReceiveMessage(w)
    BY <1>3, PopMessageType, NoFaultType, NoneAssumption
    DEF ReceiveMessage, WorkerTypeOK, WorkerPc
<1>4. ASSUME NEW b \in Requests, NextJob(w, b)
      PROVE  StoreTypeOK' /\ FaultsTypeOK' /\ WorkerTypeOK'
    BY <1>4, StoreUnchangedType, NoFaultType, NoneAssumption
    DEF NextJob, WorkerTypeOK, WorkerPc
<1>5. ASSUME NEW pc \in WorkerPc \ {"idle", "next"}, WorkerGoto(w, pc),
             workerPc[w] \notin {"idle", "next"}
      PROVE  WorkerTypeOK'
    BY <1>5 DEF WorkerGoto, WorkerTypeOK
<1>6. ASSUME JobReturns(w)
      PROVE  WorkerTypeOK'
    BY <1>6 DEF JobReturns, WorkerTypeOK, WorkerPc
<1>7. workerPc[w] \notin {"idle", "next"} => current[w] \in Requests
    BY DEF WorkerTypeOK
<1>8. CASE ProcessMessage(w)
    <2>1. WorkerTypeOK'
        <3>1. CASE FindJob(current[w]) = {}
            BY <1>8, <3>1, <1>6 DEF ProcessMessage
        <3>2. CASE FindJob(current[w]) # {}
            <4>1. (CHOOSE b \in FindJob(current[w]) : TRUE) \in Requests
                BY <3>2 DEF FindJob
            <4>. QED
                BY <1>8, <3>2, <4>1, NoneAssumption DEF ProcessMessage, WorkerTypeOK, WorkerPc
        <3>. QED
            BY <3>1, <3>2
    <2>. QED
        BY <1>8, <2>1, StoreUnchangedType, NoFaultType DEF ProcessMessage
<1>9. CASE LoadJob(w)
    <2>1. WorkerTypeOK'
        BY <1>9, <1>5, <1>6 DEF LoadJob, WorkerPc
    <2>. QED
        BY <1>9, <2>1, StoreUnchangedType, NoFaultType DEF LoadJob
<1>10. CASE FailJob(w)
    BY <1>10, <1>5, <1>7, SetJobStatusType, NoFaultType DEF FailJob, WorkerPc, JobStatus
<1>11. CASE FailBooking(w)
    BY <1>11, <1>6, <1>7, SetBookingStatusType, NoFaultType DEF FailBooking, BookingStatus
<1>12. CASE BeginJob(w)
    BY <1>12, <1>5, <1>7, StartAttemptType, NoFaultType DEF BeginJob, WorkerPc, TryPc
<1>13. CASE Confirm(w)
    BY <1>13, <1>5, <1>7, SetBookingStatusType, NoFaultType
    DEF Confirm, WorkerPc, TryPc, BookingStatus
<1>14. CASE Notify(w)
    BY <1>14, <1>5, <1>7, RecordConfirmationType, NoFaultType DEF Notify, WorkerPc, TryPc
<1>15. CASE ReleaseSeatLocks(w)
    BY <1>15, <1>5, DelLocksType, NoFaultType DEF ReleaseSeatLocks, WorkerPc, TryPc
<1>16. CASE JobDone(w)
    BY <1>16, <1>6, <1>7, SetJobStatusType, NoFaultType DEF JobDone, JobStatus
<1>17. CASE RetryLater(w)
    BY <1>17, <1>6, <1>7, SetJobStatusType, NoFaultType DEF RetryLater, JobStatus
<1>18. CASE WorkerCallFails(w)
    BY <1>18, <1>5, <1>7, SetJobStatusType, StoreUnchangedType, FaultType
    DEF WorkerCallFails, WorkerPc, TryPc, JobStatus
<1>19. CASE WorkerStops(w)
    BY <1>19, StoreUnchangedType, FaultType DEF WorkerStops, WorkerTypeOK, WorkerPc
<1>. QED
    BY <1>1, <1>2, <1>3, <1>4, <1>8, <1>9, <1>10, <1>11, <1>12, <1>13, <1>14, <1>15,
       <1>16, <1>17, <1>18, <1>19
    DEF Trigger, WorkerStep

LEMMA TickType ==
    ASSUME TypeOK, Tick
    PROVE  TypeOK'
<1> USE DEF TypeOK, Tick
<1>1. StoreTypeOK' /\ FaultsTypeOK'
    BY StoreTickType, NoFaultType
<1>2. ApiTypeOK'
    BY RequestTimeAssumption DEF ApiTypeOK, InFlight
<1>3. CancelTypeOK' /\ WorkerTypeOK'
    BY DEF CancelTypeOK, WorkerTypeOK, cancelVars, workerVars
<1>. QED
    BY <1>1, <1>2, <1>3

\* What a command that Redis carries out, and that is sent again, has done.
LEMMA ResentDeletesOrPushes ==
    ASSUME CommandResent
    PROVE  (\E S : DelLocks(S)) \/ (\E r \in Requests : PushMessage(r))
BY DEF CommandResent

\* Every variable keeps its type (TypeOK).
THEOREM TypeCorrect == Spec => []TypeOK
<1>1. Init => TypeOK
    BY NoneAssumption, LockTtlAssumption, StuckThresholdAssumption, MaxFaultsAssumption,
       RequestTimeAssumption
    DEF Init, TypeOK, StoreInit, ApiInit, CancelInit, WorkerInit, StoreTypeOK, FaultsTypeOK,
        ApiTypeOK, CancelTypeOK, WorkerTypeOK, SeatStatus, BookingStatus, JobStatus, OldJob,
        RequestPc, CancelPc, WorkerPc
<1>2. TypeOK /\ [Next]_vars => TypeOK'
    <2> SUFFICES ASSUME TypeOK, [Next]_vars
                 PROVE  TypeOK'
        OBVIOUS
    <2>1. UNCHANGED apiVars => ApiTypeOK'
        BY DEF TypeOK, ApiTypeOK, apiVars
    <2>2. UNCHANGED cancelVars => CancelTypeOK'
        BY DEF TypeOK, CancelTypeOK, cancelVars
    <2>3. UNCHANGED workerVars => WorkerTypeOK'
        BY DEF TypeOK, WorkerTypeOK, workerVars
    <2>4. CASE ApiNext /\ UNCHANGED <<cancelVars, workerVars>>
        BY <2>4, <2>2, <2>3, ApiNextType DEF TypeOK
    <2>5. CASE CancelNext /\ UNCHANGED <<apiVars, workerVars>>
        BY <2>5, <2>1, <2>3, CancelNextType DEF TypeOK
    <2>6. CASE WorkerNext /\ UNCHANGED <<apiVars, cancelVars>>
        BY <2>6, <2>1, <2>2, WorkerNextType DEF TypeOK
    <2>7. CASE Tick
        BY <2>7, TickType
    <2>8. CASE RedisRestart /\ UNCHANGED <<apiVars, cancelVars, workerVars>>
        <3>1. StoreTypeOK'
            BY <2>8, LockTtlAssumption
            DEF TypeOK, StoreTypeOK, RedisRestart, seatVars, jobVars, OldJob
        <3>. QED
            BY <2>8, <3>1, <2>1, <2>2, <2>3, FaultType DEF TypeOK, RedisRestart
    <2>9. CASE CommandResent
        <3>1. StoreTypeOK'
            BY <2>9, ResentDeletesOrPushes, DelLocksType, PushMessageType DEF TypeOK
        <3>. QED
            BY <2>9, <3>1, <2>1, <2>2, <2>3, FaultType DEF TypeOK, CommandResent
    <2>10. CASE UNCHANGED vars
        BY <2>10, <2>1, <2>2, <2>3, StoreUnchangedType, NoFaultType DEF TypeOK, vars
    <2>. QED
        BY <2>4, <2>5, <2>6, <2>7, <2>8, <2>9, <2>10 DEF Next
<1>. QED
    BY <1>1, <1>2, PTL DEF Spec
============================================================================
