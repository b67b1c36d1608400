--------------------------- MODULE TicketOps_jobs ---------------------------
(***************************************************************************)
(* What overlapping sweeps may do to one job, for any number of them and   *)
(* with every failure: AttemptsBounded, ConfirmationsBounded and           *)
(* PendingHasOpenJob.  The first two rest on a count of the workers that   *)
(* have decided to act and not yet written that they did.  At the end,     *)
(* what a rejected request leaves behind: RejectedLeavesNoLock.            *)
(***************************************************************************)
EXTENDS TicketOps_rows, FiniteSetTheorems

\* Workers that read the attempts below the limit and have not counted theirs.
Beginning(b) == {w \in Workers : workerPc[w] = "begin" /\ current[w] = b}

\* Workers whose attempt is counted and whose confirmation is still to come.
Confirming(b) == {w \in Workers : workerPc[w] \in {"confirm", "notify"} /\ current[w] = b}

\* A consumer has a message in hand, never a job.
ConsumersFindNothing ==
    \A w \in Workers \ Sweeps : workerPc[w] \in {"idle", "findJob"} /\ batch[w] = {}

AttemptsCounted ==
    \A b \in Requests :
        attempts[b] + Cardinality(Beginning(b)) < MaxJobAttempts + Cardinality(Sweeps)

ConfirmationsCounted ==
    \A b \in Requests : /\ IsFiniteSet(Confirming(b))
                        /\ notified[b] + Cardinality(Confirming(b)) <= attempts[b]

CountInv == ConsumersFindNothing /\ AttemptsCounted /\ ConfirmationsCounted

----------------------------------------------------------------------------
(* Sets that change by one element.                                        *)

LEMMA GrowsByOne ==
    ASSUME NEW S, IsFiniteSet(S), NEW x, NEW T \in SUBSET (S \cup {x})
    PROVE  IsFiniteSet(T) /\ Cardinality(T) <= Cardinality(S) + 1
<1>1. Cardinality(S) \in Nat
    BY FS_CardinalityType
<1>2. /\ IsFiniteSet(S \cup {x})
      /\ Cardinality(S \cup {x}) = IF x \in S THEN Cardinality(S) ELSE Cardinality(S) + 1
    BY FS_AddElement
<1>3. Cardinality(T) <= Cardinality(S \cup {x}) /\ IsFiniteSet(T)
    BY <1>2, FS_Subset
<1>4. Cardinality(T) \in Nat
    BY <1>3, FS_CardinalityType
<1>. QED
    BY <1>1, <1>2, <1>3, <1>4

LEMMA ShrinksByOne ==
    ASSUME NEW S, IsFiniteSet(S), NEW x \in S, NEW T \in SUBSET (S \ {x})
    PROVE  IsFiniteSet(T) /\ Cardinality(T) <= Cardinality(S) - 1
<1>1. /\ IsFiniteSet(S \ {x})
      /\ Cardinality(S \ {x}) = Cardinality(S) - 1
    BY FS_RemoveElement
<1>. QED
    BY <1>1, FS_Subset

\* Any part of the sweeps can be counted.
LEMMA SomeSweeps ==
    ASSUME NEW S \in SUBSET Sweeps
    PROVE  /\ IsFiniteSet(S)
           /\ Cardinality(S) \in Nat
           /\ Cardinality(Sweeps) \in Nat
           /\ Cardinality(S) <= Cardinality(Sweeps)
<1>1. IsFiniteSet(S) /\ Cardinality(S) <= Cardinality(Sweeps)
    BY SweepsAssumption, FS_Subset
<1>. QED
    BY <1>1, SweepsAssumption, FS_CardinalityType

----------------------------------------------------------------------------
(* What one worker's step moves.                                           *)

LEMMA WorkerMoves ==
    ASSUME TypeOK, NEW w \in Workers,
           Trigger(w) \/ WorkerStep(w) \/ WorkerCallFails(w) \/ WorkerStops(w)
    PROVE  /\ \A v \in Workers \ {w} : /\ workerPc'[v] = workerPc[v]
                                       /\ current'[v] = current[v]
                                       /\ batch'[v] = batch[v]
           /\ BeginJob(w) \/ UNCHANGED attempts
           /\ Notify(w) \/ UNCHANGED notified
           /\ workerPc'[w] = "begin" => LoadJob(w)
           /\ workerPc'[w] \in {"confirm", "notify"} => BeginJob(w) \/ Confirm(w)
<1> USE DEF TypeOK, StoreTypeOK, WorkerTypeOK, WorkerGoto, JobReturns, storeVars, jobVars
<1>1. CASE Trigger(w) \/ WorkerCallFails(w) \/ WorkerStops(w)
    BY <1>1 DEF Trigger, Sweep, ReceiveMessage, PopMessage, WorkerCallFails, SetJobStatus,
                WorkerStops
<1>2. CASE (\E b \in Requests : NextJob(w, b)) \/ ProcessMessage(w) \/ LoadJob(w)
    BY <1>2 DEF NextJob, ProcessMessage, LoadJob
<1>3. CASE FailJob(w) \/ FailBooking(w) \/ BeginJob(w) \/ Confirm(w)
    BY <1>3 DEF FailJob, FailBooking, BeginJob, Confirm, SetJobStatus, SetBookingStatus,
                StartAttempt
<1>4. CASE Notify(w) \/ ReleaseSeatLocks(w) \/ JobDone(w) \/ RetryLater(w)
    BY <1>4 DEF Notify, ReleaseSeatLocks, JobDone, RetryLater, SetJobStatus,
                RecordConfirmation, DelLocks
<1>. QED
    BY <1>1, <1>2, <1>3, <1>4 DEF WorkerStep

\* No job has the id that a message carries.
LEMMA ConsumersStep ==
    ASSUME TypeOK, ConsumersFindNothing, WorkerNext
    PROVE  ConsumersFindNothing'
<1> USE DEF TypeOK, WorkerTypeOK, ConsumersFindNothing
<1>1. PICK w \in Workers :
          \/ Trigger(w)
          \/ WorkerStep(w)
          \/ WorkerCallFails(w)
          \/ WorkerStops(w)
    BY DEF WorkerNext
<1>2. \A v \in Workers \ {w} : workerPc'[v] = workerPc[v] /\ batch'[v] = batch[v]
    BY <1>1, WorkerMoves
<1>3. ASSUME w \notin Sweeps
      PROVE  workerPc'[w] \in {"idle", "findJob"} /\ batch'[w] = {}
    <2>1. workerPc[w] \in {"idle", "findJob"} /\ batch[w] = {}
        BY <1>3
    <2>2. CASE Trigger(w)
        BY <1>3, <2>1, <2>2 DEF Trigger, Sweep, ReceiveMessage
    <2>3. CASE ProcessMessage(w)
        <3>1. FindJob(current[w]) = {}
            BY <2>3, JobIdAssumption DEF ProcessMessage, FindJob
        <3>. QED
            BY <2>1, <2>3, <3>1 DEF ProcessMessage, JobReturns
    <2>4. CASE WorkerStops(w)
        BY <2>1, <2>4 DEF WorkerStops
    <2>5. Trigger(w) \/ ProcessMessage(w) \/ WorkerStops(w)
        BY <1>1, <2>1
        DEF WorkerStep, NextJob, LoadJob, FailJob, FailBooking, BeginJob, Confirm, Notify,
            ReleaseSeatLocks, JobDone, RetryLater, WorkerCallFails, TryPc
    <2>. QED
        BY <2>2, <2>3, <2>4, <2>5
<1>. QED
    BY <1>2, <1>3

----------------------------------------------------------------------------
(* The counts.                                                             *)

LEMMA OnlySweepsBegin ==
    ASSUME ConsumersFindNothing, NEW b
    PROVE  Beginning(b) \in SUBSET Sweeps
BY DEF ConsumersFindNothing, Beginning

\* The limit is checked when a worker joins Beginning, and each of the sweeps
\* may be there; a counted attempt leaves it.
LEMMA AttemptsStep ==
    ASSUME TypeOK, ConsumersFindNothing, ConsumersFindNothing', AttemptsCounted, WorkerNext
    PROVE  AttemptsCounted'
<1> USE DEF TypeOK, StoreTypeOK, WorkerTypeOK
<1>1. PICK w \in Workers :
          \/ Trigger(w)
          \/ WorkerStep(w)
          \/ WorkerCallFails(w)
          \/ WorkerStops(w)
    BY DEF WorkerNext
<1>2. SUFFICES ASSUME NEW b \in Requests
               PROVE  attempts'[b] + Cardinality(Beginning(b)') < MaxJobAttempts + Cardinality(Sweeps)
    BY DEF AttemptsCounted
<1>3. /\ IsFiniteSet(Beginning(b)) /\ Cardinality(Beginning(b)) \in Nat
      /\ IsFiniteSet(Beginning(b)') /\ Cardinality(Beginning(b)') \in Nat
      /\ Cardinality(Sweeps) \in Nat
      /\ Cardinality(Beginning(b)') <= Cardinality(Sweeps)
    <2>1. Beginning(b) \in SUBSET Sweeps /\ Beginning(b)' \in SUBSET Sweeps
        BY DEF ConsumersFindNothing, Beginning
    <2>. QED
        BY <2>1, SomeSweeps
<1>4. attempts[b] + Cardinality(Beginning(b)) < MaxJobAttempts + Cardinality(Sweeps)
    BY DEF AttemptsCounted
<1>5. CASE LoadJob(w) /\ workerPc'[w] = "begin" /\ current[w] = b
    <2>1. attempts[b] < MaxJobAttempts /\ attempts'[b] = attempts[b]
        BY <1>5 DEF LoadJob, WorkerGoto, JobReturns, storeVars, jobVars
    <2>. QED
        BY <1>3, <2>1, MaxJobAttemptsAssumption
<1>6. CASE BeginJob(w) /\ current[w] = b
    <2>1. /\ attempts'[b] = attempts[b] + 1
          /\ w \in Beginning(b)
          /\ Beginning(b)' \in SUBSET (Beginning(b) \ {w})
        BY <1>6 DEF BeginJob, StartAttempt, WorkerGoto, Beginning
    <2>2. Cardinality(Beginning(b)') <= Cardinality(Beginning(b)) - 1
        BY <1>3, <2>1, ShrinksByOne
    <2>. QED
        BY <1>3, <1>4, <2>1, <2>2, MaxJobAttemptsAssumption
<1>7. CASE /\ ~(LoadJob(w) /\ workerPc'[w] = "begin" /\ current[w] = b)
           /\ ~(BeginJob(w) /\ current[w] = b)
    <2>1. attempts'[b] = attempts[b]
        BY <1>1, <1>7, WorkerMoves DEF BeginJob, StartAttempt
    <2>2. LoadJob(w) /\ workerPc'[w] = "begin" => current'[w] = current[w]
        BY DEF LoadJob, WorkerGoto, JobReturns
    <2>3. Beginning(b)' \in SUBSET Beginning(b)
        BY <1>1, <1>7, <2>2, WorkerMoves DEF Beginning
    <2>4. Cardinality(Beginning(b)') <= Cardinality(Beginning(b))
        BY <1>3, <2>3, FS_Subset
    <2>. QED
        BY <1>3, <1>4, <2>1, <2>4, MaxJobAttemptsAssumption
<1>. QED
    BY <1>5, <1>6, <1>7

\* An attempt that is counted may confirm once: it leaves Confirming as it does.
LEMMA ConfirmationsStep ==
    ASSUME TypeOK, ConfirmationsCounted, WorkerNext
    PROVE  ConfirmationsCounted'
<1> USE DEF TypeOK, StoreTypeOK, WorkerTypeOK
<1>1. PICK w \in Workers :
          \/ Trigger(w)
          \/ WorkerStep(w)
          \/ WorkerCallFails(w)
          \/ WorkerStops(w)
    BY DEF WorkerNext
<1>2. SUFFICES ASSUME NEW b \in Requests
               PROVE  /\ IsFiniteSet(Confirming(b)')
                      /\ notified'[b] + Cardinality(Confirming(b)') <= attempts'[b]
    BY DEF ConfirmationsCounted
<1>3. /\ IsFiniteSet(Confirming(b)) /\ Cardinality(Confirming(b)) \in Nat
      /\ notified[b] + Cardinality(Confirming(b)) <= attempts[b]
    BY FS_CardinalityType DEF ConfirmationsCounted
<1>4. IsFiniteSet(Confirming(b)') => Cardinality(Confirming(b)') \in Nat
    BY FS_CardinalityType
<1>5. CASE BeginJob(w) /\ current[w] = b
    <2>1. /\ attempts'[b] = attempts[b] + 1 /\ notified'[b] = notified[b]
          /\ Confirming(b)' \in SUBSET (Confirming(b) \cup {w})
        BY <1>5 DEF BeginJob, StartAttempt, WorkerGoto, Confirming
    <2>2. /\ IsFiniteSet(Confirming(b)')
          /\ Cardinality(Confirming(b)') <= Cardinality(Confirming(b)) + 1
        BY <1>3, <2>1, GrowsByOne
    <2>. QED
        BY <1>3, <1>4, <2>1, <2>2
<1>6. CASE Notify(w) /\ current[w] = b
    <2>1. /\ attempts'[b] = attempts[b] /\ notified'[b] = notified[b] + 1
          /\ w \in Confirming(b)
          /\ Confirming(b)' \in SUBSET (Confirming(b) \ {w})
        BY <1>6 DEF Notify, RecordConfirmation, WorkerGoto, Confirming, jobVars
    <2>2. /\ IsFiniteSet(Confirming(b)')
          /\ Cardinality(Confirming(b)') <= Cardinality(Confirming(b)) - 1
        BY <1>3, <2>1, ShrinksByOne
    <2>. QED
        BY <1>3, <1>4, <2>1, <2>2
<1>7. CASE ~(BeginJob(w) /\ current[w] = b) /\ ~(Notify(w) /\ current[w] = b)
    <2>1. attempts'[b] = attempts[b] /\ notified'[b] = notified[b]
        BY <1>1, <1>7, WorkerMoves DEF BeginJob, StartAttempt, Notify, RecordConfirmation
    <2>2. BeginJob(w) \/ Confirm(w) => current'[w] = current[w]
        BY DEF BeginJob, Confirm, WorkerGoto
    <2>3. Confirm(w) => workerPc[w] = "confirm"
        BY DEF Confirm
    <2>4. Confirming(b)' \in SUBSET Confirming(b)
        BY <1>1, <1>7, <2>2, <2>3, WorkerMoves DEF Confirming
    <2>5. /\ IsFiniteSet(Confirming(b)')
          /\ Cardinality(Confirming(b)') <= Cardinality(Confirming(b))
        BY <1>3, <2>4, FS_Subset
    <2>. QED
        BY <1>3, <1>4, <2>1, <2>5
<1>. QED
    BY <1>5, <1>6, <1>7

\* CountInv is inductive.
LEMMA CountInvAlways == Spec => []CountInv
<1>1. Init => CountInv
    <2> SUFFICES ASSUME Init
                 PROVE  CountInv
        OBVIOUS
    <2> USE DEF Init, StoreInit, WorkerInit
    <2>1. ConsumersFindNothing
        BY DEF ConsumersFindNothing
    <2>2. \A b \in Requests : Beginning(b) = {} /\ Confirming(b) = {}
        BY DEF Beginning, Confirming
    <2>3. Cardinality(Sweeps) \in Nat
        BY SweepsAssumption, FS_CardinalityType
    <2>4. \A b \in Requests : /\ Cardinality(Beginning(b)) = 0
                              /\ IsFiniteSet(Confirming(b)) /\ Cardinality(Confirming(b)) = 0
        BY <2>2, FS_EmptySet, Zenon
    <2>5. AttemptsCounted
        BY <2>3, <2>4, MaxJobAttemptsAssumption DEF AttemptsCounted
    <2>6. ConfirmationsCounted
        BY <2>4 DEF ConfirmationsCounted
    <2>. QED
        BY <2>1, <2>5, <2>6 DEF CountInv
<1>2. TypeOK /\ CountInv /\ [Next]_vars => CountInv'
    <2> SUFFICES ASSUME TypeOK, CountInv, [Next]_vars
                 PROVE  CountInv'
        OBVIOUS
    <2> USE DEF CountInv
    <2>1. CASE WorkerNext /\ UNCHANGED <<apiVars, cancelVars>>
        <3>1. ConsumersFindNothing'
            BY <2>1, ConsumersStep
        <3>. QED
            BY <2>1, <3>1, AttemptsStep, ConfirmationsStep
    <2>2. CASE UNCHANGED <<workerPc, batch, current, attempts, notified>>
        BY <2>2
        DEF ConsumersFindNothing, AttemptsCounted, ConfirmationsCounted, Beginning, Confirming
    <2>. QED
        BY <2>1, <2>2, OthersLeaveJobs
<1>. QED
    BY <1>1, <1>2, TypeCorrect, PTL DEF Spec

\* Overlapping sweeps exceed the limit of attempts by less than their number,
\* however many they are and whatever fails (AttemptsBounded).
THEOREM AttemptsAreBounded == Spec => []AttemptsBounded
<1>1. TypeOK /\ CountInv => AttemptsBounded
    <2> SUFFICES ASSUME TypeOK, CountInv, NEW b \in Requests
                 PROVE  attempts[b] < MaxJobAttempts + Cardinality(Sweeps)
        BY DEF AttemptsBounded
    <2>1. Cardinality(Beginning(b)) \in Nat /\ Cardinality(Sweeps) \in Nat
        BY OnlySweepsBegin, SomeSweeps DEF CountInv
    <2>2. attempts[b] \in Nat
        BY DEF TypeOK, StoreTypeOK
    <2>. QED
        BY <2>1, <2>2, MaxJobAttemptsAssumption DEF CountInv, AttemptsCounted
<1>. QED
    BY <1>1, CountInvAlways, TypeCorrect, PTL

\* A booking has at most as many confirmations as attempts (ConfirmationsBounded).
THEOREM ConfirmationsAreBounded == Spec => []ConfirmationsBounded
<1>1. TypeOK /\ CountInv => ConfirmationsBounded
    BY FS_CardinalityType
    DEF CountInv, ConfirmationsCounted, ConfirmationsBounded, TypeOK, StoreTypeOK
<1>. QED
    BY <1>1, CountInvAlways, TypeCorrect, PTL

----------------------------------------------------------------------------
(* Pending bookings are not lost.                                          *)

\* A worker stops between giving up the job of b and giving up b.
StopsGivingUp(b) ==
    \E w \in Workers : workerPc[w] = "failBooking" /\ current[w] = b /\ WorkerStops(w)

LEMMA WorkerKeepsInHand ==
    ASSUME JobInv, WorkerNext, NEW b \in Requests,
           bookingStatus[b] = "PENDING" => InHand(b), bookingStatus'[b] = "PENDING"
    PROVE  InHand(b)' \/ StopsGivingUp(b)
<1> USE DEF JobInv, RowsExist, TypeOK, StoreTypeOK, WorkerTypeOK, InHand, WorkerGoto, storeVars,
            jobVars
<1>1. PICK w \in Workers :
          \/ Trigger(w)
          \/ WorkerStep(w)
          \/ WorkerCallFails(w)
          \/ WorkerStops(w)
    BY DEF WorkerNext
<1>2. \A v \in Workers \ {w} : workerPc'[v] = workerPc[v] /\ current'[v] = current[v]
    BY <1>1, WorkerMoves
<1>3. ASSUME UNCHANGED <<bookingStatus, jobStatus>>, workerPc[w] # "failBooking"
      PROVE  InHand(b)'
    BY <1>2, <1>3
<1>4. CASE Trigger(w)
    BY <1>3, <1>4 DEF Trigger, Sweep, ReceiveMessage, PopMessage
<1>5. CASE (\E c \in Requests : NextJob(w, c)) \/ ProcessMessage(w) \/ LoadJob(w)
    BY <1>3, <1>5 DEF NextJob, ProcessMessage, LoadJob
<1>6. CASE Notify(w) \/ ReleaseSeatLocks(w)
    BY <1>3, <1>6 DEF Notify, ReleaseSeatLocks, RecordConfirmation, DelLocks
<1>7. CASE Confirm(w)
    BY <1>2, <1>7 DEF Confirm, SetBookingStatus
<1>8. CASE FailJob(w)
    BY <1>2, <1>8 DEF FailJob, SetJobStatus
<1>9. CASE FailBooking(w)
    <2>1. current[w] # b
        BY <1>9 DEF FailBooking, SetBookingStatus
    <2>. QED
        BY <1>2, <1>9, <2>1 DEF FailBooking, SetBookingStatus
<1>10. CASE BeginJob(w) \/ RetryLater(w)
    BY <1>2, <1>10 DEF BeginJob, RetryLater, StartAttempt, SetJobStatus
<1>11. ASSUME workerPc[w] = "done", SetJobStatus(current[w], "DONE")
       PROVE  InHand(b)'
    <2>1. current[w] # b
        BY <1>11 DEF SetJobStatus, WorkerProgress, Progress
    <2>. QED
        BY <1>2, <1>11, <2>1 DEF SetJobStatus
<1>12. CASE JobDone(w)
    BY <1>11, <1>12 DEF JobDone
<1>13. CASE WorkerCallFails(w)
    BY <1>3, <1>11, <1>13 DEF WorkerCallFails, TryPc
<1>14. CASE WorkerStops(w)
    <2>1. UNCHANGED <<bookingStatus, jobStatus>>
        BY <1>14 DEF WorkerStops
    <2>2. CASE workerPc[w] = "failBooking" /\ current[w] = b
        BY <1>14, <2>2 DEF StopsGivingUp
    <2>3. CASE ~(workerPc[w] = "failBooking" /\ current[w] = b)
        BY <1>2, <2>1, <2>3
    <2>. QED
        BY <2>2, <2>3
<1>. QED
    BY <1>1, <1>4, <1>5, <1>6, <1>7, <1>8, <1>9, <1>10, <1>12, <1>13, <1>14 DEF WorkerStep

\* A pending booking that is in hand stays so, but for one failure.
LEMMA StepKeepsInHand ==
    ASSUME JobInv, TypeOK', [Next]_vars, NEW b \in Requests,
           bookingStatus[b] = "PENDING" => InHand(b), bookingStatus'[b] = "PENDING"
    PROVE  InHand(b)' \/ StopsGivingUp(b)
<1>1. CASE WorkerNext /\ UNCHANGED <<apiVars, cancelVars>>
    BY <1>1, WorkerKeepsInHand
<1>2. CASE ~(WorkerNext /\ UNCHANGED <<apiVars, cancelVars>>)
    <2>1. UNCHANGED <<workerPc, current>>
        BY <1>2, OthersLeaveJobs
    <2>2. \/ jobStatus'[b] = "PENDING"
          \/ jobStatus'[b] = jobStatus[b] /\ bookingStatus[b] = "PENDING"
        BY <1>2, OthersLeaveRows DEF JobInv
    <2>. QED
        BY <2>1, <2>2 DEF InHand
<1>. QED
    BY <1>1, <1>2

\* No step loses a pending booking, but a failure between giving up its job and
\* giving it up itself (PendingHasOpenJob).
THEOREM PendingKeepsItsJob == Spec => PendingHasOpenJob
<1> DEFINE Kept ==
        \A b \in Requests :
            \/ (bookingStatus[b] = "PENDING" => InHand(b))
                   => (bookingStatus'[b] = "PENDING" => InHand(b)')
            \/ /\ faultsLeft' < faultsLeft
               /\ \E w \in Workers : workerPc[w] = "failBooking" /\ current[w] = b
<1>1. JobInv /\ TypeOK' /\ [Next]_vars => Kept
    <2> SUFFICES ASSUME JobInv, TypeOK', [Next]_vars, NEW b \in Requests, StopsGivingUp(b)
                 PROVE  faultsLeft' < faultsLeft
        BY StepKeepsInHand DEF StopsGivingUp
    <2>. QED
        BY MaxFaultsAssumption
        DEF StopsGivingUp, WorkerStops, Fault, JobInv, RowsExist, TypeOK, FaultsTypeOK
<1>2. JobInv /\ TypeOK' /\ [Next]_vars => [Kept]_vars
    BY <1>1
<1>. QED
    BY <1>2, JobInvAlways, TypeCorrect, PTL DEF Spec, PendingHasOpenJob

\* As long as the worker's process does not die, nor a call outside its try
\* block fail, every pending booking has an open job that the sweep finds, or a
\* worker that is about to give it up.
THEOREM PendingNeverLost ==
    ASSUME "workerStops" \notin FaultKinds
    PROVE  Spec => [](\A b \in Requests : bookingStatus[b] = "PENDING" => InHand(b))
<1> DEFINE PendingInHand == \A b \in Requests : bookingStatus[b] = "PENDING" => InHand(b)
<1>1. Init => PendingInHand
    BY DEF Init, StoreInit
<1>2. JobInv /\ TypeOK' /\ PendingInHand /\ [Next]_vars => PendingInHand'
    <2> SUFFICES ASSUME JobInv, TypeOK', PendingInHand, [Next]_vars, NEW b \in Requests,
                        bookingStatus'[b] = "PENDING"
                 PROVE  InHand(b)'
        OBVIOUS
    <2>1. bookingStatus[b] = "PENDING" => InHand(b)
        OBVIOUS
    <2>2. ~StopsGivingUp(b)
        BY DEF StopsGivingUp, WorkerStops, Fault
    <2>. QED
        BY <2>1, <2>2, StepKeepsInHand
<1>. QED
    BY <1>1, <1>2, JobInvAlways, TypeCorrect, PTL DEF Spec

----------------------------------------------------------------------------
(* Rejected requests.                                                      *)

\* While a request may still be rejected, it knows of every lock it has.
LocksAreKnown ==
    \A s \in Seats, r \in Requests :
        seatLock[s] = r /\ reqPc[r] \in {"acquire", "rollback"} => s \in held[r]

LEMMA ApiLocksKnown ==
    ASSUME JobInv, "lockResent" \notin FaultKinds, LocksAreKnown, RejectedLeavesNoLock, ApiNext
    PROVE  LocksAreKnown' /\ RejectedLeavesNoLock'
<1> USE NoneAssumption
    DEF JobInv, RowsExist, TypeOK, StoreTypeOK, ApiTypeOK, LocksAreKnown, RejectedLeavesNoLock,
        storeVars, seatVars, jobVars, lockVars
<1>1. PICK r \in Requests :
          \/ \E S \in SUBSET Seats : Receive(r, S)
          \/ RequestStep(r)
          \/ RequestFault(r)
    BY DEF ApiNext
<1>2. CASE \E S \in SUBSET Seats : Receive(r, S)
    BY <1>2 DEF Receive
<1>3. CASE SeatsAvailable(r) \/ SeatsTaken(r)
    <2>1. \A s \in Seats : seatLock[s] # r
        BY <1>3 DEF SeatsAvailable, SeatsTaken, LocksOnOwnSeats
    <2>. QED
        BY <1>3, <2>1 DEF SeatsAvailable, SeatsTaken, Continue, Finish
<1>4. CASE \E s \in Seats : AcquireLock(r, s)
    BY <1>4 DEF AcquireLock, SetNx, LockTaken
<1>5. CASE \E s \in Seats : LockConflict(r, s)
    <2>1. UNCHANGED seatLock /\ reqPc[r] = "acquire"
        BY <1>5 DEF LockConflict
    <2>2. CASE Continue(r, "rollback")
        BY <2>1, <2>2 DEF Continue
    <2>3. CASE held[r] = {} /\ Finish(r, "rejected")
        BY <2>1, <2>3 DEF Finish
    <2>. QED
        BY <1>5, <2>2, <2>3 DEF LockConflict
<1>6. CASE Rollback(r)
    BY <1>6 DEF Rollback, DelLocks, Finish
<1>7. CASE Transaction(r) \/ Push(r)
    BY <1>7 DEF Transaction, Push, CreateBooking, PushMessage, Continue, Finish
<1>8. CASE Release(r)
    BY <1>8 DEF Release, DelLocks, Finish
<1>9. CASE RequestStops(r) \/ TransactionFails(r) \/ FailsAfterCommit(r)
    BY <1>9 DEF RequestStops, TransactionFails, FailsAfterCommit, PushMessage, Continue, Finish
<1>10. CASE \E s \in Seats : LockReplyLost(r, s)
    BY <1>10 DEF LockReplyLost, SetNx, Finish
<1>11. ~ \E s \in Seats : LockResent(r, s)
    BY DEF LockResent, Fault
<1>. QED
    BY <1>1, <1>2, <1>3, <1>4, <1>5, <1>6, <1>7, <1>8, <1>9, <1>10, <1>11
    DEF RequestStep, RequestFault

\* A rejected request leaves no lock behind, whatever else happens, unless a SET
\* is sent again and meets the key that it set itself (RejectedLeavesNoLock).
THEOREM RejectedCleansUp ==
    ASSUME "lockResent" \notin FaultKinds
    PROVE  Spec => []RejectedLeavesNoLock
<1>1. Init => LocksAreKnown /\ RejectedLeavesNoLock
    BY DEF Init, StoreInit, ApiInit, LocksAreKnown, RejectedLeavesNoLock
<1>2. JobInv /\ LocksAreKnown /\ RejectedLeavesNoLock /\ [Next]_vars
          => LocksAreKnown' /\ RejectedLeavesNoLock'
    <2> SUFFICES ASSUME JobInv, LocksAreKnown, RejectedLeavesNoLock, [Next]_vars
                 PROVE  LocksAreKnown' /\ RejectedLeavesNoLock'
        OBVIOUS
    <2>1. CASE ApiNext
        BY <2>1, ApiLocksKnown
    <2>2. CASE ~ApiNext
        <3>1. \A s \in Seats : seatLock'[s] = seatLock[s] \/ seatLock'[s] = None
            BY <2>2, OtherLocks
        <3>2. UNCHANGED <<reqPc, held>>
            BY <2>2 DEF Next, Tick, CommandResent, vars, apiVars
        <3>. QED
            BY <3>1, <3>2, NoneAssumption DEF LocksAreKnown, RejectedLeavesNoLock
    <2>. QED
        BY <2>1, <2>2
<1>. QED
    BY <1>1, <1>2, JobInvAlways, PTL DEF Spec
============================================================================
