--------------------------- MODULE BookingsWorker ---------------------------
(***************************************************************************)
(* bookings-worker.  Two triggers run the same processJob: the queue       *)
(* consumer, which pops a message and looks its job up, and the            *)
(* reconciliation sweep, which cron starts every 30 seconds whether or not *)
(* the run before has ended; each member of Sweeps is one such run at a    *)
(* time.                                                                   *)
(*                                                                         *)
(*   load -> begin -> confirm -> notify -> release -> done                 *)
(*     |                 \__________ catch __________/                     *)
(*     +-> failJob -> failBooking                                          *)
(***************************************************************************)
EXTENDS TicketStore

CONSTANTS
    Sweeps,          \* sweep runs that may overlap
    Consumers,       \* queue consumers
    MaxJobAttempts,  \* MAX_JOB_ATTEMPTS
    BatchSize        \* jobs one sweep takes (25)

ASSUME WorkersAssumption == Sweeps \cap Consumers = {}
ASSUME SweepsAssumption == IsFiniteSet(Sweeps)
ASSUME MaxJobAttemptsAssumption == MaxJobAttempts \in Nat \ {0}
ASSUME BatchSizeAssumption == BatchSize \in Nat \ {0}

VARIABLES
    workerPc,  \* where each worker is
    batch,     \* the jobs a sweep still has to process: the rest of stuckJobs
    current    \* the job in hand, or the jobId of the message in hand

workerVars == <<workerPc, batch, current>>

Workers == Sweeps \cup Consumers
TryPc == {"confirm", "notify", "release", "done"}
WorkerPc == TryPc \cup {"idle", "findJob", "next", "load", "begin", "catch",
                        "failJob", "failBooking"}

WorkerTypeOK ==
    /\ workerPc \in [Workers -> WorkerPc]
    /\ batch \in [Workers -> SUBSET Requests]
    /\ current \in [Workers -> Requests \cup {None}]
    /\ \A w \in Workers : workerPc[w] \notin {"idle", "next"} => current[w] # None

WorkerInit ==
    /\ workerPc = [w \in Workers |-> "idle"]
    /\ batch = [w \in Workers |-> {}]
    /\ current = [w \in Workers |-> None]

WorkerGoto(w, pc) ==
    /\ workerPc' = [workerPc EXCEPT ![w] = pc]
    /\ UNCHANGED <<batch, current>>

\* processJob returns: the sweep goes on with its batch, the consumer with its
\* loop.
JobReturns(w) ==
    /\ workerPc' = [workerPc EXCEPT ![w] = IF batch[w] = {} THEN "idle" ELSE "next"]
    /\ current' = [current EXCEPT ![w] = None]
    /\ UNCHANGED batch

----------------------------------------------------------------------------
(* The two triggers.                                                       *)

\* sweep(): findMany returns at most BatchSize stuck jobs, in no order.
Sweep(w, S) ==
    /\ w \in Sweeps
    /\ workerPc[w] = "idle"
    /\ S # {} /\ S \subseteq StuckJobs
    /\ Cardinality(S) <= BatchSize
    /\ S = StuckJobs \/ Cardinality(S) = BatchSize
    /\ batch' = [batch EXCEPT ![w] = S]
    /\ workerPc' = [workerPc EXCEPT ![w] = "next"]
    /\ UNCHANGED <<current, storeVars, faultsLeft>>

\* The sweep's loop takes the next job of the batch.
NextJob(w, b) ==
    /\ workerPc[w] = "next"
    /\ b \in batch[w]
    /\ batch' = [batch EXCEPT ![w] = @ \ {b}]
    /\ current' = [current EXCEPT ![w] = b]
    /\ workerPc' = [workerPc EXCEPT ![w] = "load"]
    /\ UNCHANGED <<storeVars, faultsLeft>>

\* The consumer pops the oldest message.
ReceiveMessage(w) ==
    /\ w \in Consumers
    /\ workerPc[w] = "idle"
    /\ PopMessage
    /\ current' = [current EXCEPT ![w] = Head(queue)]
    /\ workerPc' = [workerPc EXCEPT ![w] = "findJob"]
    /\ UNCHANGED <<batch, faultsLeft>>

\* processMessage: without a job of that id the message is dropped.
ProcessMessage(w) ==
    /\ workerPc[w] = "findJob"
    /\ IF FindJob(current[w]) = {}
       THEN JobReturns(w)
       ELSE /\ current' = [current EXCEPT ![w] = CHOOSE b \in FindJob(current[w]) : TRUE]
            /\ workerPc' = [workerPc EXCEPT ![w] = "load"]
            /\ UNCHANGED batch
    /\ UNCHANGED <<storeVars, faultsLeft>>

----------------------------------------------------------------------------
(* processJob.                                                             *)

\* As LoadJob with the limit of attempts one lower.
LoadJobGivesUpEarly(w) ==
    /\ workerPc[w] = "load"
    /\ \/ jobStatus[current[w]] = "DONE" /\ JobReturns(w)
       \/ /\ jobStatus[current[w]] # "DONE"
          /\ attempts[current[w]] >= MaxJobAttempts - 1
          /\ WorkerGoto(w, "failJob")
       \/ /\ jobStatus[current[w]] # "DONE"
          /\ attempts[current[w]] < MaxJobAttempts - 1
          /\ WorkerGoto(w, "begin")
    /\ UNCHANGED <<storeVars, faultsLeft>>

\* As LoadJob with the limit of attempts one higher.
LoadJobGivesUpLate(w) ==
    /\ workerPc[w] = "load"
    /\ \/ jobStatus[current[w]] = "DONE" /\ JobReturns(w)
       \/ /\ jobStatus[current[w]] # "DONE"
          /\ attempts[current[w]] > MaxJobAttempts
          /\ WorkerGoto(w, "failJob")
       \/ /\ jobStatus[current[w]] # "DONE"
          /\ attempts[current[w]] <= MaxJobAttempts
          /\ WorkerGoto(w, "begin")
    /\ UNCHANGED <<storeVars, faultsLeft>>

\* The job is read, and what to do with it decided on what was read.
LoadJob(w) ==
    /\ workerPc[w] = "load"
    /\ \/ jobStatus[current[w]] = "DONE" /\ JobReturns(w)
       \/ /\ jobStatus[current[w]] # "DONE"
          /\ attempts[current[w]] >= MaxJobAttempts
          /\ WorkerGoto(w, "failJob")
       \/ /\ jobStatus[current[w]] # "DONE"
          /\ attempts[current[w]] < MaxJobAttempts
          /\ WorkerGoto(w, "begin")
    /\ UNCHANGED <<storeVars, faultsLeft>>

\* As FailJob, leaving the booking as it is.
FailJobOnly(w) ==
    /\ workerPc[w] = "failJob"
    /\ SetJobStatus(current[w], "FAILED")
    /\ JobReturns(w)
    /\ UNCHANGED faultsLeft

\* Too many attempts: the job is FAILED first, the booking by a second call.
FailJob(w) ==
    /\ workerPc[w] = "failJob"
    /\ SetJobStatus(current[w], "FAILED")
    /\ WorkerGoto(w, "failBooking")
    /\ UNCHANGED faultsLeft

FailBooking(w) ==
    /\ workerPc[w] = "failBooking"
    /\ SetBookingStatus(current[w], "FAILED")
    /\ JobReturns(w)
    /\ UNCHANGED faultsLeft

BeginJob(w) ==
    /\ workerPc[w] = "begin"
    /\ StartAttempt(current[w])
    /\ WorkerGoto(w, "confirm")
    /\ UNCHANGED faultsLeft

\* The QR code is made first; its failure is swallowed.
Confirm(w) ==
    /\ workerPc[w] = "confirm"
    /\ SetBookingStatus(current[w], "CONFIRMED")
    /\ WorkerGoto(w, "notify")
    /\ UNCHANGED faultsLeft

Notify(w) ==
    /\ workerPc[w] = "notify"
    /\ RecordConfirmation(current[w])
    /\ WorkerGoto(w, "release")
    /\ UNCHANGED faultsLeft

ReleaseSeatLocks(w) ==
    /\ workerPc[w] = "release"
    /\ DelLocks(bookingSeats[current[w]])
    /\ WorkerGoto(w, "done")
    /\ UNCHANGED faultsLeft

JobDone(w) ==
    /\ workerPc[w] = "done"
    /\ SetJobStatus(current[w], "DONE")
    /\ JobReturns(w)
    /\ UNCHANGED faultsLeft

\* As RetryLater, closing the job.
CloseAfterFailure(w) ==
    /\ workerPc[w] = "catch"
    /\ SetJobStatus(current[w], "DONE")
    /\ JobReturns(w)
    /\ UNCHANGED faultsLeft

\* As RetryLater, starting over at once.
RetryAtOnce(w) ==
    /\ workerPc[w] = "catch"
    /\ WorkerGoto(w, "confirm")
    /\ UNCHANGED <<storeVars, faultsLeft>>

\* The catch block makes the job PENDING again.
RetryLater(w) ==
    /\ workerPc[w] = "catch"
    /\ SetJobStatus(current[w], "PENDING")
    /\ JobReturns(w)
    /\ UNCHANGED faultsLeft

----------------------------------------------------------------------------
\* A call inside the try block fails; the last one may have taken effect.  (An
\* earlier call that takes effect and loses its reply leaves the store as when
\* the call after it fails.)
WorkerCallFails(w) ==
    /\ Fault("workerCallFails")
    /\ workerPc[w] \in TryPc
    /\ WorkerGoto(w, "catch")
    /\ \/ UNCHANGED storeVars
       \/ workerPc[w] = "done" /\ SetJobStatus(current[w], "DONE")

\* The process dies, or a call outside the try block fails and the exception
\* ends the sweep: the rest of the batch is dropped.
WorkerStops(w) ==
    /\ Fault("workerStops")
    /\ workerPc[w] # "idle"
    /\ workerPc' = [workerPc EXCEPT ![w] = "idle"]
    /\ batch' = [batch EXCEPT ![w] = {}]
    /\ current' = [current EXCEPT ![w] = None]
    /\ UNCHANGED storeVars

\* What a worker does once it has a message or a batch.
WorkerStep(w) ==
    \/ \E b \in Requests : NextJob(w, b)
    \/ ProcessMessage(w)
    \/ LoadJob(w)
    \/ FailJob(w)
    \/ FailBooking(w)
    \/ BeginJob(w)
    \/ Confirm(w)
    \/ Notify(w)
    \/ ReleaseSeatLocks(w)
    \/ JobDone(w)
    \/ RetryLater(w)

Trigger(w) ==
    \/ \E S \in SUBSET Requests : Sweep(w, S)
    \/ ReceiveMessage(w)

WorkerNext ==
    \E w \in Workers :
        \/ Trigger(w)
        \/ WorkerStep(w)
        \/ WorkerCallFails(w)
        \/ WorkerStops(w)
============================================================================
