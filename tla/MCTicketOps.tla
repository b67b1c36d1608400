----------------------------- MODULE MCTicketOps -----------------------------
(* Finite instances of TicketOps. *)
EXTENDS TicketOps, TLC

BookingFaults == {"requestStops", "lockReplyLost", "transactionFails"}
WorkerFaults == {"workerCallFails", "workerStops"}
AllFaults == BookingFaults \cup WorkerFaults
                 \cup {"lockResent", "commandResent", "failsAfterCommit", "cancelStops",
                       "redisRestart"}
SafeFaults == BookingFaults \cup WorkerFaults
LiveFaults == {"requestStops", "commandResent", "workerCallFails", "workerStops"}

\* Requests, seats, sweeps are interchangeable.
Symmetry == Permutations(Requests) \cup Permutations(Seats) \cup Permutations(Sweeps)
============================================================================
