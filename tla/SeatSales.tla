------------------------------ MODULE SeatSales ------------------------------
(***************************************************************************)
(* What TicketOps promises its customers about the seats of an event: a    *)
(* sale takes all of its seats or none, a seat is sold at most once and    *)
(* never changes hands, and a sale is decided, confirmed or failed, but    *)
(* never undone.  Nothing is said of locks, jobs, messages or time.        *)
(***************************************************************************)
CONSTANTS Seats, Customers, Nobody

VARIABLES
    soldTo,  \* the customer each seat is sold to, or Nobody
    sale     \* "NONE", "PENDING", "CONFIRMED" or "FAILED", for each customer

salesVars == <<soldTo, sale>>

SalesInit ==
    /\ soldTo = [s \in Seats |-> Nobody]
    /\ sale = [c \in Customers |-> "NONE"]

\* Customer c buys the free seats S.
Sell(c, S) ==
    /\ sale[c] = "NONE"
    /\ S # {}
    /\ \A s \in S : soldTo[s] = Nobody
    /\ soldTo' = [s \in Seats |-> IF s \in S THEN c ELSE soldTo[s]]
    /\ sale' = [sale EXCEPT ![c] = "PENDING"]

\* A sale is confirmed or given up; its seats stay sold.
Decide(c, outcome) ==
    /\ sale[c] # "NONE"
    /\ sale' = [sale EXCEPT ![c] = outcome]
    /\ UNCHANGED soldTo

SalesNext ==
    \E c \in Customers :
        \/ \E S \in SUBSET Seats : Sell(c, S)
        \/ \E outcome \in {"CONFIRMED", "FAILED"} : Decide(c, outcome)

SalesSpec == SalesInit /\ [][SalesNext]_salesVars
============================================================================
