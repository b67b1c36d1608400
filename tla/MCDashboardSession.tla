------------------------- MODULE MCDashboardSession -------------------------
(* One tab, for TLC.  Without reloads and timeouts an activity never has   *)
(* more than one connection in progress.                                   *)
EXTENDS DashboardSession

MCSlots == 1..2
MCOneSlot == {1}
MCCalls == ({"restore", "refresh"} \cup Logins \cup Logouts \cup Queries) \X Slots
============================================================================
