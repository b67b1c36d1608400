------------------------- MODULE MCEventsAdminPage -------------------------
(* Two events and two lists of sections, one of which has two sections     *)
(* whose names begin with the same letter.                                 *)
EXTENDS EventsAdminPage, TLC

Stalls(initial, rows, seatsPerRow) ==
    [initial |-> initial, rows |-> rows, seatsPerRow |-> seatsPerRow]
MCPlans == {<<Stalls("V", 1, 1), Stalls("G", 1, 2)>>, <<Stalls("V", 1, 1), Stalls("V", 1, 2)>>}
MCSymmetry == Permutations(Events)
MCRequests == {"save", "delete", "list"} \cup Toggles
============================================================================
