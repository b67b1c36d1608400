---------------------------- MODULE MCEventPage ----------------------------
(* Two events that share a seat code.                                      *)
EXTENDS EventPage

CONSTANTS e1, e2, s1, s2

MCEvents == {e1, e2}
MCSeatsOf == [e \in MCEvents |-> IF e = e1 THEN {s1, s2} ELSE {s1}]
MCContested == {<<e1, s1>>}
============================================================================
