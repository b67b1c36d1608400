--------------------------- MODULE MCBookingPages ---------------------------
(* Finite instances of BookingPages. *)
EXTENDS BookingPages
============================================================================
