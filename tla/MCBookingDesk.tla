---------------------------- MODULE MCBookingDesk ----------------------------
(* Instances of BookingDesk for TLC. *)
EXTENDS BookingDesk, TLC
CONSTANTS v1, v2
Symmetry == Permutations(Venues)
=============================================================================
