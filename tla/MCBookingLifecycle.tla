------------------------- MODULE MCBookingLifecycle -------------------------
(* Model values and symmetry, for TLC. *)
EXTENDS BookingInvariant, TLC

CONSTANTS b1, b2, b3, b4, t1, t2, h1, h2

Symmetry == Permutations(Transporters) \cup Permutations(Handlers)
=============================================================================
