------------------------ MODULE MCTripScreens ------------------------
(* One booking, the customer's app and one transporter's. *)
EXTENDS TripScreens
=============================================================================
