-------------------------- MODULE MCCheckout --------------------------
(* Two tabs; the customer comes back to the payment page in the first. *)
EXTENDS Checkout

CONSTANTS t1, t2

MCMaxVisits == [t \in {t1, t2} |-> IF t = t1 THEN 2 ELSE 1]
=============================================================================
