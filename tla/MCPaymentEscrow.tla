--------------------------- MODULE MCPaymentEscrow ---------------------------
(* Model values for payments, for TLC. *)
EXTENDS PaymentEscrow, TLC

CONSTANTS b1, t1, h1, h2, c1, c2

EscrowSymmetry == Permutations(Hooks) \cup Permutations(Handlers)
=============================================================================
