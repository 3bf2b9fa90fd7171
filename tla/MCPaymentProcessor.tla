------------------------- MODULE MCPaymentProcessor -------------------------
(* An instance of PaymentProcessor: two processes on one directory. *)
EXTENDS PaymentProcessor

CONSTANTS p1, p2

MCSymmetry == Permutations({p1, p2})
=============================================================================
