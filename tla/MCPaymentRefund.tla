--------------------------- MODULE MCPaymentRefund ---------------------------
(* Handlers are interchangeable. *)
EXTENDS PaymentRefund, TLC

MCSymmetry == Permutations(Handlers)

=============================================================================
