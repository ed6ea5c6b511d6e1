----------------------------- MODULE MCPayments -----------------------------
(* Model checking of the payment core: orders and sessions are symmetric.  *)
EXTENDS PaymentsProperties, TLC

MCSymmetry == Permutations(Orders) \cup Permutations(Sessions)

=============================================================================
