------------------------- MODULE MCPaymentIntents --------------------------
(* Instances of PaymentIntents for TLC.                                    *)
EXTENDS PaymentIntents, TLC

Symmetry == Permutations(Callers) \cup Permutations(Bodies)

=============================================================================
