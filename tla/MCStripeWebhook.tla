-------------------------- MODULE MCStripeWebhook --------------------------
(* Instances of StripeWebhook for TLC.                                     *)
EXTENDS StripeWebhook, TLC

CONSTANTS paid, dispute, other      \* three events

AllTypes == paid    :> "payment_intent.succeeded" @@
            dispute :> "charge.dispute.created" @@
            other   :> "unhandled"

\* An instance may have only some of the three.
TypeOf == [e \in Events |-> AllTypes[e]]

Symmetry == Permutations(Workers)

=============================================================================
