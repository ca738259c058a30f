----------------------------- MODULE MCInvoices -----------------------------
(* Instances of Invoices for TLC.                                          *)
EXTENDS Invoices, TLC

CONSTANTS b1, b2, p1, p2

MCSuffix == b1 :> "0042" @@ b2 :> "0007"
\* Two users whose ids end in the same four characters.
MCSameSuffix == b1 :> "0042" @@ b2 :> "0042"

\* Three groups with zeros to fill, and less than one unit.
MCAmounts == b1 :> 100000507 @@ b2 :> 5
\* The second is a discount.
MCDiscount == b1 :> 100000507 @@ b2 :> -50

MCNames == b1 :> <<"letter", "accented">> @@ b2 :> <<"dash">>

MCSymmetry == Permutations({p1, p2})

=============================================================================
