----------------------------- MODULE MCAccounts -----------------------------
(* Instances of Accounts for TLC.                                          *)
EXTENDS Accounts, TLC

CONSTANTS ann, bob, cat     \* a founder, and two ids not yet given to a row
CONSTANTS home, work        \* two addresses, the second an internal one

HomeOfAnn == ann :> home

\* A founder without any administrative right, and one with all.
TwoRoleSets == {{"moderator"}, {"super_admin"}}

\* Processes are alike, and so are the two ids, which both have MFA.
Symmetry == Permutations(Processes) \cup Permutations({bob, cat})

=============================================================================
