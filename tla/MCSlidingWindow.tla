-------------------------- MODULE MCSlidingWindow --------------------------
(* Instances of SlidingWindow for TLC.                                     *)
EXTENDS SlidingWindow, TLC

Symmetry == Permutations(Processes)

=============================================================================
