-------------------------- MODULE MCRunLoopManager --------------------------
(* The monitor with interchangeable controllers that make any calls, as    *)
(* often as they like.                                                     *)
EXTENDS RunLoopManager, TLC

Symmetry == Permutations(Controllers)
=============================================================================
