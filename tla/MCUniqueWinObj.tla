---------------------------- MODULE MCUniqueWinObj ----------------------------
(* Interchangeable handles and wrappers.                                   *)
EXTENDS UniqueWinObj, TLC

Symmetry == Permutations(Handles) \cup Permutations(Wrappers)
=============================================================================
