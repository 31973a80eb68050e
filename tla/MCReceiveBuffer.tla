--------------------------- MODULE MCReceiveBuffer ---------------------------
(* Interchangeable buffers; the values are not interchangeable, since the  *)
(* array starts with one of them.                                          *)
EXTENDS ReceiveBuffer, TLC

Symmetry == Permutations(Buffers)
=============================================================================
