------------------------------ MODULE MCRustCall ------------------------------
(***************************************************************************)
(* TLC instances of RustCall.                                              *)
(***************************************************************************)
EXTENDS RustCall, TLC

CONSTANTS b1, b2, b3, b4, b5, b6, b7

MCBuffers == {b1, b2, b3, b4, b5, b6, b7}
Symmetry == Permutations(MCBuffers)
=============================================================================
