---------------------------- MODULE MCScaffoldCall ----------------------------
(***************************************************************************)
(* TLC instances of ScaffoldCall.                                              *)
(***************************************************************************)
EXTENDS ScaffoldCall, TLC

CONSTANTS b1, b2, b3, b4, b5, b6

MCBuffers == {b1, b2, b3, b4, b5, b6}
Symmetry == Permutations(MCBuffers)
=============================================================================
