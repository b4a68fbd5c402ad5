---------------------------- MODULE MCObjectHandles ----------------------------
(***************************************************************************)
(* TLC instances of ObjectHandles.                                         *)
(***************************************************************************)
EXTENDS ObjectHandles

CONSTANTS t1, t2, w1, w2

MCThreads == {t1, t2}
MCWrappers == {w1, w2}
=============================================================================
