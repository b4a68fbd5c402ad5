------------------------------ MODULE MCHandleMap ------------------------------
(***************************************************************************)
(* TLC instances of HandleMap.                                             *)
(***************************************************************************)
EXTENDS HandleMap

CONSTANTS t1, t2, i1, i2

MCThreads == {t1, t2}
MCImpls == {i1, i2}
=============================================================================
