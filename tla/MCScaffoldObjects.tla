--------------------------- MODULE MCScaffoldObjects ---------------------------
(***************************************************************************)
(* TLC instances of ScaffoldObjects.                                       *)
(***************************************************************************)
EXTENDS ScaffoldObjects, TLC

CONSTANTS t1, t2, o1, o2, o3, a1, a2, w1, w2, w3, w4

MCThreads == {t1, t2}
MCObjects == {o1, o2, o3}
MCAddresses == {a1, a2}
MCWrappers == {w1, w2, w3, w4}
Symmetry ==
  UNION {Permutations(S) : S \in {MCThreads, MCObjects, MCAddresses, MCWrappers}}
=============================================================================
