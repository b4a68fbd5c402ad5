--------------------------- MODULE MCInitialization ---------------------------
(***************************************************************************)
(* TLC instances of Initialization: two namespaces that each define an     *)
(* interface and import the other's.  Each may match the loaded library or *)
(* not.                                                                    *)
(***************************************************************************)
EXTENDS Initialization, TLC

CONSTANTS t1, t2, A, B, va, vb

MCThreads == {t1, t2}
MCNamespaces == {A, B}
MCVTables == {va, vb}
MCHome == (va :> A) @@ (vb :> B)
MCLocals == (A :> <<va>>) @@ (B :> <<vb>>)
MCImports == (A :> <<vb>>) @@ (B :> <<va>>)
MCLibraries == SUBSET {A, B}
=============================================================================
