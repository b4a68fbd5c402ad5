------------------------------ MODULE MCTypeOrder ------------------------------
(***************************************************************************)
(* Every interface of three types with every way to use each other and one *)
(* type of another namespace.                                              *)
(***************************************************************************)
EXTENDS TypeOrder, TLC

CONSTANTS A, B, C, X

MCTypes == {A, B, C}
MCExternal == {X}
================================================================================
