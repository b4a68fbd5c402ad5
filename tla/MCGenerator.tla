------------------------------- MODULE MCGenerator -------------------------------
(***************************************************************************)
(* TLC instances of Generator: b uses types of a.                  *)
(***************************************************************************)
EXTENDS Generator

MCCrates == {"a", "b"}
MCImports == [x \in MCCrates |-> IF x = "a" THEN {} ELSE {"a"}]
MCNames == {"rust", "cpp"}
=============================================================================
