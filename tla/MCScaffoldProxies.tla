--------------------------- MODULE MCScaffoldProxies ---------------------------
(***************************************************************************)
(* Two threads, two callback handles and two objects, five frames deep: a  *)
(* callback called by a method can call a function with a callback of its  *)
(* own, free another object or wait for the other thread, and a callback's *)
(* destructor can do so inside ObjectMap::erase.                           *)
(***************************************************************************)
EXTENDS ScaffoldProxies
=============================================================================
