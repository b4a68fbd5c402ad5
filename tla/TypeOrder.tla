------------------------------- MODULE TypeOrder -------------------------------
(***************************************************************************)
(* The order of type definitions in a generated header (sorted_types in    *)
(* gen_cpp/mod.rs, used by wrapper.hpp).  C++ needs a type to be complete  *)
(* where it is embedded by value or derived from; everything else makes do *)
(* with the forward declarations that stand before all definitions.  The   *)
(* order comes in rounds from a graph of names, which other namespaces'    *)
(* types are part of and types that use nothing and are not used are not.  *)
(* Within a round it is that of a hash map: any.                           *)
(***************************************************************************)
EXTENDS Naturals, Sequences

CONSTANTS
  Types,      \* the types of the interface
  External    \* types of other namespaces

ASSUME TypeOrderAssumption == Types \cap External = {}

VARIABLES
  kind,      \* what each type is
  uses,      \* the field types of a record or enum, the traits of an object
  stage,     \* "rounds", "rest" or "panic"
  waiting,   \* names in definition_topology
  round,     \* names popped from it and not yet looked at
  emitted    \* the types in the order of their definitions

orderVars == <<kind, uses, stage, waiting, round, emitted>>
interface == <<kind, uses>>

\* Records and enums; objects; custom types; builtin types, containers and
\* callback interfaces, which have no type_name.
Kinds == {"data", "object", "custom", "unnamed"}

Emitted == {emitted[i] : i \in DOMAIN emitted}

\* <<prec, succ>>: prec is to be defined before succ.
\* Variant: enums and records only.
LinksOfData == {l \in (Types \cup External) \X Types :
                  kind[l[2]] = "data" /\ l[1] \in uses[l[2]] /\ (l[1] \in Types => kind[l[1]] # "unnamed")}
\* Variant: signatures count, and a method returns its own type.
LinksOfSignatures == {l \in (Types \cup External) \X Types : l[1] \in uses[l[2]] \cup {l[2]}}
Links == {l \in (Types \cup External) \X Types :
            l[1] \in uses[l[2]] /\ (l[1] \in Types => kind[l[1]] # "unnamed")}

Preds(n) == {p \in Types \cup External : <<p, n>> \in Links}
Linked == UNION {{l[1], l[2]} : l \in Links}

\* The names that peek_all returns.
Free == {n \in waiting : Preds(n) \cap waiting = {}}
-----------------------------------------------------------------------------
\* Objects derive from objects; other kinds are made of nothing that counts.
OrderInit ==
  /\ kind \in [Types -> Kinds]
  /\ uses \in [Types -> SUBSET (Types \cup External)]
  /\ \A t \in Types :
       /\ kind[t] = "object" => \A u \in uses[t] \cap Types : kind[u] = "object"
       /\ kind[t] \in {"custom", "unnamed"} => uses[t] = {}
  /\ stage = "rounds"
  /\ waiting = Linked
  /\ round = {}
  /\ emitted = <<>>

\* pop_all
PopAll ==
  /\ stage = "rounds" /\ round = {} /\ Free # {}
  /\ round' = Free
  /\ waiting' = waiting \ Free
  /\ UNCHANGED <<interface, stage, emitted>>

\* One name of the list; those that are not local are passed over.
Push(n) ==
  /\ n \in round
  /\ round' = round \ {n}
  /\ emitted' = IF n \in Types THEN Append(emitted, n) ELSE emitted
  /\ UNCHANGED <<interface, stage, waiting>>

\* The loop has ended: names are left, or none.
Panic ==
  /\ stage = "rounds" /\ round = {} /\ Free = {} /\ waiting # {}
  /\ stage' = "panic"
  /\ UNCHANGED <<interface, waiting, round, emitted>>

RoundsEnd ==
  /\ stage = "rounds" /\ round = {} /\ waiting = {}
  /\ stage' = "rest"
  /\ UNCHANGED <<interface, waiting, round, emitted>>

\* Variant: only types that a definition uses.
RestUsed(t) ==
  /\ stage = "rest" /\ t \notin Emitted /\ \E u \in Types : t \in uses[u]
  /\ emitted' = Append(emitted, t)
  /\ UNCHANGED <<interface, stage, waiting, round>>

\* The types that are not in the graph.
Rest(t) ==
  /\ stage = "rest" /\ t \notin Emitted
  /\ emitted' = Append(emitted, t)
  /\ UNCHANGED <<interface, stage, waiting, round>>

OrderNext ==
  \/ PopAll
  \/ \E n \in Types \cup External : Push(n)
  \/ Panic
  \/ RoundsEnd
  \/ \E t \in Types : Rest(t)

OrderSpec == OrderInit /\ [][OrderNext]_orderVars
\* The generator is one thread that goes on.
OrderFairSpec == OrderSpec /\ WF_orderVars(OrderNext)
-----------------------------------------------------------------------------
\* Types of the variables; nothing but local types is defined.
OrderTypeOK ==
  /\ kind \in [Types -> Kinds]
  /\ uses \in [Types -> SUBSET (Types \cup External)]
  /\ stage \in {"rounds", "rest", "panic"}
  /\ waiting \subseteq Types \cup External
  /\ round \subseteq Types \cup External
  /\ emitted \in Seq(Types)

\* What C++ wants to be complete in the definition of t: the records and
\* enums it embeds, the classes it derives from.
Needs(t) == {u \in uses[t] \cap Types : kind[u] = kind[t] /\ kind[t] \in {"data", "object"}}

\* No type is defined before one it embeds or derives from, whatever other
\* types, of this and other namespaces, are in the graph, and in whatever
\* order a round comes.
DefinedAfterNeeds ==
  \A j \in DOMAIN emitted : \A u \in Needs(emitted[j]) : \E i \in 1..(j - 1) : emitted[i] = u

\* No type is defined twice, though sorted types and the rest overlap.
DefinedOnce == \A i, j \in DOMAIN emitted : emitted[i] = emitted[j] => i = j

\* The panic is right: some types use each other in a circle (every type of a
\* set uses one of the set).  Types of other namespaces never cause it.
PanicOnlyOnCycle ==
  stage = "panic" =>
    \E S \in SUBSET Types : S # {} /\ \A t \in S : uses[t] \cap S # {}

\* In the end every local type is defined, also one that is in no link, and
\* none twice, or the circle is reported.
AllDefined == <>[](stage = "panic" \/ (Emitted = Types /\ DefinedOnce))

(***************************************************************************)
(* The state of the sort.  A name that has left `waiting' has no           *)
(* predecessor in `waiting' nor in the round that is being emitted: a      *)
(* round is complete before the next begins.  That is what makes any order *)
(* within a round a good one.                                              *)
(***************************************************************************)
SortInv ==
  /\ waiting \subseteq Linked /\ round \subseteq Linked
  /\ (waiting \cup round) \cap Emitted = {}
  /\ waiting \cap round = {}
  /\ \A n \in Linked \ waiting : Preds(n) \cap (waiting \cup round) = {}
  /\ Linked \cap Types \subseteq waiting \cup round \cup Emitted
  /\ stage = "rest" => waiting = {} /\ round = {}
  /\ stage = "panic" => waiting # {} /\ Free = {}

OrderIInv == OrderTypeOK /\ SortInv /\ DefinedAfterNeeds /\ DefinedOnce
===============================================================================
