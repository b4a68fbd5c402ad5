----------------------------- MODULE HandleTable -----------------------------
(***************************************************************************)
(* What HandleMap<T> (templates/handle_map.cpp) promises to its callers:   *)
(* each of its four operations takes effect at one instant between the     *)
(* call and the return, as if there were no threads, and an insertion      *)
(* returns a handle that no earlier call has returned.  There is no mutex, *)
(* no counter and no order of steps here: HandleMap implements this        *)
(* module, which other modules use as their handle map.                    *)
(***************************************************************************)
EXTENDS Integers

CONSTANTS
  Threads,   \* threads that call the map
  Impls,     \* C++ objects the map can hold (the T's behind the shared_ptr's)
  Handles,   \* the handles the map may issue: odd numbers
  None       \* "no object", not one of Impls: what an unknown handle is looked up as

VARIABLES
  table,     \* the live entries: a function from a set of handles to Impls
  issued,    \* every <<handle, object>> an insertion has ever answered
  pend       \* per thread, the call in progress

tableVars == <<table, issued, pend>>

(***************************************************************************)
(* A call in progress is a record of the operation, its argument (an       *)
(* object for insert, a handle for the rest) and whether it has taken      *)
(* effect.  `Quiet' is the record of a thread that is in no call.          *)
(***************************************************************************)
Quiet == [op |-> "none", handle |-> 0, impl |-> None, done |-> TRUE]

Requests ==
  [op : {"insert"}, handle : {0}, impl : Impls, done : {FALSE}]
    \cup [op : {"at", "clone", "erase"}, handle : Handles, impl : {None}, done : {FALSE}]

EverIssued == {p[1] : p \in issued}

With(f, h, i) == [x \in DOMAIN f \cup {h} |-> IF x = h THEN i ELSE f[x]]
Without(f, h) == [x \in DOMAIN f \ {h} |-> f[x]]
-----------------------------------------------------------------------------
TableInit ==
  /\ table = [h \in {} |-> None]
  /\ issued = {}
  /\ pend = [t \in Threads |-> Quiet]

Invoke(t) ==
  /\ pend[t] = Quiet
  /\ \E r \in Requests : pend' = [pend EXCEPT ![t] = r]
  /\ UNCHANGED <<table, issued>>

\* The call of t has taken effect: what it will answer.
Done(t, h, i) ==
  pend' = [pend EXCEPT ![t] = [op |-> pend[t].op, handle |-> h, impl |-> i, done |-> TRUE]]

\* The entry appears under a fresh handle, which becomes the call's answer.
Enter(t, i) ==
  \E h \in Handles \ EverIssued :
    /\ table' = With(table, h, i)
    /\ issued' = issued \cup {<<h, i>>}
    /\ Done(t, h, i)

InsertEffect(t) ==
  /\ pend[t].op = "insert" /\ ~pend[t].done
  /\ Enter(t, pend[t].impl)

CloneEffect(t) ==
  /\ pend[t].op = "clone" /\ ~pend[t].done
  /\ pend[t].handle \in DOMAIN table
  /\ Enter(t, table[pend[t].handle])

\* at, and the at inside clone, of an unknown handle: out_of_range.
MissEffect(t) ==
  /\ pend[t].op \in {"at", "clone"} /\ ~pend[t].done
  /\ pend[t].handle \notin DOMAIN table
  /\ Done(t, pend[t].handle, None)
  /\ UNCHANGED <<table, issued>>

AtEffect(t) ==
  /\ pend[t].op = "at" /\ ~pend[t].done
  /\ pend[t].handle \in DOMAIN table
  /\ Done(t, pend[t].handle, table[pend[t].handle])
  /\ UNCHANGED <<table, issued>>

\* Erasing an unknown handle is a no-op.
EraseEffect(t) ==
  /\ pend[t].op = "erase" /\ ~pend[t].done
  /\ table' = Without(table, pend[t].handle)
  /\ Done(t, pend[t].handle, pend[t].impl)
  /\ UNCHANGED issued

Return(t) ==
  /\ pend[t].op # "none" /\ pend[t].done
  /\ pend' = [pend EXCEPT ![t] = Quiet]
  /\ UNCHANGED <<table, issued>>

TableNext ==
  \E t \in Threads :
    \/ Invoke(t)
    \/ InsertEffect(t) \/ CloneEffect(t) \/ MissEffect(t)
    \/ AtEffect(t) \/ EraseEffect(t)
    \/ Return(t)

TableSpec == TableInit /\ [][TableNext]_tableVars
=============================================================================
