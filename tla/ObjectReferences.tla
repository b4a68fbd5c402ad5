--------------------------- MODULE ObjectReferences ---------------------------
(***************************************************************************)
(* What the C++ scaffolding's table of objects (ObjectMap and its callers  *)
(* in cpp_scaffolding.cpp) promises: a foreign wrapper is as good as a     *)
(* shared_ptr.  Here a wrapper refers to its object itself.  There are no  *)
(* addresses that could be used again, no keys that could be unknown, no   *)
(* counts, no table and no mutex: a call gets the objects of its wrappers, *)
(* and an object dies when the last that refers to it lets go of it.       *)
(* ScaffoldObjects implements this module.                                 *)
(***************************************************************************)
CONSTANTS
  Threads,
  Objects,
  Wrappers,
  None

VARIABLES
  live,     \* the objects that are alive
  made,     \* the objects made so far
  kept,     \* objects that the library keeps
  refers,   \* the object that each wrapper refers to, or None
  args,     \* per thread, the wrappers of its call, or the one that it frees
  holds,    \* per thread, the objects that the call holds
  lost      \* objects that were returned to nobody: they live on

referenceVars == <<live, made, kept, refers, args, holds, lost>>

Referred(o) ==
  \/ o \in kept \cup lost
  \/ \E t \in Threads : o \in holds[t]
  \/ \E w \in Wrappers : refers[w] = o

\* Without wrapper w.
ReferredBesides(o, w) ==
  \/ o \in kept \cup lost
  \/ \E t \in Threads : o \in holds[t]
  \/ \E v \in Wrappers \ {w} : refers[v] = o

Hold(t, os) == holds' = [holds EXCEPT ![t] = os]

\* The call holds the objects of all its wrappers.
Ready(t) == \A w \in args[t] : refers[w] \in holds[t]

\* What nobody refers to any more dies.
Sweep == live' = {o \in live : Referred(o)'}
-----------------------------------------------------------------------------
ReferencesInit ==
  /\ live = {} /\ made = {} /\ kept = {} /\ lost = {}
  /\ refers = [w \in Wrappers |-> None]
  /\ args = [t \in Threads |-> {}]
  /\ holds = [t \in Threads |-> {}]

\* A constructor, or the library in a call, makes an object.
Make(t, o) ==
  /\ Ready(t) /\ o \notin made
  /\ made' = made \cup {o}
  /\ live' = live \cup {o}
  /\ Hold(t, holds[t] \cup {o})
  /\ UNCHANGED <<kept, refers, args, lost>>

\* The caller calls or frees.
Begin(t, ws) ==
  /\ args[t] = {} /\ holds[t] = {}
  /\ \A w \in ws : refers[w] # None
  /\ args' = [args EXCEPT ![t] = ws]
  /\ UNCHANGED <<live, made, kept, refers, holds, lost>>

\* The call gets the object of one of its wrappers: that one and no other.
Take(t, w) ==
  /\ w \in args[t]
  /\ Hold(t, holds[t] \cup {refers[w]})
  /\ UNCHANGED <<live, made, kept, refers, args, lost>>

Keep(t, o) ==
  /\ Ready(t) /\ o \in holds[t]
  /\ kept' = kept \cup {o}
  /\ UNCHANGED <<live, made, refers, args, holds, lost>>

Drop(t, o) ==
  /\ Ready(t) /\ o \in kept
  /\ kept' = kept \ {o}
  /\ Sweep
  /\ UNCHANGED <<made, refers, args, holds, lost>>

\* The call's result is an object that the library keeps.
Bring(t, o) ==
  /\ Ready(t) /\ o \in kept
  /\ Hold(t, holds[t] \cup {o})
  /\ UNCHANGED <<live, made, kept, refers, args, lost>>

\* The call ends, and what it held goes.
End(t) ==
  /\ Ready(t)
  /\ args' = [args EXCEPT ![t] = {}]
  /\ Hold(t, {})
  /\ Sweep
  /\ UNCHANGED <<made, kept>>

\* Its result is an object, for which the caller gets a wrapper ...
Give(t, o, w) ==
  /\ o \in holds[t] /\ refers[w] = None
  /\ refers' = [refers EXCEPT ![w] = o]
  /\ End(t)
  /\ UNCHANGED lost

\* ... or does not, because the result could not be written out.
Lose(t, o) ==
  /\ o \in holds[t]
  /\ lost' = lost \cup {o}
  /\ End(t)
  /\ UNCHANGED refers

\* No result, or the end of a destructor.
EndVoid(t) == End(t) /\ UNCHANGED <<refers, lost>>

\* A wrapper is freed that no call uses.  If it was the last that referred to
\* its object, the thread holds the object while its destructor runs.
Release(t, w) ==
  /\ w \in args[t] /\ holds[t] = {}
  /\ \A u \in Threads \ {t} : w \notin args[u]
  /\ refers' = [refers EXCEPT ![w] = None]
  /\ args' = [args EXCEPT ![t] = {}]
  /\ Hold(t, {refers[w]} \ {o \in live : ReferredBesides(o, w)})
  /\ UNCHANGED <<live, made, kept, lost>>
-----------------------------------------------------------------------------
ReferencesNext ==
  \E t \in Threads :
    \/ \E ws \in SUBSET Wrappers : Begin(t, ws)
    \/ \E w \in Wrappers : Take(t, w) \/ Release(t, w)
    \/ \E o \in Objects : Make(t, o) \/ Keep(t, o) \/ Drop(t, o) \/ Bring(t, o) \/ Lose(t, o)
    \/ \E o \in Objects, w \in Wrappers : Give(t, o, w)
    \/ EndVoid(t)

ReferencesSpec == ReferencesInit /\ [][ReferencesNext]_referenceVars
===============================================================================
