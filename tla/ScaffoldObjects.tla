---------------------------- MODULE ScaffoldObjects ----------------------------
(***************************************************************************)
(* The objects of a C++ library that other languages use through the C++   *)
(* scaffolding (templates scaffolding/object_map.cpp, scaffolding/obj.cpp  *)
(* and the constructors, destructors and methods of cpp_scaffolding.cpp).  *)
(*                                                                         *)
(* A table maps an object's ADDRESS to a shared_ptr of it and the number   *)
(* of references the foreign side has been given: the address is the key   *)
(* the foreign side knows the object by.  Addresses are used again.  The   *)
(* table's last shared_ptr is dropped, and so the library's destructor     *)
(* run, under the table's mutex.                                           *)
(*                                                                         *)
(* The foreign side is modelled from how the scaffolding uses it: a        *)
(* wrapper owns one reference and frees it once, when no call on it runs.  *)
(***************************************************************************)
EXTENDS Integers, FiniteSets

CONSTANTS
  Threads,
  Objects,     \* bound: objects made in one behaviour
  Addresses,   \* where an object can be allocated
  Wrappers,    \* bound: foreign references at one time
  None,
  MaxArgs,     \* bound: objects among the arguments of one call, self included
  MaxLost      \* bound: per object, results that cannot be written out

ASSUME ScaffoldObjectsAssumption ==
  /\ None \notin Objects \cup Addresses \cup Wrappers \cup Threads
  /\ IsFiniteSet(Threads) /\ IsFiniteSet(Wrappers)
  /\ {MaxArgs, MaxLost} \subseteq Nat

(***************************************************************************)
(* A thread outside the library is "idle".  Inside, it looks up the        *)
(* objects of a call ("at"), runs library code ("body"), lowers the result *)
(* ("insert") or is about to return ("return"); or it is in erase, before  *)
(* the mutex ("erase") or running the destructor under it ("destroy").     *)
(* "dead": an exception that nothing catches has ended the process.        *)
(***************************************************************************)
VARIABLES
  addr,       \* where each object is, None when it is not alive
  made,       \* the objects made so far
  kept,       \* objects the library keeps shared_ptrs of in its own data
  map,        \* the table: address -> [ptr, ref_count]
  mutex,      \* the thread inside erase's destructor, or None
  wrappers,   \* per wrapper, the key it owns, and the object it is for
  pc,         \* per thread, where it is
  use,        \* per thread, what it found for each wrapper of its call
  held,       \* per thread, the objects that shared_ptrs on its stack keep
  res,        \* per thread, the object to be returned, or None
  lost        \* references counted for results that never arrived

heapVars == <<addr, made, kept>>
tableVars == <<map, mutex>>
vars == <<heapVars, tableVars, wrappers, pc, use, held, res, lost>>

Alive == {o \in Objects : addr[o] # None}
FreeAddresses == Addresses \ {addr[o] : o \in Alive}
Unused == [key |-> None, obj |-> None]
Owned == {w \in Wrappers : wrappers[w] # Unused}

\* The caller starts no call on a wrapper that it is freeing.
Usable == {w \in Owned : \A t \in Threads : pc[t] = "erase" => w \notin DOMAIN use[t]}

\* Variant: the table keeps bare pointers.
OrphansOfTable(m, h, k) ==
  {o \in Alive : o \notin k /\ \A t \in Threads : o \notin h[t]}

\* Objects that no shared_ptr would point to any more.
Orphans(m, h, k) ==
  {o \in Alive : /\ o \notin k
                 /\ \A t \in Threads : o \notin h[t]
                 /\ \A a \in DOMAIN m : m[a].ptr # o}

\* The bound on wrappers: every call under way will find one for its result.
Room == Cardinality({t \in Threads : pc[t] \in {"at", "body", "insert", "return"}})
          < Cardinality(Wrappers \ Owned)

Nothing == [w \in {} |-> None]

Move(t, p) == pc' = [pc EXCEPT ![t] = p]
-----------------------------------------------------------------------------
Init ==
  /\ addr = [o \in Objects |-> None]
  /\ made = {}
  /\ kept = {}
  /\ map = [a \in {} |-> [ptr |-> None, ref_count |-> 0]]
  /\ mutex = None
  /\ wrappers = [w \in Wrappers |-> Unused]
  /\ pc = [t \in Threads |-> "idle"]
  /\ use = [t \in Threads |-> Nothing]
  /\ held = [t \in Threads |-> {}]
  /\ res = [t \in Threads |-> None]
  /\ lost = [o \in Objects |-> 0]

Allocate(o, a) ==
  /\ o \notin made /\ a \in FreeAddresses
  /\ made' = made \cup {o}
  /\ addr' = [addr EXCEPT ![o] = a]

\* A constructor: make_shared, then insert.
Construct(t, o, a) ==
  /\ pc[t] = "idle" /\ Room
  /\ Allocate(o, a)
  /\ held' = [held EXCEPT ![t] = {o}]
  /\ res' = [res EXCEPT ![t] = o]
  /\ Move(t, "insert")
  /\ UNCHANGED <<kept, tableVars, wrappers, use, lost>>

\* A function or a method is called with some wrappers' keys, its own and
\* those of its arguments.
Call(t, ws) ==
  /\ pc[t] = "idle" /\ Room
  /\ use' = [use EXCEPT ![t] = [w \in ws |-> None]]
  /\ Move(t, IF ws = {} THEN "body" ELSE "at")
  /\ UNCHANGED <<heapVars, tableVars, wrappers, held, res, lost>>

\* Variant: `at' gives a reference to the object and no share in it.
AtUnshared(t, w) ==
  /\ pc[t] = "at" /\ w \in DOMAIN use[t] /\ use[t][w] = None /\ mutex = None
  /\ wrappers[w].key \in DOMAIN map
  /\ use' = [use EXCEPT ![t][w] = map[wrappers[w].key].ptr]
  /\ Move(t, IF \A v \in DOMAIN use[t] \ {w} : use[t][v] # None THEN "body" ELSE "at")
  /\ UNCHANGED <<heapVars, tableVars, wrappers, held, res, lost>>

\* ObjectMap::at, for self and (lift, read) for each argument: a shared_ptr
\* of the object that is under the key now.  An unknown key throws.
At(t, w) ==
  /\ pc[t] = "at" /\ w \in DOMAIN use[t] /\ use[t][w] = None /\ mutex = None
  /\ LET key == wrappers[w].key IN
       IF key \in DOMAIN map
         THEN /\ use' = [use EXCEPT ![t][w] = map[key].ptr]
              /\ held' = [held EXCEPT ![t] = @ \cup {map[key].ptr}]
              /\ Move(t, IF \A v \in DOMAIN use[t] \ {w} : use[t][v] # None
                           THEN "body" ELSE "at")
         ELSE Move(t, "return") /\ UNCHANGED <<use, held>>
  /\ UNCHANGED <<heapVars, tableVars, wrappers, res, lost>>

\* The library's code: it keeps or drops objects, and returns one that it
\* was given, that it keeps, that it makes now, or none.
Keep(t, o) ==
  /\ pc[t] = "body" /\ o \in held[t] \ kept
  /\ kept' = kept \cup {o}
  /\ UNCHANGED <<addr, made, tableVars, wrappers, pc, use, held, res, lost>>

Drop(t, o) ==
  /\ pc[t] = "body" /\ o \in kept
  /\ kept' = kept \ {o}
  /\ addr' = [p \in Objects |-> IF p \in Orphans(map, held, kept \ {o}) THEN None ELSE addr[p]]
  /\ UNCHANGED <<made, tableVars, wrappers, pc, use, held, res, lost>>

ReturnObject(t, o) ==
  /\ pc[t] = "body" /\ o \in held[t] \cup kept
  /\ held' = [held EXCEPT ![t] = @ \cup {o}]
  /\ res' = [res EXCEPT ![t] = o]
  /\ Move(t, "insert")
  /\ UNCHANGED <<heapVars, tableVars, wrappers, use, lost>>

ReturnNew(t, o, a) ==
  /\ pc[t] = "body"
  /\ Allocate(o, a)
  /\ held' = [held EXCEPT ![t] = @ \cup {o}]
  /\ res' = [res EXCEPT ![t] = o]
  /\ Move(t, "insert")
  /\ UNCHANGED <<kept, tableVars, wrappers, use, lost>>

\* Nothing to lower: a method without a result, or one that throws.
ReturnNothing(t) ==
  /\ pc[t] = "body"
  /\ Move(t, "return")
  /\ UNCHANGED <<heapVars, tableVars, wrappers, use, held, res, lost>>
-----------------------------------------------------------------------------
(***************************************************************************)
(* ObjectMap::insert, by lower and write.                                  *)
(***************************************************************************)
With(a, o, n) ==
  map' = [x \in DOMAIN map \cup {a} |->
            IF x = a THEN [ptr |-> o, ref_count |-> n] ELSE map[x]]

\* Variant: insert without the test, which std::map ignores for a known key.
InsertUncounted(t) ==
  /\ pc[t] = "insert" /\ mutex = None
  /\ LET o == res[t]  a == addr[o] IN
       IF a \in DOMAIN map THEN UNCHANGED map ELSE With(a, o, 1)
  /\ Move(t, "return")
  /\ UNCHANGED <<heapVars, mutex, wrappers, use, held, res, lost>>

Insert(t) ==
  /\ pc[t] = "insert" /\ mutex = None
  /\ LET o == res[t]  a == addr[o] IN
       IF a \in DOMAIN map
         THEN With(a, map[a].ptr, map[a].ref_count + 1)
         ELSE With(a, o, 1)
  /\ Move(t, "return")
  /\ UNCHANGED <<heapVars, mutex, wrappers, use, held, res, lost>>

\* The call's shared_ptrs go; objects that only they kept alive go with them.
Leave(t) ==
  /\ held' = [held EXCEPT ![t] = {}]
  /\ use' = [use EXCEPT ![t] = Nothing]
  /\ res' = [res EXCEPT ![t] = None]
  /\ addr' = [p \in Objects |-> IF p \in Orphans(map, held', kept) THEN None ELSE addr[p]]
  /\ Move(t, "idle")

\* The caller gets the key, and makes a wrapper to own it.
Return(t, w) ==
  /\ pc[t] = "return" /\ res[t] # None /\ w \notin Owned
  /\ wrappers' = [wrappers EXCEPT ![w] = [key |-> addr[res[t]], obj |-> res[t]]]
  /\ Leave(t)
  /\ UNCHANGED <<made, kept, tableVars, lost>>

ReturnVoid(t) ==
  /\ pc[t] = "return" /\ res[t] = None
  /\ Leave(t)
  /\ UNCHANGED <<made, kept, tableVars, wrappers, lost>>

\* The object was one part of a result, and writing a later part threw.
ReturnFails(t) ==
  /\ pc[t] = "return" /\ res[t] # None
  /\ lost[res[t]] < MaxLost
  /\ lost' = [lost EXCEPT ![res[t]] = @ + 1]
  /\ Leave(t)
  /\ UNCHANGED <<made, kept, tableVars, wrappers>>
-----------------------------------------------------------------------------
(***************************************************************************)
(* The destructor function: ObjectMap::erase.  Nothing catches what it     *)
(* throws.                                                                 *)
(***************************************************************************)
Free(t, w) ==
  /\ pc[t] = "idle" /\ w \in Owned
  /\ \A u \in Threads : w \notin DOMAIN use[u]
  /\ use' = [use EXCEPT ![t] = [v \in {w} |-> None]]
  /\ Move(t, "erase")
  /\ UNCHANGED <<heapVars, tableVars, wrappers, held, res, lost>>

Without(a) == map' = [x \in DOMAIN map \ {a} |-> map[x]]

\* An unknown key throws, and nothing catches it.  `last' says when the
\* entry goes.
EraseWhen(t, w, last) ==
  LET a == wrappers[w].key
      o == map[a].ptr IN
    /\ pc[t] = "erase" /\ w \in DOMAIN use[t] /\ mutex = None
    /\ IF a \notin DOMAIN map
         THEN Move(t, "dead") /\ UNCHANGED <<tableVars, held>>
       ELSE IF ~last
         THEN With(a, o, map[a].ref_count - 1) /\ Move(t, "idle") /\ UNCHANGED <<mutex, held>>
         ELSE /\ Without(a)
              /\ IF o \in Orphans(map', held, kept)
                   THEN /\ held' = [held EXCEPT ![t] = {o}]
                        /\ mutex' = t
                        /\ Move(t, "destroy")
                   ELSE Move(t, "idle") /\ UNCHANGED <<mutex, held>>
    /\ wrappers' = [wrappers EXCEPT ![w] = Unused]
    /\ use' = [use EXCEPT ![t] = Nothing]
    /\ UNCHANGED <<heapVars, res, lost>>

\* Variant: the count is tested before it is lowered.
EraseLate(t, w) == EraseWhen(t, w, map[wrappers[w].key].ref_count = 0)

\* Variant: the count is not looked at.
EraseAlways(t, w) == EraseWhen(t, w, TRUE)

Erase(t, w) == EraseWhen(t, w, map[wrappers[w].key].ref_count = 1)

\* The destructor has run; the memory is free, and then the mutex.
Destroy(t) ==
  /\ pc[t] = "destroy"
  /\ addr' = [o \in Objects |-> IF o \in held[t] THEN None ELSE addr[o]]
  /\ held' = [held EXCEPT ![t] = {}]
  /\ mutex' = None
  /\ Move(t, "idle")
  /\ UNCHANGED <<made, kept, map, wrappers, use, res, lost>>
-----------------------------------------------------------------------------
LibraryStep(t) ==
  \/ \E o \in Objects : Keep(t, o) \/ Drop(t, o) \/ ReturnObject(t, o)
  \/ \E o \in Objects, a \in Addresses : ReturnNew(t, o, a)
  \/ ReturnNothing(t)

GeneratedStep(t) ==
  \/ \E w \in Wrappers : At(t, w) \/ Return(t, w) \/ Erase(t, w)
  \/ Insert(t) \/ ReturnVoid(t) \/ Destroy(t)

ForeignStep(t) ==
  \/ \E o \in Objects, a \in Addresses : Construct(t, o, a)
  \/ \E ws \in SUBSET Usable : Cardinality(ws) <= MaxArgs /\ Call(t, ws)
  \/ \E w \in Wrappers : Free(t, w)

Next == \E t \in Threads :
  LibraryStep(t) \/ GeneratedStep(t) \/ ReturnFails(t) \/ ForeignStep(t)

Spec == Init /\ [][Next]_vars
-----------------------------------------------------------------------------
(***************************************************************************)
(* Properties.                                                             *)
(***************************************************************************)
\* Types of the variables.
TypeOK ==
  /\ addr \in [Objects -> Addresses \cup {None}]
  /\ made \subseteq Objects /\ kept \subseteq Objects
  /\ DOMAIN map \subseteq Addresses
  /\ map \in [DOMAIN map -> [ptr : Objects, ref_count : Nat]]
  /\ mutex \in Threads \cup {None}
  /\ wrappers \in [Wrappers -> {Unused} \cup [key : Addresses, obj : Objects]]
  /\ pc \in [Threads -> {"idle", "at", "body", "insert", "return", "erase", "destroy", "dead"}]
  /\ DOMAIN use = Threads
  /\ \A t \in Threads :
       DOMAIN use[t] \subseteq Wrappers /\ use[t] \in [DOMAIN use[t] -> Objects \cup {None}]
  /\ held \in [Threads -> SUBSET Objects]
  /\ res \in [Threads -> Objects \cup {None}]
  /\ lost \in [Objects -> Nat]

\* The references of object o that the table has to count: the wrappers',
\* those on the way to the caller, and those that never arrived.
References(o) ==
    Cardinality({w \in Owned : wrappers[w].obj = o})
  + Cardinality({t \in Threads : pc[t] = "return" /\ res[t] = o})
  + lost[o]

\* ref_count is the number of references handed out and not taken back, for
\* whatever object is at that address by now, and an object without any has
\* no entry (object_map.cpp 14-18, 29-31).
CountsExact ==
  \A o \in Objects :
    References(o) =
      IF \E a \in DOMAIN map : map[a].ptr = o THEN map[addr[o]].ref_count ELSE 0

\* A key names the object that is alive at this address: the allocator cannot
\* give the address of a key to another object while the entry is there.
KeysNameTheLiving ==
  \A a \in DOMAIN map : addr[map[a].ptr] = a

(***************************************************************************)
(* What makes KeysNameTheLiving inductive.                                 *)
(***************************************************************************)
\* No two objects are at one address, and shared_ptrs point to live objects.
HeapInv ==
  /\ Alive \subseteq made
  /\ \A o, p \in Alive : addr[o] = addr[p] => o = p
  /\ kept \subseteq Alive
  /\ \A t \in Threads : held[t] \subseteq Alive

\* A thread has a result from the library's return to its own.
ResultInv ==
  \A t \in Threads :
    /\ res[t] # None => res[t] \in held[t] /\ pc[t] \in {"insert", "return"}
    /\ pc[t] = "insert" => res[t] # None
    /\ pc[t] \in {"idle", "erase", "dead"} => held[t] = {}

\* The mutex is held exactly while a destructor runs, and the object that is
\* being destroyed is nobody else's any more.
DyingInv ==
  \A t \in Threads :
    /\ mutex = t <=> pc[t] = "destroy"
    /\ pc[t] = "destroy" => \A o \in held[t] :
         /\ o \notin kept
         /\ \A u \in Threads : o \in held[u] => u = t
         /\ \A a \in DOMAIN map : map[a].ptr # o

EntryInv ==
  \A a \in DOMAIN map : addr[map[a].ptr] = a /\ map[a].ref_count > 0

TableInv == TypeOK /\ HeapInv /\ ResultInv /\ DyingInv /\ EntryInv

\* A call runs on the objects its caller meant, although their addresses may
\* have been others' before, and objects may leave the table and come back;
\* and erase, which has no try around it, never meets an unknown key.
RightObject ==
  \A t \in Threads :
    /\ pc[t] # "dead"
    /\ \A w \in DOMAIN use[t] : use[t][w] # None => use[t][w] = wrappers[w].obj

\* What a call holds, the library keeps or the caller has a reference to is
\* alive; anything else is destroyed, except for a reference that was lost on
\* the way to the caller.
Referred(o) ==
  \/ o \in kept
  \/ \E t \in Threads : o \in held[t]
  \/ \E w \in Owned : wrappers[w].obj = o

LivesAsReferred ==
  \A o \in Objects :
    /\ Referred(o) => o \in Alive
    /\ o \in Alive /\ ~Referred(o) => lost[o] > 0

(***************************************************************************)
(* What makes CountsExact, RightObject and LivesAsReferred inductive.      *)
(***************************************************************************)
\* The entry of an object is the one at its address.
Count(o) == IF addr[o] \in DOMAIN map THEN map[addr[o]].ref_count ELSE 0

Counted == \A o \in Objects : References(o) = Count(o)

\* A wrapper's key is the address of the object it is for.
KeyInv == \A w \in Owned : addr[wrappers[w].obj] = wrappers[w].key

\* A call runs on wrappers that somebody owns, and not while one is freed.
UseInv ==
  \A t \in Threads :
    /\ DOMAIN use[t] \subseteq Owned
    /\ pc[t] = "erase" => \A u \in Threads \ {t} : DOMAIN use[t] \cap DOMAIN use[u] = {}

CountInv ==
  Counted /\ KeyInv /\ UseInv /\ RightObject /\ Orphans(map, held, kept) = {}
-----------------------------------------------------------------------------
(***************************************************************************)
(* A wrapper is as good as a shared_ptr: a table that counts references    *)
(* under addresses, which are used again, implements references to the     *)
(* objects themselves.                                                     *)
(***************************************************************************)
\* Who is in no call uses no wrapper; library code runs when all objects of
\* the call are found, and the call holds them.
HoldInv ==
  \A t \in Threads :
    /\ pc[t] \in {"idle", "destroy"} => DOMAIN use[t] = {}
    /\ pc[t] \in {"body", "insert", "return"} => \A w \in DOMAIN use[t] : use[t][w] # None
    /\ \A w \in DOMAIN use[t] : use[t][w] # None => use[t][w] \in held[t]

Refers == [w \in Wrappers |-> wrappers[w].obj]
Args == [t \in Threads |-> DOMAIN use[t]]
Lost == {o \in Objects : lost[o] > 0}

Abstract == INSTANCE ObjectReferences
  WITH live <- Alive, refers <- Refers, args <- Args, holds <- held, lost <- Lost

\* ScaffoldObjects implements ObjectReferences (object_map.cpp 3-32, obj.cpp,
\* cpp_scaffolding.cpp 187-222): a call gets the objects of its wrappers and holds
\* them, every wrapper that is given out refers to what the library returned, and
\* freeing one destroys the object if nothing else refers to it, and only then.
ImplementsReferences == Abstract!ReferencesSpec
=============================================================================
