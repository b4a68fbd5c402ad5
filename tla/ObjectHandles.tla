----------------------------- MODULE ObjectHandles -----------------------------
(***************************************************************************)
(* Who owns what across the FFI: the life of one interface type that both  *)
(* sides may implement (templates obj.cpp, obj_conv.cpp,                   *)
(* callback_iface_tmpl.cpp, callback_conv.cpp).                            *)
(*                                                                         *)
(* A Rust object is reached from C++ through a wrapper (the generated      *)
(* implementation class) that owns one strong reference, its `instance'.   *)
(* A C++ object is reached from Rust through an odd handle of the type's   *)
(* handle map.  Handles cross the boundary as arguments and results and    *)
(* whoever receives one owns it.  The Rust side is not code of this        *)
(* repository: it is modelled from how the templates use it.  The handle   *)
(* map is used as the atomic table that HandleMap is shown to implement.   *)
(***************************************************************************)
EXTENDS Integers, Sequences, FiniteSets

CONSTANTS
  Threads,
  RustObjs,    \* objects that Rust implements
  CppObjs,     \* objects that C++ implements
  Wrappers,    \* instances of the generated implementation class
  None,
  MaxHandle,   \* bound: foreign handles issued
  MaxArcs,     \* bound: references to one object in Rust's own data
  MaxDepth,    \* bound: calls nested on one thread
  MaxLost      \* bound: handles lost by failed lowering

ASSUME ObjectHandlesAssumption ==
  /\ IsFiniteSet(Threads) /\ IsFiniteSet(Wrappers)
  /\ None \notin RustObjs \cup CppObjs \cup Nat
  /\ RustObjs \cap (CppObjs \cup Nat) = {}
  /\ {MaxHandle, MaxArcs, MaxDepth, MaxLost} \subseteq Nat

VARIABLES
  strong,      \* per Rust object, its Arc's strong count
  made,        \* Rust objects constructed so far
  instance,    \* per wrapper, the Rust object it owns a reference of, or None
  app,         \* C++ objects the application holds a reference to
  map,         \* the handle map: odd handles to C++ objects
  cur_handle,
  arcs,        \* per Rust object, the references in Rust's own data
  proxies,     \* the odd handles owned by proxies in Rust's own data
  stack,       \* per thread, the calls it is in, innermost last
  hand,        \* per thread, the handle it is carrying over the boundary
  lost         \* sequence of the handles that nothing owns any more

rustVars == <<strong, made, arcs>>
mapVars == <<map, cur_handle>>
vars == <<rustVars, instance, app, mapVars, proxies, stack, hand, lost>>

(***************************************************************************)
(* A handle is a Rust object (an even number on the wire) or an odd        *)
(* number.  `hand' says what is being done with it:                        *)
(*   "arg"    lowered, about to be passed to a Rust function               *)
(*   "ret"    lowered, the result of a C++ method called by Rust           *)
(*   "lift"   received from Rust, not lifted yet                           *)
(*   "erase"  lift has looked the object up and not erased the handle yet  *)
(* A frame is a Rust function with the handle it was given, or a C++       *)
(* method running on an object.                                            *)
(***************************************************************************)
Odd == {h \in 1..MaxHandle : h % 2 = 1}
Empty == [use |-> "none", of |-> None]
Holding(use, h) == [use |-> use, of |-> h]

Top(t) == stack[t][Len(stack[t])]
Below(t) == SubSeq(stack[t], 1, Len(stack[t]) - 1)
InRust(t) == stack[t] # <<>> /\ Top(t).in = "rust"
InCpp(t) == ~InRust(t) /\ hand[t] = Empty
Push(t, side, h) == stack' = [stack EXCEPT ![t] = Append(@, [in |-> side, of |-> h])]
Take(t, use, h) == hand' = [hand EXCEPT ![t] = Holding(use, h)]
Let(t) == hand' = [hand EXCEPT ![t] = Empty]

With(f, h, i) == [x \in DOMAIN f \cup {h} |-> IF x = h THEN i ELSE f[x]]
Without(f, h) == [x \in DOMAIN f \ {h} |-> f[x]]

\* ffi_object_clone, ffi_object_free: Arc's own operations.
ArcClone(r) == strong' = [strong EXCEPT ![r] = @ + 1]
ArcDrop(r) == strong' = [strong EXCEPT ![r] = @ - 1]

Insert(i) == map' = With(map, cur_handle, i) /\ cur_handle' = cur_handle + 2
Erase(h) == map' = Without(map, h) /\ UNCHANGED cur_handle
MapRoom == cur_handle \in Odd

Vacant == {w \in Wrappers : instance[w] = None}
ToWrap == {t \in Threads : hand[t].use = "lift" /\ hand[t].of \in RustObjs}
WrapperRoom == Cardinality(ToWrap) < Cardinality(Vacant)
-----------------------------------------------------------------------------
Init ==
  /\ strong = [r \in RustObjs |-> 0]
  /\ made = {}
  /\ instance = [w \in Wrappers |-> None]
  /\ app = CppObjs
  /\ map = [h \in {} |-> None]
  /\ cur_handle = 1
  /\ arcs = [r \in RustObjs |-> 0]
  /\ proxies = {}
  /\ stack = [t \in Threads |-> <<>>]
  /\ hand = [t \in Threads |-> Empty]
  /\ lost = <<>>
-----------------------------------------------------------------------------
(***************************************************************************)
(* C++ code: the application, or a method Rust has called.                 *)
(***************************************************************************)
\* init: the constructor's result becomes the new wrapper's instance.
Construct(t, r, w) ==
  /\ InCpp(t) /\ r \notin made /\ instance[w] = None /\ WrapperRoom
  /\ made' = made \cup {r}
  /\ strong' = [strong EXCEPT ![r] = 1]
  /\ instance' = [instance EXCEPT ![w] = r]
  /\ UNCHANGED <<app, mapVars, arcs, proxies, stack, hand, lost>>

\* ~Impl frees its instance.
Destroy(t, w) ==
  /\ InCpp(t) /\ instance[w] # None
  /\ ArcDrop(instance[w])
  /\ instance' = [instance EXCEPT ![w] = None]
  /\ UNCHANGED <<made, app, mapVars, arcs, proxies, stack, hand, lost>>

\* Variant: the copy shares the handle of the original.
CopyShared(t, w, v) ==
  /\ InCpp(t) /\ instance[w] # None /\ instance[v] = None /\ WrapperRoom
  /\ instance' = [instance EXCEPT ![v] = instance[w]]
  /\ UNCHANGED <<rustVars, app, mapVars, proxies, stack, hand, lost>>

\* The copy constructor (throw_underlying: throw *this) clones the handle.
Copy(t, w, v) ==
  /\ InCpp(t) /\ instance[w] # None /\ instance[v] = None /\ WrapperRoom
  /\ ArcClone(instance[w])
  /\ instance' = [instance EXCEPT ![v] = instance[w]]
  /\ UNCHANGED <<made, app, arcs, mapVars, proxies, stack, hand, lost>>

\* The application lets go of a C++ object.
Forget(t, i) ==
  /\ InCpp(t) /\ i \in app
  /\ app' = app \ {i}
  /\ UNCHANGED <<rustVars, instance, mapVars, proxies, stack, hand, lost>>

\* Lowering, as an argument (self included) or, in a method, as the result.
LowerUse(t, use) == InCpp(t) /\ (use = "ret" => stack[t] # <<>>) /\ use \in {"arg", "ret"}

\* Variant: the instance itself is passed, not a clone.
LowerWrapperUncloned(t, w, use) ==
  /\ LowerUse(t, use) /\ instance[w] # None
  /\ Take(t, use, instance[w])
  /\ UNCHANGED <<rustVars, instance, app, mapVars, proxies, stack, lost>>

LowerWrapper(t, w, use) ==
  /\ LowerUse(t, use) /\ instance[w] # None
  /\ ArcClone(instance[w])
  /\ Take(t, use, instance[w])
  /\ UNCHANGED <<made, arcs, instance, app, mapVars, proxies, stack, lost>>

LowerCpp(t, i, use) ==
  /\ LowerUse(t, use) /\ i \in app /\ MapRoom
  /\ Insert(i)
  /\ Take(t, use, cur_handle)
  /\ UNCHANGED <<rustVars, instance, app, proxies, stack, lost>>

\* The lowering of another argument throws (a custom converter, or a C++
\* implementation of a trait without a vtable): the handle lowered first is
\* neither passed nor freed.
LowerFails(t) ==
  /\ hand[t].use = "arg" /\ Len(lost) < MaxLost
  /\ lost' = Append(lost, hand[t].of)
  /\ Let(t)
  /\ UNCHANGED <<rustVars, instance, app, mapVars, proxies, stack>>

\* rust_call: the Rust function owns what it was given.
Call(t) ==
  /\ hand[t].use = "arg" /\ Len(stack[t]) < MaxDepth
  /\ Push(t, "rust", hand[t].of)
  /\ Let(t)
  /\ UNCHANGED <<rustVars, instance, app, mapVars, proxies, lost>>

\* A method that Rust called returns, with an object or without.
MethodReturn(t) ==
  /\ stack[t] # <<>> /\ ~InRust(t) /\ hand[t] = Empty
  /\ stack' = [stack EXCEPT ![t] = Below(t)]
  /\ UNCHANGED <<rustVars, instance, app, mapVars, proxies, hand, lost>>

MethodReturnObject(t) ==
  /\ hand[t].use = "ret"
  /\ stack' = [stack EXCEPT ![t] = Below(t)]
  /\ IF hand[t].of \in RustObjs
       THEN /\ arcs[hand[t].of] < MaxArcs
            /\ arcs' = [arcs EXCEPT ![hand[t].of] = @ + 1] /\ UNCHANGED proxies
       ELSE proxies' = proxies \cup {hand[t].of} /\ UNCHANGED arcs
  /\ Let(t)
  /\ UNCHANGED <<strong, made, instance, app, mapVars, lost>>

\* lift of an even handle: a new wrapper owns it.
LiftRust(t, w) ==
  /\ ~InRust(t) /\ hand[t].use = "lift" /\ hand[t].of \in RustObjs
  /\ instance[w] = None
  /\ instance' = [instance EXCEPT ![w] = hand[t].of]
  /\ Let(t)
  /\ UNCHANGED <<rustVars, app, mapVars, proxies, stack, lost>>

\* Variant: lift leaves the entry in the map, as a callback interface's lift does.
LiftCppKeeping(t) ==
  /\ ~InRust(t) /\ hand[t].use = "lift" /\ hand[t].of \in DOMAIN map
  /\ app' = app \cup {map[hand[t].of]}
  /\ Let(t)
  /\ UNCHANGED <<rustVars, instance, mapVars, proxies, stack, lost>>

\* lift of an odd handle: the C++ object comes back out of the map, at, ...
LiftCpp(t) ==
  /\ ~InRust(t) /\ hand[t].use = "lift" /\ hand[t].of \in DOMAIN map
  /\ app' = app \cup {map[hand[t].of]}
  /\ Take(t, "erase", hand[t].of)
  /\ UNCHANGED <<rustVars, instance, mapVars, proxies, stack, lost>>

\* ... and then erase.
LiftErase(t) ==
  /\ hand[t].use = "erase"
  /\ Erase(hand[t].of)
  /\ Let(t)
  /\ UNCHANGED <<rustVars, instance, app, proxies, stack, lost>>
-----------------------------------------------------------------------------
(***************************************************************************)
(* Rust code: a function C++ has called, or a thread of Rust's own.        *)
(***************************************************************************)
RustActs(t) == hand[t] = Empty /\ (InRust(t) \/ stack[t] = <<>>)
Given(t) == IF InRust(t) THEN Top(t).of ELSE None
Reaches(t, h) ==
  \/ h = Given(t)
  \/ h \in proxies
  \/ h \in RustObjs /\ arcs[h] > 0

\* The function moves its argument into Rust's own data.
Keep(t) ==
  /\ RustActs(t) /\ Given(t) # None
  /\ IF Given(t) \in RustObjs
       THEN /\ arcs[Given(t)] < MaxArcs
            /\ arcs' = [arcs EXCEPT ![Given(t)] = @ + 1] /\ UNCHANGED proxies
       ELSE proxies' = proxies \cup {Given(t)} /\ UNCHANGED arcs
  /\ stack' = [stack EXCEPT ![t][Len(stack[t])].of = None]
  /\ UNCHANGED <<strong, made, instance, app, mapVars, hand, lost>>

\* Rust drops an object of its own data; a proxy's drop calls uniffi_free.
RustDrop(t, h) ==
  /\ RustActs(t) /\ (h \in proxies \/ (h \in RustObjs /\ arcs[h] > 0))
  /\ IF h \in RustObjs
       THEN /\ arcs' = [arcs EXCEPT ![h] = @ - 1] /\ ArcDrop(h)
            /\ UNCHANGED <<mapVars, proxies>>
       ELSE /\ proxies' = proxies \ {h} /\ Erase(h)
            /\ UNCHANGED <<arcs, strong>>
  /\ UNCHANGED <<made, instance, app, stack, hand, lost>>

\* Variant: uniffi_clone answers the handle it was given.
LowerResultShared(t, h) ==
  /\ RustActs(t) /\ InRust(t) /\ Reaches(t, h)
  /\ IF h \in RustObjs
       THEN WrapperRoom /\ ArcClone(h) /\ Take(t, "lift", h) /\ UNCHANGED mapVars
       ELSE Take(t, "lift", h) /\ UNCHANGED <<strong, mapVars>>
  /\ UNCHANGED <<made, arcs, instance, app, proxies, stack, lost>>

\* Rust lowers the object it is going to return, or to pass to a method: a
\* new strong reference, or a new odd handle from uniffi_clone.
LowerResult(t, h) ==
  /\ RustActs(t) /\ InRust(t) /\ Reaches(t, h)
  /\ IF h \in RustObjs
       THEN WrapperRoom /\ ArcClone(h) /\ Take(t, "lift", h) /\ UNCHANGED mapVars
       ELSE /\ MapRoom /\ h \in DOMAIN map
            /\ Insert(map[h]) /\ Take(t, "lift", cur_handle) /\ UNCHANGED strong
  /\ UNCHANGED <<made, arcs, instance, app, proxies, stack, lost>>

\* The function returns; the argument it still owns is dropped.
RustReturn(t) ==
  /\ InRust(t) /\ hand[t].use \in {"none", "lift"}
  /\ stack' = [stack EXCEPT ![t] = Below(t)]
  /\ CASE Given(t) = None -> UNCHANGED <<strong, mapVars>>
       [] Given(t) \in RustObjs -> ArcDrop(Given(t)) /\ UNCHANGED mapVars
       [] OTHER -> Erase(Given(t)) /\ UNCHANGED strong
  /\ UNCHANGED <<made, arcs, instance, app, proxies, hand, lost>>

\* A vtable method: at(uniffi_handle), then the C++ method, which lifts the
\* object Rust may be passing it.
CallMethod(t, h) ==
  /\ hand[t].use \in {"none", "lift"} /\ (InRust(t) \/ RustActs(t))
  /\ Reaches(t, h) /\ h \in DOMAIN map
  /\ Len(stack[t]) < MaxDepth
  /\ Push(t, "cpp", map[h])
  /\ UNCHANGED <<rustVars, instance, app, mapVars, proxies, hand, lost>>
-----------------------------------------------------------------------------
CppStep(t) ==
  \/ \E r \in RustObjs, w \in Wrappers : Construct(t, r, w)
  \/ \E w, v \in Wrappers : Copy(t, w, v)
  \/ \E w \in Wrappers : Destroy(t, w)
  \/ \E i \in CppObjs : Forget(t, i)
  \/ \E w \in Wrappers, use \in {"arg", "ret"} : LowerWrapper(t, w, use)
  \/ \E i \in CppObjs, use \in {"arg", "ret"} : LowerCpp(t, i, use)
  \/ LowerFails(t) \/ Call(t) \/ MethodReturn(t) \/ MethodReturnObject(t)

LiftStep(t) == (\E w \in Wrappers : LiftRust(t, w)) \/ LiftCpp(t) \/ LiftErase(t)

RustStep(t) ==
  \/ Keep(t) \/ RustReturn(t)
  \/ \E h \in RustObjs \cup Odd : RustDrop(t, h) \/ LowerResult(t, h) \/ CallMethod(t, h)

Next == \E t \in Threads : CppStep(t) \/ LiftStep(t) \/ RustStep(t)

Spec == Init /\ [][Next]_vars

\* Generated code that has begun to lift goes on.
FairSpec == Spec /\ \A t \in Threads : WF_vars(LiftStep(t))
-----------------------------------------------------------------------------
(***************************************************************************)
(* Properties.                                                             *)
(***************************************************************************)
Handle == RustObjs \cup Odd \cup {None}

\* Types of the variables.
TypeOK ==
  /\ strong \in [RustObjs -> Nat] /\ arcs \in [RustObjs -> Nat]
  /\ made \subseteq RustObjs
  /\ instance \in [Wrappers -> RustObjs \cup {None}]
  /\ app \subseteq CppObjs
  /\ DOMAIN map \subseteq Odd /\ map \in [DOMAIN map -> CppObjs]
  /\ proxies \subseteq Odd
  /\ stack \in [Threads -> Seq([in : {"rust", "cpp"}, of : Handle \cup CppObjs])]
  /\ hand \in [Threads -> [use : {"none", "arg", "ret", "lift", "erase"}, of : Handle]]
  /\ lost \in Seq(RustObjs \cup Odd)

\* The owners of handle h other than wrappers: Rust's data, running Rust
\* functions, threads in transit, and nobody.
Carriers(h) ==
    Cardinality({t \in Threads : hand[t].of = h})
  + Cardinality(UNION {{<<t, n>> : n \in {m \in DOMAIN stack[t] :
                  stack[t][m].in = "rust" /\ stack[t][m].of = h}} : t \in Threads})
  + Cardinality({n \in DOMAIN lost : lost[n] = h})

\* Every strong reference has exactly one owner: none is freed twice, none is
\* forgotten (obj.cpp: instance is freed once and cloned for every use).
StrongCountExact ==
  \A r \in RustObjs :
    strong[r] = Cardinality({w \in Wrappers : instance[w] = r}) + arcs[r] + Carriers(r)

\* A Rust object is not freed while a Rust function runs on it, even if that
\* function calls back into C++ and the last wrapper is destroyed there.
NoUseAfterFree ==
  \A t \in Threads : \A n \in DOMAIN stack[t] :
    stack[t][n].of \in RustObjs => strong[stack[t][n].of] > 0

\* Every entry of the handle map has exactly one owner, and every odd handle
\* somebody owns is in the map: at, clone and erase never meet an unknown
\* handle (at is outside any try in callback_iface_tmpl.cpp 8, so its
\* exception would leave an extern "C" function), and no entry is orphaned.
ForeignHandlesOwnedOnce ==
  \A h \in Odd :
    Carriers(h) + (IF h \in proxies THEN 1 ELSE 0) = (IF h \in DOMAIN map THEN 1 ELSE 0)

\* What makes these three inductive.  Nobody owns what is not made yet; the
\* counter is odd and above every entry of the map.
FreshInv ==
  /\ \A r \in RustObjs : strong[r] > 0 => r \in made
  /\ cur_handle \in Nat /\ cur_handle % 2 = 1
  /\ \A h \in DOMAIN map : h < cur_handle

\* A thread carries a handle exactly while it is doing something with it: in
\* C++, or received from Rust; a result, in a method; the one to erase is odd.
HandInv ==
  \A t \in Threads :
    /\ hand[t].use = "none" <=> hand[t].of = None
    /\ hand[t].use \in {"arg", "ret"} => ~InRust(t)
    /\ hand[t].use = "ret" => stack[t] # <<>>
    /\ hand[t].use = "erase" => hand[t].of \in Odd

\* A Rust function has a handle or none, a C++ method runs on a C++ object.
FrameInv ==
  \A t \in Threads : \A n \in DOMAIN stack[t] :
    stack[t][n].of \in IF stack[t][n].in = "rust" THEN Handle ELSE CppObjs

\* The inductive invariant.
IInv == TypeOK /\ FreshInv /\ HandInv /\ FrameInv /\ StrongCountExact /\ ForeignHandlesOwnedOnce

\* A handle received from Rust is always lifted.
ReceivedIsLifted ==
  \A t \in Threads :
    (hand[t].use \in {"lift", "erase"} /\ ~InRust(t)) ~> hand[t] = Empty
=============================================================================
