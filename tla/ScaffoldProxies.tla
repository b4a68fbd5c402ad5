---------------------------- MODULE ScaffoldProxies ----------------------------
(***************************************************************************)
(* Foreign callback objects in a C++ library (templates                    *)
(* scaffolding/callback.cpp, the constructors, destructors and methods of  *)
(* cpp_scaffolding.cpp, and ObjectMap), with a library like                *)
(* fixture_callbacks: functions that use a callback while they run         *)
(* (RustGetters) and objects that store one (RustStringifier).             *)
(*                                                                         *)
(* The foreign side lowers a callback object to a new handle, which is the *)
(* library's to release.  lift wraps it in a proxy that shared_ptrs own;   *)
(* the proxy's destructor asks the foreign side to release the handle,     *)
(* wherever the last shared_ptr goes: at the end of a call, or in          *)
(* ObjectMap::erase, under its mutex.  A proxy's method runs foreign code, *)
(* which may call the library again on the same thread.                    *)
(*                                                                         *)
(* A foreign side that counts references destroys the callback object when *)
(* its handle is released, as the repository's own C++ bindings do         *)
(* (handle_map.cpp 22-33); the object's destructor is foreign code too and *)
(* may call the library, free another object for one.                      *)
(*                                                                         *)
(* Assumed of the foreign side: it frees no object that a call runs on.    *)
(***************************************************************************)
EXTENDS Integers, Sequences

CONSTANTS
  Threads,
  Handles,     \* bound: callback objects lowered in one behaviour
  Objects,     \* bound: objects made in one behaviour
  None,
  MaxMethods,  \* bound: method calls in one behaviour
  MaxDepth     \* bound: frames on one thread's stack

ASSUME ScaffoldProxiesAssumption ==
  None \notin Threads \cup Handles \cup Objects /\ {MaxMethods, MaxDepth} \subseteq Nat

(***************************************************************************)
(* A frame says at what its thread is, on which object or handle:          *)
(*   "lift"    the callback argument of a function or constructor          *)
(*   "at"      the object of a method, about to be looked up               *)
(*   "body"    library code, with shared_ptrs of the proxies in holds      *)
(*   "insert"  a new object, about to enter the table                      *)
(*   "foreign" a proxy's method                                            *)
(*   "erase"   the free function, before the mutex                         *)
(*   "destroy" in erase, when the object is gone                           *)
(*   "release" a proxy's destructor, about to release the handle           *)
(*   "cleanup" the foreign side's free, in the callback's own destructor   *)
(* guard: leaving the frame unlocks the mutex.                             *)
(***************************************************************************)
VARIABLES
  foreign,    \* the foreign side's handles: "unused", "given" or "gone"
  lost,       \* handles that no proxy was made for
  table,      \* the objects in the ObjectMap
  made,       \* the objects made so far
  member,     \* per object, the handle of the proxy it stores, or None
  mutex,      \* the thread that holds the ObjectMap's mutex, or None
  stack,      \* per thread, its frames, the innermost last
  methods     \* method calls so far

vars == <<foreign, lost, table, made, member, mutex, stack, methods>>

FrameSet ==
  [at : {"lift", "at", "body", "insert", "foreign", "erase",
         "destroy", "release", "cleanup"},
   obj : Objects \cup {None}, handle : Handles \cup {None},
   holds : SUBSET Handles, guard : BOOLEAN]

Frame(at, o, h, holds, guard) ==
  [at |-> at, obj |-> o, handle |-> h, holds |-> holds, guard |-> guard]

Top(t) == stack[t][Len(stack[t])]
Under(t) == SubSeq(stack[t], 1, Len(stack[t]) - 1)
Frames(t) == {stack[t][i] : i \in DOMAIN stack[t]}
AllFrames == UNION {Frames(t) : t \in Threads}

Set(t, frames) == stack' = [stack EXCEPT ![t] = frames]
Push(t, frame) == Len(stack[t]) < MaxDepth /\ Set(t, stack[t] \o <<frame>>)

\* Foreign code runs on thread t.
InForeign(t) == stack[t] # <<>> => Top(t).at \in {"foreign", "cleanup"}

Is(t, at) == stack[t] # <<>> /\ Top(t).at = at

\* A thread that waits for a std::mutex it holds itself waits for ever.
LockedOut(t) == mutex = t /\ (Is(t, "at") \/ Is(t, "insert") \/ Is(t, "erase"))
-----------------------------------------------------------------------------
Init ==
  /\ foreign = [h \in Handles |-> "unused"]
  /\ lost = {}
  /\ table = {} /\ made = {}
  /\ member = [o \in Objects |-> None]
  /\ mutex = None
  /\ stack = [t \in Threads |-> <<>>]
  /\ methods = 0

\* The foreign side calls a function, or the constructor of o, with a
\* callback object.
Call(t, h, o) ==
  /\ InForeign(t) /\ foreign[h] = "unused"
  /\ o \notin made
  /\ foreign' = [foreign EXCEPT ![h] = "given"]
  /\ made' = made \cup ({o} \ {None})
  /\ Push(t, Frame("lift", o, h, {}, FALSE))
  /\ UNCHANGED <<lost, table, member, mutex, methods>>

\* lift: a new proxy, and the call is its first owner.
Lift(t) ==
  /\ Is(t, "lift")
  /\ Set(t, Under(t) \o <<Frame("body", Top(t).obj, None, {Top(t).handle}, FALSE)>>)
  /\ UNCHANGED <<foreign, lost, table, made, member, mutex, methods>>

\* The arguments are lifted in an order the compiler chooses.  Another one's
\* lift throws before this one's: the handle stays what it was, a number.  (In
\* a constructor nothing would catch it.)
LiftOtherFails(t) ==
  /\ Is(t, "lift") /\ Top(t).obj = None
  /\ lost' = lost \cup {Top(t).handle}
  /\ Set(t, Under(t))
  /\ UNCHANGED <<foreign, table, made, member, mutex, methods>>

\* A method: its object is found under the mutex, which is free again before
\* the library's code runs.
Method(t, o) ==
  /\ InForeign(t) /\ o \in table
  /\ \A f \in AllFrames : f.at = "erase" => f.obj # o
  /\ methods < MaxMethods /\ methods' = methods + 1
  /\ Push(t, Frame("at", o, None, {}, FALSE))
  /\ UNCHANGED <<foreign, lost, table, made, member, mutex>>

\* Variant: the guard lasts as long as the call.
AtKeepingGuard(t) ==
  /\ Is(t, "at") /\ mutex = None
  /\ mutex' = t
  /\ Set(t, Under(t) \o <<Frame("body", Top(t).obj, None, {}, TRUE)>>)
  /\ UNCHANGED <<foreign, lost, table, made, member, methods>>

At(t) ==
  /\ Is(t, "at") /\ mutex = None
  /\ Set(t, Under(t) \o <<Frame("body", Top(t).obj, None, {}, FALSE)>>)
  /\ UNCHANGED <<foreign, lost, table, made, member, mutex, methods>>
-----------------------------------------------------------------------------
(***************************************************************************)
(* Library code.                                                           *)
(***************************************************************************)
\* It calls a method of a proxy: one it was given, or its object's.
CallProxy(t, h) ==
  /\ Is(t, "body")
  /\ \/ h \in Top(t).holds
     \/ Top(t).obj \in table /\ h = member[Top(t).obj]
  /\ Push(t, Frame("foreign", None, h, {}, FALSE))
  /\ UNCHANGED <<foreign, lost, table, made, member, mutex, methods>>

\* The foreign method returns or fails.
ProxyReturns(t) ==
  /\ Is(t, "foreign")
  /\ Set(t, Under(t))
  /\ UNCHANGED <<foreign, lost, table, made, member, mutex, methods>>

\* Variant: the constructor keeps a reference to the proxy, not a share.
StoreUnshared(t) ==
  /\ Is(t, "body") /\ Top(t).obj \in made \ table
  /\ member' = [member EXCEPT ![Top(t).obj] = CHOOSE h \in Top(t).holds : TRUE]
  /\ table' = table \cup {Top(t).obj}
  /\ Set(t, Under(t) \o <<Frame("release", None, member'[Top(t).obj], {}, FALSE)>>)
  /\ UNCHANGED <<foreign, lost, made, mutex, methods>>

\* The constructor's body: the object shares the proxy, and then the
\* argument goes.
Store(t) ==
  /\ Is(t, "body") /\ Top(t).obj \in made \ table
  /\ member' = [member EXCEPT ![Top(t).obj] = CHOOSE h \in Top(t).holds : TRUE]
  /\ Set(t, Under(t) \o <<Frame("insert", Top(t).obj, None, {}, FALSE)>>)
  /\ UNCHANGED <<foreign, lost, table, made, mutex, methods>>

Insert(t) ==
  /\ Is(t, "insert") /\ mutex = None
  /\ table' = table \cup {Top(t).obj}
  /\ Set(t, Under(t))
  /\ UNCHANGED <<foreign, lost, made, member, mutex, methods>>

\* Variant: a proxy without a destructor.
ReleasingNothing(hs) == <<>>

\* The last shared_ptr of the proxy in hs, if any, is dropped: its destructor.
Releasing(hs) == [i \in 1 .. (IF hs = {} THEN 0 ELSE 1) |->
                    Frame("release", None, CHOOSE h \in hs : TRUE, {}, FALSE)]

\* A function or method returns or throws; its arguments go.
Leave(t) ==
  /\ Is(t, "body") /\ Top(t).obj \notin made \ table
  /\ mutex' = IF Top(t).guard THEN None ELSE mutex
  /\ Set(t, Under(t) \o Releasing(Top(t).holds))
  /\ UNCHANGED <<foreign, lost, table, made, member, methods>>
-----------------------------------------------------------------------------
(***************************************************************************)
(* An object's end.                                                        *)
(***************************************************************************)
\* The foreign side frees its reference when no call runs on it.
Free(t, o) ==
  /\ InForeign(t) /\ o \in table
  /\ \A f \in AllFrames : f.obj # o
  /\ Push(t, Frame("erase", o, None, {}, FALSE))
  /\ UNCHANGED <<foreign, lost, table, made, member, mutex, methods>>

\* ObjectMap::erase of the last reference: the object and its shared_ptr go,
\* and the proxy's destructor calls the foreign side, all under the guard.
Erase(t) ==
  /\ Is(t, "erase") /\ mutex = None
  /\ LET o == Top(t).obj IN
       /\ table' = table \ {o}
       /\ member' = [member EXCEPT ![o] = None]
       /\ Set(t, Under(t) \o <<Frame("destroy", o, None, {}, TRUE)>> \o Releasing({member[o]}))
  /\ mutex' = t
  /\ UNCHANGED <<foreign, lost, made, methods>>

\* The end of erase.
Unlock(t) ==
  /\ Is(t, "destroy")
  /\ mutex' = None
  /\ Set(t, Under(t))
  /\ UNCHANGED <<foreign, lost, table, made, member, methods>>

\* The foreign side removes the handle, and what the callback object's
\* destructor does begins.
Release(t) ==
  /\ Is(t, "release")
  /\ foreign' = [foreign EXCEPT ![Top(t).handle] = "gone"]
  /\ Set(t, Under(t) \o <<Frame("cleanup", None, None, {}, FALSE)>>)
  /\ UNCHANGED <<lost, table, made, member, mutex, methods>>

\* The foreign side's free returns, and so does the proxy's destructor.
CleanedUp(t) ==
  /\ Is(t, "cleanup")
  /\ Set(t, Under(t))
  /\ UNCHANGED <<foreign, lost, table, made, member, mutex, methods>>
-----------------------------------------------------------------------------
GeneratedStep(t) ==
  \/ Lift(t) \/ LiftOtherFails(t) \/ At(t) \/ Insert(t)
  \/ Erase(t) \/ Unlock(t) \/ Release(t)

LibraryStep(t) == Store(t) \/ Leave(t) \/ \E h \in Handles : CallProxy(t, h)

ForeignStep(t) ==
  \/ \E h \in Handles, o \in Objects \cup {None} : Call(t, h, o)
  \/ \E o \in Objects : Method(t, o) \/ Free(t, o)
  \/ ProxyReturns(t) \/ CleanedUp(t)

Next == \E t \in Threads : GeneratedStep(t) \/ LibraryStep(t) \/ ForeignStep(t)

(***************************************************************************)
(* Threads run; library code, callbacks and foreign destructors end; an    *)
(* object's foreign owner gives it up at last, on a thread that is doing   *)
(* nothing else.                                                           *)
(***************************************************************************)
Fairness ==
  /\ \A t \in Threads :
       /\ WF_vars(Lift(t) \/ Unlock(t) \/ Release(t))
       /\ SF_vars(At(t) \/ Insert(t) \/ Erase(t))
       /\ SF_vars(Store(t) \/ Leave(t))
       /\ SF_vars(ProxyReturns(t)) /\ SF_vars(CleanedUp(t))
  /\ \A o \in Objects : SF_vars(\E t \in Threads : stack[t] = <<>> /\ Free(t, o))

Spec == Init /\ [][Next]_vars
FairSpec == Spec /\ Fairness
-----------------------------------------------------------------------------
(***************************************************************************)
(* Properties.                                                             *)
(***************************************************************************)
\* Types of the variables.
TypeOK ==
  /\ foreign \in [Handles -> {"unused", "given", "gone"}]
  /\ lost \subseteq Handles
  /\ table \subseteq made /\ made \subseteq Objects
  /\ member \in [Objects -> Handles \cup {None}]
  /\ mutex \in Threads \cup {None}
  /\ stack \in [Threads -> Seq(FrameSet)]
  /\ methods \in Nat

\* The foreign side is only asked for handles that it still has, by a proxy's
\* method or its destructor: a proxy lives as long as anyone can call it, and
\* releases its handle once (callback.cpp 11-23, 53).
AskedForLivingHandles ==
  \A f \in AllFrames : f.at \in {"foreign", "release"} => foreign[f.handle] = "given"

\* ObjectMap::erase destroys the object, and with it the proxy and the foreign
\* callback, under its guard (object_map.cpp 23-32; HandleMap, "to avoid
\* re-entrant locking", does not, handle_map.cpp 23).  A thread can therefore
\* wait for the mutex that it holds, but erase is the only way: whatever
\* callbacks, methods and constructors are nested, it is in a foreign destructor
\* that an erase of its own runs.  No method, constructor or callback runs under
\* the mutex (object_map.cpp 4-21).
LockedOutOnlyByErase ==
  \A t \in Threads : LockedOut(t) =>
    \E i, j \in DOMAIN stack[t] :
      j = i + 1 /\ stack[t][i].at = "destroy" /\ stack[t][j].at = "cleanup"

\* The frame f answers for h: nothing but f will release it or pass it on.
Has(f, h) ==
  \/ f.at \in {"lift", "release"} /\ f.handle = h
  \/ f.at = "body" /\ h \in f.holds

\* No handle is forgotten: as long as the foreign side has it, there is an
\* owner who will release it, an argument, a call that holds the proxy, an
\* object that stores it or a destructor that runs (callback.cpp 11-23).  Only
\* a handle is excepted for which no proxy was made.
NoHandleForgotten ==
  \A h \in Handles : foreign[h] = "given" =>
    \/ h \in lost
    \/ \E o \in Objects : member[o] = h
    \/ \E f \in AllFrames : Has(f, h)

\* Every handle that the library was given and that a proxy was made for is
\* given back in the end, whatever the callbacks and destructors call and
\* whichever thread drops the last shared_ptr (callback.cpp 11-23, 110-112),
\* unless a thread locked itself out.
EveryHandleReturns ==
  \A h \in Handles : foreign[h] = "given" ~>
    (foreign[h] = "gone" \/ h \in lost \/ \E t \in Threads : LockedOut(t))

(***************************************************************************)
(* The inductive invariant.                                                *)
(***************************************************************************)
\* What a frame knows of the world.
FrameOK(f) ==
  /\ f.obj # None => f.obj \in made
  /\ f.at \in {"lift", "release"} => f.handle \in Handles
  /\ f.at = "lift" => f.obj \notin table
  /\ f.at = "body" /\ f.obj \in made \ table => f.holds # {}
  /\ f.at = "insert" => f.obj \in made \ table /\ member[f.obj] \in Handles
  /\ f.at \in {"at", "erase"} => f.obj \in table
  /\ f.at \in {"foreign", "cleanup"} => f.obj = None
  /\ f.guard => f.at = "destroy"
  /\ \A h \in Handles : Has(f, h) =>
       foreign[h] = "given" /\ \A o \in Objects : member[o] # h

\* What may run on top of what: foreign code on the library's, which shares
\* the proxy, or on a release; the library on foreign code only, and nothing
\* on a proxy's destructor.
On(f, g) ==
  /\ f.at = "foreign" =>
       /\ g.at = "body"
       /\ f.handle \in g.holds \/ (g.obj \in table /\ f.handle = member[g.obj])
  /\ f.at \in {"release", "cleanup"} => g.at \in {"foreign", "cleanup", "destroy"}
  /\ f.at \notin {"foreign", "release", "cleanup"} => g.at \in {"foreign", "cleanup"}

\* Two frames never answer for one handle; they run on one object only while
\* it is in the table and neither takes it out; one erase runs at a time.
Apart(f, g) ==
  /\ \A h \in Handles : ~(Has(f, h) /\ Has(g, h))
  /\ f.obj # None /\ f.obj = g.obj => f.obj \in table /\ f.at # "erase" /\ g.at # "erase"
  /\ ~(f.at = "destroy" /\ g.at = "destroy")

StacksInv ==
  \A t \in Threads : \A i \in DOMAIN stack[t] :
    /\ FrameOK(stack[t][i])
    /\ IF i = 1 THEN stack[t][i].at # "foreign" ELSE On(stack[t][i], stack[t][i - 1])

ApartInv ==
  \A t, u \in Threads : \A i \in DOMAIN stack[t], j \in DOMAIN stack[u] :
    t # u \/ i # j => Apart(stack[t][i], stack[u][j])

\* An object is the only one that stores its handle.
MemberInv ==
  /\ \A o \in table : member[o] \in Handles
  /\ \A o \in Objects : member[o] # None => o \in made /\ foreign[member[o]] = "given"
  /\ \A o, p \in Objects : member[o] # None /\ member[o] = member[p] => o = p

\* The mutex is held as long as an object is destroyed, and no longer.
MutexInv ==
  \A t \in Threads : mutex = t <=> \E i \in DOMAIN stack[t] : stack[t][i].at = "destroy"

IInv == TypeOK /\ StacksInv /\ ApartInv /\ MemberInv /\ MutexInv

(***************************************************************************)
(* What makes NoHandleForgotten inductive, besides IInv: nothing that is   *)
(* dropped or overwritten is a second proxy's.                             *)
(***************************************************************************)
FrameNarrow(f) ==
  /\ f.at = "body" => \A h, k \in f.holds : h = k
  /\ f.at \in {"lift", "body"} /\ f.obj \in made \ table => member[f.obj] = None

OwnerInv == NoHandleForgotten /\ \A f \in AllFrames : FrameNarrow(f)
=============================================================================
