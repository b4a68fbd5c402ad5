------------------------------- MODULE HandleMap -------------------------------
(***************************************************************************)
(* HandleMap<T>, templates/handle_map.cpp: the table that gives a C++      *)
(* object an integer Rust can hold.  Every thread of the process may call  *)
(* it: the application when it lowers an object, Rust when it clones,      *)
(* frees or calls through a handle (callback_iface_tmpl.cpp).              *)
(*                                                                         *)
(* A call locks the mutex, works on the map and the counter one access at  *)
(* a time, and unlocks it.  Around the calls the module models what makes  *)
(* the table hard: the shared_ptr's that keep an object alive, and user    *)
(* code that runs on a thread between its calls - a method called through  *)
(* a handle, or the destructor of the object whose last reference the      *)
(* thread dropped - and which may call the map again.                      *)
(***************************************************************************)
EXTENDS Integers, Sequences, FiniteSets

CONSTANTS
  Threads,    \* threads of the process
  Impls,      \* the C++ objects the application will create
  None,       \* no object
  NoThread,   \* the mutex is free
  MaxHandle,  \* bound: no insertion starts that could pass this handle
  MaxDepth    \* bound: methods a thread may be running, one inside the other

ASSUME HandleMapAssumption ==
  /\ IsFiniteSet(Threads)
  /\ NoThread \notin Threads
  /\ None \notin Impls
  /\ MaxHandle \in Nat
  /\ MaxDepth \in Nat

VARIABLES
  mutex,       \* HandleMap::mutex: the thread that holds it, or NoThread
  cur_handle,  \* HandleMap::cur_handle
  map,         \* HandleMap::map, a function from the live handles to Impls
  pc,          \* per thread, the next access of its call; "user" outside the map
  op,          \* per thread, the operation it is in
  handle,      \* per thread, the parameter `handle' of that operation
  slot,        \* per thread, the local `handle' of insert_locked
  impl,        \* per thread, its local shared_ptr: parameter, result or `cleanup'
  frames,      \* per thread, the user code it is in, innermost last
  app,         \* the objects the application itself holds a reference to
  refs,        \* per object, the use count of its shared_ptr's
  life,        \* per object, "unborn", "alive", "dying" (in ~T) or "dead"
  issued       \* history: every <<handle, object>> an insertion has answered

lockVars == <<mutex, cur_handle, map>>
callVars == <<pc, op, handle, slot, impl>>
objVars == <<frames, app, refs, life>>
vars == <<lockVars, callVars, objVars, issued>>

Handles == {h \in 1..MaxHandle : h % 2 = 1}
Ops == {"none", "insert", "clone", "erase", "at", "lift"}
Inside == {"look", "take", "store", "bump", "remove", "unlock"}
Pcs == {"user", "lock", "again", "deliver"} \cup Inside
Frames == [kind : {"method", "dtor", "lift"}, obj : Impls]

With(f, h, i) == [x \in DOMAIN f \cup {h} |-> IF x = h THEN i ELSE f[x]]
Without(f, h) == [x \in DOMAIN f \ {h} |-> f[x]]
Goto(t, from, to) == pc[t] = from /\ pc' = [pc EXCEPT ![t] = to]

\* The calls that will still move the counter, for the bound MaxHandle.
Inserting ==
  {t \in Threads : /\ op[t] \in {"insert", "clone"}
                   /\ pc[t] \in {"lock", "look", "take", "store", "bump"}}
-----------------------------------------------------------------------------
Init ==
  /\ mutex = NoThread
  /\ cur_handle = 1
  /\ map = [h \in {} |-> None]
  /\ pc = [t \in Threads |-> "user"]
  /\ op = [t \in Threads |-> "none"]
  /\ handle = [t \in Threads |-> 0]
  /\ slot = [t \in Threads |-> 0]
  /\ impl = [t \in Threads |-> None]
  /\ frames = [t \in Threads |-> <<>>]
  /\ app = {}
  /\ refs = [i \in Impls |-> 0]
  /\ life = [i \in Impls |-> "unborn"]
  /\ issued = {}
-----------------------------------------------------------------------------
(***************************************************************************)
(* References.  Dropping the last one runs ~T on the thread that dropped   *)
(* it: a new innermost frame of `base', the thread's other user code.      *)
(***************************************************************************)
Share(i) == refs' = [refs EXCEPT ![i] = @ + 1] /\ UNCHANGED <<frames, life>>

Drop(t, i, base) ==
  /\ refs' = [refs EXCEPT ![i] = @ - 1]
  /\ IF refs[i] = 1
       THEN /\ life' = [life EXCEPT ![i] = "dying"]
            /\ frames' = [frames EXCEPT ![t] = Append(base, [kind |-> "dtor", obj |-> i])]
       ELSE /\ frames' = [frames EXCEPT ![t] = base]
            /\ UNCHANGED life

\* The application makes an object, and later lets go of it.
Create(t, i) ==
  /\ pc[t] = "user" /\ life[i] = "unborn"
  /\ life' = [life EXCEPT ![i] = "alive"]
  /\ refs' = [refs EXCEPT ![i] = 1]
  /\ app' = app \cup {i}
  /\ UNCHANGED <<lockVars, callVars, frames, issued>>

Forget(t, i) ==
  /\ pc[t] = "user" /\ i \in app
  /\ app' = app \ {i}
  /\ Drop(t, i, frames[t])
  /\ UNCHANGED <<lockVars, callVars, issued>>

\* The innermost frame of the thread returns.
Outer(t) == SubSeq(frames[t], 1, Len(frames[t]) - 1)
Innermost(t) == frames[t][Len(frames[t])]
In(t, kind) == frames[t] # <<>> /\ Innermost(t).kind = kind
Enter(t, kind, i) == frames' = [frames EXCEPT ![t] = Append(@, [kind |-> kind, obj |-> i])]

MethodReturn(t) ==
  /\ pc[t] = "user" /\ In(t, "method")
  /\ Drop(t, Innermost(t).obj, Outer(t))
  /\ UNCHANGED <<lockVars, callVars, app, issued>>

DtorReturn(t) ==
  /\ pc[t] = "user" /\ In(t, "dtor")
  /\ life' = [life EXCEPT ![Innermost(t).obj] = "dead"]
  /\ frames' = [frames EXCEPT ![t] = Outer(t)]
  /\ UNCHANGED <<lockVars, callVars, app, refs, issued>>
-----------------------------------------------------------------------------
(***************************************************************************)
(* Calls.  `lift' is the C++ side taking an object back (obj_conv.cpp):    *)
(* at, then erase, with the mutex free in between.  `at' is Rust calling a *)
(* method through a handle (callback_iface_tmpl.cpp).                      *)
(***************************************************************************)
Begin(t, o, h, i) ==
  /\ Goto(t, "user", "lock")
  /\ op' = [op EXCEPT ![t] = o]
  /\ handle' = [handle EXCEPT ![t] = h]
  /\ impl' = [impl EXCEPT ![t] = i]
  /\ UNCHANGED <<lockVars, slot, app, issued>>

Room == cur_handle + 2 * Cardinality(Inserting) <= MaxHandle

CallInsert(t, i) ==
  /\ i \in app /\ Room
  /\ Begin(t, "insert", 0, i)
  /\ Share(i)

CallClone(t, h) == Room /\ Begin(t, "clone", h, None) /\ UNCHANGED <<frames, refs, life>>
CallErase(t, h) == Begin(t, "erase", h, None) /\ UNCHANGED <<frames, refs, life>>
CallLift(t, h) == Begin(t, "lift", h, None) /\ UNCHANGED <<frames, refs, life>>
CallMethod(t, h) ==
  /\ Len(frames[t]) < MaxDepth
  /\ Begin(t, "at", h, None)
  /\ UNCHANGED <<frames, refs, life>>

\* Variant: a method that forgets its std::lock_guard.
AcquireWithoutLock(t) ==
  /\ Goto(t, "lock", IF op[t] = "insert" THEN "take" ELSE "look")
  /\ mutex' = t
  /\ UNCHANGED <<cur_handle, map, op, handle, slot, impl, objVars, issued>>

\* std::lock_guard, and the first access of the operation is next.
Acquire(t) ==
  /\ mutex = NoThread
  /\ Goto(t, "lock", IF op[t] = "insert" THEN "take" ELSE "look")
  /\ mutex' = t
  /\ UNCHANGED <<cur_handle, map, op, handle, slot, impl, objVars, issued>>

AfterLook(t) ==
  IF op[t] = "clone" THEN "take" ELSE IF op[t] = "erase" THEN "remove" ELSE "unlock"

\* Variant: the object found is not copied out of the map, only pointed to.
LookUnshared(t) ==
  /\ handle[t] \in DOMAIN map
  /\ Goto(t, "look", AfterLook(t))
  /\ impl' = [impl EXCEPT ![t] = map[handle[t]]]
  /\ UNCHANGED <<lockVars, op, handle, slot, objVars, issued>>

\* map.at(handle), or map.find and cleanup = it->second: a copy of the shared_ptr.
Look(t) ==
  /\ handle[t] \in DOMAIN map
  /\ Goto(t, "look", AfterLook(t))
  /\ impl' = [impl EXCEPT ![t] = map[handle[t]]]
  /\ Share(map[handle[t]])
  /\ UNCHANGED <<lockVars, op, handle, slot, app, issued>>

\* Variant: a lookup waits, in the mutex, until its handle is there.
LookMissWaiting(t) ==
  /\ pc[t] = "look" /\ handle[t] \notin DOMAIN map
  /\ UNCHANGED vars

\* The handle is unknown: out_of_range from at, nothing to do for erase.
LookMiss(t) ==
  /\ handle[t] \notin DOMAIN map
  /\ Goto(t, "look", "unlock")
  /\ UNCHANGED <<lockVars, op, handle, slot, impl, objVars, issued>>

\* insert_locked: auto handle = cur_handle; map.insert({handle, impl}); cur_handle += 2.
Take(t) ==
  /\ Goto(t, "take", "store")
  /\ slot' = [slot EXCEPT ![t] = cur_handle]
  /\ UNCHANGED <<lockVars, op, handle, impl, objVars, issued>>

\* std::map::insert leaves an entry that is already there alone.
Store(t) ==
  /\ Goto(t, "store", "bump")
  /\ IF slot[t] \in DOMAIN map
       THEN UNCHANGED <<map, frames, refs, life>>
       ELSE map' = With(map, slot[t], impl[t]) /\ Share(impl[t])
  /\ issued' = issued \cup {<<slot[t], impl[t]>>}
  /\ UNCHANGED <<mutex, cur_handle, op, handle, slot, impl, app>>

Bump(t) ==
  /\ Goto(t, "bump", "unlock")
  /\ cur_handle' = cur_handle + 2
  /\ UNCHANGED <<mutex, map, op, handle, slot, impl, objVars, issued>>

\* map.erase(it): the map's own reference goes; `cleanup' still holds one.
Remove(t) ==
  /\ Goto(t, "remove", "unlock")
  /\ map' = Without(map, handle[t])
  /\ Drop(t, map[handle[t]], frames[t])
  /\ UNCHANGED <<mutex, cur_handle, op, handle, slot, impl, app, issued>>

(***************************************************************************)
(* The guard's scope ends and the call returns.  What becomes of the local *)
(* shared_ptr: a method runs on it; lift hands it to the application and   *)
(* goes on to erase; the other operations drop it, erase thereby running   *)
(* ~T, if it was the last, with the mutex already free.                    *)
(***************************************************************************)
Leave(t, to, lock) ==
  /\ Goto(t, "unlock", to)
  /\ mutex' = lock
  /\ op' = [op EXCEPT ![t] = "none"]
  /\ handle' = [handle EXCEPT ![t] = 0]
  /\ slot' = [slot EXCEPT ![t] = 0]
  /\ impl' = [impl EXCEPT ![t] = None]
  /\ UNCHANGED <<cur_handle, map, issued>>

Caller(t) == IF In(t, "lift") THEN "deliver" ELSE "user"

ReturnMiss(t) == impl[t] = None /\ Leave(t, Caller(t), NoThread) /\ UNCHANGED objVars

ReturnMethod(t) ==
  /\ op[t] = "at" /\ impl[t] # None
  /\ Leave(t, "user", NoThread)
  /\ Enter(t, "method", impl[t])
  /\ UNCHANGED <<app, refs, life>>

\* Variant: `cleanup' is declared inside the scope of the guard.
ReturnDropLocked(t) ==
  /\ op[t] \in {"insert", "clone", "erase"} /\ impl[t] # None
  /\ Leave(t, Caller(t), IF op[t] = "erase" /\ refs[impl[t]] = 1 THEN t ELSE NoThread)
  /\ Drop(t, impl[t], frames[t])
  /\ UNCHANGED app

ReturnDrop(t) ==
  /\ op[t] \in {"insert", "clone", "erase"} /\ impl[t] # None
  /\ Leave(t, Caller(t), NoThread)
  /\ Drop(t, impl[t], frames[t])
  /\ UNCHANGED app

\* auto impl = handle_map.at(handle); ...
ReturnLift(t) ==
  /\ op[t] = "lift" /\ impl[t] # None
  /\ Goto(t, "unlock", "again")
  /\ mutex' = NoThread
  /\ Enter(t, "lift", impl[t])
  /\ impl' = [impl EXCEPT ![t] = None]
  /\ UNCHANGED <<cur_handle, map, op, handle, slot, app, refs, life, issued>>

\* ... handle_map.erase(handle); ...
LiftErase(t) ==
  /\ Goto(t, "again", "lock")
  /\ op' = [op EXCEPT ![t] = "erase"]
  /\ UNCHANGED <<lockVars, handle, slot, impl, objVars, issued>>

\* ... return impl.  The application's references to one object count once.
LiftDeliver(t) ==
  /\ Goto(t, "deliver", "user")
  /\ app' = app \cup {Innermost(t).obj}
  /\ IF Innermost(t).obj \in app
       THEN Drop(t, Innermost(t).obj, Outer(t))
       ELSE frames' = [frames EXCEPT ![t] = Outer(t)] /\ UNCHANGED <<refs, life>>
  /\ UNCHANGED <<lockVars, op, handle, slot, impl, issued>>
-----------------------------------------------------------------------------
\* Steps of the map's own code, and steps the application or Rust chooses.
MapStep(t) ==
  \/ Look(t) \/ LookMiss(t) \/ Take(t) \/ Store(t) \/ Bump(t) \/ Remove(t)
  \/ ReturnMiss(t) \/ ReturnMethod(t) \/ ReturnDrop(t)
  \/ ReturnLift(t) \/ LiftErase(t) \/ LiftDeliver(t)

UserStep(t) ==
  \/ \E i \in Impls : Create(t, i) \/ Forget(t, i) \/ CallInsert(t, i)
  \/ \E h \in Handles :
       CallClone(t, h) \/ CallErase(t, h) \/ CallLift(t, h) \/ CallMethod(t, h)
  \/ MethodReturn(t) \/ DtorReturn(t)

Next == \E t \in Threads : MapStep(t) \/ Acquire(t) \/ UserStep(t)

Spec == Init /\ [][Next]_vars

(***************************************************************************)
(* A running thread keeps running inside the map, and a mutex that stays   *)
(* free is taken by some waiter.  std::mutex is not fair between waiters,  *)
(* and user code may take as long as it likes: neither gets more.          *)
(***************************************************************************)
Fairness ==
  /\ \A t \in Threads : WF_vars(MapStep(t))
  /\ WF_vars(\E t \in Threads : Acquire(t))

FairSpec == Spec /\ Fairness
-----------------------------------------------------------------------------
(***************************************************************************)
(* Properties.                                                             *)
(***************************************************************************)
\* Types of the variables (handle_map.cpp 42-48 and the locals of its methods).
TypeOK ==
  /\ mutex \in Threads \cup {NoThread}
  /\ cur_handle \in Nat
  /\ DOMAIN map \subseteq Nat /\ map \in [DOMAIN map -> Impls]
  /\ pc \in [Threads -> Pcs]
  /\ op \in [Threads -> Ops]
  /\ handle \in [Threads -> Nat]
  /\ slot \in [Threads -> Nat]
  /\ impl \in [Threads -> Impls \cup {None}]
  /\ frames \in [Threads -> Seq(Frames)]
  /\ app \subseteq Impls
  /\ refs \in [Impls -> Int]
  /\ life \in [Impls -> {"unborn", "alive", "dying", "dead"}]
  /\ issued \subseteq (Nat \X Impls)

\* No user code - a method called through a handle, the destructor of an
\* erased object - runs on a thread that holds the mutex: the purpose of
\* `cleanup' in erase ("to avoid re-entrant locking", handle_map.cpp 23).
NoUserCodeUnderLock ==
  \A t \in Threads : mutex = t => pc[t] \in Inside

\* A handle that an insertion has answered stands for the object that was
\* inserted, and for no other, as long as it is in the map: two insertions
\* are never given the same handle (insert_locked, handle_map.cpp 51-58).
HandleDenotesItsObject ==
  /\ \A p \in issued : p[1] \in DOMAIN map => map[p[1]] = p[2]
  /\ \A p, q \in issued : p[1] = q[1] => p = q

\* A foreign handle has its lowest bit set and is never 0 (handle_map.cpp 43-46).
ForeignHandlesAreOdd == \A h \in DOMAIN map : h % 2 = 1

\* A handle that enters the map was never in use before: a stale handle, one
\* freed already, can never come to name another object (no ABA).
NoHandleReuse ==
  [][\A h \in DOMAIN map' \ DOMAIN map : h \notin {p[1] : p \in issued}]_vars

\* The thread that holds the mutex is the one inside the map.
LockInv == \A t \in Threads : pc[t] \in Inside <=> mutex = t

\* What a call knows at each of its accesses.
CallInv ==
  \A t \in Threads :
    /\ op[t] = "insert" => impl[t] \in Impls
    /\ pc[t] = "lock" => op[t] # "none" /\ (op[t] # "insert" => impl[t] = None)
    /\ pc[t] = "look" => op[t] \notin {"none", "insert"} /\ impl[t] = None
    /\ pc[t] = "again" => impl[t] = None
    /\ pc[t] \in {"take", "store", "bump"} => op[t] \in {"insert", "clone"} /\ impl[t] \in Impls
    /\ (pc[t] \in {"take", "store"} /\ op[t] = "clone") \/ pc[t] = "remove"
         => handle[t] \in DOMAIN map /\ impl[t] = map[handle[t]]
    /\ pc[t] = "remove" => op[t] = "erase"
    /\ pc[t] \in {"store", "bump"} => slot[t] = cur_handle
    /\ pc[t] = "deliver" => frames[t] # <<>>

\* Every handle issued lies below the counter, save the one about to be
\* counted; it is odd; and it names the object it was issued for.
BeingCounted(h) == \E t \in Threads : pc[t] = "bump" /\ slot[t] = h

HandleInv ==
  /\ cur_handle % 2 = 1
  /\ \A p \in issued : p[1] % 2 = 1 /\ (p[1] < cur_handle \/ BeingCounted(p[1]))
  /\ \A h \in DOMAIN map : <<h, map[h]>> \in issued
  /\ \A p, q \in issued : p[1] = q[1] => p = q

\* The inductive invariant behind the properties above.
IInv == TypeOK /\ LockInv /\ CallInv /\ HandleInv

\* What the abstract calls need besides: a thread inside the map is in an
\* operation, a lift keeps the handle it began with until it has erased it,
\* and there is room for the insertions that are under way.
PendingInv ==
  /\ \A t \in Threads :
       /\ pc[t] \in Inside => op[t] # "none"
       /\ pc[t] = "again" => op[t] = "lift"
       /\ op[t] = "lift" => handle[t] \in Handles
  /\ cur_handle + 2 * Cardinality(Inserting) <= MaxHandle + 2

\* The frames of t that hold a reference to i: all but the destructor of i itself.
HoldingFrames(t, i) ==
  {n \in DOMAIN frames[t] : frames[t][n].kind # "dtor" /\ frames[t][n].obj = i}

\* The holders of references to object i: the map, calls, frames and the application.
Holders(i) ==
    Cardinality({h \in DOMAIN map : map[h] = i})
  + Cardinality({t \in Threads : impl[t] = i})
  + Cardinality(UNION {{<<t, n>> : n \in HoldingFrames(t, i)} : t \in Threads})
  + Cardinality(app \cap {i})

\* An object lives exactly as long as something can reach it: it is not
\* destroyed under a method call, a lookup or an entry of the map (a
\* uniffi_free racing a call), and it does not outlive its last reference.
AliveWhileHeld ==
  \A i \in Impls :
    /\ refs[i] = Holders(i)
    /\ life[i] = "alive" <=> Holders(i) > 0

\* What makes AliveWhileHeld inductive.  A lift stays innermost from its at to
\* its delivery, on the object that its handle was issued for.
LiftOf(t) ==
  /\ pc[t] \in {"user", "again", "deliver"} => impl[t] = None
  /\ pc[t] \in {"again", "deliver"} => In(t, "lift")
  /\ pc[t] = "unlock" /\ op[t] = "lift" /\ impl[t] # None => <<handle[t], impl[t]>> \in issued
  /\ In(t, "lift") =>
       /\ pc[t] \in {"again", "lock", "look", "remove", "unlock", "deliver"}
       /\ pc[t] \in {"lock", "look", "remove", "unlock"} => op[t] = "erase"
       /\ pc[t] # "deliver" => <<handle[t], Innermost(t).obj>> \in issued
       /\ impl[t] \in {None, Innermost(t).obj}
  /\ \A n \in DOMAIN frames[t] : frames[t][n].kind = "lift" => n = Len(frames[t])

LiftInv == \A t \in Threads : LiftOf(t)

\* A destructor runs on an object that nobody will make again.
DtorInv ==
  \A t \in Threads : \A n \in DOMAIN frames[t] :
    frames[t][n].kind = "dtor" => life[frames[t][n].obj] \in {"dying", "dead"}

HoldInv == AliveWhileHeld /\ LiftInv /\ DtorInv

\* Threads that wait for the mutex are served: as long as some thread waits
\* again and again, the mutex is taken again and again.
SomeWaiterIsServed ==
  []<>(\E t \in Threads : pc[t] = "lock") => []<><<\E t \in Threads : Acquire(t)>>_vars
-----------------------------------------------------------------------------
(***************************************************************************)
(* The map implements the atomic table.  A call takes effect when it reads *)
(* the map, except that an insertion does when it stores its entry and an  *)
(* erasure that found its entry when it removes it.                        *)
(***************************************************************************)
Effected(t) == pc[t] \in {"bump", "unlock"}
Entered(t) == op[t] = "insert" \/ (op[t] = "clone" /\ impl[t] # None)

Operation(t) == IF op[t] = "lift" THEN "at" ELSE op[t]
Request(o, h, i) == [op |-> o, handle |-> h, impl |-> i, done |-> FALSE]
Answer(o, h, i) == [op |-> o, handle |-> h, impl |-> i, done |-> TRUE]

\* The call a thread is in, as the table sees it; `again', `deliver' and `user'
\* are outside any call of the map.
Seen(t) ==
  IF pc[t] \in {"user", "again", "deliver"}
    THEN Answer("none", 0, None)
    ELSE IF Effected(t)
      THEN Answer(Operation(t), IF Entered(t) THEN slot[t] ELSE handle[t],
                  IF op[t] = "erase" THEN None ELSE impl[t])
      ELSE Request(Operation(t), handle[t], IF op[t] = "insert" THEN impl[t] ELSE None)

Pending == [t \in Threads |-> Seen(t)]

Table == INSTANCE HandleTable WITH table <- map, pend <- Pending

\* HandleMap with its mutex and its accesses one by one is the atomic table.
ImplementsTable == Table!TableSpec
=============================================================================
