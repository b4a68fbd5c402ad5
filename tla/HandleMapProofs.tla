---------------------------- MODULE HandleMapProofs ----------------------------
(***************************************************************************)
(* What HandleMap guarantees for any number of threads, objects and        *)
(* handles, proved from three inductive invariants.                        *)
(*                                                                         *)
(* The first, IInv, is about the mutex, the calls and the handles.         *)
(*                                                                         *)
(* The second, HoldInv, on top of it, is that an object lives exactly as   *)
(* long as somebody holds it (AliveWhileHeld), with LiftInv and DtorInv.   *)
(* Holders(i) counts three sets - the map's entries, the calls and the     *)
(* frames that hold i - and whether the application does.  A step adds one *)
(* element to one of them, takes one away, or passes one from one to       *)
(* another, and changes refs[i] alike.  LiftInv says that a lift erases    *)
(* the object that it will deliver, so that its erase destroys nothing;    *)
(* DtorInv, that what is destroyed is not made again under its destructor. *)
(*                                                                         *)
(* With the third, PendingInv, HandleMap implements HandleTable: every     *)
(* access of the locked map is a step of the atomic table, or changes      *)
(* nothing there.                                                          *)
(***************************************************************************)
EXTENDS HandleMap, FiniteSetTheorems, TLAPS

\* A frame list grows by frames and shrinks to a list of frames.
LEMMA OuterFrames ==
  ASSUME NEW s \in Seq(Frames), s # <<>>
  PROVE  /\ s[Len(s)] \in Frames
         /\ SubSeq(s, 1, Len(s) - 1) \in Seq(Frames)
  OBVIOUS

\* Dropping a reference preserves the types of what Drop touches.
LEMMA DropType ==
  ASSUME NEW t \in Threads, NEW i \in Impls, NEW base \in Seq(Frames),
         TypeOK, Drop(t, i, base)
  PROVE  /\ frames' \in [Threads -> Seq(Frames)]
         /\ refs' \in [Impls -> Int]
         /\ life' \in [Impls -> {"unborn", "alive", "dying", "dead"}]
  <1>1. [kind |-> "dtor", obj |-> i] \in Frames
    BY DEF Frames
  <1>2. Append(base, [kind |-> "dtor", obj |-> i]) \in Seq(Frames)
    BY <1>1
  <1>3. refs' \in [Impls -> Int]
    BY DEF Drop, TypeOK
  <1>4. frames' \in [Threads -> Seq(Frames)]
    BY <1>2 DEF Drop, TypeOK
  <1>5. life' \in [Impls -> {"unborn", "alive", "dying", "dead"}]
    BY DEF Drop, TypeOK
  <1> QED BY <1>3, <1>4, <1>5

\* Adding and removing one entry of a map.
LEMMA WithEntry ==
  ASSUME NEW f, NEW h, NEW i
  PROVE  /\ DOMAIN With(f, h, i) = DOMAIN f \cup {h}
         /\ With(f, h, i)[h] = i
         /\ \A x \in DOMAIN f : x # h => With(f, h, i)[x] = f[x]
  BY DEF With

LEMMA WithoutEntry ==
  ASSUME NEW f, NEW h
  PROVE  /\ DOMAIN Without(f, h) = DOMAIN f \ {h}
         /\ \A x \in DOMAIN f : x # h => Without(f, h)[x] = f[x]
  BY DEF Without

\* Both keep a map from natural numbers to objects one.
LEMMA EntryTypes ==
  ASSUME map \in [DOMAIN map -> Impls], DOMAIN map \subseteq Nat,
         NEW h \in Nat, NEW i \in Impls
  PROVE  /\ With(map, h, i) \in [DOMAIN With(map, h, i) -> Impls]
         /\ DOMAIN With(map, h, i) \subseteq Nat
         /\ Without(map, h) \in [DOMAIN Without(map, h) -> Impls]
         /\ DOMAIN Without(map, h) \subseteq Nat
  <1>1. With(map, h, i) \in [DOMAIN map \cup {h} -> Impls]
    BY DEF With
  <1>2. Without(map, h) \in [DOMAIN map \ {h} -> Impls]
    BY DEF Without
  <1> QED BY <1>1, <1>2, WithEntry, WithoutEntry

\* The four calls by handle differ in their name only.
LEMMA CallByHandle ==
  ASSUME NEW t \in Threads, NEW h \in Handles,
         CallClone(t, h) \/ CallErase(t, h) \/ CallLift(t, h) \/ CallMethod(t, h)
  PROVE  /\ h \in Nat
         /\ \E o \in Ops \ {"none", "insert"} : Begin(t, o, h, None)
         /\ UNCHANGED <<frames, refs, life>>
  BY HandleMapAssumption
     DEF CallClone, CallErase, CallLift, CallMethod, Ops, Handles

\* Every step keeps the types of the variables.
LEMMA TypeStep ==
  ASSUME TypeOK, CallInv, [Next]_vars
  PROVE  TypeOK'
  <1> USE DEF lockVars, callVars, objVars, Goto
  <1>1. ASSUME NEW t \in Threads, NEW i \in Impls, Create(t, i) PROVE TypeOK'
    BY <1>1 DEF Create, TypeOK
  <1>2. ASSUME NEW t \in Threads, NEW i \in Impls, Forget(t, i) PROVE TypeOK'
    BY <1>2, DropType DEF Forget, TypeOK
  <1>3. ASSUME NEW t \in Threads, MethodReturn(t) PROVE TypeOK'
    <2>1. frames[t] \in Seq(Frames) /\ frames[t] # <<>>
      BY <1>3 DEF MethodReturn, In, TypeOK
    <2>2. Innermost(t).obj \in Impls /\ Outer(t) \in Seq(Frames)
      BY <2>1, OuterFrames DEF Innermost, Outer, Frames
    <2> QED BY <1>3, <2>2, DropType DEF MethodReturn, TypeOK
  <1>4. ASSUME NEW t \in Threads, DtorReturn(t) PROVE TypeOK'
    <2>1. frames[t] \in Seq(Frames) /\ frames[t] # <<>>
      BY <1>4 DEF DtorReturn, In, TypeOK
    <2>2. Outer(t) \in Seq(Frames)
      BY <2>1, OuterFrames DEF Outer
    <2> QED BY <1>4, <2>2 DEF DtorReturn, TypeOK
  <1>5. ASSUME NEW t \in Threads, NEW i \in Impls, CallInsert(t, i) PROVE TypeOK'
    BY <1>5 DEF CallInsert, Begin, Share, TypeOK, Pcs, Ops
  <1>6. ASSUME NEW t \in Threads, NEW h \in Handles,
               CallClone(t, h) \/ CallErase(t, h) \/ CallLift(t, h) \/ CallMethod(t, h)
        PROVE TypeOK'
    <2>1. PICK o \in Ops : Begin(t, o, h, None)
      BY <1>6, CallByHandle
    <2>2. h \in Nat /\ UNCHANGED <<frames, refs, life>>
      BY <1>6, CallByHandle
    <2> QED BY <2>1, <2>2 DEF Begin, TypeOK, Pcs
  <1>7. ASSUME NEW t \in Threads, Acquire(t) PROVE TypeOK'
    BY <1>7 DEF Acquire, TypeOK, Pcs, Inside
  <1>8. ASSUME NEW t \in Threads, Look(t) PROVE TypeOK'
    BY <1>8 DEF Look, AfterLook, Share, TypeOK, Pcs, Inside
  <1>9. ASSUME NEW t \in Threads, LookMiss(t) PROVE TypeOK'
    BY <1>9 DEF LookMiss, TypeOK, Pcs, Inside
  <1>10. ASSUME NEW t \in Threads, Take(t) PROVE TypeOK'
    BY <1>10 DEF Take, TypeOK, Pcs, Inside
  <1>11. ASSUME NEW t \in Threads, Store(t) PROVE TypeOK'
    <2>1. impl[t] \in Impls /\ slot[t] \in Nat
      BY <1>11 DEF Store, CallInv, TypeOK
    <2>2. DOMAIN map' \subseteq Nat /\ map' \in [DOMAIN map' -> Impls]
      <3>1. CASE slot[t] \in DOMAIN map
        BY <1>11, <3>1 DEF Store, TypeOK
      <3>2. CASE slot[t] \notin DOMAIN map
        <4>1. map' = With(map, slot[t], impl[t])
          BY <1>11, <3>2 DEF Store
        <4> QED BY <2>1, <4>1, EntryTypes DEF TypeOK
      <3> QED BY <3>1, <3>2
    <2>3. issued' \subseteq Nat \X Impls /\ refs' \in [Impls -> Int]
      BY <1>11, <2>1 DEF Store, Share, TypeOK
    <2> QED BY <1>11, <2>2, <2>3 DEF Store, Share, TypeOK, Pcs, Inside
  <1>12. ASSUME NEW t \in Threads, Bump(t) PROVE TypeOK'
    BY SMTT(30), <1>12 DEF Bump, TypeOK, Pcs, Inside
  <1>13. ASSUME NEW t \in Threads, Remove(t) PROVE TypeOK'
    <2>1. handle[t] \in DOMAIN map /\ map[handle[t]] \in Impls /\ frames[t] \in Seq(Frames)
      BY <1>13 DEF Remove, CallInv, TypeOK
    <2>2. DOMAIN map' \subseteq Nat /\ map' \in [DOMAIN map' -> Impls]
      <3>1. map' = Without(map, handle[t])
        BY <1>13 DEF Remove
      <3> QED BY <2>1, <3>1, EntryTypes DEF TypeOK
    <2>3. frames' \in [Threads -> Seq(Frames)] /\ refs' \in [Impls -> Int]
         /\ life' \in [Impls -> {"unborn", "alive", "dying", "dead"}]
      BY <1>13, <2>1, DropType DEF Remove
    <2> QED BY <1>13, <2>2, <2>3 DEF Remove, TypeOK, Pcs, Inside
  <1>14. ASSUME NEW t \in Threads, ReturnMiss(t) PROVE TypeOK'
    BY <1>14 DEF ReturnMiss, Caller, Leave, TypeOK, Pcs, Ops
  <1>15. ASSUME NEW t \in Threads, ReturnMethod(t) PROVE TypeOK'
    <2>1. [kind |-> "method", obj |-> impl[t]] \in Frames
      BY <1>15 DEF ReturnMethod, TypeOK, Frames
    <2> QED BY SMTT(30), <1>15, <2>1 DEF ReturnMethod, Enter, Leave, TypeOK, Pcs, Ops
  <1>16. ASSUME NEW t \in Threads, ReturnDrop(t) PROVE TypeOK'
    <2>1. impl[t] \in Impls /\ frames[t] \in Seq(Frames)
      BY <1>16 DEF ReturnDrop, TypeOK
    <2> QED BY <1>16, <2>1, DropType DEF ReturnDrop, Caller, Leave, TypeOK, Pcs, Ops
  <1>17. ASSUME NEW t \in Threads, ReturnLift(t) PROVE TypeOK'
    <2>1. [kind |-> "lift", obj |-> impl[t]] \in Frames
      BY <1>17 DEF ReturnLift, TypeOK, Frames
    <2> QED BY SMTT(30), <1>17, <2>1 DEF ReturnLift, Enter, TypeOK, Pcs
  <1>18. ASSUME NEW t \in Threads, LiftErase(t) PROVE TypeOK'
    BY <1>18 DEF LiftErase, TypeOK, Pcs, Ops
  <1>19. ASSUME NEW t \in Threads, LiftDeliver(t) PROVE TypeOK'
    <2>1. frames[t] \in Seq(Frames) /\ frames[t] # <<>>
      BY <1>19 DEF LiftDeliver, CallInv, TypeOK
    <2>2. Innermost(t).obj \in Impls /\ Outer(t) \in Seq(Frames)
      BY <2>1, OuterFrames DEF Innermost, Outer, Frames
    <2> QED BY <1>19, <2>2, DropType DEF LiftDeliver, TypeOK, Pcs
  <1>20. CASE UNCHANGED vars
    BY <1>20 DEF vars, TypeOK
  <1> QED
    BY <1>1, <1>2, <1>3, <1>4, <1>5, <1>6, <1>7, <1>8, <1>9, <1>10, <1>11, <1>12, <1>13,
       <1>14, <1>15, <1>16, <1>17, <1>18, <1>19, <1>20 DEF Next, MapStep, UserStep
-----------------------------------------------------------------------------
\* What user code does between its calls touches neither the mutex, the map
\* nor any call in progress.
Outside(t) ==
  /\ pc[t] = "user"
  /\ UNCHANGED <<mutex, cur_handle, map, pc, op, handle, slot, impl, issued>>

\* A call begins: an insertion of an object, or another operation on a handle.
Beginning(t) ==
  \/ \E i \in Impls : Begin(t, "insert", 0, i)
  \/ \E o \in Ops \ {"none", "insert"}, h \in Nat : Begin(t, o, h, None)

\* The steps, as far as the map and the calls are concerned.
LEMMA StepKinds ==
  ASSUME TypeOK, [Next]_vars
  PROVE  \/ UNCHANGED vars
         \/ \E t \in Threads :
              \/ Outside(t) /\ \A u \in Threads \ {t} : frames'[u] = frames[u]
              \/ Beginning(t) /\ UNCHANGED frames
              \/ MapStep(t) \/ Acquire(t)
  <1>1. ASSUME NEW t \in Threads, NEW i \in Impls, NEW base, Drop(t, i, base)
        PROVE  \A u \in Threads \ {t} : frames'[u] = frames[u]
    BY <1>1 DEF Drop, TypeOK
  <1>2. ASSUME NEW t \in Threads, NEW i \in Impls, Create(t, i) \/ Forget(t, i)
        PROVE  Outside(t) /\ \A u \in Threads \ {t} : frames'[u] = frames[u]
    <2>1. CASE Create(t, i)
      BY <2>1 DEF Create, Outside, lockVars, callVars
    <2>2. CASE Forget(t, i)
      BY <2>2, <1>1 DEF Forget, Outside, lockVars, callVars
    <2> QED BY <1>2, <2>1, <2>2
  <1>3. ASSUME NEW t \in Threads, MethodReturn(t)
        PROVE  Outside(t) /\ \A u \in Threads \ {t} : frames'[u] = frames[u]
    <2>1. frames[t] \in Seq(Frames) /\ frames[t] # <<>>
      BY <1>3 DEF MethodReturn, In, TypeOK
    <2>2. Innermost(t).obj \in Impls
      BY <2>1, OuterFrames DEF Innermost, Frames
    <2> QED BY <1>3, <2>2, <1>1 DEF MethodReturn, Outside, lockVars, callVars
  <1>4. ASSUME NEW t \in Threads, DtorReturn(t)
        PROVE  Outside(t) /\ \A u \in Threads \ {t} : frames'[u] = frames[u]
    BY <1>4 DEF DtorReturn, Outside, lockVars, callVars, TypeOK
  <1>5. ASSUME NEW t \in Threads, NEW i \in Impls, CallInsert(t, i)
        PROVE  Beginning(t) /\ UNCHANGED frames
    BY <1>5 DEF CallInsert, Share, Beginning
  <1>6. ASSUME NEW t \in Threads, NEW h \in Handles,
               CallClone(t, h) \/ CallErase(t, h) \/ CallLift(t, h) \/ CallMethod(t, h)
        PROVE  Beginning(t) /\ UNCHANGED frames
    BY <1>6, CallByHandle DEF Beginning
  <1> QED BY <1>2, <1>3, <1>4, <1>5, <1>6 DEF Next, UserStep

\* The mutex is held by the thread that is inside, and by no other.
LEMMA LockStep ==
  ASSUME TypeOK, LockInv, [Next]_vars
  PROVE  LockInv'
  <1> USE HandleMapAssumption DEF LockInv, Goto, Inside, lockVars, TypeOK
  <1>1. CASE UNCHANGED vars
    BY <1>1 DEF vars, callVars
  <1>2. ASSUME NEW t \in Threads, Outside(t) PROVE LockInv'
    BY <1>2 DEF Outside
  <1>3. ASSUME NEW t \in Threads, Beginning(t) PROVE LockInv'
    BY SMTT(30), <1>3 DEF Beginning, Begin
  <1>4. ASSUME NEW t \in Threads, Acquire(t) PROVE LockInv'
    BY <1>4 DEF Acquire
  <1>5. ASSUME NEW t \in Threads, MapStep(t) PROVE LockInv'
    <2>1. CASE Look(t)
      BY <2>1 DEF Look, AfterLook
    <2>2. CASE LookMiss(t) \/ Take(t) \/ Store(t) \/ Bump(t) \/ Remove(t)
      BY <2>2 DEF LookMiss, Take, Store, Bump, Remove
    <2>3. CASE ReturnMiss(t) \/ ReturnMethod(t) \/ ReturnDrop(t) \/ ReturnLift(t)
      BY <2>3 DEF ReturnMiss, ReturnMethod, ReturnDrop, ReturnLift, Leave, Caller
    <2>4. CASE LiftErase(t) \/ LiftDeliver(t)
      BY <2>4 DEF LiftErase, LiftDeliver
    <2> QED BY <1>5, <2>1, <2>2, <2>3, <2>4 DEF MapStep
  <1> QED BY <1>1, <1>2, <1>3, <1>4, <1>5, StepKinds

\* A call keeps knowing what it knows: no other thread can interfere with it.
LEMMA CallStep ==
  ASSUME TypeOK, LockInv, CallInv, [Next]_vars
  PROVE  CallInv'
  <1> USE HandleMapAssumption DEF CallInv, Goto, lockVars, TypeOK
  <1>1. CASE UNCHANGED vars
    BY <1>1 DEF vars, callVars, objVars
  <1>2. ASSUME NEW t \in Threads, Outside(t), \A u \in Threads \ {t} : frames'[u] = frames[u]
        PROVE  CallInv'
    BY <1>2 DEF Outside
  <1>3. ASSUME NEW t \in Threads, Beginning(t), UNCHANGED frames PROVE CallInv'
    BY SMTT(30), <1>3 DEF Beginning, Begin, Ops
  <1>4. ASSUME NEW t \in Threads, Acquire(t) PROVE CallInv'
    BY <1>4 DEF Acquire, objVars
  <1>5. ASSUME NEW t \in Threads, MapStep(t) PROVE CallInv'
    <2>1. CASE Look(t)
      BY <2>1 DEF Look, AfterLook, Share
    <2>2. CASE LookMiss(t) \/ Take(t) \/ LiftErase(t)
      BY SMTT(30), <2>2 DEF LookMiss, Take, LiftErase, objVars
    <2>3. CASE Store(t)
      <3>1. \A u \in Threads \ {t} : pc[u] \notin Inside
        BY <2>3 DEF Store, LockInv, Inside
      <3>2. UNCHANGED <<op, handle, slot, impl, cur_handle>> /\ pc' = [pc EXCEPT ![t] = "bump"]
        BY <2>3 DEF Store
      <3>3. \A u \in Threads \ {t} : frames'[u] = frames[u]
        BY <2>3 DEF Store, Share
      <3> QED BY <2>3, <3>1, <3>2, <3>3 DEF Store, Inside
    <2>4. CASE Bump(t)
      BY <2>4 DEF Bump, LockInv, Inside, objVars
    <2>5. CASE Remove(t)
      <3>1. \A u \in Threads \ {t} : pc[u] \notin Inside
        BY <2>5 DEF Remove, LockInv, Inside
      <3>2. UNCHANGED <<op, handle, slot, impl, cur_handle>> /\ pc' = [pc EXCEPT ![t] = "unlock"]
        BY <2>5 DEF Remove
      <3>3. \A u \in Threads \ {t} : frames'[u] = frames[u]
        BY <2>5 DEF Remove, Drop
      <3> QED BY <2>5, <3>1, <3>2, <3>3 DEF Inside
    <2>6. CASE ReturnMiss(t)
      BY <2>6 DEF ReturnMiss, Caller, In, Leave, objVars
    <2>7. CASE ReturnMethod(t)
      BY <2>7 DEF ReturnMethod, Leave, Enter
    <2>8. CASE ReturnDrop(t)
      <3>1. frames[t] # <<>> => frames'[t] # <<>>
        BY <2>8 DEF ReturnDrop, Drop
      <3>2. \A u \in Threads \ {t} : frames'[u] = frames[u]
        BY <2>8 DEF ReturnDrop, Drop
      <3> QED BY SMTT(30), <2>8, <3>1, <3>2 DEF ReturnDrop, Leave, Caller, In
    <2>9. CASE ReturnLift(t)
      BY <2>9 DEF ReturnLift, Enter
    <2>10. CASE LiftDeliver(t)
      <3>1. \A u \in Threads \ {t} : frames'[u] = frames[u]
        BY <2>10 DEF LiftDeliver, Drop
      <3> QED BY <2>10, <3>1 DEF LiftDeliver
    <2> QED BY <1>5, <2>1, <2>2, <2>3, <2>4, <2>5, <2>6, <2>7, <2>8, <2>9, <2>10 DEF MapStep
  <1> QED BY <1>1, <1>2, <1>3, <1>4, <1>5, StepKinds

\* Handles are issued in order and each for one object.
LEMMA HandleStep ==
  ASSUME TypeOK, LockInv, CallInv, HandleInv, [Next]_vars
  PROVE  HandleInv'
  <1> USE DEF Goto, lockVars
  <1>1. ASSUME UNCHANGED <<cur_handle, map, slot, issued>>,
               \A t \in Threads : pc[t] = "bump" => pc'[t] = "bump"
        PROVE  HandleInv'
    BY <1>1 DEF HandleInv, BeingCounted
  <1>2. ASSUME NEW t \in Threads, pc[t] # "bump", pc' = [pc EXCEPT ![t] = pc'[t]]
        PROVE  \A u \in Threads : pc[u] = "bump" => pc'[u] = "bump"
    BY <1>2 DEF TypeOK
  <1>3. ASSUME NEW t \in Threads, MapStep(t) PROVE HandleInv'
    <2>1. CASE Look(t) \/ LookMiss(t) \/ ReturnLift(t) \/ LiftErase(t) \/ LiftDeliver(t)
      BY <1>1, <1>2, <2>1
         DEF Look, LookMiss, ReturnLift, LiftErase, LiftDeliver, TypeOK
    <2>2. CASE Take(t)
      <3>1. \A u \in Threads : pc[u] = "bump" => u # t /\ pc'[u] = "bump" /\ slot'[u] = slot[u]
        BY <2>2 DEF Take, TypeOK
      <3>2. UNCHANGED <<cur_handle, map, issued>>
        BY <2>2 DEF Take
      <3> QED BY <3>1, <3>2 DEF HandleInv, BeingCounted
    <2>3. CASE Store(t)
      <3> DEFINE h == slot[t]
      <3>1. h = cur_handle /\ h \in Nat /\ impl[t] \in Impls
        BY <2>3 DEF Store, CallInv, TypeOK
      <3>2. \A u \in Threads : pc[u] # "bump"
        BY <2>3 DEF Store, LockInv, Inside
      <3>3. \A p \in issued : p[1] % 2 = 1 /\ p[1] < h
        BY <3>1, <3>2 DEF HandleInv, BeingCounted
      <3>4. h \notin DOMAIN map
        <4> SUFFICES ASSUME h \in DOMAIN map PROVE FALSE
          OBVIOUS
        <4>1. <<h, map[h]>> \in issued /\ <<h, map[h]>>[1] = h
          BY DEF HandleInv
        <4> QED BY <3>1, <3>3, <4>1
      <3>5. map' = With(map, h, impl[t])
        BY <2>3, <3>4 DEF Store
      <3>6. issued' = issued \cup {<<h, impl[t]>>} /\ UNCHANGED <<cur_handle, slot>>
        BY <2>3 DEF Store
      <3>7. BeingCounted(h)'
        BY <2>3, <3>6 DEF Store, BeingCounted, TypeOK
      <3>8. \A p \in issued' : p[1] % 2 = 1 /\ (p[1] < cur_handle' \/ BeingCounted(p[1])')
        BY <3>1, <3>3, <3>6, <3>7 DEF HandleInv
      <3>9. \A x \in DOMAIN map' : <<x, map'[x]>> \in issued'
        <4> SUFFICES ASSUME NEW x \in DOMAIN map' PROVE <<x, map'[x]>> \in issued'
          OBVIOUS
        <4>1. CASE x = h
          BY <3>5, <3>6, <4>1 DEF With
        <4>2. CASE x # h
          <5>1. x \in DOMAIN map /\ map'[x] = map[x]
            BY <3>5, <4>2 DEF With
          <5> QED BY <3>6, <5>1 DEF HandleInv
        <4> QED BY <4>1, <4>2
      <3>10. \A p, q \in issued' : p[1] = q[1] => p = q
        BY <3>1, <3>3, <3>6 DEF HandleInv, TypeOK
      <3> QED BY <3>6, <3>8, <3>9, <3>10 DEF HandleInv
    <2>4. CASE Bump(t)
      <3>1. slot[t] = cur_handle /\ cur_handle \in Nat
        BY <2>4 DEF Bump, CallInv, TypeOK
      <3>2. \A u \in Threads \ {t} : pc[u] # "bump"
        BY <2>4 DEF Bump, LockInv, Inside
      <3>3. \A p \in issued : p[1] \in Nat /\ p[1] < cur_handle + 2
        <4> SUFFICES ASSUME NEW p \in issued
                     PROVE  p[1] \in Nat /\ p[1] < cur_handle + 2
          OBVIOUS
        <4>1. p[1] \in Nat
          BY DEF TypeOK
        <4>2. BeingCounted(p[1]) => p[1] = cur_handle
          BY <3>1, <3>2 DEF BeingCounted
        <4>3. p[1] < cur_handle \/ BeingCounted(p[1])
          BY DEF HandleInv
        <4> QED BY <3>1, <4>1, <4>2, <4>3
      <3>4. cur_handle' = cur_handle + 2 /\ UNCHANGED <<map, issued>>
        BY <2>4 DEF Bump
      <3>5. cur_handle' % 2 = 1
        BY <3>1, <3>4 DEF HandleInv
      <3> QED BY <3>3, <3>4, <3>5 DEF HandleInv
    <2>5. CASE Remove(t)
      <3>1. map' = Without(map, handle[t]) /\ UNCHANGED <<cur_handle, slot, issued>>
        BY <2>5 DEF Remove
      <3>2. \A u \in Threads : pc[u] = "bump" => pc'[u] = "bump"
        BY <1>2, <2>5 DEF Remove
      <3>3. \A x \in DOMAIN map' : x \in DOMAIN map /\ map'[x] = map[x]
        <4>1. /\ DOMAIN Without(map, handle[t]) = DOMAIN map \ {handle[t]}
              /\ \A x \in DOMAIN map : x # handle[t] => Without(map, handle[t])[x] = map[x]
          BY WithoutEntry
        <4> QED BY <3>1, <4>1
      <3> QED BY <3>1, <3>2, <3>3 DEF HandleInv, BeingCounted
    <2>6. CASE ReturnMiss(t) \/ ReturnMethod(t) \/ ReturnDrop(t)
      <3>1. \A u \in Threads : pc[u] = "bump" => u # t /\ pc'[u] = "bump" /\ slot'[u] = slot[u]
        BY <2>6 DEF ReturnMiss, ReturnMethod, ReturnDrop, Leave, TypeOK
      <3>2. UNCHANGED <<cur_handle, map, issued>>
        BY <2>6 DEF ReturnMiss, ReturnMethod, ReturnDrop, Leave
      <3> QED BY <3>1, <3>2 DEF HandleInv, BeingCounted
    <2> QED BY <1>3, <2>1, <2>2, <2>3, <2>4, <2>5, <2>6 DEF MapStep
  <1>4. ASSUME NEW t \in Threads, Acquire(t) PROVE HandleInv'
    BY <1>1, <1>2, <1>4 DEF Acquire, TypeOK
  <1>5. ASSUME NEW t \in Threads, Outside(t) PROVE HandleInv'
    BY <1>1, <1>5 DEF Outside
  <1>6. ASSUME NEW t \in Threads, Beginning(t) PROVE HandleInv'
    BY <1>1, <1>2, <1>6 DEF Beginning, Begin, TypeOK
  <1>7. CASE UNCHANGED vars
    BY <1>1, <1>7 DEF vars, callVars
  <1> QED BY <1>3, <1>4, <1>5, <1>6, <1>7, StepKinds
-----------------------------------------------------------------------------
\* IInv holds in every reachable state.
THEOREM Invariance == Spec => []IInv
  <1>1. Init => IInv
    <2> SUFFICES ASSUME Init PROVE IInv
      OBVIOUS
    <2>1. TypeOK
      BY DEF Init, TypeOK, Pcs, Ops
    <2>2. LockInv /\ CallInv
      BY HandleMapAssumption DEF Init, LockInv, CallInv, Inside
    <2>3. HandleInv
      BY DEF Init, HandleInv
    <2> QED BY <2>1, <2>2, <2>3 DEF IInv
  <1>2. IInv /\ [Next]_vars => IInv'
    BY TypeStep, LockStep, CallStep, HandleStep DEF IInv
  <1> QED BY <1>1, <1>2, PTL DEF Spec

\* The variables of HandleMap keep their types: in particular no method is
\* ever called on a missing object.
THEOREM TypeCorrect == Spec => []TypeOK
  BY Invariance, PTL DEF IInv

\* User code - methods and destructors - never runs while its thread holds
\* the mutex, so a destructor may call the map again.
THEOREM UserCodeUnlocked == Spec => []NoUserCodeUnderLock
  <1>1. IInv => NoUserCodeUnderLock
    BY DEF IInv, LockInv, NoUserCodeUnderLock
  <1> QED BY <1>1, Invariance, PTL

\* A handle names the object it was issued for, and no other.
THEOREM HandlesDenote == Spec => []HandleDenotesItsObject
  <1>1. IInv => HandleDenotesItsObject
    <2> SUFFICES ASSUME IInv, NEW p \in issued, p[1] \in DOMAIN map
                 PROVE  map[p[1]] = p[2]
      BY DEF IInv, HandleInv, HandleDenotesItsObject
    <2> DEFINE q == <<p[1], map[p[1]]>>
    <2>1. q \in issued /\ q[1] = p[1] /\ q[2] = map[p[1]]
      BY DEF IInv, HandleInv
    <2>2. p = q
      BY <2>1 DEF IInv, HandleInv
    <2> QED BY <2>1, <2>2
  <1> QED BY <1>1, Invariance, PTL

\* Every handle in the map has its lowest bit set.
THEOREM HandlesAreOdd == Spec => []ForeignHandlesAreOdd
  <1>1. IInv => ForeignHandlesAreOdd
    BY DEF IInv, HandleInv, ForeignHandlesAreOdd
  <1> QED BY <1>1, Invariance, PTL

\* No handle is issued twice, however long ago it was freed.
THEOREM HandlesAreFresh == Spec => NoHandleReuse
  <1>1. IInv /\ [Next]_vars
          => [\A h \in DOMAIN map' \ DOMAIN map : h \notin {p[1] : p \in issued}]_vars
    <2> SUFFICES ASSUME IInv, [Next]_vars, NEW h \in DOMAIN map' \ DOMAIN map
                 PROVE  h \notin {p[1] : p \in issued}
      OBVIOUS
    <2> USE DEF IInv, Goto, lockVars
    <2>1. PICK t \in Threads : MapStep(t)
      BY StepKinds DEF vars, Outside, Beginning, Begin, Acquire
    <2>2. Store(t)
      <3>1. ~Remove(t)
        BY DEF Remove, Without
      <3> QED BY <2>1, <3>1
         DEF MapStep, Look, LookMiss, Take, Bump, ReturnMiss, ReturnMethod,
             ReturnDrop, ReturnLift, LiftErase, LiftDeliver, Leave
    <2>3. h = slot[t]
      <3>1. slot[t] \notin DOMAIN map /\ map' = With(map, slot[t], impl[t])
        BY <2>2 DEF Store
      <3> QED BY <3>1 DEF With
    <2>4. \A u \in Threads : pc[u] # "bump"
      BY <2>2 DEF Store, LockInv, Inside
    <2>5. slot[t] = cur_handle
      BY <2>2 DEF Store, CallInv
    <2>6. \A p \in issued : p[1] \in Nat /\ p[1] < cur_handle
      BY <2>4 DEF HandleInv, BeingCounted, TypeOK
    <2> QED BY <2>3, <2>5, <2>6
  <1> QED BY <1>1, Invariance, PTL DEF Spec, NoHandleReuse
-----------------------------------------------------------------------------
\* The four kinds of holders of an object.
EntriesOf(i) == {h \in DOMAIN map : map[h] = i}
CallsOf(i) == {t \in Threads : impl[t] = i}
FramesOf(i) == UNION {{<<t, n>> : n \in HoldingFrames(t, i)} : t \in Threads}
One(b) == IF b THEN 1 ELSE 0

\* They can be counted.
Finitely ==
  /\ IsFiniteSet(DOMAIN map)
  /\ \A i \in Impls : IsFiniteSet(FramesOf(i))

\* The application's references to an object count once.
LEMMA CountOne == ASSUME NEW S, NEW i PROVE Cardinality(S \cap {i}) = One(i \in S)
  <1>1. CASE i \in S
    <2>1. S \cap {i} = {i}
      BY <1>1
    <2> QED BY <1>1, <2>1, FS_Singleton DEF One
  <1>2. CASE i \notin S
    <2>1. S \cap {i} = {}
      BY <1>2
    <2> QED BY <1>2, <2>1, FS_EmptySet DEF One
  <1> QED BY <1>1, <1>2

\* Holders in terms of the sets above.
LEMMA HoldersAre ==
  ASSUME NEW i
  PROVE  /\ Holders(i) = Cardinality(EntriesOf(i)) + Cardinality(CallsOf(i))
                           + Cardinality(FramesOf(i)) + One(i \in app)
         /\ Holders(i)' = Cardinality(EntriesOf(i)') + Cardinality(CallsOf(i)')
                            + Cardinality(FramesOf(i)') + One(i \in app')
  <1>1. Cardinality(app \cap {i}) = One(i \in app)
    BY CountOne
  <1>2. Cardinality(app' \cap {i}) = One(i \in app')
    BY CountOne
  <1> QED BY <1>1, <1>2 DEF Holders, EntriesOf, CallsOf, FramesOf

\* Each of those sets is finite, and its cardinality a number.
LEMMA HolderTypes ==
  ASSUME Finitely, NEW i \in Impls
  PROVE  /\ IsFiniteSet(EntriesOf(i)) /\ IsFiniteSet(CallsOf(i)) /\ IsFiniteSet(FramesOf(i))
         /\ Cardinality(EntriesOf(i)) \in Nat /\ Cardinality(CallsOf(i)) \in Nat
         /\ Cardinality(FramesOf(i)) \in Nat /\ One(i \in app) \in Nat
         /\ Holders(i) \in Nat
  <1>1. EntriesOf(i) \subseteq DOMAIN map /\ CallsOf(i) \subseteq Threads
    BY DEF EntriesOf, CallsOf
  <1>2. IsFiniteSet(EntriesOf(i)) /\ IsFiniteSet(CallsOf(i)) /\ IsFiniteSet(FramesOf(i))
    BY <1>1, HandleMapAssumption, FS_Subset DEF Finitely
  <1>3. Cardinality(EntriesOf(i)) \in Nat /\ Cardinality(CallsOf(i)) \in Nat
        /\ Cardinality(FramesOf(i)) \in Nat /\ One(i \in app) \in Nat
    BY <1>2, FS_CardinalityType DEF One
  <1> QED BY <1>2, <1>3, HoldersAre

\* Whoever holds an object is counted.
LEMMA HolderCounts ==
  ASSUME Finitely, NEW i \in Impls
  PROVE  /\ EntriesOf(i) # {} => Cardinality(EntriesOf(i)) > 0
         /\ CallsOf(i) # {} => Cardinality(CallsOf(i)) > 0
         /\ FramesOf(i) # {} => Cardinality(FramesOf(i)) > 0
BY HolderTypes, FS_EmptySet

-----------------------------------------------------------------------------
\* A call takes a reference to its object, or lets go of it.
LEMMA CallsChange ==
  ASSUME NEW t \in Threads, NEW i \in Impls,
         \A u \in Threads \ {t} : impl'[u] = impl[u]
  PROVE  Cardinality(CallsOf(i)') = Cardinality(CallsOf(i)) + One(impl'[t] = i) - One(impl[t] = i)
  <1>1. CallsOf(i) \subseteq Threads
    BY DEF CallsOf
  <1>2. IsFiniteSet(CallsOf(i)) /\ Cardinality(CallsOf(i)) \in Nat
    BY <1>1, HandleMapAssumption, FS_Subset, FS_CardinalityType
  <1>3. CASE (impl'[t] = i) <=> (impl[t] = i)
    <2>1. CallsOf(i)' = CallsOf(i)
      BY <1>3 DEF CallsOf
    <2> QED BY <1>2, <1>3, <2>1 DEF One
  <1>4. CASE impl'[t] = i /\ impl[t] # i
    <2>1. CallsOf(i)' = CallsOf(i) \cup {t} /\ t \notin CallsOf(i)
      BY <1>4 DEF CallsOf
    <2>2. Cardinality(CallsOf(i) \cup {t}) = Cardinality(CallsOf(i)) + 1
      BY <1>2, <2>1, FS_AddElement
    <2> QED BY <1>2, <1>4, <2>1, <2>2 DEF One
  <1>5. CASE impl'[t] # i /\ impl[t] = i
    <2>1. CallsOf(i)' = CallsOf(i) \ {t} /\ t \in CallsOf(i)
      BY <1>5 DEF CallsOf
    <2>2. Cardinality(CallsOf(i) \ {t}) = Cardinality(CallsOf(i)) - 1
      BY <1>2, <2>1, FS_RemoveElement
    <2> QED BY <1>2, <1>5, <2>1, <2>2 DEF One
  <1> QED BY <1>3, <1>4, <1>5

\* The map gains an entry, or loses one.
LEMMA EntryAdded ==
  ASSUME Finitely, NEW h, NEW j, h \notin DOMAIN map, map' = With(map, h, j)
  PROVE  /\ IsFiniteSet(DOMAIN map')
         /\ \A i \in Impls : Cardinality(EntriesOf(i)') = Cardinality(EntriesOf(i)) + One(i = j)
  <1>1. DOMAIN map' = DOMAIN map \cup {h} /\ map'[h] = j
        /\ \A x \in DOMAIN map : map'[x] = map[x]
    BY DEF With
  <1>2. IsFiniteSet(DOMAIN map')
    BY <1>1, FS_AddElement DEF Finitely
  <1>3. ASSUME NEW i \in Impls
        PROVE  Cardinality(EntriesOf(i)') = Cardinality(EntriesOf(i)) + One(i = j)
    <2>1. CASE i = j
      <3>1. EntriesOf(i)' = EntriesOf(i) \cup {h} /\ h \notin EntriesOf(i)
        BY <1>1, <2>1 DEF EntriesOf
      <3>2. Cardinality(EntriesOf(i) \cup {h}) = Cardinality(EntriesOf(i)) + 1
        BY <3>1, HolderTypes, FS_AddElement
      <3> QED BY <2>1, <3>1, <3>2 DEF One
    <2>2. CASE i # j
      <3>1. EntriesOf(i)' = EntriesOf(i)
        BY <1>1, <2>2 DEF EntriesOf
      <3> QED BY <2>2, <3>1, HolderTypes DEF One
    <2> QED BY <2>1, <2>2
  <1> QED BY <1>2, <1>3

\* The map loses an entry.
LEMMA EntryRemoved ==
  ASSUME Finitely, NEW h \in DOMAIN map, map' = Without(map, h)
  PROVE  /\ IsFiniteSet(DOMAIN map')
         /\ \A i \in Impls : Cardinality(EntriesOf(i)') = Cardinality(EntriesOf(i)) - One(i = map[h])
  <1>1. DOMAIN map' = DOMAIN map \ {h} /\ \A x \in DOMAIN map : x # h => map'[x] = map[x]
    BY WithoutEntry
  <1>2. IsFiniteSet(DOMAIN map')
    BY <1>1, FS_RemoveElement DEF Finitely
  <1>3. ASSUME NEW i \in Impls
        PROVE  Cardinality(EntriesOf(i)') = Cardinality(EntriesOf(i)) - One(i = map[h])
    <2>1. CASE i = map[h]
      <3>1. EntriesOf(i)' = EntriesOf(i) \ {h} /\ h \in EntriesOf(i)
        BY <1>1, <2>1 DEF EntriesOf
      <3>2. Cardinality(EntriesOf(i) \ {h}) = Cardinality(EntriesOf(i)) - 1
        BY <3>1, HolderTypes, FS_RemoveElement
      <3> QED BY <2>1, <3>1, <3>2 DEF One
    <2>2. CASE i # map[h]
      <3>1. EntriesOf(i)' = EntriesOf(i)
        BY <1>1, <2>2 DEF EntriesOf
      <3> QED BY <2>2, <3>1, HolderTypes DEF One
    <2> QED BY <2>1, <2>2
  <1> QED BY <1>2, <1>3

-----------------------------------------------------------------------------
\* The frames of a stack s that hold i.
Hold(s, i) == {n \in DOMAIN s : s[n].kind # "dtor" /\ s[n].obj = i}
Holding(f, i) == f.kind # "dtor" /\ f.obj = i

\* A frame more, or a frame less.
LEMMA HoldAppend ==
  ASSUME NEW s \in Seq(Frames), NEW f \in Frames, NEW i
  PROVE  /\ Holding(f, i) => Hold(Append(s, f), i) = Hold(s, i) \cup {Len(s) + 1}
                             /\ Len(s) + 1 \notin Hold(s, i)
         /\ ~Holding(f, i) => Hold(Append(s, f), i) = Hold(s, i)
  <1>1. /\ DOMAIN Append(s, f) = DOMAIN s \cup {Len(s) + 1} /\ Len(s) + 1 \notin DOMAIN s
        /\ Append(s, f)[Len(s) + 1] = f /\ \A n \in DOMAIN s : Append(s, f)[n] = s[n]
    OBVIOUS
  <1> DEFINE a == Append(s, f)
             k == Len(s) + 1
  <1>2. /\ DOMAIN a = DOMAIN s \cup {k} /\ k \notin DOMAIN s /\ a[k] = f
        /\ \A n \in DOMAIN s : a[n] = s[n]
    BY <1>1
  <1> HIDE DEF a, k
  <1>3. /\ Holding(f, i) => Hold(a, i) = Hold(s, i) \cup {k} /\ k \notin Hold(s, i)
        /\ ~Holding(f, i) => Hold(a, i) = Hold(s, i)
    BY <1>2 DEF Hold, Holding
  <1> QED BY <1>3 DEF a, k

\* An innermost frame that returns is one holding frame less, if it held.
LEMMA HoldOuter ==
  ASSUME NEW s \in Seq(Frames), s # <<>>, NEW i
  PROVE  /\ Holding(s[Len(s)], i) => Hold(SubSeq(s, 1, Len(s) - 1), i) = Hold(s, i) \ {Len(s)}
                                     /\ Len(s) \in Hold(s, i)
         /\ ~Holding(s[Len(s)], i) => Hold(SubSeq(s, 1, Len(s) - 1), i) = Hold(s, i)
  <1>1. /\ DOMAIN SubSeq(s, 1, Len(s) - 1) = DOMAIN s \ {Len(s)} /\ Len(s) \in DOMAIN s
        /\ \A n \in DOMAIN s \ {Len(s)} : SubSeq(s, 1, Len(s) - 1)[n] = s[n]
    OBVIOUS
  <1> DEFINE a == SubSeq(s, 1, Len(s) - 1)
             k == Len(s)
  <1>2. DOMAIN a = DOMAIN s \ {k} /\ k \in DOMAIN s /\ \A n \in DOMAIN s \ {k} : a[n] = s[n]
    BY <1>1
  <1> HIDE DEF a, k
  <1>3. /\ Holding(s[k], i) => Hold(a, i) = Hold(s, i) \ {k} /\ k \in Hold(s, i)
        /\ ~Holding(s[k], i) => Hold(a, i) = Hold(s, i)
    BY <1>2 DEF Hold, Holding
  <1> QED BY <1>3 DEF a, k

\* What the stack of one thread changes in the count.
LEMMA FramesSame ==
  ASSUME Finitely, NEW t \in Threads, NEW i \in Impls,
         \A u \in Threads \ {t} : frames'[u] = frames[u],
         Hold(frames'[t], i) = Hold(frames[t], i)
  PROVE  IsFiniteSet(FramesOf(i)') /\ Cardinality(FramesOf(i)') = Cardinality(FramesOf(i))
  <1>1. \A u \in Threads : HoldingFrames(u, i)' = HoldingFrames(u, i)
    BY DEF HoldingFrames, Hold
  <1>2. FramesOf(i)' = FramesOf(i)
    BY <1>1 DEF FramesOf
  <1> QED BY <1>2 DEF Finitely

\* The stack of one thread gains a frame that holds an object.
LEMMA FrameMore ==
  ASSUME Finitely, NEW t \in Threads, NEW i \in Impls, NEW n,
         \A u \in Threads \ {t} : frames'[u] = frames[u],
         Hold(frames'[t], i) = Hold(frames[t], i) \cup {n}, n \notin Hold(frames[t], i)
  PROVE  IsFiniteSet(FramesOf(i)') /\ Cardinality(FramesOf(i)') = Cardinality(FramesOf(i)) + 1
  <1>1. /\ \A u \in Threads \ {t} : HoldingFrames(u, i)' = HoldingFrames(u, i)
        /\ HoldingFrames(t, i)' = HoldingFrames(t, i) \cup {n} /\ n \notin HoldingFrames(t, i)
    BY DEF HoldingFrames, Hold
  <1>2. FramesOf(i)' = FramesOf(i) \cup {<<t, n>>}
    BY <1>1 DEF FramesOf
  <1>3. <<t, n>> \notin FramesOf(i)
    BY <1>1 DEF FramesOf
  <1> QED BY <1>2, <1>3, FS_AddElement DEF Finitely

\* The stack of one thread loses a frame that holds an object.
LEMMA FrameLess ==
  ASSUME Finitely, NEW t \in Threads, NEW i \in Impls, NEW n,
         \A u \in Threads \ {t} : frames'[u] = frames[u],
         Hold(frames'[t], i) = Hold(frames[t], i) \ {n}, n \in Hold(frames[t], i)
  PROVE  IsFiniteSet(FramesOf(i)') /\ Cardinality(FramesOf(i)') = Cardinality(FramesOf(i)) - 1
  <1>1. /\ \A u \in Threads \ {t} : HoldingFrames(u, i)' = HoldingFrames(u, i)
        /\ HoldingFrames(t, i)' = HoldingFrames(t, i) \ {n} /\ n \in HoldingFrames(t, i)
    BY DEF HoldingFrames, Hold
  <1>2. FramesOf(i)' = FramesOf(i) \ {<<t, n>>}
    BY <1>1 DEF FramesOf
  <1>3. <<t, n>> \in FramesOf(i)
    BY <1>1 DEF FramesOf
  <1> QED BY <1>2, <1>3, FS_RemoveElement DEF Finitely

\* A frame that is entered holds its object, unless it is a destructor's.
LEMMA PushCounts ==
  ASSUME TypeOK, Finitely, NEW t \in Threads, NEW f \in Frames, NEW i \in Impls,
         frames' = [frames EXCEPT ![t] = Append(frames[t], f)]
  PROVE  /\ IsFiniteSet(FramesOf(i)')
         /\ Cardinality(FramesOf(i)') = Cardinality(FramesOf(i)) + One(Holding(f, i))
  <1>1. /\ frames[t] \in Seq(Frames) /\ frames'[t] = Append(frames[t], f)
        /\ \A u \in Threads \ {t} : frames'[u] = frames[u]
    BY DEF TypeOK
  <1>2. Cardinality(FramesOf(i)) \in Nat
    BY HolderTypes
  <1>3. CASE Holding(f, i)
    <2>1. Hold(frames'[t], i) = Hold(frames[t], i) \cup {Len(frames[t]) + 1}
          /\ Len(frames[t]) + 1 \notin Hold(frames[t], i)
      BY <1>1, <1>3, HoldAppend
    <2> QED BY <1>1, <1>3, <2>1, FrameMore DEF One
  <1>4. CASE ~Holding(f, i)
    <2>1. Hold(frames'[t], i) = Hold(frames[t], i)
      BY <1>1, <1>4, HoldAppend
    <2> QED BY <1>1, <1>2, <1>4, <2>1, FramesSame DEF One
  <1> QED BY <1>3, <1>4

\* A frame that returns lets go of its object, unless it is a destructor's.
LEMMA PopCounts ==
  ASSUME TypeOK, Finitely, NEW t \in Threads, NEW i \in Impls, frames[t] # <<>>,
         \A u \in Threads \ {t} : frames'[u] = frames[u],
         Hold(frames'[t], i) = Hold(Outer(t), i)
  PROVE  /\ IsFiniteSet(FramesOf(i)')
         /\ Cardinality(FramesOf(i)') = Cardinality(FramesOf(i)) - One(Holding(Innermost(t), i))
  <1>1. frames[t] \in Seq(Frames)
    BY DEF TypeOK
  <1>2. Cardinality(FramesOf(i)) \in Nat
    BY HolderTypes
  <1>3. CASE Holding(Innermost(t), i)
    <2>1. Hold(frames'[t], i) = Hold(frames[t], i) \ {Len(frames[t])}
          /\ Len(frames[t]) \in Hold(frames[t], i)
      BY <1>1, <1>3, HoldOuter DEF Outer, Innermost
    <2> QED BY <1>3, <2>1, FrameLess DEF One
  <1>4. CASE ~Holding(Innermost(t), i)
    <2>1. Hold(frames'[t], i) = Hold(frames[t], i)
      BY <1>1, <1>4, HoldOuter DEF Outer, Innermost
    <2> QED BY <1>2, <1>4, <2>1, FramesSame DEF One
  <1> QED BY <1>3, <1>4

\* A destructor's frame does not hold its object.
LEMMA DropHold ==
  ASSUME TypeOK, NEW t \in Threads, NEW j \in Impls, NEW base \in Seq(Frames), Drop(t, j, base)
  PROVE  /\ \A u \in Threads \ {t} : frames'[u] = frames[u]
         /\ \A i : Hold(frames'[t], i) = Hold(base, i)
  <1> DEFINE f == [kind |-> "dtor", obj |-> j]
  <1>1. f \in Frames /\ \A i : ~Holding(f, i)
    BY DEF Frames, Holding
  <1>2. \A i : Hold(Append(base, f), i) = Hold(base, i)
    BY <1>1, HoldAppend
  <1> QED BY <1>2 DEF Drop, TypeOK

\* What a step leaves alone.
LEMMA Unmoved ==
  ASSUME Finitely, NEW i \in Impls
  PROVE  /\ UNCHANGED map => IsFiniteSet(DOMAIN map')
                             /\ Cardinality(EntriesOf(i)') = Cardinality(EntriesOf(i))
         /\ UNCHANGED impl => Cardinality(CallsOf(i)') = Cardinality(CallsOf(i))
         /\ UNCHANGED frames => IsFiniteSet(FramesOf(i)')
                                /\ Cardinality(FramesOf(i)') = Cardinality(FramesOf(i))
  <1>1. UNCHANGED map => EntriesOf(i)' = EntriesOf(i)
    BY DEF EntriesOf
  <1>2. UNCHANGED impl => CallsOf(i)' = CallsOf(i)
    BY DEF CallsOf
  <1>3. UNCHANGED frames => FramesOf(i)' = FramesOf(i)
    BY DEF FramesOf, HoldingFrames
  <1> QED BY <1>1, <1>2, <1>3 DEF Finitely

\* The use counts follow the holders.
LEMMA Dropped ==
  ASSUME TypeOK, AliveWhileHeld, Finitely, NEW t, NEW j \in Impls, NEW base, Drop(t, j, base),
         \A i \in Impls : Holders(i)' \in Nat /\ Holders(i)' = Holders(i) - One(i = j)
  PROVE  AliveWhileHeld'
  <1>1. \A i \in Impls : Holders(i) \in Nat
    BY HolderTypes
  <1>2. refs' = [refs EXCEPT ![j] = refs[j] - 1] /\ refs \in [Impls -> Int]
    BY DEF Drop, TypeOK
  <1>3. ASSUME NEW i \in Impls, i # j
        PROVE  refs'[i] = Holders(i)' /\ (life'[i] = "alive" <=> Holders(i)' > 0)
    <2>1. life'[i] = life[i]
      BY <1>3 DEF Drop, TypeOK
    <2> QED BY <1>1, <1>2, <1>3, <2>1 DEF AliveWhileHeld, One
  <1>4. refs[j] = Holders(j) /\ Holders(j)' = Holders(j) - 1 /\ Holders(j)' \in Nat
    BY DEF AliveWhileHeld, One
  <1>5. life[j] = "alive"
    BY <1>1, <1>4 DEF AliveWhileHeld
  <1>6. life'[j] = "alive" <=> Holders(j)' > 0
    BY <1>1, <1>4, <1>5 DEF Drop, TypeOK
  <1> QED BY <1>1, <1>2, <1>3, <1>4, <1>6 DEF AliveWhileHeld

\* A reference taken by a new holder of j.
LEMMA Shared ==
  ASSUME TypeOK, AliveWhileHeld, Finitely, NEW j \in Impls, Holders(j) > 0, Share(j),
         \A i \in Impls : Holders(i)' = Holders(i) + One(i = j)
  PROVE  AliveWhileHeld'
  <1>1. \A i \in Impls : Holders(i) \in Nat
    BY HolderTypes
  <1>2. refs' = [refs EXCEPT ![j] = refs[j] + 1] /\ refs \in [Impls -> Int] /\ life' = life
    BY DEF Share, TypeOK
  <1> QED BY <1>1, <1>2 DEF AliveWhileHeld, One

\* A step that moves no reference and no holder.
LEMMA Unshared ==
  ASSUME AliveWhileHeld, UNCHANGED <<refs, life>>, \A i \in Impls : Holders(i)' = Holders(i)
  PROVE  AliveWhileHeld'
BY DEF AliveWhileHeld

\* Steps that touch no reference.
LEMMA QuietHolds ==
  ASSUME AliveWhileHeld, Finitely, UNCHANGED <<map, frames, app, refs, life>>,
         NEW t \in Threads, \A u \in Threads : impl'[u] = impl[u]
  PROVE  AliveWhileHeld' /\ Finitely'
  <1>1. ASSUME NEW i \in Impls
        PROVE  Holders(i)' = Holders(i) /\ IsFiniteSet(FramesOf(i)') /\ IsFiniteSet(DOMAIN map')
    <2>1. Cardinality(CallsOf(i)') = Cardinality(CallsOf(i))
      BY CallsChange, HolderTypes DEF One
    <2> QED BY <2>1, Unmoved, HoldersAre
  <1>2. IsFiniteSet(DOMAIN map')
    BY DEF Finitely
  <1> QED BY <1>1, <1>2, Unshared DEF Finitely

\* A thread that drops what it holds for its call, having left the map.
LEMMA CallDropHolds ==
  ASSUME TypeOK, AliveWhileHeld, Finitely, NEW t \in Threads, impl[t] \in Impls,
         Drop(t, impl[t], frames[t]), impl' = [impl EXCEPT ![t] = None], UNCHANGED <<map, app>>
  PROVE  AliveWhileHeld' /\ Finitely'
  <1>1. frames[t] \in Seq(Frames)
    BY DEF TypeOK
  <1>2. impl'[t] = None /\ \A u \in Threads \ {t} : impl'[u] = impl[u]
    BY DEF TypeOK
  <1>3. IsFiniteSet(DOMAIN map')
    BY DEF Finitely
  <1>4. ASSUME NEW i \in Impls
        PROVE  /\ Holders(i)' \in Nat /\ Holders(i)' = Holders(i) - One(i = impl[t])
               /\ IsFiniteSet(FramesOf(i)')
    <2>1. Cardinality(FramesOf(i)') = Cardinality(FramesOf(i)) /\ IsFiniteSet(FramesOf(i)')
      BY <1>1, DropHold, FramesSame
    <2>2. Cardinality(CallsOf(i)') = Cardinality(CallsOf(i)) - One(impl[t] = i)
      BY <1>2, CallsChange, HolderTypes, HandleMapAssumption DEF One
    <2>3. impl[t] = i => Cardinality(CallsOf(i)) > 0
      BY HolderCounts DEF CallsOf
    <2>4. Cardinality(EntriesOf(i)') = Cardinality(EntriesOf(i)) /\ One(i \in app') = One(i \in app)
      BY Unmoved
    <2> HIDE DEF One
    <2>5. One(impl[t] = i) = One(i = impl[t]) /\ One(impl[t] = i) \in {0, 1}
          /\ (One(impl[t] = i) = 1 => impl[t] = i)
      BY DEF One
    <2> QED BY <2>1, <2>2, <2>3, <2>4, <2>5, HoldersAre, HolderTypes
  <1> QED BY <1>3, <1>4, Dropped DEF Finitely

\* A thread passes what it holds for its call to a new frame.
LEMMA CallPushHolds ==
  ASSUME TypeOK, AliveWhileHeld, Finitely, NEW t \in Threads, impl[t] \in Impls,
         NEW kind \in {"method", "lift"}, Enter(t, kind, impl[t]),
         impl' = [impl EXCEPT ![t] = None], UNCHANGED <<map, app, refs, life>>
  PROVE  AliveWhileHeld' /\ Finitely'
  <1> DEFINE f == [kind |-> kind, obj |-> impl[t]]
  <1>1. f \in Frames /\ \A i : Holding(f, i) <=> impl[t] = i
    BY DEF Frames, Holding
  <1>2. frames' = [frames EXCEPT ![t] = Append(frames[t], f)]
    BY DEF Enter
  <1>3. impl'[t] = None /\ \A u \in Threads \ {t} : impl'[u] = impl[u]
    BY DEF TypeOK
  <1>4. IsFiniteSet(DOMAIN map')
    BY DEF Finitely
  <1> HIDE DEF f
  <1>5. ASSUME NEW i \in Impls
        PROVE  Holders(i)' = Holders(i) /\ IsFiniteSet(FramesOf(i)')
    <2>1. /\ Cardinality(FramesOf(i)') = Cardinality(FramesOf(i)) + One(impl[t] = i)
          /\ IsFiniteSet(FramesOf(i)')
      BY <1>1, <1>2, PushCounts DEF One
    <2>2. Cardinality(CallsOf(i)') = Cardinality(CallsOf(i)) - One(impl[t] = i)
      BY <1>3, CallsChange, HolderTypes, HandleMapAssumption DEF One
    <2>3. Cardinality(EntriesOf(i)') = Cardinality(EntriesOf(i)) /\ One(i \in app') = One(i \in app)
      BY Unmoved
    <2>4. One(impl[t] = i) \in Nat
      BY DEF One
    <2> QED BY <2>1, <2>2, <2>3, <2>4, HoldersAre, HolderTypes
  <1> QED BY <1>4, <1>5, Unshared DEF Finitely

\* User code that makes an object, lets go of it or returns.
LEMMA UserHolds ==
  ASSUME TypeOK, AliveWhileHeld, LiftInv, DtorInv, Finitely, NEW t \in Threads,
         \/ \E i \in Impls : Create(t, i) \/ Forget(t, i) \/ CallInsert(t, i)
         \/ MethodReturn(t) \/ DtorReturn(t)
  PROVE  AliveWhileHeld' /\ Finitely'
  <1>0. frames[t] \in Seq(Frames)
    BY DEF TypeOK
  <1>1. ASSUME NEW j \in Impls, Create(t, j) PROVE AliveWhileHeld' /\ Finitely'
    <2>1. /\ UNCHANGED <<map, impl, frames>> /\ app' = app \cup {j}
          /\ life[j] = "unborn" /\ life' = [life EXCEPT ![j] = "alive"]
          /\ refs' = [refs EXCEPT ![j] = 1]
      BY <1>1 DEF Create, lockVars, callVars
    <2>2. ASSUME NEW i \in Impls
          PROVE  /\ Holders(i)' = (IF i = j THEN 1 ELSE Holders(i))
                 /\ IsFiniteSet(FramesOf(i)')
      <3>1. Holders(i)' = Holders(i) + One(i \in app') - One(i \in app) /\ IsFiniteSet(FramesOf(i)')
        BY <2>1, Unmoved, HoldersAre, HolderTypes DEF One
      <3>2. i = j => Holders(i) = 0
        BY <2>1, HolderTypes DEF AliveWhileHeld
      <3>3. i = j => i \notin app
        BY <3>2, HoldersAre, HolderTypes DEF One
      <3> QED BY <2>1, <3>1, <3>2, <3>3, HolderTypes DEF One
    <2>3. IsFiniteSet(DOMAIN map')
      BY <2>1 DEF Finitely
    <2> QED BY <2>1, <2>2, <2>3 DEF AliveWhileHeld, Finitely, TypeOK
  <1>2. ASSUME NEW j \in Impls, Forget(t, j) PROVE AliveWhileHeld' /\ Finitely'
    <2>1. UNCHANGED <<map, impl>> /\ app' = app \ {j} /\ j \in app /\ Drop(t, j, frames[t])
      BY <1>2 DEF Forget, lockVars, callVars
    <2>2. ASSUME NEW i \in Impls
          PROVE  /\ Holders(i)' \in Nat /\ Holders(i)' = Holders(i) - One(i = j)
                 /\ IsFiniteSet(FramesOf(i)')
      <3>1. Cardinality(FramesOf(i)') = Cardinality(FramesOf(i)) /\ IsFiniteSet(FramesOf(i)')
        BY <1>0, <2>1, DropHold, FramesSame
      <3>2. One(i \in app') = One(i \in app) - One(i = j) /\ One(i \in app') \in Nat
        BY <2>1 DEF One
      <3> QED BY <2>1, <3>1, <3>2, Unmoved, HoldersAre, HolderTypes DEF One
    <2>3. IsFiniteSet(DOMAIN map')
      BY <2>1 DEF Finitely
    <2> QED BY <2>1, <2>2, <2>3, Dropped DEF Finitely
  <1>3. ASSUME NEW j \in Impls, CallInsert(t, j) PROVE AliveWhileHeld' /\ Finitely'
    <2>1. /\ UNCHANGED <<map, app>> /\ Share(j) /\ j \in app
          /\ impl' = [impl EXCEPT ![t] = j] /\ impl[t] = None
      BY <1>3 DEF CallInsert, Begin, Goto, lockVars, LiftInv, LiftOf
    <2>2. ASSUME NEW i \in Impls
          PROVE  /\ Holders(i)' = Holders(i) + One(i = j) /\ (i = j => Holders(i) > 0)
                 /\ IsFiniteSet(FramesOf(i)')
      <3>1. impl'[t] = j /\ \A u \in Threads \ {t} : impl'[u] = impl[u]
        BY <2>1 DEF TypeOK
      <3>2. Cardinality(CallsOf(i)') = Cardinality(CallsOf(i)) + One(i = j)
        BY <2>1, <3>1, CallsChange, HolderTypes, HandleMapAssumption DEF One
      <3>3. UNCHANGED frames /\ (i = j => One(i \in app) = 1) /\ One(i = j) \in Nat
        BY <2>1 DEF Share, One
      <3> QED BY <2>1, <3>2, <3>3, Unmoved, HoldersAre, HolderTypes
    <2>3. IsFiniteSet(DOMAIN map')
      BY <2>1 DEF Finitely
    <2> QED BY <2>1, <2>2, <2>3, Shared DEF Finitely
  <1>4. CASE MethodReturn(t)
    <2> DEFINE j == Innermost(t).obj
    <2>1. /\ UNCHANGED <<map, impl, app>> /\ Drop(t, j, Outer(t))
          /\ frames[t] # <<>> /\ Innermost(t).kind = "method"
      BY <1>4 DEF MethodReturn, In, lockVars, callVars
    <2>2. j \in Impls /\ Outer(t) \in Seq(Frames)
      BY <1>0, <2>1, OuterFrames DEF Innermost, Outer, Frames
    <2>3. \A i : Holding(Innermost(t), i) <=> i = j
      BY <2>1 DEF Holding
    <2> HIDE DEF j
    <2>4. ASSUME NEW i \in Impls
          PROVE  /\ Holders(i)' \in Nat /\ Holders(i)' = Holders(i) - One(i = j)
                 /\ IsFiniteSet(FramesOf(i)')
      <3>1. /\ Cardinality(FramesOf(i)') = Cardinality(FramesOf(i)) - One(i = j)
            /\ IsFiniteSet(FramesOf(i)')
        BY <2>1, <2>2, <2>3, DropHold, PopCounts DEF One
      <3>2. Cardinality(FramesOf(i)') \in Nat
        BY <3>1, FS_CardinalityType
      <3>3. One(i = j) \in Nat /\ One(i \in app') = One(i \in app)
        BY <2>1 DEF One
      <3>4. Cardinality(EntriesOf(i)') = Cardinality(EntriesOf(i))
            /\ Cardinality(CallsOf(i)') = Cardinality(CallsOf(i))
        BY <2>1, Unmoved
      <3>5. /\ Cardinality(EntriesOf(i)) \in Nat /\ Cardinality(CallsOf(i)) \in Nat
            /\ Cardinality(FramesOf(i)) \in Nat /\ One(i \in app) \in Nat
        BY HolderTypes
      <3> QED BY <3>1, <3>2, <3>3, <3>4, <3>5, HoldersAre
    <2>5. IsFiniteSet(DOMAIN map')
      BY <2>1 DEF Finitely
    <2> QED BY <2>1, <2>2, <2>4, <2>5, Dropped DEF Finitely
  <1>5. CASE DtorReturn(t)
    <2> DEFINE j == Innermost(t).obj
    <2>1. /\ UNCHANGED <<map, impl, app, refs>> /\ frames' = [frames EXCEPT ![t] = Outer(t)]
          /\ frames[t] # <<>> /\ Innermost(t).kind = "dtor"
          /\ life' = [life EXCEPT ![j] = "dead"]
      BY <1>5 DEF DtorReturn, In, lockVars, callVars
    <2>2. j \in Impls /\ Len(frames[t]) \in DOMAIN frames[t]
      <3>1. j \in Impls
        BY <1>0, <2>1, OuterFrames DEF Innermost, Frames
      <3>2. Len(frames[t]) \in DOMAIN frames[t]
        BY <1>0, <2>1
      <3> QED BY <3>1, <3>2
    <2>3. life[j] # "alive"
      BY <2>1, <2>2 DEF DtorInv, Innermost
    <2>4. ASSUME NEW i \in Impls
          PROVE  Holders(i)' = Holders(i) /\ IsFiniteSet(FramesOf(i)')
      <3>1. ~Holding(Innermost(t), i) /\ frames'[t] = Outer(t)
            /\ \A u \in Threads \ {t} : frames'[u] = frames[u]
        BY <2>1 DEF Holding, TypeOK
      <3>2. Cardinality(FramesOf(i)') = Cardinality(FramesOf(i)) /\ IsFiniteSet(FramesOf(i)')
        BY <2>1, <3>1, PopCounts, HolderTypes DEF One
      <3> QED BY <2>1, <3>2, Unmoved, HoldersAre, HolderTypes
    <2>5. IsFiniteSet(DOMAIN map')
      BY <2>1 DEF Finitely
    <2> QED BY <2>1, <2>2, <2>3, <2>4, <2>5 DEF AliveWhileHeld, Finitely, TypeOK
  <1> QED BY <1>1, <1>2, <1>3, <1>4, <1>5

\* Calls that begin, and the accesses of the map.
LEMMA AccessHolds ==
  ASSUME TypeOK, CallInv, AliveWhileHeld, LiftInv, Finitely, NEW t \in Threads,
         \/ \E h \in Handles : CallClone(t, h) \/ CallErase(t, h) \/ CallLift(t, h) \/ CallMethod(t, h)
         \/ Acquire(t) \/ Look(t) \/ LookMiss(t) \/ Take(t) \/ Store(t) \/ Bump(t) \/ Remove(t)
  PROVE  AliveWhileHeld' /\ Finitely'
  <1>0. frames[t] \in Seq(Frames)
    BY DEF TypeOK
  <1>1. ASSUME NEW h \in Handles,
               CallClone(t, h) \/ CallErase(t, h) \/ CallLift(t, h) \/ CallMethod(t, h)
        PROVE  AliveWhileHeld' /\ Finitely'
    <2>1. PICK o \in Ops : Begin(t, o, h, None)
      BY <1>1, CallByHandle
    <2>2. UNCHANGED <<map, frames, app, refs, life>>
      BY <1>1, <2>1, CallByHandle DEF Begin, lockVars
    <2>3. impl[t] = None /\ impl' = [impl EXCEPT ![t] = None]
      BY <2>1 DEF Begin, Goto, LiftInv, LiftOf
    <2>4. \A u \in Threads : impl'[u] = impl[u]
      BY <2>3 DEF TypeOK
    <2> QED BY <2>2, <2>4, QuietHolds
  <1>2. CASE Acquire(t) \/ LookMiss(t) \/ Take(t) \/ Bump(t)
    <2>1. UNCHANGED <<map, frames, app, refs, life, impl>>
      BY <1>2 DEF Acquire, LookMiss, Take, Bump, lockVars, objVars
    <2> QED BY <2>1, QuietHolds
  <1>3. CASE Look(t)
    <2> DEFINE j == map[handle[t]]
    <2>1. /\ handle[t] \in DOMAIN map /\ impl' = [impl EXCEPT ![t] = j]
          /\ Share(j) /\ UNCHANGED <<map, app>> /\ impl[t] = None
      BY <1>3 DEF Look, Goto, lockVars, CallInv
    <2>2. j \in Impls
      BY <2>1 DEF TypeOK
    <2>3. EntriesOf(j) # {}
      BY <2>1 DEF EntriesOf
    <2> HIDE DEF j
    <2>4. impl'[t] = j /\ \A u \in Threads \ {t} : impl'[u] = impl[u]
      BY <2>1 DEF TypeOK
    <2>5. ASSUME NEW i \in Impls
          PROVE  Holders(i)' = Holders(i) + One(i = j) /\ IsFiniteSet(FramesOf(i)')
      <3>1. Cardinality(CallsOf(i)') = Cardinality(CallsOf(i)) + One(i = j)
        BY <2>1, <2>4, CallsChange, HolderTypes, HandleMapAssumption DEF One
      <3>2. UNCHANGED frames /\ One(i \in app') = One(i \in app) /\ One(i = j) \in Nat
        BY <2>1 DEF Share, One
      <3> QED BY <2>1, <3>1, <3>2, Unmoved, HoldersAre, HolderTypes
    <2>6. Holders(j) > 0
      BY <2>2, <2>3, HolderCounts, HoldersAre, HolderTypes
    <2>7. IsFiniteSet(DOMAIN map')
      BY <2>1 DEF Finitely
    <2> QED BY <2>1, <2>2, <2>5, <2>6, <2>7, Shared DEF Finitely
  <1>4. CASE Store(t)
    <2>1. CASE slot[t] \in DOMAIN map
      <3>1. UNCHANGED <<map, frames, app, refs, life, impl>>
        BY <1>4, <2>1 DEF Store
      <3> QED BY <3>1, QuietHolds
    <2>2. CASE slot[t] \notin DOMAIN map
      <3> DEFINE j == impl[t]
      <3>1. /\ map' = With(map, slot[t], j) /\ Share(j) /\ UNCHANGED <<app, impl>> /\ j \in Impls
        BY <1>4, <2>2 DEF Store, Goto, CallInv
      <3>2. CallsOf(j) # {}
        BY DEF CallsOf
      <3> HIDE DEF j
      <3>3. ASSUME NEW i \in Impls
            PROVE  Holders(i)' = Holders(i) + One(i = j) /\ IsFiniteSet(FramesOf(i)')
        <4>1. Cardinality(EntriesOf(i)') = Cardinality(EntriesOf(i)) + One(i = j)
          BY <2>2, <3>1, EntryAdded
        <4>2. UNCHANGED frames /\ One(i \in app') = One(i \in app) /\ One(i = j) \in Nat
          BY <3>1 DEF Share, One
        <4> QED BY <3>1, <4>1, <4>2, Unmoved, HoldersAre, HolderTypes
      <3>4. Holders(j) > 0
        BY <3>1, <3>2, HolderCounts, HoldersAre, HolderTypes
      <3>5. IsFiniteSet(DOMAIN map')
        BY <2>2, <3>1, EntryAdded
      <3> QED BY <3>1, <3>3, <3>4, <3>5, Shared DEF Finitely
    <2> QED BY <2>1, <2>2
  <1>5. CASE Remove(t)
    <2> DEFINE j == map[handle[t]]
    <2>1. /\ handle[t] \in DOMAIN map /\ map' = Without(map, handle[t])
          /\ Drop(t, j, frames[t]) /\ UNCHANGED <<app, impl>>
      BY <1>5 DEF Remove, Goto, CallInv
    <2>2. j \in Impls
      BY <2>1 DEF TypeOK
    <2>3. EntriesOf(j) # {}
      BY <2>1 DEF EntriesOf
    <2>4. \A i \in Impls : Cardinality(EntriesOf(i)') = Cardinality(EntriesOf(i)) - One(i = j)
      BY <2>1, EntryRemoved
    <2>5. IsFiniteSet(DOMAIN map')
      BY <2>1, EntryRemoved
    <2> HIDE DEF j
    <2>6. ASSUME NEW i \in Impls
          PROVE  /\ Holders(i)' \in Nat /\ Holders(i)' = Holders(i) - One(i = j)
                 /\ IsFiniteSet(FramesOf(i)')
      <3>1. Cardinality(FramesOf(i)') = Cardinality(FramesOf(i)) /\ IsFiniteSet(FramesOf(i)')
        BY <1>0, <2>1, <2>2, DropHold, FramesSame
      <3>2. Cardinality(CallsOf(i)') = Cardinality(CallsOf(i)) /\ One(i \in app') = One(i \in app)
        BY <2>1, Unmoved
      <3>3. i = j => Cardinality(EntriesOf(i)) > 0
        BY <2>3, HolderCounts
      <3>4. One(i = j) \in {0, 1} /\ (One(i = j) = 1 => i = j)
        BY DEF One
      <3> QED BY <2>4, <3>1, <3>2, <3>3, <3>4, HoldersAre, HolderTypes
    <2> QED BY <2>1, <2>2, <2>5, <2>6, Dropped DEF Finitely
  <1> QED BY <1>1, <1>2, <1>3, <1>4, <1>5

\* The ends of calls.
LEMMA ReturnHolds ==
  ASSUME TypeOK, CallInv, AliveWhileHeld, LiftInv, Finitely, NEW t \in Threads,
         ReturnMiss(t) \/ ReturnMethod(t) \/ ReturnDrop(t) \/ ReturnLift(t) \/ LiftErase(t) \/ LiftDeliver(t)
  PROVE  AliveWhileHeld' /\ Finitely'
  <1>0. frames[t] \in Seq(Frames)
    BY DEF TypeOK
  <1>1. CASE ReturnMiss(t)
    <2>1. UNCHANGED <<map, frames, app, refs, life>> /\ impl[t] = None /\ impl' = [impl EXCEPT ![t] = None]
      BY <1>1 DEF ReturnMiss, Leave, objVars
    <2>2. \A u \in Threads : impl'[u] = impl[u]
      BY <2>1 DEF TypeOK
    <2> QED BY <2>1, <2>2, QuietHolds
  <1>2. CASE LiftErase(t)
    <2>1. UNCHANGED <<map, frames, app, refs, life, impl>>
      BY <1>2 DEF LiftErase, lockVars, objVars
    <2> QED BY <2>1, QuietHolds
  <1>3. CASE ReturnMethod(t) \/ ReturnLift(t)
    <2>1. PICK kind \in {"method", "lift"} : Enter(t, kind, impl[t])
      BY <1>3 DEF ReturnMethod, ReturnLift
    <2>2. /\ impl[t] \in Impls /\ impl' = [impl EXCEPT ![t] = None]
          /\ UNCHANGED <<map, app, refs, life>>
      BY <1>3 DEF ReturnMethod, ReturnLift, Leave, TypeOK
    <2> QED BY <2>1, <2>2, CallPushHolds
  <1>4. CASE ReturnDrop(t)
    <2>1. /\ impl[t] \in Impls /\ impl' = [impl EXCEPT ![t] = None]
          /\ Drop(t, impl[t], frames[t]) /\ UNCHANGED <<map, app>>
      BY <1>4 DEF ReturnDrop, Leave, TypeOK
    <2> QED BY <2>1, CallDropHolds
  <1>5. CASE LiftDeliver(t)
    <2> DEFINE j == Innermost(t).obj
    <2>1. /\ UNCHANGED <<map, impl>> /\ app' = app \cup {j}
          /\ IF j \in app THEN Drop(t, j, Outer(t))
             ELSE frames' = [frames EXCEPT ![t] = Outer(t)] /\ UNCHANGED <<refs, life>>
      BY <1>5 DEF LiftDeliver, lockVars
    <2>2. frames[t] # <<>> /\ Innermost(t).kind = "lift"
      BY <1>5 DEF LiftDeliver, Goto, LiftInv, LiftOf, In
    <2>3. j \in Impls /\ Outer(t) \in Seq(Frames)
      BY <1>0, <2>2, OuterFrames DEF Innermost, Outer, Frames
    <2>4. \A i : Holding(Innermost(t), i) <=> i = j
      BY <2>2 DEF Holding
    <2>5. IsFiniteSet(DOMAIN map')
      BY <2>1 DEF Finitely
    <2> HIDE DEF j
    <2>6. ASSUME NEW i \in Impls, \A u \in Threads \ {t} : frames'[u] = frames[u],
                 Hold(frames'[t], i) = Hold(Outer(t), i)
          PROVE  /\ Holders(i)' \in Nat /\ IsFiniteSet(FramesOf(i)')
                 /\ Holders(i)' = Holders(i) - One(i = j) + One(i \in app') - One(i \in app)
      <3>1. /\ Cardinality(FramesOf(i)') = Cardinality(FramesOf(i)) - One(i = j)
            /\ IsFiniteSet(FramesOf(i)')
        BY <2>2, <2>4, <2>6, PopCounts DEF One
      <3>2. Cardinality(FramesOf(i)') \in Nat
        BY <3>1, FS_CardinalityType
      <3>3. One(i = j) \in Nat /\ One(i \in app') \in Nat
        BY DEF One
      <3>4. Cardinality(EntriesOf(i)') = Cardinality(EntriesOf(i))
            /\ Cardinality(CallsOf(i)') = Cardinality(CallsOf(i))
        BY <2>1, Unmoved
      <3>5. /\ Cardinality(EntriesOf(i)) \in Nat /\ Cardinality(CallsOf(i)) \in Nat
            /\ Cardinality(FramesOf(i)) \in Nat /\ One(i \in app) \in Nat
        BY HolderTypes
      <3> QED BY <3>1, <3>2, <3>3, <3>4, <3>5, HoldersAre
    <2>7. CASE j \in app
      <3>1. ASSUME NEW i \in Impls
            PROVE  /\ Holders(i)' \in Nat /\ IsFiniteSet(FramesOf(i)')
                   /\ Holders(i)' = Holders(i) - One(i = j)
        <4>1. app' = app /\ One(i \in app) \in Nat /\ One(i = j) \in Nat
          BY <2>1, <2>7 DEF One
        <4>2. /\ Holders(i)' \in Nat /\ IsFiniteSet(FramesOf(i)')
              /\ Holders(i)' = Holders(i) - One(i = j) + One(i \in app') - One(i \in app)
          BY <2>1, <2>3, <2>6, <2>7, DropHold
        <4> QED BY <4>1, <4>2, HolderTypes
      <3> QED BY <2>1, <2>3, <2>5, <2>7, <3>1, Dropped DEF Finitely
    <2>8. CASE j \notin app
      <3>1. frames'[t] = Outer(t) /\ \A u \in Threads \ {t} : frames'[u] = frames[u]
        BY <2>1, <2>8 DEF TypeOK
      <3>2. ASSUME NEW i \in Impls
            PROVE  Holders(i)' = Holders(i) /\ IsFiniteSet(FramesOf(i)')
        <4>1. One(i \in app') = One(i \in app) + One(i = j) /\ One(i \in app) \in Nat /\ One(i = j) \in Nat
          BY <2>1, <2>8 DEF One
        <4>2. /\ Holders(i)' \in Nat /\ IsFiniteSet(FramesOf(i)')
              /\ Holders(i)' = Holders(i) - One(i = j) + One(i \in app') - One(i \in app)
          BY <2>6, <3>1
        <4> QED BY <4>1, <4>2, HolderTypes
      <3> QED BY <2>1, <2>5, <2>8, <3>2, Unshared DEF Finitely
    <2> QED BY <2>7, <2>8
  <1> QED BY <1>1, <1>2, <1>3, <1>4, <1>5
-----------------------------------------------------------------------------
\* A lift's frame is the last of its stack s, if there is one.
Tidy(s) == \A n \in DOMAIN s : s[n].kind = "lift" => n = Len(s)
Lifting(s) == s # <<>> /\ s[Len(s)].kind = "lift"

\* A frame enters a stack that is in no lift.
LEMMA TidyAppend ==
  ASSUME NEW s \in Seq(Frames), NEW f \in Frames, Tidy(s), ~Lifting(s)
  PROVE  /\ Tidy(Append(s, f)) /\ Append(s, f) # <<>>
         /\ Append(s, f)[Len(Append(s, f))] = f
  <1>1. /\ DOMAIN Append(s, f) = DOMAIN s \cup {Len(s) + 1} /\ Len(Append(s, f)) = Len(s) + 1
        /\ Append(s, f)[Len(s) + 1] = f /\ \A n \in DOMAIN s : Append(s, f)[n] = s[n]
    OBVIOUS
  <1>2. \A n \in DOMAIN s : s[n].kind # "lift"
    BY DEF Tidy, Lifting
  <1> QED BY <1>1, <1>2 DEF Tidy

\* A stack without its innermost frame has no lift.
LEMMA TidyOuter ==
  ASSUME NEW s \in Seq(Frames), s # <<>>, Tidy(s)
  PROVE  Tidy(SubSeq(s, 1, Len(s) - 1)) /\ ~Lifting(SubSeq(s, 1, Len(s) - 1))
  <1>1. /\ DOMAIN SubSeq(s, 1, Len(s) - 1) = DOMAIN s \ {Len(s)}
        /\ \A n \in DOMAIN s \ {Len(s)} : SubSeq(s, 1, Len(s) - 1)[n] = s[n]
        /\ SubSeq(s, 1, Len(s) - 1) \in Seq(Frames)
    OBVIOUS
  <1> DEFINE a == SubSeq(s, 1, Len(s) - 1)
  <1>2. \A n \in DOMAIN a : a[n].kind # "lift"
    BY <1>1 DEF Tidy
  <1>3. a # <<>> => Len(a) \in DOMAIN a
    BY <1>1
  <1> QED BY <1>2, <1>3 DEF Tidy, Lifting

\* What Drop leaves is as tidy as what it starts from.
LEMMA DropTidy ==
  ASSUME TypeOK, NEW t \in Threads, NEW j \in Impls, NEW base \in Seq(Frames), Drop(t, j, base),
         Tidy(base), ~Lifting(base)
  PROVE  Tidy(frames'[t]) /\ ~Lifting(frames'[t])
  <1> DEFINE f == [kind |-> "dtor", obj |-> j]
  <1>1. f \in Frames /\ f.kind # "lift"
    BY DEF Frames
  <1>2. Tidy(Append(base, f)) /\ ~Lifting(Append(base, f))
    BY <1>1, TidyAppend DEF Lifting
  <1>3. frames'[t] \in {base, Append(base, f)}
    BY DEF Drop, TypeOK
  <1> QED BY <1>2, <1>3

\* LiftOf, of the stack as a whole.
LEMMA LiftOfStack ==
  ASSUME NEW t
  PROVE  /\ LiftOf(t) => Tidy(frames[t])
         /\ In(t, "lift") <=> Lifting(frames[t])
         /\ In(t, "lift")' <=> Lifting(frames'[t])
         /\ Tidy(frames'[t]) /\ ~Lifting(frames'[t]) /\ pc'[t] \notin {"again", "deliver"}
            /\ (pc'[t] = "user" => impl'[t] = None) /\ ~(pc'[t] = "unlock" /\ op'[t] = "lift")
              => LiftOf(t)'
BY DEF LiftOf, In, Innermost, Tidy, Lifting

\* A thread that does not move.
LEMMA LiftStays ==
  ASSUME NEW u \in Threads, LiftOf(u), issued \subseteq issued',
         pc'[u] = pc[u], op'[u] = op[u], handle'[u] = handle[u], impl'[u] = impl[u],
         frames'[u] = frames[u]
  PROVE  LiftOf(u)'
BY DEF LiftOf, In, Innermost

\* A second holder keeps an object from being destroyed.
LEMMA TwoHold ==
  ASSUME AliveWhileHeld, Finitely, NEW t \in Threads, NEW j \in Impls, impl[t] = j,
         EntriesOf(j) # {} \/ FramesOf(j) # {}
  PROVE  refs[j] # 1
  <1>1. CallsOf(j) # {}
    BY DEF CallsOf
  <1>2. Holders(j) > 1
    BY <1>1, HolderCounts, HoldersAre, HolderTypes
  <1> QED BY <1>2, HolderTypes DEF AliveWhileHeld

\* What the other threads see of a thread's step.
Aside(t) ==
  /\ issued \subseteq issued'
  /\ \A u \in Threads \ {t} :
       /\ pc'[u] = pc[u] /\ op'[u] = op[u] /\ handle'[u] = handle[u] /\ impl'[u] = impl[u]
       /\ frames'[u] = frames[u]

\* A step of t that leaves the other threads aside preserves their lifts.
LEMMA AsideLift ==
  ASSUME LiftInv, NEW t \in Threads, Aside(t), LiftOf(t)'
  PROVE  LiftInv'
BY LiftStays DEF Aside, LiftInv

\* User code runs outside of lifts, and leaves none.
LEMMA UserLift ==
  ASSUME TypeOK, LiftInv, NEW t \in Threads,
         \/ \E i \in Impls : Create(t, i) \/ Forget(t, i) \/ CallInsert(t, i)
         \/ \E h \in Handles : CallClone(t, h) \/ CallErase(t, h) \/ CallLift(t, h) \/ CallMethod(t, h)
         \/ MethodReturn(t) \/ DtorReturn(t)
  PROVE  LiftInv'
  <1>0. frames[t] \in Seq(Frames) /\ LiftOf(t) /\ Tidy(frames[t])
    BY LiftOfStack DEF TypeOK, LiftInv
  <1>1. ASSUME NEW i \in Impls, Create(t, i) PROVE LiftInv'
    BY <1>0, <1>1, LiftStays, AsideLift DEF Create, callVars, Aside
  <1>2. ASSUME NEW i \in Impls, Forget(t, i) PROVE LiftInv'
    <2>1. /\ UNCHANGED <<pc, op, handle, impl, issued>> /\ Drop(t, i, frames[t]) /\ pc[t] = "user"
      BY <1>2 DEF Forget, callVars
    <2>2. ~Lifting(frames[t]) /\ impl[t] = None
      BY <1>0, <2>1, LiftOfStack DEF LiftOf
    <2>3. Tidy(frames'[t]) /\ ~Lifting(frames'[t]) /\ Aside(t)
      BY <1>0, <2>1, <2>2, DropTidy, DropHold DEF Aside
    <2> QED BY <2>1, <2>2, <2>3, LiftOfStack, AsideLift
  <1>3. ASSUME Beginning(t), UNCHANGED frames PROVE LiftInv'
    <2>1. pc[t] = "user" /\ pc'[t] = "lock" /\ Aside(t)
      BY <1>3 DEF Beginning, Begin, Goto, Aside, TypeOK
    <2>2. Tidy(frames'[t]) /\ ~Lifting(frames'[t])
      BY <1>0, <1>3, <2>1, LiftOfStack DEF LiftOf
    <2> QED BY <2>1, <2>2, LiftOfStack, AsideLift
  <1>4. ASSUME NEW i \in Impls, CallInsert(t, i) PROVE LiftInv'
    BY <1>3, <1>4 DEF CallInsert, Share, Beginning
  <1>5. ASSUME NEW h \in Handles,
               CallClone(t, h) \/ CallErase(t, h) \/ CallLift(t, h) \/ CallMethod(t, h)
        PROVE LiftInv'
    BY <1>3, <1>5, CallByHandle DEF Beginning
  <1>6. CASE MethodReturn(t) \/ DtorReturn(t)
    <2>1. /\ UNCHANGED <<pc, op, handle, impl, issued>> /\ pc[t] = "user" /\ frames[t] # <<>>
      BY <1>6 DEF MethodReturn, DtorReturn, In, callVars
    <2>2. Innermost(t).obj \in Impls /\ Outer(t) \in Seq(Frames) /\ impl[t] = None
      BY <1>0, <2>1, OuterFrames DEF Innermost, Outer, Frames, LiftOf
    <2>3. Tidy(Outer(t)) /\ ~Lifting(Outer(t))
      BY <1>0, <2>1, TidyOuter DEF Outer
    <2>4. Tidy(frames'[t]) /\ ~Lifting(frames'[t]) /\ Aside(t)
      <3>1. CASE MethodReturn(t)
        <4>1. Drop(t, Innermost(t).obj, Outer(t))
          BY <3>1 DEF MethodReturn
        <4> QED BY <4>1, <2>1, <2>2, <2>3, DropTidy, DropHold DEF Aside
      <3>2. CASE DtorReturn(t)
        <4>1. frames' = [frames EXCEPT ![t] = Outer(t)]
          BY <3>2 DEF DtorReturn
        <4> QED BY <4>1, <2>1, <2>3 DEF Aside, TypeOK
      <3> QED BY <1>6, <3>1, <3>2
    <2> QED BY <2>1, <2>2, <2>4, LiftOfStack, AsideLift
  <1> QED BY <1>1, <1>2, <1>4, <1>5, <1>6

\* A lift's erase finds the object of its frame, or nothing.
LEMMA AccessLift ==
  ASSUME IInv, AliveWhileHeld, LiftInv, Finitely, NEW t \in Threads,
         Acquire(t) \/ Look(t) \/ LookMiss(t) \/ Take(t) \/ Store(t) \/ Bump(t) \/ Remove(t)
  PROVE  LiftInv'
  <1>0. TypeOK /\ CallInv /\ HandleInv /\ LiftOf(t)
    BY DEF IInv, LiftInv
  <1>1. CASE Acquire(t)
    <2>1. /\ UNCHANGED <<op, handle, impl, frames, issued>> /\ pc[t] = "lock"
          /\ pc' = [pc EXCEPT ![t] = IF op[t] = "insert" THEN "take" ELSE "look"]
      BY <1>1 DEF Acquire, Goto, objVars
    <2>2. pc'[t] \in {"take", "look"} /\ (op[t] = "erase" => pc'[t] = "look") /\ Aside(t)
      BY <1>0, <2>1 DEF Aside, TypeOK
    <2>3. LiftOf(t)'
      BY <1>0, <2>1, <2>2 DEF LiftOf, In, Innermost
    <2> QED BY <2>2, <2>3, AsideLift
  <1>2. CASE Look(t)
    <2> DEFINE j == map[handle[t]]
    <2>1. /\ UNCHANGED <<op, handle, frames, issued>> /\ pc[t] = "look" /\ handle[t] \in DOMAIN map
          /\ pc' = [pc EXCEPT ![t] = AfterLook(t)] /\ impl' = [impl EXCEPT ![t] = j]
      BY <1>2 DEF Look, Goto, Share
    <2>2. /\ pc'[t] = AfterLook(t) /\ impl'[t] = j /\ Aside(t)
      BY <1>0, <2>1 DEF Aside, TypeOK
    <2>3. <<handle[t], j>> \in issued
      BY <1>0, <2>1 DEF HandleInv
    <2> HIDE DEF j
    <2>4. In(t, "lift") => j = Innermost(t).obj
      <3> SUFFICES ASSUME In(t, "lift") PROVE j = Innermost(t).obj
        OBVIOUS
      <3> DEFINE o == Innermost(t).obj
      <3>1. <<handle[t], o>> \in issued
        BY <1>0, <2>1 DEF LiftOf
      <3> HIDE DEF o
      <3>2. <<handle[t], o>>[1] = <<handle[t], j>>[1]
        OBVIOUS
      <3>3. <<handle[t], o>> = <<handle[t], j>>
        BY <1>0, <2>3, <3>1, <3>2 DEF HandleInv
      <3> QED BY <3>3 DEF o
    <2>5. LiftOf(t)'
      BY <1>0, <2>1, <2>2, <2>3, <2>4 DEF LiftOf, In, Innermost, AfterLook
    <2> QED BY <2>2, <2>5, AsideLift
  <1>3. CASE LookMiss(t)
    <2>1. /\ UNCHANGED <<op, handle, impl, frames, issued>> /\ pc[t] = "look"
          /\ pc' = [pc EXCEPT ![t] = "unlock"]
      BY <1>3 DEF LookMiss, Goto, objVars
    <2>2. pc'[t] = "unlock" /\ impl[t] = None /\ Aside(t)
      BY <1>0, <2>1 DEF Aside, TypeOK, CallInv
    <2>3. LiftOf(t)'
      BY <1>0, <2>1, <2>2 DEF LiftOf, In, Innermost
    <2> QED BY <2>2, <2>3, AsideLift
  <1>4. CASE Take(t) \/ Store(t) \/ Bump(t)
    <2>1. /\ UNCHANGED <<op, handle, impl, frames>> /\ issued \subseteq issued'
          /\ pc[t] \in {"take", "store", "bump"}
          /\ pc' = [pc EXCEPT ![t] = "store"] \/ pc' = [pc EXCEPT ![t] = "bump"]
             \/ pc' = [pc EXCEPT ![t] = "unlock"]
      BY <1>4 DEF Take, Store, Bump, Goto, Share, objVars
    <2>2. pc'[t] \in {"store", "bump", "unlock"} /\ Aside(t)
      BY <1>0, <2>1 DEF Aside, TypeOK
    <2>3. op[t] # "lift"
      BY <1>0, <2>1 DEF CallInv
    <2>4. LiftOf(t)'
      BY <1>0, <2>1, <2>2, <2>3 DEF LiftOf, In, Innermost
    <2> QED BY <2>2, <2>4, AsideLift
  <1>5. CASE Remove(t)
    <2> DEFINE j == map[handle[t]]
    <2>1. /\ UNCHANGED <<op, handle, impl, issued>> /\ pc[t] = "remove"
          /\ pc' = [pc EXCEPT ![t] = "unlock"] /\ Drop(t, j, frames[t])
      BY <1>5 DEF Remove, Goto
    <2>2. handle[t] \in DOMAIN map /\ impl[t] = j /\ j \in Impls /\ op[t] = "erase"
      BY <1>0, <2>1 DEF CallInv, TypeOK
    <2>3. handle[t] \in EntriesOf(j)
      BY <2>2 DEF EntriesOf
    <2>4. refs[j] # 1
      BY <2>2, <2>3, TwoHold
    <2>5. UNCHANGED frames
      <3>1. frames' = [frames EXCEPT ![t] = frames[t]]
        BY <2>1, <2>4 DEF Drop
      <3> QED BY <1>0, <3>1 DEF TypeOK
    <2>6. pc'[t] = "unlock" /\ Aside(t)
      BY <1>0, <2>1, <2>5 DEF Aside, TypeOK
    <2>7. LiftOf(t)'
      BY <1>0, <2>1, <2>2, <2>5, <2>6 DEF LiftOf, In, Innermost
    <2> QED BY <2>6, <2>7, AsideLift
  <1> QED BY <1>1, <1>2, <1>3, <1>4, <1>5

\* A lift begins when its at has returned and ends when it delivers.
LEMMA ReturnLifts ==
  ASSUME IInv, AliveWhileHeld, LiftInv, Finitely, NEW t \in Threads,
         ReturnMiss(t) \/ ReturnMethod(t) \/ ReturnDrop(t) \/ ReturnLift(t) \/ LiftErase(t) \/ LiftDeliver(t)
  PROVE  LiftInv'
  <1>0. TypeOK /\ CallInv /\ HandleInv /\ LiftOf(t) /\ frames[t] \in Seq(Frames) /\ Tidy(frames[t])
    BY LiftOfStack DEF IInv, LiftInv, TypeOK
  <1>1. CASE ReturnMiss(t)
    <2>1. /\ UNCHANGED <<frames, issued>> /\ pc[t] = "unlock"
          /\ pc' = [pc EXCEPT ![t] = Caller(t)] /\ op' = [op EXCEPT ![t] = "none"]
          /\ handle' = [handle EXCEPT ![t] = 0] /\ impl' = [impl EXCEPT ![t] = None]
      BY <1>1 DEF ReturnMiss, Leave, Goto, objVars
    <2>2. pc'[t] = Caller(t) /\ op'[t] = "none" /\ impl'[t] = None /\ Aside(t)
      BY <1>0, <2>1 DEF Aside, TypeOK
    <2>3. LiftOf(t)'
      BY <1>0, <2>1, <2>2 DEF LiftOf, In, Innermost, Caller
    <2> QED BY <2>2, <2>3, AsideLift
  <1>2. CASE ReturnMethod(t)
    <2> DEFINE f == [kind |-> "method", obj |-> impl[t]]
    <2>1. /\ UNCHANGED <<issued>> /\ pc[t] = "unlock" /\ op[t] = "at"
          /\ pc' = [pc EXCEPT ![t] = "user"] /\ op' = [op EXCEPT ![t] = "none"]
          /\ handle' = [handle EXCEPT ![t] = 0] /\ impl' = [impl EXCEPT ![t] = None]
          /\ frames' = [frames EXCEPT ![t] = Append(frames[t], f)] /\ impl[t] # None
      BY <1>2 DEF ReturnMethod, Leave, Goto, Enter
    <2>2. f \in Frames /\ f.kind # "lift"
      BY <1>0, <2>1 DEF Frames, TypeOK
    <2>3. ~Lifting(frames[t])
      BY <1>0, <2>1, LiftOfStack DEF LiftOf
    <2> HIDE DEF f
    <2>4. /\ pc'[t] = "user" /\ op'[t] = "none" /\ impl'[t] = None /\ Aside(t)
          /\ frames'[t] = Append(frames[t], f)
      BY <1>0, <2>1 DEF Aside, TypeOK
    <2>5. Tidy(frames'[t]) /\ ~Lifting(frames'[t])
      BY <1>0, <2>2, <2>3, <2>4, TidyAppend DEF Lifting
    <2> QED BY <2>4, <2>5, LiftOfStack, AsideLift
  <1>3. CASE ReturnDrop(t)
    <2>1. /\ UNCHANGED <<issued>> /\ pc[t] = "unlock" /\ impl[t] # None
          /\ op[t] \in {"insert", "clone", "erase"}
          /\ pc' = [pc EXCEPT ![t] = Caller(t)] /\ op' = [op EXCEPT ![t] = "none"]
          /\ handle' = [handle EXCEPT ![t] = 0] /\ impl' = [impl EXCEPT ![t] = None]
          /\ Drop(t, impl[t], frames[t])
      BY <1>3 DEF ReturnDrop, Leave, Goto
    <2>2. impl[t] \in Impls
      BY <1>0, <2>1 DEF TypeOK
    <2>3. /\ pc'[t] = Caller(t) /\ op'[t] = "none" /\ impl'[t] = None /\ Aside(t)
      BY <1>0, <2>1, <2>2, DropHold DEF Aside, TypeOK
    <2>4. CASE In(t, "lift")
      <3>1. impl[t] = Innermost(t).obj
        BY <1>0, <2>1, <2>4 DEF LiftOf
      <3>2. Len(frames[t]) \in DOMAIN frames[t]
        BY <1>0, <2>4 DEF In
      <3>3. Len(frames[t]) \in HoldingFrames(t, impl[t])
        BY <2>4, <3>1, <3>2 DEF HoldingFrames, In, Innermost
      <3>4. FramesOf(impl[t]) # {}
        <4>1. <<t, Len(frames[t])>> \in FramesOf(impl[t])
          BY <3>3 DEF FramesOf
        <4> QED BY <4>1
      <3>5. refs[impl[t]] # 1
        BY <2>2, <3>4, TwoHold
      <3>6. UNCHANGED frames
        <4>1. frames' = [frames EXCEPT ![t] = frames[t]]
          BY <2>1, <3>5 DEF Drop
        <4> QED BY <1>0, <4>1 DEF TypeOK
      <3>7. LiftOf(t)'
        BY <1>0, <2>3, <2>4, <3>6 DEF LiftOf, In, Innermost, Caller
      <3> QED BY <2>3, <3>7, AsideLift
    <2>5. CASE ~In(t, "lift")
      <3>1. Tidy(frames'[t]) /\ ~Lifting(frames'[t])
        BY <1>0, <2>1, <2>2, <2>5, DropTidy, LiftOfStack
      <3>2. pc'[t] = "user"
        BY <2>3, <2>5 DEF Caller
      <3> QED BY <2>3, <3>1, <3>2, LiftOfStack, AsideLift
    <2> QED BY <2>4, <2>5
  <1>4. CASE ReturnLift(t)
    <2> DEFINE f == [kind |-> "lift", obj |-> impl[t]]
    <2>1. /\ UNCHANGED <<issued, op, handle>> /\ pc[t] = "unlock" /\ op[t] = "lift"
          /\ pc' = [pc EXCEPT ![t] = "again"] /\ impl' = [impl EXCEPT ![t] = None]
          /\ frames' = [frames EXCEPT ![t] = Append(frames[t], f)] /\ impl[t] # None
      BY <1>4 DEF ReturnLift, Goto, Enter
    <2>2. f \in Frames /\ f.kind = "lift" /\ f.obj = impl[t] /\ <<handle[t], impl[t]>> \in issued
      BY <1>0, <2>1 DEF Frames, TypeOK, LiftOf
    <2>3. ~Lifting(frames[t])
      BY <1>0, <2>1, LiftOfStack DEF LiftOf
    <2> HIDE DEF f
    <2>4. /\ pc'[t] = "again" /\ impl'[t] = None /\ Aside(t)
          /\ frames'[t] = Append(frames[t], f)
      BY <1>0, <2>1 DEF Aside, TypeOK
    <2>5. Tidy(frames'[t]) /\ frames'[t] # <<>> /\ frames'[t][Len(frames'[t])] = f
      BY <1>0, <2>2, <2>3, <2>4, TidyAppend
    <2>6. LiftOf(t)'
      BY SMTT(30), <2>1, <2>2, <2>4, <2>5 DEF LiftOf, In, Innermost, Tidy
    <2> QED BY <2>4, <2>6, AsideLift
  <1>5. CASE LiftErase(t)
    <2>1. /\ UNCHANGED <<handle, impl, frames, issued>> /\ pc[t] = "again"
          /\ pc' = [pc EXCEPT ![t] = "lock"] /\ op' = [op EXCEPT ![t] = "erase"]
      BY <1>5 DEF LiftErase, Goto, objVars
    <2>2. pc'[t] = "lock" /\ op'[t] = "erase" /\ Aside(t)
      BY <1>0, <2>1 DEF Aside, TypeOK
    <2>3. LiftOf(t)'
      BY <1>0, <2>1, <2>2 DEF LiftOf, In, Innermost
    <2> QED BY <2>2, <2>3, AsideLift
  <1>6. CASE LiftDeliver(t)
    <2>1. /\ UNCHANGED <<op, handle, impl, issued>> /\ pc[t] = "deliver"
          /\ pc' = [pc EXCEPT ![t] = "user"]
          /\ Drop(t, Innermost(t).obj, Outer(t)) \/ frames' = [frames EXCEPT ![t] = Outer(t)]
      BY <1>6 DEF LiftDeliver, Goto
    <2>2. frames[t] # <<>> /\ impl[t] = None
      BY <1>0, <2>1 DEF LiftOf, In
    <2>3. Innermost(t).obj \in Impls /\ Outer(t) \in Seq(Frames)
      BY <1>0, <2>2, OuterFrames DEF Innermost, Outer, Frames
    <2>4. Tidy(Outer(t)) /\ ~Lifting(Outer(t))
      BY <1>0, <2>2, TidyOuter DEF Outer
    <2>5. /\ Tidy(frames'[t]) /\ ~Lifting(frames'[t])
          /\ \A u \in Threads \ {t} : frames'[u] = frames[u]
      <3>1. CASE Drop(t, Innermost(t).obj, Outer(t))
        BY <1>0, <3>1, <2>3, <2>4, DropTidy, DropHold
      <3>2. CASE frames' = [frames EXCEPT ![t] = Outer(t)]
        BY <1>0, <3>2, <2>4 DEF TypeOK
      <3> QED BY <2>1, <3>1, <3>2
    <2>6. pc'[t] = "user" /\ impl'[t] = None /\ Aside(t)
      BY <1>0, <2>1, <2>2, <2>5 DEF Aside, TypeOK
    <2> QED BY <2>5, <2>6, LiftOfStack, AsideLift
  <1> QED BY <1>1, <1>2, <1>3, <1>4, <1>5, <1>6
-----------------------------------------------------------------------------
\* The destructors on a stack s run on objects that have ended by l.
Ended(s, l) == \A n \in DOMAIN s : s[n].kind = "dtor" => l[s[n].obj] \in {"dying", "dead"}

\* The destructors of a stack run on objects that have ended.
LEMMA EndedAppend ==
  ASSUME NEW s \in Seq(Frames), NEW f \in Frames, NEW l, Ended(s, l),
         f.kind = "dtor" => l[f.obj] \in {"dying", "dead"}
  PROVE  Ended(Append(s, f), l)
  <1>1. /\ DOMAIN Append(s, f) = DOMAIN s \cup {Len(s) + 1} /\ Append(s, f)[Len(s) + 1] = f
        /\ \A n \in DOMAIN s : Append(s, f)[n] = s[n]
    OBVIOUS
  <1> QED BY <1>1 DEF Ended

\* A destructor that returns leaves those of the outer frames.
LEMMA EndedOuter ==
  ASSUME NEW s \in Seq(Frames), s # <<>>, NEW l, Ended(s, l)
  PROVE  Ended(SubSeq(s, 1, Len(s) - 1), l)
  <1>1. /\ DOMAIN SubSeq(s, 1, Len(s) - 1) = DOMAIN s \ {Len(s)}
        /\ \A n \in DOMAIN s \ {Len(s)} : SubSeq(s, 1, Len(s) - 1)[n] = s[n]
    OBVIOUS
  <1> QED BY <1>1 DEF Ended

\* What has ended stays so.
Final == \A i \in Impls : life[i] \in {"dying", "dead"} => life'[i] \in {"dying", "dead"}

\* What has ended stays so, and so do the destructors of a stack.
LEMMA FinalEnded ==
  ASSUME NEW s \in Seq(Frames), Ended(s, life), Final
  PROVE  Ended(s, life')
  <1>1. \A n \in DOMAIN s : s[n] \in Frames
    OBVIOUS
  <1>2. \A f \in Frames : f.obj \in Impls
    BY DEF Frames
  <1> QED BY <1>1, <1>2 DEF Ended, Final

\* Drop starts a destructor on what it ends only.
LEMMA DropEnded ==
  ASSUME TypeOK, NEW t \in Threads, NEW j \in Impls, NEW base \in Seq(Frames), Drop(t, j, base),
         Ended(base, life)
  PROVE  Final /\ Ended(frames'[t], life') /\ \A u \in Threads \ {t} : frames'[u] = frames[u]
  <1> DEFINE f == [kind |-> "dtor", obj |-> j]
  <1>1. f \in Frames /\ f.obj = j
    BY DEF Frames
  <1> HIDE DEF f
  <1>2. Final
    BY DEF Drop, TypeOK, Final
  <1>3. CASE refs[j] = 1
    <2>1. life'[j] = "dying" /\ frames'[t] = Append(base, f)
      BY <1>3 DEF Drop, TypeOK, f
    <2> QED BY <1>1, <1>2, <2>1, FinalEnded, EndedAppend, DropHold
  <1>4. CASE refs[j] # 1
    <2>1. frames'[t] = base
      BY <1>4 DEF Drop, TypeOK
    <2> QED BY <1>2, <2>1, FinalEnded, DropHold
  <1> QED BY <1>3, <1>4

\* DtorInv, of the stacks as a whole.
LEMMA DtorIs == DtorInv <=> \A t \in Threads : Ended(frames[t], life)
BY DEF DtorInv, Ended

\* The stack that changes and those that do not.
LEMMA EndedKeeps ==
  ASSUME TypeOK, DtorInv, Final, NEW t \in Threads, Ended(frames'[t], life'),
         \A u \in Threads \ {t} : frames'[u] = frames[u]
  PROVE  DtorInv'
  <1>1. ASSUME NEW u \in Threads \ {t} PROVE Ended(frames'[u], life')
    <2>1. frames[u] \in Seq(Frames) /\ Ended(frames[u], life)
      BY DtorIs DEF TypeOK
    <2> QED BY <2>1, FinalEnded
  <1>2. \A u \in Threads : Ended(frames'[u], life')
    BY <1>1
  <1> QED BY <1>2 DEF Ended, DtorInv

\* Nothing that has ended is made again, and a destructor runs on what ends.
LEMMA DtorStep ==
  ASSUME IInv, LiftInv, DtorInv, [Next]_vars
  PROVE  DtorInv'
  <1>0. TypeOK /\ CallInv /\ \A t \in Threads : frames[t] \in Seq(Frames) /\ Ended(frames[t], life)
    BY DtorIs DEF IInv, TypeOK
  <1>1. ASSUME UNCHANGED <<frames, life>> PROVE DtorInv'
    BY <1>1 DEF DtorInv
  <1>2. ASSUME NEW t \in Threads, NEW j \in Impls, NEW base \in Seq(Frames), Drop(t, j, base),
               Ended(base, life)
        PROVE  DtorInv'
    BY <1>0, <1>2, DropEnded, EndedKeeps
  <1>3. ASSUME NEW t \in Threads, frames[t] # <<>>
        PROVE  Innermost(t).obj \in Impls /\ Outer(t) \in Seq(Frames) /\ Ended(Outer(t), life)
    BY <1>0, <1>3, OuterFrames, EndedOuter DEF Innermost, Outer, Frames
  <1>4. ASSUME NEW t \in Threads, NEW i \in Impls, Create(t, i) PROVE DtorInv'
    <2>1. UNCHANGED frames /\ Final
      BY <1>0, <1>4 DEF Create, Final, TypeOK
    <2>2. Ended(frames'[t], life')
      BY <1>0, <2>1, FinalEnded
    <2> QED BY <1>0, <2>1, <2>2, EndedKeeps
  <1>5. ASSUME NEW t \in Threads, NEW i \in Impls, Forget(t, i) PROVE DtorInv'
    BY <1>0, <1>2, <1>5 DEF Forget
  <1>6. ASSUME NEW t \in Threads, MethodReturn(t) PROVE DtorInv'
    BY <1>2, <1>3, <1>6 DEF MethodReturn, In
  <1>7. ASSUME NEW t \in Threads, DtorReturn(t) PROVE DtorInv'
    <2>1. /\ frames[t] # <<>> /\ frames' = [frames EXCEPT ![t] = Outer(t)]
          /\ life' = [life EXCEPT ![Innermost(t).obj] = "dead"]
      BY <1>7 DEF DtorReturn, In
    <2>2. Final /\ frames'[t] = Outer(t) /\ \A u \in Threads \ {t} : frames'[u] = frames[u]
      BY <1>0, <2>1 DEF Final, TypeOK
    <2>3. Ended(frames'[t], life')
      BY <1>3, <2>1, <2>2, FinalEnded
    <2> QED BY <1>0, <2>2, <2>3, EndedKeeps
  <1>8. ASSUME NEW t \in Threads, NEW i \in Impls, CallInsert(t, i) PROVE DtorInv'
    BY <1>1, <1>8 DEF CallInsert, Share
  <1>9. ASSUME NEW t \in Threads, NEW h \in Handles,
               CallClone(t, h) \/ CallErase(t, h) \/ CallLift(t, h) \/ CallMethod(t, h)
        PROVE DtorInv'
    BY <1>1, <1>9, CallByHandle
  <1>10. ASSUME NEW t \in Threads,
                Acquire(t) \/ Look(t) \/ LookMiss(t) \/ Take(t) \/ Store(t) \/ Bump(t)
                \/ ReturnMiss(t) \/ LiftErase(t)
         PROVE  DtorInv'
    BY <1>1, <1>10 DEF Acquire, Look, LookMiss, Take, Store, Bump, ReturnMiss, LiftErase, Share, objVars
  <1>11. ASSUME NEW t \in Threads, Remove(t) PROVE DtorInv'
    <2>1. map[handle[t]] \in Impls
      BY <1>0, <1>11 DEF Remove, Goto, CallInv, TypeOK
    <2> QED BY <1>0, <1>2, <1>11, <2>1 DEF Remove
  <1>12. ASSUME NEW t \in Threads, ReturnMethod(t) \/ ReturnLift(t) PROVE DtorInv'
    <2>1. PICK kind \in {"method", "lift"} : Enter(t, kind, impl[t])
      BY <1>12 DEF ReturnMethod, ReturnLift
    <2>2. impl[t] \in Impls /\ UNCHANGED life
      BY <1>0, <1>12 DEF ReturnMethod, ReturnLift, TypeOK
    <2> DEFINE f == [kind |-> kind, obj |-> impl[t]]
    <2>3. f \in Frames /\ f.kind # "dtor"
      BY <2>2 DEF Frames
    <2>4. frames' = [frames EXCEPT ![t] = Append(frames[t], f)]
      BY <2>1 DEF Enter
    <2> HIDE DEF f
    <2>5. frames'[t] = Append(frames[t], f) /\ \A u \in Threads \ {t} : frames'[u] = frames[u]
      BY <1>0, <2>4 DEF TypeOK
    <2>6. Ended(frames'[t], life')
      BY <1>0, <2>2, <2>3, <2>5, EndedAppend
    <2> QED BY <1>0, <2>2, <2>5, <2>6, EndedKeeps DEF Final
  <1>13. ASSUME NEW t \in Threads, ReturnDrop(t) PROVE DtorInv'
    <2>1. impl[t] \in Impls
      BY <1>0, <1>13 DEF ReturnDrop, TypeOK
    <2> QED BY <1>0, <1>2, <1>13, <2>1 DEF ReturnDrop
  <1>14. ASSUME NEW t \in Threads, LiftDeliver(t) PROVE DtorInv'
    <2>1. frames[t] # <<>>
      BY <1>0, <1>14 DEF LiftDeliver, Goto, CallInv
    <2>2. CASE Drop(t, Innermost(t).obj, Outer(t))
      BY <1>2, <1>3, <2>1, <2>2
    <2>3. CASE frames' = [frames EXCEPT ![t] = Outer(t)] /\ UNCHANGED life
      <3>1. Final /\ frames'[t] = Outer(t) /\ \A u \in Threads \ {t} : frames'[u] = frames[u]
        BY <1>0, <2>3 DEF Final, TypeOK
      <3> QED BY <1>0, <1>3, <2>1, <2>3, <3>1, EndedKeeps
    <2> QED BY <1>14, <2>2, <2>3 DEF LiftDeliver
  <1>15. CASE UNCHANGED vars
    BY <1>1, <1>15 DEF vars, objVars
  <1> QED
    BY <1>4, <1>5, <1>6, <1>7, <1>8, <1>9, <1>10, <1>11, <1>12, <1>13, <1>14, <1>15
       DEF Next, MapStep, UserStep
-----------------------------------------------------------------------------
\* Every step preserves the three parts together.
LEMMA HoldStep ==
  ASSUME IInv, HoldInv, Finitely, [Next]_vars
  PROVE  HoldInv' /\ Finitely'
  <1>0. TypeOK /\ CallInv /\ AliveWhileHeld /\ LiftInv /\ DtorInv
    BY DEF IInv, HoldInv
  <1>1. DtorInv'
    BY <1>0, DtorStep
  <1>2. CASE Next
    <2> PICK t \in Threads : MapStep(t) \/ Acquire(t) \/ UserStep(t)
      BY <1>2 DEF Next
    <2>1. CASE Acquire(t) \/ Look(t) \/ LookMiss(t) \/ Take(t) \/ Store(t) \/ Bump(t) \/ Remove(t)
      <3>1. AliveWhileHeld' /\ Finitely'
        BY <1>0, <2>1, AccessHolds
      <3>2. LiftInv'
        BY <1>0, <2>1, AccessLift
      <3> QED BY <1>1, <3>1, <3>2 DEF HoldInv
    <2>2. CASE ReturnMiss(t) \/ ReturnMethod(t) \/ ReturnDrop(t) \/ ReturnLift(t)
               \/ LiftErase(t) \/ LiftDeliver(t)
      <3>1. AliveWhileHeld' /\ Finitely'
        BY <1>0, <2>2, ReturnHolds
      <3>2. LiftInv'
        BY <1>0, <2>2, ReturnLifts
      <3> QED BY <1>1, <3>1, <3>2 DEF HoldInv
    <2>3. CASE UserStep(t)
      <3>1. ASSUME \/ \E i \in Impls : Create(t, i) \/ Forget(t, i) \/ CallInsert(t, i)
                   \/ MethodReturn(t) \/ DtorReturn(t)
            PROVE  AliveWhileHeld' /\ Finitely' /\ LiftInv'
        <4>1. AliveWhileHeld' /\ Finitely'
          BY <1>0, <3>1, UserHolds
        <4>2. LiftInv'
          BY <1>0, <3>1, UserLift
        <4> QED BY <4>1, <4>2
      <3>2. ASSUME \E h \in Handles :
                     CallClone(t, h) \/ CallErase(t, h) \/ CallLift(t, h) \/ CallMethod(t, h)
            PROVE  AliveWhileHeld' /\ Finitely' /\ LiftInv'
        <4>1. AliveWhileHeld' /\ Finitely'
          BY <1>0, <3>2, AccessHolds
        <4>2. LiftInv'
          BY <1>0, <3>2, UserLift
        <4> QED BY <4>1, <4>2
      <3>3. AliveWhileHeld' /\ Finitely' /\ LiftInv'
        BY <2>3, <3>1, <3>2 DEF UserStep
      <3> QED BY <1>1, <3>3 DEF HoldInv
    <2> QED BY <2>1, <2>2, <2>3 DEF MapStep
  <1>3. CASE UNCHANGED vars
    <2>1. UNCHANGED <<map, frames, app, refs, life, impl, pc, op, handle, issued>>
      BY <1>3 DEF vars, lockVars, callVars, objVars
    <2>2. AliveWhileHeld'
      BY <1>0, <2>1 DEF AliveWhileHeld, Holders, HoldingFrames
    <2>3. Finitely'
      BY <2>1 DEF Finitely, FramesOf, HoldingFrames
    <2>4. LiftInv'
      BY <1>0, <2>1 DEF LiftInv, LiftOf, In, Innermost
    <2> QED BY <1>1, <2>2, <2>3, <2>4 DEF HoldInv
  <1> QED BY <1>2, <1>3

\* At first nobody holds anything.
LEMMA HoldInit == Init => HoldInv /\ Finitely
  <1> SUFFICES ASSUME Init PROVE HoldInv /\ Finitely
    OBVIOUS
  <1>1. ASSUME NEW i \in Impls
        PROVE  EntriesOf(i) = {} /\ CallsOf(i) = {} /\ FramesOf(i) = {} /\ i \notin app
    BY HandleMapAssumption DEF Init, EntriesOf, CallsOf, FramesOf, HoldingFrames
  <1>2. \A i \in Impls : Holders(i) = 0
    <2> SUFFICES ASSUME NEW i \in Impls PROVE Holders(i) = 0
      OBVIOUS
    <2>1. Holders(i) = Cardinality({}) + Cardinality({}) + Cardinality({}) + 0
      BY <1>1, HoldersAre DEF One
    <2> QED BY <2>1, FS_EmptySet
  <1>3. AliveWhileHeld
    BY <1>2 DEF Init, AliveWhileHeld
  <1>4. LiftInv /\ DtorInv
    BY DEF Init, LiftInv, LiftOf, In, DtorInv
  <1>5. Finitely
    <2>1. DOMAIN map = {}
      BY DEF Init
    <2> QED BY <1>1, <2>1, FS_EmptySet DEF Finitely
  <1> QED BY <1>3, <1>4, <1>5 DEF HoldInv

\* Who holds an object, and where lifts and destructors are, is an invariant
\* too, for any threads, objects, handles and nesting.
THEOREM HoldInvariance == Spec => [](HoldInv /\ Finitely)
  <1>1. IInv /\ HoldInv /\ Finitely /\ [Next]_vars => HoldInv' /\ Finitely'
    BY HoldStep
  <1> QED BY <1>1, HoldInit, Invariance, PTL DEF Spec

\* An object lives exactly as long as an entry of the map, a call, a method or
\* the application holds it.
THEOREM HeldLive == Spec => []AliveWhileHeld
  <1>1. HoldInv => AliveWhileHeld
    BY DEF HoldInv
  <1> QED BY <1>1, HoldInvariance, PTL
-----------------------------------------------------------------------------
\* HandleMap implements HandleTable.  First, how many insertions are under way.
LEMMA InsertingFinite == IsFiniteSet(Inserting) /\ Cardinality(Inserting) \in Nat
  <1>1. Inserting \subseteq Threads
    BY DEF Inserting
  <1> QED BY <1>1, HandleMapAssumption, FS_Subset, FS_CardinalityType

\* One thread begins an insertion, or none does: what Inserting may become.
LEMMA InsertingSteps ==
  ASSUME NEW S, S \subseteq Threads, NEW t \in Threads
  PROVE  /\ S = Inserting \cup {t} => Cardinality(S) <= Cardinality(Inserting) + 1
         /\ S \subseteq Inserting => Cardinality(S) <= Cardinality(Inserting)
         /\ S = Inserting \ {t} /\ t \in Inserting
              => Cardinality(S) = Cardinality(Inserting) - 1
         /\ Cardinality(S) \in Nat
  <1>1. IsFiniteSet(S) /\ Cardinality(S) \in Nat
    BY HandleMapAssumption, FS_Subset, FS_CardinalityType
  <1>2. S = Inserting \cup {t} => Cardinality(S) <= Cardinality(Inserting) + 1
    <2>1. Cardinality(Inserting \cup {t})
            = IF t \in Inserting THEN Cardinality(Inserting) ELSE Cardinality(Inserting) + 1
      BY InsertingFinite, FS_AddElement
    <2> QED BY <2>1, InsertingFinite
  <1>3. S \subseteq Inserting => Cardinality(S) <= Cardinality(Inserting)
    BY InsertingFinite, FS_Subset
  <1>4. S = Inserting \ {t} /\ t \in Inserting
          => Cardinality(S) = Cardinality(Inserting) - 1
    <2>1. Cardinality(Inserting \ {t})
            = IF t \in Inserting THEN Cardinality(Inserting) - 1 ELSE Cardinality(Inserting)
      BY InsertingFinite, FS_RemoveElement
    <2> QED BY <2>1
  <1> QED BY <1>1, <1>2, <1>3, <1>4

\* A thread that is about to store has room for its handle.
LEMMA RoomToStore ==
  ASSUME IInv, PendingInv, NEW t \in Threads, pc[t] = "store"
  PROVE  cur_handle \in Handles
  <1>1. t \in Inserting
    BY DEF Inserting, IInv, CallInv
  <1>2. Cardinality(Inserting) > 0
    BY <1>1, InsertingFinite, FS_EmptySet
  <1>3. cur_handle \in Nat /\ cur_handle % 2 = 1
    BY DEF IInv, TypeOK, HandleInv
  <1> QED BY <1>2, <1>3, InsertingFinite, HandleMapAssumption DEF Handles, PendingInv

\* A step of t leaves the calls of the other threads alone.
LEMMA OthersKeepTheirCalls ==
  ASSUME TypeOK, NEW t \in Threads, MapStep(t) \/ Acquire(t) \/ Beginning(t) \/ Outside(t)
  PROVE  \A u \in Threads \ {t} :
           /\ pc'[u] = pc[u] /\ op'[u] = op[u] /\ handle'[u] = handle[u]
           /\ slot'[u] = slot[u] /\ impl'[u] = impl[u]
  <1> USE DEF TypeOK, Goto
  <1>1. CASE Look(t) \/ LookMiss(t) \/ Take(t) \/ Store(t) \/ Bump(t) \/ Remove(t)
    BY <1>1 DEF Look, LookMiss, Take, Store, Bump, Remove
  <1>2. CASE ReturnMiss(t) \/ ReturnMethod(t) \/ ReturnDrop(t)
    BY <1>2 DEF ReturnMiss, ReturnMethod, ReturnDrop, Leave
  <1>3. CASE ReturnLift(t) \/ LiftErase(t) \/ LiftDeliver(t) \/ Acquire(t)
    BY <1>3 DEF ReturnLift, LiftErase, LiftDeliver, Acquire
  <1>4. CASE Beginning(t) \/ Outside(t)
    BY <1>4 DEF Beginning, Begin, Outside
  <1> QED BY <1>1, <1>2, <1>3, <1>4 DEF MapStep

\* The bound is kept: who begins an insertion has found room for it.
LEMMA RoomStep ==
  ASSUME IInv, PendingInv, Next
  PROVE  cur_handle' + 2 * Cardinality(Inserting') <= MaxHandle + 2
  <1> DEFINE S == Inserting'
  <1>1. S \subseteq Threads
    BY DEF Inserting
  <1>2. cur_handle \in Nat /\ cur_handle + 2 * Cardinality(Inserting) <= MaxHandle + 2
    BY DEF IInv, TypeOK, PendingInv
  <1>3. ASSUME NEW t \in Threads, MapStep(t) \/ Acquire(t), ~Bump(t)
        PROVE  cur_handle' = cur_handle /\ S \subseteq Inserting
    <2> USE DEF Goto, lockVars, IInv, TypeOK
    <2>1. cur_handle' = cur_handle
      BY <1>3 DEF MapStep, Look, LookMiss, Take, Store, Remove, ReturnMiss, ReturnMethod,
                  ReturnDrop, ReturnLift, LiftErase, LiftDeliver, Leave, Acquire
    <2>2. t \in S => t \in Inserting
      <3>1. CASE Look(t)
        BY <3>1 DEF Look, AfterLook, Inserting
      <3>2. CASE LookMiss(t) \/ Take(t) \/ Store(t) \/ Remove(t) \/ Acquire(t)
        BY <3>2 DEF LookMiss, Take, Store, Remove, Acquire, Inserting
      <3>3. CASE ReturnMiss(t) \/ ReturnMethod(t) \/ ReturnDrop(t)
        BY <3>3 DEF ReturnMiss, ReturnMethod, ReturnDrop, Leave, Caller, Inserting
      <3>4. CASE ReturnLift(t) \/ LiftErase(t) \/ LiftDeliver(t)
        BY <3>4 DEF ReturnLift, LiftErase, LiftDeliver, Inserting
      <3> QED BY <1>3, <3>1, <3>2, <3>3, <3>4 DEF MapStep
    <2> QED BY SMTT(30), <1>3, <2>1, <2>2, OthersKeepTheirCalls DEF Inserting
  <1>4. ASSUME NEW t \in Threads, Bump(t)
        PROVE  cur_handle' = cur_handle + 2 /\ S = Inserting \ {t} /\ t \in Inserting
    <2>1. t \in Inserting /\ t \notin S /\ cur_handle' = cur_handle + 2
      BY <1>4 DEF Bump, Goto, Inserting, IInv, CallInv, TypeOK
    <2>2. MapStep(t)
      BY <1>4 DEF MapStep
    <2> QED BY <2>1, <2>2, OthersKeepTheirCalls DEF Inserting, IInv
  <1>5. ASSUME NEW t \in Threads, UserStep(t)
        PROVE  /\ cur_handle' = cur_handle
               /\ S \subseteq Inserting \/ (S = Inserting \cup {t} /\ Room)
    <2>1. CASE \E i \in Impls : CallInsert(t, i)
      <3>1. Room /\ Beginning(t) /\ cur_handle' = cur_handle
        BY <2>1 DEF CallInsert, Begin, Beginning, lockVars
      <3>2. t \in S
        BY <2>1 DEF CallInsert, Begin, Goto, Inserting, IInv, TypeOK
      <3> QED BY <3>1, <3>2, OthersKeepTheirCalls DEF Inserting, IInv
    <2>2. CASE \E h \in Handles : CallClone(t, h)
      <3>0. Beginning(t)
        BY <2>2, CallByHandle DEF Beginning
      <3>1. Room /\ Beginning(t) /\ cur_handle' = cur_handle
        BY <2>2, <3>0 DEF CallClone, Begin, lockVars
      <3>2. t \in S
        BY <2>2 DEF CallClone, Begin, Goto, Inserting, IInv, TypeOK
      <3> QED BY <3>1, <3>2, OthersKeepTheirCalls DEF Inserting, IInv
    <2>3. CASE \E h \in Handles : CallErase(t, h) \/ CallLift(t, h) \/ CallMethod(t, h)
      <3>0. Beginning(t)
        BY <2>3, CallByHandle DEF Beginning
      <3>1. Beginning(t) /\ cur_handle' = cur_handle
        BY <3>0 DEF Begin, Beginning, lockVars
      <3>2. t \notin S
        BY <2>3 DEF CallErase, CallLift, CallMethod, Begin, Goto, Inserting, IInv, TypeOK
      <3> QED BY <3>1, <3>2, OthersKeepTheirCalls DEF Inserting, IInv
    <2>4. CASE \/ \E i \in Impls : Create(t, i) \/ Forget(t, i)
               \/ MethodReturn(t) \/ DtorReturn(t)
      <3>1. UNCHANGED <<pc, op, cur_handle>>
        BY <2>4 DEF Create, Forget, MethodReturn, DtorReturn, lockVars, callVars
      <3> QED BY <3>1 DEF Inserting
    <2> QED BY <1>5, <2>1, <2>2, <2>3, <2>4 DEF UserStep
  <1> HIDE DEF S
  <1>6. PICK t \in Threads : MapStep(t) \/ Acquire(t) \/ UserStep(t)
    BY DEF Next
  <1>7. CASE (MapStep(t) \/ Acquire(t)) /\ ~Bump(t)
    <2>1. cur_handle' = cur_handle /\ Cardinality(S) <= Cardinality(Inserting)
      BY <1>1, <1>3, <1>7, InsertingSteps
    <2> QED BY <1>1, <1>2, <2>1, InsertingSteps, InsertingFinite, HandleMapAssumption DEF S
  <1>8. CASE Bump(t)
    <2>1. cur_handle' = cur_handle + 2 /\ Cardinality(S) = Cardinality(Inserting) - 1
      BY <1>1, <1>4, <1>8, InsertingSteps
    <2> QED BY <1>2, <2>1, InsertingFinite, HandleMapAssumption DEF S
  <1>9. CASE UserStep(t)
    <2>1. cur_handle' = cur_handle
      BY <1>5, <1>9
    <2>2. CASE S \subseteq Inserting
      <3>1. Cardinality(S) <= Cardinality(Inserting) /\ Cardinality(S) \in Nat
        BY <1>1, <2>2, InsertingSteps
      <3> QED BY <1>2, <2>1, <3>1, InsertingFinite, HandleMapAssumption DEF S
    <2>3. CASE S = Inserting \cup {t} /\ Room
      <3>1. Cardinality(S) <= Cardinality(Inserting) + 1 /\ Cardinality(S) \in Nat
        BY <1>1, <2>3, InsertingSteps
      <3> QED BY <1>2, <2>1, <2>3, <3>1, InsertingFinite, HandleMapAssumption DEF S, Room
    <2> QED BY <1>5, <1>9, <2>2, <2>3
  <1> QED BY <1>6, <1>7, <1>8, <1>9

\* The operations are what the abstract calls take them for.
LEMMA PendingStep ==
  ASSUME IInv, PendingInv, [Next]_vars
  PROVE  PendingInv'
  <1> USE DEF Goto, Inside, IInv, TypeOK
  <1> DEFINE Ok(t) == /\ pc[t] \in Inside => op[t] # "none"
                      /\ pc[t] = "again" => op[t] = "lift"
                      /\ op[t] = "lift" => handle[t] \in Handles
  <1>1. CASE UNCHANGED vars
    BY <1>1 DEF vars, callVars, lockVars, PendingInv, Inserting
  <1>2. ASSUME NEW t \in Threads, MapStep(t) \/ Acquire(t) PROVE Ok(t)'
    <2>1. CASE Look(t) \/ LookMiss(t)
      BY <2>1 DEF Look, LookMiss, AfterLook, PendingInv
    <2>2. CASE Take(t) \/ Store(t) \/ Bump(t) \/ Remove(t)
      BY <2>2 DEF Take, Store, Bump, Remove, PendingInv
    <2>3. CASE ReturnMiss(t) \/ ReturnMethod(t) \/ ReturnDrop(t)
      BY <2>3 DEF ReturnMiss, ReturnMethod, ReturnDrop, Leave, Caller
    <2>4. CASE ReturnLift(t) \/ LiftErase(t) \/ LiftDeliver(t)
      BY <2>4 DEF ReturnLift, LiftErase, LiftDeliver, PendingInv
    <2>5. CASE Acquire(t)
      BY <2>5 DEF Acquire, CallInv, PendingInv
    <2> QED BY <1>2, <2>1, <2>2, <2>3, <2>4, <2>5 DEF MapStep
  <1>3. ASSUME NEW t \in Threads, UserStep(t) PROVE Ok(t)'
    <2>1. CASE \E i \in Impls : CallInsert(t, i)
      BY <2>1 DEF CallInsert, Begin
    <2>2. CASE \E h \in Handles :
                 CallClone(t, h) \/ CallErase(t, h) \/ CallLift(t, h) \/ CallMethod(t, h)
      BY <2>2 DEF CallClone, CallErase, CallLift, CallMethod, Begin
    <2>3. CASE \/ \E i \in Impls : Create(t, i) \/ Forget(t, i)
               \/ MethodReturn(t) \/ DtorReturn(t)
      BY <2>3 DEF Create, Forget, MethodReturn, DtorReturn, callVars, PendingInv
    <2> QED BY <1>3, <2>1, <2>2, <2>3 DEF UserStep
  <1>4. ASSUME NEW t \in Threads, MapStep(t) \/ Acquire(t) \/ UserStep(t)
        PROVE  \A u \in Threads \ {t} : Ok(u)'
    <2>1. MapStep(t) \/ Acquire(t) \/ Beginning(t) \/ UNCHANGED callVars
      <3>1. ASSUME NEW h \in Handles,
                   CallClone(t, h) \/ CallErase(t, h) \/ CallLift(t, h) \/ CallMethod(t, h)
            PROVE  Beginning(t)
        BY <3>1, CallByHandle DEF Beginning
      <3>2. ASSUME NEW i \in Impls, CallInsert(t, i) PROVE Beginning(t)
        BY <3>2 DEF CallInsert, Beginning
      <3> QED BY <1>4, <3>1, <3>2 DEF UserStep, Create, Forget, MethodReturn, DtorReturn
    <2>2. CASE UNCHANGED callVars
      BY <2>2 DEF callVars, PendingInv
    <2>3. CASE MapStep(t) \/ Acquire(t) \/ Beginning(t)
      BY <2>3, OthersKeepTheirCalls DEF PendingInv
    <2> QED BY <2>1, <2>2, <2>3
  <1>5. ASSUME Next PROVE PendingInv'
    <2>1. \A t \in Threads : Ok(t)'
      BY <1>2, <1>3, <1>4, <1>5 DEF Next
    <2> QED BY <1>5, <2>1, RoomStep DEF PendingInv
  <1> QED BY <1>1, <1>5
-----------------------------------------------------------------------------
(***************************************************************************)
(* The refinement.                                                         *)
(***************************************************************************)
\* A step of one thread changes, of all calls, that of the thread.
LEMMA OneCallChanges ==
  ASSUME TypeOK, NEW t \in Threads, MapStep(t) \/ Acquire(t) \/ Beginning(t) \/ Outside(t)
  PROVE  /\ \A u \in Threads \ {t} : Seen(u)' = Seen(u)
         /\ Pending' = [Pending EXCEPT ![t] = Seen(t)']
         /\ Seen(t)' = Seen(t) => Pending' = Pending
  <1>1. \A u \in Threads \ {t} : Seen(u)' = Seen(u)
    BY OthersKeepTheirCalls DEF Seen, Entered, Effected, Operation
  <1> QED BY <1>1 DEF Pending

LEMMA RequestFields ==
  ASSUME NEW o, NEW h, NEW i
  PROVE  /\ Request(o, h, i).op = o /\ Request(o, h, i).handle = h
         /\ Request(o, h, i).impl = i /\ ~Request(o, h, i).done
  BY DEF Request

\* Steps that the table does not see.
LEMMA SilentSteps ==
  ASSUME IInv, PendingInv, NEW t \in Threads,
         \/ Look(t) /\ op[t] \in {"clone", "erase"}
         \/ Take(t) \/ Bump(t) \/ LiftDeliver(t) \/ Acquire(t) \/ Outside(t)
  PROVE  UNCHANGED <<map, issued, Pending>>
  <1> USE DEF Goto, IInv, TypeOK, Seen, Entered, Effected, Operation, lockVars
  <1>1. UNCHANGED <<map, issued>> /\ Seen(t)' = Seen(t)
    <2>1. CASE Look(t) /\ op[t] \in {"clone", "erase"}
      BY <2>1, HandleMapAssumption DEF Look, AfterLook
    <2>2. CASE Take(t)
      BY <2>2 DEF Take
    <2>3. CASE Bump(t)
      BY <2>3 DEF Bump
    <2>4. CASE LiftDeliver(t)
      BY <2>4 DEF LiftDeliver
    <2>5. CASE Acquire(t)
      BY <2>5 DEF Acquire
    <2>6. CASE Outside(t)
      BY <2>6 DEF Outside
    <2> QED BY <2>1, <2>2, <2>3, <2>4, <2>5, <2>6
  <1>2. MapStep(t) \/ Acquire(t) \/ Outside(t)
    BY DEF MapStep
  <1> QED BY <1>1, <1>2, OneCallChanges

\* A call begins.
LEMMA InvokeStep ==
  ASSUME IInv, PendingInv, NEW t \in Threads,
         \/ \E i \in Impls : Begin(t, "insert", 0, i)
         \/ \E o \in Ops \ {"none", "insert"}, h \in Handles : Begin(t, o, h, None)
         \/ LiftErase(t)
  PROVE  Table!Invoke(t) /\ UNCHANGED <<map, issued>>
  <1> USE DEF Goto, IInv, TypeOK, lockVars
  <1>1. UNCHANGED <<map, issued>>
    BY DEF Begin, LiftErase
  <1>2. Beginning(t) \/ MapStep(t)
    <2>1. Handles \subseteq Nat
      BY HandleMapAssumption DEF Handles
    <2> QED BY <2>1 DEF Beginning, MapStep
  <1>3. Seen(t) = Answer("none", 0, None)
    BY DEF Begin, LiftErase, Seen
  <1>4. PICK r \in Table!Requests : Seen(t)' = r
    <2>1. ASSUME NEW i \in Impls, Begin(t, "insert", 0, i) PROVE Seen(t)' = Request("insert", 0, i)
      BY <2>1 DEF Begin, Seen, Effected, Entered, Operation
    <2>2. ASSUME NEW o \in Ops \ {"none", "insert"}, NEW h \in Handles, Begin(t, o, h, None)
          PROVE  Seen(t)' = Request(IF o = "lift" THEN "at" ELSE o, h, None)
      BY <2>2 DEF Begin, Seen, Effected, Entered, Operation
    <2>3. ASSUME LiftErase(t) PROVE Seen(t)' = Request("erase", handle[t], None)
      BY <2>3 DEF LiftErase, Seen, Effected, Entered, Operation
    <2>4. LiftErase(t) => handle[t] \in Handles
      BY DEF LiftErase, PendingInv
    <2>5. \A i \in Impls : Request("insert", 0, i) \in Table!Requests
      BY DEF Request, Table!Requests
    <2>6. \A o \in {"at", "clone", "erase"}, h \in Handles :
            Request(o, h, None) \in Table!Requests
      BY DEF Request, Table!Requests
    <2> QED BY <2>1, <2>2, <2>3, <2>4, <2>5, <2>6 DEF Ops
  <1>5. Pending' = [Pending EXCEPT ![t] = r]
    BY <1>2, <1>4, OneCallChanges
  <1>6. Pending[t] = Table!Quiet
    BY <1>3 DEF Pending, Answer, Table!Quiet
  <1> QED BY <1>1, <1>5, <1>6 DEF Table!Invoke

\* A lookup answers.
LEMMA LookStep ==
  ASSUME IInv, PendingInv, NEW t \in Threads, Look(t), op[t] \notin {"clone", "erase"}
  PROVE  Table!AtEffect(t)
  <1> USE DEF Goto, IInv, TypeOK, lockVars
  <1>1. op[t] \in {"at", "lift"} /\ pc[t] = "look" /\ handle[t] \in DOMAIN map
    BY DEF Look, CallInv, Ops
  <1>2. Seen(t) = Request("at", handle[t], None)
    BY <1>1 DEF Seen, Entered, Effected, Operation
  <1>3. Seen(t)' = Answer("at", handle[t], map[handle[t]])
    BY <1>1 DEF Look, AfterLook, Seen, Entered, Effected, Operation
  <1>4. Pending' = [Pending EXCEPT ![t] = Seen(t)']
    BY OneCallChanges DEF MapStep
  <1>5. UNCHANGED <<map, issued>>
    BY DEF Look
  <1>6. Pending[t].op = "at" /\ Pending[t].handle = handle[t] /\ ~Pending[t].done
    BY <1>2, RequestFields DEF Pending
  <1>7. Table!Done(t, handle[t], map[handle[t]])
    BY <1>3, <1>4, <1>6 DEF Table!Done, Answer
  <1> QED BY <1>1, <1>5, <1>6, <1>7 DEF Table!AtEffect

\* A lookup finds nothing.
LEMMA LookMissStep ==
  ASSUME IInv, PendingInv, NEW t \in Threads, LookMiss(t)
  PROVE  Table!MissEffect(t) \/ Table!EraseEffect(t)
  <1> USE DEF Goto, IInv, TypeOK, lockVars
  <1> DEFINE o == IF op[t] = "lift" THEN "at" ELSE op[t]
  <1>1. /\ op[t] \in {"at", "lift", "clone", "erase"} /\ pc[t] = "look"
        /\ impl[t] = None /\ handle[t] \notin DOMAIN map
    BY DEF LookMiss, CallInv, Ops
  <1>2. Seen(t) = Request(o, handle[t], None)
    BY <1>1 DEF Seen, Entered, Effected, Operation
  <1>3. Seen(t)' = Answer(o, handle[t], None)
    BY <1>1 DEF LookMiss, Seen, Entered, Effected, Operation
  <1>4. Pending' = [Pending EXCEPT ![t] = Seen(t)']
    BY OneCallChanges DEF MapStep
  <1>5. UNCHANGED <<map, issued>>
    BY DEF LookMiss
  <1>6. /\ Pending[t].op = o /\ Pending[t].handle = handle[t]
        /\ Pending[t].impl = None /\ ~Pending[t].done
    BY <1>2, RequestFields DEF Pending
  <1>7. Table!Done(t, handle[t], None)
    BY <1>3, <1>4, <1>6 DEF Table!Done, Answer
  <1>8. CASE op[t] = "erase"
    <2>1. map' = Table!Without(map, handle[t])
      BY <1>1, <1>5 DEF Table!Without
    <2> QED BY <1>5, <1>8, <1>6, <1>7, <2>1 DEF Table!EraseEffect
  <1>9. CASE op[t] # "erase"
    BY <1>1, <1>5, <1>9, <1>6, <1>7 DEF Table!MissEffect
  <1> QED BY <1>8, <1>9

\* An entry goes.
LEMMA RemoveStep ==
  ASSUME IInv, PendingInv, NEW t \in Threads, Remove(t)
  PROVE  Table!EraseEffect(t)
  <1> USE DEF Goto, IInv, TypeOK, lockVars
  <1>1. op[t] = "erase" /\ pc[t] = "remove"
    BY DEF Remove, CallInv
  <1>2. Seen(t) = Request("erase", handle[t], None)
    BY <1>1 DEF Seen, Entered, Effected, Operation
  <1>3. Seen(t)' = Answer("erase", handle[t], None)
    BY <1>1 DEF Remove, Seen, Entered, Effected, Operation
  <1>4. Pending' = [Pending EXCEPT ![t] = Seen(t)']
    BY OneCallChanges DEF MapStep
  <1>5. map' = Table!Without(map, handle[t]) /\ UNCHANGED issued
    BY DEF Remove, Without, Table!Without
  <1>6. /\ Pending[t].op = "erase" /\ Pending[t].handle = handle[t]
        /\ Pending[t].impl = None /\ ~Pending[t].done
    BY <1>2, RequestFields DEF Pending
  <1>7. Table!Done(t, handle[t], None)
    BY <1>3, <1>4, <1>6 DEF Table!Done, Answer
  <1> QED BY <1>5, <1>6, <1>7 DEF Table!EraseEffect

\* An entry appears, under a handle that was never issued.
LEMMA StoreStep ==
  ASSUME IInv, PendingInv, NEW t \in Threads, Store(t)
  PROVE  Table!InsertEffect(t) \/ Table!CloneEffect(t)
  <1> USE DEF Goto, IInv, TypeOK
  <1>1. /\ op[t] \in {"insert", "clone"} /\ pc[t] = "store" /\ impl[t] \in Impls
        /\ slot[t] = cur_handle
        /\ op[t] = "clone" => handle[t] \in DOMAIN map /\ impl[t] = map[handle[t]]
    BY DEF Store, CallInv
  <1>2. slot[t] \in Handles
    BY <1>1, RoomToStore
  <1>3. \A p \in issued : p[1] \in Nat /\ p[1] < cur_handle
    BY <1>1 DEF HandleInv, BeingCounted, LockInv, Inside
  <1>4. slot[t] \notin Table!EverIssued
    BY <1>1, <1>3 DEF Table!EverIssued
  <1>5. slot[t] \notin DOMAIN map
    BY <1>4 DEF HandleInv, Table!EverIssued
  <1>6. map' = Table!With(map, slot[t], impl[t]) /\ issued' = issued \cup {<<slot[t], impl[t]>>}
    BY <1>5 DEF Store, With, Table!With
  <1>7. Seen(t) = Request(op[t], handle[t], IF op[t] = "insert" THEN impl[t] ELSE None)
    BY <1>1 DEF Seen, Effected, Operation
  <1>8. Seen(t)' = Answer(op[t], slot[t], impl[t])
    BY <1>1, HandleMapAssumption DEF Store, Seen, Entered, Effected, Operation
  <1>9. Pending' = [Pending EXCEPT ![t] = Seen(t)']
    BY OneCallChanges DEF MapStep
  <1>10. /\ Pending[t].op = op[t] /\ Pending[t].handle = handle[t] /\ ~Pending[t].done
         /\ Pending[t].impl = IF op[t] = "insert" THEN impl[t] ELSE None
    BY <1>7, RequestFields DEF Pending
  <1>11. Table!Enter(t, impl[t])
    <2>1. Table!Done(t, slot[t], impl[t])
      BY <1>8, <1>9, <1>10 DEF Table!Done, Answer
    <2> QED BY <1>2, <1>4, <1>6, <2>1 DEF Table!Enter
  <1>12. CASE op[t] = "insert"
    BY <1>10, <1>11, <1>12 DEF Table!InsertEffect
  <1>13. CASE op[t] = "clone"
    BY <1>1, <1>10, <1>11, <1>13 DEF Table!CloneEffect
  <1> QED BY <1>1, <1>12, <1>13

\* A call returns.
LEMMA ReturnStep ==
  ASSUME IInv, PendingInv, NEW t \in Threads,
         ReturnMiss(t) \/ ReturnMethod(t) \/ ReturnDrop(t) \/ ReturnLift(t)
  PROVE  Table!Return(t)
  <1> USE DEF Goto, IInv, TypeOK
  <1>1. /\ pc[t] = "unlock" /\ pc'[t] \in {"user", "again", "deliver"}
        /\ UNCHANGED <<map, issued>>
    BY DEF ReturnMiss, ReturnMethod, ReturnDrop, ReturnLift, Leave, Caller
  <1>2. op[t] # "none"
    BY <1>1 DEF PendingInv, Inside
  <1>3. Seen(t)' = Answer("none", 0, None)
    BY <1>1 DEF Seen
  <1>4. Pending' = [Pending EXCEPT ![t] = Seen(t)']
    BY OneCallChanges DEF MapStep
  <1>5. Pending[t].op # "none" /\ Pending[t].done
    <2>1. Pending[t] = Seen(t)
      BY DEF Pending
    <2>2. Seen(t).op # "none" /\ Seen(t).done
      BY <1>1, <1>2 DEF Seen, Answer, Effected, Operation
    <2> QED BY <2>1, <2>2
  <1> QED BY <1>1, <1>3, <1>4, <1>5 DEF Table!Return, Table!Quiet, Answer

\* Every step of HandleMap is one of HandleTable's, or none.
LEMMA TableStep ==
  ASSUME IInv, PendingInv, [Next]_vars
  PROVE  [Table!TableNext]_<<map, issued, Pending>>
  <1>1. CASE UNCHANGED vars
    BY <1>1 DEF vars, lockVars, callVars, Pending, Seen, Entered, Effected, Operation
  <1>2. ASSUME NEW t \in Threads, MapStep(t) \/ Acquire(t)
        PROVE  [Table!TableNext]_<<map, issued, Pending>>
    BY <1>2, SilentSteps, InvokeStep, LookStep, LookMissStep, RemoveStep, StoreStep, ReturnStep
       DEF MapStep, Table!TableNext
  <1>3. ASSUME NEW t \in Threads, UserStep(t)
        PROVE  [Table!TableNext]_<<map, issued, Pending>>
    <2>1. CASE \E i \in Impls : CallInsert(t, i)
      <3>1. \E i \in Impls : Begin(t, "insert", 0, i)
        BY <2>1 DEF CallInsert
      <3> QED BY <3>1, InvokeStep DEF Table!TableNext
    <2>2. CASE \E h \in Handles :
                 CallClone(t, h) \/ CallErase(t, h) \/ CallLift(t, h) \/ CallMethod(t, h)
      <3>1. \E o \in Ops \ {"none", "insert"}, h \in Handles : Begin(t, o, h, None)
        BY <2>2, CallByHandle
      <3> QED BY <3>1, InvokeStep DEF Table!TableNext
    <2>3. CASE \/ \E i \in Impls : Create(t, i) \/ Forget(t, i)
               \/ MethodReturn(t) \/ DtorReturn(t)
      <3>1. Outside(t)
        BY <2>3 DEF Outside, Create, Forget, MethodReturn, DtorReturn, lockVars, callVars
      <3> QED BY <3>1, SilentSteps
    <2> QED BY <1>3, <2>1, <2>2, <2>3 DEF UserStep
  <1> QED BY <1>1, <1>2, <1>3 DEF Next

\* A handle map with a mutex, a counter and one access at a time behaves as if
\* each of its operations took effect at one instant, and never answers an
\* insertion with a handle that it has answered before.
THEOREM MapIsTable == Spec => ImplementsTable
  <1>1. Init => Table!TableInit
    BY DEF Init, Table!TableInit, Pending, Seen, Answer, Table!Quiet
  <1>2. Init => PendingInv
    <2> SUFFICES ASSUME Init PROVE PendingInv
      OBVIOUS
    <2>1. Inserting = {}
      BY DEF Init, Inserting
    <2> QED BY <2>1, FS_EmptySet, HandleMapAssumption DEF Init, PendingInv, Inside
  <1>3. PendingInv /\ IInv /\ [Next]_vars => PendingInv'
    BY PendingStep
  <1>4. PendingInv /\ IInv /\ [Next]_vars => [Table!TableNext]_<<map, issued, Pending>>
    BY TableStep
  <1> QED BY <1>1, <1>2, <1>3, <1>4, Invariance, PTL
         DEF Spec, ImplementsTable, Table!TableSpec, Table!tableVars
=============================================================================
