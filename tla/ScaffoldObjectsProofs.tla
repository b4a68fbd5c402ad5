------------------------- MODULE ScaffoldObjectsProofs -------------------------
(***************************************************************************)
(* Proofs about ScaffoldObjects.  TableInv is inductive as it stands; it   *)
(* needs all four of its parts besides the types:                          *)
(*                                                                         *)
(*   HeapInv    an object that is at an address already has an entry only  *)
(*              if the entry at that address is its own (Insert);          *)
(*   ResultInv  what Insert files is alive, and a thread in erase or idle  *)
(*              holds nothing that Erase or Free could forget;             *)
(*   DyingInv   Destroy takes an object's address away, and so no entry    *)
(*              may be of it;                                              *)
(*   EntryInv   the last reference is the only one that removes an entry.  *)
(*                                                                         *)
(* CountInv is inductive on top of it.  References(o) counts two sets, the *)
(* wrappers that own a reference and the threads on their way to the       *)
(* caller with one, and what was lost.  Insert, Return, ReturnFails and    *)
(* Erase change each set by one element at most; the other actions leave   *)
(* them alone.                                                             *)
(*                                                                         *)
(* One lemma per action, one step per part of the invariant.               *)
(*                                                                         *)
(* The third part proves that the table implements ObjectReferences.  It   *)
(* needs both invariants, HoldInv, and AliveAre: what lives is what is     *)
(* referred to, before a step and after it.                                *)
(***************************************************************************)
EXTENDS ScaffoldObjects, FiniteSetTheorems, TLAPS

\* A new object goes to a free address, so no entry can be at it.
LEMMA ConstructKeeps ==
  ASSUME NEW t \in Threads, NEW o \in Objects, NEW a \in Addresses, TableInv, Construct(t, o, a)
  PROVE  TableInv'
  <1> USE ScaffoldObjectsAssumption DEF TableInv, Move, heapVars, tableVars, Alive
  <1>1. TypeOK'
    BY DEF Construct, Allocate, TypeOK
  <1>2. HeapInv'
    BY DEF Construct, Allocate, TypeOK, HeapInv, FreeAddresses
  <1>3. ResultInv'
    BY DEF Construct, TypeOK, ResultInv
  <1>4. DyingInv'
    BY DEF Construct, Allocate, HeapInv, DyingInv
  <1>5. EntryInv'
    BY DEF Construct, Allocate, TypeOK, HeapInv, EntryInv
  <1> QED BY <1>1, <1>2, <1>3, <1>4, <1>5

\* A call that starts touches neither heap nor table.
LEMMA CallKeeps ==
  ASSUME NEW t \in Threads, NEW ws \in SUBSET Wrappers, TableInv, Call(t, ws)
  PROVE  TableInv'
  <1> USE ScaffoldObjectsAssumption DEF TableInv, Move, heapVars, tableVars, Alive
  <1>1. TypeOK'
    BY DEF Call, TypeOK
  <1>2. HeapInv'
    BY DEF Call, HeapInv
  <1>3. ResultInv'
    BY DEF Call, ResultInv
  <1>4. DyingInv'
    BY DEF Call, DyingInv
  <1>5. EntryInv'
    BY DEF Call, EntryInv
  <1> QED BY <1>1, <1>2, <1>3, <1>4, <1>5

\* What a lookup finds is alive, and is not being destroyed: nobody has the mutex.
LEMMA AtKeeps ==
  ASSUME NEW t \in Threads, NEW w \in Wrappers, TableInv, At(t, w)
  PROVE  TableInv'
  <1> USE ScaffoldObjectsAssumption DEF TableInv, Move, heapVars, tableVars, Alive
  <1> DEFINE key == wrappers[w].key
  <1>a. CASE key \in DOMAIN map
    <2>1. map[key].ptr \in Objects /\ map[key].ptr \in Alive
      BY <1>a DEF TypeOK, EntryInv
    <2>2. /\ use' = [use EXCEPT ![t] = [use[t] EXCEPT ![w] = map[key].ptr]]
          /\ held' = [held EXCEPT ![t] = held[t] \cup {map[key].ptr}]
          /\ pc[t] = "at" /\ mutex = None
          /\ pc' = [pc EXCEPT ![t] = "body"] \/ pc' = [pc EXCEPT ![t] = "at"]
          /\ UNCHANGED <<addr, made, kept, map, mutex, wrappers, res, lost>>
      BY <1>a DEF At
    <2> HIDE DEF key
    <2>3. TypeOK'
      <3>1. \A u \in Threads : u # t => use'[u] = use[u]
        BY <2>2 DEF TypeOK
      <3>2. use'[t] = [use[t] EXCEPT ![w] = map[key].ptr]
        BY <2>2 DEF TypeOK
      <3>3. DOMAIN use'[t] \subseteq Wrappers /\ use'[t] \in [DOMAIN use'[t] -> Objects \cup {None}]
        <4> DEFINE f == use[t]
                   o == map[key].ptr
        <4>1. f \in [DOMAIN f -> Objects \cup {None}] /\ DOMAIN f \subseteq Wrappers /\ o \in Objects
          BY <2>1 DEF TypeOK
        <4> HIDE DEF f, o
        <4>2. DOMAIN [f EXCEPT ![w] = o] = DOMAIN f /\ [f EXCEPT ![w] = o] \in [DOMAIN f -> Objects \cup {None}]
          BY <4>1
        <4> QED BY <3>2, <4>1, <4>2 DEF f, o
      <3>4. DOMAIN use' = Threads
        BY <2>2 DEF TypeOK
      <3>5. \A u \in Threads : DOMAIN use'[u] \subseteq Wrappers /\ use'[u] \in [DOMAIN use'[u] -> Objects \cup {None}]
        BY <3>1, <3>3 DEF TypeOK
      <3> QED BY <2>1, <2>2, <3>4, <3>5 DEF TypeOK
    <2>4. HeapInv'
      BY <2>1, <2>2 DEF HeapInv
    <2>5. ResultInv'
      BY <2>1, <2>2 DEF TypeOK, ResultInv
    <2>6. DyingInv'
      BY <2>1, <2>2 DEF TypeOK, DyingInv
    <2>7. EntryInv'
      BY <2>2 DEF EntryInv
    <2> QED BY <2>3, <2>4, <2>5, <2>6, <2>7
  <1>b. CASE key \notin DOMAIN map
    <2> USE <1>b DEF At
    <2>1. TypeOK'
      BY DEF TypeOK
    <2>2. HeapInv'
      BY DEF HeapInv
    <2>3. ResultInv'
      BY DEF TypeOK, ResultInv
    <2>4. DyingInv'
      BY DEF TypeOK, DyingInv
    <2>5. EntryInv'
      BY DEF EntryInv
    <2> QED BY <2>1, <2>2, <2>3, <2>4, <2>5
  <1> QED BY <1>a, <1>b

\* The library keeps only what its call holds.
LEMMA KeepKeeps ==
  ASSUME NEW t \in Threads, NEW o \in Objects, TableInv, Keep(t, o)
  PROVE  TableInv'
  <1> USE ScaffoldObjectsAssumption DEF TableInv, Move, heapVars, tableVars, Alive
  <1>1. TypeOK'
    BY DEF Keep, TypeOK
  <1>2. HeapInv'
    BY DEF Keep, HeapInv
  <1>3. ResultInv'
    BY DEF Keep, ResultInv
  <1>4. DyingInv'
    BY DEF Keep, DyingInv
  <1>5. EntryInv'
    BY DEF Keep, EntryInv
  <1> QED BY <1>1, <1>2, <1>3, <1>4, <1>5

\* A dropped object dies only if neither a thread nor an entry has it.
LEMMA DropKeeps ==
  ASSUME NEW t \in Threads, NEW o \in Objects, TableInv, Drop(t, o)
  PROVE  TableInv'
  <1> USE ScaffoldObjectsAssumption DEF TableInv, Move, heapVars, tableVars, Alive
  <1>1. TypeOK'
    BY DEF Drop, TypeOK
  <1>2. HeapInv'
    BY DEF Drop, HeapInv, Orphans
  <1>3. ResultInv'
    BY DEF Drop, ResultInv
  <1>4. DyingInv'
    BY DEF Drop, DyingInv
  <1>5. EntryInv'
    BY DEF Drop, TypeOK, EntryInv, Orphans
  <1> QED BY <1>1, <1>2, <1>3, <1>4, <1>5

\* A result that the library gives back is held by the thread.
LEMMA ReturnObjectKeeps ==
  ASSUME NEW t \in Threads, NEW o \in Objects, TableInv, ReturnObject(t, o)
  PROVE  TableInv'
  <1> USE ScaffoldObjectsAssumption DEF TableInv, Move, heapVars, tableVars, Alive
  <1>1. TypeOK'
    BY DEF ReturnObject, TypeOK
  <1>2. HeapInv'
    BY DEF ReturnObject, HeapInv
  <1>3. ResultInv'
    BY DEF ReturnObject, TypeOK, ResultInv
  <1>4. DyingInv'
    BY DEF ReturnObject, DyingInv
  <1>5. EntryInv'
    BY DEF ReturnObject, EntryInv
  <1> QED BY <1>1, <1>2, <1>3, <1>4, <1>5

\* As a constructor, from inside a call.
LEMMA ReturnNewKeeps ==
  ASSUME NEW t \in Threads, NEW o \in Objects, NEW a \in Addresses, TableInv, ReturnNew(t, o, a)
  PROVE  TableInv'
  <1> USE ScaffoldObjectsAssumption DEF TableInv, Move, heapVars, tableVars, Alive
  <1>1. TypeOK'
    BY DEF ReturnNew, Allocate, TypeOK
  <1>2. HeapInv'
    BY DEF ReturnNew, Allocate, TypeOK, HeapInv, FreeAddresses
  <1>3. ResultInv'
    BY DEF ReturnNew, TypeOK, ResultInv
  <1>4. DyingInv'
    BY DEF ReturnNew, Allocate, HeapInv, DyingInv
  <1>5. EntryInv'
    BY DEF ReturnNew, Allocate, TypeOK, HeapInv, EntryInv
  <1> QED BY <1>1, <1>2, <1>3, <1>4, <1>5

\* A call without a result goes on to its return.
LEMMA ReturnNothingKeeps ==
  ASSUME NEW t \in Threads, TableInv, ReturnNothing(t)
  PROVE  TableInv'
  <1> USE ScaffoldObjectsAssumption DEF TableInv, Move, heapVars, tableVars, Alive
  <1>1. TypeOK'
    BY DEF ReturnNothing, TypeOK
  <1>2. HeapInv'
    BY DEF ReturnNothing, HeapInv
  <1>3. ResultInv'
    BY DEF ReturnNothing, ResultInv
  <1>4. DyingInv'
    BY DEF ReturnNothing, DyingInv
  <1>5. EntryInv'
    BY DEF ReturnNothing, EntryInv
  <1> QED BY <1>1, <1>2, <1>3, <1>4, <1>5

\* An address already in the table is filed for the result itself.
LEMMA InsertKeeps ==
  ASSUME NEW t \in Threads, TableInv, Insert(t)
  PROVE  TableInv'
  <1> USE ScaffoldObjectsAssumption DEF TableInv, Move, heapVars, tableVars, Alive
  <1>1. TypeOK'
    <2>1. res[t] \in Objects /\ addr[res[t]] \in Addresses
      BY DEF Insert, TypeOK, HeapInv, ResultInv
    <2>2. DOMAIN map' \subseteq Addresses /\ map' \in [DOMAIN map' -> [ptr : Objects, ref_count : Nat]]
      <3>1. CASE addr[res[t]] \in DOMAIN map
        BY <2>1, <3>1 DEF Insert, With, TypeOK
      <3>2. CASE addr[res[t]] \notin DOMAIN map
        BY <2>1, <3>2 DEF Insert, With, TypeOK
      <3> QED BY <3>1, <3>2
    <2> QED BY <2>2 DEF Insert, TypeOK
  <1>2. HeapInv'
    BY DEF Insert, HeapInv
  <1>3. ResultInv'
    BY DEF Insert, ResultInv
  <1>4. DyingInv'
    BY DEF Insert, DyingInv
  <1>5. EntryInv'
    BY DEF Insert, With, TypeOK, EntryInv
  <1> QED BY <1>1, <1>2, <1>3, <1>4, <1>5

\* Objects that only the call kept alive die, and no entry is of them.
LEMMA ReturnKeeps ==
  ASSUME NEW t \in Threads, NEW w \in Wrappers, TableInv, Return(t, w)
  PROVE  TableInv'
  <1> USE ScaffoldObjectsAssumption DEF TableInv, Move, heapVars, tableVars, Alive
  <1>1. TypeOK'
    <2>1. \A u \in Threads : DOMAIN use'[u] \subseteq Wrappers /\ use'[u] \in [DOMAIN use'[u] -> Objects \cup {None}]
      <3>1. \A u \in Threads : use'[u] = IF u = t THEN Nothing ELSE use[u]
        BY DEF Return, Leave, TypeOK
      <3>2. DOMAIN Nothing = {} /\ Nothing \in [{} -> Objects \cup {None}]
        BY DEF Nothing
      <3> QED BY <3>1, <3>2 DEF TypeOK
    <2> QED BY <2>1 DEF Return, Leave, TypeOK, HeapInv, ResultInv
  <1>2. HeapInv'
    BY DEF Return, Leave, HeapInv, Orphans
  <1>3. ResultInv'
    BY DEF Return, Leave, TypeOK, ResultInv
  <1>4. DyingInv'
    BY DEF Return, Leave, DyingInv
  <1>5. EntryInv'
    BY DEF Return, Leave, TypeOK, EntryInv, Orphans
  <1> QED BY <1>1, <1>2, <1>3, <1>4, <1>5

\* The same without a result.
LEMMA ReturnVoidKeeps ==
  ASSUME NEW t \in Threads, TableInv, ReturnVoid(t)
  PROVE  TableInv'
  <1> USE ScaffoldObjectsAssumption DEF TableInv, Move, heapVars, tableVars, Alive
  <1>1. TypeOK'
    <2>1. \A u \in Threads : DOMAIN use'[u] \subseteq Wrappers /\ use'[u] \in [DOMAIN use'[u] -> Objects \cup {None}]
      <3>1. \A u \in Threads : use'[u] = IF u = t THEN Nothing ELSE use[u]
        BY DEF ReturnVoid, Leave, TypeOK
      <3>2. DOMAIN Nothing = {} /\ Nothing \in [{} -> Objects \cup {None}]
        BY DEF Nothing
      <3> QED BY <3>1, <3>2 DEF TypeOK
    <2> QED BY <2>1 DEF ReturnVoid, Leave, TypeOK
  <1>2. HeapInv'
    BY DEF ReturnVoid, Leave, HeapInv, Orphans
  <1>3. ResultInv'
    BY DEF ReturnVoid, Leave, TypeOK, ResultInv
  <1>4. DyingInv'
    BY DEF ReturnVoid, Leave, DyingInv
  <1>5. EntryInv'
    BY DEF ReturnVoid, Leave, TypeOK, EntryInv, Orphans
  <1> QED BY <1>1, <1>2, <1>3, <1>4, <1>5

\* The same with a result that never arrives.
LEMMA ReturnFailsKeeps ==
  ASSUME NEW t \in Threads, TableInv, ReturnFails(t)
  PROVE  TableInv'
  <1> USE ScaffoldObjectsAssumption DEF TableInv, Move, heapVars, tableVars, Alive
  <1>1. TypeOK'
    <2>1. \A u \in Threads : DOMAIN use'[u] \subseteq Wrappers /\ use'[u] \in [DOMAIN use'[u] -> Objects \cup {None}]
      <3>1. \A u \in Threads : use'[u] = IF u = t THEN Nothing ELSE use[u]
        BY DEF ReturnFails, Leave, TypeOK
      <3>2. DOMAIN Nothing = {} /\ Nothing \in [{} -> Objects \cup {None}]
        BY DEF Nothing
      <3> QED BY <3>1, <3>2 DEF TypeOK
    <2> QED BY <2>1 DEF ReturnFails, Leave, TypeOK
  <1>2. HeapInv'
    BY DEF ReturnFails, Leave, HeapInv, Orphans
  <1>3. ResultInv'
    BY DEF ReturnFails, Leave, TypeOK, ResultInv
  <1>4. DyingInv'
    BY DEF ReturnFails, Leave, DyingInv
  <1>5. EntryInv'
    BY DEF ReturnFails, Leave, TypeOK, EntryInv, Orphans
  <1> QED BY <1>1, <1>2, <1>3, <1>4, <1>5

\* A wrapper is taken back by a thread that holds nothing.
LEMMA FreeKeeps ==
  ASSUME NEW t \in Threads, NEW w \in Wrappers, TableInv, Free(t, w)
  PROVE  TableInv'
  <1> USE ScaffoldObjectsAssumption DEF TableInv, Move, heapVars, tableVars, Alive
  <1>1. TypeOK'
    BY DEF Free, TypeOK
  <1>2. HeapInv'
    BY DEF Free, HeapInv
  <1>3. ResultInv'
    BY DEF Free, ResultInv
  <1>4. DyingInv'
    BY DEF Free, DyingInv
  <1>5. EntryInv'
    BY DEF Free, EntryInv
  <1> QED BY <1>1, <1>2, <1>3, <1>4, <1>5

\* A count stays positive, or its entry goes; then the object may be dying, and only this thread has it.
LEMMA EraseKeeps ==
  ASSUME NEW t \in Threads, NEW w \in Wrappers, TableInv, Erase(t, w)
  PROVE  TableInv'
  <1> USE ScaffoldObjectsAssumption DEF TableInv, Move, heapVars, tableVars, Alive
  <1>1. TypeOK'
    <2>1. \A u \in Threads : DOMAIN use'[u] \subseteq Wrappers /\ use'[u] \in [DOMAIN use'[u] -> Objects \cup {None}]
      <3>1. \A u \in Threads : use'[u] = IF u = t THEN Nothing ELSE use[u]
        BY DEF Erase, EraseWhen, TypeOK
      <3>2. DOMAIN Nothing = {} /\ Nothing \in [{} -> Objects \cup {None}]
        BY DEF Nothing
      <3> QED BY <3>1, <3>2 DEF TypeOK
    <2>2. DOMAIN map' \subseteq Addresses /\ map' \in [DOMAIN map' -> [ptr : Objects, ref_count : Nat]]
      <3> DEFINE a == wrappers[w].key
      <3>1. CASE a \notin DOMAIN map
        BY <3>1 DEF Erase, EraseWhen, TypeOK
      <3>2. CASE a \in DOMAIN map /\ map[a].ref_count # 1
        <4>1. map[a].ptr \in Objects /\ map[a].ref_count - 1 \in Nat
          BY <3>2 DEF TypeOK, EntryInv
        <4>2. map' = [x \in DOMAIN map \cup {a} |-> IF x = a THEN [ptr |-> map[a].ptr, ref_count |-> map[a].ref_count - 1] ELSE map[x]]
          BY <3>2 DEF Erase, EraseWhen, With
        <4> QED BY <3>2, <4>1, <4>2 DEF TypeOK
      <3>3. CASE a \in DOMAIN map /\ map[a].ref_count = 1
        <4>1. map' = [x \in DOMAIN map \ {a} |-> map[x]]
          BY <3>3 DEF Erase, EraseWhen, Without
        <4> QED BY <4>1 DEF TypeOK
      <3> QED BY <3>1, <3>2, <3>3
    <2>3. held' \in [Threads -> SUBSET Objects] /\ mutex' \in Threads \cup {None}
      BY DEF Erase, EraseWhen, TypeOK
    <2>4. pc' \in [Threads -> {"idle", "at", "body", "insert", "return", "erase", "destroy", "dead"}]
      BY DEF Erase, EraseWhen, TypeOK
    <2>5. wrappers' \in [Wrappers -> {Unused} \cup [key : Addresses, obj : Objects]]
      BY DEF Erase, EraseWhen, TypeOK
    <2> QED BY <2>1, <2>2, <2>3, <2>4, <2>5 DEF Erase, EraseWhen, TypeOK
  <1>2. HeapInv'
    BY DEF Erase, EraseWhen, TypeOK, HeapInv, Orphans
  <1>3. ResultInv'
    BY DEF Erase, EraseWhen, TypeOK, ResultInv
  <1>4. DyingInv'
    BY DEF Erase, EraseWhen, TypeOK, DyingInv, Orphans
  <1>5. EntryInv'
    <2> DEFINE a == wrappers[w].key
    <2>1. CASE a \notin DOMAIN map
      BY <2>1 DEF Erase, EraseWhen, EntryInv
    <2>2. CASE a \in DOMAIN map /\ map[a].ref_count # 1
      <3>1. map' = [x \in DOMAIN map \cup {a} |-> IF x = a THEN [ptr |-> map[a].ptr, ref_count |-> map[a].ref_count - 1] ELSE map[x]]
        BY <2>2 DEF Erase, EraseWhen, With
      <3>2. map[a].ref_count - 1 > 0
        BY <2>2 DEF TypeOK, EntryInv
      <3> QED BY <2>2, <3>1, <3>2 DEF Erase, EraseWhen, EntryInv
    <2>3. CASE a \in DOMAIN map /\ map[a].ref_count = 1
      <3>1. map' = [x \in DOMAIN map \ {a} |-> map[x]]
        BY <2>3 DEF Erase, EraseWhen, Without
      <3> QED BY <3>1 DEF Erase, EraseWhen, EntryInv
    <2> QED BY <2>1, <2>2, <2>3
  <1> QED BY <1>1, <1>2, <1>3, <1>4, <1>5

\* The object that dies has no entry, and nobody else keeps it.
LEMMA DestroyKeeps ==
  ASSUME NEW t \in Threads, TableInv, Destroy(t)
  PROVE  TableInv'
  <1> USE ScaffoldObjectsAssumption DEF TableInv, Move, heapVars, tableVars, Alive
  <1>1. TypeOK'
    BY DEF Destroy, TypeOK
  <1>2. HeapInv'
    BY DEF Destroy, TypeOK, HeapInv, DyingInv
  <1>3. ResultInv'
    BY DEF Destroy, TypeOK, ResultInv
  <1>4. DyingInv'
    BY DEF Destroy, TypeOK, DyingInv
  <1>5. EntryInv'
    BY DEF Destroy, TypeOK, EntryInv, DyingInv
  <1> QED BY <1>1, <1>2, <1>3, <1>4, <1>5

\* The table is empty at first.
LEMMA InitTable == Init => TableInv
  <1> SUFFICES ASSUME Init PROVE TableInv
    OBVIOUS
  <1> USE ScaffoldObjectsAssumption DEF Init, Alive
  <1>1. TypeOK
    BY DEF TypeOK, Nothing
  <1>2. HeapInv /\ ResultInv /\ DyingInv /\ EntryInv
    BY DEF HeapInv, ResultInv, DyingInv, EntryInv
  <1> QED BY <1>1, <1>2 DEF TableInv

\* Every step preserves the invariant.
LEMMA NextKeeps == TableInv /\ [Next]_vars => TableInv'
  <1> SUFFICES ASSUME TableInv, [Next]_vars PROVE TableInv'
    OBVIOUS
  <1>1. CASE Next
    <2> PICK t \in Threads : LibraryStep(t) \/ GeneratedStep(t) \/ ReturnFails(t) \/ ForeignStep(t)
      BY <1>1 DEF Next
    <2>1. CASE LibraryStep(t)
      <3>1. ASSUME NEW o \in Objects, Keep(t, o) \/ Drop(t, o) \/ ReturnObject(t, o)
            PROVE  TableInv'
        BY <3>1, KeepKeeps, DropKeeps, ReturnObjectKeeps
      <3>2. ASSUME NEW o \in Objects, NEW a \in Addresses, ReturnNew(t, o, a)
            PROVE  TableInv'
        BY <3>2, ReturnNewKeeps
      <3>3. CASE ReturnNothing(t)
        BY <3>3, ReturnNothingKeeps
      <3> QED BY <2>1, <3>1, <3>2, <3>3 DEF LibraryStep
    <2>2. CASE GeneratedStep(t)
      <3>1. ASSUME NEW w \in Wrappers, At(t, w) \/ Return(t, w) \/ Erase(t, w)
            PROVE  TableInv'
        BY <3>1, AtKeeps, ReturnKeeps, EraseKeeps
      <3>2. CASE Insert(t) \/ ReturnVoid(t) \/ Destroy(t)
        BY <3>2, InsertKeeps, ReturnVoidKeeps, DestroyKeeps
      <3> QED BY <2>2, <3>1, <3>2 DEF GeneratedStep
    <2>3. CASE ReturnFails(t)
      BY <2>3, ReturnFailsKeeps
    <2>4. CASE ForeignStep(t)
      <3>1. ASSUME NEW o \in Objects, NEW a \in Addresses, Construct(t, o, a)
            PROVE  TableInv'
        BY <3>1, ConstructKeeps
      <3>2. ASSUME NEW ws \in SUBSET Usable, Call(t, ws)
            PROVE  TableInv'
        BY <3>2, CallKeeps DEF Usable, Owned
      <3>3. ASSUME NEW w \in Wrappers, Free(t, w)
            PROVE  TableInv'
        BY <3>3, FreeKeeps
      <3> QED BY <2>4, <3>1, <3>2, <3>3 DEF ForeignStep
    <2> QED BY <2>1, <2>2, <2>3, <2>4
  <1>2. CASE UNCHANGED vars
    <2> USE <1>2 DEF vars, heapVars, tableVars, Alive, TableInv
    <2>1. TypeOK'
      BY DEF TypeOK
    <2>2. HeapInv' /\ ResultInv' /\ DyingInv' /\ EntryInv'
      BY DEF HeapInv, ResultInv, DyingInv, EntryInv
    <2> QED BY <2>1, <2>2
  <1> QED BY <1>1, <1>2

\* In every behaviour of the scaffolding, of any number of threads, objects,
\* addresses and wrappers: addresses are not shared by the living, shared_ptrs
\* point to the living, only one thread runs a destructor and nobody else can
\* reach what it destroys, and an entry of the table has a count above 0 and
\* is filed under the address of its object.
THEOREM TableInvariance == Spec => []TableInv
  BY InitTable, NextKeeps, PTL DEF Spec

\* The variables keep their types: above all, an entry's ref_count is never
\* lowered below 0 (object_map.cpp 29).
THEOREM ScaffoldTypeCorrect == Spec => []TypeOK
  <1>1. TableInv => TypeOK
    BY DEF TableInv
  <1> QED BY <1>1, TableInvariance, PTL

\* A key the table knows is the address of the entry's own object, which is
\* alive: an address is not given to a new object while an entry uses it, so
\* insert may test by address alone (object_map.cpp 14-18).
THEOREM KeysNameLiving == Spec => []KeysNameTheLiving
  <1>1. TableInv => KeysNameTheLiving
    BY DEF TableInv, EntryInv, KeysNameTheLiving
  <1> QED BY <1>1, TableInvariance, PTL
-----------------------------------------------------------------------------
\* The wrappers that own a reference to an object, and the threads on their
\* way to the caller with one.
OwnRefs(o) == {w \in Owned : wrappers[w].obj = o}

WayRefs(o) == {t \in Threads : pc[t] = "return" /\ res[t] = o}

\* Wrappers and threads can be counted.
LEMMA Countable ==
  ASSUME NEW S, S \subseteq Wrappers \/ S \subseteq Threads
  PROVE  IsFiniteSet(S) /\ Cardinality(S) \in Nat
BY ScaffoldObjectsAssumption, FS_Subset, FS_CardinalityType

\* A set that gains or loses one element.
LEMMA OneMore ==
  ASSUME NEW S, S \subseteq Wrappers \/ S \subseteq Threads, NEW x, x \notin S
  PROVE  Cardinality(S \cup {x}) = Cardinality(S) + 1
BY Countable, FS_AddElement

\* One that loses an element.
LEMMA OneLess ==
  ASSUME NEW S, S \subseteq Wrappers \/ S \subseteq Threads, NEW x \in S
  PROVE  Cardinality(S \ {x}) = Cardinality(S) - 1
BY Countable, FS_RemoveElement

\* The parts of References.
LEMMA RefParts ==
  ASSUME NEW o
  PROVE  /\ References(o) = Cardinality(OwnRefs(o)) + Cardinality(WayRefs(o)) + lost[o]
         /\ OwnRefs(o) \subseteq Wrappers /\ WayRefs(o) \subseteq Threads
         /\ Cardinality(OwnRefs(o)) \in Nat /\ Cardinality(WayRefs(o)) \in Nat
  <1>1. OwnRefs(o) \subseteq Wrappers /\ WayRefs(o) \subseteq Threads
    BY DEF OwnRefs, Owned, WayRefs
  <1>2. Cardinality(OwnRefs(o)) \in Nat /\ Cardinality(WayRefs(o)) \in Nat
    BY <1>1, Countable
  <1> QED BY <1>1, <1>2 DEF References, OwnRefs, WayRefs

\* An object that is referred to has an entry, at its address.
LEMMA CountedEntry ==
  ASSUME TableInv, Counted, NEW o \in Objects,
         OwnRefs(o) # {} \/ WayRefs(o) # {} \/ lost[o] > 0
  PROVE  addr[o] \in DOMAIN map /\ map[addr[o]].ptr = o /\ o \in Alive
  <1>1. lost[o] \in Nat
    BY DEF TableInv, TypeOK
  <1>2. OwnRefs(o) # {} => Cardinality(OwnRefs(o)) > 0
    BY RefParts, Countable, FS_EmptySet
  <1>3. WayRefs(o) # {} => Cardinality(WayRefs(o)) > 0
    BY RefParts, Countable, FS_EmptySet
  <1>4. References(o) > 0
    BY <1>1, <1>2, <1>3, RefParts
  <1>5. addr[o] \in DOMAIN map
    BY <1>4 DEF Counted, Count
  <1>6. addr[o] \in Addresses /\ map[addr[o]].ptr \in Objects
    BY <1>5 DEF TableInv, TypeOK
  <1>7. o \in Alive /\ map[addr[o]].ptr \in Alive
    BY <1>5, <1>6, ScaffoldObjectsAssumption DEF Alive, TableInv, EntryInv
  <1> QED BY <1>5, <1>7 DEF TableInv, EntryInv, HeapInv

\* A wrapper's key leads to its object.
LEMMA OwnedEntry ==
  ASSUME TableInv, CountInv, NEW w \in Owned
  PROVE  /\ wrappers[w].obj \in Objects /\ wrappers[w].key \in Addresses
         /\ addr[wrappers[w].obj] = wrappers[w].key
         /\ wrappers[w].key \in DOMAIN map
         /\ map[wrappers[w].key].ptr = wrappers[w].obj
  <1>1. wrappers[w].obj \in Objects /\ wrappers[w].key \in Addresses
    BY DEF TableInv, TypeOK, Owned
  <1>2. w \in OwnRefs(wrappers[w].obj)
    BY DEF OwnRefs
  <1> QED BY <1>1, <1>2, CountedEntry DEF CountInv, KeyInv

\* So does the address of a result that is on its way.
LEMMA ResultEntry ==
  ASSUME TableInv, CountInv, NEW t \in Threads, pc[t] = "return", res[t] # None
  PROVE  /\ res[t] \in Objects /\ addr[res[t]] \in DOMAIN map
         /\ map[addr[res[t]]].ptr = res[t]
  <1>1. res[t] \in Objects
    BY DEF TableInv, TypeOK
  <1>2. t \in WayRefs(res[t])
    BY DEF WayRefs
  <1> QED BY <1>1, <1>2, CountedEntry DEF CountInv
-----------------------------------------------------------------------------
\* What is no reference's business does not change their number.
LEMMA RefsSame ==
  ASSUME NEW o, UNCHANGED wrappers, lost'[o] = lost[o],
         \A u \in Threads : (pc'[u] = "return" /\ res'[u] = o) <=> (pc[u] = "return" /\ res[u] = o)
  PROVE  References(o)' = References(o)
  <1>1. OwnRefs(o)' = OwnRefs(o)
    BY DEF OwnRefs, Owned
  <1>2. WayRefs(o)' = WayRefs(o)
    BY DEF WayRefs
  <1>3. References(o) = Cardinality(OwnRefs(o)) + Cardinality(WayRefs(o)) + lost[o]
    BY DEF References, OwnRefs, WayRefs
  <1>4. References(o)' = Cardinality(OwnRefs(o)') + Cardinality(WayRefs(o)') + lost'[o]
    BY DEF References, OwnRefs, WayRefs
  <1> QED BY <1>1, <1>2, <1>3, <1>4

\* Neither a reference nor an entry nor an address changes.
Idle(t) ==
  /\ UNCHANGED <<addr, map, wrappers, lost>>
  /\ \A u \in Threads \ {t} : pc'[u] = pc[u] /\ res'[u] = res[u] /\ use'[u] = use[u]
  /\ ~(pc[t] = "return" /\ res[t] # None)
  /\ ~(pc'[t] = "return" /\ res'[t] # None)
  /\ kept \subseteq kept' /\ \A u \in Threads : held[u] \subseteq held'[u]

\* A step that leaves the table, the wrappers and the results alone.
LEMMA IdleKeeps ==
  ASSUME NEW t \in Threads, TableInv, CountInv, Idle(t)
  PROVE  Counted' /\ KeyInv' /\ Orphans(map, held, kept)' = {}
  <1>1. ASSUME NEW o \in Objects
        PROVE  References(o)' = Count(o)'
    <2>1. o # None
      BY ScaffoldObjectsAssumption
    <2>2. References(o)' = References(o)
      BY <2>1, RefsSame DEF Idle
    <2>3. Count(o)' = Count(o)
      BY DEF Idle, Count
    <2> QED BY <2>2, <2>3 DEF CountInv, Counted
  <1>2. KeyInv'
    BY DEF Idle, CountInv, KeyInv, Owned
  <1>3. Orphans(map, held, kept)' = {}
    BY DEF Idle, CountInv, Orphans, Alive
  <1> QED BY <1>1, <1>2, <1>3 DEF Counted

\* Objects that nothing points to are destroyed.
Sweep == addr' = [p \in Objects |-> IF p \in Orphans(map, held', kept') THEN None ELSE addr[p]]

\* The library's objects that nothing points to any more are freed.
LEMMA SweepKeeps ==
  ASSUME TableInv, Sweep, UNCHANGED map
  PROVE  /\ \A a \in DOMAIN map : addr'[map[a].ptr] = addr[map[a].ptr]
         /\ \A o \in Objects : Count(o)' = Count(o)
         /\ Orphans(map, held, kept)' = {}
  <1>1. ASSUME NEW a \in DOMAIN map
        PROVE  addr'[map[a].ptr] = addr[map[a].ptr]
    BY DEF Sweep, Orphans, TableInv, TypeOK
  <1>2. ASSUME NEW o \in Objects
        PROVE  Count(o)' = Count(o)
    <2>1. CASE addr[o] \in DOMAIN map
      <3>1. addr[o] \in Addresses /\ map[addr[o]].ptr \in Objects
        BY <2>1 DEF TableInv, TypeOK
      <3>2. o \in Alive /\ map[addr[o]].ptr \in Alive
        BY <2>1, <3>1, ScaffoldObjectsAssumption DEF Alive, TableInv, EntryInv
      <3>3. map[addr[o]].ptr = o
        BY <2>1, <3>2 DEF TableInv, EntryInv, HeapInv
      <3>4. addr'[o] = addr[o]
        BY <1>1, <2>1, <3>3
      <3> QED BY <3>4 DEF Count
    <2>2. CASE addr[o] \notin DOMAIN map
      <3>1. addr'[o] \in {addr[o], None}
        BY DEF Sweep
      <3>2. None \notin DOMAIN map
        BY ScaffoldObjectsAssumption DEF TableInv, TypeOK
      <3> QED BY <2>2, <3>1, <3>2 DEF Count
    <2> QED BY <2>1, <2>2
  <1>3. Orphans(map, held, kept)' = {}
    BY DEF Sweep, Orphans, Alive
  <1> QED BY <1>1, <1>2, <1>3
-----------------------------------------------------------------------------
\* A new object has no entry and no references, wherever it is put.
LEMMA AllocateKeeps ==
  ASSUME NEW t \in Threads, NEW o \in Objects, NEW a \in Addresses, TableInv, CountInv,
         Allocate(o, a), UNCHANGED <<map, wrappers, lost, kept>>,
         pc[t] # "return", pc'[t] # "return",
         \A u \in Threads \ {t} : pc'[u] = pc[u] /\ res'[u] = res[u],
         \A u \in Threads : held[u] \subseteq held'[u], o \in held'[t]
  PROVE  Counted' /\ KeyInv' /\ Orphans(map, held, kept)' = {}
  <1>1. addr[o] = None /\ a \notin DOMAIN map /\ None \notin DOMAIN map
    <2>1. addr[o] = None
      BY DEF Allocate, TableInv, HeapInv, Alive
    <2>2. ASSUME a \in DOMAIN map PROVE FALSE
      <3>1. map[a].ptr \in Objects /\ addr[map[a].ptr] = a
        BY <2>2 DEF TableInv, TypeOK, EntryInv
      <3> QED BY <3>1, ScaffoldObjectsAssumption DEF Allocate, FreeAddresses, Alive
    <2> QED BY <2>1, <2>2, ScaffoldObjectsAssumption DEF TableInv, TypeOK
  <1>2. addr' = [addr EXCEPT ![o] = a] /\ addr \in [Objects -> Addresses \cup {None}]
    BY DEF Allocate, TableInv, TypeOK
  <1>3. ASSUME NEW p \in Objects
        PROVE  References(p)' = Count(p)'
    <2>1. References(p)' = References(p)
      BY RefsSame
    <2>2. Count(p)' = Count(p)
      BY <1>1, <1>2 DEF Count
    <2> QED BY <2>1, <2>2 DEF CountInv, Counted
  <1>4. KeyInv'
    <2> SUFFICES ASSUME NEW w \in Owned
                 PROVE  addr'[wrappers[w].obj] = wrappers[w].key
      BY DEF KeyInv, Owned
    <2>1. wrappers[w].obj \in Objects /\ addr[wrappers[w].obj] = wrappers[w].key
          /\ wrappers[w].key \in Addresses
      BY OwnedEntry
    <2>2. wrappers[w].obj # o
      BY <2>1, <1>1, ScaffoldObjectsAssumption
    <2> QED BY <2>1, <2>2, <1>2
  <1>5. Orphans(map, held, kept)' = {}
    BY <1>2 DEF CountInv, Orphans, Alive
  <1> QED BY <1>3, <1>4, <1>5 DEF Counted

\* A constructor's object, with no reference yet.
LEMMA ConstructCounts ==
  ASSUME NEW t \in Threads, NEW o \in Objects, NEW a \in Addresses, TableInv, CountInv,
         Construct(t, o, a)
  PROVE  CountInv'
  <1>1. Counted' /\ KeyInv' /\ Orphans(map, held, kept)' = {}
    <2>1. Allocate(o, a) /\ UNCHANGED <<map, wrappers, lost, kept>> /\ pc[t] = "idle"
      BY DEF Construct, tableVars
    <2>2. pc' = [pc EXCEPT ![t] = "insert"] /\ res' = [res EXCEPT ![t] = o]
          /\ held' = [held EXCEPT ![t] = {o}] /\ held[t] = {}
      BY DEF Construct, Move, TableInv, ResultInv
    <2>3. pc'[t] = "insert" /\ held'[t] = {o} /\ \A u \in Threads : held[u] \subseteq held'[u]
      BY <2>2 DEF TableInv, TypeOK
    <2>4. \A u \in Threads \ {t} : pc'[u] = pc[u] /\ res'[u] = res[u]
      BY <2>2 DEF TableInv, TypeOK
    <2> QED BY <2>1, <2>3, <2>4, AllocateKeeps
  <1>2. UseInv' /\ RightObject'
    BY DEF Construct, Move, TableInv, TypeOK, CountInv, UseInv, RightObject, Owned
  <1> QED BY <1>1, <1>2 DEF CountInv

\* An object that the library makes to return it.
LEMMA ReturnNewCounts ==
  ASSUME NEW t \in Threads, NEW o \in Objects, NEW a \in Addresses, TableInv, CountInv,
         ReturnNew(t, o, a)
  PROVE  CountInv'
  <1>1. Counted' /\ KeyInv' /\ Orphans(map, held, kept)' = {}
    <2>1. Allocate(o, a) /\ UNCHANGED <<map, wrappers, lost, kept>> /\ pc[t] = "body"
      BY DEF ReturnNew, tableVars
    <2>2. pc' = [pc EXCEPT ![t] = "insert"] /\ res' = [res EXCEPT ![t] = o]
          /\ held' = [held EXCEPT ![t] = held[t] \cup {o}]
      BY DEF ReturnNew, Move
    <2>3. pc'[t] = "insert" /\ o \in held'[t] /\ \A u \in Threads : held[u] \subseteq held'[u]
      BY <2>2 DEF TableInv, TypeOK
    <2>4. \A u \in Threads \ {t} : pc'[u] = pc[u] /\ res'[u] = res[u]
      BY <2>2 DEF TableInv, TypeOK
    <2> QED BY <2>1, <2>3, <2>4, AllocateKeeps
  <1>2. UseInv' /\ RightObject'
    BY DEF ReturnNew, Move, TableInv, TypeOK, CountInv, UseInv, RightObject, Owned
  <1> QED BY <1>1, <1>2 DEF CountInv

\* A call starts on wrappers that are owned and that nobody is freeing.
LEMMA CallCounts ==
  ASSUME NEW t \in Threads, NEW ws \in SUBSET Usable, TableInv, CountInv, Call(t, ws)
  PROVE  CountInv'
  <1>1. Idle(t)
    BY DEF Call, Move, heapVars, tableVars, TableInv, TypeOK, Idle
  <1>2. use'[t] = [w \in ws |-> None] /\ \A u \in Threads \ {t} : use'[u] = use[u]
    BY DEF Call, TableInv, TypeOK
  <1>3. pc'[t] \in {"at", "body"} /\ \A u \in Threads \ {t} : pc'[u] = pc[u]
    BY DEF Call, Move, TableInv, TypeOK
  <1>4. ws \subseteq Owned /\ \A u \in Threads : pc[u] = "erase" => ws \cap DOMAIN use[u] = {}
    BY DEF Usable
  <1>5. UseInv'
    <2>1. Owned' = Owned
      BY <1>1 DEF Idle, Owned
    <2> QED BY <1>2, <1>3, <1>4, <2>1 DEF CountInv, UseInv
  <1>6. RightObject'
    BY <1>1, <1>2, <1>3 DEF CountInv, RightObject, Idle
  <1> QED BY <1>1, <1>5, <1>6, IdleKeeps DEF CountInv

\* What is found under a wrapper's key is its object.
LEMMA AtCounts ==
  ASSUME NEW t \in Threads, NEW w \in Wrappers, TableInv, CountInv, At(t, w)
  PROVE  CountInv'
  <1> DEFINE key == wrappers[w].key
             o == wrappers[w].obj
  <1>1. w \in Owned /\ w \in DOMAIN use[t] /\ pc[t] = "at"
    BY DEF At, CountInv, UseInv
  <1>2. key \in DOMAIN map /\ map[key].ptr = o /\ o \in Objects
    BY <1>1, OwnedEntry
  <1>3. /\ use' = [use EXCEPT ![t][w] = o]
        /\ held' = [held EXCEPT ![t] = held[t] \cup {o}]
        /\ pc' = [pc EXCEPT ![t] = "body"] \/ pc' = [pc EXCEPT ![t] = "at"]
        /\ UNCHANGED <<addr, made, kept, map, wrappers, res, lost>>
    BY <1>2 DEF At, Move, heapVars, tableVars
  <1> HIDE DEF key, o
  <1>4. Idle(t)
    BY <1>1, <1>3 DEF TableInv, TypeOK, Idle
  <1>5. /\ \A u \in Threads \ {t} : use'[u] = use[u]
        /\ DOMAIN use'[t] = DOMAIN use[t]
        /\ use'[t][w] = o /\ \A v \in DOMAIN use[t] \ {w} : use'[t][v] = use[t][v]
    BY <1>1, <1>3 DEF TableInv, TypeOK
  <1>6. pc'[t] \in {"at", "body"} /\ \A u \in Threads \ {t} : pc'[u] = pc[u]
    BY <1>3 DEF TableInv, TypeOK
  <1>7. UseInv'
    <2>1. Owned' = Owned
      BY <1>3 DEF Owned
    <2> QED BY <1>5, <1>6, <2>1 DEF CountInv, UseInv
  <1>8. RightObject'
    BY <1>3, <1>5, <1>6 DEF CountInv, RightObject, o
  <1> QED BY <1>4, <1>7, <1>8, IdleKeeps DEF CountInv

\* A wrapper is freed when no call uses it.
LEMMA FreeCounts ==
  ASSUME NEW t \in Threads, NEW w \in Wrappers, TableInv, CountInv, Free(t, w)
  PROVE  CountInv'
  <1>1. Idle(t)
    BY DEF Free, Move, heapVars, tableVars, TableInv, TypeOK, Idle
  <1>2. use'[t] = [v \in {w} |-> None] /\ \A u \in Threads \ {t} : use'[u] = use[u]
    BY DEF Free, TableInv, TypeOK
  <1>3. pc'[t] = "erase" /\ \A u \in Threads \ {t} : pc'[u] = pc[u]
    BY DEF Free, Move, TableInv, TypeOK
  <1>4. w \in Owned /\ \A u \in Threads : w \notin DOMAIN use[u]
    BY DEF Free
  <1>5. UseInv'
    <2>1. Owned' = Owned
      BY <1>1 DEF Idle, Owned
    <2> QED BY <1>2, <1>3, <1>4, <2>1 DEF CountInv, UseInv
  <1>6. RightObject'
    BY <1>1, <1>2, <1>3 DEF CountInv, RightObject, Idle
  <1> QED BY <1>1, <1>5, <1>6, IdleKeeps DEF CountInv

\* The library takes objects it was given, and returns one of them or none.
LEMMA LibraryCounts ==
  ASSUME NEW t \in Threads, NEW o, TableInv, CountInv,
         Keep(t, o) \/ ReturnObject(t, o) \/ ReturnNothing(t)
  PROVE  CountInv'
  <1>1. pc[t] = "body" /\ res[t] = None
    BY DEF Keep, ReturnObject, ReturnNothing, TableInv, ResultInv
  <1>2. UNCHANGED <<addr, map, wrappers, lost, use>>
    BY DEF Keep, ReturnObject, ReturnNothing, heapVars, tableVars
  <1>3. kept \subseteq kept' /\ \A u \in Threads : held[u] \subseteq held'[u]
    BY DEF Keep, ReturnObject, ReturnNothing, heapVars, TableInv, TypeOK
  <1>4. /\ \A u \in Threads \ {t} : pc'[u] = pc[u] /\ res'[u] = res[u]
        /\ pc'[t] \in {"body", "insert"} \/ (pc'[t] = "return" /\ res'[t] = None)
    <2>1. CASE Keep(t, o)
      BY <1>1, <2>1 DEF Keep
    <2>2. CASE ReturnObject(t, o)
      BY <2>2 DEF ReturnObject, Move, TableInv, TypeOK
    <2>3. CASE ReturnNothing(t)
      BY <1>1, <2>3 DEF ReturnNothing, Move, TableInv, TypeOK
    <2> QED BY <2>1, <2>2, <2>3
  <1>5. Idle(t)
    BY <1>1, <1>2, <1>3, <1>4 DEF Idle
  <1>6. UseInv' /\ RightObject'
    BY <1>2, <1>4 DEF CountInv, UseInv, RightObject, Owned
  <1> QED BY <1>5, <1>6, IdleKeeps DEF CountInv
-----------------------------------------------------------------------------
\* What dies when the library drops an object had no reference.
LEMMA DropCounts ==
  ASSUME NEW t \in Threads, NEW o \in Objects, TableInv, CountInv, Drop(t, o)
  PROVE  CountInv'
  <1>1. Sweep /\ UNCHANGED <<map, wrappers, pc, use, res, lost>>
    BY DEF Drop, Sweep, tableVars
  <1>2. Counted'
    BY <1>1, SweepKeeps, RefsSame DEF CountInv, Counted
  <1>3. KeyInv'
    BY <1>1, SweepKeeps, OwnedEntry DEF KeyInv, Owned
  <1>4. UseInv' /\ RightObject'
    BY <1>1 DEF CountInv, UseInv, RightObject, Owned
  <1> QED BY <1>1, <1>2, <1>3, <1>4, SweepKeeps DEF CountInv

\* The end of a call: its thread uses nothing any more.
LEMMA LeaveFacts ==
  ASSUME NEW t \in Threads, TableInv, CountInv, Leave(t), UNCHANGED <<map, kept>>
  PROVE  /\ Sweep
         /\ DOMAIN use'[t] = {}
         /\ \A u \in Threads \ {t} : use'[u] = use[u] /\ pc'[u] = pc[u] /\ res'[u] = res[u]
         /\ pc'[t] = "idle" /\ res'[t] = None
  <1>1. Sweep
    BY DEF Leave, Sweep
  <1> QED BY <1>1 DEF Leave, Move, Nothing, TableInv, TypeOK

\* The end of a call leaves the other calls' wrappers to them.
LEMMA LeaveUse ==
  ASSUME NEW t \in Threads, TableInv, CountInv, Leave(t), UNCHANGED <<map, kept>>,
         \A w \in Owned : wrappers'[w] = wrappers[w]
  PROVE  UseInv' /\ RightObject'
  <1>1. Owned \subseteq Owned'
    BY DEF Owned
  <1> QED BY <1>1, LeaveFacts DEF CountInv, UseInv, RightObject

\* A call that returns no object.
LEMMA ReturnVoidCounts ==
  ASSUME NEW t \in Threads, TableInv, CountInv, ReturnVoid(t)
  PROVE  CountInv'
  <1>1. Leave(t) /\ UNCHANGED <<map, kept, wrappers, lost>> /\ res[t] = None
    BY DEF ReturnVoid, tableVars
  <1>2. ASSUME NEW o \in Objects PROVE References(o)' = References(o)
    <2>1. o # None
      BY ScaffoldObjectsAssumption
    <2> QED BY <1>1, <2>1, LeaveFacts, RefsSame
  <1>3. Counted'
    BY <1>1, <1>2, LeaveFacts, SweepKeeps DEF CountInv, Counted
  <1>4. KeyInv'
    BY <1>1, LeaveFacts, SweepKeeps, OwnedEntry DEF KeyInv, Owned
  <1> QED BY <1>1, <1>3, <1>4, LeaveFacts, LeaveUse, SweepKeeps DEF CountInv

\* The reference passes from the thread to the wrapper.
LEMMA ReturnCounts ==
  ASSUME NEW t \in Threads, NEW w \in Wrappers, TableInv, CountInv, Return(t, w)
  PROVE  CountInv'
  <1> DEFINE r == res[t]
  <1>1. /\ Leave(t) /\ UNCHANGED <<map, kept, lost>>
        /\ pc[t] = "return" /\ r # None /\ w \notin Owned
        /\ wrappers' = [wrappers EXCEPT ![w] = [key |-> addr[r], obj |-> r]]
    BY DEF Return, tableVars
  <1>2. /\ r \in Objects /\ addr[r] \in DOMAIN map /\ map[addr[r]].ptr = r
        /\ addr[r] \in Addresses
    BY <1>1, ResultEntry DEF TableInv, TypeOK
  <1>3. /\ \A v \in Wrappers \ {w} : wrappers'[v] = wrappers[v]
        /\ wrappers'[w] = [key |-> addr[r], obj |-> r] /\ wrappers'[w] # Unused
    BY <1>1, <1>2, ScaffoldObjectsAssumption DEF TableInv, TypeOK, Unused
  <1>4. Owned' = Owned \cup {w}
    BY <1>3 DEF Owned
  <1>5. Sweep
    BY <1>1, LeaveFacts
  <1> HIDE DEF r
  <1>6. ASSUME NEW o \in Objects PROVE References(o)' = References(o)
    <2>1. References(o)' = Cardinality(OwnRefs(o)') + Cardinality(WayRefs(o)') + lost'[o]
      BY DEF References, OwnRefs, WayRefs
    <2>2. References(o) = Cardinality(OwnRefs(o)) + Cardinality(WayRefs(o)) + lost[o]
          /\ Cardinality(OwnRefs(o)) \in Nat /\ Cardinality(WayRefs(o)) \in Nat
          /\ OwnRefs(o) \subseteq Wrappers /\ WayRefs(o) \subseteq Threads /\ lost[o] \in Nat
      BY RefParts DEF TableInv, TypeOK
    <2>3. CASE o = r
      <3>1. OwnRefs(o)' = OwnRefs(o) \cup {w} /\ w \notin OwnRefs(o)
        BY <1>1, <1>3, <1>4, <2>3 DEF OwnRefs, Owned
      <3>2. WayRefs(o)' = WayRefs(o) \ {t} /\ t \in WayRefs(o)
        BY <1>1, <1>2, <2>3, LeaveFacts, ScaffoldObjectsAssumption DEF WayRefs, r
      <3>3. Cardinality(OwnRefs(o) \cup {w}) = Cardinality(OwnRefs(o)) + 1
        BY <2>2, <3>1, OneMore
      <3>4. Cardinality(WayRefs(o) \ {t}) = Cardinality(WayRefs(o)) - 1
        BY <2>2, <3>2, OneLess
      <3> QED BY <1>1, <2>1, <2>2, <3>1, <3>2, <3>3, <3>4
    <2>4. CASE o # r
      <3>1. OwnRefs(o)' = OwnRefs(o)
        BY <1>3, <1>4, <2>4, <1>1 DEF OwnRefs, Owned
      <3>2. WayRefs(o)' = WayRefs(o)
        BY <1>1, <2>4, LeaveFacts, ScaffoldObjectsAssumption DEF WayRefs, r
      <3> QED BY <1>1, <2>1, <2>2, <3>1, <3>2
    <2> QED BY <2>3, <2>4
  <1>7. Counted'
    BY <1>1, <1>5, <1>6, SweepKeeps DEF CountInv, Counted
  <1>8. KeyInv'
    <2>1. addr'[r] = addr[r]
      BY <1>1, <1>2, <1>5, SweepKeeps
    <2>2. ASSUME NEW v \in Owned PROVE addr'[wrappers[v].obj] = wrappers[v].key
      BY <1>1, <1>5, SweepKeeps, OwnedEntry
    <2> QED BY <1>1, <1>3, <1>4, <2>1, <2>2 DEF KeyInv, Owned
  <1>9. UseInv' /\ RightObject'
    BY <1>1, <1>3, LeaveUse DEF Owned
  <1> QED BY <1>1, <1>5, <1>7, <1>8, <1>9, SweepKeeps DEF CountInv

\* The reference passes from the thread to what is lost.
LEMMA ReturnFailsCounts ==
  ASSUME NEW t \in Threads, TableInv, CountInv, ReturnFails(t)
  PROVE  CountInv'
  <1> DEFINE r == res[t]
  <1>1. /\ Leave(t) /\ UNCHANGED <<map, kept, wrappers>>
        /\ pc[t] = "return" /\ r # None
        /\ lost' = [lost EXCEPT ![r] = lost[r] + 1]
    BY DEF ReturnFails, tableVars
  <1>2. r \in Objects
    BY <1>1 DEF TableInv, TypeOK
  <1> HIDE DEF r
  <1>3. lost'[r] = lost[r] + 1 /\ \A o \in Objects \ {r} : lost'[o] = lost[o]
    BY <1>1, <1>2 DEF TableInv, TypeOK
  <1>4. Sweep
    BY <1>1, LeaveFacts
  <1>5. ASSUME NEW o \in Objects PROVE References(o)' = References(o)
    <2>1. References(o)' = Cardinality(OwnRefs(o)') + Cardinality(WayRefs(o)') + lost'[o]
      BY DEF References, OwnRefs, WayRefs
    <2>2. References(o) = Cardinality(OwnRefs(o)) + Cardinality(WayRefs(o)) + lost[o]
          /\ Cardinality(OwnRefs(o)) \in Nat /\ Cardinality(WayRefs(o)) \in Nat
          /\ WayRefs(o) \subseteq Threads /\ lost[o] \in Nat
      BY RefParts DEF TableInv, TypeOK
    <2>3. OwnRefs(o)' = OwnRefs(o)
      BY <1>1 DEF OwnRefs, Owned
    <2>4. CASE o = r
      <3>1. WayRefs(o)' = WayRefs(o) \ {t} /\ t \in WayRefs(o)
        BY <1>1, <1>2, <2>4, LeaveFacts, ScaffoldObjectsAssumption DEF WayRefs, r
      <3>2. Cardinality(WayRefs(o) \ {t}) = Cardinality(WayRefs(o)) - 1
        BY <2>2, <3>1, OneLess
      <3> QED BY <1>3, <2>1, <2>2, <2>3, <2>4, <3>1, <3>2
    <2>5. CASE o # r
      <3>1. WayRefs(o)' = WayRefs(o)
        BY <1>1, <2>5, LeaveFacts, ScaffoldObjectsAssumption DEF WayRefs, r
      <3> QED BY <1>3, <2>1, <2>2, <2>3, <2>5, <3>1
    <2> QED BY <2>4, <2>5
  <1>6. Counted'
    BY <1>1, <1>4, <1>5, SweepKeeps DEF CountInv, Counted
  <1>7. KeyInv'
    BY <1>1, <1>4, SweepKeeps, OwnedEntry DEF KeyInv, Owned
  <1> QED BY <1>1, <1>4, <1>6, <1>7, LeaveUse, SweepKeeps DEF CountInv

\* The table counts the reference that is on its way from now on.
LEMMA InsertCounts ==
  ASSUME NEW t \in Threads, TableInv, CountInv, Insert(t)
  PROVE  CountInv'
  <1> DEFINE r == res[t]
             a == addr[r]
  <1>1. /\ pc[t] = "insert" /\ pc' = [pc EXCEPT ![t] = "return"]
        /\ UNCHANGED <<addr, kept, wrappers, use, held, res, lost>>
    BY DEF Insert, Move, heapVars
  <1>2. r \in Objects /\ r \in Alive /\ a \in Addresses
    BY <1>1, ScaffoldObjectsAssumption DEF TableInv, TypeOK, ResultInv, HeapInv, Alive
  <1>3. /\ \A b \in DOMAIN map : b # a => map'[b] = map[b]
        /\ DOMAIN map' = DOMAIN map \cup {a}
        /\ map'[a].ref_count = Count(r) + 1
        /\ a \in DOMAIN map => map'[a].ptr = map[a].ptr
        /\ Count(r) \in Nat
    <2>1. CASE a \in DOMAIN map
      <3>1. map' = [x \in DOMAIN map \cup {a} |->
                      IF x = a THEN [ptr |-> map[a].ptr, ref_count |-> map[a].ref_count + 1] ELSE map[x]]
        BY <2>1 DEF Insert, With
      <3> QED BY <2>1, <3>1 DEF Count, TableInv, TypeOK
    <2>2. CASE a \notin DOMAIN map
      <3>1. map' = [x \in DOMAIN map \cup {a} |->
                      IF x = a THEN [ptr |-> r, ref_count |-> 1] ELSE map[x]]
        BY <2>2 DEF Insert, With
      <3> QED BY <2>2, <3>1 DEF Count
    <2> QED BY <2>1, <2>2
  <1> HIDE DEF r
  <1>4. ASSUME NEW o \in Objects PROVE References(o)' = Count(o)'
    <2>1. References(o)' = Cardinality(OwnRefs(o)') + Cardinality(WayRefs(o)') + lost'[o]
      BY DEF References, OwnRefs, WayRefs
    <2>2. References(o) = Cardinality(OwnRefs(o)) + Cardinality(WayRefs(o)) + lost[o]
          /\ Cardinality(OwnRefs(o)) \in Nat /\ Cardinality(WayRefs(o)) \in Nat
          /\ WayRefs(o) \subseteq Threads /\ lost[o] \in Nat
      BY RefParts DEF TableInv, TypeOK
    <2>3. OwnRefs(o)' = OwnRefs(o) /\ lost' = lost
      BY <1>1 DEF OwnRefs, Owned
    <2>4. pc'[t] = "return" /\ \A u \in Threads \ {t} : pc'[u] = pc[u]
      BY <1>1 DEF TableInv, TypeOK
    <2>5. References(o) = Count(o)
      BY DEF CountInv, Counted
    <2>6. CASE o = r
      <3>1. WayRefs(o)' = WayRefs(o) \cup {t} /\ t \notin WayRefs(o)
        BY <1>1, <2>4, <2>6 DEF WayRefs, r
      <3>2. Cardinality(WayRefs(o) \cup {t}) = Cardinality(WayRefs(o)) + 1
        BY <2>2, <3>1, OneMore
      <3>3. Count(o)' = Count(o) + 1
        BY <1>1, <1>3, <2>6 DEF Count
      <3> QED BY <2>1, <2>2, <2>3, <2>5, <3>1, <3>2, <3>3
    <2>7. CASE o # r
      <3>1. WayRefs(o)' = WayRefs(o)
        BY <1>1, <2>4, <2>7 DEF WayRefs, r
      <3>2. addr[o] # a
        BY <1>2, <2>7, ScaffoldObjectsAssumption DEF TableInv, HeapInv, Alive
      <3>3. Count(o)' = Count(o)
        BY <1>1, <1>3, <3>2 DEF Count
      <3> QED BY <2>1, <2>2, <2>3, <2>5, <3>1, <3>3
    <2> QED BY <2>6, <2>7
  <1>5. KeyInv'
    BY <1>1 DEF CountInv, KeyInv, Owned
  <1>6. UseInv' /\ RightObject'
    BY <1>1 DEF CountInv, UseInv, RightObject, Owned, TableInv, TypeOK
  <1>7. Orphans(map, held, kept)' = {}
    BY <1>1, <1>3 DEF CountInv, Orphans, Alive
  <1> QED BY <1>4, <1>5, <1>6, <1>7 DEF CountInv, Counted

\* The wrapper's reference is taken back: its key is in the table.  What no
\* reference is left to has no entry then.
LEMMA EraseCounts ==
  ASSUME NEW t \in Threads, NEW w \in Wrappers, TableInv, CountInv, Erase(t, w)
  PROVE  CountInv'
  <1> DEFINE a == wrappers[w].key
             r == wrappers[w].obj
  <1>1. pc[t] = "erase" /\ w \in DOMAIN use[t] /\ w \in Owned
    BY DEF Erase, EraseWhen, CountInv, UseInv
  <1>2. /\ r \in Objects /\ a \in Addresses /\ addr[r] = a
        /\ a \in DOMAIN map /\ map[a].ptr = r
        /\ Count(r) = map[a].ref_count /\ map[a].ref_count \in Nat /\ map[a].ref_count > 0
    BY <1>1, OwnedEntry DEF Count, TableInv, TypeOK, EntryInv
  <1>3. /\ wrappers' = [wrappers EXCEPT ![w] = Unused]
        /\ use' = [use EXCEPT ![t] = Nothing]
        /\ UNCHANGED <<addr, made, kept, res, lost>>
    BY DEF Erase, EraseWhen, heapVars
  <1>4. /\ \A v \in Wrappers \ {w} : wrappers'[v] = wrappers[v]
        /\ wrappers'[w] = Unused
        /\ Owned' = Owned \ {w}
    BY <1>3 DEF TableInv, TypeOK, Owned
  <1>5. /\ pc'[t] \in {"idle", "destroy"} /\ \A u \in Threads \ {t} : pc'[u] = pc[u]
        /\ \A u \in Threads \ {t} : held'[u] = held[u]
        /\ held[t] \subseteq held'[t]
    BY <1>2 DEF Erase, EraseWhen, Move, TableInv, TypeOK, ResultInv
  <1>6. /\ \A b \in DOMAIN map : b # a => b \in DOMAIN map' /\ map'[b] = map[b]
        /\ \A b \in DOMAIN map' : b \in DOMAIN map
        /\ a \in DOMAIN map' => map'[a].ref_count = map[a].ref_count - 1 /\ map'[a].ptr = r
        /\ a \notin DOMAIN map' =>
             /\ map[a].ref_count = 1
             /\ r \in Orphans(map', held, kept) => r \in held'[t]
    <2>1. CASE map[a].ref_count = 1
      <3>1. map' = [x \in DOMAIN map \ {a} |-> map[x]]
        BY <1>2, <2>1 DEF Erase, EraseWhen, Without
      <3>2. r \in Orphans(map', held, kept) => held' = [held EXCEPT ![t] = {r}]
        BY <1>2, <2>1 DEF Erase, EraseWhen
      <3>3. r \in Orphans(map', held, kept) => r \in held'[t]
        BY <3>2 DEF TableInv, TypeOK
      <3> QED BY <2>1, <3>1, <3>3
    <2>2. CASE map[a].ref_count # 1
      <3>1. map' = [x \in DOMAIN map \cup {a} |->
                      IF x = a THEN [ptr |-> r, ref_count |-> map[a].ref_count - 1] ELSE map[x]]
        BY <1>2, <2>2 DEF Erase, EraseWhen, With
      <3> QED BY <1>2, <3>1
    <2> QED BY <2>1, <2>2
  <1> HIDE DEF a, r
  <1>7. ASSUME NEW o \in Objects PROVE References(o)' = Count(o)'
    <2>1. References(o)' = Cardinality(OwnRefs(o)') + Cardinality(WayRefs(o)') + lost'[o]
      BY DEF References, OwnRefs, WayRefs
    <2>2. References(o) = Cardinality(OwnRefs(o)) + Cardinality(WayRefs(o)) + lost[o]
          /\ Cardinality(OwnRefs(o)) \in Nat /\ Cardinality(WayRefs(o)) \in Nat
          /\ OwnRefs(o) \subseteq Wrappers /\ lost[o] \in Nat
      BY RefParts DEF TableInv, TypeOK
    <2>3. WayRefs(o)' = WayRefs(o) /\ lost' = lost
      BY <1>1, <1>3, <1>5 DEF WayRefs
    <2>4. References(o) = Count(o)
      BY DEF CountInv, Counted
    <2>5. CASE o = r
      <3>1. OwnRefs(o)' = OwnRefs(o) \ {w} /\ w \in OwnRefs(o)
        BY <1>1, <1>4, <2>5 DEF OwnRefs, Owned, r
      <3>2. Cardinality(OwnRefs(o) \ {w}) = Cardinality(OwnRefs(o)) - 1
        BY <2>2, <3>1, OneLess
      <3>3. Count(o)' = Count(o) - 1
        BY <1>2, <1>3, <1>6, <2>5 DEF Count
      <3> QED BY <2>1, <2>2, <2>3, <2>4, <3>1, <3>2, <3>3
    <2>6. CASE o # r
      <3>1. OwnRefs(o)' = OwnRefs(o)
        BY <1>4, <2>6 DEF OwnRefs, Owned, r
      <3>2. addr[o] # a
        BY <1>2, <2>6, ScaffoldObjectsAssumption DEF TableInv, HeapInv, Alive
      <3>3. Count(o)' = Count(o)
        BY <1>3, <1>6, <3>2 DEF Count
      <3> QED BY <2>1, <2>2, <2>3, <2>4, <3>1, <3>3
    <2> QED BY <2>5, <2>6
  <1>8. KeyInv'
    BY <1>3, <1>4 DEF CountInv, KeyInv, Owned
  <1>9. DOMAIN use'[t] = {} /\ \A u \in Threads \ {t} : use'[u] = use[u] /\ w \notin DOMAIN use[u]
    BY <1>1, <1>3 DEF Nothing, TableInv, TypeOK, CountInv, UseInv
  <1>10. UseInv' /\ RightObject'
    BY <1>4, <1>5, <1>9 DEF CountInv, UseInv, RightObject, Owned
  <1>11. Orphans(map, held, kept)' = {}
    <2> SUFFICES ASSUME NEW o \in Objects, addr[o] # None, o \notin kept,
                        \A u \in Threads : o \notin held'[u],
                        \A b \in DOMAIN map' : map'[b].ptr # o
                 PROVE  FALSE
      BY <1>3 DEF Orphans, Alive
    <2>1. \A u \in Threads : o \notin held[u]
      BY <1>5
    <2>2. PICK b \in DOMAIN map : map[b].ptr = o
      BY <2>1 DEF CountInv, Orphans, Alive
    <2>3. b = a /\ o = r /\ a \notin DOMAIN map'
      BY <1>2, <1>6, <2>2
    <2> QED BY <1>6, <2>1, <2>3 DEF Orphans, Alive
  <1> QED BY <1>7, <1>8, <1>10, <1>11 DEF CountInv, Counted

\* What the destructor leaves had no entry, and nobody else held it.
LEMMA DestroyCounts ==
  ASSUME NEW t \in Threads, TableInv, CountInv, Destroy(t)
  PROVE  CountInv'
  <1>1. /\ pc[t] = "destroy" /\ pc' = [pc EXCEPT ![t] = "idle"]
        /\ addr' = [o \in Objects |-> IF o \in held[t] THEN None ELSE addr[o]]
        /\ held' = [held EXCEPT ![t] = {}]
        /\ UNCHANGED <<kept, map, wrappers, use, res, lost>>
    BY DEF Destroy, Move
  <1>2. /\ pc'[t] = "idle" /\ \A u \in Threads \ {t} : pc'[u] = pc[u]
        /\ held'[t] = {} /\ \A u \in Threads \ {t} : held'[u] = held[u]
    BY <1>1 DEF TableInv, TypeOK
  <1>3. /\ held[t] \subseteq Alive
        /\ \A o \in held[t] : \A a \in DOMAIN map : map[a].ptr # o
    BY <1>1 DEF TableInv, DyingInv, HeapInv
  <1>4. ASSUME NEW o \in Objects PROVE References(o)' = Count(o)'
    <2>1. References(o)' = References(o)
      BY <1>1, <1>2, RefsSame
    <2>2. Count(o)' = Count(o)
      <3>1. CASE o \in held[t]
        <4>1. addr[o] \notin DOMAIN map
          BY <1>3, <3>1 DEF TableInv, HeapInv, EntryInv, TypeOK, Alive
        <4>2. addr'[o] = None /\ None \notin DOMAIN map
          BY <1>1, <3>1, ScaffoldObjectsAssumption DEF TableInv, TypeOK
        <4> QED BY <1>1, <4>1, <4>2 DEF Count
      <3>2. CASE o \notin held[t]
        BY <1>1, <3>2 DEF Count
      <3> QED BY <3>1, <3>2
    <2> QED BY <2>1, <2>2 DEF CountInv, Counted
  <1>5. KeyInv'
    <2> SUFFICES ASSUME NEW w \in Owned
                 PROVE  addr'[wrappers[w].obj] = wrappers[w].key
      BY <1>1 DEF KeyInv, Owned
    <2> QED BY <1>1, <1>3, OwnedEntry
  <1>6. UseInv' /\ RightObject'
    BY <1>1, <1>2 DEF CountInv, UseInv, RightObject, Owned
  <1>7. Orphans(map, held, kept)' = {}
    BY <1>1, <1>2 DEF CountInv, Orphans, Alive
  <1> QED BY <1>4, <1>5, <1>6, <1>7 DEF CountInv, Counted
-----------------------------------------------------------------------------
\* At first there is nothing to count.
LEMMA InitCounts == Init => CountInv
  <1> SUFFICES ASSUME Init PROVE CountInv
    OBVIOUS
  <1>1. Owned = {}
    BY DEF Init, Owned
  <1>2. Counted
    <2> SUFFICES ASSUME NEW o \in Objects PROVE References(o) = Count(o)
      BY DEF Counted
    <2>1. {w \in Owned : wrappers[w].obj = o} = {} /\ {t \in Threads : pc[t] = "return" /\ res[t] = o} = {}
      BY <1>1 DEF Init
    <2>2. lost[o] = 0 /\ Count(o) = 0
      BY DEF Init, Count
    <2>3. Cardinality({}) = 0
      BY FS_EmptySet
    <2>4. References(o) = 0
      <3> DEFINE W == {w \in Owned : wrappers[w].obj = o}
                 T == {t \in Threads : pc[t] = "return" /\ res[t] = o}
      <3>1. References(o) = Cardinality(W) + Cardinality(T) + lost[o] /\ W = {} /\ T = {}
        BY <2>1 DEF References
      <3> HIDE DEF W, T
      <3> QED BY <2>2, <2>3, <3>1
    <2> QED BY <2>2, <2>4
  <1>3. KeyInv /\ UseInv /\ RightObject
    BY <1>1 DEF Init, KeyInv, UseInv, RightObject, Nothing
  <1>4. Orphans(map, held, kept) = {}
    BY DEF Init, Orphans, Alive
  <1> QED BY <1>2, <1>3, <1>4 DEF CountInv

\* Every step preserves the invariant.
LEMMA NextCounts == TableInv /\ CountInv /\ [Next]_vars => CountInv'
  <1> SUFFICES ASSUME TableInv, CountInv, [Next]_vars PROVE CountInv'
    OBVIOUS
  <1>1. CASE Next
    <2> PICK t \in Threads : LibraryStep(t) \/ GeneratedStep(t) \/ ReturnFails(t) \/ ForeignStep(t)
      BY <1>1 DEF Next
    <2>1. CASE LibraryStep(t)
      <3>1. ASSUME NEW o \in Objects, Keep(t, o) \/ Drop(t, o) \/ ReturnObject(t, o)
            PROVE  CountInv'
        BY <3>1, LibraryCounts, DropCounts
      <3>2. ASSUME NEW o \in Objects, NEW a \in Addresses, ReturnNew(t, o, a)
            PROVE  CountInv'
        BY <3>2, ReturnNewCounts
      <3>3. CASE ReturnNothing(t)
        BY <3>3, LibraryCounts
      <3> QED BY <2>1, <3>1, <3>2, <3>3 DEF LibraryStep
    <2>2. CASE GeneratedStep(t)
      <3>1. ASSUME NEW w \in Wrappers, At(t, w) \/ Return(t, w) \/ Erase(t, w)
            PROVE  CountInv'
        BY <3>1, AtCounts, ReturnCounts, EraseCounts
      <3>2. CASE Insert(t) \/ ReturnVoid(t) \/ Destroy(t)
        BY <3>2, InsertCounts, ReturnVoidCounts, DestroyCounts
      <3> QED BY <2>2, <3>1, <3>2 DEF GeneratedStep
    <2>3. CASE ReturnFails(t)
      BY <2>3, ReturnFailsCounts
    <2>4. CASE ForeignStep(t)
      <3>1. ASSUME NEW o \in Objects, NEW a \in Addresses, Construct(t, o, a)
            PROVE  CountInv'
        BY <3>1, ConstructCounts
      <3>2. ASSUME NEW ws \in SUBSET Usable, Call(t, ws)
            PROVE  CountInv'
        BY <3>2, CallCounts
      <3>3. ASSUME NEW w \in Wrappers, Free(t, w)
            PROVE  CountInv'
        BY <3>3, FreeCounts
      <3> QED BY <2>4, <3>1, <3>2, <3>3 DEF ForeignStep
    <2> QED BY <2>1, <2>2, <2>3, <2>4
  <1>2. CASE UNCHANGED vars
    <2> USE <1>2 DEF vars, heapVars, tableVars
    <2>1. Counted' /\ KeyInv' /\ UseInv' /\ RightObject'
      BY DEF CountInv, Counted, References, Count, KeyInv, UseInv, RightObject, Owned
    <2>2. Orphans(map, held, kept)' = {}
      BY DEF CountInv, Orphans, Alive
    <2> QED BY <2>1, <2>2 DEF CountInv
  <1> QED BY <1>1, <1>2

\* On top of what TableInvariance says of the table and the heap: references
\* are counted as they are, keys are addresses, calls and the freeing of a
\* wrapper exclude each other, and nothing lives that nothing points to.
THEOREM CountInvariance == Spec => [](TableInv /\ CountInv)
  <1>1. Init => CountInv
    BY InitCounts
  <1>2. TableInv /\ CountInv /\ [Next]_vars => CountInv'
    BY NextCounts
  <1> QED BY <1>1, <1>2, TableInvariance, PTL DEF Spec

\* An object's entry counts the references that were handed out and not taken
\* back, and an object without any has no entry (object_map.cpp 14-18, 29-31).
THEOREM EntriesCountReferences == Spec => []CountsExact
  <1>1. TableInv /\ CountInv => CountsExact
    <2> SUFFICES ASSUME TableInv, CountInv, NEW o \in Objects
                 PROVE  References(o) =
                          IF \E a \in DOMAIN map : map[a].ptr = o THEN map[addr[o]].ref_count ELSE 0
      BY DEF CountsExact
    <2>1. References(o) = Count(o)
      BY DEF CountInv, Counted
    <2>2. CASE \E a \in DOMAIN map : map[a].ptr = o
      BY <2>1, <2>2 DEF Count, TableInv, EntryInv
    <2>3. CASE ~\E a \in DOMAIN map : map[a].ptr = o
      <3>1. addr[o] \notin DOMAIN map
        BY <2>3, ScaffoldObjectsAssumption DEF TableInv, TypeOK, HeapInv, EntryInv, Alive
      <3> QED BY <2>1, <2>3, <3>1 DEF Count
    <2> QED BY <2>2, <2>3
  <1> QED BY <1>1, CountInvariance, PTL

\* A key that a caller owns leads to the object that it was given for, and
\* erase finds it: the process never ends there.
THEOREM KeysLeadHome == Spec => []RightObject
  <1>1. CountInv => RightObject
    BY DEF CountInv
  <1> QED BY <1>1, CountInvariance, PTL

\* Exactly what is referred to lives, but for references lost on their way.
THEOREM ReferredLive == Spec => []LivesAsReferred
  <1>1. TableInv /\ CountInv => LivesAsReferred
    <2> SUFFICES ASSUME TableInv, CountInv, NEW o \in Objects
                 PROVE  /\ Referred(o) => o \in Alive
                        /\ o \in Alive /\ ~Referred(o) => lost[o] > 0
      BY DEF LivesAsReferred
    <2>1. ASSUME NEW w \in Owned, wrappers[w].obj = o PROVE o \in Alive
      <3>1. w \in OwnRefs(o)
        BY <2>1 DEF OwnRefs
      <3> QED BY <3>1, CountedEntry DEF CountInv
    <2>2. Referred(o) => o \in Alive
      BY <2>1 DEF Referred, TableInv, HeapInv
    <2>3. ASSUME o \in Alive, ~Referred(o) PROVE lost[o] > 0
      <3>1. PICK a \in DOMAIN map : map[a].ptr = o
        BY <2>3 DEF CountInv, Orphans, Referred
      <3>2. addr[o] = a /\ map[a].ref_count > 0
        BY <3>1 DEF TableInv, EntryInv
      <3>3. References(o) > 0
        BY <3>1, <3>2 DEF CountInv, Counted, Count
      <3>4. OwnRefs(o) = {}
        BY <2>3 DEF Referred, OwnRefs
      <3>5. WayRefs(o) = {}
        BY <2>3, ScaffoldObjectsAssumption DEF Referred, WayRefs, TableInv, ResultInv
      <3>6. References(o) = Cardinality({}) + Cardinality({}) + lost[o] /\ Cardinality({}) = 0
        BY <3>4, <3>5, RefParts, FS_EmptySet
      <3>7. lost[o] \in Nat
        BY DEF TableInv, TypeOK
      <3> QED BY <3>3, <3>6, <3>7
    <2> QED BY <2>2, <2>3
  <1> QED BY <1>1, CountInvariance, PTL
-----------------------------------------------------------------------------
(***************************************************************************)
(* The table implements references.  AliveAre and its primed form say once *)
(* what lives, so that the lemma of an action shows what it does to the    *)
(* references and that it brings nothing to life; what dies is then what   *)
(* the abstract step says.                                                 *)
(***************************************************************************)
Good == TableInv /\ CountInv /\ HoldInv

\* Lookups come before library code, and the call holds what they found.
LEMMA HoldStep == Good /\ [Next]_vars => HoldInv'
  <1> SUFFICES ASSUME Good, [Next]_vars PROVE HoldInv'
    OBVIOUS
  <1> USE ScaffoldObjectsAssumption DEF Move
  <1>1. TypeOK /\ HoldInv
    BY DEF Good, TableInv
  <1>2. ASSUME NEW t \in Threads, NEW p,
               pc' = [pc EXCEPT ![t] = p], p \in {"body", "insert", "return"} => pc[t] \in {"body", "insert", "return"},
               p \in {"idle", "destroy"} => DOMAIN use[t] = {},
               use' = use, \A u \in Threads : held[u] \subseteq held'[u] \/ DOMAIN use[u] = {}
        PROVE  HoldInv'
    BY <1>1, <1>2 DEF HoldInv, TypeOK
  <1>3. ASSUME NEW t \in Threads, NEW p,
               pc' = [pc EXCEPT ![t] = p], DOMAIN use'[t] = {},
               \A u \in Threads \ {t} : use'[u] = use[u] /\ held'[u] = held[u]
        PROVE  HoldInv'
    BY <1>1, <1>3 DEF HoldInv, TypeOK
  <1>4. CASE UNCHANGED vars
    BY <1>1, <1>4 DEF HoldInv, vars
  <1>5. ASSUME NEW t \in Threads, LibraryStep(t) PROVE HoldInv'
    <2>1. ASSUME NEW o \in Objects, Keep(t, o) \/ Drop(t, o) PROVE HoldInv'
      BY <1>1, <2>1 DEF HoldInv, Keep, Drop
    <2>2. ASSUME NEW o \in Objects, ReturnObject(t, o) PROVE HoldInv'
      BY <1>1, <1>2, <2>2 DEF ReturnObject, TypeOK
    <2>3. ASSUME NEW o \in Objects, NEW a \in Addresses, ReturnNew(t, o, a) PROVE HoldInv'
      BY <1>1, <1>2, <2>3 DEF ReturnNew, TypeOK
    <2>4. CASE ReturnNothing(t)
      BY <1>1, <1>2, <2>4 DEF ReturnNothing
    <2> QED BY <1>5, <2>1, <2>2, <2>3, <2>4 DEF LibraryStep
  <1>6. ASSUME NEW t \in Threads, NEW w \in Wrappers, At(t, w) PROVE HoldInv'
    <2> DEFINE key == wrappers[w].key
               o == map[key].ptr
               p == IF \A v \in DOMAIN use[t] \ {w} : use[t][v] # None THEN "body" ELSE "at"
    <2>1. /\ w \in DOMAIN use[t] /\ w \in Owned /\ pc[t] = "at"
      BY <1>6 DEF At, Good, CountInv, UseInv
    <2>2. key \in DOMAIN map
      BY <2>1, OwnedEntry DEF Good
    <2>3. /\ use' = [use EXCEPT ![t][w] = o] /\ held' = [held EXCEPT ![t] = @ \cup {o}]
          /\ pc' = [pc EXCEPT ![t] = p]
      BY <1>6, <2>2 DEF At
    <2>4. o \in Objects
      BY <1>1, <2>2 DEF TypeOK
    <2> HIDE DEF o, key
    <2>5. /\ \A u \in Threads \ {t} : use'[u] = use[u] /\ held'[u] = held[u] /\ pc'[u] = pc[u]
          /\ DOMAIN use'[t] = DOMAIN use[t] /\ use'[t][w] = o
          /\ \A v \in DOMAIN use[t] \ {w} : use'[t][v] = use[t][v]
          /\ held'[t] = held[t] \cup {o} /\ pc'[t] = p
      BY <1>1, <2>1, <2>3 DEF TypeOK
    <2>6. ASSUME NEW v \in DOMAIN use'[t] PROVE /\ use'[t][v] # None => use'[t][v] \in held'[t]
                                                /\ p = "body" => use'[t][v] # None
      BY <1>1, <2>4, <2>5, <2>6 DEF HoldInv
    <2>7. p \in {"body", "at"}
      OBVIOUS
    <2> HIDE DEF p
    <2> QED BY <1>1, <2>5, <2>6, <2>7 DEF HoldInv
  <1>7. ASSUME NEW t \in Threads, Leave(t) PROVE HoldInv'
    <2>1. /\ pc' = [pc EXCEPT ![t] = "idle"] /\ held' = [held EXCEPT ![t] = {}]
          /\ use' = [use EXCEPT ![t] = Nothing]
      BY <1>7 DEF Leave
    <2>2. DOMAIN use'[t] = {} /\ \A u \in Threads \ {t} : use'[u] = use[u] /\ held'[u] = held[u]
      BY <1>1, <2>1 DEF TypeOK, Nothing
    <2> QED BY <1>3, <2>1, <2>2
  <1>8. ASSUME NEW t \in Threads, NEW w \in Wrappers, Erase(t, w) PROVE HoldInv'
    <2>1. /\ use' = [use EXCEPT ![t] = Nothing]
          /\ held' = held \/ \E o : held' = [held EXCEPT ![t] = {o}]
          /\ \E p : pc' = [pc EXCEPT ![t] = p]
      BY <1>8 DEF Erase, EraseWhen
    <2>2. DOMAIN use'[t] = {} /\ \A u \in Threads \ {t} : use'[u] = use[u] /\ held'[u] = held[u]
      BY <1>1, <2>1 DEF TypeOK, Nothing
    <2> QED BY <1>3, <2>1, <2>2
  <1>9. ASSUME NEW t \in Threads, Destroy(t) PROVE HoldInv'
    BY <1>1, <1>3, <1>9 DEF Destroy, HoldInv, TypeOK
  <1>10. ASSUME NEW t \in Threads, Insert(t) PROVE HoldInv'
    BY <1>1, <1>2, <1>10 DEF Insert
  <1>11. ASSUME NEW t \in Threads, NEW o \in Objects, NEW a \in Addresses, Construct(t, o, a)
         PROVE  HoldInv'
    BY <1>1, <1>3, <1>11 DEF Construct, HoldInv, TypeOK
  <1>12. ASSUME NEW t \in Threads, NEW ws, Call(t, ws) PROVE HoldInv'
    <2>1. /\ use' = [use EXCEPT ![t] = [w \in ws |-> None]] /\ held' = held
          /\ pc' = [pc EXCEPT ![t] = IF ws = {} THEN "body" ELSE "at"]
      BY <1>12 DEF Call
    <2> QED BY <1>1, <2>1 DEF HoldInv, TypeOK
  <1>13. ASSUME NEW t \in Threads, NEW w, Free(t, w) PROVE HoldInv'
    <2>1. /\ use' = [use EXCEPT ![t] = [v \in {w} |-> None]] /\ held' = held
          /\ pc' = [pc EXCEPT ![t] = "erase"]
      BY <1>13 DEF Free
    <2> QED BY <1>1, <2>1 DEF HoldInv, TypeOK
  <1>14. ASSUME NEW t \in Threads, GeneratedStep(t) \/ ReturnFails(t) PROVE HoldInv'
    BY <1>6, <1>7, <1>8, <1>9, <1>10, <1>14
       DEF GeneratedStep, Return, ReturnVoid, ReturnFails
  <1>15. ASSUME NEW t \in Threads, ForeignStep(t) PROVE HoldInv'
    BY <1>11, <1>12, <1>13, <1>15 DEF ForeignStep
  <1> QED BY <1>4, <1>5, <1>14, <1>15 DEF Next

LEMMA HoldInvariance == Spec => []Good
  <1>1. Init => HoldInv
    BY DEF Init, HoldInv, Nothing
  <1>2. Good /\ [Next]_vars => HoldInv'
    BY HoldStep
  <1> QED BY <1>1, <1>2, CountInvariance, PTL DEF Spec, Good
\* The abstract state changes with the variables that it is read from.
LEMMA SameAbstract ==
  /\ wrappers' = wrappers => Refers' = Refers
  /\ lost' = lost => Lost' = Lost
  /\ use' = use => Args' = Args
  /\ addr' = addr => Alive' = Alive
BY DEF Refers, Lost, Args, Alive

\* What lives is what is referred to.
LEMMA AliveAre == Good => Alive = {o \in Objects : Abstract!Referred(o)}
  <1> SUFFICES ASSUME Good, NEW o \in Objects
               PROVE  o \in Alive <=> Abstract!Referred(o)
    BY DEF Alive
  <1> USE DEF Good
  <1>1. ASSUME o \in Alive PROVE Abstract!Referred(o)
    <2> SUFFICES ASSUME o \notin kept, \A t \in Threads : o \notin held[t]
                 PROVE  o \in Lost \/ \E w \in Wrappers : Refers[w] = o
      BY DEF Abstract!Referred
    <2>1. PICK a \in DOMAIN map : map[a].ptr = o
      BY <1>1 DEF CountInv, Orphans
    <2>2. addr[o] = a /\ map[a].ref_count > 0
      BY <2>1 DEF TableInv, EntryInv
    <2>3. References(o) > 0
      BY <2>1, <2>2 DEF CountInv, Counted, Count
    <2>4. WayRefs(o) = {}
      BY ScaffoldObjectsAssumption DEF WayRefs, TableInv, ResultInv
    <2>5. OwnRefs(o) # {} \/ lost[o] > 0
      <3>1. CASE OwnRefs(o) = {}
        <4>1. References(o) = Cardinality({}) + Cardinality({}) + lost[o] /\ Cardinality({}) = 0
          BY <3>1, <2>4, RefParts, FS_EmptySet
        <4>2. lost[o] \in Nat
          BY DEF TableInv, TypeOK
        <4> QED BY <4>1, <4>2, <2>3
      <3> QED BY <3>1
    <2> QED BY <2>5 DEF OwnRefs, Owned, Refers, Lost
  <1>2. ASSUME Abstract!Referred(o) PROVE o \in Alive
    <2>1. CASE o \in kept \/ \E t \in Threads : o \in held[t]
      BY <2>1 DEF TableInv, HeapInv
    <2>2. CASE o \in Lost
      BY <2>2, CountedEntry DEF Lost, CountInv
    <2>3. ASSUME NEW w \in Wrappers, Refers[w] = o PROVE o \in Alive
      <3>1. w \in Owned
        BY <2>3, ScaffoldObjectsAssumption DEF Refers, Owned, Unused
      <3>2. w \in OwnRefs(o)
        BY <3>1, <2>3 DEF OwnRefs, Refers
      <3> QED BY <3>2, CountedEntry DEF CountInv
    <2> QED BY <1>2, <2>1, <2>2, <2>3 DEF Abstract!Referred
  <1> QED BY <1>1, <1>2

LEMMA AliveAreNext == Good' => Alive' = {o \in Objects : Abstract!Referred(o)'}
  <1>1. (Good => Alive = {o \in Objects : Abstract!Referred(o)})'
    BY AliveAre, PTL
  <1> QED BY <1>1

LEMMA CountedEntries ==
  TableInv /\ CountInv => \A o \in Objects :
    OwnRefs(o) # {} \/ lost[o] > 0 => addr[o] \in DOMAIN map /\ map[addr[o]].ptr = o
BY CountedEntry DEF CountInv

\* The same of the next state.
LEMMA CountedEntriesNext ==
  (TableInv /\ CountInv)' => \A o \in Objects :
    OwnRefs(o)' # {} \/ lost'[o] > 0 => addr'[o] \in DOMAIN map' /\ map'[addr'[o]].ptr = o
  <1>1. (TableInv /\ CountInv => \A o \in Objects :
          OwnRefs(o) # {} \/ lost[o] > 0 => addr[o] \in DOMAIN map /\ map[addr[o]].ptr = o)'
    BY CountedEntries, PTL
  <1> QED BY <1>1

\* A step that brings nothing to life lets those die that nobody refers to.
LEMMA SweepStep ==
  ASSUME Good', \A o \in Objects : addr'[o] \in {addr[o], None}
  PROVE  Abstract!Sweep
  <1>1. Alive' \subseteq Alive
    BY DEF Alive
  <1> QED BY <1>1, AliveAreNext DEF Abstract!Sweep, Alive

\* A thread in library code, or on its way out of it, holds what it works on.
LEMMA BodyReady ==
  ASSUME Good, NEW t \in Threads, pc[t] \in {"idle", "destroy", "body", "insert", "return"}
  PROVE  Abstract!Ready(t)
BY DEF Good, TableInv, TypeOK, CountInv, RightObject, HoldInv, Abstract!Ready, Args, Refers
-----------------------------------------------------------------------------
\* An object is made, by a constructor or in a call.
LEMMA MakeStep ==
  ASSUME Good, NEW t \in Threads, NEW o \in Objects, NEW a \in Addresses,
         Construct(t, o, a) \/ ReturnNew(t, o, a)
  PROVE  Abstract!Make(t, o)
  <1> USE DEF Good
  <1>1. /\ pc[t] \in {"idle", "body"} /\ Allocate(o, a)
        /\ UNCHANGED <<kept, wrappers, use, lost>>
    BY DEF Construct, ReturnNew
  <1>2. Alive' = Alive \cup {o}
    BY <1>1, ScaffoldObjectsAssumption DEF Allocate, Alive, FreeAddresses, TableInv, TypeOK
  <1>3. held' = [held EXCEPT ![t] = held[t] \cup {o}]
    <2>1. CASE Construct(t, o, a)
      <3>1. held[t] = {} /\ held' = [held EXCEPT ![t] = {o}]
        BY <2>1 DEF Construct, TableInv, ResultInv
      <3>2. held[t] \cup {o} = {o}
        BY <3>1
      <3> QED BY <3>1, <3>2
    <2>2. CASE ReturnNew(t, o, a)
      BY <2>2 DEF ReturnNew
    <2> QED BY <2>1, <2>2
  <1>4. made' = made \cup {o} /\ o \notin made
    BY <1>1 DEF Allocate
  <1> QED BY <1>1, <1>2, <1>3, <1>4, BodyReady, SameAbstract DEF Abstract!Make, Abstract!Hold

\* A caller calls with wrappers that it owns, or frees one.
LEMMA BeginStep ==
  ASSUME Good, NEW t \in Threads, NEW ws \in SUBSET Owned,
         pc[t] = "idle", use' = [use EXCEPT ![t] = [w \in ws |-> None]],
         UNCHANGED <<heapVars, wrappers, held, lost>>
  PROVE  Abstract!Begin(t, ws)
  <1> USE DEF Good
  <1>1. Args[t] = {} /\ held[t] = {}
    BY DEF Args, HoldInv, TableInv, ResultInv
  <1>2. \A w \in ws : Refers[w] # None
    BY ScaffoldObjectsAssumption DEF Refers, Owned, TableInv, TypeOK
  <1>3. Args' = [Args EXCEPT ![t] = ws]
    BY DEF Args, TableInv, TypeOK
  <1>4. UNCHANGED <<Alive, made, kept, Refers, held, Lost>>
    BY SameAbstract DEF heapVars
  <1> QED BY <1>1, <1>2, <1>3, <1>4 DEF Abstract!Begin

\* A lookup finds the wrapper's own object, whatever is in the table.
LEMMA TakeStep ==
  ASSUME Good, NEW t \in Threads, NEW w \in Wrappers, At(t, w)
  PROVE  Abstract!Take(t, w)
  <1> USE DEF Good
  <1>1. w \in DOMAIN use[t] /\ w \in Owned /\ UNCHANGED <<heapVars, wrappers, lost>>
    BY DEF At, CountInv, UseInv
  <1>2. /\ wrappers[w].key \in DOMAIN map /\ map[wrappers[w].key].ptr = wrappers[w].obj
    BY <1>1, OwnedEntry
  <1>3. /\ use' = [use EXCEPT ![t][w] = wrappers[w].obj]
        /\ held' = [held EXCEPT ![t] = held[t] \cup {wrappers[w].obj}]
    BY <1>2 DEF At
  <1>4. \A u \in Threads : DOMAIN use'[u] = DOMAIN use[u]
    BY <1>3 DEF TableInv, TypeOK
  <1>5. w \in Args[t] /\ Refers[w] = wrappers[w].obj /\ Args' = Args
    BY <1>1, <1>4 DEF Args, Refers
  <1>6. UNCHANGED <<Alive, made, kept, Refers, Lost>>
    BY <1>1, SameAbstract DEF heapVars
  <1> QED BY <1>3, <1>5, <1>6 DEF Abstract!Take, Abstract!Hold

\* What the library does with objects.
LEMMA LibraryAbstract ==
  ASSUME Good, Good', NEW t \in Threads, NEW o \in Objects,
         Keep(t, o) \/ Drop(t, o) \/ ReturnObject(t, o)
  PROVE  \/ Abstract!Keep(t, o) \/ Abstract!Drop(t, o) \/ Abstract!Bring(t, o)
         \/ UNCHANGED <<Alive, made, kept, Refers, Args, held, Lost>>
  <1>1. Abstract!Ready(t) /\ UNCHANGED <<made, Refers, Args, Lost>>
    BY BodyReady, SameAbstract DEF Keep, Drop, ReturnObject, heapVars
  <1>2. CASE Keep(t, o)
    BY <1>1, <1>2, SameAbstract DEF Keep, Abstract!Keep
  <1>3. CASE Drop(t, o)
    <2>1. \A p \in Objects : addr'[p] \in {addr[p], None}
      BY <1>3 DEF Drop
    <2>2. Abstract!Sweep
      BY <2>1, SweepStep
    <2> QED BY <1>1, <1>3, <2>2 DEF Drop, Abstract!Drop
  <1>4. CASE ReturnObject(t, o)
    <2>1. /\ held' = [held EXCEPT ![t] = held[t] \cup {o}] /\ o \in held[t] \cup kept
          /\ UNCHANGED <<Alive, kept>>
      BY <1>4, SameAbstract DEF ReturnObject, heapVars
    <2>2. CASE o \in kept
      BY <1>1, <2>1, <2>2 DEF Abstract!Bring, Abstract!Hold
    <2>3. CASE o \notin kept
      <3>1. held[t] \cup {o} = held[t]
        BY <2>1, <2>3
      <3>2. held' = held
        BY <2>1, <3>1 DEF Good, TableInv, TypeOK
      <3> QED BY <1>1, <2>1, <3>2
    <2> QED BY <2>2, <2>3
  <1> QED BY <1>2, <1>3, <1>4
-----------------------------------------------------------------------------
\* The end of a call, or of a destructor: what the thread held goes.
LEMMA EndStep ==
  ASSUME Good, Good', NEW t \in Threads, pc[t] \in {"return", "destroy"},
         held' = [held EXCEPT ![t] = {}], \A u \in Threads \ {t} : DOMAIN use'[u] = DOMAIN use[u],
         DOMAIN use'[t] = {}, \A o \in Objects : addr'[o] \in {addr[o], None},
         UNCHANGED <<made, kept>>
  PROVE  Abstract!End(t)
  <1>1. Args' = [Args EXCEPT ![t] = {}]
    BY DEF Args
  <1> QED BY <1>1, BodyReady, SweepStep DEF Abstract!End, Abstract!Hold

LEMMA LeaveStep ==
  ASSUME Good, Good', NEW t \in Threads, pc[t] = "return", Leave(t), UNCHANGED <<made, kept>>
  PROVE  Abstract!End(t)
  <1>1. /\ held' = [held EXCEPT ![t] = {}]
        /\ DOMAIN use'[t] = {} /\ \A u \in Threads \ {t} : DOMAIN use'[u] = DOMAIN use[u]
        /\ \A o \in Objects : addr'[o] \in {addr[o], None}
    BY DEF Leave, Nothing, Good, TableInv, TypeOK
  <1> QED BY <1>1, EndStep

\* The wrapper that the caller gets is for the object that was returned.
LEMMA GiveStep ==
  ASSUME Good, Good', NEW t \in Threads, NEW w \in Wrappers, Return(t, w)
  PROVE  res[t] \in Objects /\ Abstract!Give(t, res[t], w)
  <1> USE DEF Good
  <1>1. res[t] \in held[t] /\ res[t] \in Objects
    BY DEF Return, TableInv, ResultInv, TypeOK
  <1>2. Refers[w] = None
    BY DEF Return, Refers, Owned, Unused
  <1>3. wrappers' = [wrappers EXCEPT ![w] = [key |-> addr[res[t]], obj |-> res[t]]]
    BY DEF Return
  <1>4. Refers' = [Refers EXCEPT ![w] = res[t]]
    BY <1>3 DEF Refers, TableInv, TypeOK
  <1>5. Abstract!End(t) /\ Lost' = Lost
    BY LeaveStep, SameAbstract DEF Return
  <1> QED BY <1>1, <1>2, <1>4, <1>5 DEF Abstract!Give

LEMMA LoseStep ==
  ASSUME Good, Good', NEW t \in Threads, ReturnFails(t)
  PROVE  res[t] \in Objects /\ Abstract!Lose(t, res[t])
  <1> USE DEF Good
  <1>1. res[t] \in held[t] /\ res[t] \in Objects
    BY DEF ReturnFails, TableInv, ResultInv, TypeOK
  <1>2. lost' = [lost EXCEPT ![res[t]] = @ + 1]
    BY DEF ReturnFails
  <1>3. Lost' = Lost \cup {res[t]}
    BY <1>1, <1>2 DEF Lost, TableInv, TypeOK
  <1>4. Abstract!End(t) /\ Refers' = Refers
    BY LeaveStep, SameAbstract DEF ReturnFails
  <1> QED BY <1>1, <1>3, <1>4 DEF Abstract!Lose

LEMMA EndVoidStep ==
  ASSUME Good, Good', NEW t \in Threads, ReturnVoid(t) \/ Destroy(t)
  PROVE  Abstract!EndVoid(t)
  <1>1. UNCHANGED <<Refers, Lost>>
    BY SameAbstract DEF ReturnVoid, Destroy
  <1>2. CASE ReturnVoid(t)
    BY <1>1, <1>2, LeaveStep DEF ReturnVoid, Abstract!EndVoid
  <1>3. CASE Destroy(t)
    <2>1. /\ pc[t] = "destroy" /\ held' = [held EXCEPT ![t] = {}] /\ use' = use
          /\ \A o \in Objects : addr'[o] \in {addr[o], None}
          /\ UNCHANGED <<made, kept>>
      BY <1>3 DEF Destroy
    <2>2. DOMAIN use'[t] = {}
      BY <2>1 DEF Good, HoldInv
    <2> QED BY <1>1, <2>1, <2>2, EndStep DEF Abstract!EndVoid
  <1> QED BY <1>2, <1>3

\* Freeing a wrapper: the count is 1 exactly if nothing else refers to the
\* object, and then the thread holds it for its destructor.
LEMMA ReleaseStep ==
  ASSUME Good, Good', NEW t \in Threads, NEW w \in Wrappers, Erase(t, w)
  PROVE  Abstract!Release(t, w)
  <1> USE DEF Good
  <1>0. PICK r, a : r = wrappers[w].obj /\ a = wrappers[w].key
    OBVIOUS
  <1>1. /\ pc[t] = "erase" /\ w \in DOMAIN use[t] /\ w \in Owned /\ held[t] = {}
        /\ wrappers' = [wrappers EXCEPT ![w] = Unused]
        /\ use' = [use EXCEPT ![t] = Nothing]
        /\ UNCHANGED <<heapVars, lost>>
    BY DEF Erase, EraseWhen, CountInv, UseInv, TableInv, ResultInv
  <1>2. r \in Objects /\ a \in DOMAIN map /\ map[a].ptr = r /\ addr[r] = a
    BY <1>0, <1>1, OwnedEntry
  <1>3. /\ w \in Args[t] /\ \A u \in Threads \ {t} : w \notin Args[u]
        /\ Args' = [Args EXCEPT ![t] = {}] /\ Refers[w] = r
    BY <1>0, <1>1 DEF Args, Refers, Nothing, CountInv, UseInv, TableInv, TypeOK
  <1>4. Refers' = [Refers EXCEPT ![w] = None] /\ UNCHANGED <<Alive, made, kept, Lost>>
    BY <1>1, SameAbstract DEF Refers, Unused, heapVars, TableInv, TypeOK
  <1>5. \/ /\ held' = held
           /\ map[a].ref_count # 1 \/ r \notin Orphans(map', held, kept)
        \/ /\ held' = [held EXCEPT ![t] = {r}]
           /\ r \in Orphans(map', held, kept)
    BY <1>0, <1>2 DEF Erase, EraseWhen
  <1>6. r \in Alive
    BY <1>2, ScaffoldObjectsAssumption DEF Alive, TableInv, TypeOK
  <1>7. CASE held' = held
    <2>1. Abstract!Referred(r)'
      BY <1>2, <1>4, <1>6, AliveAreNext
    <2>2. r # None
      BY <1>2, ScaffoldObjectsAssumption
    <2>3. \A v \in Wrappers : Refers'[v] = r => v # w /\ Refers[v] = r
      BY <1>4, <2>2 DEF Refers
    <2>4. Abstract!ReferredBesides(r, w)
      BY <1>4, <1>7, <2>1, <2>3 DEF Abstract!Referred, Abstract!ReferredBesides
    <2>5. {r} \ {o \in Alive : Abstract!ReferredBesides(o, w)} = held[t]
      BY <1>1, <1>6, <2>4
    <2>6. held' = [held EXCEPT ![t] = {r} \ {o \in Alive : Abstract!ReferredBesides(o, w)}]
      BY <1>7, <2>5 DEF TableInv, TypeOK
    <2> QED BY <1>1, <1>3, <1>4, <2>6 DEF Abstract!Release, Abstract!Hold
  <1>8. CASE held' = [held EXCEPT ![t] = {r}] /\ r \in Orphans(map', held, kept)
    <2>1. ~Abstract!ReferredBesides(r, w)
      <3> SUFFICES ASSUME Abstract!ReferredBesides(r, w) PROVE FALSE
        OBVIOUS
      <3>1. r \notin kept /\ \A u \in Threads : r \notin held[u]
        BY <1>8 DEF Orphans
      <3>2. \A b \in DOMAIN map' : map'[b].ptr # r
        BY <1>8 DEF Orphans
      <3>3. \/ lost[r] > 0
            \/ \E v \in Wrappers \ {w} : wrappers[v].obj = r
        BY <3>1 DEF Abstract!ReferredBesides, Lost, Refers
      <3>4. OwnRefs(r)' # {} \/ lost'[r] > 0
        <4>1. ASSUME NEW v \in Wrappers \ {w}, wrappers[v].obj = r PROVE v \in OwnRefs(r)'
          BY <1>1, <1>2, <4>1, ScaffoldObjectsAssumption DEF OwnRefs, Owned, Unused
        <4> QED BY <3>3, <4>1, <1>1
      <3>5. addr'[r] \in DOMAIN map' /\ map'[addr'[r]].ptr = r
        BY <1>2, <3>4, CountedEntriesNext
      <3> QED BY <3>2, <3>5
    <2>2. {r} \ {o \in Alive : Abstract!ReferredBesides(o, w)} = {r}
      BY <2>1
    <2> QED BY <1>1, <1>3, <1>4, <1>8, <2>2 DEF Abstract!Release, Abstract!Hold
  <1> QED BY <1>5, <1>7, <1>8
-----------------------------------------------------------------------------
\* Every step of ScaffoldObjects is one of ObjectReferences', or none.
LEMMA AbstractStep ==
  ASSUME Good, Good', [Next]_vars
  PROVE  [Abstract!ReferencesNext]_<<Alive, made, kept, Refers, Args, held, Lost>>
  <1> DEFINE Stays == UNCHANGED <<Alive, made, kept, Refers, Args, held, Lost>>
  <1>1. CASE UNCHANGED vars
    BY <1>1, SameAbstract DEF vars, heapVars
  <1>2. ASSUME NEW t \in Threads, LibraryStep(t) PROVE Abstract!ReferencesNext \/ Stays
    <2>1. CASE ReturnNothing(t)
      BY <2>1, SameAbstract DEF ReturnNothing, heapVars
    <2>2. ASSUME NEW o \in Objects, Keep(t, o) \/ Drop(t, o) \/ ReturnObject(t, o)
          PROVE  Abstract!ReferencesNext \/ Stays
      BY <2>2, LibraryAbstract DEF Abstract!ReferencesNext
    <2>3. ASSUME NEW o \in Objects, NEW a \in Addresses, ReturnNew(t, o, a)
          PROVE  Abstract!ReferencesNext
      BY <2>3, MakeStep DEF Abstract!ReferencesNext
    <2> QED BY <1>2, <2>1, <2>2, <2>3 DEF LibraryStep
  <1>3. ASSUME NEW t \in Threads, GeneratedStep(t) \/ ReturnFails(t)
        PROVE  Abstract!ReferencesNext \/ Stays
    <2>1. CASE Insert(t)
      BY <2>1, SameAbstract DEF Insert, heapVars
    <2>2. ASSUME NEW w \in Wrappers, At(t, w) \/ Erase(t, w) PROVE Abstract!ReferencesNext
      BY <2>2, TakeStep, ReleaseStep DEF Abstract!ReferencesNext
    <2>3. ASSUME NEW w \in Wrappers, Return(t, w) PROVE Abstract!ReferencesNext
      BY <2>3, GiveStep DEF Abstract!ReferencesNext
    <2>4. CASE ReturnFails(t)
      BY <2>4, LoseStep DEF Abstract!ReferencesNext
    <2>5. CASE ReturnVoid(t) \/ Destroy(t)
      BY <2>5, EndVoidStep DEF Abstract!ReferencesNext
    <2> QED BY <1>3, <2>1, <2>2, <2>3, <2>4, <2>5 DEF GeneratedStep
  <1>4. ASSUME NEW t \in Threads, ForeignStep(t) PROVE Abstract!ReferencesNext
    <2>1. ASSUME NEW o \in Objects, NEW a \in Addresses, Construct(t, o, a)
          PROVE  Abstract!ReferencesNext
      BY <2>1, MakeStep DEF Abstract!ReferencesNext
    <2>2. ASSUME NEW ws \in SUBSET Usable, Call(t, ws) PROVE Abstract!ReferencesNext
      <3>1. ws \in SUBSET Owned /\ ws \in SUBSET Wrappers
        BY DEF Usable, Owned
      <3>2. Abstract!Begin(t, ws)
        BY <2>2, <3>1, BeginStep DEF Call
      <3> QED BY <3>1, <3>2 DEF Abstract!ReferencesNext
    <2>3. ASSUME NEW w \in Wrappers, Free(t, w) PROVE Abstract!ReferencesNext
      <3>1. {w} \in SUBSET Owned /\ {w} \in SUBSET Wrappers
        BY <2>3 DEF Free
      <3>2. Abstract!Begin(t, {w})
        BY <2>3, <3>1, BeginStep DEF Free
      <3> QED BY <3>1, <3>2 DEF Abstract!ReferencesNext
    <2> QED BY <1>4, <2>1, <2>2, <2>3 DEF ForeignStep
  <1> QED BY <1>1, <1>2, <1>3, <1>4 DEF Next

\* Foreign code that owns keys of a table, in which addresses are used again
\* and objects come and go, is served as if its wrappers were shared_ptrs.
THEOREM TableIsReferences == Spec => ImplementsReferences
  <1>1. Init => Abstract!ReferencesInit
    BY DEF Init, Abstract!ReferencesInit, Alive, Refers, Args, Lost, Unused, Nothing
  <1>2. Good /\ Good' /\ [Next]_vars =>
          [Abstract!ReferencesNext]_<<Alive, made, kept, Refers, Args, held, Lost>>
    BY AbstractStep
  <1> QED BY <1>1, <1>2, HoldInvariance, PTL
         DEF Spec, ImplementsReferences, Abstract!ReferencesSpec, Abstract!referenceVars
=============================================================================
