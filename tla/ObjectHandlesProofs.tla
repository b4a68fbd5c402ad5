-------------------------- MODULE ObjectHandlesProofs --------------------------
(***************************************************************************)
(* Every handle has the owners it should have, for any threads, objects,   *)
(* wrappers and nesting: proofs about ObjectHandles.                       *)
(*                                                                         *)
(* The two kinds of handles are counted alike.  A handle h is owned by     *)
(* wrappers, by Rust's data, by threads in transit, by running Rust        *)
(* functions, or lost (Owned); what is due is a Rust object's strong       *)
(* count, or one owner for an entry of the handle map (Due).  Balance says *)
(* that these agree.  A step passes a handle from one owner to another, or *)
(* changes both sides alike; there is a lemma for what each kind of owner  *)
(* gains and loses, and BalanceStep adds up.                               *)
(***************************************************************************)
EXTENDS ObjectHandles, FiniteSetTheorems, TLAPS

Things == RustObjs \cup Odd
Frame == [in : {"rust", "cpp"}, of : Handle \cup CppObjs]
One(b) == IF b THEN 1 ELSE 0

\* The owners of a handle, by kind, and their numbers.
WrapsOf(h) == {w \in Wrappers : instance[w] = h}
HandsOf(h) == {t \in Threads : hand[t].of = h}
RunsIn(s, h) == {m \in DOMAIN s : s[m].in = "rust" /\ s[m].of = h}
RunsOf(h) == UNION {{<<t, n>> : n \in RunsIn(stack[t], h)} : t \in Threads}
LostOf(h) == {n \in DOMAIN lost : lost[n] = h}

Wrapped(h) == Cardinality(WrapsOf(h))
Carried(h) == Cardinality(HandsOf(h))
Running(h) == Cardinality(RunsOf(h))
Missing(h) == Cardinality(LostOf(h))
Data(h) == IF h \in RustObjs THEN arcs[h] ELSE One(h \in proxies)
Owned(h) == Wrapped(h) + Data(h) + Carried(h) + Running(h) + Missing(h)

Due(h) == IF h \in RustObjs THEN strong[h] ELSE One(h \in DOMAIN map)

Balance == \A h \in Things : Owned(h) = Due(h)

\* Stacks have finitely many frames.
Finitely == \A h \in Things : IsFiniteSet(RunsOf(h))

\* The sets of handles, and what is none.
LEMMA Kinds ==
  /\ Odd \subseteq Nat /\ RustObjs \cap Odd = {} /\ RustObjs \cap CppObjs = {}
  /\ None \notin Things /\ None \notin RustObjs /\ None \notin Odd /\ None \notin CppObjs
  /\ Handle = Things \cup {None}
BY ObjectHandlesAssumption DEF Odd, Things, Handle

\* A finite set of which one element may come or go.
LEMMA OneChanges ==
  ASSUME NEW S, NEW T, NEW a, IsFiniteSet(S), S \ {a} = T \ {a}
  PROVE  /\ IsFiniteSet(T)
         /\ Cardinality(T) = Cardinality(S) - One(a \in S) + One(a \in T)
  <1>0. Cardinality(S) \in Nat
    BY FS_CardinalityType
  <1>1. CASE a \in S <=> a \in T
    <2>1. S = T
      BY <1>1
    <2> QED BY <1>0, <1>1, <2>1 DEF One
  <1>2. CASE a \in S /\ a \notin T
    <2>1. T = S \ {a}
      BY <1>2
    <2> QED BY <1>0, <1>2, <2>1, FS_RemoveElement DEF One
  <1>3. CASE a \notin S /\ a \in T
    <2>1. T = S \cup {a}
      BY <1>3
    <2> QED BY <1>0, <1>3, <2>1, FS_AddElement DEF One
  <1> QED BY <1>1, <1>2, <1>3

\* Every kind of owner can be counted.
LEMMA Numbers ==
  ASSUME TypeOK, Finitely, NEW h \in Things
  PROVE  /\ IsFiniteSet(WrapsOf(h)) /\ IsFiniteSet(HandsOf(h))
         /\ IsFiniteSet(RunsOf(h)) /\ IsFiniteSet(LostOf(h))
         /\ Wrapped(h) \in Nat /\ Carried(h) \in Nat /\ Running(h) \in Nat
         /\ Missing(h) \in Nat /\ Data(h) \in Nat /\ Due(h) \in Nat
  <1>1. WrapsOf(h) \subseteq Wrappers /\ HandsOf(h) \subseteq Threads
    BY DEF WrapsOf, HandsOf
  <1>2. LostOf(h) \subseteq 1..Len(lost) /\ Len(lost) \in Nat
    BY DEF LostOf, TypeOK
  <1>3. IsFiniteSet(1..Len(lost))
    BY <1>2, FS_Interval
  <1>4. IsFiniteSet(WrapsOf(h)) /\ IsFiniteSet(HandsOf(h)) /\ IsFiniteSet(LostOf(h))
    BY <1>1, <1>2, <1>3, ObjectHandlesAssumption, FS_Subset
  <1>5. IsFiniteSet(RunsOf(h))
    BY DEF Finitely
  <1>6. Data(h) \in Nat /\ Due(h) \in Nat
    BY DEF Data, Due, One, TypeOK
  <1> QED BY <1>4, <1>5, <1>6, FS_CardinalityType DEF Wrapped, Carried, Running, Missing

\* Balance is the two counting properties.
LEMMA BalanceIs == ASSUME TypeOK, Finitely
                   PROVE  Balance <=> StrongCountExact /\ ForeignHandlesOwnedOnce
  <1>1. ASSUME NEW h \in Things
        PROVE  Carriers(h) = Carried(h) + Running(h) + Missing(h)
    BY DEF Carriers, Carried, Running, Missing, HandsOf, RunsOf, RunsIn, LostOf
  <1>2. ASSUME NEW r \in RustObjs
        PROVE  (Owned(r) = Due(r)) <=>
                 (strong[r] = Cardinality({w \in Wrappers : instance[w] = r}) + arcs[r] + Carriers(r))
    <2>1. r \in Things
      BY DEF Things
    <2>2. Owned(r) = Wrapped(r) + arcs[r] + Carried(r) + Running(r) + Missing(r)
      BY DEF Owned, Data
    <2>3. Wrapped(r) = Cardinality({w \in Wrappers : instance[w] = r}) /\ Due(r) = strong[r]
      BY DEF Wrapped, WrapsOf, Due
    <2>4. arcs[r] \in Nat
      BY DEF TypeOK
    <2>5. Owned(r) = Wrapped(r) + arcs[r] + Carriers(r)
      BY <1>1, <2>1, <2>2, <2>4, Numbers
    <2> QED BY <2>3, <2>5
  <1>3. ASSUME NEW h \in Odd
        PROVE  (Owned(h) = Due(h)) <=>
                 (Carriers(h) + (IF h \in proxies THEN 1 ELSE 0) = (IF h \in DOMAIN map THEN 1 ELSE 0))
    <2>1. h \in Things /\ h \notin RustObjs /\ h # None
      BY Kinds DEF Things
    <2>2. WrapsOf(h) = {}
      BY <2>1 DEF WrapsOf, TypeOK
    <2>3. Wrapped(h) = 0
      BY <2>2, FS_EmptySet DEF Wrapped
    <2>4. /\ Owned(h) = Wrapped(h) + One(h \in proxies) + Carried(h) + Running(h) + Missing(h)
          /\ One(h \in proxies) \in Nat /\ Due(h) = One(h \in DOMAIN map)
      BY <2>1 DEF Owned, Data, Due, One
    <2>5. Owned(h) = Carriers(h) + One(h \in proxies)
      BY <1>1, <2>1, <2>3, <2>4, Numbers
    <2> QED BY <2>4, <2>5 DEF One
  <1> QED BY <1>2, <1>3 DEF Balance, StrongCountExact, ForeignHandlesOwnedOnce, Things
-----------------------------------------------------------------------------
\* A thread takes a handle in its hand, or lets go of it.
LEMMA HandChanges ==
  ASSUME TypeOK, Finitely, NEW t \in Threads, \A u \in Threads \ {t} : hand'[u] = hand[u],
         NEW h \in Things
  PROVE  Carried(h)' = Carried(h) - One(hand[t].of = h) + One(hand'[t].of = h)
  <1>1. HandsOf(h) \ {t} = HandsOf(h)' \ {t}
    BY DEF HandsOf
  <1>2. (t \in HandsOf(h) <=> hand[t].of = h) /\ (t \in HandsOf(h)' <=> hand'[t].of = h)
    BY DEF HandsOf
  <1>3. /\ Cardinality(HandsOf(h)') = Cardinality(HandsOf(h)) - One(t \in HandsOf(h)) + One(t \in HandsOf(h)')
    BY <1>1, Numbers, OneChanges
  <1> QED BY <1>2, <1>3 DEF Carried, One

\* A wrapper takes an instance, or lets go of it.
LEMMA WrapperChanges ==
  ASSUME TypeOK, Finitely, NEW w \in Wrappers, \A v \in Wrappers \ {w} : instance'[v] = instance[v],
         NEW h \in Things
  PROVE  Wrapped(h)' = Wrapped(h) - One(instance[w] = h) + One(instance'[w] = h)
  <1>1. WrapsOf(h) \ {w} = WrapsOf(h)' \ {w}
    BY DEF WrapsOf
  <1>2. (w \in WrapsOf(h) <=> instance[w] = h) /\ (w \in WrapsOf(h)' <=> instance'[w] = h)
    BY DEF WrapsOf
  <1>3. /\ Cardinality(WrapsOf(h)') = Cardinality(WrapsOf(h)) - One(w \in WrapsOf(h)) + One(w \in WrapsOf(h)')
    BY <1>1, Numbers, OneChanges
  <1> QED BY <1>2, <1>3 DEF Wrapped, One

\* A handle is lost.
LEMMA LostGrows ==
  ASSUME TypeOK, Finitely, NEW g \in Things, lost' = Append(lost, g), NEW h \in Things
  PROVE  Missing(h)' = Missing(h) + One(g = h)
  <1> DEFINE k == Len(lost) + 1
  <1>1. /\ Len(lost) \in Nat /\ DOMAIN lost = 1..Len(lost) /\ DOMAIN lost' = 1..k
        /\ lost'[k] = g /\ \A n \in 1..Len(lost) : lost'[n] = lost[n]
    BY DEF TypeOK, Things
  <1>2. k \notin DOMAIN lost /\ DOMAIN lost' = DOMAIN lost \cup {k}
    BY <1>1
  <1> HIDE DEF k
  <1>3. LostOf(h) \ {k} = LostOf(h)' \ {k} /\ k \notin LostOf(h) /\ (k \in LostOf(h)' <=> g = h)
    BY <1>1, <1>2 DEF LostOf
  <1>4. Cardinality(LostOf(h)') = Cardinality(LostOf(h)) - One(k \in LostOf(h)) + One(k \in LostOf(h)')
    BY <1>3, Numbers, OneChanges
  <1> QED BY <1>3, <1>4, Numbers DEF Missing, One

\* One frame of one stack changes.
LEMMA RunChanges ==
  ASSUME Finitely, NEW t \in Threads, NEW n, NEW h \in Things,
         \A u \in Threads \ {t} : stack'[u] = stack[u],
         RunsIn(stack[t], h) \ {n} = RunsIn(stack'[t], h) \ {n}
  PROVE  /\ IsFiniteSet(RunsOf(h)')
         /\ Running(h)' = Running(h) - One(n \in RunsIn(stack[t], h)) + One(n \in RunsIn(stack'[t], h))
  <1>1. RunsOf(h) \ {<<t, n>>} = RunsOf(h)' \ {<<t, n>>}
    <2>1. ASSUME NEW u \in Threads, NEW m PROVE <<u, m>> \in RunsOf(h) <=> m \in RunsIn(stack[u], h)
      BY DEF RunsOf
    <2>2. ASSUME NEW u \in Threads, NEW m PROVE <<u, m>> \in RunsOf(h)' <=> m \in RunsIn(stack'[u], h)
      BY DEF RunsOf, RunsIn
    <2>3. ASSUME NEW p \in RunsOf(h) \ {<<t, n>>} PROVE p \in RunsOf(h)'
      <3>1. PICK u \in Threads : \E m \in RunsIn(stack[u], h) : p = <<u, m>>
        BY DEF RunsOf
      <3>2. PICK m \in RunsIn(stack[u], h) : p = <<u, m>>
        BY <3>1
      <3>3. m \in RunsIn(stack'[u], h)
        BY <3>2
      <3> QED BY <2>2, <3>2, <3>3
    <2>4. ASSUME NEW p \in RunsOf(h)' \ {<<t, n>>} PROVE p \in RunsOf(h)
      <3>1. PICK u \in Threads : \E m \in RunsIn(stack'[u], h) : p = <<u, m>>
        BY DEF RunsOf, RunsIn
      <3>2. PICK m \in RunsIn(stack'[u], h) : p = <<u, m>>
        BY <3>1
      <3>3. m \in RunsIn(stack[u], h)
        BY <3>2
      <3> QED BY <2>1, <3>2, <3>3
    <2> QED BY <2>3, <2>4
  <1>2. /\ <<t, n>> \in RunsOf(h) <=> n \in RunsIn(stack[t], h)
        /\ <<t, n>> \in RunsOf(h)' <=> n \in RunsIn(stack'[t], h)
    BY DEF RunsOf, RunsIn
  <1>3. IsFiniteSet(RunsOf(h))
    BY DEF Finitely
  <1>4. /\ IsFiniteSet(RunsOf(h)')
        /\ Cardinality(RunsOf(h)') = Cardinality(RunsOf(h)) - One(<<t, n>> \in RunsOf(h)) + One(<<t, n>> \in RunsOf(h)')
    BY <1>1, <1>3, OneChanges
  <1> QED BY <1>2, <1>4 DEF Running, One

\* A function or a method is called.
LEMMA Pushes ==
  ASSUME TypeOK, Finitely, NEW t \in Threads, NEW side, NEW o, Push(t, side, o)
  PROVE  /\ Finitely'
         /\ \A h \in Things : Running(h)' = Running(h) + One(side = "rust" /\ o = h)
  <1> DEFINE k == Len(stack[t]) + 1
  <1>1. stack[t] \in Seq(Frame) /\ stack'[t] = Append(stack[t], [in |-> side, of |-> o])
        /\ \A u \in Threads \ {t} : stack'[u] = stack[u]
    BY DEF Push, TypeOK, Frame
  <1>2. /\ k \notin DOMAIN stack[t] /\ DOMAIN stack'[t] = DOMAIN stack[t] \cup {k}
        /\ stack'[t][k] = [in |-> side, of |-> o]
        /\ \A n \in DOMAIN stack[t] : stack'[t][n] = stack[t][n]
    BY <1>1
  <1> HIDE DEF k
  <1>3. ASSUME NEW h \in Things
        PROVE  /\ IsFiniteSet(RunsOf(h)')
               /\ Running(h)' = Running(h) + One(side = "rust" /\ o = h)
    <2>1. /\ RunsIn(stack[t], h) \ {k} = RunsIn(stack'[t], h) \ {k} /\ k \notin RunsIn(stack[t], h)
          /\ k \in RunsIn(stack'[t], h) <=> side = "rust" /\ o = h
      BY <1>2 DEF RunsIn
    <2>2. /\ IsFiniteSet(RunsOf(h)')
          /\ Running(h)' = Running(h) - One(k \in RunsIn(stack[t], h)) + One(k \in RunsIn(stack'[t], h))
      BY <1>1, <2>1, RunChanges
    <2> QED BY <2>1, <2>2, Numbers DEF One
  <1> QED BY <1>3 DEF Finitely

\* It returns.
LEMMA Pops ==
  ASSUME TypeOK, Finitely, NEW t \in Threads, stack[t] # <<>>, stack' = [stack EXCEPT ![t] = Below(t)]
  PROVE  /\ Finitely'
         /\ \A h \in Things : Running(h)' = Running(h) - One(Top(t).in = "rust" /\ Top(t).of = h)
  <1> DEFINE k == Len(stack[t])
  <1>1. stack[t] \in Seq(Frame) /\ stack'[t] = SubSeq(stack[t], 1, k - 1)
        /\ \A u \in Threads \ {t} : stack'[u] = stack[u]
    BY DEF Below, TypeOK, Frame
  <1>2. /\ k \in DOMAIN stack[t] /\ DOMAIN stack'[t] = DOMAIN stack[t] \ {k}
        /\ \A n \in DOMAIN stack'[t] : stack'[t][n] = stack[t][n]
    BY <1>1
  <1>3. Top(t) = stack[t][k]
    BY DEF Top
  <1> HIDE DEF k
  <1>4. ASSUME NEW h \in Things
        PROVE  /\ IsFiniteSet(RunsOf(h)')
               /\ Running(h)' = Running(h) - One(Top(t).in = "rust" /\ Top(t).of = h)
    <2>1. /\ RunsIn(stack[t], h) \ {k} = RunsIn(stack'[t], h) \ {k} /\ k \notin RunsIn(stack'[t], h)
          /\ k \in RunsIn(stack[t], h) <=> Top(t).in = "rust" /\ Top(t).of = h
      BY <1>2, <1>3 DEF RunsIn
    <2>2. /\ IsFiniteSet(RunsOf(h)')
          /\ Running(h)' = Running(h) - One(k \in RunsIn(stack[t], h)) + One(k \in RunsIn(stack'[t], h))
      BY <1>1, <2>1, RunChanges
    <2> QED BY <2>1, <2>2, Numbers DEF One
  <1> QED BY <1>4 DEF Finitely

\* A Rust function gives away its argument.
LEMMA GivesAway ==
  ASSUME TypeOK, Finitely, NEW t \in Threads, InRust(t),
         stack' = [stack EXCEPT ![t][Len(stack[t])].of = None]
  PROVE  /\ Finitely'
         /\ \A h \in Things : Running(h)' = Running(h) - One(Top(t).of = h)
  <1> DEFINE k == Len(stack[t])
  <1>1. /\ stack[t] \in Seq(Frame) /\ k \in DOMAIN stack[t] /\ Top(t) = stack[t][k] /\ Top(t).in = "rust"
        /\ \A u \in Threads \ {t} : stack'[u] = stack[u]
    <2>1. stack \in [Threads -> Seq(Frame)] /\ stack[t] # <<>> /\ Top(t).in = "rust"
      BY DEF InRust, TypeOK, Frame
    <2>2. k \in DOMAIN stack[t]
      BY <2>1
    <2>3. \A u \in Threads \ {t} : stack'[u] = stack[u]
      BY <2>1
    <2> QED BY <2>1, <2>2, <2>3 DEF Top
  <1>2. /\ DOMAIN stack'[t] = DOMAIN stack[t] /\ stack'[t][k].of = None
        /\ \A n \in DOMAIN stack[t] \ {k} : stack'[t][n] = stack[t][n]
    BY <1>1 DEF TypeOK
  <1> HIDE DEF k
  <1>3. ASSUME NEW h \in Things
        PROVE  /\ IsFiniteSet(RunsOf(h)')
               /\ Running(h)' = Running(h) - One(Top(t).of = h)
    <2>1. /\ RunsIn(stack[t], h) \ {k} = RunsIn(stack'[t], h) \ {k} /\ k \notin RunsIn(stack'[t], h)
          /\ k \in RunsIn(stack[t], h) <=> Top(t).of = h
      BY <1>1, <1>2, Kinds DEF RunsIn
    <2>2. /\ IsFiniteSet(RunsOf(h)')
          /\ Running(h)' = Running(h) - One(k \in RunsIn(stack[t], h)) + One(k \in RunsIn(stack'[t], h))
      BY <1>1, <2>1, RunChanges
    <2> QED BY <2>1, <2>2, Numbers DEF One
  <1> QED BY <1>3 DEF Finitely

\* What changes nothing of a kind of owner.
LEMMA Unchanging ==
  ASSUME Finitely, NEW h \in Things
  PROVE  /\ UNCHANGED hand => Carried(h)' = Carried(h)
         /\ UNCHANGED instance => Wrapped(h)' = Wrapped(h)
         /\ UNCHANGED lost => Missing(h)' = Missing(h)
         /\ UNCHANGED <<arcs, proxies>> => Data(h)' = Data(h)
         /\ UNCHANGED <<strong, map>> => Due(h)' = Due(h)
         /\ UNCHANGED stack => Running(h)' = Running(h) /\ Finitely'
  <1>1. UNCHANGED hand => Carried(h)' = Carried(h)
    BY DEF Carried, HandsOf
  <1>2. UNCHANGED instance => Wrapped(h)' = Wrapped(h)
    BY DEF Wrapped, WrapsOf
  <1>3. UNCHANGED lost => Missing(h)' = Missing(h)
    BY DEF Missing, LostOf
  <1>4. UNCHANGED <<arcs, proxies>> => Data(h)' = Data(h)
    BY DEF Data
  <1>5. UNCHANGED <<strong, map>> => Due(h)' = Due(h)
    BY DEF Due
  <1>6. UNCHANGED stack => \A g \in Things : RunsOf(g)' = RunsOf(g)
    BY DEF RunsOf, RunsIn
  <1>7. UNCHANGED stack => Running(h)' = Running(h) /\ Finitely'
    BY <1>6 DEF Running, Finitely
  <1> QED BY <1>1, <1>2, <1>3, <1>4, <1>5, <1>7
-----------------------------------------------------------------------------
\* Rust's own data takes a handle, ...
LEMMA DataGains ==
  ASSUME TypeOK, NEW g \in Things, g \notin proxies,
         IF g \in RustObjs
           THEN arcs' = [arcs EXCEPT ![g] = @ + 1] /\ UNCHANGED proxies
           ELSE proxies' = proxies \cup {g} /\ UNCHANGED arcs,
         NEW h \in Things
  PROVE  Data(h)' = Data(h) + One(g = h)
  <1>1. CASE g \in RustObjs
    BY <1>1 DEF Data, One, TypeOK
  <1>2. CASE g \notin RustObjs
    BY <1>2 DEF Data, One, TypeOK
  <1> QED BY <1>1, <1>2

\* ... and lets go of it.
LEMMA DataLoses ==
  ASSUME TypeOK, NEW g \in Things,
         \/ g \in RustObjs /\ arcs' = [arcs EXCEPT ![g] = @ - 1] /\ UNCHANGED proxies
         \/ g \in proxies /\ proxies' = proxies \ {g} /\ UNCHANGED arcs,
         NEW h \in Things
  PROVE  Data(h)' = Data(h) - One(g = h)
  <1>1. CASE g \in RustObjs /\ arcs' = [arcs EXCEPT ![g] = @ - 1] /\ UNCHANGED proxies
    BY <1>1 DEF Data, One, TypeOK
  <1>2. CASE g \in proxies /\ proxies' = proxies \ {g} /\ UNCHANGED arcs
    <2>1. g \notin RustObjs
      BY <1>2, Kinds DEF TypeOK
    <2> QED BY <1>2, <2>1 DEF Data, One, TypeOK
  <1> QED BY <1>1, <1>2

\* A Rust object gains a strong reference, or the map an entry.
LEMMA DueGains ==
  ASSUME TypeOK, FreshInv, NEW g \in Things,
         \/ g \in RustObjs /\ ArcClone(g) /\ UNCHANGED map
         \/ g = cur_handle /\ (\E i : Insert(i)) /\ UNCHANGED strong,
         NEW h \in Things
  PROVE  Due(h)' = Due(h) + One(g = h)
  <1>1. CASE g \in RustObjs /\ ArcClone(g) /\ UNCHANGED map
    BY <1>1 DEF Due, One, TypeOK, ArcClone
  <1>2. CASE g = cur_handle /\ (\E i : Insert(i)) /\ UNCHANGED strong
    <2>1. g \notin DOMAIN map /\ g \notin RustObjs
      BY <1>2, ObjectHandlesAssumption DEF FreshInv
    <2>2. DOMAIN map' = DOMAIN map \cup {g}
      BY <1>2 DEF Insert, With
    <2>3. h \in RustObjs => strong[h] \in Nat
      BY DEF TypeOK
    <2> QED BY <1>2, <2>1, <2>2, <2>3 DEF Due, One
  <1> QED BY <1>1, <1>2

\* A Rust object loses a strong reference, or the map an entry.
LEMMA DueLoses ==
  ASSUME TypeOK, NEW g \in Things,
         \/ g \in RustObjs /\ ArcDrop(g) /\ UNCHANGED map
         \/ g \in DOMAIN map /\ Erase(g) /\ UNCHANGED strong,
         NEW h \in Things
  PROVE  Due(h)' = Due(h) - One(g = h)
  <1>1. CASE g \in RustObjs /\ ArcDrop(g) /\ UNCHANGED map
    BY <1>1 DEF Due, One, TypeOK, ArcDrop
  <1>2. CASE g \in DOMAIN map /\ Erase(g) /\ UNCHANGED strong
    <2>1. g \notin RustObjs
      BY <1>2, Kinds DEF TypeOK
    <2>2. DOMAIN map' = DOMAIN map \ {g}
      BY <1>2 DEF Erase, Without
    <2>3. h \in RustObjs => strong[h] \in Nat
      BY DEF TypeOK
    <2> QED BY <1>2, <2>1, <2>2, <2>3 DEF Due, One
  <1> QED BY <1>1, <1>2
-----------------------------------------------------------------------------
\* Whoever owns a handle is counted.
LEMMA OwnerCounts ==
  ASSUME TypeOK, Finitely, NEW h \in Things
  PROVE  /\ \A t \in Threads : hand[t].of = h => Carried(h) > 0
         /\ \A w \in Wrappers : instance[w] = h => Wrapped(h) > 0
         /\ \A t \in Threads : RunsIn(stack[t], h) # {} => Running(h) > 0
         /\ Data(h) > 0 <=> h \in proxies \/ (h \in RustObjs /\ arcs[h] > 0)
  <1>1. \A t \in Threads : hand[t].of = h => HandsOf(h) # {}
    BY DEF HandsOf
  <1>2. \A w \in Wrappers : instance[w] = h => WrapsOf(h) # {}
    BY DEF WrapsOf
  <1>3. \A t \in Threads : RunsIn(stack[t], h) # {} => RunsOf(h) # {}
    <2> SUFFICES ASSUME NEW t \in Threads, NEW n \in RunsIn(stack[t], h) PROVE RunsOf(h) # {}
      OBVIOUS
    <2>1. <<t, n>> \in RunsOf(h)
      BY DEF RunsOf
    <2> QED BY <2>1
  <1>4. /\ HandsOf(h) # {} => Carried(h) > 0
        /\ WrapsOf(h) # {} => Wrapped(h) > 0
        /\ RunsOf(h) # {} => Running(h) > 0
    BY Numbers, FS_EmptySet DEF Carried, Wrapped, Running
  <1>5. Data(h) > 0 <=> h \in proxies \/ (h \in RustObjs /\ arcs[h] > 0)
    <2>1. h \in RustObjs => h \notin proxies
      BY Kinds DEF TypeOK
    <2> QED BY <2>1 DEF Data, One
  <1> QED BY <1>1, <1>2, <1>3, <1>4, <1>5

\* The argument of a running function is in its frame.
LEMMA GivenRuns ==
  ASSUME TypeOK, NEW t \in Threads, InRust(t), NEW h, Top(t).of = h
  PROVE  RunsIn(stack[t], h) # {}
  <1>1. Len(stack[t]) \in DOMAIN stack[t]
    BY DEF InRust, TypeOK
  <1>2. Len(stack[t]) \in RunsIn(stack[t], h)
    BY <1>1 DEF RunsIn, InRust, Top
  <1> QED BY <1>2

\* What has an owner is due: a Rust object lives, an odd handle is in the map.
\* A handle in transit or given to a function is no proxy's.
LEMMA OwnedIsDue ==
  ASSUME TypeOK, Finitely, Balance, NEW h \in Things
  PROVE  /\ \/ \E t \in Threads : hand[t].of = h \/ RunsIn(stack[t], h) # {}
            \/ \E w \in Wrappers : instance[w] = h
            \/ h \in proxies \/ (h \in RustObjs /\ arcs[h] > 0)
            => IF h \in RustObjs THEN strong[h] > 0 ELSE h \in DOMAIN map
         /\ (\E t \in Threads : hand[t].of = h \/ RunsIn(stack[t], h) # {}) => h \notin proxies
  <1>1. /\ Owned(h) = Due(h)
        /\ Wrapped(h) \in Nat /\ Carried(h) \in Nat /\ Running(h) \in Nat
        /\ Missing(h) \in Nat /\ Data(h) \in Nat /\ Due(h) \in Nat
    BY Numbers DEF Balance
  <1>2. Wrapped(h) + Data(h) + Carried(h) + Running(h) + Missing(h) = Due(h)
    BY <1>1 DEF Owned
  <1>3. /\ Due(h) > 0 => IF h \in RustObjs THEN strong[h] > 0 ELSE h \in DOMAIN map
        /\ h \notin RustObjs => Due(h) <= 1
    BY DEF Due, One
  <1>4. h \in proxies => h \notin RustObjs
    BY Kinds DEF TypeOK
  <1>5. /\ \A t \in Threads : hand[t].of = h \/ RunsIn(stack[t], h) # {} => Carried(h) + Running(h) > 0
        /\ \A w \in Wrappers : instance[w] = h => Wrapped(h) > 0
        /\ h \in proxies \/ (h \in RustObjs /\ arcs[h] > 0) => Data(h) > 0
    BY <1>1, OwnerCounts
  <1>6. Wrapped(h) > 0 \/ Carried(h) + Running(h) > 0 \/ Data(h) > 0 => Due(h) > 0
    BY <1>1, <1>2
  <1>7. Carried(h) + Running(h) > 0 /\ Data(h) > 0 => Due(h) > 1
    BY <1>1, <1>2
  <1>8. ASSUME NEW t \in Threads, hand[t].of = h \/ RunsIn(stack[t], h) # {}
        PROVE  h \notin proxies
    BY <1>1, <1>3, <1>4, <1>5, <1>7, <1>8
  <1> QED BY <1>3, <1>5, <1>6, <1>8
-----------------------------------------------------------------------------
\* The inductive invariant, with the two counting properties as one.
Good == TypeOK /\ FreshInv /\ HandInv /\ FrameInv /\ Balance /\ Finitely

Counts(h) ==
  /\ Wrapped(h) \in Nat /\ Data(h) \in Nat /\ Carried(h) \in Nat
  /\ Running(h) \in Nat /\ Missing(h) \in Nat /\ Due(h) \in Nat

LEMMA Counted == ASSUME TypeOK, Finitely, NEW h \in Things PROVE Counts(h)
BY Numbers DEF Counts

\* Only a step that moves the stack can make its frames infinitely many.
LEMMA FinitelyStays == ASSUME Finitely, UNCHANGED stack PROVE Finitely'
BY DEF Finitely, RunsOf, RunsIn

\* A step that moves no handle.
LEMMA StillBalanced ==
  ASSUME Good, UNCHANGED <<strong, arcs, instance, map, proxies, stack, hand, lost>>
  PROVE  Balance' /\ Finitely'
  <1>1. Balance /\ Finitely
    BY DEF Good
  <1>2. Finitely'
    BY <1>1, FinitelyStays
  <1>3. ASSUME NEW h \in Things PROVE Owned(h)' = Due(h)'
    <2>1. /\ Wrapped(h)' = Wrapped(h) /\ Data(h)' = Data(h) /\ Carried(h)' = Carried(h)
          /\ Running(h)' = Running(h) /\ Missing(h)' = Missing(h) /\ Due(h)' = Due(h)
      BY <1>1, Unchanging
    <2> QED BY <1>1, <2>1 DEF Owned, Balance
  <1> QED BY <1>2, <1>3 DEF Balance

\* A running Rust function has a handle or none.
LEMMA GivenIsHandle ==
  ASSUME TypeOK, FrameInv, NEW t \in Threads, InRust(t)
  PROVE  Given(t) \in Handle
  <1>1. Len(stack[t]) \in DOMAIN stack[t]
    BY DEF InRust, TypeOK
  <1> QED BY <1>1 DEF InRust, Top, Given, FrameInv

\* The new object's reference is its wrapper's.
LEMMA ConstructBalances ==
  ASSUME Good, NEW t \in Threads, NEW r \in RustObjs, NEW w \in Wrappers, Construct(t, r, w)
  PROVE  Balance' /\ Finitely'
  <1>0. TypeOK /\ FreshInv /\ HandInv /\ FrameInv /\ Balance /\ Finitely
    BY DEF Good
  <1>1. r \in Things /\ strong[r] = 0 /\ None \notin Things
    BY <1>0, Kinds DEF FreshInv, Construct, Things, TypeOK
  <1>2. /\ UNCHANGED <<arcs, proxies, stack, hand, lost, map>> /\ instance[w] = None
        /\ strong' = [strong EXCEPT ![r] = 1] /\ instance' = [instance EXCEPT ![w] = r]
    BY DEF Construct, mapVars
  <1>3. Finitely'
    BY <1>0, <1>1, <1>2, FinitelyStays
  <1>4. ASSUME NEW h \in Things PROVE Owned(h)' = Due(h)'
    <2>0. Owned(h) = Due(h) /\ Counts(h)
      BY <1>0, Counted DEF Balance
    <2>1. Data(h)' = Data(h) /\ Carried(h)' = Carried(h) /\ Running(h)' = Running(h)
          /\ Missing(h)' = Missing(h)
      BY <1>0, <1>1, <1>2, Unchanging
    <2>2. instance'[w] = r /\ \A x \in Wrappers \ {w} : instance'[x] = instance[x]
      BY <1>0, <1>1, <1>2 DEF TypeOK
    <2>3. Wrapped(h)' = Wrapped(h) + One(r = h)
      BY <1>0, <1>1, <1>2, <2>0, <2>2, WrapperChanges DEF One, Counts
    <2>4. Due(h)' = Due(h) + One(r = h)
      BY <1>0, <1>1, <1>2, <2>0 DEF Due, One, TypeOK, Counts
    <2> QED BY <2>0, <2>1, <2>3, <2>4 DEF Owned, One, Counts
  <1> QED BY <1>3, <1>4 DEF Balance

\* A clone for the copy.
LEMMA CopyBalances ==
  ASSUME Good, NEW t \in Threads, NEW w \in Wrappers, NEW v \in Wrappers, Copy(t, w, v)
  PROVE  Balance' /\ Finitely'
  <1>0. TypeOK /\ FreshInv /\ HandInv /\ FrameInv /\ Balance /\ Finitely
    BY DEF Good
  <1>1. instance[w] \in RustObjs /\ instance[w] \in Things /\ None \notin Things
    BY <1>0, Kinds DEF Copy, Things, TypeOK
  <1>2. /\ UNCHANGED <<arcs, proxies, stack, hand, lost, map>> /\ instance[v] = None
        /\ ArcClone(instance[w]) /\ instance' = [instance EXCEPT ![v] = instance[w]]
    BY DEF Copy, mapVars
  <1>3. Finitely'
    BY <1>0, <1>1, <1>2, FinitelyStays
  <1>4. ASSUME NEW h \in Things PROVE Owned(h)' = Due(h)'
    <2>0. Owned(h) = Due(h) /\ Counts(h)
      BY <1>0, Counted DEF Balance
    <2>1. Data(h)' = Data(h) /\ Carried(h)' = Carried(h) /\ Running(h)' = Running(h)
          /\ Missing(h)' = Missing(h)
      BY <1>0, <1>1, <1>2, Unchanging
    <2>2. instance'[v] = instance[w] /\ \A x \in Wrappers \ {v} : instance'[x] = instance[x]
      BY <1>0, <1>1, <1>2 DEF TypeOK
    <2>3. Wrapped(h)' = Wrapped(h) + One(instance[w] = h)
      BY <1>0, <1>1, <1>2, <2>0, <2>2, WrapperChanges DEF One, Counts
    <2>4. Due(h)' = Due(h) + One(instance[w] = h)
      BY <1>0, <1>1, <1>2, <2>0, DueGains
    <2> QED BY <2>0, <2>1, <2>3, <2>4 DEF Owned, One, Counts
  <1> QED BY <1>3, <1>4 DEF Balance

\* A wrapper's reference goes with it.
LEMMA DestroyBalances ==
  ASSUME Good, NEW t \in Threads, NEW w \in Wrappers, Destroy(t, w)
  PROVE  Balance' /\ Finitely'
  <1>0. TypeOK /\ FreshInv /\ HandInv /\ FrameInv /\ Balance /\ Finitely
    BY DEF Good
  <1>1. instance[w] \in RustObjs /\ instance[w] \in Things /\ None \notin Things
    BY <1>0, Kinds DEF Destroy, Things, TypeOK
  <1>2. /\ UNCHANGED <<arcs, proxies, stack, hand, lost, map>>
        /\ ArcDrop(instance[w]) /\ instance' = [instance EXCEPT ![w] = None]
    BY DEF Destroy, mapVars
  <1>3. Finitely'
    BY <1>0, <1>1, <1>2, FinitelyStays
  <1>4. ASSUME NEW h \in Things PROVE Owned(h)' = Due(h)'
    <2>0. Owned(h) = Due(h) /\ Counts(h)
      BY <1>0, Counted DEF Balance
    <2>1. Data(h)' = Data(h) /\ Carried(h)' = Carried(h) /\ Running(h)' = Running(h)
          /\ Missing(h)' = Missing(h)
      BY <1>0, <1>1, <1>2, Unchanging
    <2>2. instance'[w] = None /\ \A x \in Wrappers \ {w} : instance'[x] = instance[x]
      BY <1>0, <1>1, <1>2 DEF TypeOK
    <2>3. Wrapped(h)' = Wrapped(h) - One(instance[w] = h)
      BY <1>0, <1>1, <1>2, <2>0, <2>2, WrapperChanges DEF One, Counts
    <2>4. Due(h)' = Due(h) - One(instance[w] = h)
      BY <1>0, <1>1, <1>2, <2>0, DueLoses
    <2> QED BY <2>0, <2>1, <2>3, <2>4 DEF Owned, One, Counts
  <1> QED BY <1>3, <1>4 DEF Balance

\* A clone for the call.
LEMMA LowerWrapperBalances ==
  ASSUME Good, NEW t \in Threads, NEW w \in Wrappers, NEW use, LowerWrapper(t, w, use)
  PROVE  Balance' /\ Finitely'
  <1>0. TypeOK /\ FreshInv /\ HandInv /\ FrameInv /\ Balance /\ Finitely
    BY DEF Good
  <1>1. instance[w] \in RustObjs /\ instance[w] \in Things /\ None \notin Things
    BY <1>0, Kinds DEF LowerWrapper, Things, TypeOK
  <1>2. /\ UNCHANGED <<instance, arcs, proxies, stack, lost, map>> /\ ArcClone(instance[w])
        /\ hand[t].of = None /\ hand' = [hand EXCEPT ![t] = Holding(use, instance[w])]
    BY DEF LowerWrapper, LowerUse, InCpp, Empty, Take, mapVars
  <1>3. Finitely'
    BY <1>0, <1>1, <1>2, FinitelyStays
  <1>4. ASSUME NEW h \in Things PROVE Owned(h)' = Due(h)'
    <2>0. Owned(h) = Due(h) /\ Counts(h)
      BY <1>0, Counted DEF Balance
    <2>1. Wrapped(h)' = Wrapped(h) /\ Data(h)' = Data(h) /\ Running(h)' = Running(h)
          /\ Missing(h)' = Missing(h)
      BY <1>0, <1>1, <1>2, Unchanging
    <2>2. hand'[t].of = instance[w] /\ \A u \in Threads \ {t} : hand'[u] = hand[u]
      BY <1>0, <1>1, <1>2 DEF TypeOK, Holding, Empty
    <2>3. Carried(h)' = Carried(h) + One(instance[w] = h)
      BY <1>0, <1>1, <1>2, <2>0, <2>2, HandChanges DEF One, Counts
    <2>4. Due(h)' = Due(h) + One(instance[w] = h)
      BY <1>0, <1>1, <1>2, <2>0, DueGains
    <2> QED BY <2>0, <2>1, <2>3, <2>4 DEF Owned, One, Counts
  <1> QED BY <1>3, <1>4 DEF Balance

\* The new entry's owner is the thread that carries its handle.
LEMMA LowerCppBalances ==
  ASSUME Good, NEW t \in Threads, NEW i \in CppObjs, NEW use, LowerCpp(t, i, use)
  PROVE  Balance' /\ Finitely'
  <1>0. TypeOK /\ FreshInv /\ HandInv /\ FrameInv /\ Balance /\ Finitely
    BY DEF Good
  <1>1. cur_handle \in Things /\ None \notin Things
    BY Kinds DEF LowerCpp, MapRoom, Things
  <1>2. /\ UNCHANGED <<instance, arcs, proxies, stack, lost, strong>> /\ Insert(i)
        /\ hand[t].of = None /\ hand' = [hand EXCEPT ![t] = Holding(use, cur_handle)]
    BY DEF LowerCpp, LowerUse, InCpp, Empty, Take, rustVars
  <1>3. Finitely'
    BY <1>0, <1>1, <1>2, FinitelyStays
  <1>4. ASSUME NEW h \in Things PROVE Owned(h)' = Due(h)'
    <2>0. Owned(h) = Due(h) /\ Counts(h)
      BY <1>0, Counted DEF Balance
    <2>1. Wrapped(h)' = Wrapped(h) /\ Data(h)' = Data(h) /\ Running(h)' = Running(h)
          /\ Missing(h)' = Missing(h)
      BY <1>0, <1>1, <1>2, Unchanging
    <2>2. hand'[t].of = cur_handle /\ \A u \in Threads \ {t} : hand'[u] = hand[u]
      BY <1>0, <1>1, <1>2 DEF TypeOK, Holding, Empty
    <2>3. Carried(h)' = Carried(h) + One(cur_handle = h)
      BY <1>0, <1>1, <1>2, <2>0, <2>2, HandChanges DEF One, Counts
    <2>4. Due(h)' = Due(h) + One(cur_handle = h)
      BY <1>0, <1>1, <1>2, <2>0, DueGains
    <2> QED BY <2>0, <2>1, <2>3, <2>4 DEF Owned, One, Counts
  <1> QED BY <1>3, <1>4 DEF Balance

\* The handle is lost.
LEMMA LowerFailsBalances ==
  ASSUME Good, NEW t \in Threads, LowerFails(t)
  PROVE  Balance' /\ Finitely'
  <1>0. TypeOK /\ FreshInv /\ HandInv /\ FrameInv /\ Balance /\ Finitely
    BY DEF Good
  <1>1. hand[t].of \in Things /\ None \notin Things
    BY <1>0, Kinds DEF LowerFails, HandInv, TypeOK
  <1>2. /\ UNCHANGED <<instance, arcs, proxies, stack, strong, map>>
        /\ lost' = Append(lost, hand[t].of)
        /\ hand' = [hand EXCEPT ![t] = Empty]
    BY DEF LowerFails, Let, rustVars, mapVars
  <1>3. Finitely'
    BY <1>0, <1>1, <1>2, FinitelyStays
  <1>4. ASSUME NEW h \in Things PROVE Owned(h)' = Due(h)'
    <2>0. Owned(h) = Due(h) /\ Counts(h)
      BY <1>0, Counted DEF Balance
    <2>1. Wrapped(h)' = Wrapped(h) /\ Data(h)' = Data(h) /\ Running(h)' = Running(h)
          /\ Due(h)' = Due(h)
      BY <1>0, <1>1, <1>2, Unchanging
    <2>2. hand'[t].of = None /\ \A u \in Threads \ {t} : hand'[u] = hand[u]
      BY <1>0, <1>1, <1>2 DEF TypeOK, Holding, Empty
    <2>3. Carried(h)' = Carried(h) - One(hand[t].of = h)
      BY <1>0, <1>1, <1>2, <2>0, <2>2, HandChanges DEF One, Counts
    <2>4. Missing(h)' = Missing(h) + One(hand[t].of = h)
      BY <1>0, <1>1, <1>2, <2>0, LostGrows
    <2> QED BY <2>0, <2>1, <2>3, <2>4 DEF Owned, One, Counts
  <1> QED BY <1>3, <1>4 DEF Balance

\* The function owns its argument.
LEMMA CallBalances ==
  ASSUME Good, NEW t \in Threads, Call(t)
  PROVE  Balance' /\ Finitely'
  <1>0. TypeOK /\ FreshInv /\ HandInv /\ FrameInv /\ Balance /\ Finitely
    BY DEF Good
  <1>1. None \notin Things
    BY Kinds
  <1>2. /\ UNCHANGED <<instance, arcs, proxies, lost, strong, map>> /\ Push(t, "rust", hand[t].of)
        /\ hand' = [hand EXCEPT ![t] = Empty]
    BY DEF Call, Let, rustVars, mapVars
  <1>3. Finitely'
    BY <1>0, <1>1, <1>2, Pushes
  <1>4. ASSUME NEW h \in Things PROVE Owned(h)' = Due(h)'
    <2>0. Owned(h) = Due(h) /\ Counts(h)
      BY <1>0, Counted DEF Balance
    <2>1. Wrapped(h)' = Wrapped(h) /\ Data(h)' = Data(h) /\ Missing(h)' = Missing(h)
          /\ Due(h)' = Due(h)
      BY <1>0, <1>1, <1>2, Unchanging
    <2>2. hand'[t].of = None /\ \A u \in Threads \ {t} : hand'[u] = hand[u]
      BY <1>0, <1>1, <1>2 DEF TypeOK, Holding, Empty
    <2>3. Carried(h)' = Carried(h) - One(hand[t].of = h)
      BY <1>0, <1>1, <1>2, <2>0, <2>2, HandChanges DEF One, Counts
    <2>4. Running(h)' = Running(h) + One(hand[t].of = h)
      BY <1>0, <1>1, <1>2, <2>0, Pushes DEF One, Counts
    <2> QED BY <2>0, <2>1, <2>3, <2>4 DEF Owned, One, Counts
  <1> QED BY <1>3, <1>4 DEF Balance

\* A method owns no handle.
LEMMA MethodReturnBalances ==
  ASSUME Good, NEW t \in Threads, MethodReturn(t)
  PROVE  Balance' /\ Finitely'
  <1>0. TypeOK /\ FreshInv /\ HandInv /\ FrameInv /\ Balance /\ Finitely
    BY DEF Good
  <1>1. /\ UNCHANGED <<instance, arcs, proxies, lost, strong, map, hand>>
        /\ stack[t] # <<>> /\ Top(t).in # "rust" /\ stack' = [stack EXCEPT ![t] = Below(t)]
    BY DEF MethodReturn, InRust, rustVars, mapVars
  <1>2. Finitely'
    BY <1>0, <1>1, Pops
  <1>3. ASSUME NEW h \in Things PROVE Owned(h)' = Due(h)'
    <2>0. Owned(h) = Due(h) /\ Counts(h)
      BY <1>0, Counted DEF Balance
    <2>1. Wrapped(h)' = Wrapped(h) /\ Data(h)' = Data(h) /\ Carried(h)' = Carried(h)
          /\ Missing(h)' = Missing(h) /\ Due(h)' = Due(h)
      BY <1>0, <1>1, Unchanging
    <2>2. Running(h)' = Running(h) - One(Top(t).in = "rust" /\ Top(t).of = h)
      BY <1>0, <1>1, Pops
    <2>3. Running(h)' = Running(h)
      BY <1>0, <1>1, <2>0, <2>2 DEF One, Counts
    <2> QED BY <2>0, <2>1, <2>3 DEF Owned, One, Counts
  <1> QED BY <1>2, <1>3 DEF Balance

\* The result goes to Rust's data.
LEMMA MethodReturnObjectBalances ==
  ASSUME Good, NEW t \in Threads, MethodReturnObject(t)
  PROVE  Balance' /\ Finitely'
  <1>0. TypeOK /\ FreshInv /\ HandInv /\ FrameInv /\ Balance /\ Finitely
    BY DEF Good
  <1>1. hand[t].of \in Things /\ None \notin Things
    BY <1>0, Kinds DEF MethodReturnObject, HandInv, TypeOK
  <1>2. hand[t].of \notin proxies
    BY <1>0, <1>1, OwnedIsDue
  <1>3. /\ UNCHANGED <<instance, lost, strong, map>> /\ hand' = [hand EXCEPT ![t] = Empty]
        /\ stack' = [stack EXCEPT ![t] = Below(t)]
    BY DEF MethodReturnObject, Let, mapVars
  <1>4. stack[t] # <<>> /\ Top(t).in # "rust"
    BY <1>0 DEF MethodReturnObject, HandInv, InRust
  <1>5. IF hand[t].of \in RustObjs
          THEN arcs' = [arcs EXCEPT ![hand[t].of] = @ + 1] /\ UNCHANGED proxies
          ELSE proxies' = proxies \cup {hand[t].of} /\ UNCHANGED arcs
    BY DEF MethodReturnObject
  <1>6. Finitely'
    BY <1>0, <1>1, <1>2, <1>3, <1>4, <1>5, Pops
  <1>7. ASSUME NEW h \in Things PROVE Owned(h)' = Due(h)'
    <2>0. Owned(h) = Due(h) /\ Counts(h)
      BY <1>0, Counted DEF Balance
    <2>1. Wrapped(h)' = Wrapped(h) /\ Missing(h)' = Missing(h) /\ Due(h)' = Due(h)
      BY <1>0, <1>1, <1>2, <1>3, <1>4, <1>5, Unchanging
    <2>2. hand'[t].of = None /\ \A u \in Threads \ {t} : hand'[u] = hand[u]
      BY <1>0, <1>1, <1>2, <1>3, <1>4, <1>5 DEF TypeOK, Holding, Empty
    <2>3. Carried(h)' = Carried(h) - One(hand[t].of = h)
      BY <1>0, <1>1, <1>2, <1>3, <1>4, <1>5, <2>0, <2>2, HandChanges DEF One, Counts
    <2>4. Running(h)' = Running(h) - One(Top(t).in = "rust" /\ Top(t).of = h)
      BY <1>0, <1>1, <1>2, <1>3, <1>4, <1>5, Pops
    <2>5. Running(h)' = Running(h)
      BY <1>0, <1>1, <1>2, <1>3, <1>4, <1>5, <2>0, <2>4 DEF One, Counts
    <2>6. Data(h)' = Data(h) + One(hand[t].of = h)
      BY <1>0, <1>1, <1>2, <1>3, <1>4, <1>5, <2>0, DataGains
    <2> QED BY <2>0, <2>1, <2>3, <2>5, <2>6 DEF Owned, One, Counts
  <1> QED BY <1>6, <1>7 DEF Balance

\* The handle goes to a new wrapper.
LEMMA LiftRustBalances ==
  ASSUME Good, NEW t \in Threads, NEW w \in Wrappers, LiftRust(t, w)
  PROVE  Balance' /\ Finitely'
  <1>0. TypeOK /\ FreshInv /\ HandInv /\ FrameInv /\ Balance /\ Finitely
    BY DEF Good
  <1>1. None \notin Things
    BY Kinds
  <1>2. /\ UNCHANGED <<arcs, proxies, stack, lost, strong, map>>
        /\ hand' = [hand EXCEPT ![t] = Empty]
        /\ instance[w] = None /\ instance' = [instance EXCEPT ![w] = hand[t].of]
    BY DEF LiftRust, Let, rustVars, mapVars
  <1>3. Finitely'
    BY <1>0, <1>1, <1>2, FinitelyStays
  <1>4. ASSUME NEW h \in Things PROVE Owned(h)' = Due(h)'
    <2>0. Owned(h) = Due(h) /\ Counts(h)
      BY <1>0, Counted DEF Balance
    <2>1. Data(h)' = Data(h) /\ Running(h)' = Running(h) /\ Missing(h)' = Missing(h)
          /\ Due(h)' = Due(h)
      BY <1>0, <1>1, <1>2, Unchanging
    <2>2. hand'[t].of = None /\ \A u \in Threads \ {t} : hand'[u] = hand[u]
      BY <1>0, <1>1, <1>2 DEF TypeOK, Holding, Empty
    <2>3. Carried(h)' = Carried(h) - One(hand[t].of = h)
      BY <1>0, <1>1, <1>2, <2>0, <2>2, HandChanges DEF One, Counts
    <2>4. instance'[w] = hand[t].of /\ \A x \in Wrappers \ {w} : instance'[x] = instance[x]
      BY <1>0, <1>1, <1>2 DEF TypeOK
    <2>5. Wrapped(h)' = Wrapped(h) + One(hand[t].of = h)
      BY <1>0, <1>1, <1>2, <2>0, <2>4, WrapperChanges DEF One, Counts
    <2> QED BY <2>0, <2>1, <2>3, <2>5 DEF Owned, One, Counts
  <1> QED BY <1>3, <1>4 DEF Balance

\* The handle stays with the thread.
LEMMA LiftCppBalances ==
  ASSUME Good, NEW t \in Threads, LiftCpp(t)
  PROVE  Balance' /\ Finitely'
  <1>0. TypeOK /\ FreshInv /\ HandInv /\ FrameInv /\ Balance /\ Finitely
    BY DEF Good
  <1>1. /\ UNCHANGED <<arcs, proxies, stack, lost, strong, map, instance>>
        /\ hand' = [hand EXCEPT ![t] = Holding("erase", hand[t].of)]
    BY DEF LiftCpp, Take, rustVars, mapVars
  <1>2. Finitely'
    BY <1>0, <1>1, FinitelyStays
  <1>3. ASSUME NEW h \in Things PROVE Owned(h)' = Due(h)'
    <2>0. Owned(h) = Due(h) /\ Counts(h)
      BY <1>0, Counted DEF Balance
    <2>1. Wrapped(h)' = Wrapped(h) /\ Data(h)' = Data(h) /\ Running(h)' = Running(h)
          /\ Missing(h)' = Missing(h) /\ Due(h)' = Due(h)
      BY <1>0, <1>1, Unchanging
    <2>2. hand'[t].of = hand[t].of /\ \A u \in Threads \ {t} : hand'[u] = hand[u]
      BY <1>0, <1>1 DEF TypeOK, Holding, Empty
    <2>3. Carried(h)' = Carried(h) - One(hand[t].of = h) + One(hand[t].of = h)
      BY <1>0, <1>1, <2>0, <2>2, HandChanges DEF One, Counts
    <2> QED BY <2>0, <2>1, <2>3 DEF Owned, One, Counts
  <1> QED BY <1>2, <1>3 DEF Balance

\* The handle goes with its entry.
LEMMA LiftEraseBalances ==
  ASSUME Good, NEW t \in Threads, LiftErase(t)
  PROVE  Balance' /\ Finitely'
  <1>0. TypeOK /\ FreshInv /\ HandInv /\ FrameInv /\ Balance /\ Finitely
    BY DEF Good
  <1>1. hand[t].of \in Things /\ hand[t].of \notin RustObjs /\ None \notin Things
    BY <1>0, Kinds DEF LiftErase, HandInv, Things
  <1>2. hand[t].of \in DOMAIN map
    BY <1>0, <1>1, OwnedIsDue
  <1>3. /\ UNCHANGED <<arcs, proxies, stack, lost, strong, instance>> /\ Erase(hand[t].of)
        /\ hand' = [hand EXCEPT ![t] = Empty]
    BY DEF LiftErase, Let, rustVars
  <1>4. Finitely'
    BY <1>0, <1>1, <1>2, <1>3, FinitelyStays
  <1>5. ASSUME NEW h \in Things PROVE Owned(h)' = Due(h)'
    <2>0. Owned(h) = Due(h) /\ Counts(h)
      BY <1>0, Counted DEF Balance
    <2>1. Wrapped(h)' = Wrapped(h) /\ Data(h)' = Data(h) /\ Running(h)' = Running(h)
          /\ Missing(h)' = Missing(h)
      BY <1>0, <1>1, <1>2, <1>3, Unchanging
    <2>2. hand'[t].of = None /\ \A u \in Threads \ {t} : hand'[u] = hand[u]
      BY <1>0, <1>1, <1>2, <1>3 DEF TypeOK, Holding, Empty
    <2>3. Carried(h)' = Carried(h) - One(hand[t].of = h)
      BY <1>0, <1>1, <1>2, <1>3, <2>0, <2>2, HandChanges DEF One, Counts
    <2>4. Due(h)' = Due(h) - One(hand[t].of = h)
      BY <1>0, <1>1, <1>2, <1>3, <2>0, DueLoses
    <2> QED BY <2>0, <2>1, <2>3, <2>4 DEF Owned, One, Counts
  <1> QED BY <1>4, <1>5 DEF Balance

\* The argument goes to Rust's data.
LEMMA KeepBalances ==
  ASSUME Good, NEW t \in Threads, Keep(t)
  PROVE  Balance' /\ Finitely'
  <1>0. TypeOK /\ FreshInv /\ HandInv /\ FrameInv /\ Balance /\ Finitely
    BY DEF Good
  <1>1. InRust(t) /\ Top(t).of = Given(t) /\ Given(t) # None
    BY DEF Keep, Given
  <1>2. Given(t) \in Things
    BY <1>0, <1>1, GivenIsHandle, Kinds
  <1>3. Given(t) \notin proxies
    BY <1>0, <1>1, <1>2, GivenRuns, OwnedIsDue
  <1>4. /\ UNCHANGED <<instance, lost, strong, map, hand>>
        /\ stack' = [stack EXCEPT ![t][Len(stack[t])].of = None]
        /\ IF Given(t) \in RustObjs
             THEN arcs' = [arcs EXCEPT ![Given(t)] = @ + 1] /\ UNCHANGED proxies
             ELSE proxies' = proxies \cup {Given(t)} /\ UNCHANGED arcs
    BY DEF Keep, mapVars
  <1>5. Finitely'
    BY <1>0, <1>1, <1>2, <1>3, <1>4, GivesAway
  <1>6. ASSUME NEW h \in Things PROVE Owned(h)' = Due(h)'
    <2>0. Owned(h) = Due(h) /\ Counts(h)
      BY <1>0, Counted DEF Balance
    <2>1. Wrapped(h)' = Wrapped(h) /\ Carried(h)' = Carried(h) /\ Missing(h)' = Missing(h)
          /\ Due(h)' = Due(h)
      BY <1>0, <1>1, <1>2, <1>3, <1>4, Unchanging
    <2>2. Running(h)' = Running(h) - One(Top(t).of = h)
      BY <1>0, <1>1, <1>2, <1>3, <1>4, GivesAway
    <2>3. Running(h)' = Running(h) - One(Given(t) = h)
      BY <1>0, <1>1, <1>2, <1>3, <1>4, <2>0, <2>2 DEF One, Counts
    <2>4. Data(h)' = Data(h) + One(Given(t) = h)
      BY <1>0, <1>1, <1>2, <1>3, <1>4, <2>0, DataGains
    <2> QED BY <2>0, <2>1, <2>3, <2>4 DEF Owned, One, Counts
  <1> QED BY <1>5, <1>6 DEF Balance

\* What Rust's data lets go of is released.
LEMMA RustDropBalances ==
  ASSUME Good, NEW t \in Threads, NEW g \in RustObjs \cup Odd, RustDrop(t, g)
  PROVE  Balance' /\ Finitely'
  <1>0. TypeOK /\ FreshInv /\ HandInv /\ FrameInv /\ Balance /\ Finitely
    BY DEF Good
  <1>1. g \in Things /\ (g \in RustObjs => g \notin proxies)
        /\ (g \in proxies \/ (g \in RustObjs /\ arcs[g] > 0))
    BY <1>0, Kinds DEF RustDrop, Things, TypeOK
  <1>2. g \notin RustObjs => g \in DOMAIN map
    BY <1>0, <1>1, OwnedIsDue
  <1>3. UNCHANGED <<instance, lost, stack, hand>>
    BY DEF RustDrop
  <1>4. \/ /\ g \in RustObjs /\ arcs' = [arcs EXCEPT ![g] = @ - 1] /\ ArcDrop(g)
           /\ UNCHANGED <<map, proxies>>
        \/ /\ g \in proxies /\ proxies' = proxies \ {g} /\ Erase(g)
           /\ UNCHANGED <<arcs, strong>>
    BY <1>1 DEF RustDrop, mapVars
  <1>5. Finitely'
    BY <1>0, <1>1, <1>2, <1>3, <1>4, FinitelyStays
  <1>6. ASSUME NEW h \in Things PROVE Owned(h)' = Due(h)'
    <2>0. Owned(h) = Due(h) /\ Counts(h)
      BY <1>0, Counted DEF Balance
    <2>1. Wrapped(h)' = Wrapped(h) /\ Carried(h)' = Carried(h) /\ Running(h)' = Running(h)
          /\ Missing(h)' = Missing(h)
      BY <1>0, <1>1, <1>2, <1>3, <1>4, Unchanging
    <2>2. Data(h)' = Data(h) - One(g = h)
      BY <1>0, <1>1, <1>2, <1>3, <1>4, <2>0, DataLoses
    <2>3. Due(h)' = Due(h) - One(g = h)
      BY <1>0, <1>1, <1>2, <1>3, <1>4, <2>0, DueLoses
    <2> QED BY <2>0, <2>1, <2>2, <2>3 DEF Owned, One, Counts
  <1> QED BY <1>5, <1>6 DEF Balance

\* A clone, or a new entry, for the caller.
LEMMA LowerResultBalances ==
  ASSUME Good, NEW t \in Threads, NEW g \in RustObjs \cup Odd, LowerResult(t, g)
  PROVE  Balance' /\ Finitely'
  <1>0. TypeOK /\ FreshInv /\ HandInv /\ FrameInv /\ Balance /\ Finitely
    BY DEF Good
  <1>1. PICK x \in Things :
          /\ hand' = [hand EXCEPT ![t] = Holding("lift", x)]
          /\ \/ x \in RustObjs /\ ArcClone(x) /\ UNCHANGED map
             \/ x = cur_handle /\ (\E i : Insert(i)) /\ UNCHANGED strong
    BY DEF LowerResult, Take, mapVars, MapRoom, Things
  <1>2. UNCHANGED <<arcs, proxies, stack, lost, instance>> /\ hand[t].of = None
        /\ None \notin Things
    BY Kinds DEF LowerResult, RustActs, Empty
  <1>3. Finitely'
    BY <1>0, <1>1, <1>2, FinitelyStays
  <1>4. ASSUME NEW h \in Things PROVE Owned(h)' = Due(h)'
    <2>0. Owned(h) = Due(h) /\ Counts(h)
      BY <1>0, Counted DEF Balance
    <2>1. Wrapped(h)' = Wrapped(h) /\ Data(h)' = Data(h) /\ Running(h)' = Running(h)
          /\ Missing(h)' = Missing(h)
      BY <1>0, <1>1, <1>2, Unchanging
    <2>2. hand'[t].of = x /\ \A u \in Threads \ {t} : hand'[u] = hand[u]
      BY <1>0, <1>1, <1>2 DEF TypeOK, Holding, Empty
    <2>3. Carried(h)' = Carried(h) + One(x = h)
      BY <1>0, <1>1, <1>2, <2>0, <2>2, HandChanges DEF One, Counts
    <2>4. Due(h)' = Due(h) + One(x = h)
      BY <1>0, <1>1, <1>2, <2>0, DueGains
    <2> QED BY <2>0, <2>1, <2>3, <2>4 DEF Owned, One, Counts
  <1> QED BY <1>3, <1>4 DEF Balance

\* The argument that a function still owns is released.
LEMMA RustReturnBalances ==
  ASSUME Good, NEW t \in Threads, RustReturn(t)
  PROVE  Balance' /\ Finitely'
  <1>0. TypeOK /\ FreshInv /\ HandInv /\ FrameInv /\ Balance /\ Finitely
    BY DEF Good
  <1>1. InRust(t) /\ stack[t] # <<>> /\ Top(t).in = "rust" /\ Top(t).of = Given(t)
    BY DEF RustReturn, Given, InRust
  <1>2. Given(t) \in Handle
    BY <1>0, <1>1, GivenIsHandle
  <1>3. Given(t) \in Things /\ Given(t) \notin RustObjs => Given(t) \in DOMAIN map
    BY <1>0, <1>1, GivenRuns, OwnedIsDue
  <1>4. /\ UNCHANGED <<instance, lost, hand, arcs, proxies>>
        /\ stack' = [stack EXCEPT ![t] = Below(t)]
    BY DEF RustReturn
  <1>5. \/ Given(t) = None /\ UNCHANGED <<strong, map>>
        \/ Given(t) \in RustObjs /\ ArcDrop(Given(t)) /\ UNCHANGED map
        \/ Given(t) \in DOMAIN map /\ Erase(Given(t)) /\ UNCHANGED strong
    BY <1>2, <1>3, Kinds DEF RustReturn, mapVars
  <1>6. Given(t) = None \/ Given(t) \in Things
    BY <1>2, Kinds
  <1>7. Finitely'
    BY <1>0, <1>1, <1>2, <1>3, <1>4, <1>5, <1>6, Pops
  <1>8. ASSUME NEW h \in Things PROVE Owned(h)' = Due(h)'
    <2>0. Owned(h) = Due(h) /\ Counts(h)
      BY <1>0, Counted DEF Balance
    <2>1. Wrapped(h)' = Wrapped(h) /\ Data(h)' = Data(h) /\ Carried(h)' = Carried(h)
          /\ Missing(h)' = Missing(h)
      BY <1>0, <1>1, <1>2, <1>3, <1>4, <1>5, <1>6, Unchanging
    <2>2. Running(h)' = Running(h) - One(Top(t).in = "rust" /\ Top(t).of = h)
      BY <1>0, <1>1, <1>2, <1>3, <1>4, <1>5, <1>6, Pops
    <2>3. Running(h)' = Running(h) - One(Given(t) = h)
      BY <1>0, <1>1, <1>2, <1>3, <1>4, <1>5, <1>6, <2>0, <2>2 DEF One, Counts
    <2>4. Due(h)' = Due(h) - One(Given(t) = h)
      <3>1. CASE Given(t) = None
        <4>1. UNCHANGED <<strong, map>>
          BY <1>0, <1>5, <3>1, Kinds DEF TypeOK
        <4>2. Due(h)' = Due(h) /\ h # Given(t)
          BY <1>0, <3>1, <4>1, Unchanging, Kinds
        <4> QED BY <2>0, <4>2 DEF One, Counts
      <3>2. CASE Given(t) \in Things
        BY <1>0, <1>5, <3>2, DueLoses, Kinds
      <3> QED BY <1>6, <3>1, <3>2
    <2> QED BY <2>0, <2>1, <2>3, <2>4 DEF Owned, One, Counts
  <1> QED BY <1>7, <1>8 DEF Balance

\* A method is called on a C++ object.
LEMMA CallMethodBalances ==
  ASSUME Good, NEW t \in Threads, NEW g \in RustObjs \cup Odd, CallMethod(t, g)
  PROVE  Balance' /\ Finitely'
  <1>0. TypeOK /\ FreshInv /\ HandInv /\ FrameInv /\ Balance /\ Finitely
    BY DEF Good
  <1>1. UNCHANGED <<instance, lost, hand, arcs, proxies, strong, map>> /\ Push(t, "cpp", map[g])
    BY DEF CallMethod, rustVars, mapVars
  <1>2. Finitely'
    BY <1>0, <1>1, Pushes
  <1>3. ASSUME NEW h \in Things PROVE Owned(h)' = Due(h)'
    <2>0. Owned(h) = Due(h) /\ Counts(h)
      BY <1>0, Counted DEF Balance
    <2>1. Wrapped(h)' = Wrapped(h) /\ Data(h)' = Data(h) /\ Carried(h)' = Carried(h)
          /\ Missing(h)' = Missing(h) /\ Due(h)' = Due(h)
      BY <1>0, <1>1, Unchanging
    <2>2. Running(h)' = Running(h)
      BY <1>0, <1>1, <2>0, Pushes DEF One, Counts
    <2> QED BY <2>0, <2>1, <2>2 DEF Owned, One, Counts
  <1> QED BY <1>2, <1>3 DEF Balance
-----------------------------------------------------------------------------
\* Stacks of frames, and what becomes of them.
LEMMA StackTypes ==
  ASSUME TypeOK, FrameInv, NEW t \in Threads
  PROVE  /\ \A side \in {"rust", "cpp"}, o \in Handle \cup CppObjs :
              Push(t, side, o) /\ (o \in IF side = "rust" THEN Handle ELSE CppObjs)
              => stack' \in [Threads -> Seq(Frame)] /\ FrameInv'
         /\ stack[t] # <<>> /\ stack' = [stack EXCEPT ![t] = Below(t)]
            => stack' \in [Threads -> Seq(Frame)] /\ FrameInv'
         /\ InRust(t) /\ stack' = [stack EXCEPT ![t][Len(stack[t])].of = None]
            => stack' \in [Threads -> Seq(Frame)] /\ FrameInv'
  <1> DEFINE Fits(f) == f.of \in IF f.in = "rust" THEN Handle ELSE CppObjs
  <1>0. /\ stack \in [Threads -> Seq(Frame)] /\ \A u \in Threads : stack[u] \in Seq(Frame)
        /\ \A u \in Threads : \A n \in DOMAIN stack[u] : Fits(stack[u][n])
    BY DEF TypeOK, Frame, FrameInv
  <1>1. ASSUME NEW s \in Seq(Frame), stack' = [stack EXCEPT ![t] = s], \A n \in DOMAIN s : Fits(s[n])
        PROVE  stack' \in [Threads -> Seq(Frame)] /\ FrameInv'
    <2>1. stack' \in [Threads -> Seq(Frame)] /\ stack'[t] = s
          /\ \A u \in Threads \ {t} : stack'[u] = stack[u]
      BY <1>0, <1>1
    <2> QED BY <1>0, <1>1, <2>1 DEF FrameInv
  <1>2. ASSUME NEW side \in {"rust", "cpp"}, NEW o \in Handle \cup CppObjs, Push(t, side, o),
               o \in IF side = "rust" THEN Handle ELSE CppObjs
        PROVE  stack' \in [Threads -> Seq(Frame)] /\ FrameInv'
    <2> DEFINE f == [in |-> side, of |-> o]
               s == Append(stack[t], f)
    <2>1. f \in Frame /\ Fits(f)
      BY <1>2 DEF Frame
    <2>2. stack' = [stack EXCEPT ![t] = s]
      BY <1>2 DEF Push
    <2> HIDE DEF f, Fits
    <2>3. s \in Seq(Frame) /\ \A n \in DOMAIN s : Fits(s[n])
      BY <1>0, <2>1
    <2> HIDE DEF s
    <2> QED BY <1>1, <2>2, <2>3
  <1>3. ASSUME stack[t] # <<>>, stack' = [stack EXCEPT ![t] = Below(t)]
        PROVE  stack' \in [Threads -> Seq(Frame)] /\ FrameInv'
    <2> HIDE DEF Fits
    <2>1. Below(t) \in Seq(Frame) /\ \A n \in DOMAIN Below(t) : Fits(Below(t)[n])
      BY <1>0, <1>3 DEF Below
    <2> QED BY <1>1, <1>3, <2>1
  <1>4. ASSUME InRust(t), stack' = [stack EXCEPT ![t][Len(stack[t])].of = None]
        PROVE  stack' \in [Threads -> Seq(Frame)] /\ FrameInv'
    <2> DEFINE k == Len(stack[t])
               f == [stack[t][k] EXCEPT !.of = None]
               s == [stack[t] EXCEPT ![k] = f]
    <2>1. k \in DOMAIN stack[t] /\ stack[t][k] \in Frame /\ stack[t][k].in = "rust"
      BY <1>0, <1>4 DEF InRust, Top
    <2>2. f \in Frame /\ Fits(f)
      BY <2>1 DEF Frame, Handle
    <2>3. stack' = [stack EXCEPT ![t] = s]
      BY <1>4
    <2> HIDE DEF f, Fits, k
    <2>4. s \in Seq(Frame) /\ \A n \in DOMAIN s : Fits(s[n])
      BY <1>0, <2>1, <2>2
    <2> HIDE DEF s
    <2> QED BY <1>1, <2>3, <2>4
  <1> QED BY <1>2, <1>3, <1>4

\* The map and its counter.
LEMMA MapTypes ==
  ASSUME TypeOK, FreshInv
  PROVE  /\ \A i \in CppObjs : Insert(i) /\ MapRoom
              => /\ DOMAIN map' \subseteq Odd /\ map' \in [DOMAIN map' -> CppObjs]
                 /\ cur_handle' \in Nat /\ cur_handle' % 2 = 1 /\ \A g \in DOMAIN map' : g < cur_handle'
         /\ \A h : Erase(h)
              => /\ DOMAIN map' \subseteq Odd /\ map' \in [DOMAIN map' -> CppObjs]
                 /\ cur_handle' \in Nat /\ cur_handle' % 2 = 1 /\ \A g \in DOMAIN map' : g < cur_handle'
  <1>0. /\ DOMAIN map \subseteq Odd /\ map \in [DOMAIN map -> CppObjs]
        /\ cur_handle \in Nat /\ cur_handle % 2 = 1 /\ \A g \in DOMAIN map : g < cur_handle
    BY DEF TypeOK, FreshInv
  <1>1. ASSUME NEW i \in CppObjs, Insert(i), MapRoom
        PROVE  /\ DOMAIN map' \subseteq Odd /\ map' \in [DOMAIN map' -> CppObjs]
               /\ cur_handle' \in Nat /\ cur_handle' % 2 = 1 /\ \A g \in DOMAIN map' : g < cur_handle'
    <2>1. /\ map' = [x \in DOMAIN map \cup {cur_handle} |-> IF x = cur_handle THEN i ELSE map[x]]
          /\ cur_handle' = cur_handle + 2 /\ cur_handle \in Odd
      BY <1>1 DEF Insert, With, MapRoom
    <2>2. cur_handle' \in Nat /\ cur_handle' % 2 = 1 /\ cur_handle < cur_handle'
      BY <1>0, <2>1
    <2>3. DOMAIN map' = DOMAIN map \cup {cur_handle}
      BY <2>1
    <2>4. map' \in [DOMAIN map' -> CppObjs]
      BY <1>0, <2>1
    <2>5. \A g \in DOMAIN map' : g < cur_handle'
      BY <1>0, <2>1, <2>3 DEF Odd
    <2> QED BY <1>0, <2>1, <2>2, <2>3, <2>4, <2>5
  <1>2. ASSUME NEW h, Erase(h)
        PROVE  /\ DOMAIN map' \subseteq Odd /\ map' \in [DOMAIN map' -> CppObjs]
               /\ cur_handle' \in Nat /\ cur_handle' % 2 = 1 /\ \A g \in DOMAIN map' : g < cur_handle'
    BY <1>0, <1>2 DEF Erase, Without
  <1> QED BY <1>1, <1>2
-----------------------------------------------------------------------------
\* The invariant without the balance, by what moves together.
StackOK == stack \in [Threads -> Seq(Frame)] /\ FrameInv

MapOK ==
  /\ DOMAIN map \subseteq Odd /\ map \in [DOMAIN map -> CppObjs]
  /\ cur_handle \in Nat /\ cur_handle % 2 = 1 /\ \A h \in DOMAIN map : h < cur_handle

CountOK ==
  /\ strong \in [RustObjs -> Nat] /\ arcs \in [RustObjs -> Nat] /\ made \subseteq RustObjs
  /\ \A r \in RustObjs : strong[r] > 0 => r \in made

OwnerOK ==
  /\ instance \in [Wrappers -> RustObjs \cup {None}] /\ app \subseteq CppObjs /\ proxies \subseteq Odd
  /\ hand \in [Threads -> [use : {"none", "arg", "ret", "lift", "erase"}, of : Handle]]
  /\ lost \in Seq(RustObjs \cup Odd)

LEMMA PartsAre ==
  (TypeOK /\ FreshInv /\ FrameInv) <=> (StackOK /\ MapOK /\ CountOK /\ OwnerOK)
BY DEF StackOK, MapOK, CountOK, OwnerOK, TypeOK, FreshInv, Frame

\* Stacks change by calls and returns, and where an argument is given away.
LEMMA StackStep == ASSUME Good, [Next]_vars PROVE StackOK'
  <1>0. TypeOK /\ FrameInv /\ HandInv /\ StackOK
    BY PartsAre DEF Good
  <1>1. ASSUME UNCHANGED stack PROVE StackOK'
    BY <1>0, <1>1 DEF StackOK, FrameInv
  <1>2. ASSUME NEW t \in Threads, Call(t) PROVE StackOK'
    BY <1>0, <1>2, StackTypes DEF Call, StackOK, TypeOK
  <1>3. ASSUME NEW t \in Threads, MethodReturn(t) \/ RustReturn(t) PROVE StackOK'
    BY <1>0, <1>3, StackTypes DEF MethodReturn, RustReturn, InRust, StackOK
  <1>4. ASSUME NEW t \in Threads, MethodReturnObject(t) PROVE StackOK'
    BY <1>0, <1>4, StackTypes DEF MethodReturnObject, HandInv, StackOK
  <1>5. ASSUME NEW t \in Threads, Keep(t) PROVE StackOK'
    BY <1>0, <1>5, StackTypes DEF Keep, Given, StackOK
  <1>6. ASSUME NEW t \in Threads, NEW h \in RustObjs \cup Odd, CallMethod(t, h) PROVE StackOK'
    <2>1. map[h] \in CppObjs /\ Push(t, "cpp", map[h])
      BY <1>0, <1>6 DEF CallMethod, TypeOK
    <2> QED BY <1>0, <2>1, StackTypes DEF StackOK
  <1>7. ASSUME NEW t \in Threads,
               \/ \E r \in RustObjs, w \in Wrappers : Construct(t, r, w)
               \/ \E w, v \in Wrappers : Copy(t, w, v)
               \/ \E w \in Wrappers : Destroy(t, w) \/ LiftRust(t, w)
               \/ \E i \in CppObjs : Forget(t, i)
        PROVE  StackOK'
    BY <1>1, <1>7 DEF Construct, Copy, Destroy, LiftRust, Forget
  <1>8. ASSUME NEW t \in Threads,
               \/ \E w \in Wrappers, use \in {"arg", "ret"} : LowerWrapper(t, w, use)
               \/ \E i \in CppObjs, use \in {"arg", "ret"} : LowerCpp(t, i, use)
               \/ LowerFails(t) \/ LiftCpp(t) \/ LiftErase(t)
               \/ \E h \in RustObjs \cup Odd : RustDrop(t, h) \/ LowerResult(t, h)
        PROVE  StackOK'
    BY <1>1, <1>8 DEF LowerWrapper, LowerCpp, LowerFails, LiftCpp, LiftErase, RustDrop, LowerResult
  <1>9. CASE UNCHANGED vars
    BY <1>1, <1>9 DEF vars
  <1> QED
    BY <1>2, <1>3, <1>4, <1>5, <1>6, <1>7, <1>8, <1>9 DEF Next, CppStep, LiftStep, RustStep

\* The map gains an entry under a new handle, or loses one.
LEMMA MapStep == ASSUME Good, [Next]_vars PROVE MapOK'
  <1>0. TypeOK /\ FreshInv /\ MapOK
    BY PartsAre DEF Good
  <1>1. ASSUME UNCHANGED mapVars PROVE MapOK'
    BY <1>0, <1>1 DEF MapOK, mapVars
  <1>2. ASSUME NEW i \in CppObjs, Insert(i), MapRoom PROVE MapOK'
    BY <1>0, <1>2, MapTypes DEF MapOK
  <1>3. ASSUME NEW h, Erase(h) PROVE MapOK'
    BY <1>0, <1>3, MapTypes DEF MapOK
  <1>4. ASSUME NEW t \in Threads, NEW i \in CppObjs, NEW use, LowerCpp(t, i, use) PROVE MapOK'
    BY <1>2, <1>4 DEF LowerCpp
  <1>5. ASSUME NEW t \in Threads, NEW h \in RustObjs \cup Odd, LowerResult(t, h) PROVE MapOK'
    <2>1. h \in DOMAIN map => map[h] \in CppObjs
      BY <1>0 DEF TypeOK
    <2> QED BY <1>1, <1>2, <1>5, <2>1 DEF LowerResult
  <1>6. ASSUME NEW t \in Threads, LiftErase(t) \/ RustReturn(t) PROVE MapOK'
    BY <1>1, <1>3, <1>6 DEF LiftErase, RustReturn
  <1>7. ASSUME NEW t \in Threads, NEW h \in RustObjs \cup Odd, RustDrop(t, h) \/ CallMethod(t, h)
        PROVE  MapOK'
    BY <1>1, <1>3, <1>7 DEF RustDrop, CallMethod
  <1>8. ASSUME NEW t \in Threads,
               \/ \E r \in RustObjs, w \in Wrappers : Construct(t, r, w)
               \/ \E w, v \in Wrappers : Copy(t, w, v)
               \/ \E w \in Wrappers : Destroy(t, w) \/ LiftRust(t, w)
               \/ \E i \in CppObjs : Forget(t, i)
        PROVE  MapOK'
    BY <1>1, <1>8 DEF Construct, Copy, Destroy, LiftRust, Forget
  <1>9. ASSUME NEW t \in Threads,
               \/ \E w \in Wrappers, use \in {"arg", "ret"} : LowerWrapper(t, w, use)
               \/ LowerFails(t) \/ Call(t) \/ MethodReturn(t) \/ MethodReturnObject(t)
               \/ LiftCpp(t) \/ Keep(t)
        PROVE  MapOK'
    BY <1>1, <1>9 DEF LowerWrapper, LowerFails, Call, MethodReturn, MethodReturnObject, LiftCpp, Keep
  <1>10. CASE UNCHANGED vars
    BY <1>1, <1>10 DEF vars
  <1> QED
    BY <1>4, <1>5, <1>6, <1>7, <1>8, <1>9, <1>10 DEF Next, CppStep, LiftStep, RustStep
-----------------------------------------------------------------------------
\* A strong reference is made from one that somebody has, and nobody drops
\* one that he has not.
LEMMA CountStep == ASSUME Good, [Next]_vars PROVE CountOK'
  <1>0. TypeOK /\ FrameInv /\ HandInv /\ CountOK /\ Finitely /\ Balance
    BY PartsAre DEF Good
  <1>1. ASSUME UNCHANGED rustVars PROVE CountOK'
    BY <1>0, <1>1 DEF CountOK, rustVars
  <1>2. ASSUME NEW r \in RustObjs, strong[r] > 0, ArcClone(r), UNCHANGED <<made, arcs>> PROVE CountOK'
    BY <1>0, <1>2 DEF CountOK, ArcClone
  <1>3. ASSUME NEW r \in RustObjs, strong[r] > 0, ArcDrop(r), UNCHANGED <<made, arcs>> PROVE CountOK'
    BY <1>0, <1>3 DEF CountOK, ArcDrop
  <1>4. ASSUME NEW r \in RustObjs, arcs' = [arcs EXCEPT ![r] = @ + 1], UNCHANGED <<made, strong>>
        PROVE  CountOK'
    BY <1>0, <1>4 DEF CountOK
  <1>5. ASSUME NEW w \in Wrappers, instance[w] # None
        PROVE  instance[w] \in RustObjs /\ strong[instance[w]] > 0
    <2>1. instance[w] \in RustObjs /\ instance[w] \in Things
      BY <1>0, <1>5 DEF TypeOK, Things
    <2> QED BY <1>0, <2>1, OwnedIsDue
  <1>6. ASSUME NEW t \in Threads, NEW h \in RustObjs, Reaches(t, h) PROVE strong[h] > 0
    <2>1. h \in Things /\ h # None
      BY Kinds DEF Things
    <2>2. CASE h = Given(t)
      <3>1. InRust(t) /\ Top(t).of = h
        BY <2>1, <2>2 DEF Given
      <3> QED BY <1>0, <2>1, <3>1, GivenRuns, OwnedIsDue
    <2>3. CASE h \in proxies \/ arcs[h] > 0
      BY <1>0, <2>1, <2>3, OwnedIsDue
    <2> QED BY <1>6, <2>2, <2>3 DEF Reaches
  <1>7. ASSUME NEW t \in Threads, NEW r \in RustObjs, NEW w \in Wrappers, Construct(t, r, w)
        PROVE  CountOK'
    BY <1>0, <1>7 DEF Construct, CountOK
  <1>8. ASSUME NEW t \in Threads, NEW w \in Wrappers, NEW v \in Wrappers, Copy(t, w, v) PROVE CountOK'
    BY <1>2, <1>5, <1>8 DEF Copy
  <1>9. ASSUME NEW t \in Threads, NEW w \in Wrappers, Destroy(t, w) PROVE CountOK'
    BY <1>3, <1>5, <1>9 DEF Destroy
  <1>10. ASSUME NEW t \in Threads, NEW w \in Wrappers, NEW use, LowerWrapper(t, w, use) PROVE CountOK'
    BY <1>2, <1>5, <1>10 DEF LowerWrapper
  <1>11. ASSUME NEW t \in Threads, MethodReturnObject(t) \/ Keep(t) PROVE CountOK'
    BY <1>1, <1>4, <1>11 DEF MethodReturnObject, Keep, rustVars
  <1>12. ASSUME NEW t \in Threads, NEW h \in RustObjs \cup Odd, RustDrop(t, h) PROVE CountOK'
    <2>1. CASE h \in RustObjs
      <3>1. h \notin proxies
        BY <1>0, <2>1, Kinds DEF TypeOK
      <3>2. strong[h] > 0 /\ arcs[h] > 0
        BY <1>6, <1>12, <2>1, <3>1 DEF RustDrop, Reaches
      <3> QED BY <1>0, <1>12, <2>1, <3>2 DEF RustDrop, ArcDrop, CountOK
    <2>2. CASE h \notin RustObjs
      BY <1>1, <1>12, <2>2 DEF RustDrop, rustVars
    <2> QED BY <2>1, <2>2
  <1>13. ASSUME NEW t \in Threads, NEW h \in RustObjs \cup Odd, LowerResult(t, h) PROVE CountOK'
    BY <1>1, <1>2, <1>6, <1>13 DEF LowerResult, rustVars
  <1>14. ASSUME NEW t \in Threads, RustReturn(t) PROVE CountOK'
    <2>1. CASE Given(t) \in RustObjs
      <3>1. Given(t) # None /\ strong[Given(t)] > 0
        BY <1>6, <2>1, Kinds DEF Reaches
      <3> QED BY <1>3, <1>14, <2>1, <3>1 DEF RustReturn
    <2>2. CASE Given(t) \notin RustObjs
      BY <1>1, <1>14, <2>2 DEF RustReturn, rustVars
    <2> QED BY <2>1, <2>2
  <1>15. ASSUME NEW t \in Threads,
                \/ \E w \in Wrappers : LiftRust(t, w)
                \/ \E i \in CppObjs : Forget(t, i)
                \/ \E i \in CppObjs, use \in {"arg", "ret"} : LowerCpp(t, i, use)
                \/ LowerFails(t) \/ Call(t) \/ MethodReturn(t) \/ LiftCpp(t) \/ LiftErase(t)
                \/ \E h \in RustObjs \cup Odd : CallMethod(t, h)
         PROVE  CountOK'
    BY <1>1, <1>15
       DEF LiftRust, Forget, LowerCpp, LowerFails, Call, MethodReturn, LiftCpp, LiftErase, CallMethod
  <1>16. CASE UNCHANGED vars
    BY <1>1, <1>16 DEF vars
  <1> QED
    BY <1>7, <1>8, <1>9, <1>10, <1>11, <1>12, <1>13, <1>14, <1>15, <1>16
       DEF Next, CppStep, LiftStep, RustStep

\* HandInv, of one thread.
HandOf(t) ==
  /\ hand[t].use = "none" <=> hand[t].of = None
  /\ hand[t].use \in {"arg", "ret"} => ~InRust(t)
  /\ hand[t].use = "ret" => stack[t] # <<>>
  /\ hand[t].use = "erase" => hand[t].of \in Odd

\* A step of t leaves the hands and the stacks of other threads alone.
LEMMA OthersHands ==
  ASSUME HandInv, NEW t \in Threads, HandOf(t)',
         \A u \in Threads \ {t} : stack'[u] = stack[u] /\ hand'[u] = hand[u]
  PROVE  HandInv'
  <1>1. ASSUME NEW u \in Threads \ {t} PROVE HandOf(u)'
    <2>1. HandOf(u)
      BY DEF HandInv, HandOf
    <2> QED BY <2>1 DEF HandOf, InRust, Top
  <1>2. \A u \in Threads : HandOf(u)'
    BY <1>1
  <1> QED BY <1>2 DEF HandInv, HandOf

\* A thread that carries nothing, or what it received from Rust, may change
\* its stack.
LEMMA FreeHands ==
  ASSUME TypeOK, HandInv, NEW t \in Threads, \A u \in Threads \ {t} : stack'[u] = stack[u],
         \/ hand' = [hand EXCEPT ![t] = Empty]
         \/ UNCHANGED hand /\ hand[t].use \in {"none", "lift"}
  PROVE  HandInv'
  <1>1. HandOf(t)
    BY DEF HandInv, HandOf
  <1>2. CASE hand' = [hand EXCEPT ![t] = Empty]
    <2>1. hand'[t] = Empty /\ \A u \in Threads \ {t} : hand'[u] = hand[u]
      BY <1>2 DEF TypeOK
    <2>2. HandOf(t)'
      BY <2>1 DEF HandOf, Empty
    <2> QED BY <2>1, <2>2, OthersHands
  <1>3. CASE UNCHANGED hand /\ hand[t].use \in {"none", "lift"}
    <2>1. HandOf(t)'
      BY <1>1, <1>3 DEF HandOf
    <2> QED BY <1>3, <2>1, OthersHands
  <1> QED BY <1>2, <1>3

\* A thread that takes a handle.
LEMMA TakesHands ==
  ASSUME TypeOK, HandInv, NEW t \in Threads, NEW use \in {"arg", "ret", "lift", "erase"},
         NEW h \in Things, Take(t, use, h), UNCHANGED stack,
         use \in {"arg", "ret"} => ~InRust(t), use = "ret" => stack[t] # <<>>,
         use = "erase" => h \in Odd
  PROVE  HandInv'
  <1>1. hand'[t] = Holding(use, h) /\ \A u \in Threads \ {t} : hand'[u] = hand[u]
    BY DEF Take, TypeOK
  <1>2. HandOf(t)'
    BY <1>1, Kinds DEF HandOf, Holding, InRust, Top
  <1> QED BY <1>1, <1>2, OthersHands

\* A thread carries a handle exactly while it does something with it.
LEMMA HandStep == ASSUME Good, [Next]_vars PROVE HandInv'
  <1>0. TypeOK /\ FrameInv /\ HandInv
    BY DEF Good
  <1>1. ASSUME UNCHANGED <<hand, stack>> PROVE HandInv'
    BY <1>0, <1>1 DEF HandInv, InRust, Top
  <1>2. ASSUME NEW t \in Threads, NEW w \in Wrappers, NEW use \in {"arg", "ret"}, LowerWrapper(t, w, use)
        PROVE  HandInv'
    <2>1. instance[w] \in Things
      BY <1>0, <1>2 DEF LowerWrapper, TypeOK, Things
    <2> QED BY <1>0, <1>2, <2>1, TakesHands DEF LowerWrapper, LowerUse, InCpp
  <1>3. ASSUME NEW t \in Threads, NEW i \in CppObjs, NEW use \in {"arg", "ret"}, LowerCpp(t, i, use)
        PROVE  HandInv'
    <2>1. cur_handle \in Things
      BY <1>3 DEF LowerCpp, MapRoom, Things
    <2> QED BY <1>0, <1>3, <2>1, TakesHands DEF LowerCpp, LowerUse, InCpp
  <1>4. ASSUME NEW t \in Threads, LowerFails(t) \/ (\E w \in Wrappers : LiftRust(t, w)) \/ LiftErase(t)
        PROVE  HandInv'
    <2>1. UNCHANGED stack /\ hand' = [hand EXCEPT ![t] = Empty]
      BY <1>4 DEF LowerFails, LiftRust, LiftErase, Let
    <2> QED BY <1>0, <2>1, FreeHands
  <1>5. ASSUME NEW t \in Threads, Call(t) \/ MethodReturnObject(t) PROVE HandInv'
    <2>1. hand' = [hand EXCEPT ![t] = Empty] /\ \A u \in Threads \ {t} : stack'[u] = stack[u]
      BY <1>0, <1>5 DEF Call, MethodReturnObject, Let, Push, TypeOK
    <2> QED BY <1>0, <2>1, FreeHands
  <1>6. ASSUME NEW t \in Threads,
               MethodReturn(t) \/ Keep(t) \/ RustReturn(t) \/ \E h \in RustObjs \cup Odd : CallMethod(t, h)
        PROVE  HandInv'
    <2>1. UNCHANGED hand /\ hand[t].use \in {"none", "lift"}
      BY <1>6 DEF MethodReturn, Keep, RustReturn, CallMethod, RustActs, Empty
    <2>2. \A u \in Threads \ {t} : stack'[u] = stack[u]
      BY <1>0, <1>6 DEF MethodReturn, Keep, RustReturn, CallMethod, Push, TypeOK
    <2> QED BY <1>0, <2>1, <2>2, FreeHands
  <1>7. ASSUME NEW t \in Threads, LiftCpp(t) PROVE HandInv'
    <2>1. hand[t].of \in Odd /\ hand[t].of \in Things
      BY <1>0, <1>7 DEF LiftCpp, TypeOK, Things
    <2> QED BY <1>0, <1>7, <2>1, TakesHands DEF LiftCpp
  <1>8. ASSUME NEW t \in Threads, NEW h \in RustObjs \cup Odd, LowerResult(t, h) PROVE HandInv'
    <2>1. PICK x \in Things : Take(t, "lift", x) /\ UNCHANGED stack
      BY <1>8 DEF LowerResult, MapRoom, Things
    <2> QED BY <1>0, <2>1, TakesHands
  <1>9. ASSUME NEW t \in Threads,
               \/ \E r \in RustObjs, w \in Wrappers : Construct(t, r, w)
               \/ \E w, v \in Wrappers : Copy(t, w, v)
               \/ \E w \in Wrappers : Destroy(t, w)
               \/ \E i \in CppObjs : Forget(t, i)
               \/ \E h \in RustObjs \cup Odd : RustDrop(t, h)
        PROVE  HandInv'
    BY <1>1, <1>9 DEF Construct, Copy, Destroy, Forget, RustDrop
  <1>10. CASE UNCHANGED vars
    BY <1>1, <1>10 DEF vars
  <1> QED
    BY <1>2, <1>3, <1>4, <1>5, <1>6, <1>7, <1>8, <1>9, <1>10 DEF Next, CppStep, LiftStep, RustStep

\* Wrappers, hands, proxies and what is lost keep to handles of their kinds.
LEMMA OwnerStep == ASSUME Good, [Next]_vars PROVE OwnerOK'
  <1>0. TypeOK /\ HandInv /\ FrameInv /\ OwnerOK
    BY PartsAre DEF Good
  <1>1. ASSUME UNCHANGED <<instance, app, proxies, lost, hand>> PROVE OwnerOK'
    BY <1>0, <1>1 DEF OwnerOK
  <1>2. ASSUME NEW t \in Threads, NEW use \in {"arg", "ret", "lift", "erase"}, NEW h \in Handle,
               Take(t, use, h), app' \subseteq CppObjs, UNCHANGED <<instance, proxies, lost>>
        PROVE  OwnerOK'
    BY <1>0, <1>2 DEF OwnerOK, Take, Holding
  <1>3. ASSUME NEW t \in Threads, Let(t), UNCHANGED app, instance' \in [Wrappers -> RustObjs \cup {None}],
               proxies' \subseteq Odd, lost' \in Seq(RustObjs \cup Odd)
        PROVE  OwnerOK'
    BY <1>0, <1>3 DEF OwnerOK, Let, Empty, Handle
  <1>4. ASSUME UNCHANGED <<app, lost, hand>>, instance' \in [Wrappers -> RustObjs \cup {None}],
               proxies' \subseteq Odd
        PROVE  OwnerOK'
    BY <1>0, <1>4 DEF OwnerOK
  <1>5. ASSUME NEW t \in Threads,
               \/ \E r \in RustObjs, w \in Wrappers : Construct(t, r, w)
               \/ \E w, v \in Wrappers : Copy(t, w, v)
               \/ \E w \in Wrappers : Destroy(t, w)
        PROVE  OwnerOK'
    BY <1>0, <1>4, <1>5 DEF Construct, Copy, Destroy, OwnerOK
  <1>6. ASSUME NEW t \in Threads, NEW i \in CppObjs, Forget(t, i) PROVE OwnerOK'
    BY <1>0, <1>6 DEF Forget, OwnerOK
  <1>7. ASSUME NEW t \in Threads, NEW use \in {"arg", "ret"},
               \/ \E w \in Wrappers : LowerWrapper(t, w, use)
               \/ \E i \in CppObjs : LowerCpp(t, i, use)
        PROVE  OwnerOK'
    <2>1. PICK h : Take(t, use, h) /\ UNCHANGED <<instance, app, proxies, lost>> /\ h \in Handle
      BY <1>0, <1>7 DEF LowerWrapper, LowerCpp, MapRoom, OwnerOK, Handle
    <2> QED BY <1>0, <1>2, <2>1 DEF OwnerOK
  <1>8. ASSUME NEW t \in Threads, LowerFails(t) PROVE OwnerOK'
    <2>1. hand[t].of \in RustObjs \cup Odd
      BY <1>0, <1>8, Kinds DEF LowerFails, HandInv, TypeOK, Things
    <2> QED BY <1>0, <1>3, <1>8, <2>1 DEF LowerFails, OwnerOK
  <1>9. ASSUME NEW t \in Threads, Call(t) PROVE OwnerOK'
    BY <1>0, <1>3, <1>9 DEF Call, OwnerOK
  <1>10. ASSUME NEW t \in Threads, MethodReturnObject(t) PROVE OwnerOK'
    <2>1. hand[t].of \in RustObjs \cup Odd
      BY <1>0, <1>10, Kinds DEF MethodReturnObject, HandInv, TypeOK, Things
    <2> QED BY <1>0, <1>3, <1>10, <2>1 DEF MethodReturnObject, OwnerOK
  <1>11. ASSUME NEW t \in Threads, NEW w \in Wrappers, LiftRust(t, w) PROVE OwnerOK'
    BY <1>0, <1>3, <1>11 DEF LiftRust, OwnerOK
  <1>12. ASSUME NEW t \in Threads, LiftCpp(t) PROVE OwnerOK'
    <2>1. map[hand[t].of] \in CppObjs /\ hand[t].of \in Handle
      BY <1>0, <1>12 DEF LiftCpp, TypeOK
    <2> QED BY <1>0, <1>2, <1>12, <2>1 DEF LiftCpp, OwnerOK
  <1>13. ASSUME NEW t \in Threads, LiftErase(t) PROVE OwnerOK'
    BY <1>0, <1>3, <1>13 DEF LiftErase, OwnerOK
  <1>14. ASSUME NEW t \in Threads, Keep(t) PROVE OwnerOK'
    <2>1. Given(t) \in RustObjs \cup Odd
      <3>1. InRust(t)
        BY <1>14 DEF Keep, Given
      <3> QED BY <1>0, <1>14, <3>1, GivenIsHandle, Kinds DEF Keep, Things
    <2> QED BY <1>0, <1>4, <1>14, <2>1 DEF Keep, OwnerOK
  <1>15. ASSUME NEW t \in Threads, NEW h \in RustObjs \cup Odd, RustDrop(t, h) PROVE OwnerOK'
    BY <1>0, <1>4, <1>15 DEF RustDrop, OwnerOK
  <1>16. ASSUME NEW t \in Threads, NEW h \in RustObjs \cup Odd, LowerResult(t, h) PROVE OwnerOK'
    <2>1. PICK x \in Handle : Take(t, "lift", x) /\ UNCHANGED <<instance, app, proxies, lost>>
      BY <1>16 DEF LowerResult, MapRoom, Handle
    <2> QED BY <1>0, <1>2, <2>1 DEF OwnerOK
  <1>17. ASSUME NEW t \in Threads,
                MethodReturn(t) \/ RustReturn(t) \/ \E h \in RustObjs \cup Odd : CallMethod(t, h)
         PROVE  OwnerOK'
    BY <1>1, <1>17 DEF MethodReturn, RustReturn, CallMethod
  <1>18. CASE UNCHANGED vars
    BY <1>1, <1>18 DEF vars
  <1> QED
    BY <1>5, <1>6, <1>7, <1>8, <1>9, <1>10, <1>11, <1>12, <1>13, <1>14, <1>15, <1>16, <1>17, <1>18
       DEF Next, CppStep, LiftStep, RustStep
-----------------------------------------------------------------------------
\* Every step keeps the owners and what is due in balance.
LEMMA BalanceStep == ASSUME Good, [Next]_vars PROVE Balance' /\ Finitely'
  <1>1. ASSUME NEW t \in Threads, CppStep(t) PROVE Balance' /\ Finitely'
    <2>1. ASSUME NEW i \in CppObjs, Forget(t, i) PROVE Balance' /\ Finitely'
      BY <2>1, StillBalanced DEF Forget, rustVars, mapVars
    <2> QED
      BY <1>1, <2>1, ConstructBalances, CopyBalances, DestroyBalances, LowerWrapperBalances,
         LowerCppBalances, LowerFailsBalances, CallBalances, MethodReturnBalances,
         MethodReturnObjectBalances DEF CppStep
  <1>2. ASSUME NEW t \in Threads, LiftStep(t) PROVE Balance' /\ Finitely'
    BY <1>2, LiftRustBalances, LiftCppBalances, LiftEraseBalances DEF LiftStep
  <1>3. ASSUME NEW t \in Threads, RustStep(t) PROVE Balance' /\ Finitely'
    BY <1>3, KeepBalances, RustReturnBalances, RustDropBalances, LowerResultBalances,
       CallMethodBalances DEF RustStep
  <1>4. CASE UNCHANGED vars
    BY <1>4, StillBalanced DEF vars, rustVars, mapVars
  <1> QED BY <1>1, <1>2, <1>3, <1>4 DEF Next

\* At first nobody owns anything.
LEMMA InitGood == Init => Good
  <1> SUFFICES ASSUME Init PROVE Good
    OBVIOUS
  <1>1. TypeOK
    <2>1. <<>> \in Seq(RustObjs \cup Odd) /\ <<>> \in Seq(Frame)
      OBVIOUS
    <2> QED BY <2>1 DEF Init, TypeOK, Empty, Handle, Frame
  <1>2. FreshInv /\ HandInv /\ FrameInv
    BY DEF Init, FreshInv, HandInv, FrameInv, Empty
  <1>3. ASSUME NEW h \in Things
        PROVE  /\ WrapsOf(h) = {} /\ HandsOf(h) = {} /\ RunsOf(h) = {} /\ LostOf(h) = {}
               /\ Data(h) = 0 /\ Due(h) = 0
    <2>1. h # None
      BY Kinds
    <2>2. WrapsOf(h) = {} /\ HandsOf(h) = {} /\ LostOf(h) = {}
      BY <2>1 DEF Init, WrapsOf, HandsOf, LostOf, Empty
    <2>3. RunsOf(h) = {}
      BY DEF Init, RunsOf, RunsIn
    <2>4. Data(h) = 0 /\ Due(h) = 0
      BY DEF Init, Data, Due, One
    <2> QED BY <2>2, <2>3, <2>4
  <1>4. Finitely
    BY <1>3, FS_EmptySet DEF Finitely
  <1>5. ASSUME NEW h \in Things PROVE Owned(h) = Due(h)
    <2>1. Wrapped(h) = 0 /\ Carried(h) = 0 /\ Running(h) = 0 /\ Missing(h) = 0
      BY <1>3, FS_EmptySet DEF Wrapped, Carried, Running, Missing
    <2> QED BY <1>3, <2>1 DEF Owned
  <1> QED BY <1>1, <1>2, <1>4, <1>5 DEF Good, Balance

\* The invariant is inductive.
LEMMA GoodStep == Good /\ [Next]_vars => Good'
  <1> SUFFICES ASSUME Good, [Next]_vars PROVE Good'
    OBVIOUS
  <1>1. StackOK' /\ MapOK' /\ CountOK' /\ OwnerOK'
    BY StackStep, MapStep, CountStep, OwnerStep
  <1>2. TypeOK' /\ FreshInv' /\ FrameInv'
    BY <1>1 DEF StackOK, MapOK, CountOK, OwnerOK, TypeOK, FreshInv, Frame
  <1> QED BY <1>2, HandStep, BalanceStep DEF Good

\* Types, fresh handles, what threads carry and run, and every count of owners
\* satisfy one inductive invariant, for any threads, objects and nesting.
THEOREM Invariance == Spec => []IInv
  <1>1. Good => IInv
    BY BalanceIs DEF Good, IInv
  <1> QED BY <1>1, InitGood, GoodStep, PTL DEF Spec

\* Every variable keeps its type: no strong count is lowered below 0.
THEOREM TypeCorrect == Spec => []TypeOK
  <1>1. IInv => TypeOK
    BY DEF IInv
  <1> QED BY <1>1, Invariance, PTL

\* Every strong reference has exactly one owner (obj.cpp: instance is freed
\* once and cloned for every use).
THEOREM StrongReferencesOwned == Spec => []StrongCountExact
  <1>1. IInv => StrongCountExact
    BY DEF IInv
  <1> QED BY <1>1, Invariance, PTL

\* Every entry of the handle map has exactly one owner, and every odd handle
\* that somebody owns is in the map.
THEOREM ForeignHandlesOwned == Spec => []ForeignHandlesOwnedOnce
  <1>1. IInv => ForeignHandlesOwnedOnce
    BY DEF IInv
  <1> QED BY <1>1, Invariance, PTL

\* No Rust object is freed while a Rust function runs on it.
THEOREM RunningObjectsLive == Spec => []NoUseAfterFree
  <1>1. Good => NoUseAfterFree
    <2> SUFFICES ASSUME Good, NEW t \in Threads, NEW n \in DOMAIN stack[t], stack[t][n].of \in RustObjs
                 PROVE  strong[stack[t][n].of] > 0
      BY DEF NoUseAfterFree
    <2> DEFINE r == stack[t][n].of
    <2>1. TypeOK /\ FrameInv /\ Balance /\ Finitely
      BY DEF Good
    <2>2. stack[t][n].in = "rust"
      BY <2>1, Kinds DEF FrameInv
    <2>3. n \in RunsIn(stack[t], r) /\ r \in Things
      BY <2>2 DEF RunsIn, Things
    <2> HIDE DEF r
    <2>4. r \in RustObjs
      BY DEF r
    <2>5. RunsIn(stack[t], r) # {}
      BY <2>3
    <2>6. strong[r] > 0
      BY <2>1, <2>3, <2>4, <2>5, OwnedIsDue
    <2> QED BY <2>6 DEF r
  <1> QED BY <1>1, InitGood, GoodStep, PTL DEF Spec
=============================================================================
