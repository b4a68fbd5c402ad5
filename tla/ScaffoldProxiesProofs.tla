------------------------- MODULE ScaffoldProxiesProofs -------------------------
(***************************************************************************)
(* Proofs about ScaffoldProxies, for any threads, callback objects and     *)
(* nesting of calls.  That a handle is still the library's when it is used *)
(* takes two facts: every handle has one frame or one object that answers  *)
(* for it (ApartInv, MemberInv), and a call of a proxy lies on a frame     *)
(* that keeps the proxy alive, itself or through its object (On).          *)
(*                                                                         *)
(* An action keeps the first m frames of one thread's stack and puts new   *)
(* ones on them.  The first lemmas say what is left to show for such a     *)
(* step; then there is one lemma for every action.                         *)
(*                                                                         *)
(* The last part is about owners that are none too few, NoHandleForgotten: *)
(* what goes leaves its handle to something else.  That is inductive once  *)
(* a frame is known to hold one handle at most and a constructor's object  *)
(* to store none yet (OwnerInv).                                           *)
(***************************************************************************)
EXTENDS ScaffoldProxies, SequenceTheorems, TLAPS

Changes(t, m, new) ==
  /\ m \in Nat /\ m <= Len(stack[t])
  /\ stack' \in [Threads -> Seq(FrameSet)]
  /\ \A u \in Threads \ {t} : stack'[u] = stack[u]
  /\ Len(stack'[t]) = m + Len(new)
  /\ \A i \in 1..m : stack'[t][i] = stack[t][i]
  /\ \A j \in 1..Len(new) : stack'[t][m + j] = new[j]

\* The frames of the other threads, and the first m of t.
Kept(t, m) ==
  {f \in FrameSet : \/ \E u \in Threads \ {t} : \E i \in DOMAIN stack[u] : f = stack[u][i]
                    \/ \E i \in 1..m : f = stack[t][i]}

\* What is kept stays right in the new world.
Carried(t, m) ==
  \A f, g \in Kept(t, m) :
    FrameOK(f)' /\ (On(f, g) => On(f, g)') /\ (Apart(f, g) => Apart(f, g)')

\* A frame f, put on t's first m, fits there.
Fits(t, m, f) ==
  /\ f \in FrameSet /\ FrameOK(f)'
  /\ IF m = 0 THEN f.at # "foreign" ELSE \A g \in {stack[t][m]} : On(f, g)'
  /\ \A g \in Kept(t, m) : Apart(f, g)'

LEMMA ApartSymmetric == \A f, g : Apart(f, g) <=> Apart(g, f)
BY DEF Apart

LEMMA ApartSymmetricNext == \A f, g : Apart(f, g)' <=> Apart(g, f)'
BY DEF Apart
-----------------------------------------------------------------------------
\* The stacks after a push, and after the innermost frame is replaced.
LEMMA PushChanges ==
  ASSUME TypeOK, NEW t \in Threads, NEW new \in Seq(FrameSet), Set(t, stack[t] \o new)
  PROVE  Changes(t, Len(stack[t]), new)
<1> DEFINE s == stack[t]
           n == Len(s)
<1>1. s \in Seq(FrameSet) /\ n \in Nat /\ DOMAIN s = 1..n
  BY DEF TypeOK
<1>2. /\ s \o new \in Seq(FrameSet) /\ Len(s \o new) = n + Len(new)
      /\ \A i \in 1..n : (s \o new)[i] = s[i]
      /\ \A j \in 1..Len(new) : (s \o new)[n + j] = new[j]
  <2>1. s \o new \in Seq(FrameSet) /\ Len(s \o new) = n + Len(new)
    BY <1>1
  <2>2. \A i \in 1..(n + Len(new)) : (s \o new)[i] = IF i <= n THEN s[i] ELSE new[i - n]
    BY <1>1
  <2>3. Len(new) \in Nat
    OBVIOUS
  <2> HIDE DEF s, n
  <2>4. ASSUME NEW j \in 1..Len(new) PROVE (s \o new)[n + j] = new[j]
    <3> DEFINE k == n + j
    <3>1. k \in 1..(n + Len(new)) /\ ~(k <= n) /\ k - n = j
      BY <1>1, <2>3
    <3> HIDE DEF k
    <3>2. (s \o new)[k] = new[j]
      BY <2>2, <3>1
    <3> QED BY <3>2 DEF k
  <2> QED BY <1>1, <2>1, <2>2, <2>3, <2>4
<1>3. stack' = [stack EXCEPT ![t] = s \o new] /\ stack \in [Threads -> Seq(FrameSet)]
  BY DEF Set, TypeOK
<1>4. stack'[t] = s \o new
  BY <1>3
<1>5. stack' \in [Threads -> Seq(FrameSet)] /\ \A u \in Threads \ {t} : stack'[u] = stack[u]
  BY <1>2, <1>3
<1> HIDE DEF s
<1> QED BY <1>1, <1>2, <1>4, <1>5 DEF Changes, s

LEMMA UnderFacts ==
  ASSUME TypeOK, NEW t \in Threads, stack[t] # <<>>
  PROVE  /\ Len(stack[t]) \in Nat \ {0}
         /\ DOMAIN stack[t] = 1..Len(stack[t])
         /\ Under(t) \in Seq(FrameSet)
         /\ Len(Under(t)) = Len(stack[t]) - 1
         /\ \A i \in 1..(Len(stack[t]) - 1) : Under(t)[i] = stack[t][i]
<1> DEFINE s == stack[t]
           k == Len(s) - 1
<1>1. s \in Seq(FrameSet)
  BY DEF TypeOK
<1>2. Len(s) \in Nat \ {0} /\ DOMAIN s = 1..Len(s)
  BY <1>1
<1>3. k \in Int /\ k >= 0 /\ \A i \in 1..k : s[i] \in FrameSet
  BY <1>1, <1>2
<1> HIDE DEF k
<1>4. /\ SubSeq(s, 1, k) \in Seq(FrameSet)
      /\ Len(SubSeq(s, 1, k)) = IF 1 <= k THEN k - 1 + 1 ELSE 0
      /\ \A i \in 1..k : SubSeq(s, 1, k)[i] = s[i]
  <2>1. /\ SubSeq(s, 1, k) \in Seq(FrameSet)
        /\ Len(SubSeq(s, 1, k)) = IF 1 <= k THEN k - 1 + 1 ELSE 0
    BY <1>3, SubSeqProperties
  <2>2. \A i \in 1..k : SubSeq(s, 1, k)[i] = s[i]
    BY <1>1, <1>2, <1>3 DEF k
  <2> QED BY <2>1, <2>2
<1>5. Len(SubSeq(s, 1, k)) = k
  BY <1>3, <1>4
<1> QED BY <1>2, <1>4, <1>5 DEF k, Under

LEMMA ReplaceChanges ==
  ASSUME TypeOK, NEW t \in Threads, stack[t] # <<>>,
         NEW new \in Seq(FrameSet), Set(t, Under(t) \o new)
  PROVE  Changes(t, Len(stack[t]) - 1, new)
<1> DEFINE n == Len(stack[t])
           s == Under(t)
<1>1. /\ n \in Nat \ {0} /\ s \in Seq(FrameSet) /\ Len(s) = n - 1
      /\ \A i \in 1..(n - 1) : s[i] = stack[t][i]
  BY UnderFacts
<1>2. stack' = [stack EXCEPT ![t] = s \o new] /\ stack \in [Threads -> Seq(FrameSet)]
  BY DEF Set, TypeOK
<1> HIDE DEF s, n
<1>3. /\ s \o new \in Seq(FrameSet) /\ Len(s \o new) = n - 1 + Len(new)
      /\ \A i \in 1..(n - 1 + Len(new)) :
           (s \o new)[i] = IF i <= n - 1 THEN s[i] ELSE new[i - (n - 1)]
  BY <1>1
<1>4. Len(new) \in Nat
  OBVIOUS
<1>5. ASSUME NEW j \in 1..Len(new) PROVE (s \o new)[n - 1 + j] = new[j]
  <2> DEFINE k == n - 1 + j
  <2>1. k \in 1..(n - 1 + Len(new)) /\ ~(k <= n - 1) /\ k - (n - 1) = j
    BY <1>1, <1>4
  <2> HIDE DEF k
  <2>2. (s \o new)[k] = new[j]
    BY <1>3, <2>1
  <2> QED BY <2>2 DEF k
<1>6. \A i \in 1..(n - 1) : (s \o new)[i] = stack[t][i]
  BY <1>1, <1>3, <1>4
<1>7. stack'[t] = s \o new
  BY <1>2
<1>8. stack' \in [Threads -> Seq(FrameSet)] /\ \A u \in Threads \ {t} : stack'[u] = stack[u]
  BY <1>2, <1>3
<1>9. n - 1 \in Nat /\ n - 1 <= n
  BY <1>1
<1> QED BY <1>3, <1>5, <1>6, <1>7, <1>8, <1>9 DEF Changes, n

LEMMA PopChanges ==
  ASSUME TypeOK, NEW t \in Threads, stack[t] # <<>>, Set(t, Under(t))
  PROVE  Changes(t, Len(stack[t]) - 1, <<>>)
<1>1. Under(t) \o <<>> = Under(t)
  BY UnderFacts
<1>2. <<>> \in Seq(FrameSet)
  OBVIOUS
<1> QED BY <1>1, <1>2, ReplaceChanges
-----------------------------------------------------------------------------
LEMMA FramesAre == \A f : f \in AllFrames <=> \E t \in Threads : \E i \in DOMAIN stack[t] : f = stack[t][i]
BY DEF AllFrames, Frames

\* The innermost frame and those that stay when it goes.
LEMMA TopFacts ==
  ASSUME TypeOK, StacksInv, ApartInv, NEW t \in Threads, stack[t] # <<>>
  PROVE  /\ Len(stack[t]) \in Nat \ {0} /\ Len(stack[t]) \in DOMAIN stack[t]
         /\ Top(t) \in FrameSet /\ FrameOK(Top(t))
         /\ \A f \in Kept(t, Len(stack[t]) - 1) :
              f \in FrameSet /\ FrameOK(f) /\ Apart(f, Top(t))
         /\ Len(stack[t]) = 1 => Top(t).at # "foreign"
         /\ Len(stack[t]) > 1 => /\ On(Top(t), stack[t][Len(stack[t]) - 1])
                                 /\ stack[t][Len(stack[t]) - 1] \in Kept(t, Len(stack[t]) - 1)
<1> DEFINE n == Len(stack[t])
<1>1. \A u \in Threads : stack[u] \in Seq(FrameSet) /\ DOMAIN stack[u] = 1..Len(stack[u])
  BY DEF TypeOK
<1>2. n \in Nat \ {0} /\ n \in DOMAIN stack[t]
  BY <1>1
<1>3. Top(t) \in FrameSet /\ FrameOK(Top(t))
  BY <1>1, <1>2 DEF Top, StacksInv
<1>4. ASSUME NEW f \in Kept(t, n - 1)
      PROVE  f \in FrameSet /\ FrameOK(f) /\ Apart(f, Top(t))
  <2>1. PICK u \in Threads : \E i \in DOMAIN stack[u] : f = stack[u][i] /\ (u # t \/ i < n)
    BY <1>1, <1>2 DEF Kept
  <2>2. PICK i \in DOMAIN stack[u] : f = stack[u][i] /\ (u # t \/ i < n)
    BY <2>1
  <2> QED BY <1>1, <1>2, <2>2 DEF StacksInv, ApartInv, Top
<1>5. n = 1 => Top(t).at # "foreign"
  BY <1>2 DEF StacksInv, Top
<1>6. n > 1 => On(Top(t), stack[t][n - 1]) /\ stack[t][n - 1] \in Kept(t, n - 1)
  <2> SUFFICES ASSUME n > 1 PROVE On(Top(t), stack[t][n - 1]) /\ stack[t][n - 1] \in Kept(t, n - 1)
    OBVIOUS
  <2>1. n - 1 \in DOMAIN stack[t] /\ n - 1 \in 1..(n - 1) /\ n # 1
    BY <1>1, <1>2
  <2>2. On(Top(t), stack[t][n - 1])
    BY <1>2, <2>1 DEF StacksInv, Top
  <2>3. stack[t][n - 1] \in Kept(t, n - 1)
    BY <1>1, <2>1 DEF Kept
  <2> QED BY <2>2, <2>3
<1> QED BY <1>2, <1>3, <1>4, <1>5, <1>6

LEMMA AllFacts ==
  ASSUME TypeOK, StacksInv, NEW t \in Threads
  PROVE  /\ Kept(t, Len(stack[t])) = AllFrames
         /\ \A f \in AllFrames : f \in FrameSet /\ FrameOK(f)
<1>1. \A u \in Threads : stack[u] \in Seq(FrameSet) /\ DOMAIN stack[u] = 1..Len(stack[u])
  BY DEF TypeOK
<1>2. Kept(t, Len(stack[t])) = AllFrames
  BY <1>1, FramesAre DEF Kept
<1>3. ASSUME NEW f \in AllFrames PROVE f \in FrameSet /\ FrameOK(f)
  <2>1. PICK u \in Threads : \E i \in DOMAIN stack[u] : f = stack[u][i]
    BY FramesAre
  <2> QED BY <1>1, <2>1 DEF StacksInv
<1> QED BY <1>2, <1>3

\* What is to be shown of a step that puts new on what is kept.
LEMMA StacksKept ==
  ASSUME TypeOK, StacksInv, ApartInv,
         NEW t \in Threads, NEW m, NEW new \in Seq(FrameSet),
         Changes(t, m, new), Carried(t, m),
         \A j \in 1..Len(new) : FrameOK(new[j])' /\ \A g \in Kept(t, m) : Apart(new[j], g)',
         \A j, k \in 1..Len(new) : j # k => Apart(new[j], new[k])',
         Len(new) > 0 => IF m = 0 THEN new[1].at # "foreign"
                                  ELSE \A g \in {stack[t][m]} : On(new[1], g)',
         \A j \in 2..Len(new) : On(new[j], new[j - 1])'
  PROVE  StacksInv' /\ ApartInv'
<1> DEFINE Old(u, i, f) == /\ i \in DOMAIN stack[u] /\ (u # t \/ i <= m)
                           /\ f = stack[u][i] /\ f \in Kept(t, m)
           New(u, i, f) == u = t /\ i - m \in 1..Len(new) /\ f = new[i - m]
<1>1. \A u \in Threads : stack[u] \in Seq(FrameSet) /\ DOMAIN stack[u] = 1..Len(stack[u])
  BY DEF TypeOK
<1>2. m \in Nat /\ m <= Len(stack[t]) /\ Len(new) \in Nat
  BY DEF Changes
<1>3. \A u \in Threads : stack'[u] \in Seq(FrameSet) /\ DOMAIN stack'[u] = 1..Len(stack'[u])
  BY DEF Changes
<1>4. ASSUME NEW u \in Threads, NEW i \in DOMAIN stack'[u], NEW f, f = stack'[u][i]
      PROVE  Old(u, i, f) \/ New(u, i, f)
  <2>1. CASE u # t
    BY <1>1, <1>4, <2>1 DEF Changes, Kept
  <2>2. CASE u = t /\ i <= m
    BY <1>1, <1>2, <1>3, <1>4, <2>2 DEF Changes, Kept
  <2>3. CASE u = t /\ i > m
    <3> DEFINE j == i - m
    <3>1. j \in 1..Len(new) /\ m + j = i
      BY <1>2, <1>3, <2>3 DEF Changes
    <3> HIDE DEF j
    <3>2. stack'[t][m + j] = new[j]
      BY <3>1 DEF Changes
    <3>3. f = new[j]
      BY <1>4, <2>3, <3>1, <3>2
    <3> QED BY <2>3, <3>1, <3>3 DEF j
  <2> QED BY <1>2, <1>3, <2>1, <2>2, <2>3
<1> HIDE DEF Old, New
<1>5. ASSUME NEW u \in Threads, NEW i \in DOMAIN stack'[u], NEW f, f = stack'[u][i]
      PROVE  FrameOK(f)'
  BY <1>4, <1>5 DEF Old, New, Carried
<1>6. ASSUME NEW u \in Threads, NEW i \in DOMAIN stack'[u], NEW f, f = stack'[u][i], i = 1
      PROVE  f.at # "foreign"
  <2>1. CASE Old(u, i, f)
    BY <1>6, <2>1 DEF Old, StacksInv
  <2>2. CASE New(u, i, f)
    <3>1. m = 0 /\ f = new[1] /\ Len(new) > 0
      BY <1>2, <1>6, <2>2 DEF New
    <3> QED BY <3>1
  <2> QED BY <1>4, <1>6, <2>1, <2>2
<1>7. ASSUME NEW u \in Threads, NEW i \in DOMAIN stack'[u], NEW f, f = stack'[u][i], i # 1,
             NEW g, g = stack'[u][i - 1]
      PROVE  On(f, g)'
  <2>0. i - 1 \in DOMAIN stack'[u] /\ i \in Nat
    BY <1>3, <1>7
  <2>1. CASE Old(u, i, f)
    <3>1. Old(u, i - 1, g)
      BY <1>2, <1>4, <1>7, <2>0, <2>1 DEF Old, New
    <3>2. On(f, g)
      BY <1>7, <2>1, <3>1 DEF Old, StacksInv
    <3> QED BY <2>1, <3>1, <3>2 DEF Old, Carried
  <2>2. CASE New(u, i, f) /\ Old(u, i - 1, g)
    <3>1. i - 1 = m /\ m # 0 /\ f = new[1] /\ g = stack[t][m] /\ Len(new) > 0
      BY <1>2, <1>7, <2>0, <2>2 DEF Old, New
    <3> QED BY <3>1
  <2>3. CASE New(u, i, f) /\ New(u, i - 1, g)
    <3> DEFINE j == i - m
    <3>1. j \in 2..Len(new) /\ f = new[j] /\ g = new[j - 1]
      BY <1>2, <2>0, <2>3 DEF New
    <3> HIDE DEF j
    <3> QED BY <3>1
  <2> QED BY <1>4, <1>7, <2>0, <2>1, <2>2, <2>3
<1>8. ASSUME NEW u \in Threads, NEW v \in Threads,
             NEW i \in DOMAIN stack'[u], NEW j \in DOMAIN stack'[v], u # v \/ i # j,
             NEW f, f = stack'[u][i], NEW g, g = stack'[v][j]
      PROVE  Apart(f, g)'
  <2>1. CASE Old(u, i, f) /\ Old(v, j, g)
    <3>1. Apart(f, g)
      BY <1>8, <2>1 DEF Old, ApartInv
    <3> QED BY <2>1, <3>1 DEF Old, Carried
  <2>2. CASE New(u, i, f) /\ Old(v, j, g)
    BY <2>2 DEF Old, New
  <2>3. CASE Old(u, i, f) /\ New(v, j, g)
    <3>1. Apart(g, f)'
      BY <2>3 DEF Old, New
    <3> QED BY <3>1, ApartSymmetricNext
  <2>4. CASE New(u, i, f) /\ New(v, j, g)
    <3>1. i - m # j - m
      BY <1>2, <1>3, <1>8, <2>4 DEF New
    <3> QED BY <2>4, <3>1 DEF New
  <2>5. Old(u, i, f) \/ New(u, i, f)
    BY <1>4, <1>8
  <2>6. Old(v, j, g) \/ New(v, j, g)
    BY <1>4, <1>8
  <2> QED BY <2>1, <2>2, <2>3, <2>4, <2>5, <2>6
<1>9. StacksInv'
  BY <1>5, <1>6, <1>7 DEF StacksInv
<1>10. ApartInv'
  BY <1>8 DEF ApartInv
<1> QED BY <1>9, <1>10

LEMMA PopKeeps ==
  ASSUME TypeOK, StacksInv, ApartInv, NEW t \in Threads, stack[t] # <<>>,
         Set(t, Under(t)), Carried(t, Len(stack[t]) - 1)
  PROVE  StacksInv' /\ ApartInv'
<1> DEFINE m == Len(stack[t]) - 1
           new == <<>>
<1>1. Changes(t, m, new)
  BY PopChanges
<1>2. new \in Seq(FrameSet) /\ Len(new) = 0
  OBVIOUS
<1>3. Carried(t, m)
  OBVIOUS
<1> HIDE DEF new, m
<1>4. 1..Len(new) = {} /\ 2..Len(new) = {} /\ ~(Len(new) > 0)
  BY <1>2
<1> QED BY <1>1, <1>2, <1>3, <1>4, StacksKept

LEMMA OneKept ==
  ASSUME TypeOK, StacksInv, ApartInv, NEW t \in Threads, NEW m, NEW f,
         Changes(t, m, <<f>>), Carried(t, m), Fits(t, m, f)
  PROVE  StacksInv' /\ ApartInv'
<1> DEFINE new == <<f>>
<1>1. new \in Seq(FrameSet) /\ Len(new) = 1 /\ new[1] = f
  BY DEF Fits
<1>2. Changes(t, m, new)
  OBVIOUS
<1> HIDE DEF new
<1> QED BY <1>1, <1>2, StacksKept DEF Fits

LEMMA PushKeeps ==
  ASSUME TypeOK, StacksInv, ApartInv, NEW t \in Threads, NEW f,
         Push(t, f), Carried(t, Len(stack[t])), Fits(t, Len(stack[t]), f)
  PROVE  StacksInv' /\ ApartInv'
<1>1. <<f>> \in Seq(FrameSet)
  BY DEF Fits
<1>2. Changes(t, Len(stack[t]), <<f>>)
  BY <1>1, PushChanges DEF Push
<1> QED BY <1>2, OneKept

\* The innermost frame goes on as f, with no more than it had.
LEMMA ReplaceKeeps ==
  ASSUME TypeOK, StacksInv, ApartInv, NEW t \in Threads, stack[t] # <<>>, NEW f,
         Top(t).at \in {"lift", "at", "body"} \/ (Top(t).at = "release" /\ f.at = "cleanup"),
         f \in FrameSet, Set(t, Under(t) \o <<f>>),
         Carried(t, Len(stack[t]) - 1), UNCHANGED table,
         FrameOK(f)', f.at \notin {"foreign", "erase", "destroy"}, f.obj \in {None, Top(t).obj},
         \A h \in Handles : Has(f, h) => Has(Top(t), h)
  PROVE  StacksInv' /\ ApartInv'
<1> DEFINE m == Len(stack[t]) - 1
<1>1. <<f>> \in Seq(FrameSet)
  OBVIOUS
<1>2. Changes(t, m, <<f>>)
  BY <1>1, ReplaceChanges
<1>3. m \in Nat /\ (m # 0 => On(Top(t), stack[t][m]))
  <2> DEFINE n == Len(stack[t])
  <2>1. n \in Nat \ {0} /\ m = n - 1
    BY TopFacts
  <2>2. n > 1 => On(Top(t), stack[t][m])
    BY TopFacts
  <2> HIDE DEF n, m
  <2>3. m \in Nat /\ (m # 0 => n > 1)
    BY <2>1
  <2> QED BY <2>2, <2>3
<1>4. ASSUME NEW g \in Kept(t, m) PROVE Apart(f, g)'
  <2>1. Apart(g, Top(t))
    BY TopFacts
  <2> QED BY <2>1 DEF Apart, Has
<1>5. m # 0 => \A g \in {stack[t][m]} : On(f, g)'
  BY <1>3 DEF On
<1>6. Fits(t, m, f)
  BY <1>4, <1>5 DEF Fits
<1> QED BY <1>2, <1>6, OneKept

\* A world that does not change.
LEMMA SameWorld ==
  ASSUME NEW t \in Threads, NEW m, UNCHANGED <<foreign, table, made, member>>,
         \A f \in Kept(t, m) : FrameOK(f)
  PROVE  Carried(t, m)
<1>1. \A f : FrameOK(f) <=> FrameOK(f)'
  BY DEF FrameOK, Has
<1>2. \A f, g : On(f, g) <=> On(f, g)'
  BY DEF On
<1>3. \A f, g : Apart(f, g) <=> Apart(f, g)'
  BY DEF Apart, Has
<1> QED BY <1>1, <1>2, <1>3 DEF Carried

\* The mutex stays with its thread as long as the frame that destroys does.
LEMMA MutexKept ==
  ASSUME TypeOK, MutexInv, NEW t \in Threads, NEW m, NEW new \in Seq(FrameSet),
         Changes(t, m, new), UNCHANGED mutex,
         \A i \in DOMAIN stack[t] : i > m => stack[t][i].at # "destroy",
         \A j \in 1..Len(new) : new[j].at # "destroy"
  PROVE  MutexInv'
<1>1. \A u \in Threads : stack[u] \in Seq(FrameSet) /\ DOMAIN stack[u] = 1..Len(stack[u])
  BY DEF TypeOK
<1>2. m \in Nat /\ m <= Len(stack[t]) /\ Len(new) \in Nat
  BY DEF Changes
<1>3. \A u \in Threads : stack'[u] \in Seq(FrameSet) /\ DOMAIN stack'[u] = 1..Len(stack'[u])
  BY DEF Changes
<1>4. ASSUME NEW u \in Threads, NEW i \in DOMAIN stack[u], stack[u][i].at = "destroy"
      PROVE  i \in DOMAIN stack'[u] /\ stack'[u][i].at = "destroy"
  <2>1. CASE u # t
    BY <1>4, <2>1 DEF Changes
  <2>2. CASE u = t
    <3>1. i \in 1..m
      BY <1>1, <1>2, <1>4, <2>2
    <3> QED BY <1>2, <1>3, <1>4, <2>2, <3>1 DEF Changes
  <2> QED BY <2>1, <2>2
<1>5. ASSUME NEW u \in Threads, NEW i \in DOMAIN stack'[u], stack'[u][i].at = "destroy"
      PROVE  i \in DOMAIN stack[u] /\ stack[u][i].at = "destroy"
  <2>1. CASE u # t
    BY <1>5, <2>1 DEF Changes
  <2>2. CASE u = t /\ i <= m
    <3>1. i \in 1..m /\ i \in DOMAIN stack[t]
      BY <1>1, <1>2, <1>3, <2>2
    <3> QED BY <1>5, <2>2, <3>1 DEF Changes
  <2>3. CASE u = t /\ i > m
    <3> DEFINE j == i - m
    <3>1. j \in 1..Len(new) /\ m + j = i
      BY <1>2, <1>3, <2>3 DEF Changes
    <3> HIDE DEF j
    <3>2. stack'[t][m + j] = new[j]
      BY <3>1 DEF Changes
    <3> QED BY <1>5, <2>3, <3>1, <3>2
  <2> QED BY <1>2, <1>3, <2>1, <2>2, <2>3
<1> QED BY <1>4, <1>5 DEF MutexInv

LEMMA TopStays ==
  ASSUME TypeOK, NEW t \in Threads, stack[t] # <<>>, Top(t).at # "destroy"
  PROVE  \A i \in DOMAIN stack[t] : i > Len(stack[t]) - 1 => stack[t][i].at # "destroy"
<1> DEFINE n == Len(stack[t])
<1>1. n \in Nat \ {0} /\ DOMAIN stack[t] = 1..n /\ stack[t][n].at # "destroy"
  BY UnderFacts DEF Top
<1> HIDE DEF n
<1>2. \A i \in 1..n : i > n - 1 => i = n
  BY <1>1
<1> QED BY <1>1, <1>2 DEF n

LEMMA MutexPopped ==
  ASSUME TypeOK, MutexInv, NEW t \in Threads, stack[t] # <<>>, Top(t).at # "destroy",
         Set(t, Under(t)), UNCHANGED mutex
  PROVE  MutexInv' /\ stack' \in [Threads -> Seq(FrameSet)]
<1> DEFINE new == <<>>
<1>1. Changes(t, Len(stack[t]) - 1, new)
  BY PopChanges
<1>2. new \in Seq(FrameSet) /\ \A j \in 1..Len(new) : new[j].at # "destroy"
  OBVIOUS
<1> HIDE DEF new
<1> QED BY <1>1, <1>2, TopStays, MutexKept DEF Changes

LEMMA MutexReplaced ==
  ASSUME TypeOK, MutexInv, NEW t \in Threads, stack[t] # <<>>, Top(t).at # "destroy",
         NEW f \in FrameSet, f.at # "destroy", Set(t, Under(t) \o <<f>>), UNCHANGED mutex
  PROVE  MutexInv' /\ stack' \in [Threads -> Seq(FrameSet)]
<1> DEFINE new == <<f>>
<1>1. new \in Seq(FrameSet) /\ \A j \in 1..Len(new) : new[j].at # "destroy"
  OBVIOUS
<1>2. Changes(t, Len(stack[t]) - 1, new)
  BY <1>1, ReplaceChanges
<1> HIDE DEF new
<1> QED BY <1>1, <1>2, TopStays, MutexKept DEF Changes

LEMMA MutexPushed ==
  ASSUME TypeOK, MutexInv, NEW t \in Threads, NEW f \in FrameSet, f.at # "destroy",
         Push(t, f), UNCHANGED mutex
  PROVE  MutexInv' /\ stack' \in [Threads -> Seq(FrameSet)]
<1> DEFINE new == <<f>>
<1>1. new \in Seq(FrameSet) /\ \A j \in 1..Len(new) : new[j].at # "destroy"
  OBVIOUS
<1>2. Changes(t, Len(stack[t]), new)
  BY <1>1, PushChanges DEF Push
<1>3. \A i \in DOMAIN stack[t] : ~(i > Len(stack[t]))
  BY DEF TypeOK
<1> HIDE DEF new
<1> QED BY <1>1, <1>2, <1>3, MutexKept DEF Changes

\* What the frame of a step in the library knows.
LEMMA Facts ==
  ASSUME IInv, NEW t \in Threads, NEW at, Is(t, at)
  PROVE  /\ stack[t] # <<>> /\ Top(t).at = at /\ Top(t) \in FrameSet /\ FrameOK(Top(t))
         /\ \A f \in Kept(t, Len(stack[t]) - 1) :
              f \in FrameSet /\ FrameOK(f) /\ Apart(f, Top(t))
BY TopFacts DEF IInv, Is
-----------------------------------------------------------------------------
LEMMA InitKeeps == Init => IInv
<1> SUFFICES ASSUME Init PROVE IInv
  OBVIOUS
<1>1. \A t \in Threads : stack[t] = <<>> /\ DOMAIN stack[t] = {}
  <2>1. \A t \in Threads : stack[t] = <<>>
    BY DEF Init
  <2>2. DOMAIN <<>> = {}
    OBVIOUS
  <2> QED BY <2>1, <2>2
<1>2. TypeOK
  BY DEF Init, TypeOK
<1>3. StacksInv /\ ApartInv
  BY <1>1 DEF StacksInv, ApartInv
<1>4. MemberInv
  BY DEF Init, MemberInv
<1>5. MutexInv
  BY <1>1, ScaffoldProxiesAssumption DEF Init, MutexInv
<1> QED BY <1>2, <1>3, <1>4, <1>5 DEF IInv

LEMMA LiftKeeps ==
  ASSUME IInv, NEW t \in Threads, Lift(t)
  PROVE  IInv'
<1>0. PICK f : f = Frame("body", Top(t).obj, None, {Top(t).handle}, FALSE)
  OBVIOUS
<1>1. /\ stack[t] # <<>> /\ Top(t).at = "lift" /\ Top(t) \in FrameSet /\ FrameOK(Top(t))
      /\ \A g \in Kept(t, Len(stack[t]) - 1) : FrameOK(g)
  BY Facts DEF Lift
<1>2. f \in FrameSet /\ f.at = "body" /\ f.obj = Top(t).obj /\ f.holds = {Top(t).handle} /\ ~f.guard
  BY <1>0, <1>1 DEF FrameSet, Frame, FrameOK
<1>3. Set(t, Under(t) \o <<f>>) /\ UNCHANGED <<foreign, lost, table, made, member, mutex, methods>>
  BY <1>0 DEF Lift
<1>4. FrameOK(f)' /\ \A h \in Handles : Has(f, h) => Has(Top(t), h)
  BY <1>1, <1>2, <1>3 DEF FrameOK, Has
<1>5. Carried(t, Len(stack[t]) - 1)
  BY <1>1, <1>3, SameWorld
<1>6. StacksInv' /\ ApartInv'
  BY <1>1, <1>2, <1>3, <1>4, <1>5, ReplaceKeeps DEF IInv
<1>7. MutexInv' /\ stack' \in [Threads -> Seq(FrameSet)]
  BY <1>1, <1>2, <1>3, MutexReplaced DEF IInv
<1>8. TypeOK' /\ MemberInv'
  BY <1>3, <1>7 DEF IInv, TypeOK, MemberInv
<1> QED BY <1>6, <1>7, <1>8 DEF IInv

LEMMA LiftOtherFailsKeeps ==
  ASSUME IInv, NEW t \in Threads, LiftOtherFails(t)
  PROVE  IInv'
<1>1. /\ stack[t] # <<>> /\ Top(t).at = "lift" /\ Top(t) \in FrameSet /\ FrameOK(Top(t))
      /\ \A g \in Kept(t, Len(stack[t]) - 1) : FrameOK(g)
  BY Facts DEF LiftOtherFails
<1>2. Set(t, Under(t)) /\ UNCHANGED <<foreign, table, made, member, mutex, methods>>
  BY DEF LiftOtherFails
<1>3. Carried(t, Len(stack[t]) - 1)
  BY <1>1, <1>2, SameWorld
<1>4. StacksInv' /\ ApartInv'
  BY <1>1, <1>2, <1>3, PopKeeps DEF IInv
<1>5. MutexInv' /\ stack' \in [Threads -> Seq(FrameSet)]
  BY <1>1, <1>2, MutexPopped DEF IInv
<1>6. lost' \subseteq Handles
  BY <1>1 DEF LiftOtherFails, IInv, TypeOK, FrameOK
<1>7. TypeOK' /\ MemberInv'
  BY <1>2, <1>5, <1>6 DEF IInv, TypeOK, MemberInv
<1> QED BY <1>4, <1>5, <1>7 DEF IInv

LEMMA AtKeeps ==
  ASSUME IInv, NEW t \in Threads, At(t)
  PROVE  IInv'
<1>0. PICK f : f = Frame("body", Top(t).obj, None, {}, FALSE)
  OBVIOUS
<1>1. /\ stack[t] # <<>> /\ Top(t).at = "at" /\ Top(t) \in FrameSet /\ FrameOK(Top(t))
      /\ \A g \in Kept(t, Len(stack[t]) - 1) : FrameOK(g)
  BY Facts DEF At
<1>2. f \in FrameSet /\ f.at = "body" /\ f.obj = Top(t).obj /\ f.holds = {} /\ ~f.guard
  BY <1>0, <1>1 DEF FrameSet, Frame
<1>3. Set(t, Under(t) \o <<f>>) /\ UNCHANGED <<foreign, lost, table, made, member, mutex, methods>>
  BY <1>0 DEF At
<1>4. FrameOK(f)' /\ \A h \in Handles : Has(f, h) => Has(Top(t), h)
  BY <1>1, <1>2, <1>3 DEF FrameOK, Has
<1>5. Carried(t, Len(stack[t]) - 1)
  BY <1>1, <1>3, SameWorld
<1>6. StacksInv' /\ ApartInv'
  BY <1>1, <1>2, <1>3, <1>4, <1>5, ReplaceKeeps DEF IInv
<1>7. MutexInv' /\ stack' \in [Threads -> Seq(FrameSet)]
  BY <1>1, <1>2, <1>3, MutexReplaced DEF IInv
<1>8. TypeOK' /\ MemberInv'
  BY <1>3, <1>7 DEF IInv, TypeOK, MemberInv
<1> QED BY <1>6, <1>7, <1>8 DEF IInv
-----------------------------------------------------------------------------
\* What the foreign side calls lies on foreign code, or on nothing.
LEMMA ForeignFits ==
  ASSUME IInv, NEW t \in Threads, InForeign(t), NEW f \in FrameSet,
         f.at \notin {"foreign", "release", "cleanup"}, FrameOK(f)', \A g \in AllFrames : Apart(f, g)'
  PROVE  Fits(t, Len(stack[t]), f)
<1>1. Len(stack[t]) # 0 => stack[t][Len(stack[t])].at \in {"foreign", "cleanup"}
  BY DEF IInv, TypeOK, InForeign, Top
<1>2. Kept(t, Len(stack[t])) = AllFrames
  BY AllFacts DEF IInv
<1> QED BY <1>1, <1>2 DEF Fits, On

LEMMA CallKeeps ==
  ASSUME IInv, NEW t \in Threads, NEW h \in Handles, NEW o \in Objects \cup {None}, Call(t, h, o)
  PROVE  IInv'
<1>0. PICK f : f = Frame("lift", o, h, {}, FALSE)
  OBVIOUS
<1>1. /\ f \in FrameSet /\ f.at = "lift" /\ f.obj = o /\ f.handle = h /\ ~f.guard
      /\ \A x : Has(f, x) <=> x = h
  BY <1>0 DEF FrameSet, Frame, Has
<1>2. /\ InForeign(t) /\ foreign[h] = "unused" /\ o \notin made
      /\ foreign' = [foreign EXCEPT ![h] = "given"] /\ made' = made \cup ({o} \ {None})
      /\ Push(t, f) /\ UNCHANGED <<lost, table, member, mutex, methods>>
  BY <1>0 DEF Call
<1>3. /\ foreign' \in [Handles -> {"unused", "given", "gone"}] /\ foreign'[h] = "given"
      /\ \A x \in Handles : foreign[x] = "given" => x # h /\ foreign'[x] = "given"
  BY <1>2 DEF IInv, TypeOK
<1>4. /\ table \subseteq made /\ made \subseteq made' /\ made' \subseteq Objects
      /\ o # None => o \in made' \ table
  BY <1>2 DEF IInv, TypeOK
<1>5. \A x \in Objects : member[x] # h
  BY <1>2, ScaffoldProxiesAssumption DEF IInv, MemberInv
<1>6. ASSUME NEW g \in AllFrames
      PROVE  /\ g \in FrameSet /\ FrameOK(g) /\ FrameOK(g)'
             /\ \A k : On(g, k) <=> On(g, k)'
             /\ \A k : Apart(g, k) <=> Apart(g, k)'
             /\ Apart(f, g)'
  <2>1. g \in FrameSet /\ FrameOK(g)
    BY AllFacts DEF IInv
  <2>2. g.obj # o \/ o = None
    BY <1>2, <2>1 DEF FrameOK
  <2>3. ~Has(g, h)
    BY <1>2, <2>1 DEF FrameOK
  <2>4. FrameOK(g)'
    <3>1. \A x \in Handles : Has(g, x)' => foreign'[x] = "given" /\ \A p \in Objects : member'[p] # x
      BY <1>2, <1>3, <2>1 DEF FrameOK, Has
    <3>2. g.obj # None => (g.obj \in made' \ table <=> g.obj \in made \ table)
      BY <1>2, <2>2
    <3>3. g.at \in {"body", "insert"} /\ g.obj \in made' \ table => g.obj \in made \ table
      BY <1>2, <1>4, <2>1, <3>2, ScaffoldProxiesAssumption
    <3> QED BY <1>2, <1>4, <2>1, <3>1, <3>2, <3>3 DEF FrameOK
  <2>5. \A k : (On(g, k) <=> On(g, k)') /\ (Apart(g, k) <=> Apart(g, k)')
    BY <1>2 DEF On, Apart, Has
  <2>6. Apart(f, g)'
    BY <1>1, <1>2, <2>2, <2>3 DEF Apart, Has
  <2> QED BY <2>1, <2>4, <2>5, <2>6
<1>7. FrameOK(f)'
  BY <1>1, <1>2, <1>3, <1>4, <1>5, ScaffoldProxiesAssumption DEF FrameOK, Has
<1>8. Carried(t, Len(stack[t]))
  BY <1>6, AllFacts DEF Carried, IInv
<1>9. Fits(t, Len(stack[t]), f)
  BY <1>1, <1>2, <1>6, <1>7, ForeignFits
<1>10. StacksInv' /\ ApartInv'
  BY <1>2, <1>8, <1>9, PushKeeps DEF IInv
<1>11. MutexInv' /\ stack' \in [Threads -> Seq(FrameSet)]
  BY <1>1, <1>2, MutexPushed DEF IInv
<1>12. TypeOK'
  BY <1>2, <1>3, <1>4, <1>11 DEF IInv, TypeOK
<1>13. MemberInv'
  BY <1>2, <1>3, <1>4 DEF IInv, MemberInv, TypeOK
<1> QED BY <1>10, <1>11, <1>12, <1>13 DEF IInv

LEMMA MethodKeeps ==
  ASSUME IInv, NEW t \in Threads, NEW o \in Objects, Method(t, o)
  PROVE  IInv'
<1>0. PICK f : f = Frame("at", o, None, {}, FALSE)
  OBVIOUS
<1>1. f \in FrameSet /\ f.at = "at" /\ f.obj = o /\ ~f.guard /\ \A x : ~Has(f, x)
  BY <1>0 DEF FrameSet, Frame, Has
<1>2. /\ InForeign(t) /\ o \in table /\ \A g \in AllFrames : g.at = "erase" => g.obj # o
      /\ Push(t, f) /\ UNCHANGED <<foreign, lost, table, made, member, mutex>>
      /\ methods' = methods + 1
  BY <1>0 DEF Method
<1>3. FrameOK(f)'
  BY <1>1, <1>2 DEF FrameOK, Has, IInv, TypeOK
<1>4. \A g \in AllFrames : Apart(f, g)'
  BY <1>1, <1>2 DEF Apart, Has
<1>5. Fits(t, Len(stack[t]), f)
  BY <1>1, <1>2, <1>3, <1>4, ForeignFits
<1>6. Carried(t, Len(stack[t]))
  BY <1>2, AllFacts, SameWorld DEF IInv
<1>7. StacksInv' /\ ApartInv'
  BY <1>2, <1>5, <1>6, PushKeeps DEF IInv
<1>8. MutexInv' /\ stack' \in [Threads -> Seq(FrameSet)]
  BY <1>1, <1>2, MutexPushed DEF IInv
<1>9. TypeOK' /\ MemberInv'
  BY <1>2, <1>8 DEF IInv, TypeOK, MemberInv
<1> QED BY <1>7, <1>8, <1>9 DEF IInv

LEMMA FreeKeeps ==
  ASSUME IInv, NEW t \in Threads, NEW o \in Objects, Free(t, o)
  PROVE  IInv'
<1>0. PICK f : f = Frame("erase", o, None, {}, FALSE)
  OBVIOUS
<1>1. f \in FrameSet /\ f.at = "erase" /\ f.obj = o /\ ~f.guard /\ \A x : ~Has(f, x)
  BY <1>0 DEF FrameSet, Frame, Has
<1>2. /\ InForeign(t) /\ o \in table /\ \A g \in AllFrames : g.obj # o
      /\ Push(t, f) /\ UNCHANGED <<foreign, lost, table, made, member, mutex, methods>>
  BY <1>0 DEF Free
<1>3. FrameOK(f)'
  BY <1>1, <1>2 DEF FrameOK, Has, IInv, TypeOK
<1>4. \A g \in AllFrames : Apart(f, g)'
  BY <1>1, <1>2 DEF Apart, Has
<1>5. Fits(t, Len(stack[t]), f)
  BY <1>1, <1>2, <1>3, <1>4, ForeignFits
<1>6. Carried(t, Len(stack[t]))
  BY <1>2, AllFacts, SameWorld DEF IInv
<1>7. StacksInv' /\ ApartInv'
  BY <1>2, <1>5, <1>6, PushKeeps DEF IInv
<1>8. MutexInv' /\ stack' \in [Threads -> Seq(FrameSet)]
  BY <1>1, <1>2, MutexPushed DEF IInv
<1>9. TypeOK' /\ MemberInv'
  BY <1>2, <1>8 DEF IInv, TypeOK, MemberInv
<1> QED BY <1>7, <1>8, <1>9 DEF IInv

\* The proxy is kept alive by the frame that calls it.
LEMMA CallProxyKeeps ==
  ASSUME IInv, NEW t \in Threads, NEW h \in Handles, CallProxy(t, h)
  PROVE  IInv'
<1>0. PICK f : f = Frame("foreign", None, h, {}, FALSE)
  OBVIOUS
<1>1. /\ f \in FrameSet /\ f.at = "foreign" /\ f.obj = None /\ f.handle = h /\ ~f.guard
      /\ \A x : ~Has(f, x)
  BY <1>0 DEF FrameSet, Frame, Has
<1>2. /\ stack[t] # <<>> /\ Top(t).at = "body"
      /\ h \in Top(t).holds \/ (Top(t).obj \in table /\ h = member[Top(t).obj])
      /\ Push(t, f) /\ UNCHANGED <<foreign, lost, table, made, member, mutex, methods>>
  BY <1>0 DEF CallProxy, Is
<1>3. FrameOK(f)'
  BY <1>1, <1>2 DEF FrameOK, Has
<1>4. Fits(t, Len(stack[t]), f)
  <2>1. Len(stack[t]) # 0
    BY <1>2, UnderFacts DEF IInv
  <2>2. \A g \in {stack[t][Len(stack[t])]} : On(f, g)'
    BY <1>1, <1>2 DEF On, Top
  <2>3. \A g : Apart(f, g)'
    BY <1>1 DEF Apart, Has
  <2> QED BY <1>1, <1>3, <2>1, <2>2, <2>3 DEF Fits
<1>5. Carried(t, Len(stack[t]))
  BY <1>2, AllFacts, SameWorld DEF IInv
<1>6. StacksInv' /\ ApartInv'
  BY <1>2, <1>4, <1>5, PushKeeps DEF IInv
<1>7. MutexInv' /\ stack' \in [Threads -> Seq(FrameSet)]
  BY <1>1, <1>2, MutexPushed DEF IInv
<1>8. TypeOK' /\ MemberInv'
  BY <1>2, <1>7 DEF IInv, TypeOK, MemberInv
<1> QED BY <1>6, <1>7, <1>8 DEF IInv

LEMMA ProxyReturnsKeeps ==
  ASSUME IInv, NEW t \in Threads, ProxyReturns(t)
  PROVE  IInv'
<1>1. /\ stack[t] # <<>> /\ Top(t).at = "foreign"
      /\ \A g \in Kept(t, Len(stack[t]) - 1) : FrameOK(g)
  BY Facts DEF ProxyReturns
<1>2. Set(t, Under(t)) /\ UNCHANGED <<foreign, lost, table, made, member, mutex, methods>>
  BY DEF ProxyReturns
<1>3. Carried(t, Len(stack[t]) - 1)
  BY <1>1, <1>2, SameWorld
<1>4. StacksInv' /\ ApartInv'
  BY <1>1, <1>2, <1>3, PopKeeps DEF IInv
<1>5. MutexInv' /\ stack' \in [Threads -> Seq(FrameSet)]
  BY <1>1, <1>2, MutexPopped DEF IInv
<1>6. TypeOK' /\ MemberInv'
  BY <1>2, <1>5 DEF IInv, TypeOK, MemberInv
<1> QED BY <1>4, <1>5, <1>6 DEF IInv
-----------------------------------------------------------------------------
\* The new object takes over the handle that its constructor answered for.
LEMMA StoreKeeps ==
  ASSUME IInv, NEW t \in Threads, Store(t)
  PROVE  IInv'
<1>0. PICK o, h, f : o = Top(t).obj /\ h = (CHOOSE x \in Top(t).holds : TRUE)
                     /\ f = Frame("insert", o, None, {}, FALSE)
  OBVIOUS
<1>1. /\ stack[t] # <<>> /\ Top(t).at = "body" /\ Top(t) \in FrameSet /\ FrameOK(Top(t))
      /\ \A g \in Kept(t, Len(stack[t]) - 1) :
           g \in FrameSet /\ FrameOK(g) /\ Apart(g, Top(t))
  BY Facts DEF Store
<1>2. /\ o \in made \ table /\ member' = [member EXCEPT ![o] = h]
      /\ Set(t, Under(t) \o <<f>>) /\ UNCHANGED <<foreign, lost, table, made, mutex, methods>>
  BY <1>0 DEF Store
<1>3. /\ h \in Handles /\ Has(Top(t), h) /\ foreign[h] = "given"
      /\ \A x \in Objects : member[x] # h
  <2>1. Top(t).holds # {} /\ Top(t).holds \subseteq Handles
    BY <1>0, <1>1, <1>2 DEF FrameOK, FrameSet
  <2>2. h \in Top(t).holds
    BY <1>0, <2>1
  <2> QED BY <1>1, <2>1, <2>2 DEF FrameOK, Has
<1>4. o \in Objects /\ member'[o] = h /\ \A x \in Objects \ {o} : member'[x] = member[x]
  BY <1>2 DEF IInv, TypeOK
<1>5. f \in FrameSet /\ f.at = "insert" /\ f.obj = o /\ ~f.guard /\ \A x : ~Has(f, x)
  BY <1>0, <1>4 DEF FrameSet, Frame, Has
<1>6. FrameOK(f)'
  BY <1>2, <1>3, <1>4, <1>5 DEF FrameOK, Has
<1>7. ASSUME NEW g \in Kept(t, Len(stack[t]) - 1)
      PROVE  /\ g.obj # o /\ FrameOK(g)' /\ \A k : Apart(g, k) <=> Apart(g, k)'
  <2>1. FrameOK(g) /\ g.obj # o /\ ~Has(g, h)
    BY <1>0, <1>1, <1>2, <1>3, <1>4, ScaffoldProxiesAssumption DEF Apart
  <2>2. g.at = "insert" => g.obj \in Objects /\ member'[g.obj] = member[g.obj]
    BY <1>4, <2>1 DEF FrameOK, IInv, TypeOK
  <2>3. \A x \in Handles : Has(g, x)' => foreign'[x] = "given" /\ \A p \in Objects : member'[p] # x
    BY <1>2, <1>4, <2>1 DEF FrameOK, Has
  <2>4. FrameOK(g)'
    BY <1>2, <2>1, <2>2, <2>3 DEF FrameOK
  <2>5. \A k : Apart(g, k) <=> Apart(g, k)'
    BY <1>2 DEF Apart, Has
  <2> QED BY <2>1, <2>4, <2>5
<1>8. ASSUME NEW g \in Kept(t, Len(stack[t]) - 1), NEW k \in Kept(t, Len(stack[t]) - 1), On(g, k)
      PROVE  On(g, k)'
  <2>1. k.obj \in table => member'[k.obj] = member[k.obj]
    BY <1>4, <1>7 DEF IInv, TypeOK
  <2> QED BY <1>2, <1>8, <2>1 DEF On
<1>9. Carried(t, Len(stack[t]) - 1)
  BY <1>7, <1>8 DEF Carried
<1>10. StacksInv' /\ ApartInv'
  <2>1. f.obj = Top(t).obj
    BY <1>0, <1>5
  <2>2. UNCHANGED table
    BY <1>2
  <2>3. Set(t, Under(t) \o <<f>>)
    BY <1>2
  <2> QED BY <1>1, <1>5, <1>6, <1>9, <2>1, <2>2, <2>3, ReplaceKeeps DEF IInv
<1>11. MutexInv' /\ stack' \in [Threads -> Seq(FrameSet)]
  BY <1>1, <1>2, <1>5, MutexReplaced DEF IInv
<1>12. TypeOK'
  BY <1>2, <1>3, <1>11 DEF IInv, TypeOK
<1>13. MemberInv'
  <2>1. \A p \in table : member'[p] \in Handles
    BY <1>2, <1>4 DEF IInv, MemberInv, TypeOK
  <2>2. \A p \in Objects : member'[p] # None => p \in made /\ foreign[member'[p]] = "given"
    BY <1>2, <1>3, <1>4 DEF IInv, MemberInv
  <2>3. \A p, q \in Objects : member'[p] # None /\ member'[p] = member'[q] => p = q
    BY <1>3, <1>4 DEF IInv, MemberInv
  <2> QED BY <1>2, <2>1, <2>2, <2>3 DEF MemberInv
<1> QED BY <1>10, <1>11, <1>12, <1>13 DEF IInv

LEMMA InsertKeeps ==
  ASSUME IInv, NEW t \in Threads, Insert(t)
  PROVE  IInv'
<1>0. PICK o : o = Top(t).obj
  OBVIOUS
<1>1. /\ stack[t] # <<>> /\ Top(t).at = "insert" /\ Top(t) \in FrameSet /\ FrameOK(Top(t))
      /\ \A g \in Kept(t, Len(stack[t]) - 1) :
           g \in FrameSet /\ FrameOK(g) /\ Apart(g, Top(t))
  BY Facts DEF Insert
<1>2. /\ table' = table \cup {o} /\ Set(t, Under(t))
      /\ UNCHANGED <<foreign, lost, made, member, mutex, methods>>
  BY <1>0 DEF Insert
<1>3. o \in made /\ o \in Objects /\ o \notin table /\ member[o] \in Handles
  BY <1>0, <1>1 DEF FrameOK, IInv, TypeOK
<1>4. ASSUME NEW g \in Kept(t, Len(stack[t]) - 1)
      PROVE  g.obj # o /\ FrameOK(g)' /\ \A k : k.obj # o => (On(k, g) => On(k, g)')
                                       /\ (Apart(g, k) => Apart(g, k)')
  <2>1. FrameOK(g) /\ g.obj # o
    BY <1>0, <1>1, <1>3, ScaffoldProxiesAssumption DEF Apart
  <2>2. g.obj \in table' <=> g.obj \in table
    BY <1>2, <2>1
  <2>3. FrameOK(g)'
    BY <1>2, <2>1, <2>2 DEF FrameOK, Has
  <2> QED BY <1>2, <2>1, <2>2, <2>3 DEF On, Apart, Has
<1>5. Carried(t, Len(stack[t]) - 1)
  BY <1>4 DEF Carried
<1>6. StacksInv' /\ ApartInv'
  BY <1>1, <1>2, <1>5, PopKeeps DEF IInv
<1>7. MutexInv' /\ stack' \in [Threads -> Seq(FrameSet)]
  BY <1>1, <1>2, MutexPopped DEF IInv
<1>8. TypeOK'
  BY <1>2, <1>3, <1>7 DEF IInv, TypeOK
<1>9. MemberInv'
  BY <1>2, <1>3 DEF IInv, MemberInv
<1> QED BY <1>6, <1>7, <1>8, <1>9 DEF IInv

LEMMA ReleasingIs ==
  /\ Releasing({}) = <<>>
  /\ \A hs : hs # {} => Releasing(hs) = <<Frame("release", None, CHOOSE h \in hs : TRUE, {}, FALSE)>>
<1>1. Releasing({}) = <<>>
  BY DEF Releasing
<1>2. ASSUME NEW hs, hs # {}
      PROVE  Releasing(hs) = <<Frame("release", None, CHOOSE h \in hs : TRUE, {}, FALSE)>>
  <2>1. 1 .. (IF hs = {} THEN 0 ELSE 1) = {1}
    BY <1>2
  <2> DEFINE f == Frame("release", None, CHOOSE h \in hs : TRUE, {}, FALSE)
  <2> HIDE DEF f
  <2>2. [i \in {1} |-> f] = <<f>>
    OBVIOUS
  <2> QED BY <2>1, <2>2 DEF Releasing, f
<1> QED BY <1>1, <1>2

\* The destructor has the handle that the call answered for.
LEMMA LeaveKeeps ==
  ASSUME IInv, NEW t \in Threads, Leave(t)
  PROVE  IInv'
<1>1. /\ stack[t] # <<>> /\ Top(t).at = "body" /\ Top(t) \in FrameSet /\ FrameOK(Top(t))
      /\ \A g \in Kept(t, Len(stack[t]) - 1) : FrameOK(g)
  BY Facts DEF Leave
<1>2. /\ Set(t, Under(t) \o Releasing(Top(t).holds))
      /\ UNCHANGED <<foreign, lost, table, made, member, mutex, methods>>
  BY <1>1 DEF Leave, FrameOK
<1>3. Carried(t, Len(stack[t]) - 1)
  BY <1>1, <1>2, SameWorld
<1>4. StacksInv' /\ ApartInv' /\ MutexInv' /\ stack' \in [Threads -> Seq(FrameSet)]
  <2>1. CASE Top(t).holds = {}
    <3>1. Set(t, Under(t))
      <4>1. Under(t) \o <<>> = Under(t)
        BY <1>1, UnderFacts DEF IInv
      <4> QED BY <1>2, <2>1, <4>1, ReleasingIs
    <3> QED BY <1>1, <1>2, <1>3, <3>1, PopKeeps, MutexPopped DEF IInv
  <2>2. CASE Top(t).holds # {}
    <3>1. PICK h, f : h = (CHOOSE x \in Top(t).holds : TRUE) /\ f = Frame("release", None, h, {}, FALSE)
      OBVIOUS
    <3>2. h \in Top(t).holds /\ h \in Handles
      BY <1>1, <2>2, <3>1 DEF FrameSet
    <3>3. /\ f \in FrameSet /\ f.at = "release" /\ f.obj = None /\ f.handle = h /\ ~f.guard
          /\ \A x : Has(f, x) <=> x = h
      BY <3>1, <3>2 DEF FrameSet, Frame, Has
    <3>4. Set(t, Under(t) \o <<f>>)
      BY <1>2, <2>2, <3>1, ReleasingIs
    <3>5. Has(Top(t), h) /\ foreign[h] = "given" /\ \A o \in Objects : member[o] # h
      BY <1>1, <3>2 DEF Has, FrameOK
    <3>6. FrameOK(f)'
      BY <1>2, <3>2, <3>3, <3>5 DEF FrameOK, Has
    <3>7. StacksInv' /\ ApartInv'
      BY <1>1, <1>2, <1>3, <3>3, <3>4, <3>5, <3>6, ReplaceKeeps DEF IInv
    <3> QED BY <1>1, <1>2, <3>3, <3>4, <3>7, MutexReplaced DEF IInv
  <2> QED BY <2>1, <2>2
<1>5. TypeOK' /\ MemberInv'
  BY <1>2, <1>4 DEF IInv, TypeOK, MemberInv
<1> QED BY <1>4, <1>5 DEF IInv
-----------------------------------------------------------------------------
\* The handle goes from the object to the destructor that lies on erase.
LEMMA EraseKeeps ==
  ASSUME IInv, NEW t \in Threads, Erase(t)
  PROVE  IInv'
<1> DEFINE m == Len(stack[t]) - 1
<1>0. PICK o, h, d, r : /\ o = Top(t).obj /\ h = member[o]
                        /\ d = Frame("destroy", o, None, {}, TRUE)
                        /\ r = Frame("release", None, h, {}, FALSE)
  OBVIOUS
<1> DEFINE new == <<d>> \o <<r>>
<1>1. /\ stack[t] # <<>> /\ Top(t).at = "erase" /\ Top(t) \in FrameSet /\ FrameOK(Top(t))
      /\ \A g \in Kept(t, m) : g \in FrameSet /\ FrameOK(g) /\ Apart(g, Top(t))
  BY Facts DEF Erase
<1>2. /\ o \in table /\ o \in made /\ o \in Objects /\ h \in Handles /\ foreign[h] = "given"
      /\ \A p \in Objects : member[p] = h => p = o
  BY <1>0, <1>1, ScaffoldProxiesAssumption DEF FrameOK, IInv, TypeOK, MemberInv
<1>3. /\ table' = table \ {o} /\ member' = [member EXCEPT ![o] = None]
      /\ mutex = None /\ mutex' = t /\ UNCHANGED <<foreign, lost, made, methods>>
  BY <1>0 DEF Erase
<1>4. /\ member'[o] = None /\ \A p \in Objects \ {o} : member'[p] = member[p]
      /\ None \notin Handles /\ None \notin Objects /\ None \notin Threads
  BY <1>2, <1>3, ScaffoldProxiesAssumption DEF IInv, TypeOK
<1>a. ASSUME NEW u \in Threads, NEW i \in DOMAIN stack[u] PROVE stack[u][i].at # "destroy"
  BY <1>3, <1>4 DEF IInv, MutexInv
<1>b. \A g \in Kept(t, m) : g.at # "destroy"
  <2>1. DOMAIN stack[t] = 1..Len(stack[t]) /\ Len(stack[t]) \in Nat
    BY DEF IInv, TypeOK
  <2>2. \A i \in 1..m : i \in DOMAIN stack[t]
    BY <2>1
  <2> HIDE DEF m
  <2> QED BY <1>a, <2>2 DEF Kept
<1>5. /\ d \in FrameSet /\ d.at = "destroy" /\ d.obj = o /\ d.guard /\ \A x : ~Has(d, x)
      /\ r \in FrameSet /\ r.at = "release" /\ r.obj = None /\ r.handle = h /\ ~r.guard
      /\ \A x : Has(r, x) <=> x = h
  BY <1>0, <1>2 DEF FrameSet, Frame, Has
<1>6. new \in Seq(FrameSet) /\ Len(new) = 2 /\ new[1] = d /\ new[2] = r
  <2>1. <<d>> \in Seq(FrameSet) /\ <<r>> \in Seq(FrameSet)
    BY <1>5
  <2> QED BY <2>1, ConcatProperties
<1>7. Changes(t, m, new)
  <2>1. Releasing({h}) = <<r>>
    <3>1. (CHOOSE x \in {h} : TRUE) = h
      OBVIOUS
    <3> QED BY <1>0, <3>1, ReleasingIs
  <2>2. Set(t, Under(t) \o <<d>> \o <<r>>)
    BY <1>0, <2>1 DEF Erase
  <2>3. Under(t) \o <<d>> \o <<r>> = Under(t) \o new
    <3>1. Under(t) \in Seq(FrameSet) /\ <<d>> \in Seq(FrameSet) /\ <<r>> \in Seq(FrameSet)
      BY <1>1, <1>5, UnderFacts DEF IInv
    <3> QED BY <3>1, ConcatAssociative
  <2> QED BY <1>1, <1>6, <2>2, <2>3, ReplaceChanges DEF IInv
<1> HIDE DEF new
<1>8. ASSUME NEW g \in Kept(t, m)
      PROVE  g.obj # o /\ FrameOK(g)' /\ Apart(d, g)' /\ Apart(r, g)'
  <2>1. FrameOK(g) /\ g.obj # o /\ ~Has(g, h)
    BY <1>0, <1>1, <1>2, <1>4 DEF Apart, FrameOK
  <2>2. g.obj \in table' <=> g.obj \in table
    BY <1>3, <2>1
  <2>3. g.at = "insert" => member'[g.obj] = member[g.obj]
    BY <1>4, <2>1 DEF FrameOK, IInv, TypeOK
  <2>4. \A x \in Handles : Has(g, x)' => foreign'[x] = "given" /\ \A p \in Objects : member'[p] # x
    BY <1>3, <1>4, <2>1 DEF FrameOK, Has
  <2>5. FrameOK(g)'
    BY <1>3, <2>1, <2>2, <2>3, <2>4 DEF FrameOK
  <2>6. Apart(d, g)' /\ Apart(r, g)'
    BY <1>5, <1>b, <2>1 DEF Apart, Has
  <2> QED BY <2>1, <2>5, <2>6
<1>9. Carried(t, m)
  <2>1. ASSUME NEW g \in Kept(t, m), NEW k \in Kept(t, m)
        PROVE  (On(g, k) => On(g, k)') /\ (Apart(g, k) => Apart(g, k)')
    <3>1. g.obj # o /\ k.obj # o
      BY <1>8
    <3>2. k.obj \in table => k.obj \in table' /\ member'[k.obj] = member[k.obj]
      BY <1>3, <1>4, <3>1 DEF IInv, TypeOK
    <3>3. On(g, k) => On(g, k)'
      BY <3>2 DEF On
    <3>4. Apart(g, k) => Apart(g, k)'
      BY <1>3, <3>1 DEF Apart, Has
    <3> QED BY <3>3, <3>4
  <2> QED BY <1>8, <2>1 DEF Carried
<1>10. FrameOK(d)' /\ FrameOK(r)' /\ Apart(d, r)' /\ Apart(r, d)' /\ On(r, d)'
  <2>1. FrameOK(d)'
    BY <1>2, <1>3, <1>5 DEF FrameOK, Has
  <2>2. FrameOK(r)'
    BY <1>2, <1>3, <1>4, <1>5 DEF FrameOK, Has
  <2>3. Apart(d, r)' /\ Apart(r, d)' /\ On(r, d)'
    BY <1>2, <1>4, <1>5 DEF Apart, Has, On
  <2> QED BY <2>1, <2>2, <2>3
<1>11. IF m = 0 THEN d.at # "foreign" ELSE \A g \in {stack[t][m]} : On(d, g)'
  <2> DEFINE n == Len(stack[t])
  <2>1. n \in Nat \ {0} /\ m = n - 1
    BY TopFacts, <1>1 DEF IInv
  <2>2. n > 1 => On(Top(t), stack[t][m])
    BY TopFacts, <1>1 DEF IInv
  <2> HIDE DEF n, m
  <2>3. m # 0 => n > 1
    BY <2>1
  <2> QED BY <1>1, <1>5, <2>2, <2>3 DEF On
<1>12. StacksInv' /\ ApartInv'
  <2>1. \A j \in 1..Len(new) : FrameOK(new[j])' /\ \A g \in Kept(t, m) : Apart(new[j], g)'
    BY <1>6, <1>8, <1>10
  <2>2. \A j, k \in 1..Len(new) : j # k => Apart(new[j], new[k])'
    BY <1>6, <1>10
  <2>3. \A j \in 2..Len(new) : On(new[j], new[j - 1])'
    BY <1>6, <1>10
  <2>4. TypeOK /\ StacksInv /\ ApartInv
    BY DEF IInv
  <2> HIDE DEF m
  <2>5. Len(new) > 0 => IF m = 0 THEN new[1].at # "foreign" ELSE \A g \in {stack[t][m]} : On(new[1], g)'
    BY <1>6, <1>11
  <2> QED BY <1>6, <1>7, <1>9, <2>1, <2>2, <2>3, <2>4, <2>5, StacksKept
<1>13. MutexInv'
  <2>3. m + 1 \in DOMAIN stack'[t] /\ stack'[t][m + 1].at = "destroy"
    <3>1. m \in Nat /\ stack'[t] \in Seq(FrameSet) /\ Len(stack'[t]) = m + 2
      BY <1>6, <1>7 DEF Changes
    <3>2. \A j \in 1..2 : stack'[t][m + j] = new[j]
      BY <1>6, <1>7 DEF Changes
    <3> HIDE DEF m
    <3> QED BY <1>5, <1>6, <3>1, <3>2
  <2>4. \A u \in Threads \ {t} : stack'[u] = stack[u]
    BY <1>7 DEF Changes
  <2> QED BY <1>3, <1>a, <2>3, <2>4 DEF MutexInv
<1>14. TypeOK'
  <2>1. stack' \in [Threads -> Seq(FrameSet)]
    BY <1>7 DEF Changes
  <2> QED BY <1>3, <2>1 DEF IInv, TypeOK
<1>15. MemberInv'
  BY <1>3, <1>4 DEF IInv, MemberInv, TypeOK
<1> QED BY <1>12, <1>13, <1>14, <1>15 DEF IInv

LEMMA UnlockKeeps ==
  ASSUME IInv, NEW t \in Threads, Unlock(t)
  PROVE  IInv'
<1> DEFINE n == Len(stack[t])
<1>1. /\ stack[t] # <<>> /\ Top(t).at = "destroy"
      /\ \A g \in Kept(t, n - 1) : FrameOK(g)
  BY Facts DEF Unlock
<1>2. Set(t, Under(t)) /\ mutex' = None /\ UNCHANGED <<foreign, lost, table, made, member, methods>>
  BY DEF Unlock
<1>3. Carried(t, n - 1)
  BY <1>1, <1>2, SameWorld
<1>4. StacksInv' /\ ApartInv'
  BY <1>1, <1>2, <1>3, PopKeeps DEF IInv
<1>5. Changes(t, n - 1, <<>>)
  BY <1>1, <1>2, PopChanges DEF IInv
<1>6. n \in Nat \ {0} /\ n \in DOMAIN stack[t] /\ DOMAIN stack[t] = 1..n
  BY <1>1, UnderFacts DEF IInv
<1>7. mutex = t
  BY <1>1, <1>6 DEF IInv, MutexInv, Top
<1>8. ASSUME NEW u \in Threads, NEW i \in DOMAIN stack'[u]
      PROVE  stack'[u][i].at # "destroy"
  <2>1. CASE u # t
    <3>1. stack'[u] = stack[u] /\ mutex # u
      BY <1>5, <1>7, <2>1 DEF Changes
    <3> QED BY <3>1 DEF IInv, MutexInv
  <2>2. CASE u = t
    <3>1. stack'[t] \in Seq(FrameSet) /\ Len(stack'[t]) = n - 1 + 0
      BY <1>5 DEF Changes
    <3>2. \A j \in 1..(n - 1) : stack'[t][j] = stack[t][j]
      BY <1>5 DEF Changes
    <3>3. \A j \in DOMAIN stack[t] : stack[t][j].at = "destroy" => j = n
      BY <1>1, <1>6 DEF IInv, ApartInv, Apart, Top
    <3> HIDE DEF n
    <3>4. i \in 1..(n - 1) /\ i \in DOMAIN stack[t] /\ i # n
      BY <1>6, <2>2, <3>1
    <3> QED BY <2>2, <3>2, <3>3, <3>4
  <2> QED BY <2>1, <2>2
<1>9. MutexInv'
  BY <1>2, <1>8, ScaffoldProxiesAssumption DEF MutexInv
<1>10. stack' \in [Threads -> Seq(FrameSet)]
  BY <1>5 DEF Changes
<1>11. TypeOK' /\ MemberInv'
  BY <1>2, <1>10 DEF IInv, TypeOK, MemberInv
<1> QED BY <1>4, <1>9, <1>11 DEF IInv

\* The handle is gone, and nobody else had it.
LEMMA ReleaseKeeps ==
  ASSUME IInv, NEW t \in Threads, Release(t)
  PROVE  IInv'
<1>0. PICK h, f : h = Top(t).handle /\ f = Frame("cleanup", None, None, {}, FALSE)
  OBVIOUS
<1>1. /\ stack[t] # <<>> /\ Top(t).at = "release" /\ Top(t) \in FrameSet /\ FrameOK(Top(t))
      /\ \A g \in Kept(t, Len(stack[t]) - 1) : FrameOK(g) /\ Apart(g, Top(t))
  BY Facts DEF Release
<1>2. /\ foreign' = [foreign EXCEPT ![h] = "gone"] /\ Set(t, Under(t) \o <<f>>)
      /\ UNCHANGED <<lost, table, made, member, mutex, methods>>
  BY <1>0 DEF Release
<1>3. h \in Handles /\ Has(Top(t), h) /\ \A o \in Objects : member[o] # h
  BY <1>0, <1>1 DEF FrameOK, Has
<1>4. \A x \in Handles : x # h => foreign'[x] = foreign[x]
  BY <1>2 DEF IInv, TypeOK
<1>5. ASSUME NEW g \in Kept(t, Len(stack[t]) - 1) PROVE FrameOK(g)'
  <2>1. FrameOK(g) /\ ~Has(g, h)
    BY <1>1, <1>3 DEF Apart
  <2>2. \A x \in Handles : Has(g, x)' => foreign'[x] = "given" /\ \A p \in Objects : member'[p] # x
    BY <1>2, <1>4, <2>1 DEF FrameOK, Has
  <2> QED BY <1>2, <2>1, <2>2 DEF FrameOK
<1>6. Carried(t, Len(stack[t]) - 1)
  BY <1>2, <1>5 DEF Carried, On, Apart, Has
<1>a. f \in FrameSet /\ f.at = "cleanup" /\ f.obj = None /\ ~f.guard /\ \A x : ~Has(f, x)
  BY <1>0 DEF FrameSet, Frame, Has
<1>b. FrameOK(f)'
  BY <1>a DEF FrameOK, Has
<1>7. StacksInv' /\ ApartInv'
  BY <1>1, <1>2, <1>6, <1>a, <1>b, ReplaceKeeps DEF IInv
<1>8. MutexInv' /\ stack' \in [Threads -> Seq(FrameSet)]
  BY <1>1, <1>2, <1>a, MutexReplaced DEF IInv
<1>9. TypeOK'
  BY <1>2, <1>8 DEF IInv, TypeOK
<1>10. MemberInv'
  BY <1>2, <1>3, <1>4 DEF IInv, MemberInv, TypeOK
<1> QED BY <1>7, <1>8, <1>9, <1>10 DEF IInv

LEMMA CleanedUpKeeps ==
  ASSUME IInv, NEW t \in Threads, CleanedUp(t)
  PROVE  IInv'
<1>1. /\ stack[t] # <<>> /\ Top(t).at = "cleanup"
      /\ \A g \in Kept(t, Len(stack[t]) - 1) : FrameOK(g)
  BY Facts DEF CleanedUp
<1>2. Set(t, Under(t)) /\ UNCHANGED <<foreign, lost, table, made, member, mutex, methods>>
  BY DEF CleanedUp
<1>3. Carried(t, Len(stack[t]) - 1)
  BY <1>1, <1>2, SameWorld
<1>4. StacksInv' /\ ApartInv'
  BY <1>1, <1>2, <1>3, PopKeeps DEF IInv
<1>5. MutexInv' /\ stack' \in [Threads -> Seq(FrameSet)]
  BY <1>1, <1>2, MutexPopped DEF IInv
<1>6. TypeOK' /\ MemberInv'
  BY <1>2, <1>5 DEF IInv, TypeOK, MemberInv
<1> QED BY <1>4, <1>5, <1>6 DEF IInv
-----------------------------------------------------------------------------
\* The invariant: every handle has one frame or object to answer for it, and
\* every call of a proxy something that keeps it alive.
THEOREM ProxyInvariance == Spec => []IInv
<1>1. IInv /\ [Next]_vars => IInv'
  <2> SUFFICES ASSUME IInv, [Next]_vars PROVE IInv'
    OBVIOUS
  <2>1. ASSUME NEW t \in Threads, GeneratedStep(t) PROVE IInv'
    BY <2>1, LiftKeeps, LiftOtherFailsKeeps, AtKeeps, InsertKeeps, EraseKeeps,
       UnlockKeeps, ReleaseKeeps DEF GeneratedStep
  <2>2. ASSUME NEW t \in Threads, LibraryStep(t) PROVE IInv'
    BY <2>2, StoreKeeps, LeaveKeeps, CallProxyKeeps DEF LibraryStep
  <2>3. ASSUME NEW t \in Threads, ForeignStep(t) PROVE IInv'
    BY <2>3, CallKeeps, MethodKeeps, FreeKeeps, ProxyReturnsKeeps, CleanedUpKeeps
       DEF ForeignStep
  <2>4. CASE UNCHANGED vars
    BY <2>4 DEF vars, IInv, TypeOK, StacksInv, ApartInv, MemberInv, MutexInv,
                FrameOK, Has, On, Apart
  <2> QED BY <2>1, <2>2, <2>3, <2>4 DEF Next
<1> QED BY <1>1, InitKeeps, PTL DEF Spec

\* Every variable keeps its type, for any threads, handles and objects.
THEOREM ProxyTypeCorrect == Spec => []TypeOK
<1>1. IInv => TypeOK
  BY DEF IInv
<1> QED BY <1>1, ProxyInvariance, PTL

\* No proxy is called, and none is destroyed, whose handle the foreign side
\* does not have any more.
THEOREM NoStaleProxy == Spec => []AskedForLivingHandles
<1>1. IInv => AskedForLivingHandles
  <2> SUFFICES ASSUME IInv, NEW t \in Threads, NEW i \in DOMAIN stack[t],
                      stack[t][i].at \in {"foreign", "release"}
               PROVE  foreign[stack[t][i].handle] = "given"
    BY FramesAre DEF AskedForLivingHandles
  <2>1. FrameOK(stack[t][i]) /\ DOMAIN stack[t] = 1..Len(stack[t]) /\ Len(stack[t]) \in Nat
    BY DEF IInv, StacksInv, TypeOK
  <2>2. CASE stack[t][i].at = "release"
    BY <2>1, <2>2 DEF FrameOK, Has
  <2>3. CASE stack[t][i].at = "foreign"
    <3>1. i # 1 /\ On(stack[t][i], stack[t][i - 1])
      BY <2>3 DEF IInv, StacksInv
    <3>2. i - 1 \in DOMAIN stack[t] /\ stack[t][i - 1] \in FrameSet
      BY <2>1, <3>1 DEF IInv, TypeOK
    <3>3. PICK f, g : f = stack[t][i] /\ g = stack[t][i - 1]
      OBVIOUS
    <3>4. FrameOK(g) /\ g \in FrameSet /\ On(f, g) /\ f.at = "foreign"
      BY <2>3, <3>1, <3>2, <3>3 DEF IInv, StacksInv
    <3>5. CASE f.handle \in g.holds
      BY <3>3, <3>4, <3>5 DEF FrameOK, Has, On, FrameSet
    <3>6. CASE g.obj \in table /\ f.handle = member[g.obj]
      BY <3>3, <3>6, ScaffoldProxiesAssumption DEF IInv, MemberInv, TypeOK
    <3> QED BY <3>4, <3>5, <3>6 DEF On
  <2> QED BY <2>2, <2>3
<1> QED BY <1>1, ProxyInvariance, PTL

\* A thread can wait for the ObjectMap's mutex that it holds itself only in a
\* foreign destructor that its own erase runs: that is the innermost frame that
\* can be on an erase, and it is the erase that holds the mutex.
THEOREM OnlyEraseLocksOut == Spec => []LockedOutOnlyByErase
<1>1. IInv => LockedOutOnlyByErase
  <2> SUFFICES ASSUME IInv, NEW t \in Threads, LockedOut(t)
               PROVE  \E i, j \in DOMAIN stack[t] :
                        j = i + 1 /\ stack[t][i].at = "destroy" /\ stack[t][j].at = "cleanup"
    BY DEF LockedOutOnlyByErase
  <2> DEFINE n == Len(stack[t])
  <2>1. n \in Nat /\ DOMAIN stack[t] = 1..n /\ stack[t][n].at \in {"at", "insert", "erase"}
    BY DEF IInv, TypeOK, LockedOut, Is, Top
  <2>2. PICK i \in DOMAIN stack[t] : stack[t][i].at = "destroy"
    BY DEF IInv, MutexInv, LockedOut
  <2> HIDE DEF n
  <2>3. \A k \in 1..n : k # 1 => On(stack[t][k], stack[t][k - 1])
    BY <2>1 DEF IInv, StacksInv
  <2>4. PICK j \in 1..n : j = i + 1 /\ j # 1 /\ j - 1 = i
    BY <2>1, <2>2
  <2>5. stack[t][j].at \in {"release", "cleanup"}
    <3>1. On(stack[t][j], stack[t][i])
      BY <2>3, <2>4
    <3> QED BY <2>2, <3>1 DEF On
  <2>6. stack[t][j].at # "release"
    <3> SUFFICES ASSUME stack[t][j].at = "release" PROVE FALSE
      OBVIOUS
    <3>1. PICK k \in 1..n : k = j + 1 /\ k # 1 /\ k - 1 = j
      BY <2>1, <2>4
    <3>2. On(stack[t][k], stack[t][j])
      BY <2>3, <3>1
    <3> QED BY <3>2 DEF On
  <2> QED BY <2>1, <2>2, <2>4, <2>5, <2>6
<1> QED BY <1>1, ProxyInvariance, PTL
-----------------------------------------------------------------------------
(***************************************************************************)
(* That no handle is forgotten.  A step is right if whatever answered for  *)
(* a handle before, and goes, leaves it to something else.                 *)
(***************************************************************************)
LEMMA FramesAreNext ==
  \A f : f \in AllFrames' <=> \E t \in Threads : \E i \in DOMAIN stack'[t] : f = stack'[t][i]
BY DEF AllFrames, Frames

LEMMA FramesChange ==
  ASSUME TypeOK, NEW t \in Threads, NEW m, NEW new \in Seq(FrameSet), Changes(t, m, new)
  PROVE  /\ \A f \in AllFrames' : f \in Kept(t, m) \/ \E j \in 1..Len(new) : f = new[j]
         /\ Kept(t, m) \subseteq AllFrames'
         /\ \A j \in 1..Len(new) : new[j] \in AllFrames'
<1>1. /\ m \in Nat /\ m <= Len(stack[t]) /\ Len(new) \in Nat
      /\ \A u \in Threads \ {t} : stack'[u] = stack[u]
      /\ \A u \in Threads : stack[u] \in Seq(FrameSet) /\ DOMAIN stack[u] = 1..Len(stack[u])
  BY DEF Changes, TypeOK
<1>2. stack'[t] \in Seq(FrameSet) /\ DOMAIN stack'[t] = 1..(m + Len(new))
  BY DEF Changes
<1>3. /\ \A i \in 1..m : stack'[t][i] = stack[t][i]
      /\ \A j \in 1..Len(new) : stack'[t][m + j] = new[j]
  BY DEF Changes
<1>4. ASSUME NEW f \in AllFrames'
      PROVE  f \in Kept(t, m) \/ \E j \in 1..Len(new) : f = new[j]
  <2>1. PICK u \in Threads : \E i \in DOMAIN stack'[u] : f = stack'[u][i]
    BY FramesAreNext
  <2>2. PICK i \in DOMAIN stack'[u] : f = stack'[u][i]
    BY <2>1
  <2>3. CASE u # t
    BY <1>1, <2>2, <2>3 DEF Kept
  <2>4. CASE u = t /\ i <= m
    <3>1. i \in 1..m /\ f = stack[t][i] /\ i \in DOMAIN stack[t]
      BY <1>1, <1>2, <1>3, <2>2, <2>4
    <3> QED BY <1>1, <3>1 DEF Kept
  <2>5. CASE u = t /\ ~(i <= m)
    <3> DEFINE j == i - m
    <3>1. j \in 1..Len(new) /\ i = m + j
      BY <1>1, <1>2, <2>2, <2>5
    <3> HIDE DEF j
    <3>2. f = new[j]
      BY <1>3, <2>2, <2>5, <3>1
    <3> QED BY <3>1, <3>2
  <2> QED BY <2>3, <2>4, <2>5
<1>5. ASSUME NEW f \in Kept(t, m) PROVE f \in AllFrames'
  <2>1. CASE \E u \in Threads \ {t} : \E i \in DOMAIN stack[u] : f = stack[u][i]
    BY <1>1, <2>1, FramesAreNext
  <2>2. CASE \E i \in 1..m : f = stack[t][i]
    <3>1. PICK i \in 1..m : f = stack[t][i]
      BY <2>2
    <3>2. i \in DOMAIN stack'[t] /\ f = stack'[t][i]
      BY <1>1, <1>2, <1>3, <3>1
    <3> QED BY <3>2, FramesAreNext
  <2> QED BY <2>1, <2>2 DEF Kept
<1>6. ASSUME NEW j \in 1..Len(new) PROVE new[j] \in AllFrames'
  <2>1. m + j \in DOMAIN stack'[t] /\ stack'[t][m + j] = new[j]
    BY <1>1, <1>2, <1>3
  <2> QED BY <2>1, FramesAreNext
<1> QED BY <1>4, <1>5, <1>6

\* What is kept, and what is not.
LEMMA FramesStay ==
  ASSUME TypeOK, NEW t \in Threads, NEW m,
         m = Len(stack[t]) \/ (stack[t] # <<>> /\ m = Len(stack[t]) - 1)
  PROVE  /\ Kept(t, m) \subseteq AllFrames
         /\ \A f \in AllFrames : f \in Kept(t, m) \/ (m # Len(stack[t]) /\ f = Top(t))
<1>1. \A u \in Threads : /\ stack[u] \in Seq(FrameSet) /\ DOMAIN stack[u] = 1..Len(stack[u])
                         /\ Len(stack[u]) \in Nat
  BY DEF TypeOK
<1>2. m \in Int /\ m <= Len(stack[t]) /\ (m = Len(stack[t]) \/ m = Len(stack[t]) - 1)
  BY <1>1
<1>3. Kept(t, m) \subseteq AllFrames
  BY <1>1, <1>2, FramesAre DEF Kept
<1>4. ASSUME NEW f \in AllFrames PROVE f \in Kept(t, m) \/ (m # Len(stack[t]) /\ f = Top(t))
  <2>1. PICK u \in Threads : \E i \in DOMAIN stack[u] : f = stack[u][i]
    BY FramesAre
  <2>2. PICK i \in DOMAIN stack[u] : f = stack[u][i]
    BY <2>1
  <2>3. CASE u # t \/ i <= m
    BY <1>1, <1>2, <2>2, <2>3 DEF Kept
  <2>4. CASE u = t /\ ~(i <= m)
    <3>1. i = Len(stack[t]) /\ m # Len(stack[t])
      BY <1>1, <1>2, <2>2, <2>4
    <3> QED BY <2>2, <2>4, <3>1 DEF Top
  <2> QED BY <2>3, <2>4
<1> QED BY <1>3, <1>4

LEMMA OwnersKept ==
  ASSUME IInv, OwnerInv, NEW t \in Threads, NEW m, NEW new \in Seq(FrameSet),
         Changes(t, m, new),
         m = Len(stack[t]) \/ (stack[t] # <<>> /\ m = Len(stack[t]) - 1),
         \A g \in Kept(t, m) : FrameNarrow(g)',
         \A j \in 1..Len(new) : FrameNarrow(new[j])',
         \A h \in Handles : foreign'[h] = "given" =>
           \/ h \in lost' \/ (\E o \in Objects : member'[o] = h)
           \/ \E j \in 1..Len(new) : Has(new[j], h)
           \/ /\ foreign[h] = "given" /\ h \notin lost /\ \A o \in Objects : member[o] # h
              /\ m = Len(stack[t]) \/ ~Has(Top(t), h)
  PROVE  OwnerInv'
<1>1. TypeOK
  BY DEF IInv
<1>2. /\ \A f \in AllFrames' : f \in Kept(t, m) \/ \E j \in 1..Len(new) : f = new[j]
      /\ Kept(t, m) \subseteq AllFrames'
      /\ \A j \in 1..Len(new) : new[j] \in AllFrames'
  BY <1>1, FramesChange
<1>3. ASSUME NEW f \in AllFrames' PROVE FrameNarrow(f)'
  BY <1>2, <1>3
<1>4. ASSUME NEW h \in Handles, foreign'[h] = "given"
      PROVE  h \in lost' \/ (\E o \in Objects : member'[o] = h) \/ \E f \in AllFrames' : Has(f, h)
  <2>1. CASE \E j \in 1..Len(new) : Has(new[j], h)
    BY <1>2, <2>1
  <2>2. CASE /\ foreign[h] = "given" /\ h \notin lost /\ \A o \in Objects : member[o] # h
             /\ m = Len(stack[t]) \/ ~Has(Top(t), h)
    <3>1. PICK f \in AllFrames : Has(f, h)
      BY <2>2 DEF OwnerInv, NoHandleForgotten
    <3>2. f \in Kept(t, m)
      BY <1>1, <2>2, <3>1, FramesStay
    <3> QED BY <1>2, <3>1, <3>2
  <2> QED BY <1>4, <2>1, <2>2
<1>5. NoHandleForgotten'
  BY <1>4 DEF NoHandleForgotten, Has
<1> QED BY <1>3, <1>5 DEF OwnerInv

\* Nothing but one thread's frames changes.
LEMMA OwnersSame ==
  ASSUME IInv, OwnerInv, NEW t \in Threads, NEW m, NEW new \in Seq(FrameSet),
         Changes(t, m, new),
         m = Len(stack[t]) \/ (stack[t] # <<>> /\ m = Len(stack[t]) - 1),
         UNCHANGED <<foreign, lost, table, made, member>>,
         \A j \in 1..Len(new) : FrameNarrow(new[j]),
         \A h \in Handles : m # Len(stack[t]) /\ Has(Top(t), h) =>
           \E j \in 1..Len(new) : Has(new[j], h)
  PROVE  OwnerInv'
<1>1. \A f : FrameNarrow(f) <=> FrameNarrow(f)'
  BY DEF FrameNarrow
<1>2. \A g \in Kept(t, m) : FrameNarrow(g)'
  BY <1>1, FramesStay DEF IInv, OwnerInv
<1>3. \A j \in 1..Len(new) : FrameNarrow(new[j])'
  BY <1>1
<1> QED BY <1>2, <1>3, OwnersKept

LEMMA OwnersPush ==
  ASSUME IInv, OwnerInv, NEW t \in Threads, NEW f \in FrameSet, Push(t, f),
         f.at \notin {"lift", "body"}, UNCHANGED <<foreign, lost, table, made, member>>
  PROVE  OwnerInv'
<1>1. <<f>> \in Seq(FrameSet) /\ Len(<<f>>) = 1 /\ \A j \in 1..1 : <<f>>[j] = f
  OBVIOUS
<1>2. Changes(t, Len(stack[t]), <<f>>)
  BY <1>1, PushChanges DEF Push, IInv
<1>3. \A j \in 1..Len(<<f>>) : FrameNarrow(<<f>>[j])
  BY <1>1 DEF FrameNarrow
<1> QED BY <1>1, <1>2, <1>3, OwnersSame

LEMMA OwnersReplace ==
  ASSUME IInv, OwnerInv, NEW t \in Threads, stack[t] # <<>>, NEW f \in FrameSet,
         Set(t, Under(t) \o <<f>>), UNCHANGED <<foreign, lost, table, made, member>>,
         FrameNarrow(f), \A h \in Handles : Has(Top(t), h) => Has(f, h)
  PROVE  OwnerInv'
<1>1. <<f>> \in Seq(FrameSet) /\ Len(<<f>>) = 1 /\ <<f>>[1] = f /\ 1 \in 1..1
  OBVIOUS
<1>2. Changes(t, Len(stack[t]) - 1, <<f>>)
  BY <1>1, ReplaceChanges DEF IInv
<1>3. \A j \in 1..Len(<<f>>) : FrameNarrow(<<f>>[j])
  BY <1>1
<1>4. \A h \in Handles : Has(Top(t), h) => \E j \in 1..Len(<<f>>) : Has(<<f>>[j], h)
  BY <1>1
<1> QED BY <1>1, <1>2, <1>3, <1>4, OwnersSame

LEMMA OwnersPop ==
  ASSUME IInv, OwnerInv, NEW t \in Threads, stack[t] # <<>>, Set(t, Under(t)),
         UNCHANGED <<foreign, lost, table, made, member>>,
         \A h \in Handles : ~Has(Top(t), h)
  PROVE  OwnerInv'
<1> DEFINE new == <<>>
<1>1. new \in Seq(FrameSet) /\ \A j \in 1..Len(new) : FrameNarrow(new[j])
  OBVIOUS
<1>2. Changes(t, Len(stack[t]) - 1, new)
  BY PopChanges DEF IInv
<1> HIDE DEF new
<1> QED BY <1>1, <1>2, OwnersSame
-----------------------------------------------------------------------------
LEMMA OwnerInit == Init => OwnerInv
<1> SUFFICES ASSUME Init PROVE OwnerInv
  OBVIOUS
<1>1. \A f : f \notin AllFrames
  BY FramesAre DEF Init
<1> QED BY <1>1 DEF Init, OwnerInv, NoHandleForgotten

\* The argument answers for the new handle.
LEMMA CallOwners ==
  ASSUME IInv, OwnerInv, NEW t \in Threads, NEW h \in Handles,
         NEW o \in Objects \cup {None}, Call(t, h, o)
  PROVE  OwnerInv'
<1>0. PICK f : f = Frame("lift", o, h, {}, FALSE)
  OBVIOUS
<1>1. f \in FrameSet /\ f.at = "lift" /\ f.obj = o /\ Has(f, h)
  BY <1>0 DEF FrameSet, Frame, Has
<1>2. /\ o \notin made /\ Push(t, f)
      /\ foreign' = [foreign EXCEPT ![h] = "given"] /\ made' = made \cup ({o} \ {None})
      /\ UNCHANGED <<lost, table, member>>
  BY <1>0 DEF Call
<1>3. <<f>> \in Seq(FrameSet) /\ Len(<<f>>) = 1 /\ <<f>>[1] = f /\ 1 \in 1..1
  BY <1>1
<1>4. Changes(t, Len(stack[t]), <<f>>)
  BY <1>2, <1>3, PushChanges DEF Push, IInv
<1>5. made \subseteq Objects /\ None \notin Objects
  BY ScaffoldProxiesAssumption DEF IInv, TypeOK
<1>6. ASSUME NEW g \in Kept(t, Len(stack[t])) PROVE FrameNarrow(g)'
  <2>1. FrameNarrow(g) /\ (g.obj # None => g.obj \in made)
    BY AllFacts DEF IInv, OwnerInv, FrameOK
  <2>2. g.obj \in made' \ table => g.obj \in made \ table
    BY <1>2, <1>5, <2>1
  <2> QED BY <1>2, <2>1, <2>2 DEF FrameNarrow
<1>7. FrameNarrow(f)'
  <2>1. o \in made' => o \in Objects /\ member[o] = None
    BY <1>2, <1>5 DEF IInv, MemberInv
  <2> QED BY <1>1, <1>2, <2>1 DEF FrameNarrow
<1>8. \A j \in 1..Len(<<f>>) : FrameNarrow(<<f>>[j])'
  BY <1>3, <1>7
<1>9. \A x \in Handles : foreign'[x] = "given" => x = h \/ foreign[x] = "given"
  BY <1>2 DEF IInv, TypeOK
<1>10. \A x \in Handles : x = h => \E j \in 1..Len(<<f>>) : Has(<<f>>[j], x)
  BY <1>1, <1>3
<1>11. ASSUME NEW x \in Handles, foreign'[x] = "given"
       PROVE  \/ \E j \in 1..Len(<<f>>) : Has(<<f>>[j], x)
              \/ foreign[x] = "given" /\ \A p \in Objects : member[p] # x
              \/ \E p \in Objects : member'[p] = x
  BY <1>2, <1>9, <1>10, <1>11
<1> DEFINE m == Len(stack[t])
           new == <<f>>
<1>12. /\ m = Len(stack[t]) /\ new \in Seq(FrameSet) /\ Changes(t, m, new)
       /\ \A g \in Kept(t, m) : FrameNarrow(g)'
       /\ \A j \in 1..Len(new) : FrameNarrow(new[j])'
  BY <1>3, <1>4, <1>6, <1>8
<1>13. \A x \in Handles : foreign'[x] = "given" =>
         \/ x \in lost' \/ (\E p \in Objects : member'[p] = x)
         \/ \E j \in 1..Len(new) : Has(new[j], x)
         \/ /\ foreign[x] = "given" /\ x \notin lost /\ \A p \in Objects : member[p] # x
            /\ m = Len(stack[t]) \/ ~Has(Top(t), x)
  BY <1>2, <1>11
<1> HIDE DEF m, new
<1> QED BY <1>12, <1>13, OwnersKept

LEMMA TopIsFrame ==
  ASSUME TypeOK, NEW t \in Threads, stack[t] # <<>>
  PROVE  Top(t) \in AllFrames
<1>1. Len(stack[t]) \in DOMAIN stack[t]
  BY UnderFacts
<1> QED BY <1>1, FramesAre DEF Top

\* The body holds what was the argument.
LEMMA LiftOwners ==
  ASSUME IInv, OwnerInv, NEW t \in Threads, Lift(t)
  PROVE  OwnerInv'
<1>0. PICK f : f = Frame("body", Top(t).obj, None, {Top(t).handle}, FALSE)
  OBVIOUS
<1>1. stack[t] # <<>> /\ Top(t).at = "lift" /\ Top(t) \in FrameSet /\ FrameOK(Top(t))
  BY Facts DEF Lift
<1>2. FrameNarrow(Top(t))
  BY <1>1, TopIsFrame DEF IInv, OwnerInv
<1>3. f \in FrameSet /\ f.at = "body" /\ f.obj = Top(t).obj /\ f.holds = {Top(t).handle}
  BY <1>0, <1>1 DEF FrameSet, Frame, FrameOK
<1>4. Set(t, Under(t) \o <<f>>) /\ UNCHANGED <<foreign, lost, table, made, member>>
  BY <1>0 DEF Lift
<1>5. FrameNarrow(f) /\ \A h \in Handles : Has(Top(t), h) => Has(f, h)
  BY <1>1, <1>2, <1>3 DEF FrameNarrow, Has
<1> QED BY <1>1, <1>3, <1>4, <1>5, OwnersReplace

LEMMA LiftOtherFailsOwners ==
  ASSUME IInv, OwnerInv, NEW t \in Threads, LiftOtherFails(t)
  PROVE  OwnerInv'
<1>1. stack[t] # <<>> /\ Top(t).at = "lift"
  BY DEF LiftOtherFails, Is
<1>2. /\ lost' = lost \cup {Top(t).handle} /\ Set(t, Under(t))
      /\ UNCHANGED <<foreign, table, made, member>>
  BY DEF LiftOtherFails
<1> DEFINE new == <<>>
<1>3. new \in Seq(FrameSet) /\ \A j \in 1..Len(new) : FrameNarrow(new[j])'
  OBVIOUS
<1>4. Changes(t, Len(stack[t]) - 1, new)
  BY <1>1, <1>2, PopChanges DEF IInv
<1> HIDE DEF new
<1>5. \A g \in Kept(t, Len(stack[t]) - 1) : FrameNarrow(g)'
  BY <1>1, <1>2, FramesStay DEF IInv, OwnerInv, FrameNarrow
<1>6. \A h : Has(Top(t), h) => h \in lost'
  BY <1>1, <1>2 DEF Has
<1> QED BY <1>1, <1>2, <1>3, <1>4, <1>5, <1>6, OwnersKept

LEMMA AtOwners ==
  ASSUME IInv, OwnerInv, NEW t \in Threads, At(t)
  PROVE  OwnerInv'
<1>0. PICK f : f = Frame("body", Top(t).obj, None, {}, FALSE)
  OBVIOUS
<1>1. stack[t] # <<>> /\ Top(t).at = "at" /\ Top(t) \in FrameSet /\ FrameOK(Top(t))
  BY Facts DEF At
<1>2. f \in FrameSet /\ f.obj = Top(t).obj /\ f.holds = {}
  BY <1>0, <1>1 DEF FrameSet, Frame
<1>3. Set(t, Under(t) \o <<f>>) /\ UNCHANGED <<foreign, lost, table, made, member>>
  BY <1>0 DEF At
<1>4. FrameNarrow(f) /\ \A h \in Handles : ~Has(Top(t), h)
  BY <1>1, <1>2 DEF FrameOK, FrameNarrow, Has
<1> QED BY <1>1, <1>2, <1>3, <1>4, OwnersReplace

\* Calls and frees without an argument, and a call of a proxy.
LEMMA PushesOwners ==
  ASSUME IInv, OwnerInv, NEW t \in Threads
  PROVE  /\ \A o \in Objects : Method(t, o) \/ Free(t, o) => OwnerInv'
         /\ \A h \in Handles : CallProxy(t, h) => OwnerInv'
<1>1. ASSUME NEW at \in {"at", "erase", "foreign"}, NEW o \in Objects \cup {None},
             NEW h \in Handles \cup {None}, Push(t, Frame(at, o, h, {}, FALSE)),
             UNCHANGED <<foreign, lost, table, made, member>>
      PROVE  OwnerInv'
  <2>1. PICK f : f = Frame(at, o, h, {}, FALSE)
    OBVIOUS
  <2>2. f \in FrameSet /\ f.at \notin {"lift", "body"}
    BY <2>1 DEF FrameSet, Frame
  <2> QED BY <1>1, <2>1, <2>2, OwnersPush
<1>2. ASSUME NEW o \in Objects, Method(t, o) PROVE OwnerInv'
  BY <1>1, <1>2 DEF Method
<1>3. ASSUME NEW o \in Objects, Free(t, o) PROVE OwnerInv'
  BY <1>1, <1>3 DEF Free
<1>4. ASSUME NEW h \in Handles, CallProxy(t, h) PROVE OwnerInv'
  BY <1>1, <1>4 DEF CallProxy
<1> QED BY <1>2, <1>3, <1>4

\* Neither a callback that returns nor what is gone answers for a handle.
LEMMA PopsOwners ==
  ASSUME IInv, OwnerInv, NEW t \in Threads, ProxyReturns(t) \/ CleanedUp(t) \/ Unlock(t)
  PROVE  OwnerInv'
<1>1. stack[t] # <<>> /\ Top(t).at \in {"foreign", "cleanup", "destroy"} /\ Set(t, Under(t))
  BY DEF ProxyReturns, CleanedUp, Unlock, Is
<1>2. UNCHANGED <<foreign, lost, table, made, member>>
  BY DEF ProxyReturns, CleanedUp, Unlock
<1>3. \A h \in Handles : ~Has(Top(t), h)
  BY <1>1 DEF Has
<1> QED BY <1>1, <1>2, <1>3, OwnersPop

LEMMA InsertOwners ==
  ASSUME IInv, OwnerInv, NEW t \in Threads, Insert(t)
  PROVE  OwnerInv'
<1>1. stack[t] # <<>> /\ Top(t).at = "insert"
  BY DEF Insert, Is
<1>2. /\ table \subseteq table' /\ Set(t, Under(t))
      /\ UNCHANGED <<foreign, lost, made, member>>
  BY DEF Insert
<1> DEFINE new == <<>>
<1>3. new \in Seq(FrameSet) /\ \A j \in 1..Len(new) : FrameNarrow(new[j])'
  OBVIOUS
<1>4. Changes(t, Len(stack[t]) - 1, new)
  BY <1>1, <1>2, PopChanges DEF IInv
<1> HIDE DEF new
<1>5. \A g \in Kept(t, Len(stack[t]) - 1) : FrameNarrow(g)'
  BY <1>1, <1>2, FramesStay DEF IInv, OwnerInv, FrameNarrow
<1>6. \A h : ~Has(Top(t), h)
  BY <1>1 DEF Has
<1> QED BY <1>1, <1>2, <1>3, <1>4, <1>5, <1>6, OwnersKept

\* What the constructor's argument answered for, the object stores; it stored
\* nothing before.
LEMMA StoreOwners ==
  ASSUME IInv, OwnerInv, NEW t \in Threads, Store(t)
  PROVE  OwnerInv'
<1>0. PICK o, h, f : o = Top(t).obj /\ h = (CHOOSE x \in Top(t).holds : TRUE)
                     /\ f = Frame("insert", o, None, {}, FALSE)
  OBVIOUS
<1>1. /\ stack[t] # <<>> /\ Top(t).at = "body" /\ Top(t) \in FrameSet /\ FrameOK(Top(t))
      /\ \A g \in Kept(t, Len(stack[t]) - 1) : FrameOK(g) /\ Apart(g, Top(t))
  BY Facts DEF Store
<1>2. /\ o \in made \ table /\ member' = [member EXCEPT ![o] = h]
      /\ Set(t, Under(t) \o <<f>>) /\ UNCHANGED <<foreign, lost, table, made>>
  BY <1>0 DEF Store
<1>3. FrameNarrow(Top(t))
  BY <1>1, TopIsFrame DEF IInv, OwnerInv
<1>4. o \in Objects /\ o # None /\ None \notin Handles
  BY <1>2, ScaffoldProxiesAssumption DEF IInv, TypeOK
<1>5. member'[o] = h /\ \A p \in Objects : p # o => member'[p] = member[p]
  BY <1>2, <1>4 DEF IInv, TypeOK
<1>6. f \in FrameSet /\ f.at = "insert"
  BY <1>0, <1>4 DEF FrameSet, Frame
<1>7. <<f>> \in Seq(FrameSet) /\ Len(<<f>>) = 1 /\ <<f>>[1] = f
  BY <1>6
<1>8. Changes(t, Len(stack[t]) - 1, <<f>>)
  BY <1>1, <1>2, <1>7, ReplaceChanges DEF IInv
<1>9. ASSUME NEW g \in Kept(t, Len(stack[t]) - 1) PROVE FrameNarrow(g)'
  <2>1. FrameNarrow(g) /\ g.obj # o
    BY <1>0, <1>1, <1>2, <1>4, FramesStay DEF Apart, IInv, OwnerInv
  <2>2. g.obj \in made => member'[g.obj] = member[g.obj]
    BY <1>5, <2>1 DEF IInv, TypeOK
  <2> QED BY <1>2, <2>1, <2>2 DEF FrameNarrow
<1>10. \A j \in 1..Len(<<f>>) : FrameNarrow(<<f>>[j])'
  BY <1>6, <1>7 DEF FrameNarrow
<1>11. \A x \in Handles : Has(Top(t), x) => x = h
  <2> SUFFICES ASSUME NEW x \in Handles, Has(Top(t), x) PROVE x = h
    OBVIOUS
  <2>1. x \in Top(t).holds /\ h \in Top(t).holds
    BY <1>0, <1>1 DEF Has
  <2> QED BY <1>1, <1>3, <2>1 DEF FrameNarrow
<1>12. \A x \in Handles : (\E p \in Objects : member[p] = x) => \E p \in Objects : member'[p] = x
  <2>1. member[o] = None
    BY <1>0, <1>1, <1>2, <1>3 DEF FrameNarrow
  <2> QED BY <1>4, <1>5, <2>1
<1> DEFINE m == Len(stack[t]) - 1
           new == <<f>>
<1>13. /\ stack[t] # <<>> /\ m = Len(stack[t]) - 1
       /\ new \in Seq(FrameSet) /\ Changes(t, m, new)
       /\ \A g \in Kept(t, m) : FrameNarrow(g)'
       /\ \A j \in 1..Len(new) : FrameNarrow(new[j])'
  BY <1>1, <1>7, <1>8, <1>9, <1>10
<1>14. ASSUME NEW x \in Handles, foreign'[x] = "given"
       PROVE  \/ x \in lost' \/ (\E p \in Objects : member'[p] = x)
              \/ \E j \in 1..Len(new) : Has(new[j], x)
              \/ /\ foreign[x] = "given" /\ x \notin lost /\ \A p \in Objects : member[p] # x
                 /\ m = Len(stack[t]) \/ ~Has(Top(t), x)
  BY <1>2, <1>4, <1>5, <1>11, <1>12, <1>14
<1> HIDE DEF m, new
<1> QED BY <1>13, <1>14, OwnersKept

\* The destructor answers for what the call held.
LEMMA LeaveOwners ==
  ASSUME IInv, OwnerInv, NEW t \in Threads, Leave(t)
  PROVE  OwnerInv'
<1>1. stack[t] # <<>> /\ Top(t).at = "body" /\ Top(t) \in FrameSet
  BY Facts DEF Leave
<1>2. /\ Set(t, Under(t) \o Releasing(Top(t).holds))
      /\ UNCHANGED <<foreign, lost, table, made, member>>
  BY DEF Leave
<1>3. FrameNarrow(Top(t))
  BY <1>1, TopIsFrame DEF IInv, OwnerInv
<1>4. CASE Top(t).holds = {}
  <2>1. Set(t, Under(t))
    <3>1. Under(t) \o <<>> = Under(t)
      BY <1>1, UnderFacts DEF IInv
    <3> QED BY <1>2, <1>4, <3>1, ReleasingIs
  <2>2. \A h : ~Has(Top(t), h)
    BY <1>1, <1>4 DEF Has
  <2> QED BY <1>1, <1>2, <2>1, <2>2, OwnersPop
<1>5. CASE Top(t).holds # {}
  <2>1. PICK h, f : h = (CHOOSE x \in Top(t).holds : TRUE) /\ f = Frame("release", None, h, {}, FALSE)
    OBVIOUS
  <2>2. h \in Top(t).holds /\ h \in Handles
    BY <1>1, <1>5, <2>1 DEF FrameSet
  <2>3. f \in FrameSet /\ f.at = "release" /\ Has(f, h)
    BY <2>1, <2>2 DEF FrameSet, Frame, Has
  <2>4. Set(t, Under(t) \o <<f>>)
    BY <1>2, <1>5, <2>1, ReleasingIs
  <2>5. ASSUME NEW x \in Handles, Has(Top(t), x) PROVE Has(f, x)
    <3>1. x \in Top(t).holds
      BY <1>1, <2>5 DEF Has
    <3>2. x = h
      BY <1>1, <1>3, <2>2, <3>1 DEF FrameNarrow
    <3> QED BY <2>3, <3>2
  <2>6. FrameNarrow(f)
    BY <2>3 DEF FrameNarrow
  <2> QED BY <1>1, <1>2, <2>3, <2>4, <2>5, <2>6, OwnersReplace
<1> QED BY <1>4, <1>5

\* The destructor answers for what the object stored.
LEMMA EraseOwners ==
  ASSUME IInv, OwnerInv, NEW t \in Threads, Erase(t)
  PROVE  OwnerInv'
<1>0. PICK o, h, d, r : /\ o = Top(t).obj /\ h = member[o]
                        /\ d = Frame("destroy", o, None, {}, TRUE)
                        /\ r = Frame("release", None, h, {}, FALSE)
  OBVIOUS
<1>1. /\ stack[t] # <<>> /\ Top(t).at = "erase" /\ FrameOK(Top(t))
      /\ \A g \in Kept(t, Len(stack[t]) - 1) : FrameOK(g) /\ Apart(g, Top(t))
  BY Facts DEF Erase
<1>2. o \in table /\ o \in Objects /\ o # None /\ h \in Handles
  BY <1>0, <1>1, ScaffoldProxiesAssumption DEF FrameOK, IInv, TypeOK, MemberInv
<1>3. /\ table' = table \ {o} /\ member' = [member EXCEPT ![o] = None]
      /\ UNCHANGED <<foreign, lost, made>>
  BY <1>0 DEF Erase
<1>4. \A p \in Objects : p # o => member'[p] = member[p]
  BY <1>3 DEF IInv, TypeOK
<1>5. /\ d \in FrameSet /\ d.at = "destroy"
      /\ r \in FrameSet /\ r.at = "release" /\ Has(r, h)
  BY <1>0, <1>2 DEF FrameSet, Frame, Has
<1> DEFINE new == <<d>> \o <<r>>
<1>6. new \in Seq(FrameSet) /\ Len(new) = 2 /\ new[1] = d /\ new[2] = r
  <2>1. <<d>> \in Seq(FrameSet) /\ <<r>> \in Seq(FrameSet)
    BY <1>5
  <2> QED BY <2>1, ConcatProperties
<1>7. Changes(t, Len(stack[t]) - 1, new)
  <2>1. Releasing({h}) = <<r>>
    <3>1. (CHOOSE x \in {h} : TRUE) = h
      OBVIOUS
    <3> QED BY <1>0, <3>1, ReleasingIs
  <2>2. Set(t, Under(t) \o <<d>> \o <<r>>)
    BY <1>0, <2>1 DEF Erase
  <2>3. Under(t) \o <<d>> \o <<r>> = Under(t) \o new
    <3>1. Under(t) \in Seq(FrameSet) /\ <<d>> \in Seq(FrameSet) /\ <<r>> \in Seq(FrameSet)
      BY <1>1, <1>5, UnderFacts DEF IInv
    <3> QED BY <3>1, ConcatAssociative
  <2> QED BY <1>1, <1>6, <2>2, <2>3, ReplaceChanges DEF IInv
<1>8. ASSUME NEW g \in Kept(t, Len(stack[t]) - 1) PROVE FrameNarrow(g)'
  <2>1. FrameNarrow(g) /\ g.obj # o
    BY <1>0, <1>1, <1>2, FramesStay DEF Apart, IInv, OwnerInv
  <2>2. g.obj \in made => member'[g.obj] = member[g.obj]
    BY <1>4, <2>1 DEF IInv, TypeOK
  <2> QED BY <1>3, <2>1, <2>2 DEF FrameNarrow
<1> DEFINE m == Len(stack[t]) - 1
<1>9. /\ m = Len(stack[t]) - 1 /\ new \in Seq(FrameSet) /\ Len(new) = 2
      /\ new[1] = d /\ new[2] = r /\ Changes(t, m, new)
      /\ \A g \in Kept(t, m) : FrameNarrow(g)'
  BY <1>6, <1>7, <1>8
<1> HIDE DEF m, new
<1>10. \A j \in 1..Len(new) : FrameNarrow(new[j])'
  <2>1. FrameNarrow(d)' /\ FrameNarrow(r)'
    BY <1>5 DEF FrameNarrow
  <2> QED BY <1>9, <2>1
<1>11. \E j \in 1..Len(new) : Has(new[j], h)
  BY <1>5, <1>9
<1>12. ASSUME NEW x \in Handles, foreign'[x] = "given"
       PROVE  \/ x \in lost' \/ (\E p \in Objects : member'[p] = x)
              \/ \E j \in 1..Len(new) : Has(new[j], x)
              \/ /\ foreign[x] = "given" /\ x \notin lost /\ \A p \in Objects : member[p] # x
                 /\ ~Has(Top(t), x)
  <2>1. ~Has(Top(t), x)
    BY <1>1 DEF Has
  <2> QED BY <1>0, <1>2, <1>3, <1>4, <1>11, <1>12, <2>1
<1> QED BY <1>1, <1>9, <1>10, <1>12, OwnersKept

\* The only handle that goes is one that the foreign side does not have any more.
LEMMA ReleaseOwners ==
  ASSUME IInv, OwnerInv, NEW t \in Threads, Release(t)
  PROVE  OwnerInv'
<1>1. stack[t] # <<>> /\ Top(t).at = "release" /\ FrameOK(Top(t))
  BY Facts DEF Release
<1>0. PICK f : f = Frame("cleanup", None, None, {}, FALSE)
  OBVIOUS
<1>2. /\ foreign' = [foreign EXCEPT ![Top(t).handle] = "gone"] /\ Set(t, Under(t) \o <<f>>)
      /\ UNCHANGED <<lost, table, made, member>>
  BY <1>0 DEF Release
<1>a. f \in FrameSet /\ FrameNarrow(f)'
  BY <1>0 DEF FrameSet, Frame, FrameNarrow
<1> DEFINE new == <<f>>
<1>3. new \in Seq(FrameSet) /\ \A j \in 1..Len(new) : FrameNarrow(new[j])'
  BY <1>a
<1>4. Changes(t, Len(stack[t]) - 1, new)
  BY <1>1, <1>2, <1>3, ReplaceChanges DEF IInv
<1> HIDE DEF new
<1>5. \A g \in Kept(t, Len(stack[t]) - 1) : FrameNarrow(g)'
  BY <1>1, <1>2, FramesStay DEF IInv, OwnerInv, FrameNarrow
<1>6. \A x \in Handles : foreign'[x] = "given" => foreign[x] = "given" /\ ~Has(Top(t), x)
  BY <1>1, <1>2 DEF FrameOK, Has, IInv, TypeOK
<1> QED BY <1>1, <1>2, <1>3, <1>4, <1>5, <1>6, OwnersKept

\* No handle that the foreign side has is without an owner, however calls and
\* callbacks nest; that owners act in the end is left to fairness.
THEOREM EveryHandleHasOwner == Spec => []NoHandleForgotten
<1>1. IInv /\ OwnerInv /\ [Next]_vars => OwnerInv'
  <2> SUFFICES ASSUME IInv, OwnerInv, [Next]_vars PROVE OwnerInv'
    OBVIOUS
  <2>1. ASSUME NEW t \in Threads, GeneratedStep(t) PROVE OwnerInv'
    BY <2>1, LiftOwners, LiftOtherFailsOwners, AtOwners, InsertOwners, EraseOwners,
       PopsOwners, ReleaseOwners DEF GeneratedStep
  <2>2. ASSUME NEW t \in Threads, LibraryStep(t) PROVE OwnerInv'
    BY <2>2, StoreOwners, LeaveOwners, PushesOwners DEF LibraryStep
  <2>3. ASSUME NEW t \in Threads, ForeignStep(t) PROVE OwnerInv'
    BY <2>3, CallOwners, PushesOwners, PopsOwners DEF ForeignStep
  <2>4. CASE UNCHANGED vars
    BY <2>4 DEF vars, OwnerInv, NoHandleForgotten, FrameNarrow, Has, AllFrames, Frames
  <2> QED BY <2>1, <2>2, <2>3, <2>4 DEF Next
<1>2. OwnerInv => NoHandleForgotten
  BY DEF OwnerInv
<1> QED BY <1>1, <1>2, OwnerInit, ProxyInvariance, PTL DEF Spec
================================================================================
