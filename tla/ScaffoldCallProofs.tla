-------------------------- MODULE ScaffoldCallProofs --------------------------
(***************************************************************************)
(* Proofs about ScaffoldCall, for any buffers, arguments, nesting and      *)
(* failed conversions: every buffer has one holder, what is lost without a *)
(* failure is custom, a status says what its buffer holds, and functions   *)
(* report.  As in RustBufferProofs each action changes the innermost       *)
(* frame, pushes one or pops one, and ThrowIn does what it does to the     *)
(* stack it is given; the lemmas are about any heap h, stack s and lost    *)
(* buffers l.                                                              *)
(***************************************************************************)
EXTENDS ScaffoldCall, SequenceTheorems, TLAPS

\* The buffers a frame refers to.
Holds(f) == f.bufs \cup ({f.buf} \ {None})

Typed(h, s, l) ==
  /\ DOMAIN h \subseteq Buffers
  /\ h \in [DOMAIN h -> Contents]
  /\ s \in Seq(Frames)
  /\ l \subseteq Buffers

FrameShape(f) ==
  /\ f.kind \in Exported => f.pc \in {"lift", "body", "catch", "told"}
  /\ f.kind = "proxy" => f.pc \in {"write", "foreign", "answer"}
  /\ f.buf # None => f.pc \in {"told", "answer"}
  /\ f.pc \in {"body", "catch", "told"} => f.bufs = {}

\* Where a frame is while one of a kind lies on it.
PcUnder(kind) == IF kind = "proxy" THEN "body" ELSE "foreign"

Shaped(s) ==
  \A n \in DOMAIN s :
    /\ FrameShape(s[n])
    /\ s[n].kind = "proxy" => n > 1
    /\ n < Len(s) => s[n].pc = PcUnder(s[n + 1].kind)

Exclusive(d, s, l) ==
  /\ d = l \cup UNION {Holds(s[n]) : n \in DOMAIN s}
  /\ \A m, n \in DOMAIN s : m # n => Holds(s[m]) \cap Holds(s[n]) = {}
  /\ \A n \in DOMAIN s : Holds(s[n]) \cap l = {} /\ s[n].bufs \cap ({s[n].buf} \ {None}) = {}

Decoded(h, f) == f.pc = "told" /\ f.buf # None => <<f.code, h[f.buf]>> \in Answers

Good(h, s, l) ==
  /\ Typed(h, s, l)
  /\ Shaped(s)
  /\ Exclusive(DOMAIN h, s, l)
  /\ \A n \in DOMAIN s : Decoded(h, s[n])

\* What else the invariant says: nothing of the stack and who holds what.
Rest ==
  /\ failures \in Nat /\ crossed \in Exported \cup {None}
  /\ LostInv /\ FunctionsReport

\* IInv is Good of heap, stack and lost, and the rest.
LEMMA GoodIsIInv == IInv <=> Good(heap, stack, lost) /\ Rest
<1>1. TypeOK /\ LostInv /\ FunctionsReport <=> Typed(heap, stack, lost) /\ Rest
  BY DEF TypeOK, Typed, Rest
<1>2. ShapeInv <=> Shaped(stack)
  BY DEF ShapeInv, Shaped, FrameShape, PcUnder
<1>3. BuffersHeldOnce <=> Exclusive(DOMAIN heap, stack, lost)
  BY DEF BuffersHeldOnce, Exclusive, Held, BufferOf, Holds
<1>4. ASSUME Typed(heap, stack, lost), Shaped(stack)
      PROVE  DecodedAsWritten <=> \A n \in DOMAIN stack : Decoded(heap, stack[n])
  <2>1. ASSUME NEW n \in DOMAIN stack
        PROVE  stack[n].pc = "told" => stack[n].kind \in Exported
    <3>1. stack[n] \in Frames
      BY <1>4 DEF Typed
    <3>2. stack[n].kind \in Exported \cup {"proxy"}
      BY <3>1 DEF Frames
    <3> QED BY <1>4, <3>2 DEF Shaped, FrameShape
  <2> QED BY <2>1 DEF DecodedAsWritten, Decoded
<1> QED BY <1>1, <1>2, <1>3, <1>4 DEF IInv, Good

\* The same of the next state.
LEMMA GoodIsIInvNext == IInv' <=> Good(heap', stack', lost') /\ Rest'
<1> DEFINE GoodNow == Good(heap, stack, lost) /\ Rest
<1>1. IInv <=> GoodNow
  BY GoodIsIInv
<1>2. GoodNow' <=> Good(heap', stack', lost') /\ Rest'
  OBVIOUS
<1> HIDE DEF GoodNow
<1>3. IInv' <=> GoodNow'
  BY <1>1, PTL
<1> QED BY <1>2, <1>3
-----------------------------------------------------------------------------
\* The innermost frame, and the stack without it.
LEMMA TopFacts ==
  ASSUME NEW s \in Seq(Frames), s # <<>>
  PROVE  /\ Len(s) \in Nat \ {0}
         /\ DOMAIN s = 1..Len(s)
         /\ Len(s) \in DOMAIN s
         /\ s[Len(s)] \in Frames
         /\ SubSeq(s, 1, Len(s) - 1) \in Seq(Frames)
         /\ Len(SubSeq(s, 1, Len(s) - 1)) = Len(s) - 1
         /\ DOMAIN SubSeq(s, 1, Len(s) - 1) = 1..(Len(s) - 1)
         /\ \A n \in 1..(Len(s) - 1) : SubSeq(s, 1, Len(s) - 1)[n] = s[n]
<1>1. Len(s) \in Nat \ {0}
  OBVIOUS
<1>2. DOMAIN s = 1..Len(s) /\ Len(s) \in DOMAIN s /\ s[Len(s)] \in Frames
  BY <1>1
<1>3. /\ SubSeq(s, 1, Len(s) - 1) \in Seq(Frames)
      /\ Len(SubSeq(s, 1, Len(s) - 1)) = Len(s) - 1
  <2> DEFINE k == Len(s) - 1
  <2>1. k \in Int /\ k >= 0 /\ \A i \in 1..k : s[i] \in Frames
    BY <1>1
  <2> HIDE DEF k
  <2>2. /\ SubSeq(s, 1, k) \in Seq(Frames)
        /\ Len(SubSeq(s, 1, k)) = IF 1 <= k THEN k - 1 + 1 ELSE 0
    BY <2>1, SubSeqProperties
  <2>3. Len(SubSeq(s, 1, k)) = k
    BY <2>1, <2>2
  <2> QED BY <2>2, <2>3 DEF k
<1>4. \A n \in 1..(Len(s) - 1) : SubSeq(s, 1, Len(s) - 1)[n] = s[n]
  BY <1>1
<1> QED BY <1>1, <1>2, <1>3, <1>4

\* The innermost frame is replaced by f, of the same kind.  f and the lost
\* buffers take over what it held, but for what was freed, and what was
\* allocated.
LEMMA UpdateKeeps ==
  ASSUME NEW h, NEW s, NEW l, Good(h, s, l), s # <<>>,
         NEW f \in Frames, NEW h2, NEW l2,
         FrameShape(f), f.kind = s[Len(s)].kind,
         DOMAIN h2 \subseteq Buffers, h2 \in [DOMAIN h2 -> Contents],
         l \subseteq l2, l2 \subseteq Buffers,
         Holds(f) \cap l2 = {}, f.bufs \cap ({f.buf} \ {None}) = {},
         (Holds(f) \cup (l2 \ l)) \cap (DOMAIN h \ Holds(s[Len(s)])) = {},
         DOMAIN h2 = (DOMAIN h \ Holds(s[Len(s)])) \cup Holds(f) \cup (l2 \ l),
         Decoded(h2, f)
  PROVE  Good(h2, [s EXCEPT ![Len(s)] = f], l2)
<1> DEFINE k == Len(s)
           s2 == [s EXCEPT ![k] = f]
<1>t. s \in Seq(Frames) /\ Shaped(s) /\ Exclusive(DOMAIN h, s, l)
  BY DEF Good, Typed
<1>k. k \in Nat \ {0} /\ DOMAIN s = 1..k /\ k \in DOMAIN s
  BY <1>t, TopFacts
<1>s. /\ s2 \in Seq(Frames) /\ Len(s2) = k
      /\ DOMAIN s2 = DOMAIN s
      /\ s2[k] = f
      /\ \A n \in DOMAIN s : n # k => s2[n] = s[n]
  BY <1>t, <1>k
<1> HIDE DEF s2
<1>1. Typed(h2, s2, l2)
  BY <1>s DEF Typed
<1>2. Shaped(s2)
  <2> SUFFICES ASSUME NEW n \in DOMAIN s
               PROVE  /\ FrameShape(s2[n])
                      /\ s2[n].kind = "proxy" => n > 1
                      /\ n < k => s2[n].pc = PcUnder(s2[n + 1].kind)
    BY <1>s DEF Shaped
  <2>1. CASE n = k
    BY <1>t, <1>k, <1>s, <2>1 DEF Shaped
  <2>2. CASE n # k
    <3>1. n \in Nat /\ n + 1 \in DOMAIN s /\ s2[n + 1].kind = s[n + 1].kind
      BY <1>k, <1>s, <2>2
    <3> QED BY <1>t, <1>s, <2>2, <3>1 DEF Shaped
  <2> QED BY <2>1, <2>2
<1>3. Exclusive(DOMAIN h2, s2, l2)
  <2> DEFINE rest == DOMAIN h \ Holds(s[k])
  <2>1. \A n \in DOMAIN s : n # k => Holds(s[n]) \subseteq rest
    BY <1>t, <1>k DEF Exclusive
  <2>2. l \subseteq rest
    BY <1>t, <1>k DEF Exclusive
  <2>3. ASSUME NEW b \in rest
        PROVE  b \in l \/ \E n \in DOMAIN s : n # k /\ b \in Holds(s[n])
    BY <1>t, <1>k DEF Exclusive
  <2>4. (Holds(f) \cup (l2 \ l)) \cap rest = {} /\ DOMAIN h2 = rest \cup Holds(f) \cup (l2 \ l)
    OBVIOUS
  <2> HIDE DEF rest
  <2>5. DOMAIN h2 = l2 \cup UNION {Holds(s2[n]) : n \in DOMAIN s2}
    <3>1. ASSUME NEW b \in DOMAIN h2
          PROVE  b \in l2 \/ \E n \in DOMAIN s2 : b \in Holds(s2[n])
      <4>1. CASE b \in rest
        BY <1>s, <2>3, <4>1
      <4>2. CASE b \in Holds(f)
        BY <1>s, <1>k, <4>2
      <4> QED BY <2>4, <4>1, <4>2
    <3>2. l2 \subseteq DOMAIN h2
      BY <2>2, <2>4
    <3>3. ASSUME NEW n \in DOMAIN s2
          PROVE  Holds(s2[n]) \subseteq DOMAIN h2
      BY <1>s, <2>1, <2>4
    <3> QED BY <3>1, <3>2, <3>3
  <2>6. ASSUME NEW m \in DOMAIN s2, NEW n \in DOMAIN s2, m # n
        PROVE  Holds(s2[m]) \cap Holds(s2[n]) = {}
    BY <1>t, <1>s, <2>1, <2>4, <2>6 DEF Exclusive
  <2>7. ASSUME NEW n \in DOMAIN s2
        PROVE  Holds(s2[n]) \cap l2 = {} /\ s2[n].bufs \cap ({s2[n].buf} \ {None}) = {}
    <3>1. CASE n = k
      BY <1>s, <3>1
    <3>2. CASE n # k
      BY <1>t, <1>s, <2>1, <2>4, <3>2 DEF Exclusive
    <3> QED BY <3>1, <3>2
  <2> QED BY <2>5, <2>6, <2>7 DEF Exclusive
<1>4. ASSUME NEW n \in DOMAIN s2
      PROVE  Decoded(h2, s2[n])
  <2>1. CASE n = k
    BY <1>s, <2>1
  <2>2. CASE n # k
    <3>1. n < k
      BY <1>k, <1>s, <2>2
    <3>2. s2[n].pc \in {"body", "foreign"}
      BY <1>t, <1>s, <2>2, <3>1 DEF Shaped, PcUnder
    <3> QED BY <3>2 DEF Decoded
  <2> QED BY <2>1, <2>2
<1> QED BY <1>1, <1>2, <1>3, <1>4 DEF Good, s2

\* A frame f is pushed, with what was allocated for it.
LEMMA PushKeeps ==
  ASSUME NEW h, NEW s, NEW l, Good(h, s, l),
         NEW f \in Frames, NEW h2,
         FrameShape(f), f.buf = None, f.kind = "proxy" => s # <<>>,
         s # <<>> => s[Len(s)].pc = PcUnder(f.kind),
         DOMAIN h2 \subseteq Buffers, h2 \in [DOMAIN h2 -> Contents],
         f.bufs \cap DOMAIN h = {}, DOMAIN h2 = DOMAIN h \cup f.bufs
  PROVE  Good(h2, Append(s, f), l)
<1> DEFINE k == Len(s)
           s2 == Append(s, f)
<1>t. s \in Seq(Frames) /\ Shaped(s) /\ Exclusive(DOMAIN h, s, l) /\ l \subseteq Buffers
  BY DEF Good, Typed
<1>k. k \in Nat /\ DOMAIN s = 1..k /\ (s # <<>> => k > 0)
  BY <1>t
<1>s. /\ s2 \in Seq(Frames) /\ Len(s2) = k + 1
      /\ DOMAIN s2 = 1..(k + 1)
      /\ s2[k + 1] = f
      /\ \A n \in DOMAIN s : s2[n] = s[n]
  BY <1>t, <1>k
<1>f. Holds(f) = f.bufs
  BY DEF Holds
<1>d. \A n \in DOMAIN s2 : n = k + 1 \/ n \in DOMAIN s
  BY <1>k, <1>s
<1> HIDE DEF s2
<1>1. Typed(h2, s2, l)
  BY <1>t, <1>s DEF Typed
<1>2. Shaped(s2)
  <2> SUFFICES ASSUME NEW n \in DOMAIN s2
               PROVE  /\ FrameShape(s2[n])
                      /\ s2[n].kind = "proxy" => n > 1
                      /\ n < k + 1 => s2[n].pc = PcUnder(s2[n + 1].kind)
    BY <1>s DEF Shaped
  <2>1. CASE n = k + 1
    BY <1>k, <1>s, <2>1
  <2>2. CASE n = k /\ n \in DOMAIN s
    <3>1. s # <<>>
      BY <1>k, <2>2
    <3> QED BY <1>t, <1>s, <2>2, <3>1 DEF Shaped
  <2>3. CASE n # k /\ n \in DOMAIN s
    <3>1. n \in Nat /\ n < k /\ n + 1 \in DOMAIN s
      BY <1>k, <2>3
    <3> QED BY <1>t, <1>s, <2>3, <3>1 DEF Shaped
  <2> QED BY <1>d, <2>1, <2>2, <2>3
<1>3. Exclusive(DOMAIN h2, s2, l)
  <2>1. \A n \in DOMAIN s : Holds(s[n]) \subseteq DOMAIN h
    BY <1>t DEF Exclusive
  <2>2. l \subseteq DOMAIN h
    BY <1>t DEF Exclusive
  <2>3. k + 1 \in DOMAIN s2 /\ \A n \in DOMAIN s : n \in DOMAIN s2 /\ n # k + 1
    BY <1>k, <1>s
  <2>5. DOMAIN h2 = l \cup UNION {Holds(s2[n]) : n \in DOMAIN s2}
    <3>1. ASSUME NEW b \in DOMAIN h2
          PROVE  b \in l \/ \E n \in DOMAIN s2 : b \in Holds(s2[n])
      <4>1. CASE b \in DOMAIN h
        <5>1. b \in l \/ \E n \in DOMAIN s : b \in Holds(s[n])
          BY <1>t, <4>1 DEF Exclusive
        <5> QED BY <1>s, <2>3, <5>1
      <4>2. CASE b \in f.bufs
        BY <1>s, <1>f, <2>3, <4>2
      <4> QED BY <4>1, <4>2
    <3>2. ASSUME NEW n \in DOMAIN s2
          PROVE  Holds(s2[n]) \subseteq DOMAIN h2
      BY <1>s, <1>f, <1>d, <2>1
    <3> QED BY <2>2, <3>1, <3>2
  <2>6. ASSUME NEW m \in DOMAIN s2, NEW n \in DOMAIN s2, m # n
        PROVE  Holds(s2[m]) \cap Holds(s2[n]) = {}
    <3>1. CASE m = k + 1
      BY <1>s, <1>f, <1>d, <2>1, <2>6, <3>1
    <3>2. CASE n = k + 1
      BY <1>s, <1>f, <1>d, <2>1, <2>6, <3>2
    <3>3. CASE m \in DOMAIN s /\ n \in DOMAIN s
      BY <1>t, <1>s, <2>6, <3>3 DEF Exclusive
    <3> QED BY <1>d, <3>1, <3>2, <3>3
  <2>7. ASSUME NEW n \in DOMAIN s2
        PROVE  Holds(s2[n]) \cap l = {} /\ s2[n].bufs \cap ({s2[n].buf} \ {None}) = {}
    <3>1. CASE n = k + 1
      BY <1>s, <1>f, <2>2, <3>1
    <3>2. CASE n \in DOMAIN s
      BY <1>t, <1>s, <3>2 DEF Exclusive
    <3> QED BY <1>d, <3>1, <3>2
  <2> QED BY <2>5, <2>6, <2>7 DEF Exclusive
<1>4. ASSUME NEW n \in DOMAIN s2
      PROVE  Decoded(h2, s2[n])
  <2>1. CASE n = k + 1
    BY <1>s, <2>1 DEF Decoded
  <2>2. CASE n \in DOMAIN s
    <3>1. n < k + 1
      BY <1>k, <2>2
    <3>2. s2[n].pc \in {"body", "foreign"}
      BY <1>2, <1>s, <3>1 DEF Shaped, PcUnder
    <3> QED BY <3>2 DEF Decoded
  <2> QED BY <1>d, <2>1, <2>2
<1> QED BY <1>1, <1>2, <1>3, <1>4 DEF Good, s2

\* The innermost frame is popped: what it held is freed or lost.
LEMMA PopKeeps ==
  ASSUME NEW h, NEW s, NEW l, Good(h, s, l), s # <<>>,
         NEW h2, NEW l2,
         DOMAIN h2 \subseteq Buffers, h2 \in [DOMAIN h2 -> Contents],
         l \subseteq l2, l2 \subseteq Buffers,
         (l2 \ l) \cap (DOMAIN h \ Holds(s[Len(s)])) = {},
         DOMAIN h2 = (DOMAIN h \ Holds(s[Len(s)])) \cup (l2 \ l)
  PROVE  Good(h2, SubSeq(s, 1, Len(s) - 1), l2)
<1> DEFINE k == Len(s)
           s2 == SubSeq(s, 1, k - 1)
<1>t. s \in Seq(Frames) /\ Shaped(s) /\ Exclusive(DOMAIN h, s, l)
  BY DEF Good, Typed
<1>k. k \in Nat \ {0} /\ DOMAIN s = 1..k /\ k \in DOMAIN s
  BY <1>t, TopFacts
<1>s. /\ s2 \in Seq(Frames) /\ Len(s2) = k - 1
      /\ DOMAIN s2 = 1..(k - 1)
      /\ \A n \in 1..(k - 1) : s2[n] = s[n]
  BY <1>t, TopFacts
<1>d. \A n : n \in DOMAIN s2 <=> n \in DOMAIN s /\ n # k
  BY <1>k, <1>s
<1> HIDE DEF s2
<1>e. \A n \in DOMAIN s2 : s2[n] = s[n]
  BY <1>s
<1>1. Typed(h2, s2, l2)
  BY <1>s DEF Typed
<1>2. Shaped(s2)
  <2> SUFFICES ASSUME NEW n \in DOMAIN s2
               PROVE  /\ FrameShape(s2[n])
                      /\ s2[n].kind = "proxy" => n > 1
                      /\ n < k - 1 => s2[n].pc = PcUnder(s2[n + 1].kind)
    BY <1>s DEF Shaped
  <2>1. n < k /\ (n < k - 1 => n + 1 \in DOMAIN s2)
    BY <1>k, <1>s
  <2> QED BY <1>t, <1>d, <1>e, <2>1 DEF Shaped
<1>3. Exclusive(DOMAIN h2, s2, l2)
  <2> DEFINE rest == DOMAIN h \ Holds(s[k])
  <2>1. \A n \in DOMAIN s2 : Holds(s[n]) \subseteq rest
    BY <1>t, <1>k, <1>d DEF Exclusive
  <2>2. l \subseteq rest
    BY <1>t, <1>k DEF Exclusive
  <2>3. ASSUME NEW b \in rest
        PROVE  b \in l \/ \E n \in DOMAIN s2 : b \in Holds(s[n])
    BY <1>t, <1>k, <1>d DEF Exclusive
  <2>4. (l2 \ l) \cap rest = {} /\ DOMAIN h2 = rest \cup (l2 \ l)
    OBVIOUS
  <2> HIDE DEF rest
  <2>5. DOMAIN h2 = l2 \cup UNION {Holds(s2[n]) : n \in DOMAIN s2}
    <3>1. ASSUME NEW b \in DOMAIN h2
          PROVE  b \in l2 \/ \E n \in DOMAIN s2 : b \in Holds(s2[n])
      BY <1>e, <2>3, <2>4
    <3>2. l2 \subseteq DOMAIN h2
      BY <2>2, <2>4
    <3>3. ASSUME NEW n \in DOMAIN s2
          PROVE  Holds(s2[n]) \subseteq DOMAIN h2
      BY <1>e, <2>1, <2>4
    <3> QED BY <3>1, <3>2, <3>3
  <2>6. ASSUME NEW m \in DOMAIN s2, NEW n \in DOMAIN s2, m # n
        PROVE  Holds(s2[m]) \cap Holds(s2[n]) = {}
    BY <1>t, <1>d, <1>e, <2>6 DEF Exclusive
  <2>7. ASSUME NEW n \in DOMAIN s2
        PROVE  Holds(s2[n]) \cap l2 = {} /\ s2[n].bufs \cap ({s2[n].buf} \ {None}) = {}
    BY <1>t, <1>d, <1>e, <2>1, <2>4 DEF Exclusive
  <2> QED BY <2>5, <2>6, <2>7 DEF Exclusive
<1>4. ASSUME NEW n \in DOMAIN s2
      PROVE  Decoded(h2, s2[n])
  <2>1. n \in DOMAIN s /\ n < k
    BY <1>k, <1>s
  <2>2. s2[n].pc \in {"body", "foreign"}
    BY <1>t, <1>e, <2>1 DEF Shaped, PcUnder
  <2> QED BY <2>2 DEF Decoded
<1> QED BY <1>1, <1>2, <1>3, <1>4 DEF Good, s2
-----------------------------------------------------------------------------
\* What the invariant says of the innermost frame.
LEMMA TopIs ==
  ASSUME Good(heap, stack, lost), stack # <<>>
  PROVE  /\ Top \in Frames /\ Top = stack[Len(stack)]
         /\ FrameShape(Top)
         /\ Top.kind = "proxy" => Below # <<>>
         /\ Holds(Top) \subseteq DOMAIN heap
         /\ Holds(Top) \cap lost = {} /\ Top.bufs \cap ({Top.buf} \ {None}) = {}
         /\ lost \subseteq DOMAIN heap /\ lost \subseteq Buffers
         /\ DOMAIN heap \subseteq Buffers /\ heap \in [DOMAIN heap -> Contents]
<1>1. /\ stack \in Seq(Frames) /\ Shaped(stack) /\ Exclusive(DOMAIN heap, stack, lost)
      /\ lost \subseteq Buffers
      /\ DOMAIN heap \subseteq Buffers /\ heap \in [DOMAIN heap -> Contents]
  BY DEF Good, Typed
<1>2. /\ Len(stack) \in Nat \ {0} /\ Len(stack) \in DOMAIN stack
      /\ Top \in Frames /\ Top = stack[Len(stack)]
      /\ Len(Below) = Len(stack) - 1
  BY <1>1, TopFacts DEF Top, Below
<1>3. FrameShape(Top) /\ (Top.kind = "proxy" => Len(stack) > 1)
  BY <1>1, <1>2 DEF Shaped
<1>4. Below = <<>> => Len(Below) = 0
  OBVIOUS
<1>5. /\ Holds(Top) \subseteq DOMAIN heap
      /\ Holds(Top) \cap lost = {} /\ Top.bufs \cap ({Top.buf} \ {None}) = {}
      /\ lost \subseteq DOMAIN heap
  BY <1>1, <1>2 DEF Exclusive
<1> QED BY <1>1, <1>2, <1>3, <1>4, <1>5

\* What it says of the frame below it.
LEMMA UnderTop ==
  ASSUME Good(heap, stack, lost), stack # <<>>
  PROVE  /\ Below \in Seq(Frames) /\ Len(Below) = Len(stack) - 1
         /\ Below # <<>> => /\ Below[Len(Below)] = stack[Len(Below)]
                            /\ Below[Len(Below)].pc = PcUnder(Top.kind)
<1>1. stack \in Seq(Frames) /\ Shaped(stack)
  BY DEF Good, Typed
<1>2. /\ Len(stack) \in Nat \ {0} /\ DOMAIN stack = 1..Len(stack)
      /\ Below \in Seq(Frames) /\ Len(Below) = Len(stack) - 1
      /\ \A n \in 1..(Len(stack) - 1) : Below[n] = stack[n]
  BY <1>1, TopFacts DEF Below
<1>3. ASSUME Below # <<>>
      PROVE  /\ Below[Len(Below)] = stack[Len(Below)]
             /\ Below[Len(Below)].pc = PcUnder(Top.kind)
  <2>1. Len(Below) # 0
    BY <1>2, <1>3
  <2>2. /\ Len(stack) - 1 \in DOMAIN stack /\ Len(stack) - 1 < Len(stack)
        /\ Len(stack) - 1 + 1 = Len(stack)
        /\ Below[Len(stack) - 1] = stack[Len(stack) - 1]
    BY <1>2, <2>1
  <2>3. stack[Len(stack) - 1].pc = PcUnder(stack[Len(stack) - 1 + 1].kind)
    BY <1>1, <2>2 DEF Shaped
  <2> QED BY <1>2, <2>2, <2>3 DEF Top
<1> QED BY <1>2, <1>3

\* A buffer is allocated, or some are freed.
LEMMA AllocateType ==
  ASSUME Good(heap, stack, lost), NEW b \in Fresh, NEW c \in Contents, Allocate(b, c)
  PROVE  /\ DOMAIN heap' = DOMAIN heap \cup {b} /\ b \notin DOMAIN heap
         /\ DOMAIN heap' \subseteq Buffers /\ heap' \in [DOMAIN heap' -> Contents]
         /\ heap'[b] = c /\ b # None
BY ScaffoldCallAssumption DEF Good, Typed, Fresh, Allocate

\* Freeing leaves the other buffers as they are.
LEMMA FreeType ==
  ASSUME NEW h, NEW bs, DOMAIN h \subseteq Buffers, h \in [DOMAIN h -> Contents],
         NEW h2, h2 = [x \in DOMAIN h \ bs |-> h[x]]
  PROVE  /\ DOMAIN h2 = DOMAIN h \ bs
         /\ DOMAIN h2 \subseteq Buffers /\ h2 \in [DOMAIN h2 -> Contents]
OBVIOUS

\* The innermost frame moves on, and the buffers stay with it.
LEMMA MoveKeeps ==
  ASSUME NEW h, NEW s, NEW l, Good(h, s, l), s # <<>>,
         NEW f \in Frames, FrameShape(f), Decoded(h, f), f.kind = s[Len(s)].kind,
         f.bufs = s[Len(s)].bufs, f.buf = s[Len(s)].buf
  PROVE  Good(h, [s EXCEPT ![Len(s)] = f], l)
<1> DEFINE u == s[Len(s)]
<1>1. /\ Holds(f) = Holds(u)
      /\ f.bufs \cap ({f.buf} \ {None}) = u.bufs \cap ({u.buf} \ {None})
  BY DEF Holds
<1>2. /\ Holds(u) \subseteq DOMAIN h /\ Holds(u) \cap l = {}
      /\ u.bufs \cap ({u.buf} \ {None}) = {}
      /\ l \subseteq Buffers
      /\ DOMAIN h \subseteq Buffers /\ h \in [DOMAIN h -> Contents]
  <2>1. Len(s) \in DOMAIN s
    BY TopFacts DEF Good, Typed
  <2> QED BY <2>1 DEF Good, Typed, Exclusive
<1> HIDE DEF u
<1>3. /\ Holds(f) \cap l = {} /\ f.bufs \cap ({f.buf} \ {None}) = {}
      /\ l \subseteq l
      /\ (Holds(f) \cup (l \ l)) \cap (DOMAIN h \ Holds(u)) = {}
      /\ DOMAIN h = (DOMAIN h \ Holds(u)) \cup Holds(f) \cup (l \ l)
  BY <1>1, <1>2
<1> QED BY <1>2, <1>3, UpdateKeeps DEF u
\* A frame of a stack in place of the innermost one.
LEMMA NestedExcept ==
  ASSUME NEW s \in Seq(Frames), s # <<>>, NEW x
  PROVE  /\ [s EXCEPT ![Len(s)].pc = "catch", ![Len(s)].bufs = {}, ![Len(s)].exc = x]
              = [s EXCEPT ![Len(s)] = [s[Len(s)] EXCEPT !.pc = "catch", !.bufs = {}, !.exc = x]]
         /\ [s EXCEPT ![Len(s)].bufs = {}] = [s EXCEPT ![Len(s)] = [s[Len(s)] EXCEPT !.bufs = {}]]
<1> DEFINE k == Len(s)
<1>1. k \in DOMAIN s
  BY TopFacts
<1> HIDE DEF k
<1>2. [s EXCEPT ![k].pc = "catch", ![k].bufs = {}, ![k].exc = x]
        = [s EXCEPT ![k] = [s[k] EXCEPT !.pc = "catch", !.bufs = {}, !.exc = x]]
  BY <1>1
<1>3. [s EXCEPT ![k].bufs = {}] = [s EXCEPT ![k] = [s[k] EXCEPT !.bufs = {}]]
  BY <1>1
<1> QED BY <1>2, <1>3 DEF k

\* An exception is thrown in an exported function that holds nothing.
LEMMA ThrowInKeeps ==
  ASSUME NEW h, NEW s, NEW l, Good(h, s, l), s # <<>>,
         s[Len(s)].kind \in Exported, s[Len(s)].bufs = {}, s[Len(s)].buf = None,
         NEW x \in {"error", "std", "other"}, ThrowIn(s, x)
  PROVE  Good(h, stack', l)
<1> DEFINE u == s[Len(s)]
           f == [u EXCEPT !.pc = "catch", !.bufs = {}, !.exc = x]
<1>1. CASE u.kind = "ctor"
  BY <1>1 DEF ThrowIn
<1>2. CASE u.kind # "ctor"
  <2>1. s \in Seq(Frames) /\ u \in Frames
    BY TopFacts DEF Good, Typed
  <2>2. stack' = [s EXCEPT ![Len(s)] = f]
    BY <1>2, <2>1, NestedExcept DEF ThrowIn
  <2>3. /\ f \in Frames /\ f.kind = u.kind /\ f.pc = "catch"
        /\ f.bufs = u.bufs /\ f.buf = u.buf
    BY <2>1 DEF Frames
  <2> HIDE DEF f
  <2>4. FrameShape(f) /\ Decoded(h, f)
    BY <2>3 DEF FrameShape, Decoded, Exported
  <2> QED BY <2>2, <2>3, <2>4, MoveKeeps
<1> QED BY <1>1, <1>2

\* A proxy's method has been popped and an exception leaves it.
LEMMA UnwindKeeps ==
  ASSUME Good(heap, stack, lost), stack # <<>>, Top.kind = "proxy",
         Good(heap', Below, lost'), NEW x \in {"error", "std"}, Unwind(x)
  PROVE  Good(heap', stack', lost')
<1> DEFINE u == Below[Len(Below)]
<1>1. CASE stack' = Below
  BY <1>1
<1>2. CASE ThrowIn(Below, x)
  <2>1. Below # <<>> /\ Below \in Seq(Frames) /\ u.pc = "body"
    BY TopIs, UnderTop DEF PcUnder
  <2>2. u \in Frames /\ FrameShape(u)
    BY <2>1, TopFacts DEF Good, Shaped
  <2>3. u.kind \in Exported /\ u.bufs = {} /\ u.buf = None
    BY <2>1, <2>2 DEF FrameShape, Frames
  <2> QED BY <1>2, <2>1, <2>3, ThrowInKeeps
<1> QED BY <1>1, <1>2 DEF Unwind

\* The innermost frame is popped and all it held is freed.
LEMMA PopFreed ==
  ASSUME Good(heap, stack, lost), stack # <<>>, Free(Holds(Top)), UNCHANGED lost
  PROVE  Good(heap', Below, lost')
<1>1. heap' = [x \in DOMAIN heap \ Holds(Top) |-> heap[x]]
  BY DEF Free
<1>2. /\ DOMAIN heap' = DOMAIN heap \ Holds(Top)
      /\ DOMAIN heap' \subseteq Buffers /\ heap' \in [DOMAIN heap' -> Contents]
  BY <1>1, TopIs, FreeType
<1>3. /\ lost \subseteq lost' /\ lost' \subseteq Buffers
      /\ (lost' \ lost) \cap (DOMAIN heap \ Holds(Top)) = {}
      /\ DOMAIN heap' = (DOMAIN heap \ Holds(Top)) \cup (lost' \ lost)
  BY <1>2, TopIs
<1> QED BY <1>2, <1>3, PopKeeps DEF Below, Top

\* A function that holds nothing allocates a buffer and loses it.
LEMMA LostAnew ==
  ASSUME Good(heap, stack, lost), stack # <<>>, Top.pc \in {"body", "catch"},
         NEW b \in Fresh, NEW c \in Contents, Allocate(b, c), lost' = lost \cup {b}
  PROVE  Good(heap', stack, lost')
<1>1. /\ DOMAIN heap' = DOMAIN heap \cup {b} /\ b \notin DOMAIN heap /\ b \in Buffers
      /\ DOMAIN heap' \subseteq Buffers /\ heap' \in [DOMAIN heap' -> Contents]
  BY AllocateType DEF Fresh
<1>2. Top \in Frames /\ FrameShape(Top) /\ Holds(Top) = {} /\ Top.bufs = {} /\ Top.buf = None
  BY TopIs DEF FrameShape, Holds
<1>3. Decoded(heap', Top)
  BY <1>2 DEF Decoded
<1>4. stack = [stack EXCEPT ![Len(stack)] = Top]
  BY TopFacts DEF Good, Typed, Top
<1>5. /\ Holds(Top) \cap lost' = {} /\ Top.bufs \cap ({Top.buf} \ {None}) = {}
      /\ lost \subseteq lost' /\ lost' \subseteq Buffers
      /\ (Holds(Top) \cup (lost' \ lost)) \cap (DOMAIN heap \ Holds(Top)) = {}
      /\ DOMAIN heap' = (DOMAIN heap \ Holds(Top)) \cup Holds(Top) \cup (lost' \ lost)
  BY <1>1, <1>2, TopIs
<1> QED BY <1>1, <1>2, <1>3, <1>4, <1>5, UpdateKeeps DEF Top
-----------------------------------------------------------------------------
\* The actions.  The foreign side calls an exported function.
LEMMA CallKeeps ==
  ASSUME Good(heap, stack, lost), NEW kind \in Exported, NEW throws \in BOOLEAN,
         NEW bs \in SUBSET Fresh, NEW customs \in SUBSET bs, Call(kind, throws, bs, customs)
  PROVE  Good(heap', stack', lost')
<1> DEFINE f == [kind |-> kind, pc |-> "lift", throws |-> throws, bufs |-> bs,
                 code |-> 0, buf |-> None, exc |-> None]
<1>1. /\ f \in Frames /\ f.kind # "proxy" /\ f.bufs = bs /\ f.buf = None /\ FrameShape(f)
  BY DEF Frames, Codes, FrameShape, Exported, Fresh
<1>2. /\ stack # <<>> => stack[Len(stack)].pc = PcUnder(f.kind)
      /\ stack' = Append(stack, f) /\ UNCHANGED lost
  BY <1>1 DEF Call, InForeign, At, Top, PcUnder, Push
<1>3. heap' = [b \in DOMAIN heap \cup bs |->
                 IF b \notin bs THEN heap[b] ELSE IF b \in customs THEN "custom" ELSE "value"]
  BY DEF Call
<1> HIDE DEF f
<1>4. DOMAIN heap \subseteq Buffers /\ heap \in [DOMAIN heap -> Contents]
  BY DEF Good, Typed
<1>5. /\ DOMAIN heap' = DOMAIN heap \cup bs /\ DOMAIN heap' \subseteq Buffers
      /\ heap' \in [DOMAIN heap' -> Contents]
      /\ bs \cap DOMAIN heap = {}
  BY <1>3, <1>4 DEF Contents, Fresh
<1> QED BY <1>1, <1>2, <1>5, PushKeeps

\* The library calls a proxy's method.
LEMMA CallProxyKeeps ==
  ASSUME Good(heap, stack, lost), NEW throws \in BOOLEAN, NEW b \in Buffers, CallProxy(throws, b)
  PROVE  Good(heap', stack', lost')
<1> DEFINE f == [kind |-> "proxy", pc |-> "write", throws |-> throws, bufs |-> {b},
                 code |-> 0, buf |-> None, exc |-> None]
<1>1. f \in Frames /\ f.kind = "proxy" /\ f.bufs = {b} /\ f.buf = None /\ FrameShape(f)
  BY DEF Frames, Codes, FrameShape, Exported
<1>2. /\ stack # <<>> /\ stack[Len(stack)].pc = PcUnder(f.kind)
      /\ stack' = Append(stack, f) /\ UNCHANGED lost
      /\ b \in Fresh /\ Allocate(b, "value") /\ "value" \in Contents
  BY DEF CallProxy, At, Top, PcUnder, Push, Contents
<1> HIDE DEF f
<1>3. /\ DOMAIN heap' = DOMAIN heap \cup {b} /\ b \notin DOMAIN heap
      /\ DOMAIN heap' \subseteq Buffers /\ heap' \in [DOMAIN heap' -> Contents]
  BY <1>2, AllocateType
<1>4. f.bufs \cap DOMAIN heap = {} /\ DOMAIN heap' = DOMAIN heap \cup f.bufs
  BY <1>1, <1>3
<1> QED BY <1>1, <1>2, <1>3, <1>4, PushKeeps

\* The foreign side reads and frees the answer of its call.
LEMMA HearKeeps ==
  ASSUME Good(heap, stack, lost), Hear
  PROVE  Good(heap', stack', lost')
<1>1. stack # <<>> /\ Top.pc = "told" /\ stack' = Below /\ UNCHANGED lost /\ Free(BufferOf(Top))
  BY DEF Hear, At
<1>2. Holds(Top) = BufferOf(Top)
  BY <1>1, TopIs DEF FrameShape, Holds, BufferOf
<1> QED BY <1>1, <1>2, PopFreed

\* A status is told: what it carries has been allocated.
LEMMA TellKeeps ==
  ASSUME Good(heap, stack, lost), stack # <<>>, Top.kind \in Exported,
         Top.pc \in {"body", "catch"}, UNCHANGED lost,
         NEW code \in Codes, NEW b \in Buffers \cup {None}, Tell(code, b),
         DOMAIN heap' \subseteq Buffers, heap' \in [DOMAIN heap' -> Contents],
         b \notin DOMAIN heap, DOMAIN heap' = DOMAIN heap \cup ({b} \ {None}),
         b # None => <<code, heap'[b]>> \in Answers
  PROVE  Good(heap', stack', lost')
<1> DEFINE f == [Top EXCEPT !.pc = "told", !.code = code, !.buf = b]
<1>1. stack' = [stack EXCEPT ![Len(stack)] = f]
  BY DEF Tell, Update
<1>2. /\ f \in Frames /\ f.kind = Top.kind /\ f.pc = "told"
      /\ f.bufs = Top.bufs /\ f.buf = b /\ f.code = code
  BY TopIs DEF Frames
<1> HIDE DEF f
<1>3. Top.bufs = {} /\ Holds(Top) = {}
  BY TopIs DEF FrameShape, Holds
<1>4. FrameShape(f) /\ Holds(f) = {b} \ {None} /\ Decoded(heap', f)
  BY <1>2, <1>3 DEF FrameShape, Holds, Decoded, Exported
<1>5. lost \subseteq DOMAIN heap /\ lost \subseteq Buffers
  BY TopIs
<1>6. /\ Holds(f) \cap lost' = {} /\ f.bufs \cap ({f.buf} \ {None}) = {}
      /\ lost \subseteq lost' /\ lost' \subseteq Buffers
      /\ (Holds(f) \cup (lost' \ lost)) \cap (DOMAIN heap \ Holds(Top)) = {}
      /\ DOMAIN heap' = (DOMAIN heap \ Holds(Top)) \cup Holds(f) \cup (lost' \ lost)
  BY <1>2, <1>3, <1>4, <1>5
<1> QED BY <1>1, <1>2, <1>4, <1>6, UpdateKeeps DEF Top

\* A buffer, or none, is allocated for an answer.
LEMMA AnswerType ==
  ASSUME Good(heap, stack, lost), NEW b \in Buffers \cup {None}, NEW c \in Contents,
         IF b = None THEN UNCHANGED heap ELSE b \in Fresh /\ Allocate(b, c)
  PROVE  /\ DOMAIN heap' \subseteq Buffers /\ heap' \in [DOMAIN heap' -> Contents]
         /\ b \notin DOMAIN heap /\ DOMAIN heap' = DOMAIN heap \cup ({b} \ {None})
         /\ b # None => heap'[b] = c
<1>0. DOMAIN heap \subseteq Buffers /\ heap \in [DOMAIN heap -> Contents]
  BY DEF Good, Typed
<1>1. CASE b = None
  <2>1. heap' = heap /\ None \notin DOMAIN heap
    BY <1>0, <1>1, ScaffoldCallAssumption
  <2> QED BY <1>0, <1>1, <2>1
<1>2. CASE b # None
  <2>1. b \in Fresh /\ Allocate(b, c)
    BY <1>2
  <2>2. /\ DOMAIN heap' = DOMAIN heap \cup {b} /\ b \notin DOMAIN heap
        /\ DOMAIN heap' \subseteq Buffers /\ heap' \in [DOMAIN heap' -> Contents]
        /\ heap'[b] = c
    BY <2>1, AllocateType
  <2> QED BY <1>2, <2>2
<1> QED BY <1>1, <1>2

\* The function returns, or a catch clause reports.
LEMMA ReportKeeps ==
  ASSUME Good(heap, stack, lost), NEW b \in Buffers \cup {None},
         Return(b) \/ (b # None /\ (CatchError(b) \/ CatchStd(b))) \/ CatchOther
  PROVE  Good(heap', stack', lost')
<1>1. /\ stack # <<>> /\ Top.kind \in Exported /\ Top.pc \in {"body", "catch"}
      /\ UNCHANGED lost
  BY DEF Return, CatchError, CatchStd, CatchOther, At, Exported
<1>2. ASSUME NEW code \in Codes, NEW c \in Contents, <<code, c>> \in Answers,
             NEW d \in Buffers \cup {None}, Tell(code, d),
             IF d = None THEN UNCHANGED heap ELSE d \in Fresh /\ Allocate(d, c)
      PROVE  Good(heap', stack', lost')
  <2>1. /\ DOMAIN heap' \subseteq Buffers /\ heap' \in [DOMAIN heap' -> Contents]
        /\ d \notin DOMAIN heap /\ DOMAIN heap' = DOMAIN heap \cup ({d} \ {None})
        /\ d # None => heap'[d] = c
    BY <1>2, AnswerType
  <2>2. d # None => <<code, heap'[d]>> \in Answers
    BY <1>2, <2>1
  <2> QED BY <1>1, <1>2, <2>1, <2>2, TellKeeps
<1>3. CASE Return(b)
  <2>1. /\ Tell(0, b) /\ 0 \in Codes /\ <<0, "value">> \in Answers /\ "value" \in Contents
        /\ IF b = None THEN UNCHANGED heap ELSE b \in Fresh /\ Allocate(b, "value")
    BY <1>3 DEF Return, Codes, Answers, Contents
  <2> QED BY <1>2, <2>1
<1>4. CASE b # None /\ CatchError(b)
  <2>1. /\ Tell(1, b) /\ 1 \in Codes /\ <<1, "error">> \in Answers /\ "error" \in Contents
        /\ IF b = None THEN UNCHANGED heap ELSE b \in Fresh /\ Allocate(b, "error")
    BY <1>4 DEF CatchError, Codes, Answers, Contents
  <2> QED BY <1>2, <2>1
<1>5. CASE b # None /\ CatchStd(b)
  <2>1. /\ Tell(2, b) /\ 2 \in Codes /\ <<2, "message">> \in Answers /\ "message" \in Contents
        /\ IF b = None THEN UNCHANGED heap ELSE b \in Fresh /\ Allocate(b, "message")
    BY <1>5 DEF CatchStd, Codes, Answers, Contents
  <2> QED BY <1>2, <2>1
<1>6. CASE CatchOther
  <2>1. /\ Tell(2, None) /\ 2 \in Codes /\ <<2, "message">> \in Answers /\ "message" \in Contents
        /\ None \in Buffers \cup {None} /\ UNCHANGED heap
    BY <1>6 DEF CatchOther, Codes, Answers, Contents
  <2> QED BY <1>2, <2>1
<1> QED BY <1>3, <1>4, <1>5, <1>6

\* A callback answers; its arguments' buffer is still the proxy's.
LEMMA CallbackAnswerKeeps ==
  ASSUME Good(heap, stack, lost), NEW a \in Answers \cup {<<3, "value">>},
         NEW b \in Buffers \cup {None}, CallbackAnswer(a, b)
  PROVE  Good(heap', stack', lost')
<1> DEFINE f == [Top EXCEPT !.pc = "answer", !.code = a[1], !.buf = b]
<1>1. /\ stack # <<>> /\ Top.kind = "proxy" /\ Top.pc = "foreign" /\ UNCHANGED lost
      /\ stack' = [stack EXCEPT ![Len(stack)] = f]
      /\ IF b = None THEN UNCHANGED heap ELSE b \in Fresh /\ Allocate(b, a[2])
  BY DEF CallbackAnswer, At, Update
<1>2. a[1] \in Codes /\ a[2] \in Contents
  BY DEF Answers, Codes, Contents
<1>3. /\ DOMAIN heap' \subseteq Buffers /\ heap' \in [DOMAIN heap' -> Contents]
      /\ b \notin DOMAIN heap /\ DOMAIN heap' = DOMAIN heap \cup ({b} \ {None})
  BY <1>1, <1>2, AnswerType
<1>4. /\ f \in Frames /\ f.kind = "proxy" /\ f.pc = "answer"
      /\ f.bufs = Top.bufs /\ f.buf = b
  BY <1>1, <1>2, TopIs DEF Frames
<1> HIDE DEF f
<1>5. FrameShape(f) /\ Holds(f) = Top.bufs \cup ({b} \ {None}) /\ Decoded(heap', f)
  BY <1>4 DEF FrameShape, Holds, Decoded, Exported
<1>6. Top.buf = None /\ Holds(Top) = Top.bufs
  BY <1>1, TopIs DEF FrameShape, Holds
<1>7. /\ Holds(f) \cap lost' = {} /\ f.bufs \cap ({f.buf} \ {None}) = {}
      /\ lost \subseteq lost' /\ lost' \subseteq Buffers
      /\ (Holds(f) \cup (lost' \ lost)) \cap (DOMAIN heap \ Holds(Top)) = {}
      /\ DOMAIN heap' = (DOMAIN heap \ Holds(Top)) \cup Holds(f) \cup (lost' \ lost)
  BY <1>1, <1>3, <1>4, <1>5, <1>6, TopIs
<1> QED BY <1>1, <1>3, <1>4, <1>5, <1>7, UpdateKeeps DEF Top

\* An argument is lifted: freed, or lost if it is custom.
LEMMA LiftArgKeeps ==
  ASSUME Good(heap, stack, lost), NEW b \in Buffers, LiftArg(b)
  PROVE  Good(heap', stack', lost')
<1> DEFINE f == [Top EXCEPT !.bufs = @ \ {b}]
<1>1. /\ stack # <<>> /\ Top.kind \in Exported /\ Top.pc = "lift" /\ b \in Top.bufs
      /\ stack' = [stack EXCEPT ![Len(stack)] = f]
  BY DEF LiftArg, At, Update
<1>2. \/ lost' = lost \cup {b} /\ heap' = heap
      \/ heap' = [x \in DOMAIN heap \ {b} |-> heap[x]] /\ lost' = lost
  BY DEF LiftArg, Free
<1>3. /\ f \in Frames /\ f.kind = Top.kind /\ f.pc = "lift"
      /\ f.bufs = Top.bufs \ {b} /\ f.buf = Top.buf
  <2>1. Top \in Frames
    BY <1>1, TopIs
  <2>2. Top.bufs \ {b} \in SUBSET Buffers
    BY <2>1 DEF Frames
  <2> QED BY <1>1, <2>1, <2>2 DEF Frames
<1> HIDE DEF f
<1>4. Top.buf = None
  BY <1>1, TopIs DEF FrameShape
<1>5. /\ FrameShape(f) /\ Holds(f) = Holds(Top) \ {b} /\ b \in Holds(Top)
      /\ f.buf = None /\ Decoded(heap', f)
  BY <1>1, <1>3, <1>4 DEF FrameShape, Holds, Decoded, Exported
<1>6. /\ DOMAIN heap' \subseteq Buffers /\ heap' \in [DOMAIN heap' -> Contents]
      /\ DOMAIN heap' = (DOMAIN heap \ {b}) \cup (lost' \ lost)
  <2>1. b \in DOMAIN heap /\ b \notin lost
    BY <1>1, <1>5, TopIs
  <2>2. CASE lost' = lost \cup {b} /\ heap' = heap
    BY <1>1, <2>1, <2>2, TopIs
  <2>3. CASE heap' = [x \in DOMAIN heap \ {b} |-> heap[x]] /\ lost' = lost
    BY <1>1, <2>3, TopIs, FreeType
  <2> QED BY <1>2, <2>2, <2>3
<1>7. /\ Holds(f) \cap lost' = {} /\ f.bufs \cap ({f.buf} \ {None}) = {}
      /\ lost \subseteq lost' /\ lost' \subseteq Buffers
      /\ (Holds(f) \cup (lost' \ lost)) \cap (DOMAIN heap \ Holds(Top)) = {}
      /\ DOMAIN heap' = (DOMAIN heap \ Holds(Top)) \cup Holds(f) \cup (lost' \ lost)
  <2>1. lost' = lost \cup {b} \/ lost' = lost
    BY <1>2
  <2> QED BY <1>1, <1>5, <1>6, <2>1, TopIs
<1> QED BY <1>1, <1>3, <1>5, <1>6, <1>7, UpdateKeeps DEF Top

\* Lifting one argument throws: those not lifted yet are lost.
LEMMA LiftArgFailsKeeps ==
  ASSUME Good(heap, stack, lost), LiftArgFails
  PROVE  Good(heap', stack', lost')
<1> DEFINE f == [Top EXCEPT !.bufs = {}]
           s == [stack EXCEPT ![Len(stack)] = f]
<1>1. /\ stack # <<>> /\ Top.kind \in Exported /\ Top.pc = "lift"
      /\ lost' = lost \cup Top.bufs /\ heap' = heap
      /\ ThrowIn([stack EXCEPT ![Len(stack)].bufs = {}], "std")
  BY DEF LiftArgFails, At
<1>2. stack \in Seq(Frames) /\ Len(stack) \in DOMAIN stack
  BY <1>1, TopFacts DEF Good, Typed
<1>3. /\ f \in Frames /\ f.kind = Top.kind /\ f.pc = "lift"
      /\ f.bufs = {} /\ f.buf = Top.buf
  BY <1>1, TopIs DEF Frames
<1> HIDE DEF f
<1>4. Top.buf = None /\ Holds(Top) = Top.bufs
  BY <1>1, TopIs DEF FrameShape, Holds
<1>5. FrameShape(f) /\ Holds(f) = {} /\ Decoded(heap', f)
  BY <1>1, <1>3, <1>4 DEF FrameShape, Holds, Decoded, Exported
<1>6. /\ Holds(f) \cap lost' = {} /\ f.bufs \cap ({f.buf} \ {None}) = {}
      /\ lost \subseteq lost' /\ lost' \subseteq Buffers
      /\ (Holds(f) \cup (lost' \ lost)) \cap (DOMAIN heap \ Holds(Top)) = {}
      /\ DOMAIN heap' = (DOMAIN heap \ Holds(Top)) \cup Holds(f) \cup (lost' \ lost)
      /\ DOMAIN heap' \subseteq Buffers /\ heap' \in [DOMAIN heap' -> Contents]
  BY <1>1, <1>3, <1>4, <1>5, TopIs
<1>7. Good(heap', s, lost')
  BY <1>1, <1>3, <1>5, <1>6, UpdateKeeps DEF Top
<1>8. s # <<>> /\ Len(s) = Len(stack) /\ s[Len(s)] = f
  BY <1>1, <1>2, <1>3
<1>9. ThrowIn(s, "std")
  <2>1. [stack EXCEPT ![Len(stack)].bufs = {}] = s
    BY <1>1, <1>2, NestedExcept DEF f, Top
  <2> QED BY <1>1, <2>1
<1> HIDE DEF s
<1> QED BY <1>1, <1>3, <1>4, <1>7, <1>8, <1>9, ThrowInKeeps

\* The arguments are there: the body runs, or the callback does.
LEMMA MovesOn ==
  ASSUME Good(heap, stack, lost), Body \/ WriteArgs
  PROVE  Good(heap', stack', lost')
<1>1. CASE Body
  <2> DEFINE f == [Top EXCEPT !.pc = "body"]
  <2>1. stack # <<>> /\ Top.kind \in Exported /\ Top.pc = "lift" /\ Top.bufs = {}
        /\ stack' = [stack EXCEPT ![Len(stack)] = f] /\ UNCHANGED <<heap, lost>>
    BY <1>1 DEF Body, At, Update
  <2>2. /\ f \in Frames /\ f.kind = Top.kind /\ f.pc = "body"
        /\ f.bufs = Top.bufs /\ f.buf = Top.buf
    BY <2>1, TopIs DEF Frames
  <2> HIDE DEF f
  <2>3. FrameShape(f) /\ Decoded(heap, f)
    BY <2>1, <2>2, TopIs DEF FrameShape, Decoded, Exported
  <2> QED BY <2>1, <2>2, <2>3, MoveKeeps DEF Top
<1>2. CASE WriteArgs
  <2> DEFINE f == [Top EXCEPT !.pc = "foreign"]
  <2>1. stack # <<>> /\ Top.kind = "proxy" /\ Top.pc = "write"
        /\ stack' = [stack EXCEPT ![Len(stack)] = f] /\ UNCHANGED <<heap, lost>>
    BY <1>2 DEF WriteArgs, At, Update
  <2>2. /\ f \in Frames /\ f.kind = Top.kind /\ f.pc = "foreign"
        /\ f.bufs = Top.bufs /\ f.buf = Top.buf
    BY <2>1, TopIs DEF Frames
  <2> HIDE DEF f
  <2>3. FrameShape(f) /\ Decoded(heap, f)
    BY <2>1, <2>2, TopIs DEF FrameShape, Decoded, Exported
  <2> QED BY <2>1, <2>2, <2>3, MoveKeeps DEF Top
<1> QED BY <1>1, <1>2

\* The library throws.
LEMMA BodyThrowsKeeps ==
  ASSUME Good(heap, stack, lost), NEW x \in {"error", "std", "other"}, BodyThrows(x)
  PROVE  Good(heap', stack', lost')
<1>1. /\ stack # <<>> /\ Top.kind \in Exported /\ Top.pc = "body"
      /\ ThrowIn(stack, x) /\ heap' = heap /\ lost' = lost
  BY DEF BodyThrows, At
<1>2. Top.bufs = {} /\ Top.buf = None
  BY <1>1, TopIs DEF FrameShape
<1> QED BY <1>1, <1>2, ThrowInKeeps DEF Top

\* Lowering what the library returned throws, or lowering what it threw.
LEMMA BodyFailsKeeps ==
  ASSUME Good(heap, stack, lost), NEW b \in Buffers, ReturnFails(b) \/ CatchErrorFails(b)
  PROVE  Good(heap', stack', lost')
<1>1. stack # <<>> /\ Top.kind \in Exported /\ Top.pc \in {"body", "catch"}
  BY DEF ReturnFails, CatchErrorFails, At, Exported
<1>2. Top.bufs = {} /\ Top.buf = None
  BY <1>1, TopIs DEF FrameShape
<1>3. Good(heap', stack, lost')
  <2>1. /\ b \in Fresh /\ lost' = lost \cup {b}
        /\ Allocate(b, "value") \/ Allocate(b, "error")
    BY DEF ReturnFails, CatchErrorFails
  <2> QED BY <1>1, <2>1, LostAnew DEF Contents
<1>4. CASE ReturnFails(b)
  <2>1. ThrowIn(stack, "std")
    BY <1>4 DEF ReturnFails
  <2> QED BY <1>1, <1>2, <1>3, <2>1, ThrowInKeeps DEF Top
<1>5. CASE CatchErrorFails(b)
  <2>1. stack' = stack
    BY <1>5 DEF CatchErrorFails
  <2> QED BY <1>3, <2>1
<1> QED BY <1>4, <1>5

\* A proxy's method ends without having called.
LEMMA WriteArgsFailsKeeps ==
  ASSUME Good(heap, stack, lost), WriteArgsFails
  PROVE  Good(heap', stack', lost')
<1>1. /\ stack # <<>> /\ Top.kind = "proxy" /\ Top.pc = "write"
      /\ lost' = lost \cup Top.bufs /\ heap' = heap /\ Unwind("std")
  BY DEF WriteArgsFails, At
<1>2. Holds(Top) = Top.bufs
  BY <1>1, TopIs DEF FrameShape, Holds
<1>3. /\ lost \subseteq lost' /\ lost' \subseteq Buffers
      /\ (lost' \ lost) \cap (DOMAIN heap \ Holds(Top)) = {}
      /\ DOMAIN heap' = (DOMAIN heap \ Holds(Top)) \cup (lost' \ lost)
      /\ DOMAIN heap' \subseteq Buffers /\ heap' \in [DOMAIN heap' -> Contents]
  BY <1>1, <1>2, TopIs
<1>4. Good(heap', Below, lost')
  BY <1>1, <1>3, PopKeeps DEF Below, Top
<1> QED BY <1>1, <1>4, UnwindKeeps

\* A proxy's method ends with its answer: both buffers are freed, or that of
\* the answer is lost.
LEMMA AnsweredKeeps ==
  ASSUME Good(heap, stack, lost), Result \/ ThrowError \/ ThrowStd \/ ReadAnswerFails
  PROVE  Good(heap', stack', lost')
<1>1. stack # <<>> /\ Top.kind = "proxy" /\ Top.pc = "answer"
  BY DEF Result, ThrowError, ThrowStd, ReadAnswerFails, Answered, At
<1>2. Both = Holds(Top)
  BY DEF Both, Holds, BufferOf
<1>3. CASE Result
  BY <1>1, <1>2, <1>3, PopFreed DEF Result
<1>4. CASE ThrowError
  <2>1. Free(Holds(Top)) /\ UNCHANGED lost /\ Unwind("error")
    BY <1>2, <1>4 DEF ThrowError
  <2> QED BY <1>1, <2>1, PopFreed, UnwindKeeps
<1>5. CASE ThrowStd
  <2>1. Free(Holds(Top)) /\ UNCHANGED lost /\ Unwind("std")
    BY <1>2, <1>5 DEF ThrowStd
  <2> QED BY <1>1, <2>1, PopFreed, UnwindKeeps
<1>6. CASE ReadAnswerFails
  <2>1. /\ Top.buf # None /\ lost' = lost \cup {Top.buf} /\ Unwind("std")
        /\ heap' = [x \in DOMAIN heap \ Top.bufs |-> heap[x]]
    BY <1>6 DEF ReadAnswerFails, Free
  <2>2. /\ DOMAIN heap' = DOMAIN heap \ Top.bufs
        /\ DOMAIN heap' \subseteq Buffers /\ heap' \in [DOMAIN heap' -> Contents]
    BY <1>1, <2>1, TopIs, FreeType
  <2>3. /\ Holds(Top) = Top.bufs \cup {Top.buf} /\ Top.buf \notin Top.bufs
        /\ Top.buf \in DOMAIN heap /\ Top.buf \notin lost
    BY <1>1, <2>1, TopIs DEF Holds
  <2>4. /\ lost \subseteq lost' /\ lost' \subseteq Buffers
        /\ (lost' \ lost) \cap (DOMAIN heap \ Holds(Top)) = {}
        /\ DOMAIN heap' = (DOMAIN heap \ Holds(Top)) \cup (lost' \ lost)
    BY <1>1, <2>1, <2>2, <2>3, TopIs
  <2>5. Good(heap', Below, lost')
    BY <1>1, <2>2, <2>4, PopKeeps DEF Below, Top
  <2> QED BY <1>1, <2>1, <2>5, UnwindKeeps
<1> QED BY <1>3, <1>4, <1>5, <1>6
-----------------------------------------------------------------------------
\* Without a failure, a buffer is lost only if it is custom, and what is lost
\* is not touched again.
LEMMA LostStep ==
  ASSUME IInv, Next
  PROVE  LostInv'
<1> DEFINE Untouched == \A b \in lost : b \in DOMAIN heap' /\ heap'[b] = heap[b]
<1>1. Good(heap, stack, lost) /\ failures \in Nat /\ LostInv
  BY GoodIsIInv DEF Rest
<1>2. Fail => failures' # 0
  BY <1>1 DEF Fail
<1>3. lost \subseteq DOMAIN heap /\ lost \cap Fresh = {}
  BY <1>1 DEF Good, Exclusive, Fresh
<1>4. ASSUME UNCHANGED <<lost, failures>>, Untouched
      PROVE  LostInv'
  BY <1>1, <1>4 DEF LostInv, Customs
<1>5. UNCHANGED heap => Untouched
  BY <1>3
<1>6. \A b \in Buffers, c \in Contents : b \in Fresh /\ Allocate(b, c) => Untouched
  BY <1>3 DEF Allocate
<1>7. ASSUME NEW bs, bs \subseteq Holds(Top), stack # <<>>, Free(bs)
      PROVE  Untouched
  BY <1>1, <1>3, <1>7, TopIs DEF Free
<1> HIDE DEF Untouched
<1>8. CASE ForeignStep
  <2>1. ASSUME NEW kind \in Exported, NEW throws \in BOOLEAN, NEW bs \in SUBSET Fresh,
               NEW customs \in SUBSET bs, Call(kind, throws, bs, customs)
        PROVE  LostInv'
    <3>1. Untouched
      BY <1>3, <2>1 DEF Call, Untouched
    <3> QED BY <1>4, <2>1, <3>1 DEF Call
  <2>2. CASE Hear
    <3>1. stack # <<>> /\ Free(BufferOf(Top)) /\ UNCHANGED <<lost, failures>>
      BY <2>2 DEF Hear, At
    <3> QED BY <1>4, <1>7, <3>1 DEF Holds, BufferOf
  <2>3. ASSUME NEW a \in Answers \cup {<<3, "value">>}, NEW b \in Buffers \cup {None},
               CallbackAnswer(a, b)
        PROVE  LostInv'
    <3>1. /\ a[2] \in Contents /\ UNCHANGED <<lost, failures>>
          /\ IF b = None THEN UNCHANGED heap ELSE b \in Fresh /\ Allocate(b, a[2])
      BY <2>3 DEF CallbackAnswer, Answers, Contents
    <3> QED BY <1>4, <1>5, <1>6, <3>1
  <2> QED BY <1>8, <2>1, <2>2, <2>3 DEF ForeignStep
<1>9. CASE ExportedStep
  <2>1. ASSUME NEW b \in Buffers, LiftArg(b)
        PROVE  LostInv'
    <3>1. CASE heap[b] = "custom"
      <4>1. lost' = lost \cup {b} /\ heap' = heap /\ failures' = failures
        BY <2>1, <3>1 DEF LiftArg
      <4>2. b \in DOMAIN heap
        BY <1>1, <2>1, TopIs DEF LiftArg, At, Holds
      <4> QED BY <1>1, <3>1, <4>1, <4>2 DEF LostInv, Customs
    <3>2. CASE heap[b] # "custom"
      <4>1. /\ stack # <<>> /\ b \in Top.bufs /\ Free({b}) /\ UNCHANGED <<lost, failures>>
        BY <2>1, <3>2 DEF LiftArg, At
      <4>2. {b} \subseteq Holds(Top)
        BY <4>1 DEF Holds
      <4> QED BY <1>4, <1>7, <4>1, <4>2
    <3> QED BY <3>1, <3>2
  <2>2. ASSUME NEW b \in Buffers, CatchError(b) \/ CatchStd(b)
        PROVE  LostInv'
    <3>1. /\ b \in Fresh /\ UNCHANGED <<lost, failures>>
          /\ Allocate(b, "error") \/ Allocate(b, "message")
      BY <2>2 DEF CatchError, CatchStd
    <3> QED BY <1>4, <1>6, <3>1 DEF Contents
  <2>3. ASSUME NEW b \in Buffers \cup {None}, Return(b)
        PROVE  LostInv'
    <3>1. /\ "value" \in Contents /\ UNCHANGED <<lost, failures>>
          /\ IF b = None THEN UNCHANGED heap ELSE b \in Fresh /\ Allocate(b, "value")
      BY <2>3 DEF Return, Contents
    <3> QED BY <1>4, <1>5, <1>6, <3>1
  <2>4. CASE (\E b \in Buffers : ReturnFails(b) \/ CatchErrorFails(b)) \/ LiftArgFails
    BY <1>2, <2>4 DEF ReturnFails, CatchErrorFails, LiftArgFails, LostInv
  <2>5. CASE Body \/ CatchOther \/ \E x \in {"error", "std", "other"} : BodyThrows(x)
    BY <1>4, <1>5, <2>5 DEF Body, CatchOther, BodyThrows
  <2> QED BY <1>9, <2>1, <2>2, <2>3, <2>4, <2>5 DEF ExportedStep
<1>10. CASE ProxyStep
  <2>1. ASSUME NEW throws \in BOOLEAN, NEW b \in Buffers, CallProxy(throws, b)
        PROVE  LostInv'
    <3>1. b \in Fresh /\ Allocate(b, "value") /\ UNCHANGED <<lost, failures>>
      BY <2>1 DEF CallProxy
    <3> QED BY <1>4, <1>6, <3>1 DEF Contents
  <2>2. CASE WriteArgs
    BY <1>4, <1>5, <2>2 DEF WriteArgs
  <2>3. CASE WriteArgsFails \/ ReadAnswerFails
    BY <1>2, <2>3 DEF WriteArgsFails, ReadAnswerFails, LostInv
  <2>4. CASE Result \/ ThrowError \/ ThrowStd
    <3>1. stack # <<>> /\ Free(Both) /\ UNCHANGED <<lost, failures>>
      BY <2>4 DEF Result, ThrowError, ThrowStd, Answered, At
    <3>2. Both \subseteq Holds(Top)
      BY DEF Both, Holds, BufferOf
    <3> QED BY <1>4, <1>7, <3>1, <3>2
  <2> QED BY <1>10, <2>1, <2>2, <2>3, <2>4 DEF ProxyStep
<1>11. CASE Terminated
  BY <1>4, <1>5, <1>11 DEF Terminated, vars
<1> QED BY <1>8, <1>9, <1>10, <1>11 DEF Next

\* Failures are counted, and of functions only an error that cannot be lowered
\* gets out.
LEMMA ReportStep ==
  ASSUME Rest, Next
  PROVE  failures' \in Nat /\ crossed' \in Exported \cup {None} /\ FunctionsReport'
<1> DEFINE Passes == UNCHANGED crossed \/ crossed' = "ctor"
           Counts == UNCHANGED failures \/ failures' = failures + 1
<1>1. \A s, x : ThrowIn(s, x) => Passes
  BY DEF ThrowIn
<1>2. \A x : Unwind(x) => Passes
  BY <1>1 DEF Unwind
<1>3. ForeignStep => Passes /\ Counts
  BY DEF ForeignStep, Call, Hear, CallbackAnswer
<1>4. ASSUME ExportedStep
      PROVE  Counts /\ (Passes \/ (crossed' = "fn" /\ failures' = failures + 1))
  <2>1. ASSUME NEW b \in Buffers, LiftArg(b) \/ CatchError(b) \/ CatchStd(b)
        PROVE  Passes /\ Counts
    BY <2>1 DEF LiftArg, CatchError, CatchStd
  <2>2. ASSUME NEW b \in Buffers, ReturnFails(b)
        PROVE  Passes /\ Counts
    <3>1. ThrowIn(stack, "std") /\ Fail
      BY <2>2 DEF ReturnFails
    <3> HIDE DEF Passes
    <3> QED BY <1>1, <3>1 DEF Fail
  <2>3. ASSUME NEW b \in Buffers, CatchErrorFails(b)
        PROVE  crossed' = "fn" /\ failures' = failures + 1
    BY <2>3 DEF CatchErrorFails, Fail
  <2>4. CASE (\E b \in Buffers \cup {None} : Return(b)) \/ Body \/ CatchOther
    BY <2>4 DEF Return, Body, CatchOther
  <2>5. CASE LiftArgFails
    <3>1. (\E s : ThrowIn(s, "std")) /\ Fail
      BY <2>5 DEF LiftArgFails
    <3> HIDE DEF Passes
    <3> QED BY <1>1, <3>1 DEF Fail
  <2>6. ASSUME NEW x \in {"error", "std", "other"}, BodyThrows(x)
        PROVE  Passes /\ Counts
    <3>1. ThrowIn(stack, x) /\ UNCHANGED failures
      BY <2>6 DEF BodyThrows
    <3> HIDE DEF Passes
    <3> QED BY <1>1, <3>1
  <2> HIDE DEF Passes, Counts
  <2>7. failures' = failures + 1 => Counts
    BY DEF Counts
  <2> QED BY <1>4, <2>1, <2>2, <2>3, <2>4, <2>5, <2>6, <2>7 DEF ExportedStep, Passes, Counts
<1>5. ASSUME ProxyStep
      PROVE  Passes /\ Counts
  <2>1. CASE (\E throws \in BOOLEAN, b \in Buffers : CallProxy(throws, b)) \/ WriteArgs \/ Result
    BY <2>1 DEF CallProxy, WriteArgs, Result
  <2>2. CASE WriteArgsFails \/ ThrowError \/ ThrowStd \/ ReadAnswerFails
    <3>1. (\E x : Unwind(x)) /\ Counts
      BY <2>2 DEF WriteArgsFails, ThrowError, ThrowStd, ReadAnswerFails, Fail
    <3> QED BY <1>2, <3>1
  <2> QED BY <1>5, <2>1, <2>2 DEF ProxyStep
<1>6. Terminated => Passes /\ Counts
  BY DEF Terminated, vars
<1>7. Counts /\ (Passes \/ (crossed' = "fn" /\ failures' = failures + 1))
  BY <1>3, <1>4, <1>5, <1>6 DEF Next
<1>8. failures \in Nat /\ crossed \in Exported \cup {None} /\ FunctionsReport
  BY DEF Rest
<1> QED BY <1>7, <1>8 DEF FunctionsReport, Exported
-----------------------------------------------------------------------------
\* At first there is nothing.
LEMMA InitGood == Init => Good(heap, stack, lost) /\ Rest
<1> SUFFICES ASSUME Init PROVE Good(heap, stack, lost) /\ Rest
  OBVIOUS
<1>1. /\ DOMAIN heap = {} /\ heap \in [DOMAIN heap -> Contents]
      /\ stack \in Seq(Frames) /\ DOMAIN stack = {} /\ lost = {} /\ failures = 0
      /\ crossed = None
  BY DEF Init, Contents
<1>2. Good(heap, stack, lost)
  BY <1>1 DEF Good, Typed, Shaped, Exclusive
<1>3. LostInv /\ failures \in Nat /\ crossed \in Exported \cup {None}
  BY <1>1 DEF LostInv
<1>4. FunctionsReport
  BY <1>1, ScaffoldCallAssumption DEF FunctionsReport
<1> QED BY <1>2, <1>3, <1>4 DEF Rest

\* Every step keeps what frames hold.
LEMMA NextKeeps ==
  ASSUME Good(heap, stack, lost), Next
  PROVE  Good(heap', stack', lost')
<1>1. CASE ForeignStep
  <2>1. ASSUME NEW kind \in Exported, NEW throws \in BOOLEAN, NEW bs \in SUBSET Fresh,
               NEW customs \in SUBSET bs, Call(kind, throws, bs, customs)
        PROVE  Good(heap', stack', lost')
    BY <2>1, CallKeeps
  <2>2. CASE Hear
    BY <2>2, HearKeeps
  <2>3. ASSUME NEW a \in Answers \cup {<<3, "value">>}, NEW b \in Buffers \cup {None},
               CallbackAnswer(a, b)
        PROVE  Good(heap', stack', lost')
    BY <2>3, CallbackAnswerKeeps
  <2> QED BY <1>1, <2>1, <2>2, <2>3 DEF ForeignStep
<1>2. CASE ExportedStep
  <2>1. ASSUME NEW b \in Buffers, LiftArg(b)
        PROVE  Good(heap', stack', lost')
    BY <2>1, LiftArgKeeps
  <2>2. ASSUME NEW b \in Buffers, ReturnFails(b) \/ CatchErrorFails(b)
        PROVE  Good(heap', stack', lost')
    BY <2>2, BodyFailsKeeps
  <2>3. ASSUME NEW b \in Buffers, CatchError(b) \/ CatchStd(b)
        PROVE  Good(heap', stack', lost')
    <3>1. b # None /\ b \in Buffers \cup {None}
      BY ScaffoldCallAssumption
    <3> QED BY <2>3, <3>1, ReportKeeps
  <2>4. ASSUME NEW b \in Buffers \cup {None}, Return(b) \/ CatchOther
        PROVE  Good(heap', stack', lost')
    BY <2>4, ReportKeeps
  <2>5. CASE LiftArgFails
    BY <2>5, LiftArgFailsKeeps
  <2>6. CASE Body
    BY <2>6, MovesOn
  <2>7. ASSUME NEW x \in {"error", "std", "other"}, BodyThrows(x)
        PROVE  Good(heap', stack', lost')
    BY <2>7, BodyThrowsKeeps
  <2>8. None \in Buffers \cup {None}
    OBVIOUS
  <2> QED BY <1>2, <2>1, <2>2, <2>3, <2>4, <2>5, <2>6, <2>7, <2>8 DEF ExportedStep
<1>3. CASE ProxyStep
  <2>1. ASSUME NEW throws \in BOOLEAN, NEW b \in Buffers, CallProxy(throws, b)
        PROVE  Good(heap', stack', lost')
    BY <2>1, CallProxyKeeps
  <2>2. CASE WriteArgs
    BY <2>2, MovesOn
  <2>3. CASE WriteArgsFails
    BY <2>3, WriteArgsFailsKeeps
  <2>4. CASE Result \/ ThrowError \/ ThrowStd \/ ReadAnswerFails
    BY <2>4, AnsweredKeeps
  <2> QED BY <1>3, <2>1, <2>2, <2>3, <2>4 DEF ProxyStep
<1>4. CASE Terminated
  BY <1>4 DEF Terminated, vars
<1> QED BY <1>1, <1>2, <1>3, <1>4 DEF Next

\* The inductive invariant of the stack, the heap and the lost buffers.
THEOREM Invariance == Spec => []IInv
<1>1. Init => IInv
  BY InitGood, GoodIsIInv
<1>2. IInv /\ [Next]_vars => IInv'
  <2> SUFFICES ASSUME IInv, [Next]_vars PROVE IInv'
    OBVIOUS
  <2>1. Good(heap, stack, lost) /\ Rest
    BY GoodIsIInv
  <2>2. CASE Next
    <3>1. Good(heap', stack', lost')
      BY <2>1, <2>2, NextKeeps
    <3>2. Rest'
      BY <2>1, <2>2, LostStep, ReportStep DEF Rest
    <3> QED BY <3>1, <3>2, GoodIsIInvNext
  <2>3. CASE UNCHANGED vars
    <3>1. heap' = heap /\ stack' = stack /\ lost' = lost /\ failures' = failures /\ crossed' = crossed
      BY <2>3 DEF vars
    <3>2. Rest'
      BY <2>1, <3>1 DEF Rest, LostInv, Customs, FunctionsReport
    <3> QED BY <2>1, <3>1, <3>2, GoodIsIInvNext
  <2> QED BY <2>2, <2>3
<1> QED BY <1>1, <1>2, PTL DEF Spec

\* The variables have their types.
THEOREM TypeCorrect == Spec => []TypeOK
<1>1. IInv => TypeOK
  BY DEF IInv
<1> QED BY <1>1, Invariance, PTL

\* However deep exported functions, callbacks and exceptions nest, and
\* wherever conversions fail, each buffer is held once and freed once or lost.
THEOREM EveryBufferHeldOnce == Spec => []BuffersHeldOnce
<1>1. IInv => BuffersHeldOnce
  BY DEF IInv
<1> QED BY <1>1, Invariance, PTL

\* Once all calls have returned and no conversion has failed, what is still
\* allocated came in arguments of custom types.
THEOREM NothingElseLeaks == Spec => []OnlyCustomsLeak
<1>1. IInv => OnlyCustomsLeak
  <2> SUFFICES ASSUME IInv, stack = <<>>, failures = 0
               PROVE  DOMAIN heap = Customs
    BY DEF OnlyCustomsLeak
  <2>1. DOMAIN stack = {}
    OBVIOUS
  <2>2. DOMAIN heap = lost
    BY <2>1 DEF IInv, BuffersHeldOnce
  <2> QED BY <2>2 DEF IInv, LostInv, Customs
<1> QED BY <1>1, Invariance, PTL

\* The caller of an exported function reads what the status says was written.
THEOREM CodeNamesContent == Spec => []DecodedAsWritten
<1>1. IInv => DecodedAsWritten
  BY DEF IInv
<1> QED BY <1>1, Invariance, PTL

\* Functions and methods report whatever the library throws.
THEOREM ExceptionsAreReported == Spec => []FunctionsReport
<1>1. IInv => FunctionsReport
  BY DEF IInv
<1> QED BY <1>1, Invariance, PTL
=============================================================================
