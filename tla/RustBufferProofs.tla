--------------------------- MODULE RustBufferProofs ---------------------------
(***************************************************************************)
(* Proofs about RustBuffers: RustCall, who holds a buffer, and Codec, what *)
(* a value is after it went through one.                                   *)
(*                                                                         *)
(* RustCall, for any buffers, arguments, nesting and failed conversions:   *)
(* every buffer has one holder, and is decoded as what was written into    *)
(* it.  Every action changes the innermost frame, pushes a frame or pops   *)
(* one; there is a lemma for each of the three, about any heap h, stack s  *)
(* and set of lost buffers l, and the actions cite them.                   *)
(*                                                                         *)
(* Codec, for any interface, any values of its types and any number of     *)
(* values of a byte: what one side lowers the other lifts.  A converter    *)
(* made from faithful converters is faithful; the types are numbered, each *)
(* after its parts, and so all of them are.                                *)
(***************************************************************************)
EXTENDS RustCall, Codec, SequenceTheorems, FiniteSetTheorems, WellFoundedInduction, TLAPS

\* The buffers a frame refers to.
Holds(f) == f.bufs \cup ({f.buf} \ {None})

Typed(h, s, l) ==
  /\ DOMAIN h \subseteq Buffers
  /\ h \in [DOMAIN h -> Contents]
  /\ s \in Seq(Frames)
  /\ l \subseteq Buffers

FrameShape(f) ==
  /\ f.kind = "call" => f.pc \in {"lower", "rust", "heard", "check"}
  /\ f.kind = "method" => f.pc \in {"lift", "body", "catch"}
  /\ f.buf # None => f.pc \in {"heard", "check"}
  /\ f.pc \in {"check", "body", "catch"} => f.bufs = {}

\* Where a frame is while one of a kind lies on it.
PcUnder(kind) == IF kind = "call" THEN "body" ELSE "rust"

Shaped(s) ==
  \A n \in DOMAIN s :
    /\ FrameShape(s[n])
    /\ s[n].kind = "method" => n > 1
    /\ n < Len(s) => s[n].pc = PcUnder(s[n + 1].kind)

Exclusive(d, s, l) ==
  /\ d = l \cup UNION {Holds(s[n]) : n \in DOMAIN s}
  /\ \A m, n \in DOMAIN s : m # n => Holds(s[m]) \cap Holds(s[n]) = {}
  /\ \A n \in DOMAIN s : Holds(s[n]) \cap l = {} /\ s[n].bufs \cap ({s[n].buf} \ {None}) = {}

Decoded(h, f) ==
  f.pc \in {"check", "heard"} /\ f.buf # None => <<f.code, h[f.buf]>> \in Answers

Good(h, s, l) ==
  /\ Typed(h, s, l)
  /\ Shaped(s)
  /\ Exclusive(DOMAIN h, s, l)
  /\ \A n \in DOMAIN s : Decoded(h, s[n])

\* The invariant, as a predicate of heap, stack and lost.
LEMMA GoodIsIInv == IInv <=> Good(heap, stack, lost) /\ failures \in Nat
<1>1. TypeOK <=> Typed(heap, stack, lost) /\ failures \in Nat
  BY DEF TypeOK, Typed
<1>2. ShapeInv <=> Shaped(stack)
  BY DEF ShapeInv, Shaped, FrameShape, PcUnder
<1>3. BuffersHeldOnce <=> Exclusive(DOMAIN heap, stack, lost)
  BY DEF BuffersHeldOnce, Exclusive, Held, BufferOf, Holds
<1>4. ASSUME Typed(heap, stack, lost), Shaped(stack)
      PROVE  DecodedAsWritten <=> \A n \in DOMAIN stack : Decoded(heap, stack[n])
  <2>1. ASSUME NEW n \in DOMAIN stack
        PROVE  stack[n].pc \in {"check", "heard"} => stack[n].kind = "call"
    <3>1. stack[n] \in Frames
      BY <1>4 DEF Typed
    <3>2. stack[n].kind \in {"call", "method"}
      BY <3>1 DEF Frames
    <3> QED BY <1>4, <3>2 DEF Shaped, FrameShape
  <2> QED BY <2>1 DEF DecodedAsWritten, Decoded
<1> QED BY <1>1, <1>2, <1>3, <1>4 DEF IInv, Good

\* The same of the next state.
LEMMA GoodIsIInvNext == IInv' <=> Good(heap', stack', lost') /\ failures' \in Nat
<1> DEFINE GoodNow == Good(heap, stack, lost) /\ failures \in Nat
<1>1. IInv <=> GoodNow
  BY GoodIsIInv
<1>2. GoodNow' <=> Good(heap', stack', lost') /\ failures' \in Nat
  OBVIOUS
<1> HIDE DEF GoodNow
<1>3. IInv' <=> GoodNow'
  BY <1>1, PTL
<1> QED BY <1>2, <1>3
-----------------------------------------------------------------------------
\* The innermost frame, and the stack without it.
LEMMA TopFacts ==
  ASSUME NEW s \in Seq(Frames), s # <<>>
  PROVE  /\ Len(s) \in Nat \ {0}
         /\ DOMAIN s = 1..Len(s)
         /\ Len(s) \in DOMAIN s
         /\ s[Len(s)] \in Frames
         /\ SubSeq(s, 1, Len(s) - 1) \in Seq(Frames)
         /\ Len(SubSeq(s, 1, Len(s) - 1)) = Len(s) - 1
         /\ DOMAIN SubSeq(s, 1, Len(s) - 1) = 1..(Len(s) - 1)
         /\ \A n \in 1..(Len(s) - 1) : SubSeq(s, 1, Len(s) - 1)[n] = s[n]
<1>1. Len(s) \in Nat \ {0}
  OBVIOUS
<1>2. DOMAIN s = 1..Len(s) /\ Len(s) \in DOMAIN s /\ s[Len(s)] \in Frames
  BY <1>1
<1>3. /\ SubSeq(s, 1, Len(s) - 1) \in Seq(Frames)
      /\ Len(SubSeq(s, 1, Len(s) - 1)) = Len(s) - 1
  <2> DEFINE k == Len(s) - 1
  <2>1. k \in Int /\ k >= 0 /\ \A i \in 1..k : s[i] \in Frames
    BY <1>1
  <2> HIDE DEF k
  <2>2. /\ SubSeq(s, 1, k) \in Seq(Frames)
        /\ Len(SubSeq(s, 1, k)) = IF 1 <= k THEN k - 1 + 1 ELSE 0
    BY <2>1, SubSeqProperties
  <2>3. Len(SubSeq(s, 1, k)) = k
    BY <2>1, <2>2
  <2> QED BY <2>2, <2>3 DEF k
<1>4. \A n \in 1..(Len(s) - 1) : SubSeq(s, 1, Len(s) - 1)[n] = s[n]
  BY <1>1
<1> QED BY <1>1, <1>2, <1>3, <1>4

\* The innermost frame is replaced by f, of the same kind.  f and the lost
\* buffers take over what it held, but for what was freed, and what was
\* allocated.
LEMMA UpdateKeeps ==
  ASSUME NEW h, NEW s, NEW l, Good(h, s, l), s # <<>>,
         NEW f \in Frames, NEW h2, NEW l2,
         FrameShape(f), f.kind = s[Len(s)].kind,
         DOMAIN h2 \subseteq Buffers, h2 \in [DOMAIN h2 -> Contents],
         l \subseteq l2, l2 \subseteq Buffers,
         Holds(f) \cap l2 = {}, f.bufs \cap ({f.buf} \ {None}) = {},
         (Holds(f) \cup (l2 \ l)) \cap (DOMAIN h \ Holds(s[Len(s)])) = {},
         DOMAIN h2 = (DOMAIN h \ Holds(s[Len(s)])) \cup Holds(f) \cup (l2 \ l),
         Decoded(h2, f)
  PROVE  Good(h2, [s EXCEPT ![Len(s)] = f], l2)
<1> DEFINE k == Len(s)
           s2 == [s EXCEPT ![k] = f]
<1>t. s \in Seq(Frames) /\ Shaped(s) /\ Exclusive(DOMAIN h, s, l)
  BY DEF Good, Typed
<1>k. k \in Nat \ {0} /\ DOMAIN s = 1..k /\ k \in DOMAIN s
  BY <1>t, TopFacts
<1>s. /\ s2 \in Seq(Frames) /\ Len(s2) = k
      /\ DOMAIN s2 = DOMAIN s
      /\ s2[k] = f
      /\ \A n \in DOMAIN s : n # k => s2[n] = s[n]
  BY <1>t, <1>k
<1> HIDE DEF s2
<1>1. Typed(h2, s2, l2)
  BY <1>s DEF Typed
<1>2. Shaped(s2)
  <2> SUFFICES ASSUME NEW n \in DOMAIN s
               PROVE  /\ FrameShape(s2[n])
                      /\ s2[n].kind = "method" => n > 1
                      /\ n < k => s2[n].pc = PcUnder(s2[n + 1].kind)
    BY <1>s DEF Shaped
  <2>1. CASE n = k
    BY <1>t, <1>k, <1>s, <2>1 DEF Shaped
  <2>2. CASE n # k
    <3>1. n \in Nat /\ n + 1 \in DOMAIN s /\ s2[n + 1].kind = s[n + 1].kind
      BY <1>k, <1>s, <2>2
    <3> QED BY <1>t, <1>s, <2>2, <3>1 DEF Shaped
  <2> QED BY <2>1, <2>2
<1>3. Exclusive(DOMAIN h2, s2, l2)
  <2> DEFINE rest == DOMAIN h \ Holds(s[k])
  <2>1. \A n \in DOMAIN s : n # k => Holds(s[n]) \subseteq rest
    BY <1>t, <1>k DEF Exclusive
  <2>2. l \subseteq rest
    BY <1>t, <1>k DEF Exclusive
  <2>3. ASSUME NEW b \in rest
        PROVE  b \in l \/ \E n \in DOMAIN s : n # k /\ b \in Holds(s[n])
    BY <1>t, <1>k DEF Exclusive
  <2>4. (Holds(f) \cup (l2 \ l)) \cap rest = {} /\ DOMAIN h2 = rest \cup Holds(f) \cup (l2 \ l)
    OBVIOUS
  <2> HIDE DEF rest
  <2>5. DOMAIN h2 = l2 \cup UNION {Holds(s2[n]) : n \in DOMAIN s2}
    <3>1. ASSUME NEW b \in DOMAIN h2
          PROVE  b \in l2 \/ \E n \in DOMAIN s2 : b \in Holds(s2[n])
      <4>1. CASE b \in rest
        BY <1>s, <2>3, <4>1
      <4>2. CASE b \in Holds(f)
        BY <1>s, <1>k, <4>2
      <4> QED BY <2>4, <4>1, <4>2
    <3>2. l2 \subseteq DOMAIN h2
      BY <2>2, <2>4
    <3>3. ASSUME NEW n \in DOMAIN s2
          PROVE  Holds(s2[n]) \subseteq DOMAIN h2
      BY <1>s, <2>1, <2>4
    <3> QED BY <3>1, <3>2, <3>3
  <2>6. ASSUME NEW m \in DOMAIN s2, NEW n \in DOMAIN s2, m # n
        PROVE  Holds(s2[m]) \cap Holds(s2[n]) = {}
    BY <1>t, <1>s, <2>1, <2>4, <2>6 DEF Exclusive
  <2>7. ASSUME NEW n \in DOMAIN s2
        PROVE  Holds(s2[n]) \cap l2 = {} /\ s2[n].bufs \cap ({s2[n].buf} \ {None}) = {}
    <3>1. CASE n = k
      BY <1>s, <3>1
    <3>2. CASE n # k
      BY <1>t, <1>s, <2>1, <2>4, <3>2 DEF Exclusive
    <3> QED BY <3>1, <3>2
  <2> QED BY <2>5, <2>6, <2>7 DEF Exclusive
<1>4. ASSUME NEW n \in DOMAIN s2
      PROVE  Decoded(h2, s2[n])
  <2>1. CASE n = k
    BY <1>s, <2>1
  <2>2. CASE n # k
    <3>1. n < k
      BY <1>k, <1>s, <2>2
    <3>2. s2[n].pc \in {"body", "rust"}
      BY <1>t, <1>s, <2>2, <3>1 DEF Shaped, PcUnder
    <3> QED BY <3>2 DEF Decoded
  <2> QED BY <2>1, <2>2
<1> QED BY <1>1, <1>2, <1>3, <1>4 DEF Good, s2

\* A frame f is pushed, with what was allocated for it.
LEMMA PushKeeps ==
  ASSUME NEW h, NEW s, NEW l, Good(h, s, l),
         NEW f \in Frames, NEW h2,
         FrameShape(f), f.buf = None, f.kind = "method" => s # <<>>,
         s # <<>> => s[Len(s)].pc = PcUnder(f.kind),
         DOMAIN h2 \subseteq Buffers, h2 \in [DOMAIN h2 -> Contents],
         f.bufs \cap DOMAIN h = {}, DOMAIN h2 = DOMAIN h \cup f.bufs
  PROVE  Good(h2, Append(s, f), l)
<1> DEFINE k == Len(s)
           s2 == Append(s, f)
<1>t. s \in Seq(Frames) /\ Shaped(s) /\ Exclusive(DOMAIN h, s, l) /\ l \subseteq Buffers
  BY DEF Good, Typed
<1>k. k \in Nat /\ DOMAIN s = 1..k /\ (s # <<>> => k > 0)
  BY <1>t
<1>s. /\ s2 \in Seq(Frames) /\ Len(s2) = k + 1
      /\ DOMAIN s2 = 1..(k + 1)
      /\ s2[k + 1] = f
      /\ \A n \in DOMAIN s : s2[n] = s[n]
  BY <1>t, <1>k
<1>f. Holds(f) = f.bufs
  BY DEF Holds
<1>d. \A n \in DOMAIN s2 : n = k + 1 \/ n \in DOMAIN s
  BY <1>k, <1>s
<1> HIDE DEF s2
<1>1. Typed(h2, s2, l)
  BY <1>t, <1>s DEF Typed
<1>2. Shaped(s2)
  <2> SUFFICES ASSUME NEW n \in DOMAIN s2
               PROVE  /\ FrameShape(s2[n])
                      /\ s2[n].kind = "method" => n > 1
                      /\ n < k + 1 => s2[n].pc = PcUnder(s2[n + 1].kind)
    BY <1>s DEF Shaped
  <2>1. CASE n = k + 1
    BY <1>k, <1>s, <2>1
  <2>2. CASE n = k /\ n \in DOMAIN s
    <3>1. s # <<>>
      BY <1>k, <2>2
    <3> QED BY <1>t, <1>s, <2>2, <3>1 DEF Shaped
  <2>3. CASE n # k /\ n \in DOMAIN s
    <3>1. n \in Nat /\ n < k /\ n + 1 \in DOMAIN s
      BY <1>k, <2>3
    <3> QED BY <1>t, <1>s, <2>3, <3>1 DEF Shaped
  <2> QED BY <1>d, <2>1, <2>2, <2>3
<1>3. Exclusive(DOMAIN h2, s2, l)
  <2>1. \A n \in DOMAIN s : Holds(s[n]) \subseteq DOMAIN h
    BY <1>t DEF Exclusive
  <2>2. l \subseteq DOMAIN h
    BY <1>t DEF Exclusive
  <2>3. k + 1 \in DOMAIN s2 /\ \A n \in DOMAIN s : n \in DOMAIN s2 /\ n # k + 1
    BY <1>k, <1>s
  <2>5. DOMAIN h2 = l \cup UNION {Holds(s2[n]) : n \in DOMAIN s2}
    <3>1. ASSUME NEW b \in DOMAIN h2
          PROVE  b \in l \/ \E n \in DOMAIN s2 : b \in Holds(s2[n])
      <4>1. CASE b \in DOMAIN h
        <5>1. b \in l \/ \E n \in DOMAIN s : b \in Holds(s[n])
          BY <1>t, <4>1 DEF Exclusive
        <5> QED BY <1>s, <2>3, <5>1
      <4>2. CASE b \in f.bufs
        BY <1>s, <1>f, <2>3, <4>2
      <4> QED BY <4>1, <4>2
    <3>2. ASSUME NEW n \in DOMAIN s2
          PROVE  Holds(s2[n]) \subseteq DOMAIN h2
      BY <1>s, <1>f, <1>d, <2>1
    <3> QED BY <2>2, <3>1, <3>2
  <2>6. ASSUME NEW m \in DOMAIN s2, NEW n \in DOMAIN s2, m # n
        PROVE  Holds(s2[m]) \cap Holds(s2[n]) = {}
    <3>1. CASE m = k + 1
      BY <1>s, <1>f, <1>d, <2>1, <2>6, <3>1
    <3>2. CASE n = k + 1
      BY <1>s, <1>f, <1>d, <2>1, <2>6, <3>2
    <3>3. CASE m \in DOMAIN s /\ n \in DOMAIN s
      BY <1>t, <1>s, <2>6, <3>3 DEF Exclusive
    <3> QED BY <1>d, <3>1, <3>2, <3>3
  <2>7. ASSUME NEW n \in DOMAIN s2
        PROVE  Holds(s2[n]) \cap l = {} /\ s2[n].bufs \cap ({s2[n].buf} \ {None}) = {}
    <3>1. CASE n = k + 1
      BY <1>s, <1>f, <2>2, <3>1
    <3>2. CASE n \in DOMAIN s
      BY <1>t, <1>s, <3>2 DEF Exclusive
    <3> QED BY <1>d, <3>1, <3>2
  <2> QED BY <2>5, <2>6, <2>7 DEF Exclusive
<1>4. ASSUME NEW n \in DOMAIN s2
      PROVE  Decoded(h2, s2[n])
  <2>1. CASE n = k + 1
    BY <1>s, <2>1 DEF Decoded
  <2>2. CASE n \in DOMAIN s
    <3>1. n < k + 1
      BY <1>k, <2>2
    <3>2. s2[n].pc \in {"body", "rust"}
      BY <1>2, <1>s, <3>1 DEF Shaped, PcUnder
    <3> QED BY <3>2 DEF Decoded
  <2> QED BY <1>d, <2>1, <2>2
<1> QED BY <1>1, <1>2, <1>3, <1>4 DEF Good, s2

\* The innermost frame is popped: what it held is freed or lost.
LEMMA PopKeeps ==
  ASSUME NEW h, NEW s, NEW l, Good(h, s, l), s # <<>>,
         NEW h2, NEW l2,
         DOMAIN h2 \subseteq Buffers, h2 \in [DOMAIN h2 -> Contents],
         l \subseteq l2, l2 \subseteq Buffers,
         (l2 \ l) \cap (DOMAIN h \ Holds(s[Len(s)])) = {},
         DOMAIN h2 = (DOMAIN h \ Holds(s[Len(s)])) \cup (l2 \ l)
  PROVE  Good(h2, SubSeq(s, 1, Len(s) - 1), l2)
<1> DEFINE k == Len(s)
           s2 == SubSeq(s, 1, k - 1)
<1>t. s \in Seq(Frames) /\ Shaped(s) /\ Exclusive(DOMAIN h, s, l)
  BY DEF Good, Typed
<1>k. k \in Nat \ {0} /\ DOMAIN s = 1..k /\ k \in DOMAIN s
  BY <1>t, TopFacts
<1>s. /\ s2 \in Seq(Frames) /\ Len(s2) = k - 1
      /\ DOMAIN s2 = 1..(k - 1)
      /\ \A n \in 1..(k - 1) : s2[n] = s[n]
  BY <1>t, TopFacts
<1>d. \A n : n \in DOMAIN s2 <=> n \in DOMAIN s /\ n # k
  BY <1>k, <1>s
<1> HIDE DEF s2
<1>e. \A n \in DOMAIN s2 : s2[n] = s[n]
  BY <1>s
<1>1. Typed(h2, s2, l2)
  BY <1>s DEF Typed
<1>2. Shaped(s2)
  <2> SUFFICES ASSUME NEW n \in DOMAIN s2
               PROVE  /\ FrameShape(s2[n])
                      /\ s2[n].kind = "method" => n > 1
                      /\ n < k - 1 => s2[n].pc = PcUnder(s2[n + 1].kind)
    BY <1>s DEF Shaped
  <2>1. n < k /\ (n < k - 1 => n + 1 \in DOMAIN s2)
    BY <1>k, <1>s
  <2> QED BY <1>t, <1>d, <1>e, <2>1 DEF Shaped
<1>3. Exclusive(DOMAIN h2, s2, l2)
  <2> DEFINE rest == DOMAIN h \ Holds(s[k])
  <2>1. \A n \in DOMAIN s2 : Holds(s[n]) \subseteq rest
    BY <1>t, <1>k, <1>d DEF Exclusive
  <2>2. l \subseteq rest
    BY <1>t, <1>k DEF Exclusive
  <2>3. ASSUME NEW b \in rest
        PROVE  b \in l \/ \E n \in DOMAIN s2 : b \in Holds(s[n])
    BY <1>t, <1>k, <1>d DEF Exclusive
  <2>4. (l2 \ l) \cap rest = {} /\ DOMAIN h2 = rest \cup (l2 \ l)
    OBVIOUS
  <2> HIDE DEF rest
  <2>5. DOMAIN h2 = l2 \cup UNION {Holds(s2[n]) : n \in DOMAIN s2}
    <3>1. ASSUME NEW b \in DOMAIN h2
          PROVE  b \in l2 \/ \E n \in DOMAIN s2 : b \in Holds(s2[n])
      BY <1>e, <2>3, <2>4
    <3>2. l2 \subseteq DOMAIN h2
      BY <2>2, <2>4
    <3>3. ASSUME NEW n \in DOMAIN s2
          PROVE  Holds(s2[n]) \subseteq DOMAIN h2
      BY <1>e, <2>1, <2>4
    <3> QED BY <3>1, <3>2, <3>3
  <2>6. ASSUME NEW m \in DOMAIN s2, NEW n \in DOMAIN s2, m # n
        PROVE  Holds(s2[m]) \cap Holds(s2[n]) = {}
    BY <1>t, <1>d, <1>e, <2>6 DEF Exclusive
  <2>7. ASSUME NEW n \in DOMAIN s2
        PROVE  Holds(s2[n]) \cap l2 = {} /\ s2[n].bufs \cap ({s2[n].buf} \ {None}) = {}
    BY <1>t, <1>d, <1>e, <2>1, <2>4 DEF Exclusive
  <2> QED BY <2>5, <2>6, <2>7 DEF Exclusive
<1>4. ASSUME NEW n \in DOMAIN s2
      PROVE  Decoded(h2, s2[n])
  <2>1. n \in DOMAIN s /\ n < k
    BY <1>k, <1>s
  <2>2. s2[n].pc \in {"body", "rust"}
    BY <1>t, <1>e, <2>1 DEF Shaped, PcUnder
  <2> QED BY <2>2 DEF Decoded
<1> QED BY <1>1, <1>2, <1>3, <1>4 DEF Good, s2
-----------------------------------------------------------------------------
\* What the invariant says of the innermost frame.
LEMMA TopIs ==
  ASSUME Good(heap, stack, lost), stack # <<>>
  PROVE  /\ Top \in Frames /\ Top = stack[Len(stack)]
         /\ FrameShape(Top)
         /\ Top.kind = "method" => Below # <<>>
         /\ Holds(Top) \subseteq DOMAIN heap
         /\ Holds(Top) \cap lost = {} /\ Top.bufs \cap ({Top.buf} \ {None}) = {}
         /\ lost \subseteq DOMAIN heap /\ lost \subseteq Buffers
         /\ DOMAIN heap \subseteq Buffers /\ heap \in [DOMAIN heap -> Contents]
<1>1. /\ stack \in Seq(Frames) /\ Shaped(stack) /\ Exclusive(DOMAIN heap, stack, lost)
      /\ lost \subseteq Buffers
      /\ DOMAIN heap \subseteq Buffers /\ heap \in [DOMAIN heap -> Contents]
  BY DEF Good, Typed
<1>2. /\ Len(stack) \in Nat \ {0} /\ Len(stack) \in DOMAIN stack
      /\ Top \in Frames /\ Top = stack[Len(stack)]
      /\ Len(Below) = Len(stack) - 1
  BY <1>1, TopFacts DEF Top, Below
<1>3. FrameShape(Top) /\ (Top.kind = "method" => Len(stack) > 1)
  BY <1>1, <1>2 DEF Shaped
<1>4. Below = <<>> => Len(Below) = 0
  OBVIOUS
<1>5. /\ Holds(Top) \subseteq DOMAIN heap
      /\ Holds(Top) \cap lost = {} /\ Top.bufs \cap ({Top.buf} \ {None}) = {}
      /\ lost \subseteq DOMAIN heap
  BY <1>1, <1>2 DEF Exclusive
<1> QED BY <1>1, <1>2, <1>3, <1>4, <1>5

\* What it says of the frame below it.
LEMMA UnderTop ==
  ASSUME Good(heap, stack, lost), stack # <<>>
  PROVE  /\ Below \in Seq(Frames) /\ Len(Below) = Len(stack) - 1
         /\ Below # <<>> => /\ Below[Len(Below)] = stack[Len(Below)]
                            /\ Below[Len(Below)].pc = PcUnder(Top.kind)
<1>1. stack \in Seq(Frames) /\ Shaped(stack)
  BY DEF Good, Typed
<1>2. /\ Len(stack) \in Nat \ {0} /\ DOMAIN stack = 1..Len(stack)
      /\ Below \in Seq(Frames) /\ Len(Below) = Len(stack) - 1
      /\ \A n \in 1..(Len(stack) - 1) : Below[n] = stack[n]
  BY <1>1, TopFacts DEF Below
<1>3. ASSUME Below # <<>>
      PROVE  /\ Below[Len(Below)] = stack[Len(Below)]
             /\ Below[Len(Below)].pc = PcUnder(Top.kind)
  <2>1. Len(Below) # 0
    BY <1>2, <1>3
  <2>2. /\ Len(stack) - 1 \in DOMAIN stack /\ Len(stack) - 1 < Len(stack)
        /\ Len(stack) - 1 + 1 = Len(stack)
        /\ Below[Len(stack) - 1] = stack[Len(stack) - 1]
    BY <1>2, <2>1
  <2>3. stack[Len(stack) - 1].pc = PcUnder(stack[Len(stack) - 1 + 1].kind)
    BY <1>1, <2>2 DEF Shaped
  <2> QED BY <1>2, <2>2, <2>3 DEF Top
<1> QED BY <1>2, <1>3

\* A buffer is allocated, or some are freed.
LEMMA AllocateType ==
  ASSUME Good(heap, stack, lost), NEW b \in Fresh, NEW c \in Contents, Allocate(b, c)
  PROVE  /\ DOMAIN heap' = DOMAIN heap \cup {b} /\ b \notin DOMAIN heap
         /\ DOMAIN heap' \subseteq Buffers /\ heap' \in [DOMAIN heap' -> Contents]
         /\ heap'[b] = c /\ b # None
BY RustCallAssumption DEF Good, Typed, Fresh, Allocate

\* Freeing leaves the other buffers as they are.
LEMMA FreeType ==
  ASSUME NEW h, NEW bs, DOMAIN h \subseteq Buffers, h \in [DOMAIN h -> Contents],
         NEW h2, h2 = [x \in DOMAIN h \ bs |-> h[x]]
  PROVE  /\ DOMAIN h2 = DOMAIN h \ bs
         /\ DOMAIN h2 \subseteq Buffers /\ h2 \in [DOMAIN h2 -> Contents]
OBVIOUS

\* A frame of a stack in place of the innermost one.
LEMMA NestedExcept ==
  ASSUME NEW s \in Seq(Frames), s # <<>>, NEW x, NEW y, NEW z
  PROVE  /\ [s EXCEPT ![Len(s)].pc = x, ![Len(s)].exc = y]
              = [s EXCEPT ![Len(s)] = [s[Len(s)] EXCEPT !.pc = x, !.exc = y]]
         /\ [s EXCEPT ![Len(s)].pc = x, ![Len(s)].code = y, ![Len(s)].buf = z]
              = [s EXCEPT ![Len(s)] = [s[Len(s)] EXCEPT !.pc = x, !.code = y, !.buf = z]]
<1> DEFINE k == Len(s)
<1>1. k \in DOMAIN s
  BY TopFacts
<1> HIDE DEF k
<1>2. [s EXCEPT ![k].pc = x, ![k].exc = y] = [s EXCEPT ![k] = [s[k] EXCEPT !.pc = x, !.exc = y]]
  BY <1>1
<1>3. [s EXCEPT ![k].pc = x, ![k].code = y, ![k].buf = z]
        = [s EXCEPT ![k] = [s[k] EXCEPT !.pc = x, !.code = y, !.buf = z]]
  BY <1>1
<1> QED BY <1>2, <1>3 DEF k

\* An exception leaves a call that has nothing left: nobody or the method
\* below it gets it.
LEMMA UnwindKeeps ==
  ASSUME Good(heap, stack, lost), stack # <<>>, Top.kind = "call",
         Good(heap', Below, lost'), NEW x \in {"error", "std"}, Unwind(x)
  PROVE  Good(heap', stack', lost')
<1>1. CASE stack' = Below
  BY <1>1
<1>2. CASE Len(stack) # 1 /\ stack' = [Below EXCEPT ![Len(Below)].pc = "catch", ![Len(Below)].exc = x]
  <2> DEFINE u == Below[Len(Below)]
             f == [u EXCEPT !.pc = "catch", !.exc = x]
  <2>1. Below \in Seq(Frames) /\ Below # <<>> /\ u.pc = "body"
    <3>1. Below \in Seq(Frames) /\ Len(Below) = Len(stack) - 1
      BY UnderTop
    <3>2. Len(Below) # 0
      BY <1>2, <3>1 DEF Good, Typed
    <3> QED BY <3>1, <3>2, UnderTop DEF PcUnder
  <2>2. u \in Frames /\ Len(Below) \in DOMAIN Below
    BY <2>1, TopFacts
  <2>3. stack' = [Below EXCEPT ![Len(Below)] = f]
    BY <1>2, <2>1, NestedExcept
  <2>4. /\ FrameShape(u)
        /\ Holds(u) \subseteq DOMAIN heap' /\ Holds(u) \cap lost' = {}
        /\ u.bufs \cap ({u.buf} \ {None}) = {}
    BY <2>2 DEF Good, Shaped, Exclusive
  <2>5. /\ f \in Frames /\ f.kind = u.kind /\ f.pc = "catch"
        /\ f.bufs = u.bufs /\ f.buf = u.buf
    BY <2>2 DEF Frames
  <2>6. u.kind = "method" /\ u.bufs = {} /\ u.buf = None
    BY <2>1, <2>2, <2>4 DEF FrameShape, Frames
  <2> HIDE DEF f, u
  <2>7. FrameShape(f) /\ Holds(f) = Holds(u) /\ Decoded(heap', f)
    BY <2>5, <2>6 DEF FrameShape, Holds, Decoded
  <2>8. /\ DOMAIN heap' \subseteq Buffers /\ heap' \in [DOMAIN heap' -> Contents]
        /\ lost' \subseteq Buffers
    BY DEF Good, Typed
  <2>9. /\ Holds(f) \cap lost' = {} /\ f.bufs \cap ({f.buf} \ {None}) = {}
        /\ lost' \subseteq lost'
        /\ (Holds(f) \cup (lost' \ lost')) \cap (DOMAIN heap' \ Holds(u)) = {}
        /\ DOMAIN heap' = (DOMAIN heap' \ Holds(u)) \cup Holds(f) \cup (lost' \ lost')
    BY <2>4, <2>5, <2>7
  <2> QED BY <2>1, <2>3, <2>5, <2>7, <2>8, <2>9, UpdateKeeps DEF u
<1> QED BY <1>1, <1>2 DEF Unwind

\* A method ends; the Rust call below hears the code and gets the buffer.
LEMMA AnswerKeeps ==
  ASSUME Good(heap, stack, lost), stack # <<>>, Top.kind = "method",
         Top.pc \in {"body", "catch"}, UNCHANGED lost,
         NEW code \in Codes, NEW b \in Buffers \cup {None}, Answer(code, b),
         DOMAIN heap' \subseteq Buffers, heap' \in [DOMAIN heap' -> Contents],
         b \notin DOMAIN heap, DOMAIN heap' = DOMAIN heap \cup ({b} \ {None}),
         b # None => <<code, heap'[b]>> \in Answers
  PROVE  Good(heap', stack', lost')
<1> DEFINE u == Below[Len(Below)]
           f == [u EXCEPT !.pc = "heard", !.code = code, !.buf = b]
<1>1. Below \in Seq(Frames) /\ Below # <<>> /\ u.pc = "rust"
  BY TopIs, UnderTop DEF PcUnder
<1>2. Holds(Top) = {}
  BY TopIs DEF FrameShape, Holds
<1>3. Good(heap, Below, lost)
  <2>1. lost \subseteq lost /\ lost \ lost = {} /\ DOMAIN heap = (DOMAIN heap \ Holds(Top)) \cup {}
    BY <1>2
  <2> QED BY <2>1, TopIs, PopKeeps DEF Below
<1>4. u \in Frames /\ Len(Below) \in DOMAIN Below
  BY <1>1, TopFacts
<1>5. stack' = [Below EXCEPT ![Len(Below)] = f]
  BY <1>1, NestedExcept DEF Answer
<1>6. /\ FrameShape(u)
      /\ Holds(u) \subseteq DOMAIN heap /\ Holds(u) \cap lost = {}
      /\ lost \subseteq DOMAIN heap /\ lost \subseteq Buffers
  BY <1>3, <1>4 DEF Good, Shaped, Exclusive, Typed
<1>7. /\ f \in Frames /\ f.kind = u.kind /\ f.pc = "heard"
      /\ f.bufs = u.bufs /\ f.buf = b /\ f.code = code
  BY <1>4 DEF Frames
<1>8. u.kind = "call" /\ u.buf = None
  BY <1>1, <1>4, <1>6 DEF FrameShape, Frames
<1> HIDE DEF f, u
<1>9. FrameShape(f) /\ Holds(f) = Holds(u) \cup ({b} \ {None}) /\ Decoded(heap', f)
  BY <1>7, <1>8 DEF FrameShape, Holds, Decoded
<1>10. f.bufs \subseteq DOMAIN heap
  BY <1>6, <1>7 DEF Holds
<1>11. /\ Holds(f) \cap lost' = {} /\ f.bufs \cap ({f.buf} \ {None}) = {}
       /\ lost \subseteq lost' /\ lost' \ lost = {}
       /\ (Holds(f) \cup (lost' \ lost)) \cap (DOMAIN heap \ Holds(u)) = {}
       /\ DOMAIN heap' = (DOMAIN heap \ Holds(u)) \cup Holds(f) \cup (lost' \ lost)
  BY <1>6, <1>7, <1>9, <1>10
<1> QED BY <1>1, <1>3, <1>5, <1>6, <1>7, <1>9, <1>11, UpdateKeeps DEF u
-----------------------------------------------------------------------------
\* The actions.  C++ calls a function.
LEMMA CallKeeps ==
  ASSUME Good(heap, stack, lost), NEW throws \in BOOLEAN, NEW n \in 0..MaxArgs, Call(throws, n)
  PROVE  Good(heap', stack', lost')
<1> DEFINE f == [kind |-> "call", pc |-> "lower", throws |-> throws, todo |-> n,
                 bufs |-> {}, code |-> 0, buf |-> None, exc |-> None]
<1>1. /\ f \in Frames /\ f.kind = "call" /\ f.bufs = {} /\ f.buf = None /\ FrameShape(f)
  BY RustCallAssumption DEF Frames, Codes, FrameShape
<1>2. stack # <<>> => stack[Len(stack)].pc = PcUnder(f.kind)
  BY DEF Call, InCpp, At, Top, PcUnder
<1>3. stack' = Append(stack, f) /\ UNCHANGED <<heap, lost>>
  BY DEF Call
<1> HIDE DEF f
<1>4. DOMAIN heap \subseteq Buffers /\ heap \in [DOMAIN heap -> Contents]
  BY DEF Good, Typed
<1>5. f.bufs \cap DOMAIN heap = {} /\ DOMAIN heap = DOMAIN heap \cup f.bufs
  BY <1>1
<1>6. f.kind = "method" => stack # <<>>
  BY <1>1
<1> QED BY <1>1, <1>2, <1>3, <1>4, <1>5, <1>6, PushKeeps

\* One argument is lowered.
LEMMA LowerArgKeeps ==
  ASSUME Good(heap, stack, lost), NEW b \in Buffers, LowerArg(b)
  PROVE  Good(heap', stack', lost')
<1> DEFINE f == [Top EXCEPT !.todo = @ - 1, !.bufs = @ \cup {b}]
<1>1. stack # <<>> /\ Top.kind = "call" /\ Top.pc = "lower" /\ Top.todo > 0
      /\ stack' = [stack EXCEPT ![Len(stack)] = f] /\ UNCHANGED lost /\ b \in Fresh
  BY DEF LowerArg, At, Update
<1>2. /\ DOMAIN heap' = DOMAIN heap \cup {b} /\ b \notin DOMAIN heap
      /\ DOMAIN heap' \subseteq Buffers /\ heap' \in [DOMAIN heap' -> Contents]
  BY <1>1, AllocateType DEF LowerArg, Contents
<1>3. /\ f \in Frames /\ f.kind = Top.kind /\ f.pc = "lower"
      /\ f.bufs = Top.bufs \cup {b} /\ f.buf = Top.buf
  <2>1. Top \in Frames
    BY <1>1, TopIs
  <2>2. Top.todo - 1 \in Nat /\ Top.bufs \cup {b} \in SUBSET Buffers
    BY <1>1, <2>1 DEF Frames
  <2> QED BY <1>1, <2>1, <2>2 DEF Frames
<1>4. Top.buf = None
  BY <1>1, TopIs DEF FrameShape
<1> HIDE DEF f
<1>5. FrameShape(f) /\ Holds(f) = Holds(Top) \cup {b} /\ f.buf = None /\ Decoded(heap', f)
  BY <1>1, <1>3, <1>4 DEF FrameShape, Holds, Decoded
<1>6. /\ Holds(f) \cap lost' = {} /\ f.bufs \cap ({f.buf} \ {None}) = {}
      /\ lost \subseteq lost' /\ lost' \subseteq Buffers
      /\ (Holds(f) \cup (lost' \ lost)) \cap (DOMAIN heap \ Holds(Top)) = {}
      /\ DOMAIN heap' = (DOMAIN heap \ Holds(Top)) \cup Holds(f) \cup (lost' \ lost)
  BY <1>1, <1>2, <1>5, TopIs
<1> QED BY <1>1, <1>2, <1>3, <1>5, <1>6, UpdateKeeps DEF Top

\* Lowering throws, between two arguments or within one.
LEMMA LowerFailsKeeps ==
  ASSUME Good(heap, stack, lost), LowerFails \/ \E b \in Buffers : LowerFailsMidway(b)
  PROVE  Good(heap', stack', lost')
<1>1. stack # <<>> /\ Top.kind = "call" /\ Top.pc = "lower" /\ Unwind("std")
  BY DEF LowerFails, LowerFailsMidway, At
<1>2. Holds(Top) = Top.bufs
  BY <1>1, TopIs DEF FrameShape, Holds
<1>3. Good(heap', Below, lost')
  <2>1. CASE LowerFails
    <3>1. lost' = lost \cup Top.bufs /\ heap' = heap
      BY <2>1 DEF LowerFails
    <3>2. /\ lost \subseteq lost' /\ lost' \subseteq Buffers
          /\ (lost' \ lost) \cap (DOMAIN heap \ Holds(Top)) = {}
          /\ DOMAIN heap' = (DOMAIN heap \ Holds(Top)) \cup (lost' \ lost)
      BY <1>1, <1>2, <3>1, TopIs
    <3>3. DOMAIN heap' \subseteq Buffers /\ heap' \in [DOMAIN heap' -> Contents]
      BY <1>1, <3>1, TopIs
    <3> QED BY <1>1, <3>2, <3>3, PopKeeps DEF Below, Top
  <2>2. ASSUME NEW b \in Buffers, LowerFailsMidway(b)
        PROVE  Good(heap', Below, lost')
    <3>1. lost' = lost \cup Top.bufs \cup {b} /\ b \in Fresh /\ Allocate(b, "value")
      BY <2>2 DEF LowerFailsMidway
    <3>2. /\ DOMAIN heap' = DOMAIN heap \cup {b} /\ b \notin DOMAIN heap
          /\ DOMAIN heap' \subseteq Buffers /\ heap' \in [DOMAIN heap' -> Contents]
      BY <3>1, AllocateType DEF Contents
    <3>3. /\ lost \subseteq lost' /\ lost' \subseteq Buffers
          /\ (lost' \ lost) \cap (DOMAIN heap \ Holds(Top)) = {}
          /\ DOMAIN heap' = (DOMAIN heap \ Holds(Top)) \cup (lost' \ lost)
      BY <1>1, <1>2, <3>1, <3>2, TopIs
    <3> QED BY <1>1, <3>2, <3>3, PopKeeps DEF Below, Top
  <2> QED BY <2>1, <2>2
<1> QED BY <1>1, <1>3, UnwindKeeps

\* The innermost frame moves on, and the buffers stay with it.
LEMMA MoveKeeps ==
  ASSUME NEW h, NEW s, NEW l, Good(h, s, l), s # <<>>,
         NEW f \in Frames, FrameShape(f), Decoded(h, f), f.kind = s[Len(s)].kind,
         f.bufs = s[Len(s)].bufs, f.buf = s[Len(s)].buf
  PROVE  Good(h, [s EXCEPT ![Len(s)] = f], l)
<1> DEFINE u == s[Len(s)]
<1>1. /\ Holds(f) = Holds(u)
      /\ f.bufs \cap ({f.buf} \ {None}) = u.bufs \cap ({u.buf} \ {None})
  BY DEF Holds
<1>2. /\ Holds(u) \subseteq DOMAIN h /\ Holds(u) \cap l = {}
      /\ u.bufs \cap ({u.buf} \ {None}) = {}
      /\ l \subseteq Buffers
      /\ DOMAIN h \subseteq Buffers /\ h \in [DOMAIN h -> Contents]
  <2>1. Len(s) \in DOMAIN s
    BY TopFacts DEF Good, Typed
  <2> QED BY <2>1 DEF Good, Typed, Exclusive
<1> HIDE DEF u
<1>3. /\ Holds(f) \cap l = {} /\ f.bufs \cap ({f.buf} \ {None}) = {}
      /\ l \subseteq l
      /\ (Holds(f) \cup (l \ l)) \cap (DOMAIN h \ Holds(u)) = {}
      /\ DOMAIN h = (DOMAIN h \ Holds(u)) \cup Holds(f) \cup (l \ l)
  BY <1>1, <1>2
<1> QED BY <1>2, <1>3, UpdateKeeps DEF u

\* The arguments are lowered, and Rust is called.
LEMMA InvokeKeeps ==
  ASSUME Good(heap, stack, lost), Invoke
  PROVE  Good(heap', stack', lost')
<1> DEFINE f == [Top EXCEPT !.pc = "rust"]
<1>1. stack # <<>> /\ Top.kind = "call" /\ Top.pc = "lower"
      /\ stack' = [stack EXCEPT ![Len(stack)] = f] /\ UNCHANGED <<heap, lost>>
  BY DEF Invoke, At, Update
<1>2. /\ f \in Frames /\ f.kind = Top.kind /\ f.pc = "rust"
      /\ f.bufs = Top.bufs /\ f.buf = Top.buf
  BY <1>1, TopIs DEF Frames
<1> HIDE DEF f
<1>3. FrameShape(f) /\ Decoded(heap, f)
  BY <1>1, <1>2, TopIs DEF FrameShape, Decoded
<1> QED BY <1>1, <1>2, <1>3, MoveKeeps DEF Top

\* A method's arguments are lifted, its body runs and may throw.
LEMMA BodyKeeps ==
  ASSUME Good(heap, stack, lost), Body \/ \E x \in {"error", "std"} : BodyThrows(x)
  PROVE  Good(heap', stack', lost')
<1>1. CASE Body
  <2> DEFINE f == [Top EXCEPT !.pc = "body"]
  <2>1. stack # <<>> /\ Top.kind = "method" /\ Top.pc = "lift" /\ Top.bufs = {}
        /\ stack' = [stack EXCEPT ![Len(stack)] = f] /\ UNCHANGED <<heap, lost>>
    BY <1>1 DEF Body, At, Update
  <2>2. /\ f \in Frames /\ f.kind = Top.kind /\ f.pc = "body"
        /\ f.bufs = Top.bufs /\ f.buf = Top.buf
    BY <2>1, TopIs DEF Frames
  <2> HIDE DEF f
  <2>3. FrameShape(f) /\ Decoded(heap, f)
    BY <2>1, <2>2, TopIs DEF FrameShape, Decoded
  <2> QED BY <2>1, <2>2, <2>3, MoveKeeps DEF Top
<1>2. ASSUME NEW x \in {"error", "std"}, BodyThrows(x)
      PROVE  Good(heap', stack', lost')
  <2> DEFINE f == [Top EXCEPT !.pc = "catch", !.exc = x]
  <2>1. stack # <<>> /\ Top.kind = "method" /\ Top.pc = "body"
        /\ stack' = [stack EXCEPT ![Len(stack)] = f] /\ UNCHANGED <<heap, lost>>
    BY <1>2 DEF BodyThrows, At, Update
  <2>2. /\ f \in Frames /\ f.kind = Top.kind /\ f.pc = "catch"
        /\ f.bufs = Top.bufs /\ f.buf = Top.buf
    BY <2>1, TopIs DEF Frames
  <2> HIDE DEF f
  <2>3. FrameShape(f) /\ Decoded(heap, f)
    BY <2>1, <2>2, TopIs DEF FrameShape, Decoded
  <2> QED BY <2>1, <2>2, <2>3, MoveKeeps DEF Top
<1> QED BY <1>1, <1>2

\* Rust frees an argument of its function, or a method's lift one of its own.
LEMMA FreeKeeps ==
  ASSUME Good(heap, stack, lost), NEW b \in Buffers, RustFree(b) \/ LiftArg(b)
  PROVE  Good(heap', stack', lost')
<1> DEFINE f == [Top EXCEPT !.bufs = @ \ {b}]
<1>1. stack # <<>> /\ Top.pc \in {"rust", "lift"} /\ b \in Top.bufs
      /\ stack' = [stack EXCEPT ![Len(stack)] = f] /\ UNCHANGED lost
      /\ heap' = [x \in DOMAIN heap \ {b} |-> heap[x]]
  BY DEF RustFree, LiftArg, At, Update, Free
<1>2. /\ DOMAIN heap' = DOMAIN heap \ {b}
      /\ DOMAIN heap' \subseteq Buffers /\ heap' \in [DOMAIN heap' -> Contents]
  BY <1>1, TopIs, FreeType
<1>3. /\ f \in Frames /\ f.kind = Top.kind /\ f.pc = Top.pc
      /\ f.bufs = Top.bufs \ {b} /\ f.buf = Top.buf
  <2>1. Top \in Frames
    BY <1>1, TopIs
  <2>2. Top.bufs \ {b} \in SUBSET Buffers
    BY <2>1 DEF Frames
  <2> QED BY <2>1, <2>2 DEF Frames
<1> HIDE DEF f
<1>4. FrameShape(Top) /\ Top.buf = None
  BY <1>1, TopIs DEF FrameShape
<1>5. FrameShape(f) /\ Holds(f) = Holds(Top) \ {b} /\ b \in Holds(Top)
      /\ f.buf = None /\ Decoded(heap', f)
  BY <1>1, <1>3, <1>4 DEF FrameShape, Holds, Decoded
<1>6. /\ Holds(f) \cap lost' = {} /\ f.bufs \cap ({f.buf} \ {None}) = {}
      /\ lost \subseteq lost' /\ lost' \subseteq Buffers
      /\ (Holds(f) \cup (lost' \ lost)) \cap (DOMAIN heap \ Holds(Top)) = {}
      /\ DOMAIN heap' = (DOMAIN heap \ Holds(Top)) \cup Holds(f) \cup (lost' \ lost)
  BY <1>1, <1>2, <1>5, TopIs
<1> QED BY <1>1, <1>2, <1>3, <1>5, <1>6, UpdateKeeps DEF Top

\* Rust calls a method, with buffers that it has made.
LEMMA CallMethodKeeps ==
  ASSUME Good(heap, stack, lost), NEW throws \in BOOLEAN, NEW bs \in SUBSET Buffers,
         bs \subseteq Fresh, CallMethod(throws, bs)
  PROVE  Good(heap', stack', lost')
<1> DEFINE f == [kind |-> "method", pc |-> "lift", throws |-> throws, todo |-> 0,
                 bufs |-> bs, code |-> 0, buf |-> None, exc |-> None]
<1>1. /\ f \in Frames /\ f.kind = "method" /\ f.bufs = bs /\ f.buf = None /\ FrameShape(f)
  BY DEF Frames, Codes, FrameShape
<1>2. /\ stack # <<>> /\ stack[Len(stack)].pc = PcUnder(f.kind)
      /\ stack' = Append(stack, f) /\ UNCHANGED lost
      /\ heap' = [x \in DOMAIN heap \cup bs |-> IF x \in bs THEN "value" ELSE heap[x]]
  BY DEF CallMethod, At, Top, PcUnder
<1> HIDE DEF f
<1>3. DOMAIN heap \subseteq Buffers /\ heap \in [DOMAIN heap -> Contents]
  BY DEF Good, Typed
<1>4. /\ DOMAIN heap' = DOMAIN heap \cup bs /\ DOMAIN heap' \subseteq Buffers
      /\ heap' \in [DOMAIN heap' -> Contents]
      /\ bs \cap DOMAIN heap = {}
  BY <1>2, <1>3 DEF Contents, Fresh
<1> QED BY <1>1, <1>2, <1>4, PushKeeps

\* Rust frees what came with a method's status.
LEMMA HearKeeps ==
  ASSUME Good(heap, stack, lost), Hear
  PROVE  Good(heap', stack', lost')
<1> DEFINE f == [Top EXCEPT !.pc = "rust", !.code = 0, !.buf = None]
<1>1. stack # <<>> /\ Top.kind = "call" /\ Top.pc = "heard"
      /\ stack' = [stack EXCEPT ![Len(stack)] = f] /\ UNCHANGED lost
      /\ heap' = [x \in DOMAIN heap \ ({Top.buf} \ {None}) |-> heap[x]]
  BY DEF Hear, At, Update, Free, BufferOf
<1>2. /\ DOMAIN heap' = DOMAIN heap \ ({Top.buf} \ {None})
      /\ DOMAIN heap' \subseteq Buffers /\ heap' \in [DOMAIN heap' -> Contents]
  BY <1>1, TopIs, FreeType
<1>3. /\ f \in Frames /\ f.kind = Top.kind /\ f.pc = "rust"
      /\ f.bufs = Top.bufs /\ f.buf = None
  BY <1>1, TopIs DEF Frames, Codes
<1> HIDE DEF f
<1>4. FrameShape(f) /\ Holds(f) = Top.bufs /\ Decoded(heap', f)
  BY <1>1, <1>3, TopIs DEF FrameShape, Holds, Decoded
<1>5. /\ Top.bufs \subseteq DOMAIN heap /\ Top.bufs \cap lost = {}
      /\ Top.bufs \cap ({Top.buf} \ {None}) = {}
      /\ Holds(Top) = Top.bufs \cup ({Top.buf} \ {None})
      /\ lost \subseteq Buffers
  BY <1>1, TopIs DEF Holds
<1>6. /\ Holds(f) \cap lost' = {} /\ f.bufs \cap ({f.buf} \ {None}) = {}
      /\ lost \subseteq lost' /\ lost' \subseteq Buffers
      /\ (Holds(f) \cup (lost' \ lost)) \cap (DOMAIN heap \ Holds(Top)) = {}
      /\ DOMAIN heap' = (DOMAIN heap \ Holds(Top)) \cup Holds(f) \cup (lost' \ lost)
  BY <1>1, <1>2, <1>3, <1>4, <1>5
<1> QED BY <1>1, <1>2, <1>3, <1>4, <1>6, UpdateKeeps DEF Top

\* A Rust function returns a value, an error or a panic.
LEMMA RustReturnKeeps ==
  ASSUME Good(heap, stack, lost), NEW a \in Answers, NEW b \in Buffers \cup {None},
         RustReturn(a, b)
  PROVE  Good(heap', stack', lost')
<1> DEFINE f == [Top EXCEPT !.pc = "check", !.code = a[1], !.buf = b]
<1>1. stack # <<>> /\ Top.kind = "call" /\ Top.pc = "rust" /\ Top.bufs = {}
      /\ stack' = [stack EXCEPT ![Len(stack)] = f] /\ UNCHANGED lost
  BY DEF RustReturn, At, Update
<1>2. a[1] \in Codes /\ a[2] \in Contents /\ <<a[1], a[2]>> \in Answers
  BY DEF Answers, Codes, Contents
<1>3. /\ b # None => b \notin DOMAIN heap /\ heap'[b] = a[2]
      /\ DOMAIN heap' = DOMAIN heap \cup ({b} \ {None})
      /\ DOMAIN heap' \subseteq Buffers /\ heap' \in [DOMAIN heap' -> Contents]
  <2>1. CASE b = None
    BY <1>1, <2>1, TopIs DEF RustReturn
  <2>2. CASE b # None
    <3>1. b \in Fresh /\ Allocate(b, a[2])
      BY <2>2 DEF RustReturn
    <3> QED BY <1>2, <2>2, <3>1, AllocateType
  <2> QED BY <2>1, <2>2
<1>4. /\ f \in Frames /\ f.kind = Top.kind /\ f.pc = "check"
      /\ f.bufs = {} /\ f.buf = b /\ f.code = a[1]
  BY <1>1, <1>2, TopIs DEF Frames
<1>5. Holds(Top) = {}
  BY <1>1, TopIs DEF FrameShape, Holds
<1> HIDE DEF f
<1>6. FrameShape(f) /\ Holds(f) = {b} \ {None} /\ Decoded(heap', f)
  BY <1>1, <1>2, <1>3, <1>4, TopIs DEF FrameShape, Holds, Decoded
<1>7. lost \subseteq DOMAIN heap /\ lost \subseteq Buffers
  BY <1>1, TopIs
<1>8. /\ Holds(f) \cap lost' = {} /\ f.bufs \cap ({f.buf} \ {None}) = {}
      /\ lost \subseteq lost' /\ lost' \subseteq Buffers
      /\ (Holds(f) \cup (lost' \ lost)) \cap (DOMAIN heap \ Holds(Top)) = {}
      /\ DOMAIN heap' = (DOMAIN heap \ Holds(Top)) \cup Holds(f) \cup (lost' \ lost)
  BY <1>1, <1>3, <1>4, <1>5, <1>6, <1>7
<1> QED BY <1>1, <1>3, <1>4, <1>6, <1>8, UpdateKeeps DEF Top

\* check_rust_call: the answer's buffer is freed, or lost when reading throws.
LEMMA CheckKeeps ==
  ASSUME Good(heap, stack, lost), LiftResult \/ ThrowError \/ ThrowPanic \/ LiftFails
  PROVE  Good(heap', stack', lost')
<1>1. stack # <<>> /\ Top.kind = "call" /\ Top.pc = "check"
  BY DEF LiftResult, ThrowError, ThrowPanic, LiftFails, At
<1>2. Holds(Top) = {Top.buf} \ {None}
  BY <1>1, TopIs DEF FrameShape, Holds
<1>3. ASSUME Free(BufferOf(Top)), UNCHANGED lost
      PROVE  Good(heap', Below, lost')
  <2>1. heap' = [x \in DOMAIN heap \ Holds(Top) |-> heap[x]]
    BY <1>2, <1>3 DEF Free, BufferOf
  <2>2. /\ DOMAIN heap' = DOMAIN heap \ Holds(Top)
        /\ DOMAIN heap' \subseteq Buffers /\ heap' \in [DOMAIN heap' -> Contents]
    BY <1>1, <2>1, TopIs, FreeType
  <2>3. /\ lost \subseteq lost' /\ lost' \subseteq Buffers
        /\ (lost' \ lost) \cap (DOMAIN heap \ Holds(Top)) = {}
        /\ DOMAIN heap' = (DOMAIN heap \ Holds(Top)) \cup (lost' \ lost)
    BY <1>1, <1>3, <2>2, TopIs
  <2> QED BY <1>1, <2>2, <2>3, PopKeeps DEF Below, Top
<1>4. CASE LiftResult
  BY <1>3, <1>4 DEF LiftResult
<1>5. CASE ThrowError
  BY <1>1, <1>3, <1>5, UnwindKeeps DEF ThrowError
<1>6. CASE ThrowPanic
  BY <1>1, <1>3, <1>6, UnwindKeeps DEF ThrowPanic
<1>7. CASE LiftFails
  <2>1. lost' = lost \cup {Top.buf} /\ Top.buf # None /\ heap' = heap /\ Unwind("std")
    BY <1>7 DEF LiftFails
  <2>2. /\ lost \subseteq lost' /\ lost' \subseteq Buffers
        /\ (lost' \ lost) \cap (DOMAIN heap \ Holds(Top)) = {}
        /\ DOMAIN heap' = (DOMAIN heap \ Holds(Top)) \cup (lost' \ lost)
        /\ DOMAIN heap' \subseteq Buffers /\ heap' \in [DOMAIN heap' -> Contents]
    BY <1>1, <1>2, <2>1, TopIs
  <2>3. Good(heap', Below, lost')
    BY <1>1, <2>2, PopKeeps DEF Below, Top
  <2> QED BY <1>1, <2>1, <2>3, UnwindKeeps
<1> QED BY <1>4, <1>5, <1>6, <1>7

\* A method's arguments are lost when lifting one throws.
LEMMA LiftArgFailsKeeps ==
  ASSUME Good(heap, stack, lost), LiftArgFails
  PROVE  Good(heap', stack', lost')
<1> DEFINE f == [Top EXCEPT !.pc = "catch", !.bufs = {}, !.exc = "std"]
<1>1. stack # <<>> /\ Top.kind = "method" /\ Top.pc = "lift"
      /\ lost' = lost \cup Top.bufs
      /\ stack' = [stack EXCEPT ![Len(stack)] = f] /\ heap' = heap
  BY DEF LiftArgFails, At, Update
<1>2. /\ f \in Frames /\ f.kind = Top.kind /\ f.pc = "catch"
      /\ f.bufs = {} /\ f.buf = Top.buf
  BY <1>1, TopIs DEF Frames
<1> HIDE DEF f
<1>3. Top.buf = None
  BY <1>1, TopIs DEF FrameShape
<1>4. FrameShape(f) /\ Holds(f) = {} /\ Decoded(heap', f)
  BY <1>1, <1>2, <1>3 DEF FrameShape, Holds, Decoded
<1>5. Holds(Top) = Top.bufs
  BY <1>3 DEF Holds
<1>6. /\ Holds(f) \cap lost' = {} /\ f.bufs \cap ({f.buf} \ {None}) = {}
      /\ lost \subseteq lost' /\ lost' \subseteq Buffers
      /\ (Holds(f) \cup (lost' \ lost)) \cap (DOMAIN heap \ Holds(Top)) = {}
      /\ DOMAIN heap' = (DOMAIN heap \ Holds(Top)) \cup Holds(f) \cup (lost' \ lost)
      /\ DOMAIN heap' \subseteq Buffers /\ heap' \in [DOMAIN heap' -> Contents]
  BY <1>1, <1>2, <1>4, <1>5, TopIs
<1> QED BY <1>1, <1>2, <1>4, <1>6, UpdateKeeps DEF Top

\* Lowering a method's result, or its error, throws after the allocation.
LEMMA MethodLoses ==
  ASSUME Good(heap, stack, lost), NEW b \in Buffers, WriteFails(b) \/ CatchErrorFails(b)
  PROVE  Good(heap', stack', lost')
<1> DEFINE f == stack'[Len(stack)]
<1>1. /\ stack # <<>> /\ Top.kind = "method" /\ Top.pc \in {"body", "catch"}
      /\ b \in Fresh /\ lost' = lost \cup {b}
      /\ Allocate(b, "value") \/ Allocate(b, "error")
      /\ \/ stack' = [stack EXCEPT ![Len(stack)] = [Top EXCEPT !.pc = "catch", !.exc = "std"]]
         \/ stack' = [stack EXCEPT ![Len(stack)] = [Top EXCEPT !.code = 1, !.exc = "std"]]
  BY DEF WriteFails, CatchErrorFails, At, Update
<1>2. /\ DOMAIN heap' = DOMAIN heap \cup {b} /\ b \notin DOMAIN heap
      /\ DOMAIN heap' \subseteq Buffers /\ heap' \in [DOMAIN heap' -> Contents]
  BY <1>1, AllocateType DEF Contents
<1>3. stack \in Seq(Frames) /\ Len(stack) \in DOMAIN stack
  BY <1>1, TopFacts DEF Good, Typed
<1>4. stack' = [stack EXCEPT ![Len(stack)] = f]
  BY <1>1, <1>3
<1>5. /\ f \in Frames /\ f.kind = Top.kind /\ f.pc \in {"body", "catch"}
      /\ f.bufs = Top.bufs /\ f.buf = Top.buf
  <2>1. Top \in Frames
    BY <1>1, TopIs
  <2>2. f = [Top EXCEPT !.pc = "catch", !.exc = "std"] \/ f = [Top EXCEPT !.code = 1, !.exc = "std"]
    BY <1>1, <1>3
  <2> HIDE DEF f
  <2>3. CASE f = [Top EXCEPT !.pc = "catch", !.exc = "std"]
    BY <2>1, <2>3 DEF Frames
  <2>4. CASE f = [Top EXCEPT !.code = 1, !.exc = "std"]
    BY <1>1, <2>1, <2>4 DEF Frames, Codes
  <2> QED BY <2>2, <2>3, <2>4
<1> HIDE DEF f
<1>6. Top.buf = None /\ Top.bufs = {} /\ Holds(Top) = {}
  BY <1>1, TopIs DEF FrameShape, Holds
<1>7. FrameShape(f) /\ Holds(f) = {} /\ Decoded(heap', f)
  BY <1>1, <1>5, <1>6 DEF FrameShape, Holds, Decoded
<1>8. /\ Holds(f) \cap lost' = {} /\ f.bufs \cap ({f.buf} \ {None}) = {}
      /\ lost \subseteq lost' /\ lost' \subseteq Buffers
      /\ (Holds(f) \cup (lost' \ lost)) \cap (DOMAIN heap \ Holds(Top)) = {}
      /\ DOMAIN heap' = (DOMAIN heap \ Holds(Top)) \cup Holds(f) \cup (lost' \ lost)
  BY <1>1, <1>2, <1>5, <1>6, <1>7, TopIs
<1> QED BY <1>1, <1>2, <1>4, <1>5, <1>7, <1>8, UpdateKeeps DEF Top

\* A method ends with its value, its declared error or anything else.
LEMMA MethodAnswers ==
  ASSUME Good(heap, stack, lost), NEW b \in Buffers \cup {None},
         WriteValue(b) \/ (b # None /\ (CatchError(b) \/ CatchStd(b)))
  PROVE  Good(heap', stack', lost')
<1>1. stack # <<>> /\ Top.kind = "method" /\ Top.pc \in {"body", "catch"} /\ UNCHANGED lost
  BY DEF WriteValue, CatchError, CatchStd, At
<1>2. ASSUME NEW c \in Contents, b \in Fresh, Allocate(b, c)
      PROVE  /\ DOMAIN heap' \subseteq Buffers /\ heap' \in [DOMAIN heap' -> Contents]
             /\ b \notin DOMAIN heap /\ DOMAIN heap' = DOMAIN heap \cup ({b} \ {None})
             /\ heap'[b] = c
  <2>1. /\ DOMAIN heap' = DOMAIN heap \cup {b} /\ b \notin DOMAIN heap
        /\ DOMAIN heap' \subseteq Buffers /\ heap' \in [DOMAIN heap' -> Contents]
        /\ heap'[b] = c /\ b # None
    BY <1>2, AllocateType
  <2> QED BY <2>1
<1>3. CASE WriteValue(b)
  <2>1. Answer(0, b) /\ 0 \in Codes /\ <<0, "value">> \in Answers /\ "value" \in Contents
    BY <1>3 DEF WriteValue, Codes, Answers, Contents
  <2>2. CASE b = None
    <3>1. heap' = heap /\ b \notin DOMAIN heap
      BY <1>1, <1>3, <2>2, TopIs, RustCallAssumption DEF WriteValue
    <3>2. /\ DOMAIN heap' \subseteq Buffers /\ heap' \in [DOMAIN heap' -> Contents]
          /\ DOMAIN heap' = DOMAIN heap \cup ({b} \ {None})
      BY <1>1, <2>2, <3>1, TopIs
    <3> QED BY <1>1, <2>1, <2>2, <3>1, <3>2, AnswerKeeps
  <2>3. CASE b # None
    <3>1. b \in Fresh /\ Allocate(b, "value")
      BY <1>3, <2>3 DEF WriteValue
    <3> QED BY <1>1, <1>2, <2>1, <3>1, AnswerKeeps
  <2> QED BY <2>2, <2>3
<1>4. CASE CatchError(b)
  <2>1. Answer(1, b) /\ 1 \in Codes /\ <<1, "error">> \in Answers /\ "error" \in Contents
        /\ b \in Fresh /\ Allocate(b, "error")
    BY <1>4 DEF CatchError, Codes, Answers, Contents
  <2> QED BY <1>1, <1>2, <2>1, AnswerKeeps
<1>5. CASE CatchStd(b)
  <2>1. Answer(2, b) /\ 2 \in Codes /\ <<2, "message">> \in Answers /\ "message" \in Contents
        /\ b \in Fresh /\ Allocate(b, "message")
    BY <1>5 DEF CatchStd, Codes, Answers, Contents
  <2> QED BY <1>1, <1>2, <2>1, AnswerKeeps
<1> QED BY <1>3, <1>4, <1>5
-----------------------------------------------------------------------------
\* At first there is nothing.
LEMMA InitGood == Init => Good(heap, stack, lost) /\ failures \in Nat
<1> SUFFICES ASSUME Init PROVE Good(heap, stack, lost) /\ failures \in Nat
  OBVIOUS
<1>1. /\ DOMAIN heap = {} /\ heap \in [DOMAIN heap -> Contents]
      /\ stack \in Seq(Frames) /\ DOMAIN stack = {} /\ lost = {} /\ failures \in Nat
  BY DEF Init, Contents
<1> QED BY <1>1 DEF Good, Typed, Shaped, Exclusive

\* Conversions that fail are counted, and nothing else is.
LEMMA FailuresCounted ==
  ASSUME failures \in Nat, Next
  PROVE  failures' \in Nat
<1>1. CallStep => Fail \/ UNCHANGED failures
  BY DEF CallStep, Call, LowerArg, LowerFailsMidway, LowerFails, Invoke, LiftResult,
         ThrowError, ThrowPanic, LiftFails
<1>2. RustStep => UNCHANGED failures
  BY DEF RustStep, RustFree, CallMethod, Hear, RustReturn
<1>3. MethodStep => Fail \/ UNCHANGED failures
  BY DEF MethodStep, LiftArg, WriteFails, CatchError, CatchErrorFails, CatchStd, WriteValue,
         LiftArgFails, Body, BodyThrows
<1>4. Fail => failures' \in Nat
  BY DEF Fail
<1> QED BY <1>1, <1>2, <1>3, <1>4 DEF Next

\* Every step keeps the invariant.
LEMMA NextKeeps ==
  ASSUME Good(heap, stack, lost), Next
  PROVE  Good(heap', stack', lost')
<1>1. CASE CallStep
  <2>1. ASSUME NEW throws \in BOOLEAN, NEW n \in 0..MaxArgs, Call(throws, n)
        PROVE  Good(heap', stack', lost')
    BY <2>1, CallKeeps
  <2>2. ASSUME NEW b \in Buffers, LowerArg(b)
        PROVE  Good(heap', stack', lost')
    BY <2>2, LowerArgKeeps
  <2>3. CASE LowerFails \/ \E b \in Buffers : LowerFailsMidway(b)
    BY <2>3, LowerFailsKeeps
  <2>4. CASE Invoke
    BY <2>4, InvokeKeeps
  <2>5. CASE LiftResult \/ ThrowError \/ ThrowPanic \/ LiftFails
    BY <2>5, CheckKeeps
  <2> QED BY <1>1, <2>1, <2>2, <2>3, <2>4, <2>5 DEF CallStep
<1>2. CASE RustStep
  <2>1. ASSUME NEW b \in Buffers, RustFree(b)
        PROVE  Good(heap', stack', lost')
    BY <2>1, FreeKeeps
  <2>2. ASSUME NEW throws \in BOOLEAN, NEW bs \in SUBSET Fresh, CallMethod(throws, bs)
        PROVE  Good(heap', stack', lost')
    <3>1. bs \subseteq Fresh /\ bs \in SUBSET Buffers
      BY DEF Fresh
    <3> QED BY <2>2, <3>1, CallMethodKeeps
  <2>3. CASE Hear
    BY <2>3, HearKeeps
  <2>4. ASSUME NEW a \in Answers, NEW b \in Buffers \cup {None}, RustReturn(a, b)
        PROVE  Good(heap', stack', lost')
    BY <2>4, RustReturnKeeps
  <2> QED BY <1>2, <2>1, <2>2, <2>3, <2>4 DEF RustStep
<1>3. CASE MethodStep
  <2>1. ASSUME NEW b \in Buffers,
               LiftArg(b) \/ WriteFails(b) \/ CatchError(b) \/ CatchErrorFails(b) \/ CatchStd(b)
        PROVE  Good(heap', stack', lost')
    <3>1. b # None /\ b \in Buffers \cup {None}
      BY RustCallAssumption
    <3> QED BY <2>1, <3>1, FreeKeeps, MethodLoses, MethodAnswers
  <2>2. ASSUME NEW b \in Buffers \cup {None}, WriteValue(b)
        PROVE  Good(heap', stack', lost')
    BY <2>2, MethodAnswers
  <2>3. CASE LiftArgFails
    BY <2>3, LiftArgFailsKeeps
  <2>4. CASE Body \/ \E x \in {"error", "std"} : BodyThrows(x)
    BY <2>4, BodyKeeps
  <2> QED BY <1>3, <2>1, <2>2, <2>3, <2>4 DEF MethodStep
<1> QED BY <1>1, <1>2, <1>3 DEF Next

\* The inductive invariant of the stack, the heap and the lost buffers.
THEOREM Invariance == Spec => []IInv
<1>1. Init => IInv
  BY InitGood, GoodIsIInv
<1>2. IInv /\ [Next]_vars => IInv'
  <2> SUFFICES ASSUME IInv, [Next]_vars PROVE IInv'
    OBVIOUS
  <2>1. Good(heap, stack, lost) /\ failures \in Nat
    BY GoodIsIInv
  <2>2. CASE Next
    <3>1. Good(heap', stack', lost') /\ failures' \in Nat
      BY <2>1, <2>2, NextKeeps, FailuresCounted
    <3> QED BY <3>1, GoodIsIInvNext
  <2>3. CASE UNCHANGED vars
    BY <2>3 DEF vars, IInv, TypeOK, ShapeInv, BuffersHeldOnce, DecodedAsWritten, Held
  <2> QED BY <2>2, <2>3
<1> QED BY <1>1, <1>2, PTL DEF Spec

\* The variables have their types.
THEOREM TypeCorrect == Spec => []TypeOK
<1>1. IInv => TypeOK
  BY DEF IInv
<1> QED BY <1>1, Invariance, PTL

\* However deep calls, methods and exceptions nest, and wherever conversions
\* fail, each buffer is held once and freed once or lost.
THEOREM EveryBufferHeldOnce == Spec => []BuffersHeldOnce
<1>1. IInv => BuffersHeldOnce
  BY DEF IInv
<1> QED BY <1>1, Invariance, PTL

\* The code that comes with a buffer says what is in it.
THEOREM CodeNamesContent == Spec => []DecodedAsWritten
<1>1. IInv => DecodedAsWritten
  BY DEF IInv
<1> QED BY <1>1, Invariance, PTL
-----------------------------------------------------------------------------
(***************************************************************************)
(* Codec.  Induction, and recursive functions of numbers: the first number *)
(* of which something does not hold has a number before it.                *)
(***************************************************************************)
\* Induction over the numbers up to n, for a set of numbers.
LEMMA Induction ==
  ASSUME NEW n \in Nat, NEW S, 0 \in S, \A k \in 1..n : k - 1 \in S => k \in S
  PROVE  0..n \subseteq S
<1> DEFINE T == (0..n) \ S
<1> SUFFICES ASSUME T # {} PROVE FALSE
    OBVIOUS
<1>1. T \subseteq Nat
    OBVIOUS
<1>2. PICK k \in T : \A j \in T : <<j, k>> \notin OpToRel(<, Nat)
  <2> HIDE DEF T
  <2> QED BY <1>1, NatLessThanWellFounded, WFMin
<1>3. k \in 1..n /\ k - 1 \in 0..n
    OBVIOUS
<1>4. k - 1 \in T
    BY <1>3
<1>5. <<k - 1, k>> \in OpToRel(<, Nat)
    BY <1>3 DEF OpToRel
<1> QED BY <1>2, <1>4, <1>5

\* f starts with x and applies g to every number up to n in turn, which is
\* what the recursive definitions do.
Iterates(f, n, S, x, g) ==
  /\ f \in [0..n -> S]
  /\ f[0] = x
  /\ \A k \in 1..n : f[k] = g[k][f[k - 1]]

\* There is such a function for any start and steps.
LEMMA Iteration ==
  ASSUME NEW n \in Nat, NEW S, NEW x \in S, NEW g \in [1..n -> [S -> S]]
  PROVE  \E f : Iterates(f, n, S, x, g)
<1> DEFINE M == {m \in 0..n : \E f : Iterates(f, m, S, x, g)}
<1>1. 0 \in M
  <2>1. Iterates([k \in 0..0 |-> x], 0, S, x, g)
      BY DEF Iterates
  <2> QED BY <2>1
<1>2. ASSUME NEW m \in 1..n, m - 1 \in M PROVE m \in M
  <2>1. PICK f : Iterates(f, m - 1, S, x, g)
      BY <1>2
  <2> DEFINE h == [k \in 0..m |-> IF k < m THEN f[k] ELSE g[m][f[m - 1]]]
  <2>2. m - 1 \in 0..(m - 1) /\ f[m - 1] \in S
      BY <2>1 DEF Iterates
  <2>3. g[m][f[m - 1]] \in S
      BY <2>2
  <2>4. \A k \in 0..m : k < m => k \in 0..(m - 1) /\ f[k] \in S
      BY <2>1 DEF Iterates
  <2>5. h \in [0..m -> S] /\ h[0] = x
      BY <2>1, <2>3, <2>4 DEF Iterates
  <2>6. ASSUME NEW k \in 1..m PROVE h[k] = g[k][h[k - 1]]
    <3>1. CASE k < m
      <4>1. k \in 1..(m - 1) /\ k - 1 < m /\ k - 1 \in 0..m /\ k \in 0..m
          BY <3>1
      <4>2. h[k] = f[k] /\ h[k - 1] = f[k - 1]
          BY <3>1, <4>1
      <4> QED BY <2>1, <4>1, <4>2 DEF Iterates
    <3>2. CASE k = m
      <4>1. h[m - 1] = f[m - 1] /\ h[m] = g[m][f[m - 1]]
          BY <2>2
      <4> QED BY <3>2, <4>1
    <3> QED BY <3>1, <3>2
  <2> HIDE DEF h
  <2>7. Iterates(h, m, S, x, g)
      BY <2>5, <2>6 DEF Iterates
  <2> QED BY <2>7
<1>3. 0..n \subseteq M
  <2> HIDE DEF M
  <2> QED BY <1>1, <1>2, Induction
<1> QED BY <1>3
\* What a recursive definition of h says of h: enough for h to be this function.
LEMMA Recursion ==
  ASSUME NEW n \in Nat, NEW S, NEW x \in S, NEW g \in [1..n -> [S -> S]],
         NEW h, h = [k \in 0..n |-> h[k]], h[0] = x,
         \A k \in 1..n : h[k - 1] \in S => h[k] = g[k][h[k - 1]]
  PROVE  Iterates(h, n, S, x, g)
<1> DEFINE P == {k \in 0..n : h[k] \in S}
<1>1. 0 \in P
    OBVIOUS
<1>2. ASSUME NEW k \in 1..n, k - 1 \in P PROVE k \in P
  <2>1. h[k - 1] \in S /\ k \in 0..n
      BY <1>2
  <2>2. g[k] \in [S -> S] /\ h[k] = g[k][h[k - 1]]
      BY <2>1
  <2>3. h[k] \in S
      BY <2>1, <2>2
  <2> QED BY <2>1, <2>3
<1>3. 0..n \subseteq P
  <2> HIDE DEF P
  <2> QED BY <1>1, <1>2, Induction
<1>4. \A k \in 1..n : k - 1 \in 0..n
    OBVIOUS
<1> QED BY <1>3, <1>4 DEF Iterates

-----------------------------------------------------------------------------
(***************************************************************************)
(* Numbers.                                                                *)
(***************************************************************************)
LEMMA PowerValues ==
  /\ \A k \in 0..Int64 : Power[k] \in Nat \ {0}
  /\ Power[0] = 1
  /\ \A k \in 1..Int64 : Power[k] = Base * Power[k - 1]
<1> DEFINE S == Nat \ {0}
           g == [k \in 1..8 |-> [p \in S |-> Base * p]]
<1>1. Base \in Nat /\ Base > 1
    BY CodecAssumption
<1>2. \A b \in S : Base * b \in S
    BY <1>1
<1>3. g \in [1..8 -> [S -> S]] /\ 1 \in S
    BY <1>2
<1>4. PICK f : Iterates(f, 8, S, 1, g)
  <2> HIDE DEF g, S
  <2> QED BY <1>3, Iteration
<1>5. f = [k \in 0..8 |-> IF k = 0 THEN 1 ELSE Base * f[k - 1]]
  <2>1. ASSUME NEW k \in 1..8 PROVE f[k] = Base * f[k - 1]
    <3>1. k - 1 \in 0..8
        OBVIOUS
    <3>2. f[k - 1] \in S
        BY <1>4, <3>1 DEF Iterates
    <3> QED BY <1>4, <3>2 DEF Iterates
  <2> QED BY <1>4, <2>1 DEF Iterates
<1>6. Power = [k \in 0..8 |-> IF k = 0 THEN 1 ELSE Base * Power[k - 1]]
    BY <1>5 DEF Power, Int64
<1> HIDE DEF g, S
<1> DEFINE P == {k \in 0..8 : Power[k] \in S}
<1>7. 0 \in P
    BY <1>3, <1>6
<1>8. ASSUME NEW k \in 1..8, k - 1 \in P PROVE k \in P
  <2>1. k \in 0..8 /\ k # 0
      OBVIOUS
  <2>2. Power[k] = Base * Power[k - 1]
      BY <1>6, <2>1
  <2> QED BY <1>8, <1>2, <2>1, <2>2
<1>9. 0..8 \subseteq P
  <2> HIDE DEF P
  <2> QED BY <1>7, <1>8, Induction
<1> QED BY <1>6, <1>9 DEF Int64, S

\* A single byte.
LEMMA PowerOne == Power[1] = Base
<1>1. Base \in Nat
    BY CodecAssumption
<1>2. 1 \in 1..Int64 /\ 1 - 1 = 0
    BY DEF Int64
<1>3. Power[1] = Base * Power[1 - 1]
    BY <1>2, PowerValues
<1>4. Power[1 - 1] = 1
    BY PowerValues
<1> QED BY <1>1, <1>3, <1>4

\* Euclid's division, and that it is the only one.
LEMMA DivMod ==
  ASSUME NEW a \in Int, NEW b \in Nat \ {0}
  PROVE  a \div b \in Int /\ a % b \in 0..(b - 1) /\ a = b * (a \div b) + (a % b)
<1>1. b \in Nat /\ b > 0
    OBVIOUS
<1>2. a \div b \in Int /\ a % b \in 0..(b - 1)
    BY <1>1
<1>3. a = b * (a \div b) + (a % b)
    BY <1>1, Z3
<1> QED BY <1>2, <1>3

\* The only multiple of a number that is smaller than it is zero.
LEMMA Multiple ==
  ASSUME NEW d \in Int, NEW b \in Nat \ {0}, b * d < b, -b < b * d
  PROVE  d = 0
<1>1. CASE d >= 1
  <2>1. b * d >= b * 1
      BY <1>1
  <2> QED BY <2>1
<1>2. CASE d <= -1
  <2>1. b * d <= b * (-1)
      BY <1>2
  <2> QED BY <2>1
<1> QED BY <1>1, <1>2

\* Quotient and remainder are the only ones.
LEMMA DivModUnique ==
  ASSUME NEW a \in Int, NEW b \in Nat \ {0}, NEW q \in Int, NEW r \in 0..(b - 1), a = b * q + r
  PROVE  a \div b = q /\ a % b = r
<1> DEFINE e == a \div b  m == a % b
<1>1. e \in Int /\ m \in 0..(b - 1) /\ b * e + m = b * q + r
    BY DivMod
<1> HIDE DEF e, m
<1>2. b * (q - e) = m - r
    BY <1>1
<1>3. b * (q - e) < b /\ -b < b * (q - e)
    BY <1>1, <1>2
<1>4. q - e = 0
    BY <1>1, <1>3, Multiple
<1>5. e = q /\ m = r
    BY <1>1, <1>4
<1> QED BY <1>5 DEF e, m

\* Division by a product is division by one factor and then by the other.
LEMMA DivModProduct ==
  ASSUME NEW a \in Int, NEW b \in Nat \ {0}, NEW c \in Nat \ {0}
  PROVE  /\ a \div (b * c) = (a \div b) \div c
         /\ a % (b * c) = b * ((a \div b) % c) + (a % b)
<1> DEFINE q == a \div b  r == a % b  s == q \div c  t == q % c  m == b * c
<1>1. q \in Int /\ r \in 0..(b - 1) /\ a = b * q + r
    BY DivMod
<1>2. s \in Int /\ t \in 0..(c - 1) /\ q = c * s + t
  <2> HIDE DEF q
  <2> QED BY <1>1, DivMod
<1>3. m \in Nat \ {0}
  <2>1. c - 1 \in Nat
      OBVIOUS
  <2>2. b * (c - 1) >= 0
      BY <2>1
  <2> QED BY <2>2
<1> HIDE DEF q, r, s, t
<1>4. b * t + r \in 0..(m - 1)
  <2>1. b * t >= 0
      BY <1>2
  <2>2. c - 1 - t \in Nat
      BY <1>2
  <2>3. b * (c - 1 - t) >= 0
      BY <2>2
  <2>4. b * (c - 1 - t) = b * c - b - b * t
      BY <1>2
  <2> QED BY <2>1, <2>3, <2>4, <1>1, <1>2
<1>5. a = m * s + (b * t + r)
  <2>1. b * q = b * (c * s) + b * t
      BY <1>2
  <2>2. b * (c * s) = (b * c) * s
      BY <1>2
  <2> QED BY <1>1, <2>1, <2>2, <1>2
<1> HIDE DEF m
<1>6. a \div m = s /\ a % m = b * t + r
    BY <1>2, <1>3, <1>4, <1>5, DivModUnique
<1> QED BY <1>6 DEF m, q, r, s, t

\* What Unsigned computes, byte by byte.
LEMMA UnsignedSteps ==
  ASSUME NEW bs \in Seq(Byte)
  PROVE  \E n \in [0..Len(bs) -> Nat] :
           /\ n[0] = 0 /\ Unsigned(bs) = n[Len(bs)]
           /\ \A k \in 1..Len(bs) : n[k] = n[k - 1] * Base + bs[k]
<1> DEFINE N == Len(bs)
           Step(h, k) == h[k - 1] * Base + bs[k]
           g == [k \in 1..N |-> [p \in Nat |-> p * Base + bs[k]]]
           Is(h) == h = [k \in 0..N |-> IF k = 0 THEN 0 ELSE Step(h, k)]
           n == CHOOSE h : Is(h)
<1>1. Base \in Nat /\ N \in Nat /\ \A k \in 1..N : bs[k] \in Nat
    BY CodecAssumption DEF Byte
<1> HIDE DEF N
<1>2. \A k \in 1..N, p \in Nat : p * Base + bs[k] \in Nat
  <2>1. \A p \in Nat : p * Base \in Nat
      BY <1>1
  <2> QED BY <1>1, <2>1
<1>3. g \in [1..N -> [Nat -> Nat]] /\ 0 \in Nat
    BY <1>2
<1>4. PICK f : Iterates(f, N, Nat, 0, g)
  <2> HIDE DEF g
  <2> QED BY <1>1, <1>3, Iteration
<1>5. Is(f)
  <2>1. ASSUME NEW k \in 1..N PROVE f[k] = f[k - 1] * Base + bs[k]
    <3>1. k - 1 \in 0..N
        BY <1>1
    <3>2. f[k - 1] \in Nat
        BY <1>4, <3>1 DEF Iterates
    <3> QED BY <1>4, <3>2 DEF Iterates
  <2> QED BY <1>1, <1>4, <2>1 DEF Iterates
<1>6. Is(n)
  <2> HIDE DEF Is
  <2> QED BY <1>5
<1>7. Unsigned(bs) = n[N]
    BY DEF Unsigned, N
<1> HIDE DEF n
<1>8. /\ n = [k \in 0..N |-> n[k]] /\ n[0] = 0
      /\ \A k \in 1..N : n[k] = Step(n, k)
  <2>1. N \in Nat
      BY <1>1
  <2> HIDE DEF Step
  <2>2. \A k \in 0..N : n[k] = IF k = 0 THEN 0 ELSE Step(n, k)
      BY <1>6
  <2>3. n = [k \in 0..N |-> n[k]]
      BY <1>6
  <2> QED BY <2>1, <2>2, <2>3
<1>9. \A k \in 1..N : n[k - 1] \in Nat => n[k] = g[k][n[k - 1]]
    BY <1>8
<1>10. Iterates(n, N, Nat, 0, g)
  <2> HIDE DEF g, Is
  <2> QED BY <1>1, <1>3, <1>8, <1>9, Recursion
<1> QED BY <1>7, <1>8, <1>10 DEF N, Iterates

\* A number takes as many bytes as its width says.
LEMMA BytesShape ==
  ASSUME NEW n \in Int, NEW w \in 1..Int64
  PROVE  Bytes(n, w) \in Seq(Byte) /\ Len(Bytes(n, w)) = w
<1>1. \A i \in 1..w : (n \div Power[w - i]) % Base \in Byte
  <2> TAKE i \in 1..w
  <2>1. w - i \in 0..Int64
      BY DEF Int64
  <2>2. n \div Power[w - i] \in Int
      BY <2>1, PowerValues, DivMod
  <2>3. Base \in Nat \ {0}
      BY CodecAssumption
  <2> QED BY <2>2, <2>3, DivMod DEF Byte
<1>2. w \in Nat /\ Bytes(n, w) \in [1..w -> Byte]
    BY <1>1 DEF Bytes, Int64
<1> QED BY <1>2, IsASeq

\* The bytes of a number give it back, as far as they reach.
LEMMA UnsignedOfBytes ==
  ASSUME NEW n \in Int, NEW w \in 1..Int64
  PROVE  Unsigned(Bytes(n, w)) = n % Power[w]
<1> DEFINE bs == Bytes(n, w)
<1>1. bs \in Seq(Byte) /\ Len(bs) = w
    BY BytesShape
<1>2. w \in 1..8 /\ Base \in Nat \ {0}
    BY CodecAssumption DEF Int64
<1>3. \A k \in 1..w : bs[k] = (n \div Power[w - k]) % Base
    BY DEF Bytes
<1> HIDE DEF bs
<1>4. PICK m \in [0..w -> Nat] :
        /\ m[0] = 0 /\ Unsigned(bs) = m[w]
        /\ \A k \in 1..w : m[k] = m[k - 1] * Base + bs[k]
    BY <1>1, UnsignedSteps
<1> DEFINE P == {k \in 0..w : m[k] = (n \div Power[w - k]) % Power[k]}
<1>5. 0 \in P
  <2>1. n \div Power[w] \in Int
    <3>1. w \in 0..Int64
        BY DEF Int64
    <3>2. Power[w] \in Nat \ {0}
        BY <3>1, PowerValues
    <3> QED BY <3>2, DivMod
  <2>2. (n \div Power[w]) % 1 = 0
      BY <2>1
  <2> QED BY <1>2, <1>4, <2>2, PowerValues
<1>6. ASSUME NEW k \in 1..w, k - 1 \in P PROVE k \in P
  <2> DEFINE a == n \div Power[w - k]
  <2>1. /\ w - k \in 0..8 /\ w - k + 1 \in 1..8 /\ w - k + 1 - 1 = w - k
        /\ k \in 1..8 /\ k - 1 \in 0..8 /\ w - (k - 1) = w - k + 1 /\ k \in 0..w
      BY <1>2
  <2>2. Power[w - k] \in Nat \ {0} /\ Power[k - 1] \in Nat \ {0}
      BY <2>1, PowerValues DEF Int64
  <2>3. Power[w - k + 1] = Power[w - k] * Base /\ Power[k] = Base * Power[k - 1]
    <3>1. \A j \in 1..8 : Power[j] = Base * Power[j - 1]
        BY PowerValues DEF Int64
    <3> DEFINE j == w - k + 1
    <3>2. j \in 1..8 /\ j - 1 = w - k
        BY <2>1
    <3> HIDE DEF j
    <3>3. Power[j] = Base * Power[j - 1]
        BY <3>1, <3>2
    <3>4. Power[j] = Base * Power[w - k]
        BY <3>2, <3>3
    <3>5. Base * Power[w - k] = Power[w - k] * Base
        BY <1>2, <2>2
    <3> QED BY <2>1, <3>1, <3>4, <3>5 DEF j
  <2>4. a \in Int
      BY <2>2, DivMod
  <2>5. n \div Power[w - (k - 1)] = a \div Base
    <3>1. n \div (Power[w - k] * Base) = (n \div Power[w - k]) \div Base
        BY <1>2, <2>2, DivModProduct
    <3> QED BY <2>1, <2>3, <3>1
  <2>6. m[k - 1] = (a \div Base) % Power[k - 1]
      BY <1>6, <2>5
  <2>7. bs[k] = a % Base
      BY <1>3
  <2> HIDE DEF a
  <2>8. a % Power[k] = Base * ((a \div Base) % Power[k - 1]) + (a % Base)
      BY <1>2, <2>2, <2>3, <2>4, DivModProduct
  <2>9. m[k - 1] * Base = Base * m[k - 1]
    <3>1. m[k - 1] \in Nat
        BY <2>1
    <3> QED BY <1>2, <3>1
  <2>10. m[k] = a % Power[k]
      BY <1>4, <2>6, <2>7, <2>8, <2>9
  <2> QED BY <2>1, <2>10 DEF a
<1>7. 0..w \subseteq P
  <2>1. w \in Nat
      BY <1>2
  <2> HIDE DEF P
  <2> QED BY <1>5, <1>6, <2>1, Induction
<1>8. w \in 0..w /\ w - w = 0
    BY <1>2
<1>9. m[w] = (n \div Power[w - w]) % Power[w]
    BY <1>7, <1>8
<1>10. n \div Power[w - w] = n
  <2>1. n \div 1 = n
      OBVIOUS
  <2> QED BY <1>8, <2>1, PowerValues
<1> QED BY <1>4, <1>9, <1>10 DEF bs

\* What is read of a number that the width holds.
LEMMA ReadsInt ==
  ASSUME NEW n \in Int, NEW w \in 1..Int64
  PROVE  /\ Fits(n, w, FALSE) => Unsigned(Bytes(n, w)) = n
         /\ Fits(n, w, TRUE) => Wrap(Unsigned(Bytes(n, w)), w) = n /\ Wrap(n, w) = n
         /\ Fits(n, w, FALSE) /\ ~Fits(n, w, TRUE) =>
              Wrap(Unsigned(Bytes(n, w)), w) < 0 /\ Wrap(n, w) < 0
<1> DEFINE p == Power[w]  u == Unsigned(Bytes(n, w))
<1>1. p \in Nat \ {0}
    BY PowerValues DEF Int64
<1>2. u = n % p
    BY UnsignedOfBytes
<1>3. \A m \in Int : Wrap(m, w) = IF 2 * (m % p) < p THEN m % p ELSE (m % p) - p
    BY DEF Wrap
<1>4. u \in 0..(p - 1)
    BY <1>1, <1>2, DivMod
<1> HIDE DEF p, u
<1>5. u % p = u
  <2>1. u = p * 0 + u /\ 0 \in Int /\ u \in Int
      BY <1>1, <1>4
  <2> QED BY <1>1, <1>4, <2>1, DivModUnique
<1>6. CASE 0 <= n /\ n < p
  <2>1. n = p * 0 + n /\ 0 \in Int /\ n \in 0..(p - 1)
      BY <1>1, <1>6
  <2>2. n % p = n
      BY <1>1, <2>1, DivModUnique
  <2>3. u \in Int
      BY <1>4
  <2> QED BY <1>1, <1>2, <1>3, <1>5, <1>6, <2>2, <2>3 DEF Fits, p, u
<1>7. CASE n < 0 /\ -p <= 2 * n
  <2>1. n = p * (-1) + (n + p) /\ -1 \in Int /\ n + p \in 0..(p - 1)
      BY <1>1, <1>7
  <2>2. n % p = n + p
      BY <1>1, <2>1, DivModUnique
  <2>3. u \in Int
      BY <1>4
  <2> QED BY <1>1, <1>2, <1>3, <1>5, <1>7, <2>2, <2>3 DEF Fits, p, u
<1> QED BY <1>1, <1>6, <1>7 DEF Fits, p
-----------------------------------------------------------------------------
(***************************************************************************)
(* Sums and concatenations.                                                *)
(***************************************************************************)
Totals(t, ns) ==
  /\ t \in [0..Len(ns) -> Nat]
  /\ t[0] = 0 /\ Total(ns) = t[Len(ns)]
  /\ \A k \in 1..Len(ns) : t[k] = ns[Len(ns) - k + 1] + t[k - 1]

\* Total adds the numbers one by one.
LEMMA TotalSteps == ASSUME NEW ns \in Seq(Nat) PROVE \E t : Totals(t, ns)
<1> DEFINE N == Len(ns)
           Step(h, k) == ns[N - k + 1] + h[k - 1]
           g == [k \in 1..N |-> [p \in Nat |-> ns[N - k + 1] + p]]
           Is(h) == h = [k \in 0..N |-> IF k = 0 THEN 0 ELSE Step(h, k)]
           t == CHOOSE h : Is(h)
<1>1. N \in Nat /\ \A k \in 1..N : N - k + 1 \in 1..N /\ ns[N - k + 1] \in Nat
    OBVIOUS
<1>2. Total(ns) = t[N]
    BY DEF Total
<1> HIDE DEF N
<1>3. g \in [1..N -> [Nat -> Nat]] /\ 0 \in Nat
    BY <1>1
<1>4. PICK f : Iterates(f, N, Nat, 0, g)
  <2> HIDE DEF g
  <2> QED BY <1>1, <1>3, Iteration
<1>5. Is(f)
  <2>1. ASSUME NEW k \in 1..N PROVE f[k] = ns[N - k + 1] + f[k - 1]
    <3>1. k - 1 \in 0..N
        BY <1>1
    <3>2. f[k - 1] \in Nat
        BY <1>4, <3>1 DEF Iterates
    <3> QED BY <1>4, <3>2 DEF Iterates
  <2> QED BY <1>1, <1>4, <2>1 DEF Iterates
<1>6. Is(t)
  <2> HIDE DEF Is
  <2> QED BY <1>5
<1> HIDE DEF t
<1>7. /\ t = [k \in 0..N |-> t[k]] /\ t[0] = 0
      /\ \A k \in 1..N : t[k] = Step(t, k)
  <2> HIDE DEF Step
  <2>1. t = [k \in 0..N |-> IF k = 0 THEN 0 ELSE Step(t, k)]
      BY <1>6
  <2>2. 0 \in 0..N /\ \A k \in 1..N : k \in 0..N /\ k # 0
      BY <1>1
  <2>3. t[0] = 0 /\ \A k \in 1..N : t[k] = Step(t, k)
      BY <2>1, <2>2
  <2>4. t = [k \in 0..N |-> t[k]]
      BY <2>1
  <2> QED BY <2>3, <2>4
<1>8. \A k \in 1..N : t[k - 1] \in Nat => t[k] = g[k][t[k - 1]]
    BY <1>7
<1>9. Iterates(t, N, Nat, 0, g)
  <2> HIDE DEF g, Is
  <2> QED BY <1>1, <1>3, <1>7, <1>8, Recursion
<1> QED BY <1>2, <1>7, <1>9 DEF N, Iterates, Totals

\* j[k] is the concatenation of the last k of ss.
Joins(j, ss) ==
  /\ j \in [0..Len(ss) -> Seq(Byte)]
  /\ j[0] = <<>> /\ Joined(ss) = j[Len(ss)]
  /\ \A k \in 1..Len(ss) : j[k] = ss[Len(ss) - k + 1] \o j[k - 1]

\* Joined puts the sequences together one by one.
LEMMA JoinedSteps == ASSUME NEW ss \in Seq(Seq(Byte)) PROVE \E j : Joins(j, ss)
<1> DEFINE N == Len(ss)  S == Seq(Byte)
           Step(h, k) == ss[N - k + 1] \o h[k - 1]
           g == [k \in 1..N |-> [p \in S |-> ss[N - k + 1] \o p]]
           Is(h) == h = [k \in 0..N |-> IF k = 0 THEN <<>> ELSE Step(h, k)]
           j == CHOOSE h : Is(h)
<1>1. N \in Nat /\ \A k \in 1..N : N - k + 1 \in 1..N /\ ss[N - k + 1] \in S
    OBVIOUS
<1>2. Joined(ss) = j[N]
    BY DEF Joined
<1>3. \A k \in 1..N : \A p \in S : ss[N - k + 1] \o p \in S
    BY <1>1, ConcatProperties
<1>4. <<>> \in S
    OBVIOUS
<1> HIDE DEF N, S
<1>5. g \in [1..N -> [S -> S]]
    BY <1>3
<1>6. PICK f : Iterates(f, N, S, <<>>, g)
  <2> HIDE DEF g
  <2> QED BY <1>1, <1>4, <1>5, Iteration
<1>7. Is(f)
  <2>1. ASSUME NEW k \in 1..N PROVE f[k] = Step(f, k)
    <3>1. k - 1 \in 0..N
        BY <1>1
    <3>2. f[k - 1] \in S
        BY <1>6, <3>1 DEF Iterates
    <3> QED BY <1>6, <3>2 DEF Iterates
  <2> HIDE DEF Step
  <2> QED BY <1>1, <1>6, <2>1 DEF Iterates
<1>8. Is(j)
  <2> HIDE DEF Is
  <2> QED BY <1>7
<1> HIDE DEF j
<1>9. /\ j = [k \in 0..N |-> j[k]] /\ j[0] = <<>>
      /\ \A k \in 1..N : j[k] = Step(j, k)
  <2> HIDE DEF Step
  <2> QED BY <1>1, <1>8
<1>10. \A k \in 1..N : j[k - 1] \in S => j[k] = g[k][j[k - 1]]
    BY <1>9
<1>11. Iterates(j, N, S, <<>>, g)
  <2> HIDE DEF g, Is
  <2> QED BY <1>1, <1>4, <1>5, <1>9, <1>10, Recursion
<1> QED BY <1>2, <1>9, <1>11 DEF N, S, Iterates, Joins

\* The length of a concatenation.
LEMMA JoinedLength ==
  ASSUME NEW ss \in Seq(Seq(Byte)), NEW ns \in Seq(Nat), Len(ns) = Len(ss),
         \A k \in 1..Len(ss) : ns[k] = Len(ss[k])
  PROVE  Joined(ss) \in Seq(Byte) /\ Total(ns) = Len(Joined(ss))
<1> DEFINE N == Len(ss)
<1>1. N \in Nat /\ Len(ns) = N
    OBVIOUS
<1>2. PICK t : Totals(t, ns)
    BY TotalSteps
<1>3. PICK j : Joins(j, ss)
    BY JoinedSteps
<1>4. \A k \in 1..N : N - k + 1 \in 1..N /\ ss[N - k + 1] \in Seq(Byte) /\ ns[N - k + 1] = Len(ss[N - k + 1])
  <2>1. \A k \in 1..N : N - k + 1 \in 1..N
      OBVIOUS
  <2>2. \A k \in 1..N : ss[k] \in Seq(Byte)
      OBVIOUS
  <2> QED BY <2>1, <2>2
<1> HIDE DEF N
<1> DEFINE P == {k \in 0..N : t[k] = Len(j[k])}
<1>5. 0 \in P
    BY <1>1, <1>2, <1>3 DEF N, Totals, Joins
<1>6. ASSUME NEW k \in 1..N, k - 1 \in P PROVE k \in P
  <2>1. k \in 0..N /\ t[k - 1] = Len(j[k - 1])
      BY <1>1, <1>6
  <2>2. j[k - 1] \in Seq(Byte)
      BY <1>3, <1>6 DEF N, Joins
  <2>3. Len(ss[N - k + 1] \o j[k - 1]) = Len(ss[N - k + 1]) + Len(j[k - 1])
      BY <1>4, <2>2, ConcatProperties
  <2>4. t[k] = ns[N - k + 1] + t[k - 1]
      BY <1>1, <1>2 DEF Totals
  <2>5. j[k] = ss[N - k + 1] \o j[k - 1]
      BY <1>3 DEF N, Joins
  <2>6. t[k] = Len(j[k])
      BY <1>4, <2>1, <2>3, <2>4, <2>5
  <2> QED BY <2>1, <2>6
<1>7. 0..N \subseteq P
  <2> HIDE DEF P
  <2> QED BY <1>1, <1>5, <1>6, Induction
<1>8. N \in 0..N
    BY <1>1
<1> QED BY <1>1, <1>2, <1>3, <1>7, <1>8 DEF N, Totals, Joins
-----------------------------------------------------------------------------
(***************************************************************************)
(* Reading.                                                                *)
(***************************************************************************)
IsStream(r) == r.rest \in Seq(Byte) /\ r.good \in BOOLEAN

\* A read leaves a stream, and never makes a failed one good.
Continues(f) ==
  \A s \in Streams : IsStream(f[s]) /\ (f[s].good => s.good)

\* r is what is read of a value v with the marks m if tail is what follows:
\* the value, unless its marks say that it cannot be, or a failure.
Gives(r, tail, v, m) ==
  /\ "long" \notin m => \/ r.rest = tail /\ r.good = TRUE /\ (m = {} => r.val = v)
                        \/ "negative" \in m /\ r.good = FALSE
  /\ "long" \in m /\ "wraps" \notin m => r.good = FALSE

GivesBack(f, bs, v, m) == \A tail \in Seq(Byte) : Gives(f[Reader(bs \o tail)], tail, v, m)

\* What Stream, Reader, With and Failed make.
LEMMA StreamsAre ==
  /\ \A r : IsStream(r) => Stream(r) \in Streams /\ \A v : IsStream(With(r, v)) /\ IsStream(Failed(r, v))
  /\ \A s \in Streams : IsStream(s) /\ Stream(s) = s
  /\ \A bs \in Seq(Byte) : Reader(bs) \in Streams
  /\ \A r, bs : r.rest = bs /\ r.good = TRUE => Stream(r) = Reader(bs)
  /\ \A r, v : With(r, v).rest = r.rest /\ With(r, v).good = r.good /\ With(r, v).val = v
<1>1. ASSUME NEW r, IsStream(r)
      PROVE  Stream(r) \in Streams /\ \A v : IsStream(With(r, v)) /\ IsStream(Failed(r, v))
    BY <1>1 DEF IsStream, Stream, Streams, With, Failed
<1>2. ASSUME NEW s \in Streams PROVE IsStream(s) /\ Stream(s) = s
    BY DEF IsStream, Stream, Streams
<1>3. \A bs \in Seq(Byte) : Reader(bs) \in Streams
    BY DEF Streams, Reader
<1>4. ASSUME NEW r, NEW bs, r.rest = bs, r.good = TRUE PROVE Stream(r) = Reader(bs)
    BY <1>4 DEF Stream, Reader
<1>5. \A r, v : With(r, v).rest = r.rest /\ With(r, v).good = r.good /\ With(r, v).val = v
    BY DEF With
<1> QED BY <1>1, <1>2, <1>3, <1>4, <1>5

\* Get leaves a stream.
LEMMA GetIsStream ==
  ASSUME NEW r, IsStream(r), NEW w \in Nat
  PROVE  /\ IsStream(Get(w, r)) /\ Get(w, r).val \in Seq(Byte)
         /\ Get(w, r).good => r.good
<1>1. CASE r.good /\ w \in 0..Len(r.rest)
  <2> DEFINE bs == r.rest
  <2>1. bs \in Seq(Byte) /\ Len(bs) \in Nat /\ w \in 0..Len(bs)
      BY <1>1 DEF IsStream
  <2>2. Get(w, r) = [rest |-> SubSeq(bs, w + 1, Len(bs)), good |-> TRUE, val |-> SubSeq(bs, 1, w)]
      BY <1>1 DEF Get
  <2> HIDE DEF bs
  <2>3. SubSeq(bs, w + 1, Len(bs)) \in Seq(Byte) /\ SubSeq(bs, 1, w) \in Seq(Byte)
    <3>1. \A i \in (w + 1)..Len(bs) : bs[i] \in Byte
        BY <2>1
    <3>2. \A i \in 1..w : bs[i] \in Byte
        BY <2>1
    <3> QED BY <2>1, <3>1, <3>2, SubSeqProperties
  <2> QED BY <1>1, <2>2, <2>3 DEF IsStream
<1>2. CASE ~(r.good /\ w \in 0..Len(r.rest))
  <2>1. Get(w, r) = [rest |-> <<>>, good |-> FALSE, val |-> [i \in 1..w |-> 0]]
      BY <1>2 DEF Get
  <2>2. 0 \in Byte
      BY CodecAssumption DEF Byte
  <2>3. [i \in 1..w |-> 0] \in Seq(Byte)
      BY <2>2, IsASeq
  <2> QED BY <2>1, <2>3 DEF IsStream
<1> QED BY <1>1, <1>2

\* Get takes the bytes that it is asked for.
LEMMA GetBytes ==
  ASSUME NEW r, NEW bs \in Seq(Byte), NEW tail \in Seq(Byte),
         r.rest = bs \o tail, r.good = TRUE
  PROVE  Get(Len(bs), r) = [rest |-> tail, good |-> TRUE, val |-> bs]
<1> DEFINE w == Len(bs)  c == bs \o tail
<1>1. c \in Seq(Byte) /\ Len(c) = w + Len(tail) /\ w \in Nat /\ Len(tail) \in Nat
    BY ConcatProperties, LenProperties
<1>2. SubSeq(c, 1, w) = bs /\ SubSeq(c, w + 1, Len(c)) = tail
    BY <1>1, SubSeqOfConcat1, SubSeqOfConcat2, ConcatProperties, SubSeqFull
<1> HIDE DEF c, w
<1>3. w \in 0..Len(c)
    BY <1>1
<1> QED BY <1>2, <1>3 DEF Get, c, w

\* A number read from any stream, and from one that starts with its bytes.
LEMMA GetNumbers ==
  ASSUME NEW r, IsStream(r), NEW w \in 1..Int64
  PROVE  /\ IsStream(GetUnsigned(w, r)) /\ IsStream(GetSigned(w, r))
         /\ GetUnsigned(w, r).val \in Nat /\ GetSigned(w, r).val \in Int
         /\ GetUnsigned(w, r).good => r.good
         /\ GetSigned(w, r).good => r.good
<1> DEFINE g == Get(w, r)  u == Unsigned(g.val)
<1>1. w \in Nat
    BY DEF Int64
<1>2. IsStream(g) /\ g.val \in Seq(Byte) /\ (g.good => r.good)
    BY <1>1, GetIsStream
<1>3. u \in Nat
  <2> HIDE DEF g
  <2> DEFINE bs == g.val
  <2>1. PICK n \in [0..Len(bs) -> Nat] : Unsigned(bs) = n[Len(bs)]
      BY <1>2, UnsignedSteps
  <2>2. Len(bs) \in 0..Len(bs)
      BY <1>2
  <2> QED BY <2>1, <2>2
<1>4. GetUnsigned(w, r) = With(g, u) /\ GetSigned(w, r) = With(g, Wrap(u, w))
    BY DEF GetUnsigned, GetSigned
<1> HIDE DEF g, u
<1>5. Wrap(u, w) \in Int
  <2> DEFINE p == Power[w]
  <2>1. p \in Nat \ {0}
      BY PowerValues DEF Int64
  <2>2. Wrap(u, w) = IF 2 * (u % p) < p THEN u % p ELSE (u % p) - p
      BY DEF Wrap
  <2> HIDE DEF p
  <2>3. u \in Int
      BY <1>3
  <2>4. u % p \in 0..(p - 1)
      BY <2>1, <2>3, DivMod
  <2> QED BY <2>1, <2>2, <2>4
<1>6. \A v : With(g, v).val = v /\ With(g, v).good = g.good
    BY DEF With
<1> QED BY <1>2, <1>3, <1>4, <1>5, <1>6, StreamsAre

\* r is good and has the bytes bs left; what is read is v and leaves tail.
HasLeft(r, bs) == r.rest = bs /\ r.good = TRUE
Reads(r, tail, v) == r.rest = tail /\ r.good = TRUE /\ r.val = v

\* A number that the width holds, or an unsigned one read as a signed one.
LEMMA ReadsNumber ==
  ASSUME NEW r, NEW n \in Int, NEW w \in 1..Int64, NEW tail \in Seq(Byte),
         HasLeft(r, Bytes(n, w) \o tail)
  PROVE  /\ HasLeft(GetUnsigned(w, r), tail) /\ HasLeft(GetSigned(w, r), tail)
         /\ Fits(n, w, FALSE) => Reads(GetUnsigned(w, r), tail, n)
         /\ Fits(n, w, TRUE) => Reads(GetSigned(w, r), tail, n)
         /\ Fits(n, w, FALSE) /\ ~Fits(n, w, TRUE) => GetSigned(w, r).val < 0
<1>1. Bytes(n, w) \in Seq(Byte) /\ Len(Bytes(n, w)) = w
    BY BytesShape
<1>2. Get(w, r) = [rest |-> tail, good |-> TRUE, val |-> Bytes(n, w)]
    BY <1>1, GetBytes DEF HasLeft
<1> DEFINE bs == Bytes(n, w)
<1>3. /\ GetUnsigned(w, r) = [rest |-> tail, good |-> TRUE, val |-> Unsigned(bs)]
      /\ GetSigned(w, r) = [rest |-> tail, good |-> TRUE, val |-> Wrap(Unsigned(bs), w)]
  <2> HIDE DEF bs
  <2> QED BY <1>2 DEF GetUnsigned, GetSigned, With, bs
<1>4. /\ Fits(n, w, FALSE) => Unsigned(bs) = n
      /\ Fits(n, w, TRUE) => Wrap(Unsigned(bs), w) = n
      /\ Fits(n, w, FALSE) /\ ~Fits(n, w, TRUE) => Wrap(Unsigned(bs), w) < 0
    BY ReadsInt
<1> HIDE DEF bs
<1> DEFINE u == GetUnsigned(w, r)  s == GetSigned(w, r)
<1>5. /\ u.rest = tail /\ u.good = TRUE /\ u.val = Unsigned(bs)
      /\ s.rest = tail /\ s.good = TRUE /\ s.val = Wrap(Unsigned(bs), w)
    BY <1>3
<1> HIDE DEF u, s
<1>6. /\ HasLeft(u, tail) /\ HasLeft(s, tail)
      /\ \A m : Unsigned(bs) = m => Reads(u, tail, m)
      /\ \A m : Wrap(Unsigned(bs), w) = m => Reads(s, tail, m)
    BY <1>5 DEF HasLeft, Reads
<1> QED BY <1>4, <1>5, <1>6 DEF u, s

\* a[k] is what the first k reads leave and have read, some values of U.
ReadsInTurn(a, U, reads, n, r) ==
  /\ a[0] = With(r, <<>>) /\ ReadAll(reads, r) = a[n]
  /\ \A k \in 1..n :
       a[k] = With(reads[k][Stream(a[k - 1])],
                   Append(a[k - 1].val, reads[k][Stream(a[k - 1])].val))
  /\ \A k \in 0..n :
       /\ IsStream(a[k]) /\ (a[k].good => r.good)
       /\ a[k].val \in Seq(U) /\ Len(a[k].val) = k
  /\ \A k \in 1..n : \A i \in 1..(k - 1) : a[k].val[i] = a[k - 1].val[i]
  /\ \A k \in 1..n : a[k].val[k] = reads[k][Stream(a[k - 1])].val

\* ReadAll is such a sequence of reads.
LEMMA ReadAllSteps ==
  ASSUME NEW n \in Nat, NEW reads, reads = [k \in 1..n |-> reads[k]],
         \A k \in 1..n : Continues(reads[k]), NEW r, IsStream(r)
  PROVE  \E a, U : ReadsInTurn(a, U, reads, n, r)
<1> DEFINE U == UNION {{reads[k][s].val : s \in Streams} : k \in 1..n}
           S == [rest : Seq(Byte), good : BOOLEAN, val : Seq(U)]
           Following(k, x) == With(reads[k][Stream(x)], Append(x.val, reads[k][Stream(x)].val))
           g == [k \in 1..n |-> [x \in S |-> Following(k, x)]]
           Step(h, k) == Following(k, h[k - 1])
           Is(h) == h = [k \in 0..n |-> IF k = 0 THEN With(r, <<>>) ELSE Step(h, k)]
           a == CHOOSE h : Is(h)
<1>1. Len(reads) = n
  <2> DEFINE F == {reads[k] : k \in 1..n}
  <2>1. reads \in Seq(F)
    <3>1. \A k \in 1..n : reads[k] \in F
        OBVIOUS
    <3> HIDE DEF F
    <3>2. [k \in 1..n |-> reads[k]] \in Seq(F)
        BY <3>1, IsASeq
    <3> QED BY <3>2
  <2> QED BY <2>1
<1>2. ReadAll(reads, r) = a[n]
    BY <1>1 DEF ReadAll
<1>3. ASSUME NEW k \in 1..n, NEW x \in S
      PROVE  /\ Following(k, x) \in S /\ (Following(k, x).good => x.good)
             /\ reads[k][Stream(x)].val \in U
             /\ Following(k, x).val = Append(x.val, reads[k][Stream(x)].val)
  <2> DEFINE s == Stream(x)  e == reads[k][s]
  <2>1. s \in Streams /\ s.good = x.good
      BY DEF Stream, Streams
  <2>2. IsStream(e) /\ (e.good => s.good) /\ e.val \in U
      BY <2>1 DEF Continues
  <2> HIDE DEF s, e
  <2>3. x.val \in Seq(U)
      OBVIOUS
  <2> HIDE DEF U
  <2>4. Append(x.val, e.val) \in Seq(U)
      BY <2>2, <2>3, AppendProperties
  <2>5. Following(k, x) = [rest |-> e.rest, good |-> e.good, val |-> Append(x.val, e.val)]
      BY DEF With, e, s
  <2> HIDE DEF Following
  <2>6. Following(k, x) \in S /\ (Following(k, x).good => x.good)
    <3> DEFINE b == e.rest  c == e.good  d == Append(x.val, e.val)
    <3>1. b \in Seq(Byte) /\ c \in BOOLEAN /\ d \in Seq(U) /\ (c => x.good)
        BY <2>1, <2>2, <2>4 DEF IsStream
    <3>2. Following(k, x) = [rest |-> b, good |-> c, val |-> d]
        BY <2>5
    <3> HIDE DEF b, c, d
    <3> QED BY <3>1, <3>2
  <2>7. Following(k, x).val = Append(x.val, e.val)
      BY <2>5
  <2> HIDE DEF S
  <2> QED BY <2>2, <2>6, <2>7 DEF e, s
<1>4. With(r, <<>>) \in S /\ With(r, <<>>).good = r.good
    BY DEF With, IsStream
<1>5. g \in [1..n -> [S -> S]]
  <2> HIDE DEF S, Following
  <2> QED BY <1>3
<1> HIDE DEF S, U
<1>6. PICK f : Iterates(f, n, S, With(r, <<>>), g)
  <2> HIDE DEF g, Following
  <2> QED BY <1>4, <1>5, Iteration
<1>7. Is(f)
  <2>1. ASSUME NEW k \in 1..n PROVE f[k] = Step(f, k)
    <3>1. k - 1 \in 0..n
        OBVIOUS
    <3>2. f[k - 1] \in S
        BY <1>6, <3>1 DEF Iterates
    <3> HIDE DEF Following
    <3> QED BY <1>6, <3>2 DEF Iterates
  <2> HIDE DEF Step
  <2> QED BY <1>6, <2>1 DEF Iterates
<1>8. Is(a)
  <2> HIDE DEF Is
  <2> QED BY <1>7
<1> HIDE DEF a, Following
<1>9. /\ a = [k \in 0..n |-> a[k]] /\ a[0] = With(r, <<>>)
      /\ \A k \in 1..n : a[k] = Step(a, k)
  <2> HIDE DEF Step
  <2> QED BY <1>8
<1>10. \A k \in 1..n : a[k - 1] \in S => a[k] = g[k][a[k - 1]]
    BY <1>9
<1>11. Iterates(a, n, S, With(r, <<>>), g)
  <2> HIDE DEF g, Is
  <2> QED BY <1>4, <1>5, <1>9, <1>10, Recursion
<1>12. \A k \in 0..n : a[k] \in S
    BY <1>11 DEF Iterates
<1> DEFINE Ok(k) == (a[k].good => r.good) /\ Len(a[k].val) = k
           P == {k \in 0..n : Ok(k)}
<1>13. 0 \in P
  <2>1. a[0].val = <<>> /\ a[0].good = r.good
      BY <1>9 DEF With
  <2> QED BY <2>1
<1>14. ASSUME NEW k \in 1..n, k - 1 \in P
       PROVE  /\ k \in P
              /\ \A i \in 1..(k - 1) : a[k].val[i] = a[k - 1].val[i]
              /\ a[k].val[k] = reads[k][Stream(a[k - 1])].val
  <2> DEFINE x == a[k - 1]
  <2>1. k \in 0..n /\ k - 1 \in 0..n /\ x \in S
      BY <1>12
  <2>2. a[k] = Following(k, x)
      BY <1>9
  <2>3. x.val \in Seq(U)
      BY <2>1 DEF S
  <2>4. Len(x.val) = k - 1 /\ (x.good => r.good)
    <3> HIDE DEF Ok
    <3>1. Ok(k - 1)
        BY <1>14
    <3> QED BY <3>1 DEF Ok
  <2>5. /\ (a[k].good => x.good) /\ reads[k][Stream(x)].val \in U
        /\ a[k].val = Append(x.val, reads[k][Stream(x)].val)
    <3> HIDE DEF x, Following
    <3> QED BY <1>3, <2>1, <2>2
  <2> HIDE DEF x
  <2> DEFINE v == reads[k][Stream(x)].val  y == a[k].val  z == x.val
  <2>6. z \in Seq(U) /\ v \in U /\ y = Append(z, v) /\ Len(z) = k - 1
      BY <2>3, <2>4, <2>5
  <2>7. Len(y) = k /\ (\A i \in 1..(k - 1) : y[i] = z[i]) /\ y[k] = v
    <3> HIDE DEF v, y, z
    <3>1. Len(y) = Len(z) + 1 /\ (\A i \in 1..Len(z) : y[i] = z[i]) /\ y[Len(z) + 1] = v
        BY <2>6, AppendProperties
    <3> QED BY <2>6, <3>1
  <2>8. a[k].good => r.good
      BY <2>4, <2>5
  <2> QED BY <2>1, <2>7, <2>8 DEF x
<1>15. 0..n \subseteq P
  <2> HIDE DEF P
  <2> QED BY <1>13, <1>14, Induction
<1>16. \A k \in 1..n : k - 1 \in 0..n
    OBVIOUS
<1>17. \A k \in 0..n : IsStream(a[k]) /\ a[k].val \in Seq(U)
    BY <1>12 DEF S, IsStream
<1>18. /\ a[0] = With(r, <<>>) /\ ReadAll(reads, r) = a[n]
    BY <1>2, <1>9
<1>19. \A k \in 1..n : a[k] = With(reads[k][Stream(a[k - 1])],
                                  Append(a[k - 1].val, reads[k][Stream(a[k - 1])].val))
    BY <1>9 DEF Following
<1>20. \A k \in 1..n : /\ \A i \in 1..(k - 1) : a[k].val[i] = a[k - 1].val[i]
                       /\ a[k].val[k] = reads[k][Stream(a[k - 1])].val
  <2> HIDE DEF P
  <2> QED BY <1>14, <1>15, <1>16
<1>21. \A k \in 0..n : (a[k].good => r.good) /\ Len(a[k].val) = k
  <2> HIDE DEF Ok
  <2>1. \A k \in 0..n : Ok(k)
      BY <1>15
  <2> QED BY <2>1 DEF Ok
<1>22. ReadsInTurn(a, U, reads, n, r)
    BY <1>17, <1>18, <1>19, <1>20, <1>21 DEF ReadsInTurn
<1> QED BY <1>22

\* Many reads are as good as one.
LEMMA ReadAllIsStream ==
  ASSUME NEW n \in Nat, NEW reads, reads = [k \in 1..n |-> reads[k]],
         \A k \in 1..n : Continues(reads[k]), NEW r, IsStream(r)
  PROVE  /\ IsStream(ReadAll(reads, r))
         /\ ReadAll(reads, r).good => r.good
<1>1. PICK a, U : ReadsInTurn(a, U, reads, n, r)
    BY ReadAllSteps
<1>2. n \in 0..n
    OBVIOUS
<1> QED BY <1>1, <1>2 DEF ReadsInTurn

\* Concatenation of bytes is associative.
LEMMA Regrouped ==
  ASSUME NEW a \in Seq(Byte), NEW b \in Seq(Byte), NEW c \in Seq(Byte)
  PROVE  (a \o b) \o c = a \o (b \o c)
BY ConcatAssociative

\* What the n reads of a list give: the values vs, which have the marks ms.
Elements(n, f, ss, vs, ms) ==
  /\ ss \in Seq(Seq(Byte)) /\ Len(ss) = n
  /\ vs = [k \in 1..n |-> vs[k]]
  /\ \A k \in 1..n : GivesBack(f[k], ss[k], vs[k], ms[k])

\* Values written one after the other are read one after the other.
LEMMA ReadAllGives ==
  ASSUME NEW n \in Nat, NEW reads, reads = [k \in 1..n |-> reads[k]],
         \A k \in 1..n : Continues(reads[k]),
         NEW ss, NEW vs, NEW ms, Elements(n, reads, ss, vs, ms),
         NEW tail \in Seq(Byte), NEW r, HasLeft(r, Joined(ss) \o tail)
  PROVE  Gives(ReadAll(reads, r), tail, vs, UNION {ms[k] : k \in 1..n})
<1>0. r.rest = Joined(ss) \o tail /\ r.good = TRUE
    BY DEF HasLeft
<1>a. ss \in Seq(Seq(Byte))
    BY DEF Elements
<1>b. Len(ss) = n
    BY DEF Elements
<1>c. vs = [k \in 1..n |-> vs[k]]
    BY DEF Elements
<1>d. \A k \in 1..n : GivesBack(reads[k], ss[k], vs[k], ms[k])
    BY DEF Elements
<1>e. \A k, i \in 1..n : i = n - k + 1 => n - i + 1 = k /\ i - 1 = n - k /\ n - (k - 1) = i
    OBVIOUS
<1> USE <1>a, <1>b, <1>c, <1>d
<1>1. PICK j : Joins(j, ss)
    BY JoinedSteps
<1>2. IsStream(r)
  <2>1. n \in 0..n
      OBVIOUS
  <2>2. Joined(ss) \in Seq(Byte)
      BY <1>1, <2>1 DEF Joins
  <2>3. Joined(ss) \o tail \in Seq(Byte)
      BY <2>2, ConcatProperties
  <2> QED BY <1>0, <2>3 DEF IsStream
<1>3. PICK a, U : ReadsInTurn(a, U, reads, n, r)
    BY <1>2, ReadAllSteps
<1> DEFINE Has(m, k) == \E i \in 1..k : m \in ms[i]
           Whole(k) == /\ a[k].rest = j[n - k] \o tail /\ a[k].good = TRUE
                       /\ \A i \in 1..k : ms[i] = {} => a[k].val[i] = vs[i]
           Ok(k) == /\ ~Has("long", k) => \/ Whole(k)
                                          \/ Has("negative", k) /\ a[k].good = FALSE
                    /\ Has("long", k) /\ ~Has("wraps", k) => a[k].good = FALSE
           P == {k \in 0..n : Ok(k)}
<1>4. 0 \in P
  <2>1. a[0].rest = r.rest /\ a[0].good = TRUE
      BY <1>0, <1>3 DEF ReadsInTurn, With
  <2>2. Joined(ss) = j[n - 0]
      BY <1>1 DEF Joins
  <2>3. 0 \in 0..n
      OBVIOUS
  <2>4. Whole(0)
      BY <1>0, <2>1, <2>2
  <2>5. Ok(0)
    <3>1. ~Has("long", 0)
        OBVIOUS
    <3> HIDE DEF Has, Whole
    <3> QED BY <2>4, <3>1
  <2> QED BY <2>3, <2>5
<1>5. ASSUME NEW k \in 1..n, k - 1 \in P PROVE k \in P
  <2> DEFINE b == a[k - 1]  e == reads[k][Stream(b)]
  <2>1. k \in 0..n /\ k - 1 \in 0..n /\ n - k \in 0..n /\ n - k + 1 \in 1..n
      OBVIOUS
  <2>2. Ok(k - 1)
    <3> HIDE DEF Ok
    <3> QED BY <1>5
  <2>3. /\ a[k].rest = e.rest /\ a[k].good = e.good /\ a[k].val[k] = e.val
        /\ \A i \in 1..(k - 1) : a[k].val[i] = b.val[i]
    <3>1. a[k] = With(e, Append(b.val, e.val))
        BY <1>3 DEF ReadsInTurn
    <3>2. a[k].val[k] = e.val /\ \A i \in 1..(k - 1) : a[k].val[i] = b.val[i]
        BY <1>3 DEF ReadsInTurn
    <3> HIDE DEF e, b
    <3>3. a[k].rest = e.rest /\ a[k].good = e.good
        BY <3>1, StreamsAre
    <3> QED BY <3>2, <3>3
  <2>4. IsStream(b)
      BY <1>3, <2>1 DEF ReadsInTurn
  <2>5. IsStream(e) /\ (e.good => b.good)
    <3>1. Stream(b) \in Streams /\ Stream(b).good = b.good
        BY <2>4, StreamsAre DEF Stream
    <3>2. Continues(reads[k])
        OBVIOUS
    <3> HIDE DEF b
    <3> QED BY <3>1, <3>2 DEF Continues
  <2>6. \A m : Has(m, k) <=> Has(m, k - 1) \/ m \in ms[k]
    <3>1. 1..k = (1..(k - 1)) \cup {k}
        OBVIOUS
    <3> QED BY <3>1
  <2>a. b.good = FALSE => a[k].good = FALSE
    <3> HIDE DEF b, e
    <3> QED BY <2>3, <2>5 DEF IsStream
  <2>7. CASE Has("long", k - 1)
    <3>1. ~Has("wraps", k) => b.good = FALSE
      <4> HIDE DEF Has, Whole
      <4> QED BY <2>2, <2>6, <2>7
    <3>2. Ok(k)
      <4> HIDE DEF Has, Whole, b, e
      <4> QED BY <2>6, <2>7, <2>a, <3>1
    <3> QED BY <2>1, <3>2
  <2>9. CASE Has("negative", k - 1) /\ b.good = FALSE
    <3>1. Ok(k)
      <4> HIDE DEF Has, Whole, b
      <4> QED BY <2>6, <2>9, <2>a
    <3> QED BY <2>1, <3>1
  <2>8. CASE ~Has("long", k - 1) /\ Whole(k - 1)
    <3> DEFINE t == j[n - k] \o tail
    <3>1. Whole(k - 1)
      <4> HIDE DEF Has, Whole
      <4> QED BY <2>8
    <3>2. ss[k] \in Seq(Byte) /\ j[n - k] \in Seq(Byte) /\ t \in Seq(Byte)
      <4>1. ss[k] \in Seq(Byte) /\ j[n - k] \in Seq(Byte)
          BY <1>1, <2>1 DEF Joins
      <4> QED BY <4>1, ConcatProperties
    <3>3. j[n - (k - 1)] = ss[k] \o j[n - k]
      <4>1. PICK i \in 1..n : i = n - k + 1
          BY <2>1
      <4>2. j[i] = ss[n - i + 1] \o j[i - 1]
          BY <1>1 DEF Joins
      <4>3. n - i + 1 = k /\ i - 1 = n - k /\ n - (k - 1) = i
          BY <1>e, <4>1
      <4> QED BY <4>2, <4>3
    <3>4. b.rest = ss[k] \o t /\ b.good = TRUE
      <4>1. b.rest = (ss[k] \o j[n - k]) \o tail /\ b.good = TRUE
        <5> DEFINE q == j[n - (k - 1)]  u == ss[k] \o j[n - k]
        <5>1. b.rest = q \o tail /\ b.good = TRUE
            BY <3>1
        <5>2. q = u
            BY <3>3
        <5> HIDE DEF b, q, u
        <5>3. b.rest = u \o tail
            BY <5>1, <5>2
        <5> QED BY <5>1, <5>3 DEF u
      <4>2. (ss[k] \o j[n - k]) \o tail = ss[k] \o t
        <5> DEFINE x == ss[k]  y == j[n - k]
        <5>1. x \in Seq(Byte) /\ y \in Seq(Byte)
            BY <3>2
        <5> HIDE DEF x, y
        <5>2. (x \o y) \o tail = x \o (y \o tail)
            BY <5>1, Regrouped
        <5> QED BY <5>2 DEF x, y
      <4> QED BY <4>1, <4>2
    <3>5. Gives(e, t, vs[k], ms[k])
      <4>1. Stream(b) = Reader(ss[k] \o t)
          BY <3>4, StreamsAre
      <4>2. GivesBack(reads[k], ss[k], vs[k], ms[k])
          OBVIOUS
      <4> HIDE DEF b, t
      <4> QED BY <3>2, <4>1, <4>2 DEF GivesBack
    <3>8. CASE "negative" \in ms[k] /\ e.good = FALSE
      <4>1. Has("negative", k) /\ a[k].good = FALSE
        <5> HIDE DEF Has, e
        <5> QED BY <2>3, <2>6, <3>8
      <4>2. Ok(k)
        <5> HIDE DEF Has, Whole
        <5> QED BY <4>1
      <4> QED BY <2>1, <4>2
    <3>6. CASE "long" \notin ms[k] /\ ~("negative" \in ms[k] /\ e.good = FALSE)
      <4>1. e.rest = t /\ e.good = TRUE /\ (ms[k] = {} => e.val = vs[k])
        <5> HIDE DEF e, t
        <5> QED BY <3>5, <3>6 DEF Gives
      <4>2. a[k].rest = t /\ a[k].good = TRUE
        <5> HIDE DEF b, e, t
        <5> QED BY <2>3, <4>1
      <4>3. \A i \in 1..k : ms[i] = {} => a[k].val[i] = vs[i]
        <5>1. \A i \in 1..(k - 1) : ms[i] = {} => b.val[i] = vs[i]
            BY <3>1
        <5>2. 1..k = (1..(k - 1)) \cup {k}
            OBVIOUS
        <5> HIDE DEF b, e
        <5> QED BY <2>3, <4>1, <5>1, <5>2
      <4>4. Whole(k)
          BY <4>2, <4>3
      <4>5. ~Has("long", k)
        <5> HIDE DEF Has, Whole, e
        <5> QED BY <2>6, <2>8, <3>6
      <4>6. Ok(k)
        <5> HIDE DEF Has, Whole
        <5> QED BY <4>4, <4>5
      <4> QED BY <2>1, <4>6
    <3>7. CASE "long" \in ms[k]
      <4>1. Has("long", k) /\ (~Has("wraps", k) => "wraps" \notin ms[k])
        <5> HIDE DEF Has
        <5> QED BY <2>6, <3>7
      <4>2. "wraps" \notin ms[k] => e.good = FALSE
        <5> HIDE DEF e, t
        <5> QED BY <3>5, <3>7 DEF Gives
      <4>3. Ok(k)
        <5> HIDE DEF Has, Whole, b, e
        <5> QED BY <2>3, <4>1, <4>2
      <4> QED BY <2>1, <4>3
    <3> QED BY <3>6, <3>7, <3>8
  <2>b. \/ Has("long", k - 1)
        \/ Has("negative", k - 1) /\ b.good = FALSE
        \/ ~Has("long", k - 1) /\ Whole(k - 1)
    <3> HIDE DEF Has, Whole
    <3> QED BY <2>2
  <2> QED BY <2>7, <2>8, <2>9, <2>b
<1>6. Ok(n)
  <2>1. 0..n \subseteq P
    <3> HIDE DEF P
    <3> QED BY <1>4, <1>5, Induction
  <2> HIDE DEF Ok
  <2> QED BY <2>1
<1> DEFINE M == UNION {ms[k] : k \in 1..n}  x == ReadAll(reads, r)
<1>7. x = a[n] /\ x.val \in Seq(U) /\ Len(x.val) = n
  <2>1. n \in 0..n
      OBVIOUS
  <2> QED BY <1>3, <2>1 DEF ReadsInTurn
<1>8. \A m : m \in M <=> Has(m, n)
    OBVIOUS
<1>9. ASSUME Whole(n)
      PROVE  x.rest = tail /\ x.good = TRUE /\ (M = {} => x.val = vs)
  <2>1. j[n - n] = <<>>
      BY <1>1 DEF Joins
  <2>2. <<>> \o tail = tail
      BY ConcatEmptySeq
  <2>3. x.rest = tail /\ x.good = TRUE
      BY <1>7, <1>9, <2>1, <2>2
  <2>4. ASSUME M = {} PROVE x.val = vs
    <3>1. \A i \in 1..n : x.val[i] = vs[i]
      <4>1. \A i \in 1..n : ms[i] = {}
          BY <2>4
      <4>2. \A i \in 1..n : ms[i] = {} => a[n].val[i] = vs[i]
          BY <1>9
      <4> QED BY <1>7, <4>1, <4>2
    <3>2. x.val = [i \in 1..n |-> x.val[i]]
      <4> DEFINE y == x.val
      <4>1. y \in Seq(U) /\ Len(y) = n
          BY <1>7
      <4> HIDE DEF y
      <4>2. y \in [1..n -> U]
          BY <4>1, LenProperties
      <4>3. y = [i \in 1..n |-> y[i]]
          BY <4>2
      <4> QED BY <4>3 DEF y
    <3> DEFINE y == x.val
    <3>3. y = [i \in 1..n |-> y[i]] /\ \A i \in 1..n : y[i] = vs[i]
        BY <3>1, <3>2
    <3> HIDE DEF y
    <3>4. y = [i \in 1..n |-> vs[i]]
        BY <3>3
    <3>5. y = vs
        BY <3>4
    <3> QED BY <3>5 DEF y
  <2> QED BY <2>3, <2>4
<1> HIDE DEF M, x, Has, Whole
<1> QED BY <1>6, <1>7, <1>8, <1>9 DEF Gives, M, x
-----------------------------------------------------------------------------
\* r is what a read leaves of s.
Goes(r, s) == IsStream(r) /\ (r.good => s.good)

\* The bytes bs take the room that allocation_size says.
Agrees(size, bs) == bs \in Seq(Byte) /\ size = Len(bs)

\* A read whose value is converted.
LEMMA GoesWith ==
  ASSUME NEW r, NEW s, Goes(r, s), NEW v
  PROVE  Goes(With(r, v), s) /\ Goes(Failed(r, v), s)
BY DEF Goes, IsStream, With, Failed

\* One read after the other.
LEMMA GoesOn ==
  ASSUME NEW r, NEW s, NEW q, Goes(r, s), Goes(q, r)
  PROVE  Goes(q, s)
BY DEF Goes

\* A number that is read.
LEMMA GoesNumber ==
  ASSUME NEW r, IsStream(r), NEW w \in 1..Int64
  PROVE  /\ Goes(GetUnsigned(w, r), r) /\ Goes(GetSigned(w, r), r)
         /\ GetUnsigned(w, r).val \in Nat /\ GetSigned(w, r).val \in Int
BY GetNumbers DEF Goes

\* A number that is written.
LEMMA AgreesNumber ==
  ASSUME NEW n \in Int, NEW w \in 1..Int64
  PROVE  Agrees(w, Bytes(n, w))
BY BytesShape DEF Agrees

\* Sizes of what is written in turn add up.
LEMMA AgreesBoth ==
  ASSUME NEW a, NEW b, NEW s, NEW t, Agrees(a, s), Agrees(b, t)
  PROVE  Agrees(a + b, s \o t)
BY ConcatProperties DEF Agrees

\* A reader of bytes has these left.
LEMMA ReaderOf ==
  ASSUME NEW bs \in Seq(Byte)
  PROVE  HasLeft(Reader(bs), bs) /\ IsStream(Reader(bs))
BY DEF Reader, HasLeft, IsStream

\* The widths in use are below the largest.
LEMMA WidthsAre == Int32 \in 1..Int64 /\ Int64 \in 1..Int64 /\ 1 \in 1..Int64 /\ Int32 = 4 /\ Int64 = 8
BY DEF Int32, Int64

\* What is read is the value, which has no marks.
LEMMA GivesReads ==
  ASSUME NEW r, NEW tail, NEW v, Reads(r, tail, v)
  PROVE  Gives(r, tail, v, {})
BY DEF Reads, Gives

\* What a reader has left is not changed by a conversion.
LEMMA WithReads ==
  ASSUME NEW r, NEW tail, HasLeft(r, tail), NEW v
  PROVE  Reads(With(r, v), tail, v)
BY DEF Reads, HasLeft, With

\* The two halves of Reads.
LEMMA ReadsHasLeft ==
  ASSUME NEW r, NEW tail, NEW v, Reads(r, tail, v)
  PROVE  HasLeft(r, tail) /\ r.val = v
BY DEF Reads, HasLeft

\* A length fits an int32_t, or only a uint32_t, or neither.
LEMMA CountedCases ==
  ASSUME NEW n \in Nat
  PROVE  \/ Counted(n) = {} /\ Fits(n, Int32, TRUE)
         \/ Counted(n) = {"long"} /\ Fits(n, Int32, FALSE) /\ ~Fits(n, Int32, TRUE)
         \/ "long" \in Counted(n) /\ "wraps" \in Counted(n)
<1> DEFINE p == Power[Int32]
<1>1. p \in Nat \ {0}
    BY WidthsAre, PowerValues
<1>2. /\ Counted(n) = {m \in {"long"} : 2 * n >= p} \cup {m \in {"wraps"} : n >= p}
      /\ Fits(n, Int32, TRUE) <=> -p <= 2 * n /\ 2 * n < p
      /\ Fits(n, Int32, FALSE) <=> 0 <= n /\ n < p
    BY DEF Counted, Fits
<1> HIDE DEF p
<1>3. CASE 2 * n < p
  <2>1. ~(2 * n >= p) /\ ~(n >= p) /\ -p <= 2 * n
      BY <1>1, <1>3
  <2> QED BY <1>2, <1>3, <2>1
<1>4. CASE 2 * n >= p /\ n < p
  <2>1. ~(n >= p) /\ ~(2 * n < p) /\ 0 <= n
      BY <1>1, <1>4
  <2> QED BY <1>2, <1>4, <2>1
<1>5. ASSUME n >= p PROVE "long" \in Counted(n) /\ "wraps" \in Counted(n)
  <2>1. 2 * n >= p
      BY <1>1, <1>5
  <2>2. "long" \in Counted(n)
      BY <1>2, <2>1
  <2>3. "wraps" \in Counted(n)
      BY <1>2, <1>5
  <2> QED BY <2>2, <2>3
<1>6. 2 * n < p \/ (2 * n >= p /\ n < p) \/ n >= p
    BY <1>1
<1> QED BY <1>3, <1>4, <1>5, <1>6

\* A failure is all that is asked for if a length was too long.
LEMMA GivesFailed ==
  ASSUME NEW r, NEW v, NEW m, "long" \in m, NEW tail, NEW w
  PROVE  Gives(Failed(r, w), tail, v, m)
BY DEF Gives, Failed

\* Strings: a count and as many bytes.
LEMMA StringConverter ==
  /\ \A s : IsStream(s) => Goes(ReadString(s), s)
  /\ \A v \in Seq(Byte) : Agrees(SizeString(v), WriteString(v))
  /\ \A v \in Seq(Byte), tail \in Seq(Byte) : \A r :
       HasLeft(r, WriteString(v) \o tail) => Gives(ReadString(r), tail, v, Counted(Len(v)))
<1>1. ASSUME NEW s, IsStream(s) PROVE Goes(ReadString(s), s)
  <2> DEFINE n == GetSigned(Int32, s)
  <2>1. Goes(n, s) /\ n.val \in Int
      BY <1>1, WidthsAre, GoesNumber
  <2>2. ReadString(s) = IF n.val < 0 THEN Failed(n, <<>>) ELSE Get(n.val, n)
      BY DEF ReadString
  <2> HIDE DEF n
  <2>3. CASE n.val < 0
      BY <2>1, <2>2, <2>3, GoesWith
  <2>4. CASE ~(n.val < 0)
    <3>1. n.val \in Nat /\ IsStream(n)
        BY <2>1, <2>4 DEF Goes
    <3>2. Goes(Get(n.val, n), n)
        BY <3>1, GetIsStream DEF Goes
    <3> QED BY <2>1, <2>2, <2>4, <3>2, GoesOn
  <2> QED BY <2>3, <2>4
<1>2. ASSUME NEW v \in Seq(Byte) PROVE Agrees(SizeString(v), WriteString(v))
  <2>1. Len(v) \in Int /\ Agrees(Len(v), v)
      BY DEF Agrees
  <2> QED BY <2>1, WidthsAre, AgreesNumber, AgreesBoth DEF SizeString, WriteString
<1>3. ASSUME NEW v \in Seq(Byte), NEW tail \in Seq(Byte), NEW r, HasLeft(r, WriteString(v) \o tail)
      PROVE  Gives(ReadString(r), tail, v, Counted(Len(v)))
  <2> DEFINE k == Len(v)  n == GetSigned(Int32, r)  rest == v \o tail
  <2>1. k \in Nat /\ k \in Int /\ rest \in Seq(Byte)
      BY ConcatProperties
  <2>2. HasLeft(r, Bytes(k, Int32) \o rest)
    <3>1. Bytes(k, Int32) \in Seq(Byte)
        BY <2>1, WidthsAre, BytesShape
    <3> HIDE DEF k
    <3>2. (Bytes(k, Int32) \o v) \o tail = Bytes(k, Int32) \o (v \o tail)
        BY <3>1, Regrouped
    <3>3. WriteString(v) = Bytes(k, Int32) \o v
        BY DEF WriteString, k
    <3> QED BY <1>3, <3>2, <3>3
  <2>3. ReadString(r) = IF n.val < 0 THEN Failed(n, <<>>) ELSE Get(n.val, n)
      BY DEF ReadString
  <2> HIDE DEF k, rest
  <2>4. /\ HasLeft(n, rest)
        /\ Fits(k, Int32, TRUE) => n.val = k
        /\ Fits(k, Int32, FALSE) /\ ~Fits(k, Int32, TRUE) => n.val < 0
    <3>1. /\ HasLeft(n, rest)
          /\ Fits(k, Int32, TRUE) => Reads(n, rest, k)
          /\ Fits(k, Int32, FALSE) /\ ~Fits(k, Int32, TRUE) => n.val < 0
        BY <2>1, <2>2, WidthsAre, ReadsNumber
    <3> HIDE DEF n
    <3> QED BY <3>1, ReadsHasLeft
  <2> HIDE DEF n
  <2>5. CASE Counted(k) = {} /\ Fits(k, Int32, TRUE)
    <3>1. n.val = k /\ ~(k < 0)
        BY <2>1, <2>4, <2>5
    <3>2. Get(k, n) = [rest |-> tail, good |-> TRUE, val |-> v]
      <4>1. n.rest = v \o tail /\ n.good = TRUE
          BY <2>4 DEF HasLeft, rest
      <4> QED BY <4>1, GetBytes DEF k
    <3>3. ReadString(r) = Get(k, n)
        BY <2>3, <3>1
    <3>4. Reads(ReadString(r), tail, v)
        BY <3>2, <3>3 DEF Reads
    <3> QED BY <2>5, <3>4, GivesReads DEF k
  <2>6. CASE Counted(k) = {"long"} /\ Fits(k, Int32, FALSE) /\ ~Fits(k, Int32, TRUE)
      BY <2>3, <2>4, <2>6, GivesFailed DEF k
  <2>7. CASE "long" \in Counted(k) /\ "wraps" \in Counted(k)
      BY <2>7 DEF Gives, k
  <2> QED BY <2>1, <2>5, <2>6, <2>7, CountedCases
<1> QED BY <1>1, <1>2, <1>3

\* A count and then as many values as it says, which the same converter reads.
LEMMA CountedContinues ==
  ASSUME NEW f, Continues(f), NEW s, IsStream(s)
  PROVE  Goes(ReadCounted(f, s), s)
<1> DEFINE c == GetSigned(Int32, s)
<1>1. Goes(c, s) /\ c.val \in Int
    BY WidthsAre, GoesNumber
<1>2. ReadCounted(f, s) = IF c.val < 0 THEN Failed(c, <<>>) ELSE ReadAll(Copies(c.val, f), c)
    BY DEF ReadCounted
<1> HIDE DEF c
<1>3. CASE c.val < 0
    BY <1>1, <1>2, <1>3, GoesWith
<1>4. CASE ~(c.val < 0)
  <2> DEFINE n == c.val  reads == Copies(n, f)
  <2>1. n \in Nat /\ IsStream(c)
      BY <1>1, <1>4 DEF Goes
  <2>2. reads = [k \in 1..n |-> reads[k]] /\ \A k \in 1..n : Continues(reads[k])
    <3>1. \A k \in 1..n : reads[k] = f
        BY DEF Copies
    <3> QED BY <3>1 DEF Copies
  <2> HIDE DEF n, reads
  <2>3. Goes(ReadAll(reads, c), c)
      BY <2>1, <2>2, ReadAllIsStream DEF Goes
  <2> QED BY <1>1, <1>2, <1>4, <2>3, GoesOn DEF n, reads
<1> QED BY <1>3, <1>4

\* The count is read as it was written and so are the values, or it is refused.
LEMMA CountedGives ==
  ASSUME NEW f, Continues(f), NEW n \in Nat, NEW ss, NEW vs, NEW ms,
         Elements(n, Copies(n, f), ss, vs, ms),
         NEW tail \in Seq(Byte), NEW r, HasLeft(r, (Bytes(n, Int32) \o Joined(ss)) \o tail)
  PROVE  Gives(ReadCounted(f, r), tail, vs, Counted(n) \cup UNION {ms[k] : k \in 1..n})
<1> DEFINE c == GetSigned(Int32, r)  all == Joined(ss)  rest == all \o tail
           M == UNION {ms[k] : k \in 1..n}  reads == Copies(n, f)
<1>1. ReadCounted(f, r) = IF c.val < 0 THEN Failed(c, <<>>) ELSE ReadAll(Copies(c.val, f), c)
    BY DEF ReadCounted
<1>2. all \in Seq(Byte) /\ rest \in Seq(Byte)
  <2>1. ss \in Seq(Seq(Byte))
      BY DEF Elements
  <2>2. PICK j : Joins(j, ss)
      BY <2>1, JoinedSteps
  <2>3. Len(ss) \in 0..Len(ss)
      BY <2>1
  <2>4. all \in Seq(Byte)
      BY <2>2, <2>3 DEF Joins
  <2> QED BY <2>4, ConcatProperties
<1>3. HasLeft(r, Bytes(n, Int32) \o rest)
  <2>1. Bytes(n, Int32) \in Seq(Byte)
      BY WidthsAre, BytesShape
  <2> HIDE DEF all
  <2>2. (Bytes(n, Int32) \o all) \o tail = Bytes(n, Int32) \o (all \o tail)
      BY <1>2, <2>1, Regrouped
  <2> QED BY <2>2 DEF all
<1>4. /\ HasLeft(c, rest)
      /\ Fits(n, Int32, TRUE) => c.val = n
      /\ Fits(n, Int32, FALSE) /\ ~Fits(n, Int32, TRUE) => c.val < 0
  <2> HIDE DEF rest
  <2>1. n \in Int
      OBVIOUS
  <2>2. /\ HasLeft(c, rest)
        /\ Fits(n, Int32, TRUE) => Reads(c, rest, n)
        /\ Fits(n, Int32, FALSE) /\ ~Fits(n, Int32, TRUE) => c.val < 0
      BY <1>2, <1>3, <2>1, WidthsAre, ReadsNumber
  <2> HIDE DEF c
  <2> QED BY <2>2, ReadsHasLeft
<1>5. reads = [k \in 1..n |-> reads[k]] /\ \A k \in 1..n : Continues(reads[k])
  <2>1. \A k \in 1..n : reads[k] = f
      BY DEF Copies
  <2> QED BY <2>1 DEF Copies
<1> HIDE DEF c, rest, all, M, reads
<1>6. CASE Counted(n) = {} /\ Fits(n, Int32, TRUE)
  <2>1. c.val = n /\ ~(c.val < 0)
      BY <1>4, <1>6
  <2>2. ReadCounted(f, r) = ReadAll(reads, c)
      BY <1>1, <2>1 DEF reads
  <2>3. Elements(n, reads, ss, vs, ms) /\ HasLeft(c, Joined(ss) \o tail)
      BY <1>4 DEF reads, rest, all
  <2>4. Gives(ReadAll(reads, c), tail, vs, M)
      BY <1>5, <2>3, ReadAllGives DEF M
  <2>5. Counted(n) \cup M = M
      BY <1>6
  <2> QED BY <2>2, <2>4, <2>5 DEF M
<1>7. CASE Counted(n) = {"long"} /\ Fits(n, Int32, FALSE) /\ ~Fits(n, Int32, TRUE)
  <2>1. c.val < 0
      BY <1>4, <1>7
  <2>2. ReadCounted(f, r) = Failed(c, <<>>) /\ "long" \in Counted(n) \cup M
      BY <1>1, <1>7, <2>1
  <2> QED BY <2>2, GivesFailed DEF M
<1>8. CASE "long" \in Counted(n) /\ "wraps" \in Counted(n)
    BY <1>8 DEF Gives
<1> QED BY <1>6, <1>7, <1>8, CountedCases

-----------------------------------------------------------------------------
(***************************************************************************)
(* Types made of others.                                                   *)
(***************************************************************************)
\* allocation_size, write and read of a converter agree on the values V:
\* whatever side wrote it, each reads it.
Faithful(c, V) ==
  /\ \A y \in Sides : Continues(c.read[y])
  /\ \A v \in V, x \in Sides :
       /\ Agrees(c.size[v], c.write[x][v])
       /\ \A y \in Sides : GivesBack(c.read[y], c.write[x][v], v, c.marks[v])

\* The converters of the n types ts are faithful; vs are values of them.
AllFaithful(C, n, ts) ==
  /\ ts = [k \in 1..n |-> ts[k]]
  /\ \A k \in 1..n : Faithful(C[ts[k]], Values[ts[k]])
AllOf(n, ts, vs) ==
  /\ vs = [k \in 1..n |-> vs[k]]
  /\ \A k \in 1..n : vs[k] \in Values[ts[k]]

\* The reads of n types, and what they give of the values vs.
ReadsOf(C, y, n, ts) == [k \in 1..n |-> C[ts[k]].read[y]]
Parts(C, x, n, ts, vs, ss, ms) ==
  /\ Agrees(SizeAll(C, ts, vs), WriteAll(C, x, ts, vs))
  /\ WriteAll(C, x, ts, vs) = Joined(ss)
  /\ MarksAll(C, ts, vs) = UNION {ms[k] : k \in 1..n}
  /\ \A y \in Sides : Elements(n, ReadsOf(C, y, n, ts), ss, vs, ms)

\* What the parts of a value are written as and marked with.
LEMMA PartsExist ==
  ASSUME NEW C, NEW n \in Nat, NEW ts, AllFaithful(C, n, ts),
         NEW vs, AllOf(n, ts, vs), NEW x \in Sides
  PROVE  \E ss, ms : Parts(C, x, n, ts, vs, ss, ms)
<1> DEFINE ss == [k \in 1..n |-> C[ts[k]].write[x][vs[k]]]
           ns == [k \in 1..n |-> C[ts[k]].size[vs[k]]]
           ms == [k \in 1..n |-> C[ts[k]].marks[vs[k]]]
<1>1. DOMAIN vs = 1..n
    BY DEF AllOf
<1>2. /\ WriteAll(C, x, ts, vs) = Joined(ss) /\ SizeAll(C, ts, vs) = Total(ns)
      /\ MarksAll(C, ts, vs) = UNION {ms[k] : k \in 1..n}
  <2>1. WriteAll(C, x, ts, vs) = Joined(ss)
      BY <1>1 DEF WriteAll
  <2>2. SizeAll(C, ts, vs) = Total(ns)
      BY <1>1 DEF SizeAll
  <2>3. MarksAll(C, ts, vs) = UNION {ms[k] : k \in 1..n}
      BY <1>1 DEF MarksAll
  <2> QED BY <2>1, <2>2, <2>3
<1>3. ASSUME NEW k \in 1..n
      PROVE  /\ Agrees(ns[k], ss[k])
             /\ \A y \in Sides : GivesBack(C[ts[k]].read[y], ss[k], vs[k], ms[k])
  <2> DEFINE c == C[ts[k]]  V == Values[ts[k]]
  <2>1. Faithful(c, V) /\ vs[k] \in V
      BY DEF AllFaithful, AllOf
  <2>2. ss[k] = c.write[x][vs[k]] /\ ns[k] = c.size[vs[k]] /\ ms[k] = c.marks[vs[k]]
      OBVIOUS
  <2> HIDE DEF c, V, ss, ns, ms
  <2>3. /\ Agrees(c.size[vs[k]], c.write[x][vs[k]])
        /\ \A y \in Sides : GivesBack(c.read[y], c.write[x][vs[k]], vs[k], c.marks[vs[k]])
      BY <2>1 DEF Faithful
  <2> QED BY <2>2, <2>3 DEF c
<1>4. ss \in Seq(Seq(Byte)) /\ Len(ss) = n
  <2>1. \A k \in 1..n : ss[k] \in Seq(Byte)
    <3> HIDE DEF ss, ns, ms
    <3> QED BY <1>3 DEF Agrees
  <2>2. ss \in [1..n -> Seq(Byte)]
      BY <2>1
  <2> HIDE DEF ss
  <2> QED BY <2>2, IsASeq
<1>5. ns \in Seq(Nat) /\ Len(ns) = n
  <2>1. \A k \in 1..n : ns[k] = Len(ss[k]) /\ ss[k] \in Seq(Byte)
    <3> HIDE DEF ss, ns, ms
    <3> QED BY <1>3 DEF Agrees
  <2>2. \A k \in 1..n : ns[k] \in Nat
    <3> HIDE DEF ns, ss
    <3> QED BY <2>1, LenProperties
  <2>3. ns \in [1..n -> Nat]
      BY <2>2
  <2> HIDE DEF ns
  <2> QED BY <2>3, IsASeq
<1>6. Agrees(Total(ns), Joined(ss))
  <2>1. \A k \in 1..n : ns[k] = Len(ss[k])
    <3> HIDE DEF ss, ns, ms
    <3> QED BY <1>3 DEF Agrees
  <2> HIDE DEF ss, ns
  <2>2. Joined(ss) \in Seq(Byte) /\ Total(ns) = Len(Joined(ss))
      BY <1>4, <1>5, <2>1, JoinedLength
  <2> QED BY <2>2 DEF Agrees
<1>7. ASSUME NEW y \in Sides PROVE Elements(n, ReadsOf(C, y, n, ts), ss, vs, ms)
  <2>1. \A k \in 1..n : ReadsOf(C, y, n, ts)[k] = C[ts[k]].read[y]
      BY DEF ReadsOf
  <2>2. vs = [k \in 1..n |-> vs[k]]
      BY DEF AllOf
  <2>3. \A k \in 1..n : GivesBack(ReadsOf(C, y, n, ts)[k], ss[k], vs[k], ms[k])
    <3> HIDE DEF ss, ns, ms
    <3> QED BY <1>3, <2>1
  <2> HIDE DEF ss, ms
  <2> QED BY <1>4, <2>2, <2>3 DEF Elements
<1> HIDE DEF ss, ns, ms
<1>8. Parts(C, x, n, ts, vs, ss, ms)
    BY <1>2, <1>6, <1>7 DEF Parts
<1> QED BY <1>8

AreReads(f, n) == f = [k \in 1..n |-> f[k]] /\ \A k \in 1..n : Continues(f[k])

\* The reads of faithful converters.
LEMMA ReadsOfContinue ==
  ASSUME NEW C, NEW n \in Nat, NEW ts, AllFaithful(C, n, ts), NEW y \in Sides
  PROVE  /\ AreReads(ReadsOf(C, y, n, ts), n)
         /\ \A r : ReadFields(C, y, ts, r) = ReadAll(ReadsOf(C, y, n, ts), r)
<1>1. DOMAIN ts = 1..n
    BY DEF AllFaithful
<1>2. \A k \in 1..n : Continues(C[ts[k]].read[y])
    BY DEF AllFaithful, Faithful
<1> QED BY <1>1, <1>2 DEF ReadsOf, ReadFields, AreReads

\* Values of several types, one after the other.
LEMMA FieldsGo ==
  ASSUME NEW C, NEW n \in Nat, NEW ts, AllFaithful(C, n, ts), NEW y \in Sides, NEW s, IsStream(s)
  PROVE  Goes(ReadFields(C, y, ts, s), s)
<1> DEFINE f == ReadsOf(C, y, n, ts)
<1>1. AreReads(f, n) /\ ReadFields(C, y, ts, s) = ReadAll(f, s)
    BY ReadsOfContinue
<1> HIDE DEF f
<1> QED BY <1>1, ReadAllIsStream DEF Goes, AreReads

\* The sizes of fields add up to what is written.
LEMMA FieldsAgree ==
  ASSUME NEW C, NEW n \in Nat, NEW ts, AllFaithful(C, n, ts),
         NEW vs, AllOf(n, ts, vs), NEW x \in Sides
  PROVE  Agrees(SizeAll(C, ts, vs), WriteAll(C, x, ts, vs))
<1>1. PICK ss, ms : Parts(C, x, n, ts, vs, ss, ms)
    BY PartsExist
<1> QED BY <1>1 DEF Parts

\* Fields are read as they were written.
LEMMA FieldsGive ==
  ASSUME NEW C, NEW n \in Nat, NEW ts, AllFaithful(C, n, ts),
         NEW vs, AllOf(n, ts, vs), NEW x \in Sides, NEW y \in Sides, NEW tail \in Seq(Byte),
         NEW r, HasLeft(r, WriteAll(C, x, ts, vs) \o tail)
  PROVE  Gives(ReadFields(C, y, ts, r), tail, vs, MarksAll(C, ts, vs))
<1> DEFINE f == ReadsOf(C, y, n, ts)
<1>1. PICK ss, ms : Parts(C, x, n, ts, vs, ss, ms)
    BY PartsExist
<1>2. AreReads(f, n) /\ ReadFields(C, y, ts, r) = ReadAll(f, r)
    BY ReadsOfContinue
<1>3. Elements(n, f, ss, vs, ms) /\ HasLeft(r, Joined(ss) \o tail)
    BY <1>1 DEF Parts
<1> HIDE DEF f
<1>4. Gives(ReadAll(f, r), tail, vs, UNION {ms[k] : k \in 1..n})
    BY <1>2, <1>3, ReadAllGives DEF AreReads
<1> QED BY <1>1, <1>2, <1>4 DEF Parts

\* The bytes after the first ones are left.
LEMMA HasLeftBoth ==
  ASSUME NEW r, NEW a \in Seq(Byte), NEW b \in Seq(Byte), NEW tail \in Seq(Byte),
         HasLeft(r, (a \o b) \o tail)
  PROVE  HasLeft(r, a \o (b \o tail)) /\ b \o tail \in Seq(Byte)
<1>1. (a \o b) \o tail = a \o (b \o tail)
    BY Regrouped
<1>2. b \o tail \in Seq(Byte)
    BY ConcatProperties
<1> QED BY <1>1, <1>2

\* Several values of one type.
LEMMA CopiesFaithful ==
  ASSUME NEW C, NEW e, Faithful(C[e], Values[e]), NEW n \in Nat
  PROVE  AllFaithful(C, n, Copies(n, e))
<1> DEFINE ts == Copies(n, e)
<1>1. ts = [k \in 1..n |-> ts[k]] /\ \A k \in 1..n : ts[k] = e
    BY DEF Copies
<1> HIDE DEF ts
<1>2. \A k \in 1..n : Faithful(C[ts[k]], Values[ts[k]])
    BY <1>1
<1>3. AllFaithful(C, n, ts)
    BY <1>1, <1>2 DEF AllFaithful
<1> QED BY <1>3 DEF ts

\* Copies of one read are the reads of as many fields of one type.
LEMMA CopiesRead ==
  ASSUME NEW C, NEW e, NEW n \in Nat, NEW y, NEW r
  PROVE  ReadAll(Copies(n, C[e].read[y]), r) = ReadFields(C, y, Copies(n, e), r)
BY DEF Copies, ReadFields

\* The elements of a sequence are values of its type.
LEMMA CopiesOf ==
  ASSUME NEW e, NEW v \in Seq(Values[e])
  PROVE  AllOf(Len(v), Copies(Len(v), e), v) /\ Len(v) \in Nat
<1> DEFINE V == Values[e]  n == Len(v)
<1>1. \A k \in 1..n : Copies(n, e)[k] = e
    BY DEF Copies
<1>2. v \in Seq(V) /\ Len(v) = n
    OBVIOUS
<1> HIDE DEF V, n
<1>3. v \in [1..n -> V] /\ n \in Nat
    BY <1>2, LenProperties
<1>4. v = [k \in 1..n |-> v[k]] /\ \A k \in 1..n : v[k] \in V
    BY <1>3
<1> QED BY <1>1, <1>3, <1>4 DEF AllOf, V, n

\* A converter is faithful if its parts are.
LEMMA FaithfulConverter ==
  ASSUME NEW C, NEW i,
         \A y \in Sides : \A s : IsStream(s) => Goes(Read(C, y, Types[i], s), s),
         \A v \in Values[i], x \in Sides : Agrees(Size(C, Types[i], v), Write(C, x, Types[i], v)),
         \A v \in Values[i], x \in Sides, y \in Sides, tail \in Seq(Byte) : \A r :
           HasLeft(r, Write(C, x, Types[i], v) \o tail) =>
             Gives(Read(C, y, Types[i], r), tail, v, Marks(C, Types[i], v))
  PROVE  Faithful(ConverterOf(C, i), Values[i])
<1> DEFINE c == ConverterOf(C, i)  t == Types[i]
<1>1. /\ \A v \in Values[i] : c.size[v] = Size(C, t, v) /\ c.marks[v] = Marks(C, t, v)
      /\ \A x \in Sides, v \in Values[i] : c.write[x][v] = Write(C, x, t, v)
      /\ \A y \in Sides, s \in Streams : c.read[y][s] = Read(C, y, t, s)
    BY DEF ConverterOf
<1> HIDE DEF c
<1>2. ASSUME NEW y \in Sides PROVE Continues(c.read[y])
  <2>1. \A s \in Streams : Goes(c.read[y][s], s)
      BY <1>1, StreamsAre
  <2> QED BY <2>1 DEF Continues, Goes
<1>3. ASSUME NEW v \in Values[i], NEW x \in Sides
      PROVE  /\ Agrees(c.size[v], c.write[x][v])
             /\ \A y \in Sides : GivesBack(c.read[y], c.write[x][v], v, c.marks[v])
  <2> DEFINE w == Write(C, x, t, v)
  <2>1. Agrees(c.size[v], w) /\ c.write[x][v] = w
      BY <1>1
  <2>2. ASSUME NEW y \in Sides, NEW tail \in Seq(Byte)
        PROVE  Gives(c.read[y][Reader(w \o tail)], tail, v, c.marks[v])
    <3> DEFINE r == Reader(w \o tail)
    <3> HIDE DEF w
    <3>1. w \o tail \in Seq(Byte)
        BY <2>1, ConcatProperties DEF Agrees
    <3>2. HasLeft(r, w \o tail) /\ r \in Streams
        BY <3>1, ReaderOf, StreamsAre
    <3>3. c.read[y][r] = Read(C, y, t, r) /\ c.marks[v] = Marks(C, t, v)
        BY <1>1, <3>2
    <3> HIDE DEF r
    <3>4. Gives(Read(C, y, t, r), tail, v, Marks(C, t, v))
        BY <3>2 DEF w
    <3> QED BY <3>3, <3>4 DEF r
  <2> HIDE DEF w
  <2> QED BY <2>1, <2>2 DEF GivesBack
<1>4. Faithful(c, Values[i])
    BY <1>2, <1>3 DEF Faithful
<1> QED BY <1>4 DEF c

\* What is assumed of types and values.
LEMMA TypesAre ==
  ASSUME NEW i \in DOMAIN Types
  PROVE  IsType(i, Types[i]) /\ \A v \in Values[i] : IsValue(Types[i], v)
BY CodecAssumption

\* Integers of every width, signed or not.
LEMMA IntFaithful ==
  ASSUME NEW C, NEW i \in DOMAIN Types, Types[i].kind = "int"
  PROVE  Faithful(ConverterOf(C, i), Values[i])
<1> DEFINE t == Types[i]
<1>1. t.width \in 1..Int64 /\ t.signed \in BOOLEAN
    BY TypesAre DEF IsType
<1>2. \A v \in Values[i] : v \in Int /\ Fits(v, t.width, t.signed)
    BY TypesAre DEF IsValue
<1>3. \A x, y, v, s : /\ Size(C, t, v) = SizeInt(t) /\ Write(C, x, t, v) = WriteInt(t, v)
                      /\ Read(C, y, t, s) = ReadInt(t, s) /\ Marks(C, t, v) = {}
    BY DEF Size, Write, Read, Marks
<1> HIDE DEF t
<1>4. ASSUME NEW s, IsStream(s) PROVE Goes(ReadInt(t, s), s)
    BY <1>1, <1>4, GoesNumber DEF ReadInt
<1>5. ASSUME NEW v \in Values[i] PROVE Agrees(SizeInt(t), WriteInt(t, v))
    BY <1>1, <1>2, AgreesNumber DEF SizeInt, WriteInt
<1>6. ASSUME NEW v \in Values[i], NEW tail \in Seq(Byte), NEW r, HasLeft(r, WriteInt(t, v) \o tail)
      PROVE  Gives(ReadInt(t, r), tail, v, {})
  <2>1. v \in Int /\ HasLeft(r, Bytes(v, t.width) \o tail)
      BY <1>2, <1>6 DEF WriteInt
  <2>2. CASE t.signed = TRUE
    <3>1. Fits(v, t.width, TRUE) /\ ReadInt(t, r) = GetSigned(t.width, r)
        BY <1>2, <2>2 DEF ReadInt
    <3> QED BY <1>1, <2>1, <3>1, ReadsNumber, GivesReads
  <2>3. CASE t.signed = FALSE
    <3>1. Fits(v, t.width, FALSE) /\ ReadInt(t, r) = GetUnsigned(t.width, r)
        BY <1>2, <2>3 DEF ReadInt
    <3> QED BY <1>1, <2>1, <3>1, ReadsNumber, GivesReads
  <2> QED BY <1>1, <2>2, <2>3
<1> QED BY <1>3, <1>4, <1>5, <1>6, FaithfulConverter DEF t

\* Booleans: a byte, 0 or 1.
LEMMA BoolFaithful ==
  ASSUME NEW C, NEW i \in DOMAIN Types, Types[i].kind = "bool"
  PROVE  Faithful(ConverterOf(C, i), Values[i])
<1> DEFINE t == Types[i]
<1>1. \A v \in Values[i] : v \in BOOLEAN
    BY TypesAre DEF IsValue
<1>2. \A x, y, v, s : /\ Size(C, t, v) = SizeBool /\ Write(C, x, t, v) = WriteBool(v)
                      /\ Read(C, y, t, s) = ReadBool(s) /\ Marks(C, t, v) = {}
    BY DEF Size, Write, Read, Marks
<1> HIDE DEF t
<1>3. ASSUME NEW s, IsStream(s) PROVE Goes(ReadBool(s), s)
    BY <1>3, WidthsAre, GoesNumber, GoesWith DEF ReadBool
<1>4. ASSUME NEW v \in Values[i]
      PROVE  /\ Agrees(SizeBool, WriteBool(v))
             /\ \A tail \in Seq(Byte) : \A r : HasLeft(r, WriteBool(v) \o tail) => Gives(ReadBool(r), tail, v, {})
  <2> DEFINE n == IF v THEN 1 ELSE 0
  <2>1. n \in Int /\ Fits(n, 1, FALSE) /\ WriteBool(v) = Bytes(n, 1) /\ (n # 0) = v
      BY <1>1, CodecAssumption, PowerOne DEF Fits, WriteBool
  <2> HIDE DEF n
  <2>2. Agrees(SizeBool, WriteBool(v))
      BY <2>1, WidthsAre, AgreesNumber DEF SizeBool
  <2>3. ASSUME NEW tail \in Seq(Byte), NEW r, HasLeft(r, WriteBool(v) \o tail)
        PROVE  Gives(ReadBool(r), tail, v, {})
    <3> DEFINE g == GetUnsigned(1, r)
    <3>1. Reads(g, tail, n)
        BY <2>1, <2>3, WidthsAre, ReadsNumber
    <3>2. ReadBool(r) = With(g, g.val # 0)
        BY DEF ReadBool
    <3> HIDE DEF g
    <3> QED BY <2>1, <3>1, <3>2, ReadsHasLeft, WithReads, GivesReads
  <2> QED BY <2>2, <2>3
<1> QED BY <1>2, <1>3, <1>4, FaithfulConverter DEF t

\* Strings.
LEMMA StringFaithful ==
  ASSUME NEW C, NEW i \in DOMAIN Types, Types[i].kind = "string"
  PROVE  Faithful(ConverterOf(C, i), Values[i])
<1> DEFINE t == Types[i]
<1>1. \A v \in Values[i] : v \in Seq(Byte)
    BY TypesAre DEF IsValue
<1>2. \A x, y, v, s : /\ Size(C, t, v) = SizeString(v) /\ Write(C, x, t, v) = WriteString(v)
                      /\ Read(C, y, t, s) = ReadString(s) /\ Marks(C, t, v) = Counted(Len(v))
    BY DEF Size, Write, Read, Marks
<1> HIDE DEF t
<1> QED BY <1>1, <1>2, StringConverter, FaithfulConverter DEF t

\* Optionals: a flag and the value if there is one.
LEMMA OptionalFaithful ==
  ASSUME NEW C, NEW i \in DOMAIN Types, Types[i].kind = "optional",
         Faithful(C[Types[i].of], Values[Types[i].of])
  PROVE  Faithful(ConverterOf(C, i), Values[i])
<1> DEFINE t == Types[i]  e == t.of
<1>1. Faithful(C[e], Values[e])
    OBVIOUS
<1>2. \A v \in Values[i] : v \in Seq(Values[e]) /\ Len(v) <= 1
    BY TypesAre DEF IsValue
<1>3. \A x, y, v, s : /\ Size(C, t, v) = SizeOptional(C, t, v) /\ Write(C, x, t, v) = WriteOptional(C, x, t, v)
                      /\ Read(C, y, t, s) = ReadOptional(C, y, t, s)
                      /\ Marks(C, t, v) = MarksAll(C, Copies(Len(v), e), v)
    BY DEF Size, Write, Read, Marks
<1>4. ASSUME NEW y \in Sides, NEW s, IsStream(s) PROVE Goes(ReadOptional(C, y, t, s), s)
  <2> DEFINE g == GetUnsigned(1, s)  n == IF g.val # 0 THEN 1 ELSE 0
  <2>1. Goes(g, s) /\ IsStream(g)
      BY <1>4, WidthsAre, GoesNumber DEF Goes
  <2>2. ReadOptional(C, y, t, s) = ReadAll(Copies(n, C[e].read[y]), g)
      BY DEF ReadOptional
  <2>3. n \in Nat
      OBVIOUS
  <2> HIDE DEF g, n, e, t
  <2>4. AllFaithful(C, n, Copies(n, e))
      BY <1>1, <2>3, CopiesFaithful
  <2>5. Goes(ReadFields(C, y, Copies(n, e), g), g)
      BY <2>1, <2>3, <2>4, FieldsGo
  <2>6. ReadOptional(C, y, t, s) = ReadFields(C, y, Copies(n, e), g)
      BY <2>2, <2>3, CopiesRead
  <2> QED BY <2>1, <2>5, <2>6, GoesOn
<1>5. ASSUME NEW v \in Values[i], NEW x \in Sides
      PROVE  /\ Agrees(SizeOptional(C, t, v), WriteOptional(C, x, t, v))
             /\ \A y \in Sides, tail \in Seq(Byte) : \A r :
                  HasLeft(r, WriteOptional(C, x, t, v) \o tail) =>
                    Gives(ReadOptional(C, y, t, r), tail, v, MarksAll(C, Copies(Len(v), e), v))
  <2> DEFINE n == Len(v)  ts == Copies(n, e)  all == WriteAll(C, x, ts, v)
  <2>0. SizeOptional(C, t, v) = 1 + SizeAll(C, ts, v) /\ WriteOptional(C, x, t, v) = Bytes(n, 1) \o all
      BY DEF SizeOptional, WriteOptional
  <2>1. AllOf(n, ts, v) /\ n \in Nat /\ n <= 1
      BY <1>2, CopiesOf
  <2> HIDE DEF n, e, t
  <2>2. AllFaithful(C, n, ts)
      BY <1>1, <2>1, CopiesFaithful
  <2>3. n \in Int /\ Fits(n, 1, FALSE)
    <3>1. 0 <= n /\ n < Base
        BY <2>1, CodecAssumption
    <3> QED BY <2>1, <3>1, PowerOne DEF Fits
  <2>4. Bytes(n, 1) \in Seq(Byte)
      BY <2>3, WidthsAre, BytesShape
  <2> HIDE DEF ts
  <2>5. Agrees(SizeAll(C, ts, v), all)
      BY <2>1, <2>2, FieldsAgree
  <2>6. Agrees(SizeOptional(C, t, v), WriteOptional(C, x, t, v))
      BY <2>0, <2>3, <2>5, WidthsAre, AgreesNumber, AgreesBoth
  <2>7. ASSUME NEW y \in Sides, NEW tail \in Seq(Byte), NEW r,
               HasLeft(r, WriteOptional(C, x, t, v) \o tail)
        PROVE  Gives(ReadOptional(C, y, t, r), tail, v, MarksAll(C, ts, v))
    <3> DEFINE g == GetUnsigned(1, r)
    <3>1. HasLeft(r, Bytes(n, 1) \o (all \o tail)) /\ all \o tail \in Seq(Byte)
      <4>1. all \in Seq(Byte) /\ HasLeft(r, (Bytes(n, 1) \o all) \o tail)
          BY <2>0, <2>5, <2>7 DEF Agrees
      <4> HIDE DEF all
      <4> QED BY <2>4, <4>1, HasLeftBoth
    <3>2. HasLeft(g, all \o tail) /\ g.val = n
      <4> HIDE DEF all
      <4>1. Reads(g, all \o tail, n)
          BY <2>3, <3>1, WidthsAre, ReadsNumber
      <4> HIDE DEF g
      <4> QED BY <4>1, ReadsHasLeft
    <3>3. ReadOptional(C, y, t, r) = ReadAll(Copies(IF g.val # 0 THEN 1 ELSE 0, C[e].read[y]), g)
        BY DEF ReadOptional, e
    <3> HIDE DEF g
    <3>4. (IF g.val # 0 THEN 1 ELSE 0) = n
        BY <2>1, <3>2
    <3>5. ReadOptional(C, y, t, r) = ReadFields(C, y, ts, g)
      <4>1. ReadOptional(C, y, t, r) = ReadAll(Copies(n, C[e].read[y]), g)
          BY <3>3, <3>4
      <4> QED BY <2>1, <4>1, CopiesRead DEF ts
    <3>6. Gives(ReadFields(C, y, ts, g), tail, v, MarksAll(C, ts, v))
        BY <2>1, <2>2, <3>2, FieldsGive
    <3> QED BY <3>5, <3>6
  <2> QED BY <2>6, <2>7 DEF n, ts
<1> HIDE DEF t, e
<1> QED BY <1>3, <1>4, <1>5, FaithfulConverter DEF t

\* A sequence, and what is left to do for a map.
LEMMA SequenceGo ==
  ASSUME NEW C, NEW e, Faithful(C[e], Values[e]), NEW y \in Sides, NEW s, IsStream(s)
  PROVE  Goes(ReadCounted(C[e].read[y], s), s)
<1> DEFINE f == C[e].read[y]
<1>1. Continues(f)
    BY DEF Faithful
<1> HIDE DEF f
<1>2. Goes(ReadCounted(f, s), s)
    BY <1>1, CountedContinues
<1> QED BY <1>2 DEF f

\* The size of a sequence is that of its count and its elements.
LEMMA SequenceAgree ==
  ASSUME NEW C, NEW t, Faithful(C[t.of], Values[t.of]), NEW v \in Seq(Values[t.of]), NEW x \in Sides
  PROVE  Agrees(SizeSequence(C, t, v), WriteSequence(C, x, t, v))
<1> DEFINE n == Len(v)  e == t.of  ts == Copies(n, e)
<1>1. /\ SizeSequence(C, t, v) = Int32 + SizeAll(C, ts, v)
      /\ WriteSequence(C, x, t, v) = Bytes(n, Int32) \o WriteAll(C, x, ts, v)
    BY DEF SizeSequence, WriteSequence
<1>2. AllOf(n, ts, v) /\ n \in Nat /\ Faithful(C[e], Values[e])
    BY CopiesOf
<1> HIDE DEF n, e
<1>3. AllFaithful(C, n, ts) /\ n \in Int
    BY <1>2, CopiesFaithful
<1> HIDE DEF ts
<1>4. Agrees(SizeAll(C, ts, v), WriteAll(C, x, ts, v))
    BY <1>2, <1>3, FieldsAgree
<1> QED BY <1>1, <1>3, <1>4, WidthsAre, AgreesNumber, AgreesBoth

\* A sequence is read as it was written.
LEMMA SequenceGive ==
  ASSUME NEW C, NEW t, Faithful(C[t.of], Values[t.of]), NEW v \in Seq(Values[t.of]),
         NEW x \in Sides, NEW y \in Sides, NEW tail \in Seq(Byte),
         NEW r, HasLeft(r, WriteSequence(C, x, t, v) \o tail)
  PROVE  Gives(ReadCounted(C[t.of].read[y], r), tail, v,
               Counted(Len(v)) \cup MarksAll(C, Copies(Len(v), t.of), v))
<1> DEFINE n == Len(v)  e == t.of  ts == Copies(n, e)  f == C[e].read[y]
<1>1. WriteSequence(C, x, t, v) = Bytes(n, Int32) \o WriteAll(C, x, ts, v)
    BY DEF WriteSequence
<1>2. AllOf(n, ts, v) /\ n \in Nat /\ Faithful(C[e], Values[e])
    BY CopiesOf
<1> HIDE DEF n, e
<1>3. AllFaithful(C, n, ts) /\ Continues(f)
    BY <1>2, CopiesFaithful DEF Faithful
<1>4. ReadsOf(C, y, n, ts) = Copies(n, f)
    BY DEF ReadsOf, Copies
<1> HIDE DEF ts
<1>5. PICK ss, ms : Parts(C, x, n, ts, v, ss, ms)
    BY <1>2, <1>3, PartsExist
<1>6. /\ Elements(n, Copies(n, f), ss, v, ms)
      /\ MarksAll(C, ts, v) = UNION {ms[k] : k \in 1..n}
      /\ HasLeft(r, (Bytes(n, Int32) \o Joined(ss)) \o tail)
    BY <1>1, <1>4, <1>5 DEF Parts
<1> HIDE DEF f
<1>7. Gives(ReadCounted(f, r), tail, v, Counted(n) \cup UNION {ms[k] : k \in 1..n})
    BY <1>2, <1>3, <1>6, CountedGives
<1> QED BY <1>6, <1>7 DEF n, e, ts, f

\* Sequences.
LEMMA SequenceFaithful ==
  ASSUME NEW C, NEW i \in DOMAIN Types, Types[i].kind = "sequence",
         Faithful(C[Types[i].of], Values[Types[i].of])
  PROVE  Faithful(ConverterOf(C, i), Values[i])
<1> DEFINE t == Types[i]  e == t.of
<1>1. Faithful(C[e], Values[e])
    OBVIOUS
<1>2. \A v \in Values[i] : v \in Seq(Values[e])
    BY TypesAre DEF IsValue
<1>3. \A x, y, v, s : /\ Size(C, t, v) = SizeSequence(C, t, v) /\ Write(C, x, t, v) = WriteSequence(C, x, t, v)
                      /\ Read(C, y, t, s) = ReadCounted(C[e].read[y], s)
                      /\ Marks(C, t, v) = Counted(Len(v)) \cup MarksAll(C, Copies(Len(v), e), v)
    BY DEF Size, Write, Read, Marks, ReadSequence
<1> HIDE DEF t
<1>4. ASSUME NEW y \in Sides, NEW s, IsStream(s) PROVE Goes(Read(C, y, t, s), s)
    BY <1>1, <1>3, <1>4, SequenceGo
<1>5. ASSUME NEW v \in Values[i], NEW x \in Sides PROVE Agrees(Size(C, t, v), Write(C, x, t, v))
    BY <1>1, <1>2, <1>3, SequenceAgree
<1>6. ASSUME NEW v \in Values[i], NEW x \in Sides, NEW y \in Sides, NEW tail \in Seq(Byte),
             NEW r, HasLeft(r, Write(C, x, t, v) \o tail)
      PROVE  Gives(Read(C, y, t, r), tail, v, Marks(C, t, v))
  <2>1. v \in Seq(Values[e]) /\ HasLeft(r, WriteSequence(C, x, t, v) \o tail)
      BY <1>2, <1>3, <1>6
  <2>2. Gives(ReadCounted(C[e].read[y], r), tail, v, Counted(Len(v)) \cup MarksAll(C, Copies(Len(v), e), v))
      BY <1>1, <2>1, SequenceGive
  <2> QED BY <1>3, <2>2
<1> QED BY <1>4, <1>5, <1>6, FaithfulConverter DEF t

\* The entries of a map in some order: each once.
LEMMA SetToSeqIs ==
  ASSUME NEW S, IsFiniteSet(S)
  PROVE  /\ SetToSeq(S) \in Seq(S) /\ Len(SetToSeq(S)) = Cardinality(S)
         /\ \A x \in S : \E k \in 1..Cardinality(S) : SetToSeq(S)[k] = x
         /\ \A j, k \in 1..Cardinality(S) : SetToSeq(S)[j] = SetToSeq(S)[k] => j = k
<1> DEFINE n == Cardinality(S)  q == SetToSeq(S)
<1>1. n \in Nat /\ ExistsBijection(1..n, S)
    BY FS_CardinalityType
<1>2. q = CHOOSE f \in [1..n -> S] : IsInjective(f)
    BY DEF SetToSeq
<1> HIDE DEF n, q
<1>3. \E f \in [1..n -> S] : IsInjective(f)
    BY <1>1 DEF ExistsBijection, Bijection, Injection
<1>4. q \in [1..n -> S] /\ IsInjective(q)
    BY <1>2, <1>3
<1>5. q \in Seq(S) /\ Len(q) = n
    BY <1>1, <1>4, IsASeq
<1>6. q \in Surjection(1..n, S)
  <2>1. q \in Injection(1..n, S)
      BY <1>4 DEF Injection
  <2>2. Cardinality(1..n) = n
    <3>1. 1 \in Int /\ n \in Int
        BY <1>1
    <3>2. Cardinality(1..n) = IF 1 > n THEN 0 ELSE n - 1 + 1
        BY <3>1, FS_Interval
    <3> QED BY <1>1, <3>2
  <2> QED BY <2>1, <2>2, FS_Injection DEF n
<1> QED BY <1>4, <1>5, <1>6 DEF IsInjective, Surjection, n, q

\* Maps, whatever the order: no key is there twice, so none is dropped.
LEMMA MapFaithful ==
  ASSUME NEW C, NEW i \in DOMAIN Types, Types[i].kind = "map",
         Faithful(C[Types[i].entry], Values[Types[i].entry])
  PROVE  Faithful(ConverterOf(C, i), Values[i])
<1> DEFINE t == Types[i]  e == t.entry  u == [of |-> e]
           Entries(q) == {q[j] : j \in {k \in DOMAIN q : \A l \in 1..(k - 1) : q[l][1] # q[k][1]}}
<1>1. Faithful(C[e], Values[e])
    OBVIOUS
<1>2. \A v \in Values[i] :
        v \subseteq Values[e] /\ IsFiniteSet(v) /\ \A a, b \in v : a[1] = b[1] => a = b
    BY TypesAre DEF IsValue
<1>3. \A x, y, v, s :
        /\ Size(C, t, v) = SizeSequence(C, u, SetToSeq(v))
        /\ Write(C, x, t, v) = WriteSequence(C, x, u, SetToSeq(v))
        /\ Read(C, y, t, s) = With(ReadCounted(C[e].read[y], s), Entries(ReadCounted(C[e].read[y], s).val))
        /\ Marks(C, t, v) = Counted(Cardinality(v)) \cup MarksAll(C, Copies(Cardinality(v), e), SetToSeq(v))
    BY DEF Size, Write, Read, Marks, ReadMap, WriteMap, SizeMap
<1>4. Faithful(C[u.of], Values[u.of]) /\ u.of = e
    BY <1>1
<1> HIDE DEF t, e, u, Entries
<1>5. ASSUME NEW v \in Values[i]
      PROVE  /\ SetToSeq(v) \in Seq(Values[u.of]) /\ Len(SetToSeq(v)) = Cardinality(v)
             /\ Entries(SetToSeq(v)) = v
  <2> DEFINE q == SetToSeq(v)  n == Cardinality(v)
  <2>1. v \subseteq Values[e] /\ IsFiniteSet(v)
      BY <1>2
  <2>2. /\ q \in Seq(v) /\ Len(q) = n
        /\ \A a \in v : \E k \in 1..n : q[k] = a
        /\ \A j, k \in 1..n : q[j] = q[k] => j = k
      BY <2>1, SetToSeqIs
  <2> HIDE DEF q, n
  <2>3. DOMAIN q = 1..n /\ n \in Nat /\ \A k \in 1..n : q[k] \in v
      BY <2>2
  <2>4. \A k \in 1..n : \A l \in 1..(k - 1) : q[l][1] # q[k][1]
    <3> SUFFICES ASSUME NEW k \in 1..n, NEW l \in 1..(k - 1), q[l][1] = q[k][1] PROVE FALSE
        OBVIOUS
    <3>1. l \in 1..n /\ l # k
        BY <2>3
    <3>2. q[l] = q[k]
        BY <1>2, <2>3, <3>1
    <3> QED BY <2>2, <3>1, <3>2
  <2>5. Entries(q) = v
      BY <2>2, <2>3, <2>4 DEF Entries
  <2>6. q \in Seq(Values[u.of])
    <3> DEFINE V == Values[u.of]
    <3>1. v \subseteq V /\ q \in [1..n -> v] /\ n \in Nat
        BY <1>4, <2>1, <2>2, <2>3, LenProperties
    <3> HIDE DEF V
    <3>2. q \in [1..n -> V]
        BY <3>1
    <3>3. q \in Seq(V)
        BY <3>1, <3>2, IsASeq
    <3> QED BY <3>3 DEF V
  <2> QED BY <2>2, <2>5, <2>6 DEF q, n
<1>6. ASSUME NEW y \in Sides, NEW s, IsStream(s) PROVE Goes(Read(C, y, t, s), s)
  <2> DEFINE g == ReadCounted(C[e].read[y], s)
  <2>1. Goes(g, s)
      BY <1>1, <1>6, SequenceGo
  <2>2. Read(C, y, t, s) = With(g, Entries(g.val))
      BY <1>3
  <2> HIDE DEF g
  <2> QED BY <2>1, <2>2, GoesWith
<1>7. ASSUME NEW v \in Values[i], NEW x \in Sides PROVE Agrees(Size(C, t, v), Write(C, x, t, v))
    BY <1>3, <1>4, <1>5, SequenceAgree
<1>8. ASSUME NEW v \in Values[i], NEW x \in Sides, NEW y \in Sides, NEW tail \in Seq(Byte),
             NEW r, HasLeft(r, Write(C, x, t, v) \o tail)
      PROVE  Gives(Read(C, y, t, r), tail, v, Marks(C, t, v))
  <2> DEFINE q == SetToSeq(v)  g == ReadCounted(C[e].read[y], r)  m == Marks(C, t, v)
  <2>1. q \in Seq(Values[u.of]) /\ HasLeft(r, WriteSequence(C, x, u, q) \o tail)
      BY <1>3, <1>5, <1>8
  <2>2. Gives(ReadCounted(C[u.of].read[y], r), tail, q, Counted(Len(q)) \cup MarksAll(C, Copies(Len(q), u.of), q))
    <3> HIDE DEF q
    <3> QED BY <1>4, <2>1, SequenceGive
  <2>3. m = Counted(Len(q)) \cup MarksAll(C, Copies(Len(q), u.of), q)
      BY <1>3, <1>4, <1>5
  <2>4. Gives(g, tail, q, m)
      BY <1>4, <2>2, <2>3
  <2>5. Read(C, y, t, r) = With(g, Entries(g.val)) /\ Entries(q) = v
      BY <1>3, <1>5
  <2> HIDE DEF g, q, m
  <2>6. /\ With(g, Entries(g.val)).rest = g.rest /\ With(g, Entries(g.val)).good = g.good
        /\ With(g, Entries(g.val)).val = Entries(g.val)
      BY DEF With
  <2>7. Gives(With(g, Entries(g.val)), tail, v, m)
      BY <2>4, <2>5, <2>6 DEF Gives
  <2> QED BY <2>5, <2>7 DEF m
<1> QED BY <1>6, <1>7, <1>8, FaithfulConverter DEF t

\* The types of a record or of a variant.
LEMMA ListFaithful ==
  ASSUME NEW C, NEW B, \A j \in B : Faithful(C[j], Values[j]), NEW ts \in Seq(B)
  PROVE  /\ AllFaithful(C, Len(ts), ts) /\ Len(ts) \in Nat
         /\ \A vs : AreValues(ts, vs) => AllOf(Len(ts), ts, vs)
<1> DEFINE n == Len(ts)
<1>1. ts \in Seq(B) /\ Len(ts) = n /\ n \in Nat
    OBVIOUS
<1> HIDE DEF n
<1>2. ts \in [1..n -> B] /\ DOMAIN ts = 1..n
    BY <1>1, LenProperties
<1>3. ts = [k \in 1..n |-> ts[k]] /\ \A k \in 1..n : ts[k] \in B
    BY <1>2
<1>4. \A k \in 1..n : Faithful(C[ts[k]], Values[ts[k]])
    BY <1>3
<1>5. AllFaithful(C, n, ts)
    BY <1>3, <1>4 DEF AllFaithful
<1>6. \A vs : AreValues(ts, vs) => AllOf(n, ts, vs)
    BY <1>2 DEF AreValues, AllOf
<1> QED BY <1>1, <1>5, <1>6 DEF n

\* Records.
LEMMA RecordFaithful ==
  ASSUME NEW C, NEW i \in DOMAIN Types, Types[i].kind = "record",
         \A j \in Before(i) : Faithful(C[j], Values[j])
  PROVE  Faithful(ConverterOf(C, i), Values[i])
<1> DEFINE t == Types[i]  ts == t.fields  n == Len(ts)  B == Before(i)
<1>1. ts \in Seq(B)
    BY TypesAre DEF IsType
<1>2. \A v \in Values[i] : AreValues(ts, v)
    BY TypesAre DEF IsValue
<1>3. /\ \A v : Size(C, t, v) = SizeAll(C, ts, v) /\ Marks(C, t, v) = MarksAll(C, ts, v)
      /\ \A x, v : Write(C, x, t, v) = WriteAll(C, x, ts, v)
      /\ \A y, s : Read(C, y, t, s) = ReadFields(C, y, ts, s)
    BY DEF Size, Write, Read, Marks, ReadRecord, WriteRecord, SizeRecord
<1>4. \A j \in B : Faithful(C[j], Values[j])
    OBVIOUS
<1> HIDE DEF t, ts, B
<1>5. AllFaithful(C, n, ts) /\ n \in Nat /\ \A v \in Values[i] : AllOf(n, ts, v)
    BY <1>1, <1>2, <1>4, ListFaithful
<1> HIDE DEF n
<1>6. ASSUME NEW y \in Sides, NEW s, IsStream(s) PROVE Goes(Read(C, y, t, s), s)
    BY <1>3, <1>5, <1>6, FieldsGo
<1>7. ASSUME NEW v \in Values[i], NEW x \in Sides PROVE Agrees(Size(C, t, v), Write(C, x, t, v))
    BY <1>3, <1>5, FieldsAgree
<1>8. ASSUME NEW v \in Values[i], NEW x \in Sides, NEW y \in Sides, NEW tail \in Seq(Byte),
             NEW r, HasLeft(r, Write(C, x, t, v) \o tail)
      PROVE  Gives(Read(C, y, t, r), tail, v, Marks(C, t, v))
  <2>1. AllOf(n, ts, v) /\ HasLeft(r, WriteAll(C, x, ts, v) \o tail)
      BY <1>3, <1>5, <1>8
  <2>2. Gives(ReadFields(C, y, ts, r), tail, v, MarksAll(C, ts, v))
      BY <1>5, <2>1, FieldsGive
  <2> QED BY <1>3, <2>2
<1> QED BY <1>6, <1>7, <1>8, FaithfulConverter DEF t

\* Custom types are what their builtins are.
LEMMA CustomFaithful ==
  ASSUME NEW C, NEW i \in DOMAIN Types, Types[i].kind = "custom",
         Faithful(C[Types[i].of], Values[Types[i].of])
  PROVE  Faithful(ConverterOf(C, i), Values[i])
<1> DEFINE t == Types[i]  c == C[t.of]  V == Values[t.of]
<1>1. Faithful(c, V)
    OBVIOUS
<1>2. \A v \in Values[i] : v.custom \in V /\ v = [custom |-> v.custom]
    BY TypesAre DEF IsValue
<1>3. /\ \A v : Size(C, t, v) = c.size[v.custom] /\ Marks(C, t, v) = c.marks[v.custom]
      /\ \A x, v : Write(C, x, t, v) = c.write[x][v.custom]
      /\ \A y, s : Read(C, y, t, s) = With(c.read[y][Stream(s)], [custom |-> c.read[y][Stream(s)].val])
    BY DEF Size, Write, Read, Marks, ReadCustom, WriteCustom, SizeCustom
<1> HIDE DEF t, c, V
<1>6. ASSUME NEW y \in Sides, NEW s, IsStream(s) PROVE Goes(Read(C, y, t, s), s)
  <2> DEFINE g == c.read[y][Stream(s)]
  <2>1. Stream(s) \in Streams /\ Stream(s).good = s.good
      BY <1>6, StreamsAre DEF Stream
  <2>2. Goes(g, s)
      BY <1>1, <2>1 DEF Faithful, Continues, Goes
  <2>3. Read(C, y, t, s) = With(g, [custom |-> g.val])
      BY <1>3
  <2> HIDE DEF g
  <2> QED BY <2>2, <2>3, GoesWith
<1>7. ASSUME NEW v \in Values[i], NEW x \in Sides PROVE Agrees(Size(C, t, v), Write(C, x, t, v))
    BY <1>1, <1>2, <1>3 DEF Faithful
<1>8. ASSUME NEW v \in Values[i], NEW x \in Sides, NEW y \in Sides, NEW tail \in Seq(Byte),
             NEW r, HasLeft(r, Write(C, x, t, v) \o tail)
      PROVE  Gives(Read(C, y, t, r), tail, v, Marks(C, t, v))
  <2> DEFINE w == v.custom  bs == c.write[x][w]  m == c.marks[w]  g == c.read[y][Stream(r)]
  <2>1. w \in V /\ v = [custom |-> w]
      BY <1>2
  <2>2. GivesBack(c.read[y], bs, w, m) /\ HasLeft(r, bs \o tail)
      BY <1>1, <1>3, <1>8, <2>1 DEF Faithful
  <2>3. Stream(r) = Reader(bs \o tail)
      BY <2>2, StreamsAre DEF HasLeft
  <2>4. Gives(g, tail, w, m)
    <3> HIDE DEF bs, w, m
    <3> QED BY <2>2, <2>3 DEF GivesBack
  <2>5. Read(C, y, t, r) = With(g, [custom |-> g.val]) /\ Marks(C, t, v) = m
      BY <1>3
  <2> HIDE DEF g, bs, w, m
  <2>6. /\ With(g, [custom |-> g.val]).rest = g.rest /\ With(g, [custom |-> g.val]).good = g.good
        /\ With(g, [custom |-> g.val]).val = [custom |-> g.val]
      BY DEF With
  <2>7. Gives(With(g, [custom |-> g.val]), tail, v, m)
      BY <2>1, <2>4, <2>6 DEF Gives
  <2> QED BY <2>5, <2>7
<1> QED BY <1>6, <1>7, <1>8, FaithfulConverter DEF t

\* Enums: the variant's number selects the fields to be read.
LEMMA EnumFaithful ==
  ASSUME NEW C, NEW i \in DOMAIN Types, Types[i].kind = "enum",
         \A j \in Before(i) : Faithful(C[j], Values[j])
  PROVE  Faithful(ConverterOf(C, i), Values[i])
<1> DEFINE t == Types[i]  B == Before(i)  N == Len(t.variants)
           Ts(k) == t.variants[k]  Value(k, fs) == [variant |-> k, fields |-> fs]
           first == Value(1, <<>>)
<1>1. N \in Nat /\ 2 * N < Power[Int32] /\ \A k \in 1..N : Ts(k) \in Seq(B)
  <2>1. t.variants \in Seq(Seq(B)) /\ 2 * N < Power[Int32]
      BY TypesAre DEF IsType
  <2> QED BY <2>1
<1>2. \A v \in Values[i] :
        v.variant \in 1..N /\ AreValues(Ts(v.variant), v.fields) /\ v = Value(v.variant, v.fields)
    BY TypesAre DEF IsValue
<1>3. /\ \A v : /\ Size(C, t, v) = Int32 + SizeAll(C, Ts(v.variant), v.fields)
              /\ Marks(C, t, v) = MarksAll(C, Ts(v.variant), v.fields)
      /\ \A x, v : Write(C, x, t, v) =
                    Bytes(v.variant, Int32) \o WriteAll(C, x, Ts(v.variant), v.fields)
    BY DEF Size, Write, Marks, WriteEnum, SizeEnum
<1>4. ASSUME NEW y, NEW s, NEW k, k = GetSigned(Int32, s).val, NEW f,
             f = ReadFields(C, y, Ts(k), GetSigned(Int32, s))
      PROVE  Read(C, y, t, s) = IF k \in 1..N THEN With(f, Value(k, f.val))
                                ELSE Failed(GetSigned(Int32, s), first)
    BY <1>4 DEF Read, ReadEnum
<1>5. \A j \in B : Faithful(C[j], Values[j])
    OBVIOUS
<1> HIDE DEF t, B, N, Ts, first
<1>6. \A k \in 1..N : AllFaithful(C, Len(Ts(k)), Ts(k)) /\ Len(Ts(k)) \in Nat
    BY <1>1, <1>5, ListFaithful
<1>7. \A v \in Values[i] : AllOf(Len(Ts(v.variant)), Ts(v.variant), v.fields)
    BY <1>1, <1>2, <1>5, ListFaithful
<1>8. ASSUME NEW y \in Sides, NEW s, IsStream(s) PROVE Goes(Read(C, y, t, s), s)
  <2> DEFINE g == GetSigned(Int32, s)  k == g.val  f == ReadFields(C, y, Ts(k), g)
  <2>1. Goes(g, s) /\ IsStream(g)
      BY <1>8, WidthsAre, GoesNumber DEF Goes
  <2>2. Read(C, y, t, s) = IF k \in 1..N THEN With(f, Value(k, f.val)) ELSE Failed(g, first)
      BY <1>4
  <2> HIDE DEF g, k, Value
  <2>3. CASE k \in 1..N
    <3>1. Goes(f, g)
        BY <1>6, <2>1, <2>3, FieldsGo
    <3> HIDE DEF f
    <3>2. Goes(f, s)
        BY <2>1, <3>1, GoesOn
    <3> QED BY <2>2, <2>3, <3>2, GoesWith
  <2>4. CASE k \notin 1..N
    <3> HIDE DEF f
    <3> QED BY <2>1, <2>2, <2>4, GoesWith
  <2> QED BY <2>3, <2>4
<1>9. ASSUME NEW v \in Values[i], NEW x \in Sides
      PROVE  /\ Agrees(Size(C, t, v), Write(C, x, t, v))
             /\ \A y \in Sides, tail \in Seq(Byte) : \A r :
                  HasLeft(r, Write(C, x, t, v) \o tail) => Gives(Read(C, y, t, r), tail, v, Marks(C, t, v))
  <2> DEFINE k == v.variant  fs == v.fields  ts == Ts(k)  n == Len(ts)  m == MarksAll(C, ts, fs)
             all == WriteAll(C, x, ts, fs)  bs == Bytes(k, Int32)
  <2>1. k \in 1..N /\ v = Value(k, fs) /\ AllOf(n, ts, fs) /\ AllFaithful(C, n, ts) /\ n \in Nat
      BY <1>2, <1>6, <1>7
  <2>2. /\ Size(C, t, v) = Int32 + SizeAll(C, ts, fs) /\ Marks(C, t, v) = m
        /\ Write(C, x, t, v) = bs \o all
      BY <1>3
  <2> HIDE DEF k, fs, n, Value
  <2>3. k \in Int /\ Fits(k, Int32, TRUE)
    <3> DEFINE p == Power[Int32]
    <3>1. p \in Nat \ {0} /\ 2 * N < p
        BY <1>1, WidthsAre, PowerValues
    <3>2. Fits(k, Int32, TRUE) <=> -p <= 2 * k /\ 2 * k < p
        BY DEF Fits
    <3> HIDE DEF p
    <3>3. k \in Int /\ -p <= 2 * k /\ 2 * k < p
        BY <1>1, <2>1, <3>1
    <3> QED BY <3>2, <3>3
  <2>4. bs \in Seq(Byte)
      BY <2>3, WidthsAre, BytesShape
  <2> HIDE DEF ts
  <2>5. Agrees(SizeAll(C, ts, fs), all)
      BY <2>1, FieldsAgree
  <2>6. Agrees(Size(C, t, v), Write(C, x, t, v))
      BY <2>2, <2>3, <2>5, WidthsAre, AgreesNumber, AgreesBoth
  <2>7. ASSUME NEW y \in Sides, NEW tail \in Seq(Byte), NEW r, HasLeft(r, Write(C, x, t, v) \o tail)
        PROVE  Gives(Read(C, y, t, r), tail, v, m)
    <3> DEFINE g == GetSigned(Int32, r)  f == ReadFields(C, y, ts, g)
    <3>1. HasLeft(r, bs \o (all \o tail)) /\ all \o tail \in Seq(Byte)
      <4>1. all \in Seq(Byte) /\ HasLeft(r, (bs \o all) \o tail)
          BY <2>2, <2>5, <2>7 DEF Agrees
      <4> HIDE DEF all, bs
      <4> QED BY <2>4, <4>1, HasLeftBoth
    <3>2. HasLeft(g, all \o tail) /\ g.val = k
      <4> HIDE DEF all
      <4>1. Reads(g, all \o tail, k)
          BY <2>3, <3>1, WidthsAre, ReadsNumber
      <4> HIDE DEF g
      <4> QED BY <4>1, ReadsHasLeft
    <3>3. Read(C, y, t, r) = With(f, Value(k, f.val))
      <4>1. k = GetSigned(Int32, r).val /\ f = ReadFields(C, y, Ts(k), GetSigned(Int32, r))
          BY <3>2 DEF ts
      <4> HIDE DEF f
      <4> QED BY <1>4, <2>1, <4>1 DEF Value
    <3> HIDE DEF g
    <3>4. Gives(f, tail, fs, m)
        BY <2>1, <3>2, FieldsGive
    <3> HIDE DEF f, m
    <3>5. /\ With(f, Value(k, f.val)).rest = f.rest /\ With(f, Value(k, f.val)).good = f.good
          /\ With(f, Value(k, f.val)).val = Value(k, f.val)
        BY DEF With
    <3>6. Gives(With(f, Value(k, f.val)), tail, v, m)
        BY <2>1, <3>4, <3>5 DEF Gives
    <3> QED BY <3>3, <3>6
  <2> QED BY <2>2, <2>6, <2>7
<1> QED BY <1>8, <1>9, FaithfulConverter DEF t

\* The bytes of a list of bytes are these.
LEMMA JoinedBytes ==
  ASSUME NEW v \in Seq(Byte)
  PROVE  Joined([k \in 1..Len(v) |-> Bytes(v[k], 1)]) = v
<1> DEFINE n == Len(v)  ss == [k \in 1..n |-> Bytes(v[k], 1)]
<1>1. n \in Nat /\ \A k \in 1..n : v[k] \in Byte
    OBVIOUS
<1>2. ASSUME NEW b \in Byte PROVE Bytes(b, 1) = <<b>>
  <2>1. b \in Int /\ Base \in Nat \ {0} /\ b \in 0..(Base - 1)
      BY CodecAssumption DEF Byte
  <2>2. Bytes(b, 1) = [k \in 1..1 |-> (b \div Power[1 - k]) % Base]
      BY DEF Bytes
  <2>3. \A k \in 1..1 : (b \div Power[1 - k]) % Base = b
    <3>1. Power[1 - 1] = 1
        BY PowerValues
    <3>2. b \div 1 = b
        BY <2>1
    <3>3. b % Base = b
      <4>1. b = Base * 0 + b /\ 0 \in Int
          BY <2>1
      <4> QED BY <2>1, <4>1, DivModUnique
    <3> TAKE k \in 1..1
    <3>4. k = 1
        OBVIOUS
    <3> QED BY <3>1, <3>2, <3>3, <3>4
  <2>4. Bytes(b, 1) = [k \in 1..1 |-> b]
      BY <2>2, <2>3
  <2> QED BY <2>4
<1>3. ss \in Seq(Seq(Byte)) /\ Len(ss) = n /\ \A k \in 1..n : ss[k] = <<v[k]>>
  <2>1. \A k \in 1..n : ss[k] = <<v[k]>>
      BY <1>1, <1>2
  <2>2. \A k \in 1..n : ss[k] \in Seq(Byte)
    <3>1. \A b \in Byte : <<b>> \in Seq(Byte)
        OBVIOUS
    <3> HIDE DEF ss
    <3> QED BY <1>1, <2>1, <3>1
  <2>3. ss \in [1..n -> Seq(Byte)]
      BY <2>2
  <2> HIDE DEF ss, n
  <2> QED BY <1>1, <2>1, <2>3, IsASeq
<1>4. PICK j : Joins(j, ss)
    BY <1>3, JoinedSteps
<1> HIDE DEF n, ss
<1> DEFINE P == {k \in 0..n : j[k] = SubSeq(v, n - k + 1, n)}
<1>5. 0 \in P
  <2>1. SubSeq(v, n - 0 + 1, n) = <<>>
      BY <1>1, SubSeqEmpty
  <2> QED BY <1>1, <1>4, <2>1 DEF Joins
<1>6. ASSUME NEW k \in 1..n, k - 1 \in P PROVE k \in P
  <2> DEFINE m == n - k + 1
  <2>1. m \in 1..n /\ n \in m..n /\ n - (k - 1) + 1 = m + 1 /\ k \in 0..n
      BY <1>1
  <2>2. j[k] = ss[m] \o j[k - 1]
      BY <1>3, <1>4 DEF Joins
  <2>3. j[k - 1] = SubSeq(v, m + 1, n)
      BY <1>6, <2>1
  <2> HIDE DEF m
  <2>4. SubSeq(v, m, n) = <<v[m]>> \o SubSeq(v, m + 1, n)
      BY <2>1, SubSeqRecursiveFirst DEF n
  <2>5. j[k] = SubSeq(v, m, n)
      BY <1>3, <2>1, <2>2, <2>3, <2>4
  <2> QED BY <2>1, <2>5 DEF m
<1>7. 0..n \subseteq P
  <2> HIDE DEF P
  <2> QED BY <1>1, <1>5, <1>6, Induction
<1>8. n \in 0..n /\ n - n + 1 = 1
    BY <1>1
<1>9. Joined(ss) = SubSeq(v, 1, n)
    BY <1>3, <1>4, <1>7, <1>8 DEF Joins
<1>10. SubSeq(v, 1, n) = v
    BY SubSeqFull DEF n
<1> QED BY <1>9, <1>10 DEF n, ss

\* Byte vectors, which are written and read one byte at a time.
LEMMA BytesFaithful ==
  ASSUME NEW C, NEW i \in DOMAIN Types, Types[i].kind = "bytes"
  PROVE  Faithful(ConverterOf(C, i), Values[i])
<1> DEFINE t == Types[i]  f == [s \in Streams |-> GetUnsigned(1, s)]
<1>1. \A v \in Values[i] : v \in Seq(Byte)
    BY TypesAre DEF IsValue
<1>2. /\ \A v : Size(C, t, v) = Int32 + Len(v) /\ Marks(C, t, v) = Counted(Len(v))
      /\ \A x, v : Write(C, x, t, v) = Bytes(Len(v), Int32) \o v
      /\ \A y, s : Read(C, y, t, s) = ReadCounted(f, s)
    BY DEF Size, Write, Read, Marks, ReadBytes, WriteBytes, SizeBytes
<1>3. Continues(f)
  <2>1. \A s \in Streams : IsStream(s)
      BY StreamsAre
  <2> QED BY <2>1, WidthsAre, GetNumbers DEF Continues
<1>4. ASSUME NEW b \in Byte PROVE GivesBack(f, Bytes(b, 1), b, {})
  <2>1. b \in Int /\ Fits(b, 1, FALSE)
      BY CodecAssumption, PowerOne DEF Byte, Fits
  <2>2. ASSUME NEW tail \in Seq(Byte) PROVE Gives(f[Reader(Bytes(b, 1) \o tail)], tail, b, {})
    <3> DEFINE bs == Bytes(b, 1)  r == Reader(bs \o tail)
    <3>1. bs \in Seq(Byte)
        BY <2>1, WidthsAre, BytesShape
    <3>2. bs \o tail \in Seq(Byte)
      <4> HIDE DEF bs
      <4> QED BY <3>1, ConcatProperties
    <3>3. HasLeft(r, bs \o tail) /\ r \in Streams
        BY <3>2, ReaderOf, StreamsAre
    <3>4. f[r] = GetUnsigned(1, r)
        BY <3>3
    <3> HIDE DEF f, r
    <3>5. Reads(f[r], tail, b)
        BY <2>1, <3>3, <3>4, WidthsAre, ReadsNumber
    <3> QED BY <3>5, GivesReads DEF r
  <2> HIDE DEF f
  <2> QED BY <2>2 DEF GivesBack
<1> HIDE DEF t, f
<1>5. ASSUME NEW y \in Sides, NEW s, IsStream(s) PROVE Goes(Read(C, y, t, s), s)
    BY <1>2, <1>3, <1>5, CountedContinues
<1>6. ASSUME NEW v \in Values[i], NEW x \in Sides PROVE Agrees(Size(C, t, v), Write(C, x, t, v))
  <2>1. Len(v) \in Int /\ Agrees(Len(v), v)
      BY <1>1 DEF Agrees
  <2> QED BY <1>2, <2>1, WidthsAre, AgreesNumber, AgreesBoth
<1>7. ASSUME NEW v \in Values[i], NEW x \in Sides, NEW y \in Sides, NEW tail \in Seq(Byte),
             NEW r, HasLeft(r, Write(C, x, t, v) \o tail)
      PROVE  Gives(Read(C, y, t, r), tail, v, Marks(C, t, v))
  <2> DEFINE n == Len(v)  ss == [k \in 1..n |-> Bytes(v[k], 1)]  ms == [k \in 1..n |-> {}]
  <2>1. v \in Seq(Byte) /\ n \in Nat
      BY <1>1
  <2>2. v \in [1..n -> Byte]
      BY <2>1
  <2>3. Joined(ss) = v
      BY <2>1, JoinedBytes
  <2>4. Elements(n, Copies(n, f), ss, v, ms)
    <3>1. \A k \in 1..n : v[k] \in Byte /\ v[k] \in Int
        BY <2>2 DEF Byte
    <3>2. \A k \in 1..n : Bytes(v[k], 1) \in Seq(Byte)
        BY <3>1, WidthsAre, BytesShape
    <3>3. ss \in [1..n -> Seq(Byte)]
        BY <3>2
    <3>4. \A k \in 1..n : GivesBack(Copies(n, f)[k], ss[k], v[k], ms[k])
      <4> TAKE k \in 1..n
      <4>1. Copies(n, f)[k] = f /\ ss[k] = Bytes(v[k], 1) /\ ms[k] = {}
          BY DEF Copies
      <4> HIDE DEF ss, ms, n
      <4> QED BY <1>4, <3>1, <4>1
    <3>5. v = [k \in 1..n |-> v[k]]
        BY <2>2
    <3> HIDE DEF ss, ms, n
    <3>6. ss \in Seq(Seq(Byte)) /\ Len(ss) = n
        BY <2>1, <3>3, IsASeq
    <3> QED BY <3>4, <3>5, <3>6 DEF Elements
  <2>5. HasLeft(r, (Bytes(n, Int32) \o Joined(ss)) \o tail)
      BY <1>2, <1>7, <2>3
  <2>6. Counted(n) \cup UNION {ms[k] : k \in 1..n} = Counted(n)
      OBVIOUS
  <2> HIDE DEF ss, ms, n
  <2>7. Gives(ReadCounted(f, r), tail, v, Counted(n))
      BY <1>3, <2>1, <2>4, <2>5, <2>6, CountedGives
  <2> QED BY <1>2, <2>7 DEF n
<1> QED BY <1>5, <1>6, <1>7, FaithfulConverter DEF t

(***************************************************************************)
(* Times: seconds and nanoseconds.                                         *)
(***************************************************************************)
LEMMA QuotientIs ==
  ASSUME NEW v \in Int
  PROVE  \E a \in Int, m \in 0..(TicksPerSecond - 1) :
           /\ Quotient(v, TicksPerSecond) = a
           /\ v >= 0 => 0 <= a /\ a <= v /\ v - a * TicksPerSecond = m
           /\ v < 0 => a <= 0 /\ v <= a /\ v - a * TicksPerSecond = -m
           /\ v <= -TicksPerSecond => a < 0
<1> DEFINE T == TicksPerSecond
<1>1. T \in Nat \ {0}
  <2>1. Power[Int32] \in Nat
      BY WidthsAre, PowerValues
  <2> QED BY <2>1, CodecAssumption
<1> HIDE DEF T
<1>2. CASE v >= 0
  <2> DEFINE a == v \div T  m == v % T
  <2>1. a \in Int /\ m \in 0..(T - 1) /\ v = T * a + m
      BY <1>1, DivMod
  <2>2. Quotient(v, T) = a
      BY <1>2 DEF Quotient
  <2> HIDE DEF a, m
  <2>3. 0 <= a
    <3> SUFFICES ASSUME a <= -1 PROVE FALSE
        BY <2>1
    <3>1. T * a <= T * (-1)
        BY <1>1, <2>1
    <3> QED BY <1>1, <1>2, <2>1, <3>1
  <2>4. a <= v
    <3>1. T * a >= 1 * a
        BY <1>1, <2>1, <2>3
    <3> QED BY <1>1, <2>1, <3>1
  <2>5. v - a * T = m
      BY <1>1, <2>1
  <2>6. ~(v < 0) /\ ~(v <= -T)
      BY <1>1, <1>2
  <2> QED BY <1>2, <2>1, <2>2, <2>3, <2>4, <2>5, <2>6 DEF T
<1>3. CASE v < 0
  <2> DEFINE q == (-v) \div T  m == (-v) % T
  <2>0. -v \in Int
      OBVIOUS
  <2>1. q \in Int /\ m \in 0..(T - 1) /\ -v = T * q + m
      BY <1>1, <2>0, DivMod
  <2>2. Quotient(v, T) = -q
      BY <1>3 DEF Quotient
  <2> HIDE DEF q, m
  <2>3. 0 <= q
    <3> SUFFICES ASSUME q <= -1 PROVE FALSE
        BY <2>1
    <3>1. T * q <= T * (-1)
        BY <1>1, <2>1
    <3> QED BY <1>1, <1>3, <2>1, <3>1
  <2>4. q <= -v
    <3>1. T * q >= 1 * q
        BY <1>1, <2>1, <2>3
    <3> QED BY <1>1, <2>1, <3>1
  <2>5. v - (-q) * T = -m
      BY <1>1, <2>1
  <2>6. v <= -T => -q < 0
    <3> SUFFICES ASSUME v <= -T, q = 0 PROVE FALSE
        BY <2>1, <2>3
    <3>1. T * q = 0
        BY <1>1
    <3> QED BY <1>1, <2>1, <3>1
  <2> DEFINE a == -q
  <2>7. a \in Int /\ a <= 0 /\ v <= a /\ v - a * T = -m /\ (v <= -T => a < 0) /\ ~(v >= 0)
      BY <1>3, <2>1, <2>3, <2>4, <2>5, <2>6
  <2> HIDE DEF a
  <2> QED BY <1>3, <2>1, <2>2, <2>7 DEF T, a
<1> QED BY <1>2, <1>3

\* Eight bytes and four.
LEMMA TimeGo ==
  ASSUME NEW s, IsStream(s)
  PROVE  /\ Goes(GetUnsigned(Int32, GetSigned(Int64, s)), s)
         /\ Goes(GetUnsigned(Int32, GetUnsigned(Int64, s)), s)
<1>1. Goes(GetSigned(Int64, s), s) /\ Goes(GetUnsigned(Int64, s), s)
    BY WidthsAre, GoesNumber
<1>2. \A r : Goes(r, s) => Goes(GetUnsigned(Int32, r), s)
    BY WidthsAre, GoesNumber, GoesOn DEF Goes
<1> QED BY <1>1, <1>2

\* Seconds and nanoseconds take twelve bytes.
LEMMA TimeAgree ==
  ASSUME NEW a \in Int, NEW b \in Int
  PROVE  Agrees(Int64 + Int32, Bytes(a, Int64) \o Bytes(b, Int32))
BY WidthsAre, AgreesNumber, AgreesBoth

\* The seconds are read, as signed or unsigned ones, and the nanoseconds are left.
LEMMA TimeGive ==
  ASSUME NEW a \in Int, NEW b \in Int, NEW tail \in Seq(Byte),
         NEW r, HasLeft(r, (Bytes(a, Int64) \o Bytes(b, Int32)) \o tail)
  PROVE  /\ HasLeft(GetSigned(Int64, r), Bytes(b, Int32) \o tail)
         /\ HasLeft(GetUnsigned(Int64, r), Bytes(b, Int32) \o tail)
         /\ Fits(a, Int64, TRUE) => GetSigned(Int64, r).val = a
         /\ Fits(a, Int64, FALSE) => GetUnsigned(Int64, r).val = a
<1> DEFINE x == Bytes(a, Int64)  y == Bytes(b, Int32)  rest == y \o tail
<1>1. x \in Seq(Byte) /\ y \in Seq(Byte)
    BY WidthsAre, BytesShape
<1>2. HasLeft(r, x \o rest) /\ rest \in Seq(Byte)
  <2> HIDE DEF x, y
  <2> QED BY <1>1, HasLeftBoth DEF x, y
<1> HIDE DEF rest
<1> DEFINE u == GetUnsigned(Int64, r)  z == GetSigned(Int64, r)
<1>3. /\ HasLeft(u, rest) /\ HasLeft(z, rest)
      /\ Fits(a, Int64, FALSE) => Reads(u, rest, a)
      /\ Fits(a, Int64, TRUE) => Reads(z, rest, a)
    BY <1>2, WidthsAre, ReadsNumber
<1> HIDE DEF u, z
<1>4. /\ Fits(a, Int64, FALSE) => u.val = a
      /\ Fits(a, Int64, TRUE) => z.val = a
    BY <1>3, ReadsHasLeft
<1> QED BY <1>2, <1>3, <1>4 DEF u, z, rest

\* Seconds that fit an unsigned number are read as such.
LEMMA UnsignedSecsGive ==
  ASSUME NEW a \in Int, NEW b \in Int, NEW tail \in Seq(Byte),
         NEW r, HasLeft(r, (Bytes(a, Int64) \o Bytes(b, Int32)) \o tail), Fits(a, Int64, FALSE)
  PROVE  GetUnsigned(Int64, r).val = a
BY TimeGive

\* The nanoseconds.
LEMMA NanosGive ==
  ASSUME NEW b \in Int, NEW tail \in Seq(Byte), NEW s, HasLeft(s, Bytes(b, Int32) \o tail)
  PROVE  /\ HasLeft(GetUnsigned(Int32, s), tail)
         /\ Fits(b, Int32, FALSE) => GetUnsigned(Int32, s).val = b
<1> DEFINE g == GetUnsigned(Int32, s)
<1>1. HasLeft(g, tail) /\ (Fits(b, Int32, FALSE) => Reads(g, tail, b))
    BY WidthsAre, ReadsNumber
<1> HIDE DEF g
<1>2. HasLeft(g, tail) /\ (Fits(b, Int32, FALSE) => g.val = b)
    BY <1>1, ReadsHasLeft
<1> QED BY <1>2 DEF g

\* What is special in a time: its value is lost, but nothing after it.
LEMMA GivesSpecial ==
  ASSUME NEW r, NEW tail, HasLeft(r, tail), NEW w, NEW v, NEW m, "long" \notin m, m = {} => w = v
  PROVE  Gives(With(r, w), tail, v, m)
BY DEF Gives, HasLeft, With

\* Whatever is nearer to zero than a time of 64 bits has room in 64 bits, and less
\* than a second in 32.
LEMMA TimeFits ==
  ASSUME NEW v \in Int, Fits(v, Int64, TRUE)
  PROVE  /\ \A a \in Int : v >= 0 /\ 0 <= a /\ a <= v => Fits(a, Int64, TRUE) /\ Fits(a, Int64, FALSE)
         /\ \A a \in Int : v < 0 /\ v <= a /\ a <= 0 => Fits(a, Int64, TRUE)
         /\ \A b \in 0..(TicksPerSecond - 1) : Fits(b, Int32, FALSE)
         /\ Wrap(v, Int64) = v
<1> DEFINE p == Power[Int64]  q == Power[Int32]
<1>1. p \in Nat \ {0} /\ q \in Nat \ {0} /\ TicksPerSecond \in 1..q
    BY WidthsAre, PowerValues, CodecAssumption
<1>2. /\ \A a : Fits(a, Int64, TRUE) <=> -p <= 2 * a /\ 2 * a < p
      /\ \A a : Fits(a, Int64, FALSE) <=> 0 <= a /\ a < p
      /\ \A a : Fits(a, Int32, FALSE) <=> 0 <= a /\ a < q
    BY DEF Fits
<1>3. Wrap(v, Int64) = v
    BY WidthsAre, ReadsInt
<1> HIDE DEF p, q
<1>4. -p <= 2 * v /\ 2 * v < p
    BY <1>2
<1>5. ASSUME NEW a \in Int, v >= 0, 0 <= a, a <= v PROVE Fits(a, Int64, TRUE) /\ Fits(a, Int64, FALSE)
  <2>1. -p <= 2 * a /\ 2 * a < p /\ a < p
      BY <1>1, <1>4, <1>5
  <2> QED BY <1>2, <1>5, <2>1
<1>6. ASSUME NEW a \in Int, v < 0, v <= a, a <= 0 PROVE Fits(a, Int64, TRUE)
  <2>1. -p <= 2 * a /\ 2 * a < p
      BY <1>1, <1>4, <1>6
  <2> QED BY <1>2, <2>1
<1>7. ASSUME NEW b \in 0..(TicksPerSecond - 1) PROVE Fits(b, Int32, FALSE)
  <2>1. 0 <= b /\ b < q
      BY <1>1
  <2> QED BY <1>2, <2>1
<1> QED BY <1>3, <1>5, <1>6, <1>7

\* Timestamps; in the second before the epoch only the twelve bytes are right.
LEMMA TimestampFaithful ==
  ASSUME NEW C, NEW i \in DOMAIN Types, Types[i].kind = "timestamp"
  PROVE  Faithful(ConverterOf(C, i), Values[i])
<1> DEFINE t == Types[i]  T == TicksPerSecond
           S(s) == GetSigned(Int64, s)  G(s) == GetUnsigned(Int32, S(s))
           Ticks(s) == S(s).val * T + (IF S(s).val < 0 THEN -1 ELSE 1) * G(s).val
           Val(y, s) == IF y = "cpp" THEN Wrap(Ticks(s), Int64) ELSE Ticks(s)
           Secs(v) == Quotient(v, T)
           Sign(x, v) == IF x = "cpp" THEN (IF Secs(v) < 0 THEN -1 ELSE 1) ELSE (IF v < 0 THEN -1 ELSE 1)
           Nanos(x, v) == Sign(x, v) * (v - Secs(v) * T)
           M(v) == {m \in {"beforeEpoch"} : v \in (1 - T)..-1}
<1>1. \A v \in Values[i] : v \in Int /\ Fits(v, Int64, TRUE)
    BY TypesAre DEF IsValue
<1>2. /\ \A v : Size(C, t, v) = Int64 + Int32 /\ Marks(C, t, v) = M(v)
      /\ \A x, v : Write(C, x, t, v) = Bytes(Secs(v), Int64) \o Bytes(Nanos(x, v), Int32)
      /\ \A y, s : Read(C, y, t, s) = With(G(s), Val(y, s))
    BY DEF Size, Write, Read, Marks, ReadTimestamp, WriteTimestamp, SizeTimestamp
<1>0. T \in Nat \ {0}
  <2>1. Power[Int32] \in Nat
      BY WidthsAre, PowerValues
  <2> QED BY <2>1, CodecAssumption
<1> HIDE DEF t
<1>3. ASSUME NEW y \in Sides, NEW s, IsStream(s) PROVE Goes(Read(C, y, t, s), s)
  <2>1. Goes(G(s), s)
      BY <1>3, TimeGo
  <2> HIDE DEF G, Val
  <2> QED BY <1>2, <2>1, GoesWith
<1>4. ASSUME NEW v \in Values[i], NEW x \in Sides
      PROVE  /\ Secs(v) \in Int /\ Nanos(x, v) \in Int
             /\ M(v) = {} => /\ Fits(Secs(v), Int64, TRUE) /\ Fits(Nanos(x, v), Int32, FALSE)
                             /\ Secs(v) * T + (IF Secs(v) < 0 THEN -1 ELSE 1) * Nanos(x, v) = v
                             /\ Wrap(v, Int64) = v
  <2> DEFINE a == Secs(v)  d == v - a * T
  <2>1. v \in Int /\ Fits(v, Int64, TRUE)
      BY <1>1
  <2>2. PICK b \in Int, m \in 0..(T - 1) :
           /\ a = b
           /\ v >= 0 => 0 <= b /\ b <= v /\ v - b * T = m
           /\ v < 0 => b <= 0 /\ v <= b /\ v - b * T = -m
           /\ v <= -T => b < 0
      BY <2>1, QuotientIs
  <2>3. a \in Int /\ d \in Int /\ (v >= 0 => 0 <= a /\ a <= v /\ d = m)
        /\ (v < 0 => a <= 0 /\ v <= a /\ d = -m) /\ (v <= -T => a < 0)
    <3> HIDE DEF Secs
    <3>1. a \in Int
        BY <2>2
    <3>2. a * T \in Int
        BY <1>0, <3>1
    <3> QED BY <2>1, <2>2, <3>1, <3>2
  <2>4. Nanos(x, v) = Sign(x, v) * d /\ Sign(x, v) \in {1, -1}
      OBVIOUS
  <2>5. Nanos(x, v) \in Int
    <3> HIDE DEF d, Sign, Nanos
    <3> QED BY <2>3, <2>4
  <2>6. ASSUME M(v) = {}
        PROVE  /\ Fits(a, Int64, TRUE) /\ Fits(Nanos(x, v), Int32, FALSE)
               /\ a * T + (IF a < 0 THEN -1 ELSE 1) * Nanos(x, v) = v
    <3>1. v >= 0 \/ v <= -T
      <4>1. v \notin (1 - T)..-1
          BY <2>6
      <4> QED BY <1>0, <2>1, <4>1
    <3> DEFINE e == IF a < 0 THEN -1 ELSE 1
    <3>2. Sign(x, v) = e /\ e * d = m /\ m \in Int
      <4> HIDE DEF d, Secs
      <4>1. CASE v >= 0
        <5>1. ~(a < 0) /\ ~(v < 0)
            BY <2>1, <2>3, <4>1
        <5> QED BY <2>3, <4>1, <5>1
      <4>2. CASE v <= -T
        <5>1. a < 0 /\ v < 0
            BY <1>0, <2>1, <2>3, <4>2
        <5> QED BY <2>3, <4>2, <5>1
      <4> QED BY <3>1, <4>1, <4>2
    <3>3. Nanos(x, v) = m
        BY <2>4, <3>2
    <3>4. Fits(m, Int32, FALSE) /\ Fits(a, Int64, TRUE)
      <4> HIDE DEF d, Secs, T
      <4>1. CASE v >= 0
          BY <2>1, <2>3, <4>1, TimeFits DEF T
      <4>2. CASE v < 0
          BY <2>1, <2>3, <4>2, TimeFits DEF T
      <4>3. v >= 0 \/ v < 0
          BY <2>1
      <4> QED BY <4>1, <4>2, <4>3
    <3>5. e * m = d
      <4> HIDE DEF d, Secs
      <4>1. e = 1 \/ e = -1
          OBVIOUS
      <4> HIDE DEF e
      <4> QED BY <2>3, <3>2, <4>1
    <3>6. a * T + e * m = v
      <4>1. a * T \in Int
        <5> HIDE DEF Secs
        <5> QED BY <1>0, <2>3
      <4> QED BY <2>1, <3>5, <4>1
    <3> HIDE DEF Nanos, Secs
    <3> QED BY <3>3, <3>4, <3>6
  <2>7. Wrap(v, Int64) = v
      BY <2>1, TimeFits
  <2> HIDE DEF Nanos, Secs, M
  <2> QED BY <2>3, <2>5, <2>6, <2>7
<1>5. ASSUME NEW v \in Values[i], NEW x \in Sides PROVE Agrees(Size(C, t, v), Write(C, x, t, v))
  <2> HIDE DEF Nanos, Secs
  <2> QED BY <1>2, <1>4, TimeAgree
<1>6. ASSUME NEW v \in Values[i], NEW x \in Sides, NEW y \in Sides, NEW tail \in Seq(Byte),
             NEW r, HasLeft(r, Write(C, x, t, v) \o tail)
      PROVE  Gives(Read(C, y, t, r), tail, v, Marks(C, t, v))
  <2> DEFINE a == Secs(v)  b == Nanos(x, v)  s == S(r)  g == GetUnsigned(Int32, s)
  <2>1. a \in Int /\ b \in Int /\ HasLeft(r, (Bytes(a, Int64) \o Bytes(b, Int32)) \o tail)
    <3> HIDE DEF Nanos, Secs
    <3> QED BY <1>2, <1>4, <1>6
  <2>2. /\ M(v) = {} => /\ Fits(a, Int64, TRUE) /\ Fits(b, Int32, FALSE)
                        /\ a * T + (IF a < 0 THEN -1 ELSE 1) * b = v
                        /\ Wrap(v, Int64) = v
    <3> HIDE DEF Nanos, Secs, M
    <3> QED BY <1>4
  <2>3. Read(C, y, t, r) = With(g, Val(y, r)) /\ Marks(C, t, v) = M(v)
      BY <1>2
  <2>4. "long" \notin M(v)
      OBVIOUS
  <2> HIDE DEF a, b, M
  <2>5. /\ HasLeft(g, tail)
        /\ M(v) = {} => s.val = a /\ g.val = b
    <3>1. HasLeft(s, Bytes(b, Int32) \o tail) /\ (Fits(a, Int64, TRUE) => s.val = a)
        BY <2>1, TimeGive
    <3> HIDE DEF s
    <3>2. HasLeft(g, tail) /\ (Fits(b, Int32, FALSE) => g.val = b)
        BY <2>1, <3>1, NanosGive
    <3> QED BY <2>2, <3>1, <3>2
  <2>6. M(v) = {} => Val(y, r) = v
    <3> SUFFICES ASSUME M(v) = {} PROVE Val(y, r) = v
        OBVIOUS
    <3>1. Ticks(r) = a * T + (IF a < 0 THEN -1 ELSE 1) * b
        BY <2>5
    <3> HIDE DEF Ticks
    <3> QED BY <2>2, <3>1
  <2> HIDE DEF Val, g
  <2> QED BY <2>3, <2>4, <2>5, <2>6, GivesSpecial
<1> QED BY <1>3, <1>5, <1>6, FaithfulConverter DEF t

\* Less than a whole second carries nothing.
LEMMA LessThanOne ==
  ASSUME NEW T \in Nat \ {0}, NEW b \in 0..(T - 1)
  PROVE  b \div T = 0
OBVIOUS

\* Durations; of negative ones only the twelve bytes are right, and Rust may
\* refuse them.
LEMMA DurationFaithful ==
  ASSUME NEW C, NEW i \in DOMAIN Types, Types[i].kind = "duration"
  PROVE  Faithful(ConverterOf(C, i), Values[i])
<1> DEFINE t == Types[i]  T == TicksPerSecond
           S(s) == GetUnsigned(Int64, s)  G(s) == GetUnsigned(Int32, S(s))
           Ticks(s) == S(s).val * T + G(s).val
           Val(y, s) == IF y = "cpp" THEN Wrap(Ticks(s), Int64) ELSE Ticks(s)
           Carried(s) == S(s).val + G(s).val \div T
           Secs(v) == Quotient(v, T)
           Nanos(v) == v - Secs(v) * T
           M(v) == {m \in {"negative"} : v < 0}
<1>1. \A v \in Values[i] : v \in Int /\ Fits(v, Int64, TRUE)
    BY TypesAre DEF IsValue
<1>2. /\ \A v : Size(C, t, v) = Int64 + Int32 /\ Marks(C, t, v) = M(v)
      /\ \A x, v : Write(C, x, t, v) = Bytes(Secs(v), Int64) \o Bytes(Nanos(v), Int32)
      /\ \A y, s : Read(C, y, t, s) =
           IF y # "cpp" /\ ~Fits(Carried(s), Int64, FALSE) THEN Failed(G(s), 0)
           ELSE With(G(s), Val(y, s))
    BY DEF Size, Write, Read, Marks, ReadDuration, WriteDuration, SizeDuration
<1>3. T \in Nat \ {0}
  <2>1. Power[Int32] \in Nat
      BY WidthsAre, PowerValues
  <2> QED BY <2>1, CodecAssumption
<1> HIDE DEF t
<1>4. ASSUME NEW y \in Sides, NEW s, IsStream(s) PROVE Goes(Read(C, y, t, s), s)
  <2>1. Goes(G(s), s)
      BY <1>4, TimeGo
  <2>2. Read(C, y, t, s) = Failed(G(s), 0) \/ Read(C, y, t, s) = With(G(s), Val(y, s))
      BY <1>2
  <2> HIDE DEF G, Val
  <2> QED BY <2>1, <2>2, GoesWith
<1>5. ASSUME NEW v \in Values[i]
      PROVE  /\ Secs(v) \in Int /\ Nanos(v) \in Int
             /\ M(v) = {} => /\ Fits(Secs(v), Int64, FALSE) /\ Fits(Nanos(v), Int32, FALSE)
                             /\ Nanos(v) \in 0..(T - 1)
                             /\ Secs(v) * T + Nanos(v) = v /\ Wrap(v, Int64) = v
  <2> DEFINE a == Secs(v)  d == v - a * T
  <2>1. v \in Int /\ Fits(v, Int64, TRUE)
      BY <1>1
  <2>2. PICK b \in Int, m \in 0..(T - 1) : a = b /\ (v >= 0 => 0 <= b /\ b <= v /\ v - b * T = m)
      BY <2>1, QuotientIs
  <2>3. a \in Int /\ d \in Int /\ (v >= 0 => 0 <= a /\ a <= v /\ d = m) /\ a * T + d = v
    <3> HIDE DEF Secs
    <3>1. a \in Int
        BY <2>2
    <3>2. a * T \in Int
        BY <1>3, <3>1
    <3> QED BY <2>1, <2>2, <3>1, <3>2
  <2>4. M(v) = {} => v >= 0
      BY <2>1
  <2> HIDE DEF Secs, d, T
  <2>5. v >= 0 => Fits(a, Int64, FALSE) /\ Fits(d, Int32, FALSE)
      BY <2>1, <2>3, TimeFits DEF T
  <2>7. v >= 0 => d \in 0..(T - 1)
      BY <2>3
  <2>6. Wrap(v, Int64) = v
      BY <2>1, TimeFits
  <2> HIDE DEF M
  <2> QED BY <2>3, <2>4, <2>5, <2>6, <2>7 DEF d
<1>6. ASSUME NEW v \in Values[i], NEW x \in Sides PROVE Agrees(Size(C, t, v), Write(C, x, t, v))
  <2> HIDE DEF Nanos, Secs
  <2> QED BY <1>2, <1>5, TimeAgree
<1>7. ASSUME NEW v \in Values[i], NEW x \in Sides, NEW y \in Sides, NEW tail \in Seq(Byte),
             NEW r, HasLeft(r, Write(C, x, t, v) \o tail)
      PROVE  Gives(Read(C, y, t, r), tail, v, Marks(C, t, v))
  <2> DEFINE a == Secs(v)  b == Nanos(v)  s == S(r)  g == GetUnsigned(Int32, s)
  <2>1. a \in Int /\ b \in Int /\ HasLeft(r, (Bytes(a, Int64) \o Bytes(b, Int32)) \o tail)
    <3> HIDE DEF Nanos, Secs
    <3> QED BY <1>2, <1>5, <1>7
  <2>2. M(v) = {} => /\ Fits(a, Int64, FALSE) /\ Fits(b, Int32, FALSE) /\ b \in 0..(T - 1)
                     /\ a * T + b = v /\ Wrap(v, Int64) = v
    <3> HIDE DEF Nanos, Secs, M
    <3> QED BY <1>5
  <2>3. /\ Marks(C, t, v) = M(v)
        /\ \/ Read(C, y, t, r) = With(g, Val(y, r))
           \/ Read(C, y, t, r) = Failed(g, 0) /\ ~Fits(Carried(r), Int64, FALSE)
      BY <1>2
  <2>4. "long" \notin M(v) /\ (M(v) # {} => "negative" \in M(v))
      OBVIOUS
  <2> HIDE DEF a, b, M
  <2>5. /\ HasLeft(g, tail)
        /\ M(v) = {} => s.val = a /\ g.val = b
    <3>1. HasLeft(s, Bytes(b, Int32) \o tail) /\ (Fits(a, Int64, FALSE) => s.val = a)
      <4> HIDE DEF S
      <4>1. HasLeft(GetUnsigned(Int64, r), Bytes(b, Int32) \o tail)
          BY <2>1, TimeGive
      <4>2. Fits(a, Int64, FALSE) => GetUnsigned(Int64, r).val = a
          BY <2>1, UnsignedSecsGive
      <4> QED BY <4>1, <4>2 DEF S
    <3> HIDE DEF s
    <3>2. HasLeft(g, tail) /\ (Fits(b, Int32, FALSE) => g.val = b)
        BY <2>1, <3>1, NanosGive
    <3> QED BY <2>2, <3>1, <3>2
  <2>6. M(v) = {} => Val(y, r) = v
    <3> SUFFICES ASSUME M(v) = {} PROVE Val(y, r) = v
        OBVIOUS
    <3>1. Ticks(r) = a * T + b
        BY <2>5
    <3> HIDE DEF Ticks
    <3> QED BY <2>2, <3>1
  <2>7. M(v) = {} => Fits(Carried(r), Int64, FALSE)
    <3> SUFFICES ASSUME M(v) = {} PROVE Fits(Carried(r), Int64, FALSE)
        OBVIOUS
    <3>1. Carried(r) = a + b \div T
        BY <2>5
    <3>2. b \div T = 0
      <4> HIDE DEF T
      <4> QED BY <1>3, <2>2, LessThanOne
    <3> HIDE DEF Carried
    <3>3. Carried(r) = a
        BY <2>1, <3>1, <3>2
    <3> QED BY <2>2, <3>3
  <2> HIDE DEF Val, Carried, g
  <2>8. CASE Read(C, y, t, r) = With(g, Val(y, r))
      BY <2>3, <2>4, <2>5, <2>6, <2>8, GivesSpecial
  <2>9. CASE Read(C, y, t, r) = Failed(g, 0) /\ ~Fits(Carried(r), Int64, FALSE)
    <3>1. "negative" \in M(v)
        BY <2>4, <2>7, <2>9
    <3> QED BY <2>3, <2>4, <2>9, <3>1 DEF Gives, Failed
  <2> QED BY <2>3, <2>8, <2>9
<1> QED BY <1>4, <1>6, <1>7, FaithfulConverter DEF t

(***************************************************************************)
(* A flat error is written with its message.  Rust reads the variant only. *)
(***************************************************************************)
\* c is the converter of flat errors, of which V are sent.
FaithfulFlat(c, V) ==
  \A v \in V :
    /\ c.size[v] = Int32 /\ c.marks[v] = Counted(Len(v.message))
    /\ \A x \in Sides : /\ c.write[x][v] = Bytes(v.variant, Int32) \o WriteString(v.message)
                       /\ c.write[x][v] \in Seq(Byte)
                       /\ Gives(c.read["cpp"][Reader(c.write[x][v])], <<>>, v, c.marks[v])
    /\ Reads(c.read["rust"][Reader(Bytes(v.variant, Int32))], <<>>, [v EXCEPT !.message = <<>>])

\* Errors without data, whose variant fits an int32_t.
LEMMA FlatErrorFaithful ==
  ASSUME NEW C, NEW i \in DOMAIN Types, Types[i].kind = "flatError"
  PROVE  FaithfulFlat(ConverterOf(C, i), Values[i])
<1> DEFINE t == Types[i]  c == ConverterOf(C, i)  G(s) == GetSigned(Int32, s)
           E(k, m) == [variant |-> k, message |-> m]
<1>1. t.variants \in Nat /\ 2 * t.variants < Power[Int32]
    BY TypesAre DEF IsType
<1>2. \A v \in Values[i] : v \in [variant : 1..t.variants, message : Seq(Byte)]
    BY TypesAre DEF IsValue
<1>3. /\ \A v \in Values[i] : c.size[v] = Int32 /\ c.marks[v] = Counted(Len(v.message))
      /\ \A x \in Sides, v \in Values[i] :
           c.write[x][v] = Bytes(v.variant, Int32) \o WriteString(v.message)
      /\ \A y \in Sides, s \in Streams : c.read[y][s] = ReadFlatError(y, t, s)
    BY DEF ConverterOf, Size, Write, Read, Marks, SizeFlatError, WriteFlatError
<1>4. \A s : LET m == ReadString(G(s)) IN
        ReadFlatError("cpp", t, s) =
          IF G(s).val \in 1..t.variants THEN With(m, E(G(s).val, m.val)) ELSE Failed(m, E(G(s).val, m.val))
    BY DEF ReadFlatError
<1>5. \A s : LET m == With(G(s), <<>>) IN
        ReadFlatError("rust", t, s) =
          IF G(s).val \in 1..t.variants THEN With(m, E(G(s).val, m.val)) ELSE Failed(m, E(G(s).val, m.val))
    BY DEF ReadFlatError
<1> HIDE DEF t, c
<1>6. ASSUME NEW v \in Values[i]
      PROVE  /\ \A x \in Sides : /\ c.write[x][v] \in Seq(Byte)
                                /\ Gives(c.read["cpp"][Reader(c.write[x][v])], <<>>, v, c.marks[v])
             /\ Reads(c.read["rust"][Reader(Bytes(v.variant, Int32))], <<>>, [v EXCEPT !.message = <<>>])
  <2> DEFINE k == v.variant  w == v.message  bs == Bytes(k, Int32)  ws == WriteString(w)
  <2>1. k \in 1..t.variants /\ w \in Seq(Byte) /\ v = E(k, w) /\ [v EXCEPT !.message = <<>>] = E(k, <<>>)
      BY <1>2
  <2> HIDE DEF k, w, E
  <2>2. k \in Int /\ Fits(k, Int32, TRUE)
    <3> DEFINE p == Power[Int32]
    <3>1. p \in Nat \ {0} /\ 2 * t.variants < p
        BY <1>1, WidthsAre, PowerValues
    <3>2. Fits(k, Int32, TRUE) <=> -p <= 2 * k /\ 2 * k < p
        BY DEF Fits
    <3> HIDE DEF p
    <3>3. k \in Int /\ -p <= 2 * k /\ 2 * k < p
        BY <1>1, <2>1, <3>1
    <3> QED BY <3>2, <3>3
  <2>3. bs \in Seq(Byte) /\ ws \in Seq(Byte)
      BY <2>1, <2>2, WidthsAre, BytesShape, StringConverter DEF Agrees
  <2> HIDE DEF bs, ws
  <2>4. bs \o ws \in Seq(Byte) /\ bs \o <<>> = bs /\ ws \o <<>> = ws /\ <<>> \in Seq(Byte)
    <3>1. bs \o ws \in Seq(Byte)
        BY <2>3, ConcatProperties
    <3>2. bs \o <<>> = bs /\ ws \o <<>> = ws
        BY <2>3, ConcatEmptySeq
    <3> QED BY <3>1, <3>2
  <2>5. ASSUME NEW x \in Sides
        PROVE  /\ c.write[x][v] \in Seq(Byte)
               /\ Gives(c.read["cpp"][Reader(c.write[x][v])], <<>>, v, c.marks[v])
    <3> DEFINE r == Reader(bs \o ws)  g == G(r)  m == ReadString(g)  M == Counted(Len(w))
    <3>1. HasLeft(r, bs \o ws) /\ r \in Streams
        BY <2>4, ReaderOf, StreamsAre
    <3>2. c.write[x][v] = bs \o ws /\ c.read["cpp"][r] = ReadFlatError("cpp", t, r) /\ c.marks[v] = M
        BY <1>3, <3>1 DEF Sides, bs, ws, k, w
    <3>3. ReadFlatError("cpp", t, r) =
            IF g.val \in 1..t.variants THEN With(m, E(g.val, m.val)) ELSE Failed(m, E(g.val, m.val))
        BY <1>4
    <3> HIDE DEF r
    <3>4. Reads(g, ws, k)
        BY <2>2, <2>3, <3>1, WidthsAre, ReadsNumber DEF bs
    <3> HIDE DEF g
    <3>5. HasLeft(g, ws \o <<>>) /\ g.val = k
        BY <2>4, <3>4, ReadsHasLeft
    <3>6. Gives(m, <<>>, w, M)
        BY <2>1, <2>4, <3>5, StringConverter DEF ws
    <3>7. c.read["cpp"][r] = With(m, E(k, m.val))
        BY <2>1, <3>2, <3>3, <3>5
    <3> HIDE DEF m, M
    <3>8. /\ With(m, E(k, m.val)).rest = m.rest /\ With(m, E(k, m.val)).good = m.good
          /\ With(m, E(k, m.val)).val = E(k, m.val)
        BY DEF With
    <3>9. Gives(With(m, E(k, m.val)), <<>>, v, M)
        BY <2>1, <3>6, <3>8 DEF Gives
    <3> QED BY <2>4, <3>2, <3>7, <3>9 DEF r
  <2>6. Reads(c.read["rust"][Reader(bs)], <<>>, E(k, <<>>))
    <3> DEFINE r == Reader(bs)  g == G(r)  m == With(g, <<>>)
    <3>1. HasLeft(r, bs \o <<>>) /\ r \in Streams
        BY <2>3, <2>4, ReaderOf, StreamsAre
    <3>2. c.read["rust"][r] = ReadFlatError("rust", t, r)
        BY <1>3, <3>1 DEF Sides
    <3>3. ReadFlatError("rust", t, r) =
            IF g.val \in 1..t.variants THEN With(m, E(g.val, m.val)) ELSE Failed(m, E(g.val, m.val))
        BY <1>5
    <3> HIDE DEF r
    <3>4. Reads(g, <<>>, k)
        BY <2>2, <2>4, <3>1, WidthsAre, ReadsNumber DEF bs
    <3> HIDE DEF g
    <3>5. HasLeft(g, <<>>) /\ g.val = k
        BY <3>4, ReadsHasLeft
    <3>6. HasLeft(m, <<>>) /\ m.val = <<>>
        BY <3>5, WithReads, ReadsHasLeft
    <3> HIDE DEF m
    <3>7. c.read["rust"][r] = With(m, E(k, <<>>))
        BY <2>1, <3>2, <3>3, <3>5, <3>6
    <3> QED BY <3>6, <3>7, WithReads DEF r
  <2> QED BY <2>1, <2>5, <2>6 DEF bs, k
<1> QED BY <1>3, <1>6 DEF FaithfulFlat, c
-----------------------------------------------------------------------------
(***************************************************************************)
(* All converters.                                                         *)
(***************************************************************************)
\* v is a string, or a custom type of one, and lifts as it was lowered.
TextRight(c, v) ==
  /\ c.unwrap[v] \in Seq(Byte)
  /\ c.marks[v] = Counted(Len(c.unwrap[v]))
  /\ c.wrap[c.unwrap[v]] = v

\* What the specification needs of the converter c of type i.
Right(c, i) ==
  IF Types[i].kind = "flatError" THEN c.form = "buffer" /\ FaithfulFlat(c, Values[i])
  ELSE Faithful(c, Values[i]) /\ (c.form = "text" => \A v \in Values[i] : TextRight(c, v))

\* A type that is lowered as its bytes is a string or made from one that is.
LEMMA TextsAre ==
  ASSUME NEW C, NEW i \in DOMAIN Types, ConverterOf(C, i).form = "text",
         \A j \in Before(i) : Right(C[j], j), NEW v \in Values[i]
  PROVE  TextRight(ConverterOf(C, i), v)
<1> DEFINE t == Types[i]  c == ConverterOf(C, i)
<1>1. IsType(i, t) /\ IsValue(t, v)
    BY TypesAre
<1>2. /\ c.form = FormOf(C, t) /\ c.unwrap[v] = Unwrapped(C, t, v) /\ c.marks[v] = Marks(C, t, v)
      /\ \A w \in Seq(Byte) : c.wrap[w] = Wrapped(C, t, w)
    BY DEF ConverterOf
<1>3. c.form = "text"
    OBVIOUS
<1> HIDE DEF t, c
<1>4. CASE t.kind = "string"
  <2>1. v \in Seq(Byte) /\ Marks(C, t, v) = Counted(Len(v))
      BY <1>1, <1>4 DEF IsValue, Marks
  <2>2. Unwrapped(C, t, v) = v /\ Wrapped(C, t, v) = v
      BY <1>4 DEF Unwrapped, Wrapped
  <2>3. c.unwrap[v] = v /\ c.wrap[v] = v /\ c.marks[v] = Counted(Len(v))
      BY <1>2, <2>1, <2>2
  <2> QED BY <2>1, <2>3 DEF TextRight, c
<1>5. CASE t.kind = "custom"
  <2> DEFINE j == t.of  d == C[j]  u == v.custom
  <2>1. j \in Before(i) /\ u \in Values[j] /\ v = [custom |-> u]
      BY <1>1, <1>5 DEF IsType, IsValue
  <2>2. Types[j].kind # "flatError" /\ Right(d, j)
      BY <2>1 DEF Before, t
  <2>3. /\ FormOf(C, t) = d.form /\ Unwrapped(C, t, v) = d.unwrap[u] /\ Marks(C, t, v) = d.marks[u]
        /\ \A w : Wrapped(C, t, w) = [custom |-> d.wrap[w]]
      BY <1>5 DEF FormOf, Unwrapped, Wrapped, Marks
  <2> HIDE DEF j, d, u
  <2>4. TextRight(d, u)
      BY <1>2, <1>3, <2>1, <2>2, <2>3 DEF Right
  <2> DEFINE w == d.unwrap[u]
  <2>5. w \in Seq(Byte) /\ d.marks[u] = Counted(Len(w)) /\ d.wrap[w] = u
      BY <2>4 DEF TextRight
  <2>6. c.unwrap[v] = w
      BY <1>2, <2>3
  <2> HIDE DEF w
  <2>7. c.marks[v] = Counted(Len(w)) /\ c.wrap[w] = v
      BY <1>2, <2>1, <2>3, <2>5
  <2> QED BY <2>5, <2>6, <2>7 DEF TextRight, c
<1>6. t.kind \in {"string", "custom"}
    BY <1>2, <1>3 DEF FormOf
<1> QED BY <1>4, <1>5, <1>6 DEF c

\* A converter made from faithful ones is.
LEMMA ConverterRight ==
  ASSUME NEW C, NEW i \in DOMAIN Types, \A j \in Before(i) : Right(C[j], j)
  PROVE  Right(ConverterOf(C, i), i)
<1> DEFINE t == Types[i]  c == ConverterOf(C, i)
<1>1. IsType(i, t)
    BY TypesAre
<1>2. \A j \in Before(i) : Faithful(C[j], Values[j])
    BY DEF Before, Right
<1>3. CASE t.kind = "flatError"
  <2>1. c.form = "buffer"
      BY <1>3 DEF ConverterOf, FormOf
  <2>2. FaithfulFlat(c, Values[i])
      BY <1>3, FlatErrorFaithful
  <2> HIDE DEF c
  <2>3. Right(c, i)
      BY <1>3, <2>1, <2>2 DEF Right
  <2> QED BY <2>3 DEF c
<1>4. CASE t.kind # "flatError"
  <2>1. Faithful(c, Values[i])
    <3>1. CASE t.kind = "int"
        BY <3>1, IntFaithful
    <3>2. CASE t.kind = "bool"
        BY <3>2, BoolFaithful
    <3>3. CASE t.kind = "bytes"
        BY <3>3, BytesFaithful
    <3>4. CASE t.kind = "timestamp"
        BY <3>4, TimestampFaithful
    <3>5. CASE t.kind = "duration"
        BY <3>5, DurationFaithful
    <3>6. CASE t.kind = "optional"
      <4>1. t.of \in Before(i)
          BY <1>1, <3>6 DEF IsType
      <4> QED BY <1>2, <3>6, <4>1, OptionalFaithful
    <3>7. CASE t.kind = "sequence"
      <4>1. t.of \in Before(i)
          BY <1>1, <3>7 DEF IsType
      <4> QED BY <1>2, <3>7, <4>1, SequenceFaithful
    <3>8. CASE t.kind = "custom"
      <4>1. t.of \in Before(i)
          BY <1>1, <3>8 DEF IsType
      <4> QED BY <1>2, <3>8, <4>1, CustomFaithful
    <3>9. CASE t.kind = "map"
      <4>1. t.entry \in Before(i)
          BY <1>1, <3>9 DEF IsType
      <4> QED BY <1>2, <3>9, <4>1, MapFaithful
    <3>10. CASE t.kind = "record"
        BY <1>2, <3>10, RecordFaithful
    <3>11. CASE t.kind = "enum"
        BY <1>2, <3>11, EnumFaithful
    <3>0. CASE t.kind = "string"
        BY <3>0, StringFaithful
    <3>12. t.kind \in {"int", "bool", "string", "bytes", "timestamp", "duration", "optional", "sequence",
                      "custom", "map", "record", "enum"}
      <4> HIDE DEF t
      <4> QED BY <1>1, <1>4 DEF IsType
    <3> QED BY <3>0, <3>1, <3>2, <3>3, <3>4, <3>5, <3>6, <3>7, <3>8, <3>9, <3>10, <3>11, <3>12
  <2>2. c.form = "text" => \A v \in Values[i] : TextRight(c, v)
      BY TextsAre
  <2> HIDE DEF c
  <2>3. Right(c, i)
      BY <1>4, <2>1, <2>2 DEF Right
  <2> QED BY <2>3 DEF c
<1> QED BY <1>3, <1>4

\* Append to a function that is a sequence of anything.
LEMMA AppendIs ==
  ASSUME NEW n \in Nat, NEW C, C = [k \in 1..n |-> C[k]], NEW e
  PROVE  /\ Append(C, e) = [k \in 1..(n + 1) |-> Append(C, e)[k]]
         /\ \A k \in 1..n : Append(C, e)[k] = C[k]
         /\ Append(C, e)[n + 1] = e
<1> DEFINE S == {C[k] : k \in 1..n} \cup {e}  D == Append(C, e)
<1>1. C \in [1..n -> S] /\ e \in S
  <2>1. \A k \in 1..n : C[k] \in S
      OBVIOUS
  <2> HIDE DEF S
  <2>2. [k \in 1..n |-> C[k]] \in [1..n -> S]
      BY <2>1
  <2> QED BY <2>2 DEF S
<1> HIDE DEF S
<1>2. C \in Seq(S) /\ Len(C) = n
    BY <1>1, IsASeq
<1>3. D \in Seq(S) /\ Len(D) = n + 1 /\ (\A k \in 1..n : D[k] = C[k]) /\ D[n + 1] = e
    BY <1>1, <1>2, AppendProperties
<1> HIDE DEF D
<1>4. D \in [1..(n + 1) -> S]
    BY <1>3, LenProperties
<1>5. D = [k \in 1..(n + 1) |-> D[k]]
    BY <1>4
<1> QED BY <1>3, <1>5 DEF D

\* The recursive definition has a solution: the converters of the first m types.
Builds(f, m) == f = [k \in 0..m |-> IF k = 0 THEN <<>> ELSE Append(f[k - 1], ConverterOf(f[k - 1], k))]

\* The recursive definition of Converters holds of it.
LEMMA ConvertersBuild == Builds(Converters, Len(Types))
<1> DEFINE Step(C, k) == Append(C, ConverterOf(C, k))
           N == Len(Types)
           M == {m \in 0..N : \E f : Builds(f, m)}
<1>1. N \in Nat
    BY CodecAssumption
<1>2. \A f, m : Builds(f, m) <=> f = [k \in 0..m |-> IF k = 0 THEN <<>> ELSE Step(f[k - 1], k)]
    BY DEF Builds
<1> HIDE DEF Step, N
<1>3. 0 \in M
  <2> DEFINE f == [k \in 0..0 |-> <<>>]
  <2>1. f = [k \in 0..0 |-> IF k = 0 THEN <<>> ELSE Step(f[k - 1], k)]
      OBVIOUS
  <2> HIDE DEF f
  <2>2. Builds(f, 0)
      BY <1>2, <2>1
  <2> QED BY <1>1, <2>2
<1>4. ASSUME NEW m \in 1..N, m - 1 \in M PROVE m \in M
  <2>1. PICK f : Builds(f, m - 1)
      BY <1>4
  <2> DEFINE h == [k \in 0..m |-> IF k < m THEN f[k] ELSE Step(f[m - 1], m)]
  <2>2. \A k \in 0..(m - 1) : f[k] = IF k = 0 THEN <<>> ELSE Step(f[k - 1], k)
      BY <1>2, <2>1
  <2>3. ASSUME NEW k \in 0..m PROVE h[k] = IF k = 0 THEN <<>> ELSE Step(h[k - 1], k)
    <3>1. CASE k = 0
      <4>1. 0 < m /\ 0 \in 0..(m - 1) /\ 0 \in 0..m
          BY <1>1
      <4>2. h[0] = f[0]
          BY <4>1
      <4> QED BY <2>2, <3>1, <4>1, <4>2
    <3>2. CASE k # 0
      <4>1. k - 1 \in 0..m /\ k - 1 < m
          BY <1>1, <3>2
      <4>2. h[k - 1] = f[k - 1]
          BY <4>1
      <4>3. CASE k < m
        <5>1. h[k] = f[k] /\ k \in 0..(m - 1)
            BY <1>1, <4>3
        <5> QED BY <2>2, <3>2, <4>2, <5>1
      <4>4. CASE k = m
        <5>1. h[m] = Step(f[m - 1], m)
            BY <1>1, <4>4
        <5> QED BY <3>2, <4>2, <4>4, <5>1
      <4>5. k < m \/ k = m
          BY <1>1
      <4> QED BY <4>3, <4>4, <4>5
    <3> QED BY <3>1, <3>2
  <2>4. h = [k \in 0..m |-> h[k]]
      OBVIOUS
  <2> HIDE DEF h
  <2>5. h = [k \in 0..m |-> IF k = 0 THEN <<>> ELSE Step(h[k - 1], k)]
      BY <2>3, <2>4
  <2>6. Builds(h, m)
      BY <1>2, <2>5
  <2>7. m \in 0..N
      BY <1>1
  <2> QED BY <2>6, <2>7
<1>5. 0..N \subseteq M
  <2> HIDE DEF M
  <2> QED BY <1>1, <1>3, <1>4, Induction
<1>6. \E f : Builds(f, N)
  <2>1. N \in 0..N
      BY <1>1
  <2> QED BY <1>5, <2>1
<1>7. Converters = CHOOSE f : Builds(f, N)
    BY DEF Converters, Builds, N
<1> QED BY <1>6, <1>7 DEF N

\* The generated converters of all types, nested in any way, agree: a value takes
\* the bytes that allocation_size says, and read, on either side and whatever
\* follows them, takes just these and gives the value that write was given.
THEOREM ConvertersRight ==
  ASSUME NEW i \in DOMAIN Types
  PROVE  Right(Converter[i], i)
<1> DEFINE N == Len(Types)
           Ok(n) == /\ Converters[n] = [k \in 1..n |-> Converters[n][k]]
                    /\ \A k \in 1..n : Right(Converters[n][k], k)
           P == {n \in 0..N : Ok(n)}
<1>1. N \in Nat /\ DOMAIN Types = 1..N
    BY CodecAssumption
<1>2. \A n \in 0..N : Converters[n] =
        IF n = 0 THEN <<>> ELSE Append(Converters[n - 1], ConverterOf(Converters[n - 1], n))
  <2>1. Builds(Converters, N)
      BY ConvertersBuild
  <2> QED BY <2>1 DEF Builds
<1> HIDE DEF N
<1>3. 0 \in P
  <2>1. Converters[0] = <<>> /\ 0 \in 0..N
      BY <1>1, <1>2
  <2>2. Ok(0)
      BY <2>1
  <2> HIDE DEF Ok
  <2> QED BY <2>1, <2>2
<1>4. ASSUME NEW n \in 1..N, n - 1 \in P PROVE n \in P
  <2> DEFINE C == Converters[n - 1]  e == ConverterOf(C, n)  D == Converters[n]
  <2>1. n \in 0..N /\ n - 1 \in Nat /\ n \in DOMAIN Types /\ (n - 1) + 1 = n /\ n # 0
      BY <1>1
  <2>2. C = [k \in 1..(n - 1) |-> C[k]] /\ \A k \in 1..(n - 1) : Right(C[k], k)
    <3> HIDE DEF Ok
    <3>1. Ok(n - 1)
        BY <1>4
    <3> QED BY <3>1 DEF Ok
  <2>3. D = Append(C, e)
      BY <1>2, <2>1
  <2>4. Right(e, n)
    <3>1. \A j \in Before(n) : j \in 1..(n - 1) /\ Types[j].kind # "flatError"
        BY DEF Before
    <3> HIDE DEF C
    <3>2. \A j \in Before(n) : Right(C[j], j)
        BY <2>2, <3>1
    <3> QED BY <2>1, <3>2, ConverterRight
  <2> HIDE DEF C, D, e
  <2>5. /\ D = [k \in 1..n |-> D[k]] /\ D[n] = e
        /\ \A k \in 1..(n - 1) : D[k] = C[k]
    <3> DEFINE p == n - 1
    <3>1. p \in Nat /\ C = [k \in 1..p |-> C[k]]
        BY <2>1, <2>2
    <3> HIDE DEF p
    <3>2. /\ D = [k \in 1..(p + 1) |-> D[k]] /\ D[p + 1] = e
          /\ \A k \in 1..p : D[k] = C[k]
        BY <2>3, <3>1, AppendIs
    <3>3. p + 1 = n
        BY <2>1 DEF p
    <3> QED BY <3>2, <3>3 DEF p
  <2>6. \A k \in 1..n : Right(D[k], k)
    <3> TAKE k \in 1..n
    <3>1. k \in 1..(n - 1) \/ k = n
        BY <1>1
    <3> QED BY <2>2, <2>4, <2>5, <3>1
  <2>7. Ok(n)
      BY <2>5, <2>6 DEF D
  <2> HIDE DEF Ok
  <2> QED BY <2>1, <2>7
<1>5. 0..N \subseteq P
  <2> HIDE DEF P
  <2> QED BY <1>1, <1>3, <1>4, Induction
<1>6. Ok(N)
  <2>1. N \in 0..N
      BY <1>1
  <2> HIDE DEF Ok
  <2> QED BY <1>5, <2>1
<1>7. i \in 1..N /\ Converter = Converters[N]
    BY <1>1 DEF Converter, N
<1> QED BY <1>6, <1>7
-----------------------------------------------------------------------------
(***************************************************************************)
(* The specification.                                                      *)
(***************************************************************************)
IsFlat(t) == Types[t].kind = "flatError"
MarksOf(t, v) == Converter[t].marks[v]

\* The bytes of a value that side x lowered whole.
Lowered(x, t, v) == IF IsString(t) THEN Converter[t].unwrap[v] ELSE Converter[t].write[x][v]

\* What is in the buffer.  C++ lowers a flat error without its message; of a
\* string of which the length wrapped nothing is known.
ForRust(t, v, b) ==
  IF IsFlat(t) THEN b.bytes = Bytes(v.variant, Int32)
  ELSE /\ b.good = TRUE
       /\ IsString(t) => "long" \notin MarksOf(t, v) \/ "wraps" \in MarksOf(t, v)
       /\ ~(IsString(t) /\ "wraps" \in MarksOf(t, v)) => b.bytes = Lowered("cpp", t, v)
ForCpp(t, v, b) == OfRust(t, v) /\ b.bytes = Lowered("rust", t, v)

Underway ==
  /\ phase \in {"idle", "toRust", "toCpp", "inRust", "inCpp", "refused"}
  /\ phase # "idle" => type \in DOMAIN Types /\ sent \in Values[type]
  /\ phase = "toRust" => ForRust(type, sent, buffer)
  /\ phase = "toCpp" => ForCpp(type, sent, buffer)

\* The inductive invariant.
CodecInv == Underway /\ WritesFit /\ NeverAltered /\ OnlyForeignRefused /\ ReadsAll

\* What is lowered as bytes lifts as it was, and is no error.
LEMMA StringsAre ==
  ASSUME NEW t \in DOMAIN Types, IsString(t), NEW v \in Values[t]
  PROVE  TextRight(Converter[t], v) /\ ~IsFlat(t)
<1>1. Right(Converter[t], t)
    BY ConvertersRight
<1> QED BY <1>1 DEF Right, IsString, IsFlat

\* What write puts into a buffer fits, and is read whole by either side.
LEMMA WrittenRight ==
  ASSUME NEW t \in DOMAIN Types, ~IsFlat(t), NEW v \in Values[t], NEW x \in Sides
  PROVE  /\ Agrees(Converter[t].size[v], Converter[t].write[x][v])
         /\ \A y \in Sides : Gives(Converter[t].read[y][Reader(Converter[t].write[x][v])], <<>>, v, MarksOf(t, v))
<1> DEFINE c == Converter[t]  bs == c.write[x][v]
<1>1. Faithful(c, Values[t])
    BY ConvertersRight DEF Right, IsFlat
<1> HIDE DEF c
<1>2. Agrees(c.size[v], bs) /\ \A y \in Sides : GivesBack(c.read[y], bs, v, c.marks[v])
    BY <1>1 DEF Faithful
<1> HIDE DEF bs
<1>3. bs \in Seq(Byte) /\ bs \o <<>> = bs /\ <<>> \in Seq(Byte)
    BY <1>2, ConcatEmptySeq DEF Agrees
<1>4. ASSUME NEW y \in Sides PROVE Gives(c.read[y][Reader(bs)], <<>>, v, c.marks[v])
    BY <1>2, <1>3 DEF GivesBack
<1> QED BY <1>2, <1>4 DEF c, bs, MarksOf

\* Bytes that fit are in the buffer; of more bytes the first ones are.
LEMMA WrittenIs ==
  ASSUME NEW bs \in Seq(Byte), NEW ws \in Seq(Byte), NEW n \in Nat, n = Len(bs)
  PROVE  Written(n, bs \o ws).bytes = bs /\ (ws = <<>> => Written(n, bs).good = TRUE)
<1> DEFINE b == bs \o ws
           cut(m) == SubSeq(b, 1, m) \o [i \in 1..(n - m) |-> 0]
<1>1. b \in Seq(Byte) /\ Len(b) = n + Len(ws) /\ Len(ws) \in Nat /\ SubSeq(b, 1, n) = bs
  <2>1. \A i \in 1..Len(bs) : b[i] = bs[i]
      BY ConcatProperties
  <2>2. b \in Seq(Byte) /\ Len(b) = n + Len(ws) /\ Len(ws) \in Nat
      BY ConcatProperties
  <2> HIDE DEF b
  <2>3. SubSeq(b, 1, n) \in Seq(Byte) /\ Len(SubSeq(b, 1, n)) = n /\ \A i \in 1..n : SubSeq(b, 1, n)[i] = b[i]
      BY <2>2
  <2>4. SubSeq(b, 1, n) = bs
      BY <2>1, <2>3, SeqEqual
  <2> QED BY <2>2, <2>4
<1>2. Written(n, b) = [bytes |-> cut(IF Len(b) <= n THEN Len(b) ELSE n),
                       good |-> (IF Len(b) <= n THEN Len(b) ELSE n) = Len(b)]
    BY DEF Written
<1> HIDE DEF b
<1>3. (IF Len(b) <= n THEN Len(b) ELSE n) = n
    BY <1>1
<1>4. cut(n) = bs
  <2>1. [i \in 1..(n - n) |-> 0] = <<>>
      OBVIOUS
  <2> QED BY <1>1, <2>1, ConcatEmptySeq
<1> HIDE DEF cut
<1>5. Written(n, b).bytes = bs
    BY <1>2, <1>3, <1>4
<1>6. ws = <<>> => Written(n, bs).good = TRUE
  <2> DEFINE m == IF Len(bs) <= n THEN Len(bs) ELSE n
  <2>1. Written(n, bs).good = (m = Len(bs))
      BY DEF Written
  <2>2. m = Len(bs)
      OBVIOUS
  <2> QED BY <2>1, <2>2
<1> QED BY <1>5, <1>6 DEF b

\* A value lifted from what was lowered whole.
LEMMA LiftsWhole ==
  ASSUME NEW t \in DOMAIN Types, NEW v \in Values[t], NEW x \in Sides, NEW y \in Sides,
         IsFlat(t) => y = "cpp",
         IsString(t) => "long" \notin MarksOf(t, v) \/ "wraps" \in MarksOf(t, v)
  PROVE  Gives(LiftOn(y, t, Lowered(x, t, v)), <<>>, v, MarksOf(t, v))
<1>1. CASE IsString(t)
  <2>0. Converter[t].wrap[Converter[t].unwrap[v]] = v
      BY <1>1, StringsAre DEF TextRight
  <2>1. LiftOn(y, t, Lowered(x, t, v)) = With(Reader(<<>>), v)
      BY <1>1, <2>0 DEF LiftOn, Lowered
  <2>2. Reads(With(Reader(<<>>), v), <<>>, v)
      BY DEF Reads, With, Reader
  <2> QED BY <1>1, <2>1, <2>2 DEF Gives, Reads
<1>2. CASE ~IsString(t) /\ ~IsFlat(t)
    BY <1>2, WrittenRight DEF LiftOn, Lowered
<1>3. CASE ~IsString(t) /\ IsFlat(t)
  <2>1. FaithfulFlat(Converter[t], Values[t])
      BY <1>3, ConvertersRight DEF Right, IsFlat
  <2>2. Gives(Converter[t].read["cpp"][Reader(Converter[t].write[x][v])], <<>>, v, Converter[t].marks[v])
      BY <2>1 DEF FaithfulFlat
  <2> QED BY <1>3, <2>2 DEF LiftOn, Lowered, MarksOf
<1> QED BY <1>1, <1>2, <1>3

\* The buffer that C++ lowers a value into that is not a string.
LEMMA LowersRight ==
  ASSUME NEW t \in DOMAIN Types, ~IsString(t), NEW v \in Values[t]
  PROVE  ForRust(t, v, Written(Converter[t].size[v], Converter[t].write["cpp"][v]))
<1> DEFINE c == Converter[t]  b == Written(c.size[v], c.write["cpp"][v])
<1>1. CASE IsFlat(t)
  <2> DEFINE k == v.variant  w == v.message
  <2>1. FaithfulFlat(c, Values[t])
      BY <1>1, ConvertersRight DEF Right, IsFlat
  <2>2. k \in Int /\ w \in Seq(Byte)
    <3>1. Types[t].variants \in Nat
        BY <1>1, TypesAre DEF IsFlat, IsType
    <3>2. v \in [variant : 1..Types[t].variants, message : Seq(Byte)]
        BY <1>1, TypesAre DEF IsFlat, IsValue
    <3> QED BY <3>1, <3>2
  <2> HIDE DEF c, k, w
  <2>3. c.size[v] = Int32 /\ c.write["cpp"][v] = Bytes(k, Int32) \o WriteString(w)
    <3>1. "cpp" \in Sides
        BY DEF Sides
    <3>2. c.size[v] = Int32 /\ c.write["cpp"][v] = Bytes(v.variant, Int32) \o WriteString(v.message)
        BY <2>1, <3>1 DEF FaithfulFlat
    <3> QED BY <3>2 DEF k, w
  <2>4. /\ Bytes(k, Int32) \in Seq(Byte) /\ WriteString(w) \in Seq(Byte)
        /\ Len(Bytes(k, Int32)) = Int32
      BY <2>2, WidthsAre, BytesShape, StringConverter DEF Agrees
  <2>5. b.bytes = Bytes(k, Int32)
    <3> DEFINE bs == Bytes(k, Int32)  ws == WriteString(w)
    <3>1. bs \in Seq(Byte) /\ ws \in Seq(Byte) /\ Int32 \in Nat /\ Int32 = Len(bs)
        BY <2>4, WidthsAre
    <3>2. b = Written(Int32, bs \o ws)
        BY <2>3
    <3> HIDE DEF bs, ws, b
    <3>3. Written(Int32, bs \o ws).bytes = bs
        BY <3>1, WrittenIs
    <3> QED BY <3>2, <3>3 DEF bs
  <2> HIDE DEF b
  <2> QED BY <1>1, <2>5 DEF ForRust, k, b, c
<1>2. CASE ~IsFlat(t)
  <2> DEFINE bs == c.write["cpp"][v]  n == c.size[v]
  <2>1. Agrees(n, bs)
      BY <1>2, WrittenRight DEF Sides
  <2> HIDE DEF bs, n
  <2>2. bs \in Seq(Byte) /\ n = Len(bs) /\ n \in Nat /\ bs \o <<>> = bs /\ <<>> \in Seq(Byte)
      BY <2>1, ConcatEmptySeq DEF Agrees
  <2>3. Written(n, bs).bytes = bs /\ Written(n, bs).good = TRUE
    <3>1. Written(n, bs \o <<>>).bytes = bs /\ Written(n, bs).good = TRUE
        BY <2>2, WrittenIs
    <3> QED BY <2>2, <3>1
  <2> QED BY <1>2, <2>3 DEF ForRust, Lowered, bs, n
<1> QED BY <1>1, <1>2

\* The invariant holds at first.
LEMMA CodecInitially == CodecInit => CodecInv
BY DEF CodecInit, CodecInv, Underway, WritesFit, NeverAltered, OnlyForeignRefused, ReadsAll

\* A value lowered by C++: a string whose length wraps to a negative one is refused, of
\* all else the whole is in the buffer, but for a string of 2^32 bytes or a message.
LEMMA LowerKeeps ==
  ASSUME NEW t \in DOMAIN Types, NEW v \in Values[t], Lower(t, v)
  PROVE  CodecInv'
<1> DEFINE w == Converter[t].unwrap[v]
<1>1. type' = t /\ sent' = v
    BY DEF Lower
<1>2. CASE IsString(t) /\ Wrap(Len(w), Int32) < 0
  <2>1. Refused
      BY <1>2 DEF Lower, LowerString
  <2>2. "long" \in MarksOf(t, v)
    <3>1. w \in Seq(Byte) /\ MarksOf(t, v) = Counted(Len(w))
        BY <1>2, StringsAre DEF TextRight, MarksOf
    <3>2. Len(w) \in Nat /\ Len(w) \in Int /\ Int32 \in 1..Int64
        BY <3>1, WidthsAre
    <3>3. Fits(Len(w), Int32, TRUE) => Wrap(Len(w), Int32) = Len(w)
        BY <3>2, ReadsInt
    <3>4. ~Fits(Len(w), Int32, TRUE)
      <4>1. ~(Len(w) < 0)
          BY <3>2
      <4>2. Wrap(Len(w), Int32) < 0
          BY <1>2
      <4>3. Wrap(Len(w), Int32) # Len(w)
          BY <4>1, <4>2
      <4> QED BY <3>3, <4>3
    <3> QED BY <3>1, <3>2, <3>4, CountedCases
  <2>3. phase' = "refused" /\ ~OfRust(t, v)
      BY <2>1, <2>2 DEF Refused, OfRust, MarksOf
  <2> QED BY <1>1, <2>3 DEF CodecInv, Underway, WritesFit, NeverAltered, OnlyForeignRefused, ReadsAll
<1>3. CASE IsString(t) /\ ~(Wrap(Len(w), Int32) < 0)
  <2> DEFINE n == Wrap(Len(w), Int32)
  <2>1. phase' = "toRust" /\ buffer' = [bytes |-> SubSeq(w, 1, n), good |-> TRUE]
      BY <1>3 DEF Lower, LowerString
  <2>2. /\ w \in Seq(Byte) /\ MarksOf(t, v) = Counted(Len(w)) /\ ~IsFlat(t)
        /\ Len(w) \in Nat /\ Len(w) \in Int /\ Int32 \in 1..Int64
      BY <1>3, StringsAre, WidthsAre DEF TextRight, MarksOf
  <2>3. /\ Fits(Len(w), Int32, TRUE) => n = Len(w)
        /\ ~(Fits(Len(w), Int32, FALSE) /\ ~Fits(Len(w), Int32, TRUE))
    <3>1. /\ Fits(Len(w), Int32, TRUE) => n = Len(w)
          /\ Fits(Len(w), Int32, FALSE) /\ ~Fits(Len(w), Int32, TRUE) => n < 0
        BY <2>2, ReadsInt
    <3> QED BY <1>3, <3>1
  <2> HIDE DEF n
  <2>4. \/ Counted(Len(w)) = {} /\ n = Len(w)
        \/ "long" \in Counted(Len(w)) /\ "wraps" \in Counted(Len(w))
      BY <2>2, <2>3, CountedCases
  <2>5. n = Len(w) => SubSeq(w, 1, n) = w
    <3>1. \A m \in Nat : m = Len(w) => SubSeq(w, 1, m) = w
      <4> TAKE m \in Nat
      <4> HAVE m = Len(w)
      <4>1. SubSeq(w, 1, m) \in Seq(Byte) /\ Len(SubSeq(w, 1, m)) = m /\ \A i \in 1..m : SubSeq(w, 1, m)[i] = w[i]
          BY <2>2
      <4> QED BY <2>2, <4>1, SeqEqual
    <3> QED BY <2>2, <3>1
  <2>6. ForRust(t, v, buffer')
    <3>1. buffer'.good = TRUE /\ buffer'.bytes = SubSeq(w, 1, n)
        BY <2>1
    <3> QED BY <1>3, <2>2, <2>4, <2>5, <3>1 DEF ForRust, Lowered
  <2>7. buffer'.good
      BY <2>1
  <2> QED BY <1>1, <2>1, <2>6, <2>7 DEF CodecInv, Underway, WritesFit, NeverAltered, OnlyForeignRefused, ReadsAll
<1>4. CASE ~IsString(t)
  <2>1. phase' = "toRust" /\ buffer' = Written(Converter[t].size[v], Converter[t].write["cpp"][v])
      BY <1>4 DEF Lower
  <2>2. ForRust(t, v, buffer')
      BY <1>4, <2>1, LowersRight
  <2>3. Types[t].kind # "flatError" => buffer'.good
      BY <2>2 DEF ForRust, IsFlat
  <2> QED BY <1>1, <2>1, <2>2, <2>3 DEF CodecInv, Underway, WritesFit, NeverAltered, OnlyForeignRefused, ReadsAll
<1> QED BY <1>2, <1>3, <1>4

\* A value lowered by Rust is in the buffer.
LEMMA RustLowerKeeps ==
  ASSUME NEW t \in DOMAIN Types, NEW v \in Values[t], RustLower(t, v)
  PROVE  CodecInv'
<1>1. phase' = "toCpp" /\ type' = t /\ sent' = v /\ OfRust(t, v)
    BY DEF RustLower
<1>2. buffer' = [bytes |-> Lowered("rust", t, v), good |-> TRUE]
    BY DEF RustLower, Lowered
<1>3. ForCpp(t, v, buffer')
    BY <1>1, <1>2 DEF ForCpp
<1> QED BY <1>1, <1>3 DEF CodecInv, Underway, WritesFit, NeverAltered, OnlyForeignRefused, ReadsAll

\* Rust lifts what C++ lowered, or refuses a length or a negative duration.
LEMMA RustLiftKeeps ==
  ASSUME CodecInv, RustLift
  PROVE  CodecInv'
<1> DEFINE r == LiftOn("rust", type, buffer.bytes)  m == MarksOf(type, sent)
<1>1. /\ phase = "toRust" /\ type' = type /\ sent' = sent
      /\ IF r.good /\ r.rest = <<>> THEN phase' = "inRust" /\ value' = r.val
         ELSE phase' = "refused"
    BY DEF RustLift, Refused
<1>2. type \in DOMAIN Types /\ sent \in Values[type] /\ ForRust(type, sent, buffer)
    BY <1>1 DEF CodecInv, Underway
<1>3. CASE IsFlat(type)
  <2>1. FaithfulFlat(Converter[type], Values[type])
      BY <1>2, <1>3, ConvertersRight DEF Right, IsFlat
  <2>0. ~IsString(type)
      BY <1>2, <1>3, StringsAre
  <2>2. r = Converter[type].read["rust"][Reader(Bytes(sent.variant, Int32))]
      BY <1>2, <1>3, <2>0 DEF ForRust, LiftOn
  <2> HIDE DEF r
  <2>3. Reads(r, <<>>, [sent EXCEPT !.message = <<>>])
      BY <1>2, <2>1, <2>2 DEF FaithfulFlat
  <2>4. phase' = "inRust" /\ value' = [sent EXCEPT !.message = <<>>]
      BY <1>1, <2>3 DEF Reads
  <2> QED BY <1>1, <1>2, <1>3, <2>4
         DEF IsFlat, CodecInv, Underway, WritesFit, NeverAltered, OnlyForeignRefused, ReadsAll
<1>4. CASE ~IsFlat(type) /\ IsString(type) /\ "wraps" \in m
  <2>1. r.good = TRUE /\ r.rest = <<>>
      BY <1>4 DEF LiftOn, With, Reader
  <2>2. phase' = "inRust"
      BY <1>1, <2>1
  <2>3. ~Expressible(type, sent)
      BY <1>4 DEF Expressible, MarksOf
  <2> QED BY <1>1, <1>2, <2>2, <2>3
         DEF Expressible, CodecInv, Underway, WritesFit, NeverAltered, OnlyForeignRefused, ReadsAll
<1>5. CASE ~IsFlat(type) /\ ~(IsString(type) /\ "wraps" \in m)
  <2>1. Gives(r, <<>>, sent, m)
    <3>1. buffer.bytes = Lowered("cpp", type, sent) /\ (IsString(type) => "long" \notin m)
        BY <1>2, <1>5 DEF ForRust
    <3> QED BY <1>2, <1>5, <3>1, LiftsWhole DEF Sides
  <2> HIDE DEF r
  <2>4. CASE "long" \notin m /\ "negative" \in m /\ r.good = FALSE
    <3>1. phase' = "refused" /\ ~OfRust(type, sent)
        BY <1>1, <2>4 DEF OfRust, MarksOf
    <3> QED BY <1>1, <1>2, <3>1
           DEF CodecInv, Underway, WritesFit, NeverAltered, OnlyForeignRefused, ReadsAll
  <2>2. CASE "long" \notin m /\ ~("negative" \in m /\ r.good = FALSE)
    <3>1. phase' = "inRust" /\ value' = r.val /\ (m = {} => r.val = sent)
        BY <1>1, <2>1, <2>2 DEF Gives
    <3>2. Expressible(type, sent) => m = {}
        BY <2>2 DEF Expressible, MarksOf
    <3> QED BY <1>1, <1>2, <1>5, <3>1, <3>2
           DEF Expressible, IsFlat, CodecInv, Underway, WritesFit, NeverAltered, OnlyForeignRefused, ReadsAll
  <2>3. CASE "long" \in m
    <3>1. ~OfRust(type, sent)
        BY <2>3 DEF OfRust, MarksOf
    <3>2. Expressible(type, sent) => phase' # "inRust"
        BY <1>1, <2>1, <2>3 DEF Expressible, MarksOf, Gives
    <3>3. phase' \in {"inRust", "refused"}
        BY <1>1
    <3> QED BY <1>1, <1>2, <3>1, <3>2, <3>3
           DEF Expressible, OfRust, CodecInv, Underway, WritesFit, NeverAltered, OnlyForeignRefused, ReadsAll
  <2> QED BY <2>2, <2>3, <2>4
<1> QED BY <1>3, <1>4, <1>5

\* C++ lifts what Rust lowered.
LEMMA LiftKeeps ==
  ASSUME CodecInv, Lift
  PROVE  CodecInv'
<1> DEFINE r == LiftOn("cpp", type, buffer.bytes)  m == MarksOf(type, sent)
<1>1. /\ phase = "toCpp" /\ phase' = "inCpp" /\ type' = type /\ sent' = sent
      /\ value' = r.val /\ buffer' = [bytes |-> r.rest, good |-> r.good]
    BY DEF Lift
<1>2. type \in DOMAIN Types /\ sent \in Values[type] /\ ForCpp(type, sent, buffer)
    BY <1>1 DEF CodecInv, Underway
<1>3. buffer.bytes = Lowered("rust", type, sent) /\ "long" \notin m /\ "negative" \notin m
    BY <1>2 DEF ForCpp, OfRust, MarksOf
<1>4. Gives(r, <<>>, sent, m)
    BY <1>2, <1>3, LiftsWhole DEF Sides
<1> HIDE DEF r
<1>5. r.rest = <<>> /\ r.good = TRUE /\ (m = {} => r.val = sent)
    BY <1>3, <1>4 DEF Gives
<1>6. Expressible(type, sent) => m = {}
    BY <1>3 DEF Expressible, MarksOf
<1>7. buffer'.bytes = <<>> /\ buffer'.good = TRUE /\ (Expressible(type, sent) => value' = sent)
    BY <1>1, <1>5, <1>6
<1> QED BY <1>1, <1>2, <1>7
       DEF Expressible, CodecInv, Underway, WritesFit, NeverAltered, OnlyForeignRefused, ReadsAll

\* Every step keeps the invariant.
LEMMA CodecStep == CodecInv /\ [CodecNext]_codecVars => CodecInv'
<1> SUFFICES ASSUME CodecInv, [CodecNext]_codecVars PROVE CodecInv'
    OBVIOUS
<1>1. CASE \E t \in DOMAIN Types : \E v \in Values[t] : Lower(t, v) \/ RustLower(t, v)
    BY <1>1, LowerKeeps, RustLowerKeeps
<1>2. CASE RustLift
    BY <1>2, RustLiftKeeps
<1>3. CASE Lift
    BY <1>3, LiftKeeps
<1>4. CASE Forget
  <2>1. phase' = "idle"
      BY <1>4 DEF Forget
  <2> QED BY <2>1 DEF CodecInv, Underway, WritesFit, NeverAltered, OnlyForeignRefused, ReadsAll
<1>5. CASE UNCHANGED codecVars
    BY <1>5 DEF codecVars, CodecInv, Underway, ForRust, ForCpp, WritesFit, NeverAltered,
                OnlyForeignRefused, ReadsAll, Expressible, OfRust
<1> QED BY <1>1, <1>2, <1>3, <1>4, <1>5 DEF CodecNext

\* The invariant holds always.
LEMMA CodecAlways == CodecSpec => []CodecInv
BY CodecInitially, CodecStep, PTL DEF CodecSpec

\* What a C++ value is written into has the size that allocation_size said,
\* for all types, all values, and all widths of a byte: the stream, whose
\* state lower does not look at, has dropped nothing.
THEOREM AlwaysWritesFit == CodecSpec => []WritesFit
<1>1. CodecInv => WritesFit
    BY DEF CodecInv
<1> QED BY <1>1, CodecAlways, PTL

\* What a value of any type, nested to any depth, is after it was lowered on
\* one side and lifted on the other: the same.
THEOREM ValuesNeverAltered == CodecSpec => []NeverAltered
<1>1. CodecInv => NeverAltered
    BY DEF CodecInv
<1> QED BY <1>1, CodecAlways, PTL

\* Nothing is refused that Rust has itself and could send: a length that no
\* int32_t holds or a negative duration is to blame, and Rust's "junk data left
\* in buffer" is never the converters' fault.
THEOREM OnlyForeignIsRefused == CodecSpec => []OnlyForeignRefused
<1>1. CodecInv => OnlyForeignRefused
    BY DEF CodecInv
<1> QED BY <1>1, CodecAlways, PTL

\* C++ reads all of what Rust wrote, and never reads on: lift may ignore the
\* stream's state and what is left in it.
THEOREM EverythingIsRead == CodecSpec => []ReadsAll
<1>1. CodecInv => ReadsAll
    BY DEF CodecInv
<1> QED BY <1>1, CodecAlways, PTL
=============================================================================
