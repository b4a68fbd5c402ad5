--------------------------------- MODULE Codec ---------------------------------
(***************************************************************************)
(* Values in RustBuffers (rust_buf_stream.cpp and the converters).  Each   *)
(* converter describes one format three times: allocation_size says how    *)
(* many bytes a value takes, write puts them into a buffer of that size,   *)
(* read gets the value back.  The other side does the same in Rust.  The   *)
(* format has no tags: a byte too few or too many shifts everything after. *)
(*                                                                         *)
(* A byte has Base values.  With a small Base every width wraps where TLC  *)
(* can reach: an int32_t holds 4 digits, an int64_t 8.  Rust is the uniffi *)
(* runtime, modelled from what the converters rely on; `side' tells where  *)
(* it differs from C++.                                                    *)
(*                                                                         *)
(* The types are numbered, each after the types it is made of, and its     *)
(* converter is made from theirs, as the generated ones call each other.   *)
(* There always is such an order: sorted_types panics on a circle.         *)
(***************************************************************************)
EXTENDS Integers, SequencesExt

CONSTANTS
  Base,             \* values of a byte
  TicksPerSecond,   \* the nanoseconds of a second
  Types,            \* the types of the interface, a sequence
  Values            \* for each of them the values that are sent

Int32 == 4
Int64 == 8
Byte == 0..(Base - 1)
Sides == {"cpp", "rust"}

\* The values of k bytes.
Power[k \in 0..Int64] == IF k = 0 THEN 1 ELSE Base * Power[k - 1]

Fits(n, width, signed) ==
  IF signed THEN -Power[width] <= 2 * n /\ 2 * n < Power[width] ELSE 0 <= n /\ n < Power[width]

\* The types that type i can be made of: those before it, but no flat error,
\* which is thrown and never part of a value.
Before(i) == {j \in 1..(i - 1) : Types[j].kind # "flatError"}

\* The entries of a map are records.
IsType(i, t) ==
  CASE t.kind = "int" -> t.width \in 1..Int64 /\ t.signed \in BOOLEAN
    [] t.kind \in {"bool", "string", "bytes", "timestamp", "duration"} -> TRUE
    [] t.kind \in {"optional", "sequence", "custom"} -> t.of \in Before(i)
    [] t.kind = "map" ->
         /\ t.entry \in Before(i)
         /\ Types[t.entry].kind = "record" /\ Len(Types[t.entry].fields) = 2
    [] t.kind = "record" -> t.fields \in Seq(Before(i))
    [] t.kind = "enum" ->
         t.variants \in Seq(Seq(Before(i))) /\ 2 * Len(t.variants) < Power[Int32]
    [] t.kind = "flatError" -> t.variants \in Nat /\ 2 * t.variants < Power[Int32]
    [] OTHER -> FALSE

\* vs has a value for each of the types ts.
AreValues(ts, vs) ==
  /\ vs = [k \in DOMAIN ts |-> vs[k]]
  /\ \A k \in DOMAIN ts : vs[k] \in Values[ts[k]]

\* v is a value of type t.  An optional is <<>> or <<v>>, a map a set of
\* entries with different keys, a time a number of ticks.
IsValue(t, v) ==
  CASE t.kind = "int" -> v \in Int /\ Fits(v, t.width, t.signed)
    [] t.kind = "bool" -> v \in BOOLEAN
    [] t.kind \in {"string", "bytes"} -> v \in Seq(Byte)
    [] t.kind = "optional" -> v \in Seq(Values[t.of]) /\ Len(v) <= 1
    [] t.kind = "sequence" -> v \in Seq(Values[t.of])
    [] t.kind = "map" ->
         /\ v \subseteq Values[t.entry] /\ IsFiniteSet(v)
         /\ \A e, f \in v : e[1] = f[1] => e = f
    [] t.kind = "record" -> AreValues(t.fields, v)
    [] t.kind = "enum" ->
         /\ v = [variant |-> v.variant, fields |-> v.fields]
         /\ v.variant \in 1..Len(t.variants)
         /\ AreValues(t.variants[v.variant], v.fields)
    [] t.kind = "flatError" -> v \in [variant : 1..t.variants, message : Seq(Byte)]
    [] t.kind \in {"timestamp", "duration"} -> v \in Int /\ Fits(v, Int64, TRUE)
    [] t.kind = "custom" -> v.custom \in Values[t.of] /\ v = [custom |-> v.custom]

ASSUME CodecAssumption ==
  /\ Base \in Nat \ {0, 1}
  /\ TicksPerSecond \in 1..Power[Int32]
  /\ DOMAIN Types = 1..Len(Types) /\ Len(Types) \in Nat
  /\ DOMAIN Values = DOMAIN Types
  /\ \A i \in DOMAIN Types :
       /\ IsType(i, Types[i])
       /\ \A v \in Values[i] : IsValue(Types[i], v)

VARIABLES
  phase,    \* where the value is
  type,     \* its type, a number
  sent,     \* the value before it was lowered
  buffer,   \* the RustBuffer: its bytes and whether the stream is good
  value     \* the value after it was lifted

codecVars == <<phase, type, sent, buffer, value>>

-----------------------------------------------------------------------------
(***************************************************************************)
(* Integers, most significant byte first, two's complement.                *)
(***************************************************************************)
Bytes(n, width) == [i \in 1..width |-> (n \div Power[width - i]) % Base]
Unsigned(bs) ==
  LET n[k \in 0..Len(bs)] == IF k = 0 THEN 0 ELSE n[k - 1] * Base + bs[k] IN n[Len(bs)]
Wrap(n, width) ==
  LET m == n % Power[width] IN IF 2 * m < Power[width] THEN m ELSE m - Power[width]

\* Division of C++ and of duration_cast: towards zero.
Quotient(n, d) == IF n >= 0 THEN n \div d ELSE -((-n) \div d)

\* The sum of numbers, and sequences one after the other; both from the end.
Total(ns) ==
  LET sum[k \in 0..Len(ns)] == IF k = 0 THEN 0 ELSE ns[Len(ns) - k + 1] + sum[k - 1]
  IN sum[Len(ns)]
Joined(ss) ==
  LET last[k \in 0..Len(ss)] == IF k = 0 THEN <<>> ELSE ss[Len(ss) - k + 1] \o last[k - 1]
  IN last[Len(ss)]

(***************************************************************************)
(* The stream.  Writing stops at the capacity: what does not fit is        *)
(* dropped, and so is everything after it.                                 *)
(***************************************************************************)
Written(capacity, bs) ==
  LET n == IF Len(bs) <= capacity THEN Len(bs) ELSE capacity
  IN [bytes |-> SubSeq(bs, 1, n) \o [i \in 1..(capacity - n) |-> 0], good |-> n = Len(bs)]

\* A reader has the bytes left, whether it has not failed, and what it read.
Streams == [rest : Seq(Byte), good : BOOLEAN]
Reader(bs) == [rest |-> bs, good |-> TRUE]
Stream(r) == [rest |-> r.rest, good |-> r.good]
With(r, v) == [rest |-> r.rest, good |-> r.good, val |-> v]
Failed(r, v) == [rest |-> r.rest, good |-> FALSE, val |-> v]

Get(width, r) ==
  IF r.good /\ width \in 0..Len(r.rest)
    THEN [rest |-> SubSeq(r.rest, width + 1, Len(r.rest)), good |-> TRUE,
          val |-> SubSeq(r.rest, 1, width)]
    ELSE [rest |-> <<>>, good |-> FALSE, val |-> [i \in 1..width |-> 0]]

GetUnsigned(width, r) == LET g == Get(width, r) IN With(g, Unsigned(g.val))
GetSigned(width, r) == LET g == Get(width, r) IN With(g, Wrap(Unsigned(g.val), width))

Copies(n, x) == [k \in 1..n |-> x]

\* C: the converters of the types before.
SizeAll(C, ts, vs) == Total([k \in DOMAIN vs |-> C[ts[k]].size[vs[k]]])
WriteAll(C, side, ts, vs) == Joined([k \in DOMAIN vs |-> C[ts[k]].write[side][vs[k]]])

\* One read after the other.
ReadAll(reads, r) ==
  LET after[k \in 0..Len(reads)] ==
        IF k = 0 THEN With(r, <<>>)
        ELSE LET before == after[k - 1]
                 e == reads[k][Stream(before)]
             IN With(e, Append(before.val, e.val))
  IN after[Len(reads)]

\* An int32_t count, then the elements.  A negative one is refused: reserve
\* and resize throw, Rust's try_read fails.
ReadCounted(read, r) ==
  LET c == GetSigned(Int32, r)
  IN IF c.val < 0 THEN Failed(c, <<>>) ELSE ReadAll(Copies(c.val, read), c)
-----------------------------------------------------------------------------
SizeInt(t) == t.width
WriteInt(t, v) == Bytes(v, t.width)
ReadInt(t, r) == IF t.signed THEN GetSigned(t.width, r) ELSE GetUnsigned(t.width, r)

SizeBool == 1
WriteBool(v) == Bytes(IF v THEN 1 ELSE 0, 1)
ReadBool(r) == LET g == GetUnsigned(1, r) IN With(g, g.val # 0)

SizeString(v) == Int32 + Len(v)
WriteString(v) == Bytes(Len(v), Int32) \o v
ReadString(r) ==
  LET n == GetSigned(Int32, r) IN IF n.val < 0 THEN Failed(n, <<>>) ELSE Get(n.val, n)

SizeBytes(v) == Int32 + Len(v)
WriteBytes(v) == Bytes(Len(v), Int32) \o v
ReadBytes(r) == ReadCounted([s \in Streams |-> GetUnsigned(1, s)], r)

\* Variant: no room for the flag.
SizeOptionalNoFlag(C, t, v) == SizeAll(C, Copies(Len(v), t.of), v)
SizeOptional(C, t, v) == 1 + SizeAll(C, Copies(Len(v), t.of), v)
WriteOptional(C, side, t, v) == Bytes(Len(v), 1) \o WriteAll(C, side, Copies(Len(v), t.of), v)
ReadOptional(C, side, t, r) ==
  LET g == GetUnsigned(1, r)
  IN ReadAll(Copies(IF g.val # 0 THEN 1 ELSE 0, C[t.of].read[side]), g)

SizeSequence(C, t, v) == Int32 + SizeAll(C, Copies(Len(v), t.of), v)
WriteSequence(C, side, t, v) ==
  Bytes(Len(v), Int32) \o WriteAll(C, side, Copies(Len(v), t.of), v)
ReadSequence(C, side, t, r) == ReadCounted(C[t.of].read[side], r)

\* The entries in some order; insert keeps the first of two equal keys.
SizeMap(C, t, v) == SizeSequence(C, [of |-> t.entry], SetToSeq(v))
WriteMap(C, side, t, v) == WriteSequence(C, side, [of |-> t.entry], SetToSeq(v))
ReadMap(C, side, t, r) ==
  LET g == ReadCounted(C[t.entry].read[side], r)
  IN With(g, {g.val[i] : i \in {j \in DOMAIN g.val : \A k \in 1..(j - 1) : g.val[k][1] # g.val[j][1]}})

SizeRecord(C, t, v) == SizeAll(C, t.fields, v)
WriteRecord(C, side, t, v) == WriteAll(C, side, t.fields, v)
ReadFields(C, side, ts, r) == ReadAll([k \in DOMAIN ts |-> C[ts[k]].read[side]], r)
ReadRecord(C, side, t, r) == ReadFields(C, side, t.fields, r)

\* An enum or an error with data: the number of the variant, then its fields.
SizeEnum(C, t, v) == Int32 + SizeAll(C, t.variants[v.variant], v.fields)
WriteEnum(C, side, t, v) ==
  Bytes(v.variant, Int32) \o WriteAll(C, side, t.variants[v.variant], v.fields)
ReadEnum(C, side, t, r) ==
  LET g == GetSigned(Int32, r)
      f == ReadFields(C, side, t.variants[g.val], g)
  IN IF g.val \in 1..Len(t.variants)
       THEN With(f, [variant |-> g.val, fields |-> f.val])
       ELSE Failed(g, [variant |-> 1, fields |-> <<>>])

\* An error without data carries a message from Rust to C++.  In the other
\* direction there is no room for one, and Rust reads the variant only.
\* Variant: room for the message.
SizeFlatErrorMessage(v) == Int32 + SizeString(v.message)
SizeFlatError(v) == Int32
WriteFlatError(v) == Bytes(v.variant, Int32) \o WriteString(v.message)
\* Variant: the message is not read.
ReadFlatErrorVariant(side, t, r) ==
  LET g == GetSigned(Int32, r) IN With(g, [variant |-> g.val, message |-> <<>>])
ReadFlatError(side, t, r) ==
  LET g == GetSigned(Int32, r)
      m == IF side = "cpp" THEN ReadString(g) ELSE With(g, <<>>)
      e == [variant |-> g.val, message |-> m.val]
  IN IF g.val \in 1..t.variants THEN With(m, e) ELSE Failed(m, e)

\* Ticks since the epoch, in C++ an int64_t.  Rust splits the magnitude.
SizeTimestamp == Int64 + Int32
WriteTimestamp(side, v) ==
  LET secs == Quotient(v, TicksPerSecond)
      sign == IF side = "cpp" THEN (IF secs < 0 THEN -1 ELSE 1) ELSE (IF v < 0 THEN -1 ELSE 1)
  IN Bytes(secs, Int64) \o Bytes(sign * (v - secs * TicksPerSecond), Int32)
\* Variant: the nanoseconds are added, also before the epoch.
ReadTimestampForward(side, r) ==
  LET secs == GetSigned(Int64, r)
      nanos == GetUnsigned(Int32, secs)
  IN With(nanos, secs.val * TicksPerSecond + nanos.val)
ReadTimestamp(side, r) ==
  LET secs == GetSigned(Int64, r)
      nanos == GetUnsigned(Int32, secs)
      sign == IF secs.val < 0 THEN -1 ELSE 1
      ticks == secs.val * TicksPerSecond + sign * nanos.val
  IN With(nanos, IF side = "cpp" THEN Wrap(ticks, Int64) ELSE ticks)

\* Ticks; Rust's cannot be negative and have a uint64_t of seconds.  A C++ one
\* that is negative gets there as seconds and nanoseconds that wrapped.
SizeDuration == Int64 + Int32
WriteDuration(v) ==
  LET secs == Quotient(v, TicksPerSecond)
  IN Bytes(secs, Int64) \o Bytes(v - secs * TicksPerSecond, Int32)
\* Rust's Duration::new carries whole seconds out of the nanoseconds, and
\* panics if the seconds overflow.
ReadDuration(side, r) ==
  LET secs == GetUnsigned(Int64, r)
      nanos == GetUnsigned(Int32, secs)
      ticks == secs.val * TicksPerSecond + nanos.val
  IN IF side = "cpp" THEN With(nanos, Wrap(ticks, Int64))
     ELSE IF Fits(secs.val + nanos.val \div TicksPerSecond, Int64, FALSE) THEN With(nanos, ticks)
     ELSE Failed(nanos, 0)

\* A custom type wraps its builtin; what the configured expressions compute
\* is not modelled, only that one undoes the other.
SizeCustom(C, t, v) == C[t.of].size[v.custom]
WriteCustom(C, side, t, v) == C[t.of].write[side][v.custom]
ReadCustom(C, side, t, r) ==
  LET g == C[t.of].read[side][Stream(r)] IN With(g, [custom |-> g.val])
-----------------------------------------------------------------------------
Size(C, t, v) ==
  CASE t.kind = "int" -> SizeInt(t)
    [] t.kind = "bool" -> SizeBool
    [] t.kind = "string" -> SizeString(v)
    [] t.kind = "bytes" -> SizeBytes(v)
    [] t.kind = "optional" -> SizeOptional(C, t, v)
    [] t.kind = "sequence" -> SizeSequence(C, t, v)
    [] t.kind = "map" -> SizeMap(C, t, v)
    [] t.kind = "record" -> SizeRecord(C, t, v)
    [] t.kind = "enum" -> SizeEnum(C, t, v)
    [] t.kind = "flatError" -> SizeFlatError(v)
    [] t.kind = "timestamp" -> SizeTimestamp
    [] t.kind = "duration" -> SizeDuration
    [] t.kind = "custom" -> SizeCustom(C, t, v)

Write(C, side, t, v) ==
  CASE t.kind = "int" -> WriteInt(t, v)
    [] t.kind = "bool" -> WriteBool(v)
    [] t.kind = "string" -> WriteString(v)
    [] t.kind = "bytes" -> WriteBytes(v)
    [] t.kind = "optional" -> WriteOptional(C, side, t, v)
    [] t.kind = "sequence" -> WriteSequence(C, side, t, v)
    [] t.kind = "map" -> WriteMap(C, side, t, v)
    [] t.kind = "record" -> WriteRecord(C, side, t, v)
    [] t.kind = "enum" -> WriteEnum(C, side, t, v)
    [] t.kind = "flatError" -> WriteFlatError(v)
    [] t.kind = "timestamp" -> WriteTimestamp(side, v)
    [] t.kind = "duration" -> WriteDuration(v)
    [] t.kind = "custom" -> WriteCustom(C, side, t, v)

Read(C, side, t, r) ==
  CASE t.kind = "int" -> ReadInt(t, r)
    [] t.kind = "bool" -> ReadBool(r)
    [] t.kind = "string" -> ReadString(r)
    [] t.kind = "bytes" -> ReadBytes(r)
    [] t.kind = "optional" -> ReadOptional(C, side, t, r)
    [] t.kind = "sequence" -> ReadSequence(C, side, t, r)
    [] t.kind = "map" -> ReadMap(C, side, t, r)
    [] t.kind = "record" -> ReadRecord(C, side, t, r)
    [] t.kind = "enum" -> ReadEnum(C, side, t, r)
    [] t.kind = "flatError" -> ReadFlatError(side, t, r)
    [] t.kind = "timestamp" -> ReadTimestamp(side, r)
    [] t.kind = "duration" -> ReadDuration(side, r)
    [] t.kind = "custom" -> ReadCustom(C, side, t, r)

(***************************************************************************)
(* What is special in a value: a length that an int32_t does not hold, one *)
(* that 32 bits do not hold, a time in the second before the epoch, where  *)
(* the seconds have no sign, a duration that Rust does not have.           *)
(***************************************************************************)
Counted(n) ==
  {m \in {"long"} : 2 * n >= Power[Int32]} \cup {m \in {"wraps"} : n >= Power[Int32]}
MarksAll(C, ts, vs) == UNION {C[ts[k]].marks[vs[k]] : k \in DOMAIN vs}
Marks(C, t, v) ==
  CASE t.kind \in {"string", "bytes"} -> Counted(Len(v))
    [] t.kind = "optional" -> MarksAll(C, Copies(Len(v), t.of), v)
    [] t.kind = "sequence" -> Counted(Len(v)) \cup MarksAll(C, Copies(Len(v), t.of), v)
    [] t.kind = "map" ->
         Counted(Cardinality(v)) \cup MarksAll(C, Copies(Cardinality(v), t.entry), SetToSeq(v))
    [] t.kind = "record" -> MarksAll(C, t.fields, v)
    [] t.kind = "enum" -> MarksAll(C, t.variants[v.variant], v.fields)
    [] t.kind = "flatError" -> Counted(Len(v.message))
    [] t.kind = "timestamp" -> {m \in {"beforeEpoch"} : v \in (1 - TicksPerSecond)..-1}
    [] t.kind = "duration" -> {m \in {"negative"} : v < 0}
    [] t.kind = "custom" -> C[t.of].marks[v.custom]
    [] OTHER -> {}

\* How lower passes a value: a number as it is, a string as its bytes without
\* a length, all else in a buffer; a custom type as its builtin.
FormOf(C, t) ==
  CASE t.kind \in {"int", "bool"} -> "value"
    [] t.kind = "string" -> "text"
    [] t.kind = "custom" -> C[t.of].form
    [] OTHER -> "buffer"
Unwrapped(C, t, v) == IF t.kind = "custom" THEN C[t.of].unwrap[v.custom] ELSE v
Wrapped(C, t, w) == IF t.kind = "custom" THEN [custom |-> C[t.of].wrap[w]] ELSE w

\* The converter of type i, made from those before.
ConverterOf(C, i) ==
  [size |-> [v \in Values[i] |-> Size(C, Types[i], v)],
   write |-> [side \in Sides |-> [v \in Values[i] |-> Write(C, side, Types[i], v)]],
   read |-> [side \in Sides |-> [r \in Streams |-> Read(C, side, Types[i], r)]],
   form |-> FormOf(C, Types[i]),
   unwrap |-> [v \in Values[i] |-> Unwrapped(C, Types[i], v)],
   wrap |-> [w \in Seq(Byte) |-> Wrapped(C, Types[i], w)],
   marks |-> [v \in Values[i] |-> Marks(C, Types[i], v)]]

\* The first n converters.
Converters[n \in 0..Len(Types)] ==
  IF n = 0 THEN <<>> ELSE LET C == Converters[n - 1] IN Append(C, ConverterOf(C, n))
Converter == Converters[Len(Types)]

\* Rust has the value and can send it: it panics on a length that is more than
\* an int32_t holds, and has no negative durations.
OfRust(t, v) == Converter[t].marks[v] \cap {"long", "negative"} = {}

\* Both sides have the value, and the format has room for it: a length of 32
\* bits that does not fit an int32_t is refused as negative.
Expressible(t, v) == Converter[t].marks[v] \subseteq {"long"}
-----------------------------------------------------------------------------
CodecInit ==
  /\ phase = "idle"
  /\ type = 0 /\ sent = <<>> /\ value = <<>>
  /\ buffer = [bytes |-> <<>>, good |-> TRUE]

IsString(t) == Converter[t].form = "text"
Buffered(t) == Converter[t].form # "value"

\* The value cannot be made into a buffer, or the buffer not into a value:
\* an exception in C++, an error or a panic in Rust.
Refused ==
  /\ phase' = "refused"
  /\ UNCHANGED <<buffer, value>>

\* lower: a string that is not part of anything is copied by
\* rustbuffer_from_bytes, which takes its length as an int32_t.
LowerString(v) ==
  LET n == Wrap(Len(v), Int32)
  IN IF n < 0 THEN Refused
     ELSE /\ phase' = "toRust"
          /\ buffer' = [bytes |-> SubSeq(v, 1, n), good |-> TRUE]
          /\ UNCHANGED value

Lower(t, v) ==
  /\ phase = "idle"
  /\ Buffered(t)
  /\ type' = t /\ sent' = v
  /\ IF IsString(t) THEN LowerString(Converter[t].unwrap[v])
     ELSE /\ phase' = "toRust"
          /\ buffer' = Written(Converter[t].size[v], Converter[t].write["cpp"][v])
          /\ UNCHANGED value

\* Rust lowers into a buffer that grows.
RustLower(t, v) ==
  /\ phase = "idle"
  /\ Buffered(t) /\ OfRust(t, v)
  /\ type' = t /\ sent' = v
  /\ phase' = "toCpp"
  /\ buffer' = [bytes |-> IF IsString(t) THEN Converter[t].unwrap[v] ELSE Converter[t].write["rust"][v],
                good |-> TRUE]
  /\ UNCHANGED value

LiftOn(side, t, bs) ==
  IF IsString(t) THEN With(Reader(<<>>), Converter[t].wrap[bs])
  ELSE Converter[t].read[side][Reader(bs)]

\* Rust lifts, and refuses a buffer with bytes left.
RustLift ==
  /\ phase = "toRust"
  /\ LET r == LiftOn("rust", type, buffer.bytes)
     IN IF r.good /\ r.rest = <<>>
          THEN phase' = "inRust" /\ value' = r.val /\ UNCHANGED buffer
          ELSE Refused
  /\ UNCHANGED <<type, sent>>

\* lift: the stream's state and what is left in it are not looked at.
Lift ==
  /\ phase = "toCpp"
  /\ LET r == LiftOn("cpp", type, buffer.bytes)
     IN /\ phase' = "inCpp"
        /\ value' = r.val
        /\ buffer' = [bytes |-> r.rest, good |-> r.good]
  /\ UNCHANGED <<type, sent>>

Forget ==
  /\ phase \in {"inRust", "inCpp", "refused"}
  /\ phase' = "idle"
  /\ type' = 0 /\ sent' = <<>> /\ value' = <<>>
  /\ buffer' = [bytes |-> <<>>, good |-> TRUE]

CodecNext ==
  \/ \E t \in DOMAIN Types : \E v \in Values[t] : Lower(t, v) \/ RustLower(t, v)
  \/ RustLift
  \/ Lift
  \/ Forget

CodecSpec == CodecInit /\ [][CodecNext]_codecVars
-----------------------------------------------------------------------------
\* allocation_size and write agree, for values nested to any depth: what
\* write produces fits, so that the stream, whose state nobody looks at, has
\* dropped nothing.  Flat errors are the exception: their message never fits.
WritesFit == phase = "toRust" /\ Types[type].kind # "flatError" => buffer.good

\* What arrives is what was sent, in both directions, if the format can
\* express it; of a flat error Rust gets the variant.
NeverAltered ==
  phase \in {"inRust", "inCpp"} /\ Expressible(type, sent) =>
    value = IF phase = "inRust" /\ Types[type].kind = "flatError"
              THEN [sent EXCEPT !.message = <<>>] ELSE sent

\* Rust refuses none of the values that it has itself and could send: that a
\* buffer has bytes left or too few, that a count is negative or a time out of
\* range is never the fault of the converters, but of a length beyond an
\* int32_t or a negative duration in the value (duration_helper.cpp 29-33).
OnlyForeignRefused == phase = "refused" => ~OfRust(type, sent)

\* C++ reads everything Rust wrote and nothing beyond: lift ignores both the
\* stream's state and bytes left, so a disagreement would go unnoticed.
ReadsAll == phase = "inCpp" => buffer.good /\ buffer.bytes = <<>>
=============================================================================
