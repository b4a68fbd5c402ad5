-------------------------------- MODULE MCCodec --------------------------------
(***************************************************************************)
(* Codec with bits for bytes: an int32_t is -8..7, a second has 4 ticks.   *)
(***************************************************************************)
EXTENDS Codec

Flat(k) == [kind |-> k]
IntOf(w, s) == [kind |-> "int", width |-> w, signed |-> s]
Of(k, t) == [kind |-> k, of |-> t]
MapOf(e) == [kind |-> "map", entry |-> e]
Record(ts) == [kind |-> "record", fields |-> ts]
Enum(vs) == [kind |-> "enum", variants |-> vs]
FlatErrorOf(n) == [kind |-> "flatError", variants |-> n]

MCTypes == <<
  (*  1 *) Flat("bool"), IntOf(1, FALSE), IntOf(4, TRUE), IntOf(8, FALSE),
  (*  5 *) Flat("string"), Flat("bytes"), Flat("timestamp"), Flat("duration"),
  (*  9 *) Record(<<>>), Record(<<1, 3, 4>>),
  (* 11 *) Of("optional", 6), Record(<<5, 11>>),
  (* 13 *) Of("optional", 8), Record(<<7, 13>>),
  (* 15 *) Of("optional", 2), Of("optional", 15),
  (* 17 *) Of("optional", 3), Enum(<<<<>>, <<5, 2>>, <<17>>>>), Of("sequence", 18),
  (* 20 *) Of("sequence", 9),
  (* 21 *) Of("custom", 5), Record(<<2, 21>>), MapOf(22),
  (* 24 *) Enum(<<<<>>, <<>>, <<>>>>),
  (* 25 *) Of("sequence", 1), Of("custom", 25),
  (* 27 *) FlatErrorOf(2)>>

Lengths == {0, 1, 7, 8, 15, 17}
Zeros(n) == [i \in 1..n |-> i % 2]

\* A value of each of the types ts, of which V has the values.
Tuples(V, ts) == FoldLeft(LAMBDA vs, t : {Append(v, w) : v \in vs, w \in V[t]}, {<<>>}, ts)

ValuesOf(V, t) ==
  CASE t.kind = "int" -> IF t.signed THEN {-8, -1, 3} ELSE {0, 1, 2 ^ t.width - 1}
    [] t.kind = "bool" -> BOOLEAN
    [] t.kind \in {"string", "bytes"} -> {Zeros(n) : n \in Lengths}
    [] t.kind = "optional" -> {<<>>} \cup {<<v>> : v \in V[t.of]}
    [] t.kind = "sequence" ->
         Tuples(V, <<>>) \cup Tuples(V, <<t.of>>) \cup Tuples(V, <<t.of, t.of>>)
           \cup {[i \in 1..n |-> v] : n \in {7, 8}, v \in V[t.of]}
    [] t.kind = "map" ->
         {{}} \cup {{e} : e \in V[t.entry]}
           \cup {{d, e} : d \in {x \in V[t.entry] : x[1] = 0}, e \in {x \in V[t.entry] : x[1] = 1}}
    [] t.kind = "record" -> Tuples(V, t.fields)
    [] t.kind = "enum" ->
         UNION {{[variant |-> i, fields |-> f] : f \in Tuples(V, t.variants[i])} : i \in DOMAIN t.variants}
    [] t.kind = "flatError" -> [variant : 1..t.variants, message : {Zeros(n) : n \in {0, 5}}]
    [] t.kind = "timestamp" -> {-128, -127, -9, -5, -4, -3, -1, 0, 1, 4, 7, 127}
    [] t.kind = "duration" -> {-128, -8, -5, -4, -1, 0, 1, 3, 4, 127}
    [] t.kind = "custom" -> {[custom |-> v] : v \in V[t.of]}

MCValues == FoldLeft(LAMBDA V, t : Append(V, ValuesOf(V, t)), <<>>, MCTypes)
===============================================================================
