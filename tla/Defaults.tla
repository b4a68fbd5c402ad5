--------------------------------- MODULE Defaults ---------------------------------
(***************************************************************************)
(* Default values of fields (default_cpp in gen_cpp/filters/mod.rs and the *)
(* CodeTypes it calls).                                                    *)
(*                                                                         *)
(* A field of a record, variant or error is declared with a UniFFI default *)
(* and is printed as `T name = code;'.  Three parties have to agree on it: *)
(* the generator, which prints code from the UniFFI type or gives up, C++, *)
(* which reads it by the rules of its own types, some of which are those   *)
(* of several UniFFI types, and Rust, which the value is lowered to.       *)
(*                                                                         *)
(* Types are trees: a record with kind k, of what (`of') for those made of *)
(* another type, and what a definition says of a name.  The operators are  *)
(* recursive, so the module is for TLC only.                               *)
(***************************************************************************)
EXTENDS Naturals, Sequences

CONSTANT Fields   \* the fields to be declared: [type, default]

VARIABLES
  field,      \* the declaration
  stage,      \* "declared", "refused", "generated", "uncompiled", "built", "passed", "thrown"
  code,       \* what the generator printed
  value,      \* the C++ value of the field
  received    \* what Rust lifts

vars == <<field, stage, code, value, received>>

Absent == [d |-> "absent"]
Abort == [e |-> "abort"]
IllFormed == [c |-> "illformed"]
Wrong == [r |-> "wrong"]
Radices == {"decimal", "octal"}

\* The defaults that UniFFI accepts for a type.  A boolean, a float and a
\* hexadecimal number are printed like a decimal one; a key or a value of a
\* map does not occur in a default.
RECURSIVE Accepted(_)
Accepted(t) ==
  {[d |-> "default"]} \cup
  CASE t.k = "int" -> {[d |-> "int", v |-> v, radix |-> r] : v \in {5, 8}, r \in Radices}
    [] t.k = "string" -> {[d |-> "string"]}
    [] t.k = "enum" -> {[d |-> "variant", v |-> 2]}
    [] t.k = "optional" -> {[d |-> "none"]} \cup {[d |-> "some", of |-> d] : d \in Accepted(t.of)}
    [] t.k = "sequence" -> {[d |-> "emptysequence"]}
    [] t.k = "map" -> {[d |-> "emptymap"]}
    [] t.k = "custom" -> Accepted(t.of)
    [] OTHER -> {}
-----------------------------------------------------------------------------
(* The generator. *)

\* can_dereference: types whose C++ type, a shared_ptr, has room for None.
Nullable(t) == t.k \in {"object", "callback"} \/ (t.k = "enum" /\ t.shape = "error")

RECURSIVE Label(_)

LabelOfOptional(t) == IF Nullable(t.of) THEN Label(t.of) ELSE [t EXCEPT !.of = Label(t.of)]

\* A vector or a map of its elements.
LabelOfContainer(t) == [t EXCEPT !.of = Label(t.of)]

\* A typedef of its builtin.
LabelOfCustom(t) == Label(t.of)

\* type_label
Label(t) ==
  CASE t.k = "optional" -> LabelOfOptional(t)
    [] t.k \in {"sequence", "map"} -> LabelOfContainer(t)
    [] t.k = "custom" -> LabelOfCustom(t)
    [] OTHER -> t

\* default_is_value_init
IsValueInit(t) == t.k \in {"int", "string", "optional", "sequence", "map"}

\* Variant: only the types of fields count, as if all were local values.
RECURSIVE InitialisableIfLocal(_)
InitialisableIfLocal(r) ==
  ~r.ext /\ \A i \in DOMAIN r.fields :
    r.fields[i].type.k = "record" => InitialisableIfLocal(r.fields[i].type)
\* is_value_initialisable.  Other crates' records are not found.
RECURSIVE Initialisable(_)
Initialisable(r) ==
  ~r.ext /\ \A i \in DOMAIN r.fields :
    \/ r.fields[i].default # Absent
    \/ /\ r.fields[i].type.k \notin {"enum", "object", "callback", "custom"}
       /\ r.fields[i].type.k = "record" => Initialisable(r.fields[i].type)

\* The digits of an octal number, without the 0 in front: C++ reads decimal.
OctalDigits(n) == (n \div 8) * 10 + (n % 8)
Printed(d) == [e |-> "number", v |-> IF d.radix = "octal" THEN OctalDigits(d.v) ELSE d.v]

\* Variant: nullopt whatever the C++ type of the optional.
NulloptAlways(t) == [e |-> "nullopt"]
NoneCode(t) == IF Nullable(t.of) THEN [e |-> "nullptr"] ELSE [e |-> "nullopt"]

RECURSIVE Literal(_, _), Default(_, _)

\* render_literal; where it says unreachable!, the generator panics.
LiteralOfPrimitive(t, d) ==
  CASE t.k = "int" /\ d.d = "int" -> Printed(d)
    [] t.k = "string" /\ d.d = "string" -> [e |-> "text"]
    [] OTHER -> Abort

LiteralOfOptional(t, d) == IF d.d = "none" THEN NoneCode(t) ELSE Literal(t.of, d)
LiteralOfSequence(t, d) == IF d.d = "emptysequence" THEN [e |-> "braces"] ELSE Literal(t.of, d)
LiteralOfMap(t, d) == IF d.d = "emptymap" THEN [e |-> "braces"] ELSE Literal(t.of, d)
LiteralOfCustom(t, d) == Literal(t.of, d)

\* CodeType::literal; unreachable! for the other types.
Literal(t, d) ==
  CASE t.k \in {"int", "string"} -> LiteralOfPrimitive(t, d)
    [] t.k = "optional" -> LiteralOfOptional(t, d)
    [] t.k = "sequence" -> LiteralOfSequence(t, d)
    [] t.k = "map" -> LiteralOfMap(t, d)
    [] t.k = "custom" -> LiteralOfCustom(t, d)
    [] OTHER -> Abort

Make(t) == [e |-> "make", of |-> Label(t)]

\* The primary constructor, of an object of this crate.
DefaultOfObject(t) == IF ~t.ext /\ t.noargs THEN [e |-> "init", of |-> t] ELSE Abort
DefaultOfRecord(t) == IF Initialisable(t) THEN Make(t) ELSE Abort
DefaultOfEnum(t) == Abort
DefaultOfCustom(t, d) == Default(t.of, d)
DefaultOfOthers(t) == IF IsValueInit(t) THEN Make(t) ELSE Abort

\* CodeType::default
Default(t, d) ==
  CASE t.k = "custom" -> DefaultOfCustom(t, d)
    [] t.k # "custom" /\ d.d # "default" -> Literal(t, d)
    [] t.k = "object" /\ d.d = "default" -> DefaultOfObject(t)
    [] t.k = "record" /\ d.d = "default" -> DefaultOfRecord(t)
    [] t.k = "enum" /\ d.d = "default" -> DefaultOfEnum(t)
    [] OTHER -> DefaultOfOthers(t)

\* default_cpp
RECURSIVE DefaultCpp(_, _)
DefaultCpp(t, d) ==
  CASE d.d = "variant" -> [e |-> "variant", of |-> Label(t), v |-> d.v]
    [] d.d = "some" /\ t.k = "optional" -> DefaultCpp(t.of, d.of)
    [] OTHER -> Default(t, d)

\* A record the generator cannot render because of a field of its own.
RECURSIVE Refused(_)
Refused(t) ==
  CASE t.k = "record" ->
         \E i \in DOMAIN t.fields : LET f == t.fields[i] IN
           Refused(f.type) \/ (f.default # Absent /\ DefaultCpp(f.type, f.default) = Abort)
    [] t.k \in {"optional", "sequence", "map", "custom"} -> Refused(t.of)
    [] OTHER -> FALSE
-----------------------------------------------------------------------------
(* C++. *)

RECURSIVE Zero(_), Initial(_, _)

\* T().  A struct's fields have their own initialisers or are zeroed.
Zero(T) ==
  CASE T.k = "int" -> [c |-> "number", v |-> 0]
    [] T.k = "string" -> [c |-> "text", v |-> ""]
    [] T.k = "time" -> [c |-> "time"]
    [] T.k = "optional" -> [c |-> "nullopt"]
    [] T.k \in {"sequence", "map"} -> [c |-> "empty"]
    [] Nullable(T) -> [c |-> "null"]
    [] T.k = "enum" /\ T.shape = "flat" -> [c |-> "enum", v |-> 0]
    [] T.k = "record" ->
         [c |-> "struct", of |-> [i \in DOMAIN T.fields |->
            LET f == T.fields[i] IN
              IF f.default = Absent THEN Zero(Label(f.type))
              ELSE Initial(Label(f.type), DefaultCpp(f.type, f.default))]]
    [] OTHER -> IllFormed      \* a private constructor

\* The value of an expression, if it has a type of its own: the name of a
\* variant is a value only of a plain enum, and only if the enum's crate and
\* this one are generated with the same enum_style.
Value(x) ==
  CASE x.e = "number" -> [type |-> [k |-> "int"], is |-> [c |-> "number", v |-> x.v]]
    [] x.e = "text" -> [type |-> [k |-> "string"], is |-> [c |-> "text", v |-> "text"]]
    [] x.e = "make" -> [type |-> x.of, is |-> Zero(x.of)]
    [] x.e = "init" -> [type |-> x.of, is |-> [c |-> "ptr"]]
    [] x.e = "variant" /\ x.of.k = "enum" /\ x.of.shape = "flat" /\ x.of.ourstyle ->
         [type |-> x.of, is |-> [c |-> "enum", v |-> x.v]]
    [] OTHER -> [type |-> [k |-> "none"], is |-> IllFormed]

\* T name = x;
Initial(T, x) ==
  CASE x.e = "braces" -> Zero(T)
    [] x.e = "nullopt" /\ T.k = "optional" -> [c |-> "nullopt"]
    [] x.e = "nullptr" /\ Nullable(T) -> [c |-> "null"]
    [] x.e # "braces" /\ Value(x).type = T -> Value(x).is
    [] x.e \notin {"braces", "nullopt"} /\ T.k = "optional" /\ Value(x).type # T ->
         LET inner == Initial(T.of, x) IN
           IF inner = IllFormed THEN IllFormed ELSE [c |-> "engaged", of |-> inner]
    [] OTHER -> IllFormed

\* A record whose own definition does not compile.
RECURSIVE Broken(_)
Broken(t) ==
  CASE t.k = "record" ->
         \E i \in DOMAIN t.fields : LET f == t.fields[i] IN
           \/ Broken(f.type)
           \/ f.default # Absent /\ Initial(Label(f.type), DefaultCpp(f.type, f.default)) = IllFormed
    [] t.k \in {"optional", "sequence", "map", "custom"} -> Broken(t.of)
    [] OTHER -> FALSE

\* What Rust lifts after the converter of t has written v.
RECURSIVE Lowered(_, _)
Lowered(t, v) ==
  CASE t.k = "custom" -> Lowered(t.of, v)
    [] t.k = "optional" ->
         IF v.c \in {"nullopt", "null"} /\ (v.c = "null" => Nullable(t.of)) THEN [r |-> "none"]
         ELSE [r |-> "some", of |-> Lowered(t.of, IF Nullable(t.of) THEN v ELSE v.of)]
    [] t.k = "record" ->
         [r |-> "record", of |-> [i \in DOMAIN t.fields |-> Lowered(t.fields[i].type, v.of[i])]]
    [] t.k = "enum" /\ v.c = "enum" -> IF v.v = 0 THEN Wrong ELSE [r |-> "variant", v |-> v.v]
    [] v.c \in {"number", "text"} -> [r |-> v.c, v |-> v.v]
    [] v.c \in {"empty", "time", "ptr"} -> [r |-> v.c]
    [] OTHER -> Wrong

RECURSIVE LiftsToo(_)
LiftsToo(r) ==
  CASE r.r = "wrong" -> FALSE
    [] r.r = "some" -> LiftsToo(r.of)
    [] r.r = "record" -> \A i \in DOMAIN r.of : LiftsToo(r.of[i])
    [] OTHER -> TRUE
-----------------------------------------------------------------------------
(* What the declaration means. *)

RECURSIVE Meant(_, _)
Meant(t, d) ==
  CASE t.k = "custom" -> Meant(t.of, d)
    [] d.d = "int" -> [r |-> "number", v |-> d.v]
    [] d.d = "string" -> [r |-> "text", v |-> "text"]
    [] d.d = "variant" /\ t.k = "enum" -> [r |-> "variant", v |-> d.v]
    [] d.d = "some" /\ t.k = "optional" -> [r |-> "some", of |-> Meant(t.of, d.of)]
    [] d.d = "none" \/ (d.d = "default" /\ t.k = "optional") -> [r |-> "none"]
    [] d.d \in {"emptysequence", "emptymap"} \/ (d.d = "default" /\ t.k \in {"sequence", "map"}) ->
         [r |-> "empty"]
    [] d.d = "default" /\ t.k = "int" -> [r |-> "number", v |-> 0]
    [] d.d = "default" /\ t.k = "string" -> [r |-> "text", v |-> ""]
    [] d.d = "default" /\ t.k = "time" -> [r |-> "time"]
    [] d.d = "default" /\ t.k = "object" -> [r |-> "ptr"]
    [] d.d = "default" /\ t.k = "record" ->
         [r |-> "record", of |-> [i \in DOMAIN t.fields |->
            LET f == t.fields[i] IN
              Meant(f.type, IF f.default = Absent THEN [d |-> "default"] ELSE f.default)]]
    [] OTHER -> Wrong
-----------------------------------------------------------------------------
Init ==
  /\ field \in Fields
  /\ stage = "declared"
  /\ code = Abort /\ value = IllFormed /\ received = Wrong

Refuse ==
  /\ stage = "declared"
  /\ Refused(field.type) \/ DefaultCpp(field.type, field.default) = Abort
  /\ stage' = "refused"
  /\ UNCHANGED <<field, code, value, received>>

Generate ==
  /\ stage = "declared"
  /\ ~Refused(field.type) /\ DefaultCpp(field.type, field.default) # Abort
  /\ code' = DefaultCpp(field.type, field.default)
  /\ stage' = "generated"
  /\ UNCHANGED <<field, value, received>>

\* The application makes the record.
Construct ==
  /\ stage = "generated"
  /\ value' = IF Broken(field.type) THEN IllFormed ELSE Initial(Label(field.type), code)
  /\ stage' = IF value' = IllFormed THEN "uncompiled" ELSE "built"
  /\ UNCHANGED <<field, code, received>>

\* It passes it to Rust.  A null handle and an unknown variant are refused or
\* worse.
Pass ==
  /\ stage = "built"
  /\ received' = Lowered(field.type, value)
  /\ stage' = IF LiftsToo(received') THEN "passed" ELSE "thrown"
  /\ UNCHANGED <<field, code, value>>

Next == Refuse \/ Generate \/ Construct \/ Pass

Spec == Init /\ [][Next]_vars
-----------------------------------------------------------------------------
RECURSIVE Innermost(_)
Innermost(d) == IF d.d = "some" THEN Innermost(d.of) ELSE d

RECURSIVE Peeled(_)
Peeled(t) == IF t.k = "custom" THEN Peeled(t.of) ELSE t

\* Defaults of which it is known that C++ reads them differently: `{}' and
\* nullopt, which are taken for the optional around them, and octal numbers.
RECURSIVE Swallowed(_, _)
Swallowed(t, d) ==
  /\ d.d = "some" /\ t.k = "optional"
  /\ \/ d.of.d \in {"emptysequence", "emptymap"}
     \/ d.of.d = "none" /\ ~Nullable(Peeled(t.of).of)
     \/ Swallowed(t.of, d.of)
Misprinted(d) == Innermost(d).d = "int" /\ Innermost(d).radix = "octal" /\ Innermost(d).v >= 8
\* The same within a record that is made of its own fields' defaults.
RECURSIVE Misread(_, _)
Misread(t, d) ==
  \/ Swallowed(t, d)
  \/ Misprinted(d)
  \/ /\ t.k = "record" /\ d.d \in {"default", "absent"}
     /\ \E i \in DOMAIN t.fields : Misread(t.fields[i].type, t.fields[i].default)
  \/ t.k = "custom" /\ Misread(t.of, d)
  \/ t.k = "optional" /\ d.d = "some" /\ Misread(t.of, d.of)

\* Whatever is generated and compiles is, when Rust lifts it, what the
\* declaration means in Rust: no null handle, no enumerator 0, no None for a
\* Some, however the types are nested - but for the defaults misread above.
DefaultsKeepMeaning ==
  stage \in {"passed", "thrown"} /\ ~Misread(field.type, field.default) =>
    received = Meant(field.type, field.default)

\* What is generated compiles, but for variants that C++ has no such name of:
\* those of enums with fields, of errors, and of crates with another style.
RECURSIVE NamesVariant(_, _)
NamesVariant(t, d) ==
  \/ Innermost(d).d = "variant"
  \/ t.k \in {"optional", "sequence", "map", "custom"} /\ NamesVariant(t.of, Absent)
  \/ /\ t.k = "record"
     /\ \E i \in DOMAIN t.fields : NamesVariant(t.fields[i].type, t.fields[i].default)
DefaultsCompile == stage = "uncompiled" => NamesVariant(field.type, field.default)
=================================================================================
