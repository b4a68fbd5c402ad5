----------------------------- MODULE ScaffoldCall -----------------------------
(***************************************************************************)
(* One call of a C++ library through the C++ scaffolding and what it       *)
(* carries (templates cpp_scaffolding.cpp, scaffolding/macros.cpp,         *)
(* scaffolding/callback.cpp, scaffolding/err.cpp, scaffolding/custom.cpp). *)
(* It is the counterpart of RustCall: here C++ is called.  An exported     *)
(* function lifts its arguments, runs the library's function inside a try  *)
(* and reports what that throws in a status; the library may call methods  *)
(* of foreign callback objects, through proxies, and those call the        *)
(* library again.  The module follows one thread.                          *)
(*                                                                         *)
(* Values that travel directly (numbers, keys of objects, callbacks)       *)
(* do not appear.  The foreign side is modelled from how the templates     *)
(* use it.                                                                 *)
(***************************************************************************)
EXTENDS Integers, Sequences, FiniteSets

CONSTANTS
  Buffers,      \* the RustBuffers that can be allocated at one time
  None,         \* no buffer, no exception
  MaxArgs,      \* bound: buffers among the arguments of one call
  MaxCustoms,   \* bound: buffers with custom values at one time
  MaxDepth,     \* bound: calls and callbacks nested
  MaxFailures   \* bound: conversions that fail

ASSUME ScaffoldCallAssumption ==
  /\ None \notin Buffers /\ None \notin {"fn", "ctor"}
  /\ {MaxArgs, MaxCustoms, MaxDepth, MaxFailures} \subseteq Nat

(***************************************************************************)
(* A frame of the stack is an exported function or method ("fn"), an       *)
(* exported constructor ("ctor"), or a proxy's method ("proxy").  pc of    *)
(* the first two: "lift" (arguments), "body" (the library), "catch",       *)
(* "told" (the caller has the status).  pc of a proxy's method: "write"    *)
(* (arguments), "foreign" (in the callback), "answer".                     *)
(***************************************************************************)
VARIABLES
  heap,      \* the allocated buffers, each with what is serialized in it
  stack,     \* the frames, innermost last
  lost,      \* the buffers that nothing refers to any more
  failures,  \* conversions that have failed
  crossed    \* the kind of frame an exception has left for the foreign
             \* caller, which ends the process, or None

vars == <<heap, stack, lost, failures, crossed>>

\* "custom": the value of a custom type with a serialized representation.
Contents == {"value", "custom", "error", "message"}
Codes == 0..3   \* UNIFFI_CALL_STATUS_OK, _ERROR, _PANIC; 3 is any other

Top == stack[Len(stack)]
Below == SubSeq(stack, 1, Len(stack) - 1)
At(kinds, pc) == crossed = None /\ stack # <<>> /\ Top.kind \in kinds /\ Top.pc = pc
Exported == {"fn", "ctor"}
Update(f) == stack' = [stack EXCEPT ![Len(stack)] = f]
Push(kind, pc, throws, bs) ==
  stack' = Append(stack, [kind |-> kind, pc |-> pc, throws |-> throws, bufs |-> bs,
                          code |-> 0, buf |-> None, exc |-> None])

Fresh == Buffers \ DOMAIN heap
Allocate(b, c) == heap' = [x \in DOMAIN heap \cup {b} |-> IF x = b THEN c ELSE heap[x]]
Free(bs) == heap' = [x \in DOMAIN heap \ bs |-> heap[x]]
BufferOf(f) == {f.buf} \ {None}
Customs == {b \in DOMAIN heap : heap[b] = "custom"}

Fail == failures < MaxFailures /\ failures' = failures + 1

\* An exception x is thrown in the exported function on top of stack s: only
\* functions and methods have a try (fn_prologue), constructors have none.
ThrowIn(s, x) ==
  LET n == Len(s) IN
    IF s[n].kind = "ctor"
      THEN stack' = s /\ crossed' = "ctor"
      ELSE stack' = [s EXCEPT ![n].pc = "catch", ![n].bufs = {}, ![n].exc = x] /\ UNCHANGED crossed

\* An exception x leaves a proxy's method: the library handles it or not.
Unwind(x) == (stack' = Below /\ UNCHANGED crossed) \/ ThrowIn(Below, x)
-----------------------------------------------------------------------------
Init ==
  /\ heap = [b \in {} |-> "value"]
  /\ stack = <<>>
  /\ lost = {}
  /\ failures = 0
  /\ crossed = None

(***************************************************************************)
(* The foreign side.  It makes the buffers of the arguments (the exported  *)
(* rustbuffer_alloc, _from_bytes), reads and frees those of the answer.    *)
(* `throws' says whether the function declares an error type.              *)
(***************************************************************************)
InForeign == crossed = None /\ (stack = <<>> \/ At({"proxy"}, "foreign"))

Call(kind, throws, bs, customs) ==
  /\ InForeign /\ Len(stack) < MaxDepth
  /\ Cardinality(Customs \cup customs) <= MaxCustoms
  /\ heap' = [b \in DOMAIN heap \cup bs |->
                IF b \notin bs THEN heap[b] ELSE IF b \in customs THEN "custom" ELSE "value"]
  /\ Push(kind, "lift", throws, bs)
  /\ UNCHANGED <<lost, failures, crossed>>

Hear ==
  /\ At(Exported, "told")
  /\ Free(BufferOf(Top))
  /\ stack' = Below
  /\ UNCHANGED <<lost, failures, crossed>>

Answers == {<<0, "value">>, <<1, "error">>, <<2, "message">>}

\* A callback's method answers: as agreed, or with a code that is unknown.
CallbackAnswer(a, b) ==
  /\ At({"proxy"}, "foreign")
  /\ a[1] = 1 => b # None
  /\ IF b = None THEN UNCHANGED heap ELSE b \in Fresh /\ Allocate(b, a[2])
  /\ Update([Top EXCEPT !.pc = "answer", !.code = a[1], !.buf = b])
  /\ UNCHANGED <<lost, failures, crossed>>
-----------------------------------------------------------------------------
(***************************************************************************)
(* An exported function: arguments are lifted in the call of the library's *)
(* function, in any order.                                                 *)
(***************************************************************************)
\* Variant: lift keeps the buffer of every argument.
LiftArgKept(b) ==
  /\ At(Exported, "lift") /\ b \in Top.bufs
  /\ lost' = lost \cup {b}
  /\ Update([Top EXCEPT !.bufs = @ \ {b}])
  /\ UNCHANGED <<heap, failures, crossed>>

\* lift reads the buffer and frees it - a custom type's lift does not.
LiftArg(b) ==
  /\ At(Exported, "lift") /\ b \in Top.bufs
  /\ IF heap[b] = "custom"
       THEN lost' = lost \cup {b} /\ UNCHANGED heap
       ELSE Free({b}) /\ UNCHANGED lost
  /\ Update([Top EXCEPT !.bufs = @ \ {b}])
  /\ UNCHANGED <<failures, crossed>>

\* read throws (into_custom, an unknown variant): the buffers not lifted yet
\* have no other owner.
LiftArgFails ==
  /\ At(Exported, "lift") /\ Top.bufs # {} /\ Fail
  /\ lost' = lost \cup Top.bufs
  /\ ThrowIn([stack EXCEPT ![Len(stack)].bufs = {}], "std")
  /\ UNCHANGED heap

Body ==
  /\ At(Exported, "lift") /\ Top.bufs = {}
  /\ Update([Top EXCEPT !.pc = "body"])
  /\ UNCHANGED <<heap, lost, failures, crossed>>

\* The library throws an error of the API, a std::exception, or neither.
BodyThrows(x) ==
  /\ At(Exported, "body")
  /\ ThrowIn(stack, x)
  /\ UNCHANGED <<heap, lost, failures>>

\* The caller finds the code and the buffer.
Tell(code, b) == Update([Top EXCEPT !.pc = "told", !.code = code, !.buf = b])

\* return lower(ret), or nothing to lower; a constructor returns a key.
Return(b) ==
  /\ At(Exported, "body")
  /\ Top.kind = "ctor" => b = None
  /\ IF b = None THEN UNCHANGED heap ELSE b \in Fresh /\ Allocate(b, "value")
  /\ Tell(0, b)
  /\ UNCHANGED <<lost, failures, crossed>>

\* write throws (from_custom) after the buffer was allocated.
ReturnFails(b) ==
  /\ At({"fn"}, "body") /\ b \in Fresh /\ Fail
  /\ Allocate(b, "value")
  /\ lost' = lost \cup {b}
  /\ ThrowIn(stack, "std")

\* catch (const E::V &e), for every variant of the declared error.
CatchError(b) ==
  /\ At({"fn"}, "catch") /\ Top.throws /\ Top.exc = "error" /\ b \in Fresh
  /\ Allocate(b, "error")
  /\ Tell(1, b)
  /\ UNCHANGED <<lost, failures, crossed>>

\* Lowering the error throws inside the handler, which nothing encloses.
CatchErrorFails(b) ==
  /\ At({"fn"}, "catch") /\ Top.throws /\ Top.exc = "error" /\ b \in Fresh /\ Fail
  /\ Allocate(b, "error")
  /\ lost' = lost \cup {b}
  /\ crossed' = "fn"
  /\ UNCHANGED stack

\* Variant: the message is sent and the code stays OK.
CatchStdOk(b) ==
  /\ At({"fn"}, "catch") /\ (Top.exc = "std" \/ (Top.exc = "error" /\ ~Top.throws))
  /\ b \in Fresh
  /\ Allocate(b, "message")
  /\ Tell(0, b)
  /\ UNCHANGED <<lost, failures, crossed>>

\* catch (const std::exception &e): an error that is not declared too.
CatchStd(b) ==
  /\ At({"fn"}, "catch") /\ (Top.exc = "std" \/ (Top.exc = "error" /\ ~Top.throws))
  /\ b \in Fresh
  /\ Allocate(b, "message")
  /\ Tell(2, b)
  /\ UNCHANGED <<lost, failures, crossed>>

\* Variant: there is no such clause.
CatchOtherNot ==
  /\ At({"fn"}, "catch") /\ Top.exc = "other"
  /\ crossed' = "fn"
  /\ UNCHANGED <<heap, stack, lost, failures>>

\* catch (...): no message.
CatchOther ==
  /\ At({"fn"}, "catch") /\ Top.exc = "other"
  /\ Tell(2, None)
  /\ UNCHANGED <<heap, lost, failures, crossed>>
-----------------------------------------------------------------------------
(***************************************************************************)
(* A proxy's method: the arguments in one buffer that the callback only    *)
(* reads, its answer in another.  Called before the foreign side has       *)
(* registered its stub, or failing to size its arguments, it throws having *)
(* done nothing, as BodyThrows may.                                        *)
(***************************************************************************)
CallProxy(throws, b) ==
  /\ At(Exported, "body") /\ Len(stack) < MaxDepth /\ b \in Fresh
  /\ Allocate(b, "value")
  /\ Push("proxy", "write", throws, {b})
  /\ UNCHANGED <<lost, failures, crossed>>

WriteArgs ==
  /\ At({"proxy"}, "write")
  /\ Update([Top EXCEPT !.pc = "foreign"])
  /\ UNCHANGED <<heap, lost, failures, crossed>>

WriteArgsFails ==
  /\ At({"proxy"}, "write") /\ Fail
  /\ lost' = lost \cup Top.bufs
  /\ Unwind("std")
  /\ UNCHANGED heap

\* in_buf is freed as soon as the stub is back, then the code decides.
Answered(codes) == At({"proxy"}, "answer") /\ Top.code \in codes
Both == Top.bufs \cup BufferOf(Top)

\* Variant: in_buf is left to the callback.
ResultKeepingArgs ==
  /\ Answered({0})
  /\ Free(BufferOf(Top))
  /\ stack' = Below
  /\ UNCHANGED <<lost, failures, crossed>>

Result ==
  /\ Answered({0})
  /\ Free(Both)
  /\ stack' = Below
  /\ UNCHANGED <<lost, failures, crossed>>

\* The declared error, read as the variant that its first word names.
ThrowError ==
  /\ Answered({1}) /\ Top.throws
  /\ Free(Both)
  /\ Unwind("error")
  /\ UNCHANGED <<lost, failures>>

\* A panic with its message; an unknown code; an error with a variant that
\* does not exist, or of a method that declares none.
ThrowStd ==
  /\ Answered({1, 2, 3})
  /\ Free(Both)
  /\ Unwind("std")
  /\ UNCHANGED <<lost, failures>>

\* Reading the answer throws, before its buffer is freed.
ReadAnswerFails ==
  /\ Answered({0, 1}) /\ Top.buf # None /\ (Top.code = 1 => Top.throws) /\ Fail
  /\ Free(Top.bufs)
  /\ lost' = lost \cup {Top.buf}
  /\ Unwind("std")
-----------------------------------------------------------------------------
ForeignStep ==
  \/ \E kind \in Exported, throws \in BOOLEAN, bs \in SUBSET Fresh :
       /\ Cardinality(bs) <= MaxArgs
       /\ \E customs \in SUBSET bs : Call(kind, throws, bs, customs)
  \/ Hear
  \/ \E a \in Answers \cup {<<3, "value">>}, b \in Buffers \cup {None} : CallbackAnswer(a, b)

ExportedStep ==
  \/ \E b \in Buffers : \/ LiftArg(b) \/ ReturnFails(b)
                        \/ CatchError(b) \/ CatchErrorFails(b) \/ CatchStd(b)
  \/ \E b \in Buffers \cup {None} : Return(b)
  \/ LiftArgFails \/ Body \/ CatchOther
  \/ \E x \in {"error", "std", "other"} : BodyThrows(x)

ProxyStep ==
  \/ \E throws \in BOOLEAN, b \in Buffers : CallProxy(throws, b)
  \/ WriteArgs \/ WriteArgsFails
  \/ Result \/ ThrowError \/ ThrowStd \/ ReadAnswerFails

\* The process has ended.
Terminated == crossed # None /\ UNCHANGED vars

Next == ForeignStep \/ ExportedStep \/ ProxyStep \/ Terminated

Spec == Init /\ [][Next]_vars
-----------------------------------------------------------------------------
(***************************************************************************)
(* Properties.                                                             *)
(***************************************************************************)
Frames ==
  [kind : Exported \cup {"proxy"}, throws : BOOLEAN,
   pc : {"lift", "body", "catch", "told", "write", "foreign", "answer"},
   bufs : SUBSET Buffers, code : Codes, buf : Buffers \cup {None},
   exc : {None, "error", "std", "other"}]

\* Types of the variables.
TypeOK ==
  /\ DOMAIN heap \subseteq Buffers /\ heap \in [DOMAIN heap -> Contents]
  /\ stack \in Seq(Frames)
  /\ lost \subseteq Buffers
  /\ failures \in Nat
  /\ crossed \in Exported \cup {None}

\* What one frame refers to.
Held(n) == stack[n].bufs \cup BufferOf(stack[n])

\* Every allocated buffer has exactly one holder, and every buffer that
\* somebody holds is allocated, however exported functions, proxies and the
\* exceptions between them are nested (macros.cpp, callback.cpp).
BuffersHeldOnce ==
  /\ DOMAIN heap = lost \cup UNION {Held(n) : n \in DOMAIN stack}
  /\ \A m, n \in DOMAIN stack : m # n => Held(m) \cap Held(n) = {}
  /\ \A n \in DOMAIN stack :
       Held(n) \cap lost = {} /\ stack[n].bufs \cap BufferOf(stack[n]) = {}

\* When no call is in progress and no conversion has failed, every buffer is
\* freed except those of custom arguments, which custom.cpp's lift forgets.
OnlyCustomsLeak ==
  stack = <<>> /\ failures = 0 => DOMAIN heap = Customs

\* A status code tells what the buffer beside it holds, at the caller of an
\* exported function: no message is ever read as a value or an error.
DecodedAsWritten ==
  \A n \in DOMAIN stack :
    stack[n].kind \in Exported /\ stack[n].pc = "told" /\ stack[n].buf # None =>
      <<stack[n].code, heap[stack[n].buf]>> \in Answers

\* Whatever the library throws, also out of a callback that the foreign side
\* answered with anything, a function or method reports in its status; only
\* an error that cannot itself be lowered gets out (macros.cpp 23-32).
FunctionsReport == crossed = "fn" => failures > 0

\* Exported functions and proxies' methods alternate on the stack, and what a
\* frame can hold depends on where it is.
ShapeInv ==
  \A n \in DOMAIN stack :
    /\ stack[n].kind \in Exported => stack[n].pc \in {"lift", "body", "catch", "told"}
    /\ stack[n].kind = "proxy" => n > 1 /\ stack[n].pc \in {"write", "foreign", "answer"}
    /\ n < Len(stack) => stack[n].pc = (IF stack[n + 1].kind = "proxy" THEN "body" ELSE "foreign")
    /\ stack[n].buf # None => stack[n].pc \in {"told", "answer"}
    /\ stack[n].pc \in {"body", "catch", "told"} => stack[n].bufs = {}

\* Until a conversion fails, what is lost is custom.
LostInv == failures = 0 => lost \subseteq Customs

IInv ==
  /\ TypeOK /\ ShapeInv /\ BuffersHeldOnce
  /\ LostInv /\ DecodedAsWritten /\ FunctionsReport

\* A constructor too reports what the library's constructor throws
\* (fixtures/coverall/src/coverall.udl 143-149: "Either constructs a new
\* object or throws an error", "panics in ctors are handled").
ConstructorsReport == crossed # "ctor"
=============================================================================
