------------------------------- MODULE RustCall -------------------------------
(***************************************************************************)
(* One call across the FFI and what it carries (wrapper.cpp, rust_call,    *)
(* check_rust_call, rust_call_trait_interface and _with_error; the lower   *)
(* and lift of the converters; callback_iface_tmpl.cpp).  Compound values, *)
(* errors and panic messages travel in RustBuffers, which nobody but the   *)
(* receiver can free.  Calls nest: C++ calls Rust, Rust calls a C++ method *)
(* back, the method calls Rust; and an exception may end any C++ part of   *)
(* it.  The module follows one thread: a call shares nothing with others.  *)
(*                                                                         *)
(* Buffers of converters that pass a value directly (numbers, handles) do  *)
(* not appear.  What Rust does is modelled from how the templates use it.  *)
(***************************************************************************)
EXTENDS Integers, Sequences, FiniteSets

CONSTANTS
  Buffers,      \* the RustBuffers that can be allocated at one time
  None,         \* no buffer, no exception
  MaxArgs,      \* bound: buffers among the arguments of one call
  MaxDepth,     \* bound: calls and methods nested
  MaxFailures   \* bound: conversions that fail

ASSUME RustCallAssumption ==
  /\ None \notin Buffers
  /\ {MaxArgs, MaxDepth, MaxFailures} \subseteq Nat

(***************************************************************************)
(* A frame of the thread's stack is a C++ -> Rust call or a C++ method     *)
(* that Rust called.  pc of a call: "lower" (arguments), "rust" (the Rust  *)
(* function), "heard" (back in it, from a method), "check".  pc of a       *)
(* method: "lift" (arguments), "body" (user code), "catch".                *)
(***************************************************************************)
VARIABLES
  heap,      \* the allocated buffers, each with what is serialized in it
  stack,     \* the frames, innermost last
  lost,      \* the buffers that nothing refers to any more
  failures   \* conversions that have failed

vars == <<heap, stack, lost, failures>>

Contents == {"value", "error", "message"}
Codes == {0, 1, 2}   \* RustCallStatus::code

Top == stack[Len(stack)]
Below == SubSeq(stack, 1, Len(stack) - 1)
At(kind, pc) == stack # <<>> /\ Top.kind = kind /\ Top.pc = pc
Update(f) == stack' = [stack EXCEPT ![Len(stack)] = f]

\* C++ code has control: the application, or the body of a method.
InCpp == stack = <<>> \/ At("method", "body")

Fresh == Buffers \ DOMAIN heap
Allocate(b, c) == heap' = [x \in DOMAIN heap \cup {b} |-> IF x = b THEN c ELSE heap[x]]
Free(bs) == heap' = [x \in DOMAIN heap \ bs |-> heap[x]]
BufferOf(f) == {f.buf} \ {None}

Fail == failures < MaxFailures /\ failures' = failures + 1
-----------------------------------------------------------------------------
Init ==
  /\ heap = [b \in {} |-> "value"]
  /\ stack = <<>>
  /\ lost = {}
  /\ failures = 0

(***************************************************************************)
(* An exception x leaves the innermost call.  The application handles it;  *)
(* a method's body handles it, or is left by it in turn.                   *)
(***************************************************************************)
Unwind(x) ==
  IF Len(stack) = 1
    THEN stack' = Below
    ELSE \/ stack' = Below
         \/ stack' = [Below EXCEPT ![Len(Below)].pc = "catch", ![Len(Below)].exc = x]

\* `throws' says whether the function declares an error type.
Call(throws, n) ==
  /\ InCpp /\ Len(stack) < MaxDepth
  /\ stack' = Append(stack, [kind |-> "call", pc |-> "lower", throws |-> throws, todo |-> n,
                             bufs |-> {}, code |-> 0, buf |-> None, exc |-> None])
  /\ UNCHANGED <<heap, lost, failures>>

\* lower: rustbuffer_alloc (or _from_bytes) and write.
LowerArg(b) ==
  /\ At("call", "lower") /\ Top.todo > 0 /\ b \in Fresh
  /\ Allocate(b, "value")
  /\ Update([Top EXCEPT !.todo = @ - 1, !.bufs = @ \cup {b}])
  /\ UNCHANGED <<lost, failures>>

\* The conversion of an argument throws, before it has a buffer or after, or
\* initialize() does: the buffers made so far are neither passed nor freed.
LowerFails ==
  /\ At("call", "lower") /\ Fail
  /\ lost' = lost \cup Top.bufs
  /\ Unwind("std")
  /\ UNCHANGED heap

LowerFailsMidway(b) ==
  /\ At("call", "lower") /\ Top.todo > 0 /\ b \in Fresh /\ Fail
  /\ Allocate(b, "value")
  /\ lost' = lost \cup Top.bufs \cup {b}
  /\ Unwind("std")

\* f(args..., &status)
Invoke ==
  /\ At("call", "lower") /\ Top.todo = 0
  /\ Update([Top EXCEPT !.pc = "rust"])
  /\ UNCHANGED <<heap, lost, failures>>
-----------------------------------------------------------------------------
(***************************************************************************)
(* Rust.  It lifts, and so frees, what it is given; a method's arguments   *)
(* are buffers it makes, and so are the answers of its functions: a value, *)
(* an error if the function declares one, or a panic, with a message or -  *)
(* if that could not be made - without.                                    *)
(***************************************************************************)
RustFree(b) ==
  /\ At("call", "rust") /\ b \in Top.bufs
  /\ Free({b})
  /\ Update([Top EXCEPT !.bufs = @ \ {b}])
  /\ UNCHANGED <<lost, failures>>

CallMethod(throws, bs) ==
  /\ At("call", "rust") /\ Len(stack) < MaxDepth
  /\ Cardinality(bs) <= MaxArgs
  /\ heap' = [x \in DOMAIN heap \cup bs |-> IF x \in bs THEN "value" ELSE heap[x]]
  /\ stack' = Append(stack, [kind |-> "method", pc |-> "lift", throws |-> throws, todo |-> 0,
                             bufs |-> bs, code |-> 0, buf |-> None, exc |-> None])
  /\ UNCHANGED <<lost, failures>>

\* Rust reads the status of the method it called, and what came with it.
Hear ==
  /\ At("call", "heard")
  /\ Free(BufferOf(Top))
  /\ Update([Top EXCEPT !.pc = "rust", !.code = 0, !.buf = None])
  /\ UNCHANGED <<lost, failures>>

Answers == {<<0, "value">>, <<1, "error">>, <<2, "message">>}

RustReturn(a, b) ==
  /\ At("call", "rust") /\ Top.bufs = {}
  /\ a[1] = 1 => Top.throws /\ b # None
  /\ IF b = None THEN UNCHANGED heap ELSE b \in Fresh /\ Allocate(b, a[2])
  /\ Update([Top EXCEPT !.pc = "check", !.code = a[1], !.buf = b])
  /\ UNCHANGED <<lost, failures>>
-----------------------------------------------------------------------------
(***************************************************************************)
(* check_rust_call, and the lifting of the answer.                         *)
(***************************************************************************)
\* Variant: the buffer of the answer is not freed by lift.
LiftResultKept ==
  /\ At("call", "check") /\ Top.code = 0
  /\ stack' = Below
  /\ UNCHANGED <<heap, lost, failures>>

\* Code 0: lift reads the value and frees its buffer.
LiftResult ==
  /\ At("call", "check") /\ Top.code = 0
  /\ Free(BufferOf(Top))
  /\ stack' = Below
  /\ UNCHANGED <<lost, failures>>

\* Code 1: the error's converter lifts it, throw_underlying throws it.
ThrowError ==
  /\ At("call", "check") /\ Top.code = 1
  /\ Free(BufferOf(Top))
  /\ Unwind("error")
  /\ UNCHANGED <<lost, failures>>

\* Code 2: runtime_error, with the message if there is one.
ThrowPanic ==
  /\ At("call", "check") /\ Top.code = 2
  /\ Free(BufferOf(Top))
  /\ Unwind("std")
  /\ UNCHANGED <<lost, failures>>

\* read throws (a custom conversion; an unknown variant) before lift has
\* freed the buffer.
LiftFails ==
  /\ At("call", "check") /\ Top.code \in {0, 1} /\ Top.buf # None /\ Fail
  /\ lost' = lost \cup {Top.buf}
  /\ Unwind("std")
  /\ UNCHANGED heap
-----------------------------------------------------------------------------
(***************************************************************************)
(* A method called by Rust: make_call lifts the arguments and runs the     *)
(* body, write_value lowers the result.  All of it is inside the try.      *)
(***************************************************************************)
LiftArg(b) ==
  /\ At("method", "lift") /\ b \in Top.bufs
  /\ Free({b})
  /\ Update([Top EXCEPT !.bufs = @ \ {b}])
  /\ UNCHANGED <<lost, failures>>

LiftArgFails ==
  /\ At("method", "lift") /\ Top.bufs # {} /\ Fail
  /\ lost' = lost \cup Top.bufs
  /\ Update([Top EXCEPT !.pc = "catch", !.bufs = {}, !.exc = "std"])
  /\ UNCHANGED heap

Body ==
  /\ At("method", "lift") /\ Top.bufs = {}
  /\ Update([Top EXCEPT !.pc = "body"])
  /\ UNCHANGED <<heap, lost, failures>>

BodyThrows(x) ==
  /\ At("method", "body")
  /\ Update([Top EXCEPT !.pc = "catch", !.exc = x])
  /\ UNCHANGED <<heap, lost, failures>>

\* The method ends: Rust finds the code and the buffer.
Answer(code, b) ==
  stack' = [Below EXCEPT ![Len(Below)].pc = "heard", ![Len(Below)].code = code,
                         ![Len(Below)].buf = b]

\* write_value, or nothing to write.
WriteValue(b) ==
  /\ At("method", "body")
  /\ IF b = None THEN UNCHANGED heap ELSE b \in Fresh /\ Allocate(b, "value")
  /\ Answer(0, b)
  /\ UNCHANGED <<lost, failures>>

\* Its lower throws after the allocation.
WriteFails(b) ==
  /\ At("method", "body") /\ b \in Fresh /\ Fail
  /\ Allocate(b, "value")
  /\ lost' = lost \cup {b}
  /\ Update([Top EXCEPT !.pc = "catch", !.exc = "std"])

\* catch (E &e): the method's declared error.
CatchError(b) ==
  /\ At("method", "catch") /\ Top.throws /\ Top.exc = "error" /\ b \in Fresh
  /\ Allocate(b, "error")
  /\ Answer(1, b)
  /\ UNCHANGED <<lost, failures>>

\* Lowering the error throws, with status->code already 1: the outer catch.
CatchErrorFails(b) ==
  /\ At("method", "catch") /\ Top.throws /\ Top.exc = "error" /\ b \in Fresh /\ Fail
  /\ Allocate(b, "error")
  /\ lost' = lost \cup {b}
  /\ Update([Top EXCEPT !.code = 1, !.exc = "std"])

\* Variant: the outer catch leaves a code that is set already.
CatchStdKeepingCode(b) ==
  /\ At("method", "catch") /\ Top.exc # None /\ (Top.exc = "error" => ~Top.throws)
  /\ b \in Fresh
  /\ Allocate(b, "message")
  /\ Answer(IF Top.code = 0 THEN 2 ELSE Top.code, b)
  /\ UNCHANGED <<lost, failures>>

\* catch (std::exception &e): everything else, an error of a method that
\* declares none included.
CatchStd(b) ==
  /\ At("method", "catch") /\ Top.exc # None /\ (Top.exc = "error" => ~Top.throws)
  /\ b \in Fresh
  /\ Allocate(b, "message")
  /\ Answer(2, b)
  /\ UNCHANGED <<lost, failures>>
-----------------------------------------------------------------------------
CallStep ==
  \/ \E throws \in BOOLEAN, n \in 0..MaxArgs : Call(throws, n)
  \/ \E b \in Buffers : LowerArg(b) \/ LowerFailsMidway(b)
  \/ LowerFails \/ Invoke
  \/ LiftResult \/ ThrowError \/ ThrowPanic \/ LiftFails

RustStep ==
  \/ \E b \in Buffers : RustFree(b)
  \/ \E throws \in BOOLEAN, bs \in SUBSET Fresh : CallMethod(throws, bs)
  \/ Hear
  \/ \E a \in Answers, b \in Buffers \cup {None} : RustReturn(a, b)

MethodStep ==
  \/ \E b \in Buffers : LiftArg(b) \/ WriteFails(b) \/ CatchError(b) \/ CatchErrorFails(b) \/ CatchStd(b)
  \/ \E b \in Buffers \cup {None} : WriteValue(b)
  \/ LiftArgFails \/ Body
  \/ \E x \in {"error", "std"} : BodyThrows(x)

Next == CallStep \/ RustStep \/ MethodStep

Spec == Init /\ [][Next]_vars
-----------------------------------------------------------------------------
Frames ==
  [kind : {"call", "method"}, throws : BOOLEAN, todo : Nat,
   pc : {"lower", "rust", "heard", "check", "lift", "body", "catch"},
   bufs : SUBSET Buffers, code : Codes, buf : Buffers \cup {None},
   exc : {None, "error", "std"}]

\* Types of the variables.
TypeOK ==
  /\ DOMAIN heap \subseteq Buffers /\ heap \in [DOMAIN heap -> Contents]
  /\ stack \in Seq(Frames)
  /\ lost \subseteq Buffers
  /\ failures \in Nat

\* What one frame refers to.
Held(n) == stack[n].bufs \cup BufferOf(stack[n])

\* Every allocated buffer has exactly one holder, and every buffer somebody
\* holds is allocated: none is freed twice, read after it was freed, or
\* forgotten without a failed conversion, however calls, methods and
\* exceptions are nested.
BuffersHeldOnce ==
  /\ DOMAIN heap = lost \cup UNION {Held(n) : n \in DOMAIN stack}
  /\ \A m, n \in DOMAIN stack : m # n => Held(m) \cap Held(n) = {}
  /\ \A n \in DOMAIN stack :
       Held(n) \cap lost = {} /\ stack[n].bufs \cap BufferOf(stack[n]) = {}

\* The code of a status tells what its buffer holds, in both directions, also
\* when an error was being lowered and that threw (wrapper.cpp 104-118): it
\* is never read by the converter of something else.
DecodedAsWritten ==
  \A n \in DOMAIN stack :
    stack[n].kind = "call" /\ stack[n].pc \in {"check", "heard"} /\ stack[n].buf # None =>
      <<stack[n].code, heap[stack[n].buf]>> \in Answers

\* Calls and methods alternate on the stack, a call at the bottom, and what a
\* frame can hold depends on where it is.
ShapeInv ==
  \A n \in DOMAIN stack :
    /\ stack[n].kind = "call" => stack[n].pc \in {"lower", "rust", "heard", "check"}
    /\ stack[n].kind = "method" => n > 1 /\ stack[n].pc \in {"lift", "body", "catch"}
    /\ n < Len(stack) => stack[n].pc = (IF stack[n + 1].kind = "call" THEN "body" ELSE "rust")
    /\ stack[n].buf # None => stack[n].pc \in {"heard", "check"}
    /\ stack[n].pc \in {"check", "body", "catch"} => stack[n].bufs = {}

IInv == TypeOK /\ ShapeInv /\ BuffersHeldOnce /\ DecodedAsWritten
=============================================================================
