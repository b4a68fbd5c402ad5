---------------------------- MODULE Initialization ----------------------------
(***************************************************************************)
(* How the bindings of each namespace come up (wrapper.cpp, initialize and *)
(* ensure_initialized; gen_cpp/mod.rs, initialization_fns).  There is no   *)
(* explicit start: every call into Rust, and every method Rust calls back, *)
(* begins with initialize(), which runs once per namespace: it compares    *)
(* the contract version and the checksums with the loaded library and      *)
(* hands Rust the vtable of every interface C++ may implement, those of    *)
(* other namespaces included.                                              *)
(***************************************************************************)
EXTENDS Integers, Sequences, FiniteSets

CONSTANTS
  Threads,
  Namespaces,  \* components with generated bindings in the process
  VTables,     \* interfaces C++ can implement
  Home,        \* the namespace that defines an interface
  Locals,      \* per namespace, its own interfaces as the generator lists them
  Imports,     \* per namespace, those of other namespaces that it uses
  Libraries,   \* the sets of namespaces a build may match; the others mismatch
  MaxDepth     \* bound: calls and callbacks nested on one thread

ASSUME InitializationAssumption ==
  /\ Home \in [VTables -> Namespaces]
  /\ Locals \in [Namespaces -> Seq(VTables)]
  /\ Imports \in [Namespaces -> Seq(VTables)]
  /\ \A v \in VTables : \E i \in DOMAIN Locals[Home[v]] : Locals[Home[v]][i] = v
  /\ Libraries \subseteq SUBSET Namespaces /\ Libraries # {}
  /\ Threads \cap {"unset", "set"} = {}
  /\ MaxDepth \in Nat

VARIABLES
  matching,    \* the namespaces whose bindings match the loaded library
  flag,        \* per namespace, init_flag: "unset", "set" or the thread running it
  pc,          \* per thread, where it is in its innermost call
  next,        \* per thread, the initialization function it is about to call
  stack,       \* per thread, the calls it is in: [ns, by], innermost last
  vtables,     \* the vtables Rust has been handed
  thrown       \* per thread, where initialize() last threw: "cpp", "rust" or "no"

vars == <<matching, flag, pc, next, stack, vtables, thrown>>

Top(t) == stack[t][Len(stack[t])]
Below(t) == SubSeq(stack[t], 1, Len(stack[t]) - 1)
Here(t) == Top(t).ns

\* Variant: the vtables of imported interfaces are left to their own namespace.
LocalFns(n) == Locals[n]

\* initialization_fns: the local interfaces, then the imported ones.
InitFns(n) == Locals[n] \o Imports[n]

\* Interfaces through which functions of a namespace can call back.
Imported(n) == {Imports[n][i] : i \in DOMAIN Imports[n]}
Usable(n) == {v \in VTables : Home[v] = n} \cup Imported(n)

Goto(t, from, to) == pc[t] = from /\ pc' = [pc EXCEPT ![t] = to]
-----------------------------------------------------------------------------
Init ==
  /\ matching \in Libraries
  /\ flag = [n \in Namespaces |-> "unset"]
  /\ pc = [t \in Threads |-> "cpp"]
  /\ next = [t \in Threads |-> 0]
  /\ stack = [t \in Threads |-> <<>>]
  /\ vtables = {}
  /\ thrown = [t \in Threads |-> "no"]

\* rust_call from C++ code.
RustCall(t, n) ==
  /\ Len(stack[t]) < MaxDepth
  /\ Goto(t, "cpp", "once")
  /\ stack' = [stack EXCEPT ![t] = Append(@, [ns |-> n, by |-> "cpp"])]
  /\ thrown' = [thrown EXCEPT ![t] = "no"]
  /\ UNCHANGED <<matching, flag, next, vtables>>

\* Rust, running a function of a namespace, calls a C++ method; the method
\* begins with rust_call_trait_interface of the interface's own namespace.
CallBack(t, v) ==
  /\ Len(stack[t]) < MaxDepth
  /\ Goto(t, "rust", "once")
  /\ v \in Usable(Here(t))
  /\ stack' = [stack EXCEPT ![t] = Append(@, [ns |-> Home[v], by |-> "rust"])]
  /\ UNCHANGED <<matching, flag, next, vtables, thrown>>

\* The code behind initialize(): a Rust function, or the C++ method.
Body(t) == IF Top(t).by = "cpp" THEN "rust" ELSE "cpp"

\* std::call_once: done already, or this thread runs it (others wait).
OnceDone(t) ==
  /\ pc[t] = "once" /\ flag[Here(t)] = "set"
  /\ pc' = [pc EXCEPT ![t] = Body(t)]
  /\ UNCHANGED <<matching, flag, next, stack, vtables, thrown>>

OnceRun(t) ==
  /\ Goto(t, "once", "check")
  /\ flag[Here(t)] = "unset"
  /\ flag' = [flag EXCEPT ![Here(t)] = t]
  /\ UNCHANGED <<matching, next, stack, vtables, thrown>>

\* Variant: a failed check is reported once; the flag stays set.
CheckFailsForGood(t) ==
  /\ pc[t] = "check" /\ Here(t) \notin matching
  /\ flag' = [flag EXCEPT ![Here(t)] = "set"]
  /\ thrown' = [thrown EXCEPT ![t] = Top(t).by]
  /\ pc' = [pc EXCEPT ![t] = Top(t).by]
  /\ stack' = [stack EXCEPT ![t] = Below(t)]
  /\ UNCHANGED <<matching, next, vtables>>

\* The contract version or a checksum differs: runtime_error leaves call_once
\* with the flag unset (the next caller tries again) and leaves initialize().
CheckFails(t) ==
  /\ pc[t] = "check" /\ Here(t) \notin matching
  /\ flag' = [flag EXCEPT ![Here(t)] = "unset"]
  /\ thrown' = [thrown EXCEPT ![t] = Top(t).by]
  /\ pc' = [pc EXCEPT ![t] = Top(t).by]
  /\ stack' = [stack EXCEPT ![t] = Below(t)]
  /\ UNCHANGED <<matching, next, vtables>>

CheckPasses(t) ==
  /\ Goto(t, "check", "vtables")
  /\ Here(t) \in matching
  /\ next' = [next EXCEPT ![t] = 1]
  /\ UNCHANGED <<matching, flag, stack, vtables, thrown>>

\* Variant: an imported interface is left to its namespace's initialization,
\* which is waited for.
RegisterThroughHome(t) ==
  LET v == InitFns(Here(t))[next[t]] IN
  /\ pc[t] = "vtables" /\ next[t] <= Len(InitFns(Here(t)))
  /\ IF Home[v] = Here(t) \/ flag[Home[v]] = "set"
       THEN /\ vtables' = vtables \cup {v}
            /\ next' = [next EXCEPT ![t] = @ + 1]
       ELSE UNCHANGED <<vtables, next>>
  /\ UNCHANGED <<matching, flag, pc, stack, thrown>>

\* init of one interface hands its vtable to Rust.
Register(t) ==
  LET v == InitFns(Here(t))[next[t]] IN
  /\ pc[t] = "vtables" /\ next[t] <= Len(InitFns(Here(t)))
  /\ vtables' = vtables \cup {v}
  /\ next' = [next EXCEPT ![t] = @ + 1]
  /\ UNCHANGED <<matching, flag, pc, stack, thrown>>

OnceEnds(t) ==
  /\ pc[t] = "vtables" /\ next[t] > Len(InitFns(Here(t)))
  /\ flag' = [flag EXCEPT ![Here(t)] = "set"]
  /\ pc' = [pc EXCEPT ![t] = Body(t)]
  /\ next' = [next EXCEPT ![t] = 0]
  /\ UNCHANGED <<matching, stack, vtables, thrown>>

\* The Rust function, or the C++ method, returns.
Return(t) ==
  /\ stack[t] # <<>> /\ pc[t] = Body(t)
  /\ pc' = [pc EXCEPT ![t] = Top(t).by]
  /\ stack' = [stack EXCEPT ![t] = Below(t)]
  /\ UNCHANGED <<matching, flag, next, vtables, thrown>>
-----------------------------------------------------------------------------
InitStep(t) ==
  OnceDone(t) \/ OnceRun(t) \/ CheckFails(t) \/ CheckPasses(t) \/ Register(t) \/ OnceEnds(t)

Next ==
  \E t \in Threads :
    \/ InitStep(t)
    \/ \E n \in Namespaces : RustCall(t, n)
    \/ \E v \in VTables : CallBack(t, v)
    \/ Return(t)

Spec == Init /\ [][Next]_vars

\* A thread in initialize() keeps running.  Nothing is assumed about which of
\* the waiters call_once lets in after an attempt that threw.
FairSpec == Spec /\ \A t \in Threads : WF_vars(InitStep(t))
-----------------------------------------------------------------------------
\* Types of the variables.
TypeOK ==
  /\ matching \in Libraries
  /\ flag \in [Namespaces -> {"unset", "set"} \cup Threads]
  /\ pc \in [Threads -> {"cpp", "rust", "once", "check", "vtables"}]
  /\ next \in [Threads -> Nat]
  /\ stack \in [Threads -> Seq([ns : Namespaces, by : {"cpp", "rust"}])]
  /\ vtables \subseteq VTables
  /\ thrown \in [Threads -> {"no", "cpp", "rust"}]

\* A Rust function runs only for bindings that match the library, and finds
\* the vtable of every interface that its namespace could call back through,
\* imported ones included (gen_cpp/mod.rs 351-353).
RustRunsOnlyInitialized ==
  \A t \in Threads : pc[t] = "rust" /\ stack[t] # <<>> /\ Top(t).by = "cpp" =>
    /\ Here(t) \in matching
    /\ Usable(Here(t)) \subseteq vtables

\* If the bindings of all namespaces were generated from one library, so that
\* all of them match the one that is loaded or none does, initialize() never
\* throws in a method that Rust called: it stands outside the try of
\* rust_call_trait_interface, so the exception would go through Rust's frames.
NoThrowIntoRust ==
  matching \in {{}, Namespaces} => \A t \in Threads : thrown[t] # "rust"

\* The thread that is in call_once is the one that the flag names.
OnceInv ==
  /\ \A t \in Threads :
       /\ pc[t] \in {"check", "vtables"} => stack[t] # <<>> /\ flag[Here(t)] = t
       /\ pc[t] \in {"once", "rust"} => stack[t] # <<>>
  /\ \A n \in Namespaces, t \in Threads :
       flag[n] = t => pc[t] \in {"check", "vtables"} /\ stack[t] # <<>> /\ Here(t) = n

\* What initialize() has done once the flag is set, and on the way there.
ReadyInv ==
  /\ \A n \in Namespaces :
       flag[n] = "set" =>
         n \in matching /\ \A i \in 1..Len(InitFns(n)) : InitFns(n)[i] \in vtables
  /\ \A t \in Threads :
       pc[t] = "vtables" =>
         /\ Here(t) \in matching
         /\ next[t] \in Nat \ {0}
         /\ \A i \in 1..Len(InitFns(Here(t))) : i < next[t] => InitFns(Here(t))[i] \in vtables

\* Every call but one that is in initialize() has got through it, and a
\* method that Rust called stands on a call into Rust.
StackInv ==
  \A t \in Threads : \A i \in 1..Len(stack[t]) :
    /\ i < Len(stack[t]) \/ pc[t] \in {"cpp", "rust"} => flag[stack[t][i].ns] = "set"
    /\ stack[t][i].by = "rust" => i > 1

IInv == TypeOK /\ OnceInv /\ ReadyInv /\ StackInv /\ NoThrowIntoRust

\* Every thread that enters initialize() of bindings that match the library
\* gets out of it: no thread waits forever for another, even when two
\* namespaces use each other's interfaces.
InitializeEnds ==
  \A t \in Threads :
    (pc[t] = "once" /\ Here(t) \in matching) ~> pc[t] \in {"cpp", "rust"}
=============================================================================
