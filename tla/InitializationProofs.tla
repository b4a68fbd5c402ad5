------------------------- MODULE InitializationProofs -------------------------
(***************************************************************************)
(* Proofs about Initialization, for any threads, namespaces and imports:   *)
(* IInv is an inductive invariant; it says that a call gets into Rust only *)
(* behind a finished initialization, and that no failed one is under a     *)
(* call that came from Rust unless libraries are mixed.                    *)
(***************************************************************************)
EXTENDS Initialization, SequenceTheorems, TLAPS

Frame == [ns : Namespaces, by : {"cpp", "rust"}]

\* The initialization functions of a namespace are interfaces.
LEMMA InitFnsType ==
  ASSUME NEW n \in Namespaces
  PROVE  InitFns(n) \in Seq(VTables) /\ Len(InitFns(n)) \in Nat
BY InitializationAssumption DEF InitFns

\* The innermost call of a thread that is in one.
LEMMA TopType ==
  ASSUME TypeOK, NEW t \in Threads, stack[t] # <<>>
  PROVE  /\ Len(stack[t]) \in Nat \ {0}
         /\ Len(stack[t]) \in 1..Len(stack[t])
         /\ Top(t) \in Frame
         /\ Here(t) \in Namespaces
         /\ Top(t).by \in {"cpp", "rust"}
<1>1. stack[t] \in Seq(Frame)
  BY DEF TypeOK, Frame
<1>2. /\ Len(stack[t]) \in Nat \ {0}
      /\ Len(stack[t]) \in 1..Len(stack[t])
      /\ stack[t][Len(stack[t])] \in Frame
  BY <1>1
<1> QED BY <1>2 DEF Top, Here, Frame

\* Entering a call.
LEMMA Push ==
  ASSUME TypeOK, NEW t \in Threads, NEW e \in Frame,
         stack' = [stack EXCEPT ![t] = Append(@, e)]
  PROVE  /\ stack' \in [Threads -> Seq(Frame)]
         /\ stack'[t] # <<>>
         /\ Len(stack[t]) \in Nat
         /\ Len(stack'[t]) = Len(stack[t]) + 1
         /\ \A i \in 1..Len(stack[t]) : stack'[t][i] = stack[t][i]
         /\ stack'[t][Len(stack[t]) + 1] = e
         /\ \A u \in Threads \ {t} : stack'[u] = stack[u]
<1>1. stack \in [Threads -> Seq(Frame)]
  BY DEF TypeOK, Frame
<1>2. stack'[t] = Append(stack[t], e) /\ \A u \in Threads \ {t} : stack'[u] = stack[u]
  BY <1>1
<1>3. stack[t] \in Seq(Frame) /\ Append(stack[t], e) \in Seq(Frame)
  BY <1>1
<1>4. stack' \in [Threads -> Seq(Frame)]
  BY <1>1, <1>3
<1>5. /\ Len(stack[t]) \in Nat
      /\ Len(Append(stack[t], e)) = Len(stack[t]) + 1
      /\ \A i \in 1..Len(stack[t]) : Append(stack[t], e)[i] = stack[t][i]
      /\ Append(stack[t], e)[Len(stack[t]) + 1] = e
      /\ Append(stack[t], e) # <<>>
  BY <1>3
<1> QED BY <1>2, <1>4, <1>5

\* Leaving a call.
LEMMA Pop ==
  ASSUME TypeOK, NEW t \in Threads, stack[t] # <<>>,
         stack' = [stack EXCEPT ![t] = Below(t)]
  PROVE  /\ stack' \in [Threads -> Seq(Frame)]
         /\ Len(stack[t]) \in Nat \ {0}
         /\ Len(stack'[t]) = Len(stack[t]) - 1
         /\ \A i \in 1..(Len(stack[t]) - 1) : stack'[t][i] = stack[t][i]
         /\ \A u \in Threads \ {t} : stack'[u] = stack[u]
<1>1. stack \in [Threads -> Seq(Frame)]
  BY DEF TypeOK, Frame
<1>2. stack'[t] = Below(t) /\ \A u \in Threads \ {t} : stack'[u] = stack[u]
  BY <1>1
<1>3. Len(stack[t]) \in Nat \ {0}
  BY TopType
<1>4. /\ Below(t) \in Seq(Frame)
      /\ Len(Below(t)) = Len(stack[t]) - 1
      /\ \A i \in 1..(Len(stack[t]) - 1) : Below(t)[i] = stack[t][i]
  <2>1. stack[t] \in Seq(Frame)
    BY <1>1
  <2> QED BY <1>3, <2>1 DEF Below
<1>5. stack' \in [Threads -> Seq(Frame)]
  BY <1>1, <1>4
<1> QED BY <1>2, <1>3, <1>4, <1>5
-----------------------------------------------------------------------------
LEMMA InitEstablishes == Init => IInv
<1> SUFFICES ASSUME Init PROVE IInv
  OBVIOUS
<1> USE InitializationAssumption DEF Init
<1>1. TypeOK
  <2>1. <<>> \in Seq([ns : Namespaces, by : {"cpp", "rust"}])
    OBVIOUS
  <2> QED BY <2>1 DEF TypeOK
<1>2. OnceInv
  BY DEF OnceInv
<1>3. ReadyInv
  BY DEF ReadyInv
<1>4. StackInv
  BY DEF StackInv
<1>5. NoThrowIntoRust
  BY DEF NoThrowIntoRust
<1> QED BY <1>1, <1>2, <1>3, <1>4, <1>5 DEF IInv

\* A call begins, from C++ or from Rust: it stands on calls that are through.
Enters(t, e) ==
  /\ pc[t] \in {"cpp", "rust"}
  /\ e.by = "rust" => stack[t] # <<>>
  /\ pc' = [pc EXCEPT ![t] = "once"]
  /\ stack' = [stack EXCEPT ![t] = Append(@, e)]
  /\ thrown' \in {thrown, [thrown EXCEPT ![t] = "no"]}
  /\ UNCHANGED <<matching, flag, next, vtables>>

LEMMA EntersPreserves ==
  ASSUME IInv, NEW t \in Threads, NEW e \in Frame, Enters(t, e)
  PROVE  IInv'
<1>i. TypeOK /\ OnceInv /\ ReadyInv /\ StackInv /\ NoThrowIntoRust
  BY DEF IInv
<1>s. /\ stack' \in [Threads -> Seq(Frame)]
      /\ Len(stack[t]) \in Nat
      /\ Len(stack'[t]) = Len(stack[t]) + 1
      /\ \A i \in 1..Len(stack[t]) : stack'[t][i] = stack[t][i]
      /\ stack'[t][Len(stack[t]) + 1] = e
  BY <1>i, Push DEF Enters
<1>n. stack'[t] # <<>> /\ \A u \in Threads \ {t} : stack'[u] = stack[u]
  BY <1>i, Push DEF Enters
<1>c. pc'[t] = "once" /\ \A u \in Threads \ {t} : pc'[u] = pc[u]
  BY <1>i DEF TypeOK, Enters
<1>f. pc[t] \in {"cpp", "rust"} /\ UNCHANGED <<matching, flag, next, vtables>>
  BY DEF Enters
<1>h. \A u \in Threads \ {t} : stack'[u][Len(stack'[u])].ns = stack[u][Len(stack[u])].ns
  BY <1>n
<1>1. TypeOK'
  <2>1. stack' \in [Threads -> Seq([ns : Namespaces, by : {"cpp", "rust"}])]
    BY <1>s DEF Frame
  <2>2. pc' \in [Threads -> {"cpp", "rust", "once", "check", "vtables"}]
    BY <1>i DEF TypeOK, Enters
  <2>3. thrown' \in [Threads -> {"no", "cpp", "rust"}]
    BY <1>i DEF TypeOK, Enters
  <2> QED BY <1>i, <1>f, <2>1, <2>2, <2>3 DEF TypeOK
<1>2. OnceInv'
  BY <1>i, <1>n, <1>c, <1>f, <1>h DEF OnceInv, Here, Top
<1>3. ReadyInv'
  <2>1. \A u \in Threads : pc'[u] = "vtables" => u # t /\ pc[u] = "vtables"
    BY <1>c
  <2>2. \A u \in Threads \ {t} : Here(u)' = Here(u)
    BY <1>h DEF Here, Top
  <2> QED BY <1>i, <1>f, <2>1, <2>2 DEF ReadyInv
<1>4. StackInv'
  <2> SUFFICES ASSUME NEW u \in Threads, NEW i \in 1..Len(stack'[u])
               PROVE  /\ i < Len(stack'[u]) \/ pc'[u] \in {"cpp", "rust"} =>
                           flag'[stack'[u][i].ns] = "set"
                      /\ stack'[u][i].by = "rust" => i > 1
    BY DEF StackInv
  <2>1. CASE u # t
    BY <1>i, <1>n, <1>c, <1>f, <2>1 DEF StackInv
  <2>2. CASE u = t /\ i <= Len(stack[t])
    BY <1>i, <1>s, <1>c, <1>f, <2>2 DEF StackInv
  <2>3. CASE u = t /\ i = Len(stack[t]) + 1
    <3>1. stack[t] # <<>> => Len(stack[t]) > 0
      BY <1>i, TopType
    <3> QED BY <1>s, <1>c, <2>3, <3>1 DEF Enters
  <2> QED BY <1>s, <2>1, <2>2, <2>3
<1>5. NoThrowIntoRust'
  <2>1. \A u \in Threads : thrown'[u] \in {thrown[u], "no"}
    BY <1>i DEF TypeOK, Enters
  <2> QED BY <1>i, <1>f, <2>1 DEF NoThrowIntoRust
<1> QED BY <1>1, <1>2, <1>3, <1>4, <1>5 DEF IInv

LEMMA RustCallPreserves ==
  ASSUME IInv, NEW t \in Threads, NEW n \in Namespaces, RustCall(t, n)
  PROVE  IInv'
<1>1. [ns |-> n, by |-> "cpp"] \in Frame
  BY DEF Frame
<1>2. Enters(t, [ns |-> n, by |-> "cpp"])
  BY DEF RustCall, Goto, Enters
<1> QED BY <1>1, <1>2, EntersPreserves

LEMMA CallBackPreserves ==
  ASSUME IInv, NEW t \in Threads, NEW v \in VTables, CallBack(t, v)
  PROVE  IInv'
<1>1. [ns |-> Home[v], by |-> "rust"] \in Frame
  BY InitializationAssumption DEF Frame
<1>2. stack[t] # <<>>
  BY DEF CallBack, Goto, IInv, OnceInv
<1>3. Enters(t, [ns |-> Home[v], by |-> "rust"])
  BY <1>2 DEF CallBack, Goto, Enters
<1> QED BY <1>1, <1>3, EntersPreserves

\* A thread that is inside initialize() is in a call.
LEMMA InCall ==
  ASSUME TypeOK, OnceInv, NEW t \in Threads, pc[t] \in {"once", "check", "vtables", "rust"}
  PROVE  /\ stack[t] # <<>>
         /\ Here(t) \in Namespaces
         /\ Body(t) \in {"cpp", "rust"}
         /\ Top(t).by \in {"cpp", "rust"}
<1>1. stack[t] # <<>>
  BY DEF OnceInv
<1> QED BY <1>1, TopType DEF Body

\* The stack's invariant when no call begins or ends and no flag is unset.
LEMMA SameStack ==
  ASSUME StackInv, UNCHANGED stack,
         \A n \in Namespaces : flag[n] = "set" => flag'[n] = "set",
         TypeOK,
         \A t \in Threads : pc'[t] \in {"cpp", "rust"} =>
           pc[t] \in {"cpp", "rust"} \/ (stack[t] # <<>> => flag'[Here(t)] = "set")
  PROVE  StackInv'
<1> SUFFICES ASSUME NEW t \in Threads, NEW i \in 1..Len(stack[t])
             PROVE  /\ i < Len(stack[t]) \/ pc'[t] \in {"cpp", "rust"} =>
                         flag'[stack[t][i].ns] = "set"
                    /\ stack[t][i].by = "rust" => i > 1
  BY DEF StackInv
<1>1. stack[t][i].by = "rust" => i > 1
  BY DEF StackInv
<1>2. stack[t][i].ns \in Namespaces
  <2>1. stack[t] \in Seq(Frame)
    BY DEF TypeOK, Frame
  <2>2. stack[t][i] \in Frame
    BY <2>1
  <2> QED BY <2>2 DEF Frame
<1>3. CASE i < Len(stack[t]) \/ pc[t] \in {"cpp", "rust"}
  BY <1>1, <1>2, <1>3 DEF StackInv
<1>4. CASE i >= Len(stack[t]) /\ pc'[t] \in {"cpp", "rust"} /\ pc[t] \notin {"cpp", "rust"}
  <2>1. stack[t] \in Seq(Frame)
    BY DEF TypeOK, Frame
  <2>2. stack[t] # <<>> /\ i = Len(stack[t])
    BY <2>1, <1>4
  <2> QED BY <1>1, <1>4, <2>2 DEF Here, Top
<1>5. Len(stack[t]) \in Nat
  <2>1. stack[t] \in Seq(Frame)
    BY DEF TypeOK, Frame
  <2> QED BY <2>1
<1> QED BY <1>1, <1>3, <1>4, <1>5

LEMMA OnceDonePreserves ==
  ASSUME IInv, NEW t \in Threads, OnceDone(t)
  PROVE  IInv'
<1>i. TypeOK /\ OnceInv /\ ReadyInv /\ StackInv /\ NoThrowIntoRust
  BY DEF IInv
<1>f. pc[t] = "once" /\ flag[Here(t)] = "set"
      /\ UNCHANGED <<matching, flag, next, stack, vtables, thrown>>
  BY DEF OnceDone
<1>b. stack[t] # <<>> /\ Here(t) \in Namespaces /\ Body(t) \in {"cpp", "rust"}
  BY <1>i, <1>f, InCall
<1>c. pc'[t] = Body(t) /\ \A u \in Threads \ {t} : pc'[u] = pc[u]
  BY <1>i DEF TypeOK, OnceDone
<1>h. \A u \in Threads : Here(u)' = Here(u)
  BY <1>f DEF Here, Top
<1>1. TypeOK'
  <2>1. pc' \in [Threads -> {"cpp", "rust", "once", "check", "vtables"}]
    BY <1>i, <1>b DEF TypeOK, OnceDone
  <2> QED BY <1>i, <1>f, <2>1 DEF TypeOK
<1>2. OnceInv'
  BY <1>i, <1>f, <1>b, <1>c, <1>h DEF OnceInv
<1>3. ReadyInv'
  BY <1>i, <1>f, <1>b, <1>c, <1>h DEF ReadyInv
<1>4. StackInv'
  BY <1>i, <1>f, <1>c, SameStack
<1>5. NoThrowIntoRust'
  BY <1>i, <1>f DEF NoThrowIntoRust
<1> QED BY <1>1, <1>2, <1>3, <1>4, <1>5 DEF IInv

LEMMA OnceRunPreserves ==
  ASSUME IInv, NEW t \in Threads, OnceRun(t)
  PROVE  IInv'
<1>i. TypeOK /\ OnceInv /\ ReadyInv /\ StackInv /\ NoThrowIntoRust
  BY DEF IInv
<1>f. pc[t] = "once" /\ flag[Here(t)] = "unset"
      /\ UNCHANGED <<matching, next, stack, vtables, thrown>>
  BY DEF OnceRun, Goto
<1>b. stack[t] # <<>> /\ Here(t) \in Namespaces
  BY <1>i, <1>f, InCall
<1>c. pc'[t] = "check" /\ \A u \in Threads \ {t} : pc'[u] = pc[u]
  BY <1>i DEF TypeOK, OnceRun, Goto
<1>g. flag'[Here(t)] = t /\ \A n \in Namespaces \ {Here(t)} : flag'[n] = flag[n]
  BY <1>i, <1>b DEF TypeOK, OnceRun
<1>t. t \notin {"set", "unset"}
  BY InitializationAssumption
<1>h. \A u \in Threads : Here(u)' = Here(u)
  BY <1>f DEF Here, Top
<1>1. TypeOK'
  <2>1. pc' \in [Threads -> {"cpp", "rust", "once", "check", "vtables"}]
    BY <1>i DEF TypeOK, OnceRun, Goto
  <2>2. flag' \in [Namespaces -> {"unset", "set"} \cup Threads]
    BY <1>i DEF TypeOK, OnceRun
  <2> QED BY <1>i, <1>f, <2>1, <2>2 DEF TypeOK
<1>2. OnceInv'
  <2>1. ASSUME NEW u \in Threads
        PROVE  /\ pc'[u] \in {"check", "vtables"} => stack'[u] # <<>> /\ flag'[Here(u)'] = u
               /\ pc'[u] \in {"once", "rust"} => stack'[u] # <<>>
    <3>1. CASE u = t
      BY <1>f, <1>b, <1>c, <1>g, <1>h, <3>1
    <3>2. CASE u # t
      <4>1. pc[u] \in {"check", "vtables"} => Here(u) \in Namespaces /\ flag[Here(u)] = u
        BY <1>i, InCall DEF OnceInv
      <4>2. u # "unset"
        BY InitializationAssumption
      <4> QED BY <1>i, <1>f, <1>c, <1>g, <1>h, <3>2, <4>1, <4>2 DEF OnceInv
    <3> QED BY <3>1, <3>2
  <2>2. ASSUME NEW n \in Namespaces, NEW u \in Threads, flag'[n] = u
        PROVE  pc'[u] \in {"check", "vtables"} /\ stack'[u] # <<>> /\ Here(u)' = n
    <3>1. CASE n = Here(t)
      BY <1>f, <1>b, <1>c, <1>g, <1>h, <2>2, <3>1
    <3>2. CASE n # Here(t)
      <4>1. flag[n] = u
        BY <1>g, <2>2, <3>2
      <4>2. u # t
        BY <1>i, <1>f, <4>1 DEF OnceInv
      <4> QED BY <1>i, <1>f, <1>c, <1>h, <4>1, <4>2 DEF OnceInv
    <3> QED BY <3>1, <3>2
  <2> QED BY <2>1, <2>2 DEF OnceInv, Here, Top
<1>3. ReadyInv'
  <2>1. \A n \in Namespaces : flag'[n] = "set" => flag[n] = "set"
    BY <1>g, <1>t
  <2>2. \A u \in Threads : pc'[u] = "vtables" => pc[u] = "vtables"
    BY <1>c
  <2> QED BY <1>i, <1>f, <1>h, <2>1, <2>2 DEF ReadyInv
<1>4. StackInv'
  BY <1>i, <1>f, <1>b, <1>c, <1>g, SameStack
<1>5. NoThrowIntoRust'
  BY <1>i, <1>f DEF NoThrowIntoRust
<1> QED BY <1>1, <1>2, <1>3, <1>4, <1>5 DEF IInv

LEMMA CheckPassesPreserves ==
  ASSUME IInv, NEW t \in Threads, CheckPasses(t)
  PROVE  IInv'
<1>i. TypeOK /\ OnceInv /\ ReadyInv /\ StackInv /\ NoThrowIntoRust
  BY DEF IInv
<1>f. pc[t] = "check" /\ Here(t) \in matching
      /\ UNCHANGED <<matching, flag, stack, vtables, thrown>>
  BY DEF CheckPasses, Goto
<1>c. pc'[t] = "vtables" /\ \A u \in Threads \ {t} : pc'[u] = pc[u]
  BY <1>i DEF TypeOK, CheckPasses, Goto
<1>n. next'[t] = 1 /\ \A u \in Threads \ {t} : next'[u] = next[u]
  BY <1>i DEF TypeOK, CheckPasses
<1>h. \A u \in Threads : Here(u)' = Here(u)
  BY <1>f DEF Here, Top
<1>1. TypeOK'
  <2>1. pc' \in [Threads -> {"cpp", "rust", "once", "check", "vtables"}]
    BY <1>i DEF TypeOK, CheckPasses, Goto
  <2>2. next' \in [Threads -> Nat]
    BY <1>i DEF TypeOK, CheckPasses
  <2> QED BY <1>i, <1>f, <2>1, <2>2 DEF TypeOK
<1>2. OnceInv'
  BY <1>i, <1>f, <1>c, <1>h DEF OnceInv
<1>3. ReadyInv'
  <2>1. \A n \in Namespaces : flag'[n] = "set" =>
          n \in matching' /\ \A i \in 1..Len(InitFns(n)) : InitFns(n)[i] \in vtables'
    BY <1>i, <1>f DEF ReadyInv
  <2>2. ASSUME NEW u \in Threads, pc'[u] = "vtables"
        PROVE  /\ Here(u) \in matching
               /\ next'[u] \in Nat \ {0}
               /\ \A i \in 1..Len(InitFns(Here(u))) :
                    i < next'[u] => InitFns(Here(u))[i] \in vtables
    <3>1. CASE u = t
      BY <1>f, <1>n, <3>1
    <3>2. CASE u # t
      BY <1>i, <1>c, <1>n, <2>2, <3>2 DEF ReadyInv
    <3> QED BY <3>1, <3>2
  <2> QED BY <1>f, <1>h, <2>1, <2>2 DEF ReadyInv
<1>4. StackInv'
  BY <1>i, <1>f, <1>c, SameStack
<1>5. NoThrowIntoRust'
  BY <1>i, <1>f DEF NoThrowIntoRust
<1> QED BY <1>1, <1>2, <1>3, <1>4, <1>5 DEF IInv

LEMMA RegisterPreserves ==
  ASSUME IInv, NEW t \in Threads, Register(t)
  PROVE  IInv'
<1>i. TypeOK /\ OnceInv /\ ReadyInv /\ StackInv /\ NoThrowIntoRust
  BY DEF IInv
<1>f. /\ pc[t] = "vtables" /\ next[t] <= Len(InitFns(Here(t)))
      /\ vtables' = vtables \cup {InitFns(Here(t))[next[t]]}
      /\ UNCHANGED <<matching, flag, pc, stack, thrown>>
  BY DEF Register
<1>b. Here(t) \in Namespaces
  BY <1>i, <1>f, InCall
<1>r. Here(t) \in matching /\ next[t] \in Nat \ {0}
  BY <1>i, <1>f DEF ReadyInv
<1>n. next'[t] = next[t] + 1 /\ \A u \in Threads \ {t} : next'[u] = next[u]
  BY <1>i DEF TypeOK, Register
<1>h. \A u \in Threads : Here(u)' = Here(u)
  BY <1>f DEF Here, Top
<1>v. InitFns(Here(t))[next[t]] \in VTables
  <2>1. InitFns(Here(t)) \in Seq(VTables)
    BY <1>b, InitFnsType
  <2> QED BY <1>f, <1>r, <2>1
<1>1. TypeOK'
  <2>1. next' \in [Threads -> Nat]
    <3>1. next \in [Threads -> Nat] /\ next[t] + 1 \in Nat
      BY <1>i, <1>r DEF TypeOK
    <3> QED BY <3>1 DEF Register
  <2> QED BY <1>i, <1>f, <1>v, <2>1 DEF TypeOK
<1>2. OnceInv'
  BY <1>i, <1>f, <1>h DEF OnceInv
<1>3. ReadyInv'
  <2>1. \A n \in Namespaces : flag'[n] = "set" =>
          n \in matching' /\ \A i \in 1..Len(InitFns(n)) : InitFns(n)[i] \in vtables'
    BY <1>i, <1>f DEF ReadyInv
  <2>2. ASSUME NEW u \in Threads, pc'[u] = "vtables"
        PROVE  /\ Here(u) \in matching
               /\ next'[u] \in Nat \ {0}
               /\ \A i \in 1..Len(InitFns(Here(u))) :
                    i < next'[u] => InitFns(Here(u))[i] \in vtables'
    <3>1. CASE u = t
      <4> SUFFICES ASSUME NEW i \in 1..Len(InitFns(Here(t))), i < next[t] + 1
                   PROVE  InitFns(Here(t))[i] \in vtables'
        BY <1>n, <1>r, <3>1
      <4>1. CASE i = next[t]
        BY <1>f, <4>1
      <4>2. CASE i < next[t]
        BY <1>i, <1>f, <4>2 DEF ReadyInv
      <4> QED BY <1>r, <4>1, <4>2
    <3>2. CASE u # t
      BY <1>i, <1>f, <1>n, <2>2, <3>2 DEF ReadyInv
    <3> QED BY <3>1, <3>2
  <2> QED BY <1>f, <1>h, <2>1, <2>2 DEF ReadyInv
<1>4. StackInv'
  BY <1>i, <1>f, SameStack
<1>5. NoThrowIntoRust'
  BY <1>i, <1>f DEF NoThrowIntoRust
<1> QED BY <1>1, <1>2, <1>3, <1>4, <1>5 DEF IInv

LEMMA OnceEndsPreserves ==
  ASSUME IInv, NEW t \in Threads, OnceEnds(t)
  PROVE  IInv'
<1>i. TypeOK /\ OnceInv /\ ReadyInv /\ StackInv /\ NoThrowIntoRust
  BY DEF IInv
<1>f. pc[t] = "vtables" /\ next[t] > Len(InitFns(Here(t)))
      /\ UNCHANGED <<matching, stack, vtables, thrown>>
  BY DEF OnceEnds
<1>b. stack[t] # <<>> /\ Here(t) \in Namespaces /\ Body(t) \in {"cpp", "rust"}
  BY <1>i, <1>f, InCall
<1>c. pc'[t] = Body(t) /\ \A u \in Threads \ {t} : pc'[u] = pc[u]
  BY <1>i DEF TypeOK, OnceEnds
<1>n. \A u \in Threads \ {t} : next'[u] = next[u]
  BY <1>i DEF TypeOK, OnceEnds
<1>g. flag'[Here(t)] = "set" /\ \A n \in Namespaces \ {Here(t)} : flag'[n] = flag[n]
  BY <1>i, <1>b DEF TypeOK, OnceEnds
<1>t. \A u \in Threads : u # "set"
  BY InitializationAssumption
<1>o. flag[Here(t)] = t
  BY <1>i, <1>f DEF OnceInv
<1>h. \A u \in Threads : Here(u)' = Here(u)
  BY <1>f DEF Here, Top
<1>1. TypeOK'
  <2>1. pc' \in [Threads -> {"cpp", "rust", "once", "check", "vtables"}]
    BY <1>i, <1>b DEF TypeOK, OnceEnds
  <2>2. flag' \in [Namespaces -> {"unset", "set"} \cup Threads]
    BY <1>i DEF TypeOK, OnceEnds
  <2>3. next' \in [Threads -> Nat]
    BY <1>i DEF TypeOK, OnceEnds
  <2> QED BY <1>i, <1>f, <2>1, <2>2, <2>3 DEF TypeOK
<1>2. OnceInv'
  <2>1. ASSUME NEW u \in Threads
        PROVE  /\ pc'[u] \in {"check", "vtables"} => stack'[u] # <<>> /\ flag'[Here(u)'] = u
               /\ pc'[u] \in {"once", "rust"} => stack'[u] # <<>>
    <3>1. CASE u = t
      BY <1>f, <1>b, <1>c, <3>1
    <3>2. CASE u # t
      <4>1. pc[u] \in {"check", "vtables"} => Here(u) \in Namespaces /\ flag[Here(u)] = u
        BY <1>i, InCall DEF OnceInv
      <4> QED BY <1>i, <1>f, <1>o, <1>c, <1>g, <1>h, <3>2, <4>1 DEF OnceInv
    <3> QED BY <3>1, <3>2
  <2>2. ASSUME NEW n \in Namespaces, NEW u \in Threads, flag'[n] = u
        PROVE  pc'[u] \in {"check", "vtables"} /\ stack'[u] # <<>> /\ Here(u)' = n
    <3>1. n # Here(t)
      BY <1>g, <1>t, <2>2
    <3>2. flag[n] = u
      BY <1>g, <2>2, <3>1
    <3>3. u # t
      BY <1>i, <3>1, <3>2 DEF OnceInv
    <3> QED BY <1>i, <1>f, <1>c, <1>h, <3>2, <3>3 DEF OnceInv
  <2> QED BY <2>1, <2>2 DEF OnceInv, Here, Top
<1>3. ReadyInv'
  <2>1. ASSUME NEW n \in Namespaces, flag'[n] = "set"
        PROVE  n \in matching /\ \A i \in 1..Len(InitFns(n)) : InitFns(n)[i] \in vtables
    <3>1. CASE n = Here(t)
      <4>1. Len(InitFns(n)) \in Nat /\ next[t] \in Nat
        BY <1>i, InitFnsType DEF TypeOK
      <4>2. \A i \in 1..Len(InitFns(n)) : i < next[t]
        BY <1>f, <3>1, <4>1
      <4> QED BY <1>i, <1>f, <3>1, <4>2 DEF ReadyInv
    <3>2. CASE n # Here(t)
      BY <1>i, <1>g, <2>1, <3>2 DEF ReadyInv
    <3> QED BY <3>1, <3>2
  <2>2. \A u \in Threads : pc'[u] = "vtables" => pc[u] = "vtables" /\ u # t
    BY <1>b, <1>c
  <2> QED BY <1>i, <1>f, <1>n, <1>h, <2>1, <2>2 DEF ReadyInv
<1>4. StackInv'
  BY <1>i, <1>f, <1>c, <1>g, SameStack
<1>5. NoThrowIntoRust'
  BY <1>i, <1>f DEF NoThrowIntoRust
<1> QED BY <1>1, <1>2, <1>3, <1>4, <1>5 DEF IInv

\* A thread's program counter after its innermost call: what lies below is
\* through its own initialization.
LEMMA PopStack ==
  ASSUME IInv, NEW t \in Threads, stack[t] # <<>>,
         stack' = [stack EXCEPT ![t] = Below(t)],
         pc' = [pc EXCEPT ![t] = Top(t).by],
         \A n \in Namespaces : flag[n] = "set" => flag'[n] = "set"
  PROVE  /\ StackInv'
         /\ pc'[t] = "rust" => stack'[t] # <<>>
<1>i. TypeOK /\ StackInv
  BY DEF IInv
<1>p. /\ Len(stack[t]) \in Nat \ {0}
      /\ Len(stack'[t]) = Len(stack[t]) - 1
      /\ \A i \in 1..(Len(stack[t]) - 1) : stack'[t][i] = stack[t][i]
      /\ \A u \in Threads \ {t} : stack'[u] = stack[u]
  BY <1>i, Pop
<1>c. pc'[t] = Top(t).by /\ \A u \in Threads \ {t} : pc'[u] = pc[u]
  BY <1>i DEF TypeOK
<1>n. \A u \in Threads : \A i \in 1..Len(stack[u]) : stack[u][i].ns \in Namespaces
  <2> SUFFICES ASSUME NEW u \in Threads, NEW i \in 1..Len(stack[u])
               PROVE  stack[u][i].ns \in Namespaces
    OBVIOUS
  <2>1. stack[u] \in Seq(Frame)
    BY <1>i DEF TypeOK, Frame
  <2>2. stack[u][i] \in Frame
    BY <2>1
  <2> QED BY <2>2 DEF Frame
<1>1. StackInv'
  <2> SUFFICES ASSUME NEW u \in Threads, NEW i \in 1..Len(stack'[u])
               PROVE  /\ i < Len(stack'[u]) \/ pc'[u] \in {"cpp", "rust"} =>
                           flag'[stack'[u][i].ns] = "set"
                      /\ stack'[u][i].by = "rust" => i > 1
    BY DEF StackInv
  <2>1. CASE u # t
    BY <1>i, <1>p, <1>c, <1>n, <2>1 DEF StackInv
  <2>2. CASE u = t
    <3>1. i \in 1..Len(stack[t]) /\ i < Len(stack[t]) /\ stack'[t][i] = stack[t][i]
      BY <1>p, <2>2
    <3> QED BY <1>i, <1>n, <2>2, <3>1 DEF StackInv
  <2> QED BY <2>1, <2>2
<1>2. pc'[t] = "rust" => stack'[t] # <<>>
  <2> SUFFICES ASSUME Top(t).by = "rust"
               PROVE  stack'[t] # <<>>
    BY <1>c
  <2>1. Len(stack[t]) > 1
    BY <1>i, <1>p DEF StackInv, Top
  <2> QED BY <1>p, <2>1
<1> QED BY <1>1, <1>2

LEMMA CheckFailsPreserves ==
  ASSUME IInv, NEW t \in Threads, CheckFails(t)
  PROVE  IInv'
<1>i. TypeOK /\ OnceInv /\ ReadyInv /\ StackInv /\ NoThrowIntoRust
  BY DEF IInv
<1>f. pc[t] = "check" /\ Here(t) \notin matching /\ UNCHANGED <<matching, next, vtables>>
  BY DEF CheckFails
<1>b. /\ stack[t] # <<>> /\ Here(t) \in Namespaces
      /\ Top(t).by \in {"cpp", "rust"}
  BY <1>i, <1>f, InCall
<1>c. pc'[t] = Top(t).by /\ \A u \in Threads \ {t} : pc'[u] = pc[u]
  BY <1>i DEF TypeOK, CheckFails
<1>g. flag'[Here(t)] = "unset" /\ \A n \in Namespaces \ {Here(t)} : flag'[n] = flag[n]
  BY <1>i, <1>b DEF TypeOK, CheckFails
<1>w. thrown'[t] = Top(t).by /\ \A u \in Threads \ {t} : thrown'[u] = thrown[u]
  BY <1>i DEF TypeOK, CheckFails
<1>t. \A u \in Threads : u \notin {"set", "unset"}
  BY InitializationAssumption
<1>o. flag[Here(t)] = t
  BY <1>i, <1>f DEF OnceInv
<1>s. /\ stack' \in [Threads -> Seq(Frame)]
      /\ \A u \in Threads \ {t} : stack'[u] = stack[u]
  BY <1>i, <1>b, Pop DEF CheckFails
<1>h. \A u \in Threads \ {t} : Here(u)' = Here(u)
  BY <1>s DEF Here, Top
<1>r. StackInv' /\ (pc'[t] = "rust" => stack'[t] # <<>>)
  <2>1. \A n \in Namespaces : flag[n] = "set" => flag'[n] = "set"
    BY <1>g, <1>o, <1>t
  <2> QED BY <1>b, <2>1, PopStack DEF CheckFails
<1>1. TypeOK'
  <2>1. pc' \in [Threads -> {"cpp", "rust", "once", "check", "vtables"}]
    BY <1>i, <1>b DEF TypeOK, CheckFails
  <2>2. flag' \in [Namespaces -> {"unset", "set"} \cup Threads]
    BY <1>i DEF TypeOK, CheckFails
  <2>3. thrown' \in [Threads -> {"no", "cpp", "rust"}]
    BY <1>i, <1>b DEF TypeOK, CheckFails
  <2> QED BY <1>i, <1>f, <1>s, <2>1, <2>2, <2>3 DEF TypeOK, Frame
<1>2. OnceInv'
  <2>1. ASSUME NEW u \in Threads
        PROVE  /\ pc'[u] \in {"check", "vtables"} => stack'[u] # <<>> /\ flag'[Here(u)'] = u
               /\ pc'[u] \in {"once", "rust"} => stack'[u] # <<>>
    <3>1. CASE u = t
      BY <1>b, <1>c, <1>r, <3>1
    <3>2. CASE u # t
      <4>1. pc[u] \in {"check", "vtables"} => Here(u) \in Namespaces /\ flag[Here(u)] = u
        BY <1>i, InCall DEF OnceInv
      <4> QED BY <1>i, <1>s, <1>o, <1>c, <1>g, <1>h, <3>2, <4>1 DEF OnceInv
    <3> QED BY <3>1, <3>2
  <2>2. ASSUME NEW n \in Namespaces, NEW u \in Threads, flag'[n] = u
        PROVE  pc'[u] \in {"check", "vtables"} /\ stack'[u] # <<>> /\ Here(u)' = n
    <3>1. n # Here(t)
      BY <1>g, <1>t, <2>2
    <3>2. flag[n] = u
      BY <1>g, <2>2, <3>1
    <3>3. u # t
      BY <1>i, <3>1, <3>2 DEF OnceInv
    <3> QED BY <1>i, <1>s, <1>c, <1>h, <3>2, <3>3 DEF OnceInv
  <2> QED BY <2>1, <2>2 DEF OnceInv, Here, Top
<1>3. ReadyInv'
  <2>1. \A n \in Namespaces : flag'[n] = "set" => flag[n] = "set"
    BY <1>g
  <2>2. \A u \in Threads : pc'[u] = "vtables" => pc[u] = "vtables" /\ u # t
    BY <1>b, <1>c
  <2> QED BY <1>i, <1>f, <1>h, <2>1, <2>2 DEF ReadyInv
<1>5. NoThrowIntoRust'
  <2> SUFFICES ASSUME matching \in {{}, Namespaces}, NEW u \in Threads, thrown'[u] = "rust"
               PROVE  FALSE
    BY <1>f DEF NoThrowIntoRust
  <2>1. u = t
    BY <1>i, <1>w DEF NoThrowIntoRust
  <2>2. matching = {}
    BY <1>f, <1>b
  <2>3. Len(stack[t]) \in 1..Len(stack[t]) /\ Len(stack[t]) \in Nat \ {0}
    BY <1>i, <1>b, TopType
  <2>4. Len(stack[t]) > 1
    BY <1>i, <1>w, <2>1, <2>3 DEF StackInv, Top
  <2>5. 1 \in 1..Len(stack[t]) /\ flag[stack[t][1].ns] = "set"
    BY <1>i, <2>3, <2>4 DEF StackInv
  <2>6. stack[t][1].ns \in Namespaces
    <3>1. stack[t] \in Seq(Frame)
      BY <1>i DEF TypeOK, Frame
    <3>2. stack[t][1] \in Frame
      BY <2>5, <3>1
    <3> QED BY <3>2 DEF Frame
  <2> QED BY <1>i, <2>2, <2>5, <2>6 DEF ReadyInv
<1> QED BY <1>1, <1>2, <1>3, <1>r, <1>5 DEF IInv

LEMMA ReturnPreserves ==
  ASSUME IInv, NEW t \in Threads, Return(t)
  PROVE  IInv'
<1>i. TypeOK /\ OnceInv /\ ReadyInv /\ StackInv /\ NoThrowIntoRust
  BY DEF IInv
<1>f. stack[t] # <<>> /\ pc[t] = Body(t) /\ UNCHANGED <<matching, flag, next, vtables, thrown>>
  BY DEF Return
<1>b. Top(t).by \in {"cpp", "rust"} /\ Body(t) \in {"cpp", "rust"}
  BY <1>i, <1>f, TopType DEF Body
<1>c. pc'[t] = Top(t).by /\ \A u \in Threads \ {t} : pc'[u] = pc[u]
  BY <1>i DEF TypeOK, Return
<1>s. /\ stack' \in [Threads -> Seq(Frame)]
      /\ \A u \in Threads \ {t} : stack'[u] = stack[u]
  BY <1>i, <1>f, Pop DEF Return
<1>h. \A u \in Threads \ {t} : Here(u)' = Here(u)
  BY <1>s DEF Here, Top
<1>r. StackInv' /\ (pc'[t] = "rust" => stack'[t] # <<>>)
  BY <1>f, PopStack DEF Return
<1>1. TypeOK'
  <2>1. pc' \in [Threads -> {"cpp", "rust", "once", "check", "vtables"}]
    BY <1>i, <1>b DEF TypeOK, Return
  <2> QED BY <1>i, <1>f, <1>s, <2>1 DEF TypeOK, Frame
<1>2. OnceInv'
  <2>1. ASSUME NEW u \in Threads
        PROVE  /\ pc'[u] \in {"check", "vtables"} => stack'[u] # <<>> /\ flag'[Here(u)'] = u
               /\ pc'[u] \in {"once", "rust"} => stack'[u] # <<>>
    <3>1. CASE u = t
      BY <1>b, <1>c, <1>r, <3>1
    <3>2. CASE u # t
      BY <1>i, <1>s, <1>c, <1>f, <1>h, <3>2 DEF OnceInv
    <3> QED BY <3>1, <3>2
  <2>2. ASSUME NEW n \in Namespaces, NEW u \in Threads, flag'[n] = u
        PROVE  pc'[u] \in {"check", "vtables"} /\ stack'[u] # <<>> /\ Here(u)' = n
    <3>1. u # t
      BY <1>i, <1>f, <1>b, <2>2 DEF OnceInv
    <3> QED BY <1>i, <1>f, <1>s, <1>c, <1>h, <2>2, <3>1 DEF OnceInv
  <2> QED BY <2>1, <2>2 DEF OnceInv, Here, Top
<1>3. ReadyInv'
  <2>1. \A u \in Threads : pc'[u] = "vtables" => pc[u] = "vtables" /\ u # t
    BY <1>b, <1>c
  <2> QED BY <1>i, <1>f, <1>h, <2>1 DEF ReadyInv
<1>5. NoThrowIntoRust'
  BY <1>i, <1>f DEF NoThrowIntoRust
<1> QED BY <1>1, <1>2, <1>3, <1>r, <1>5 DEF IInv
-----------------------------------------------------------------------------
\* Every step of every thread keeps the invariant.
LEMMA NextPreserves == IInv /\ [Next]_vars => IInv'
<1> SUFFICES ASSUME IInv, [Next]_vars PROVE IInv'
  OBVIOUS
<1>1. CASE UNCHANGED vars
  <2>1. UNCHANGED <<matching, flag, pc, next, stack, vtables, thrown>>
    BY <1>1 DEF vars
  <2>2. \A t \in Threads : Here(t)' = Here(t)
    BY <2>1 DEF Here, Top
  <2>3. TypeOK'
    BY <2>1 DEF IInv, TypeOK
  <2>4. OnceInv'
    BY <2>1, <2>2 DEF IInv, OnceInv
  <2>5. ReadyInv'
    BY <2>1, <2>2 DEF IInv, ReadyInv
  <2>6. StackInv'
    BY <2>1 DEF IInv, StackInv
  <2>7. NoThrowIntoRust'
    BY <2>1 DEF IInv, NoThrowIntoRust
  <2> QED BY <2>3, <2>4, <2>5, <2>6, <2>7 DEF IInv
<1>2. CASE Next
  <2>1. PICK t \in Threads :
          InitStep(t) \/ (\E n \in Namespaces : RustCall(t, n))
            \/ (\E v \in VTables : CallBack(t, v)) \/ Return(t)
    BY <1>2 DEF Next
  <2>2. CASE InitStep(t)
    BY <2>2, OnceDonePreserves, OnceRunPreserves, CheckFailsPreserves,
       CheckPassesPreserves, RegisterPreserves, OnceEndsPreserves DEF InitStep
  <2>3. CASE \E n \in Namespaces : RustCall(t, n)
    BY <2>3, RustCallPreserves
  <2>4. CASE \E v \in VTables : CallBack(t, v)
    BY <2>4, CallBackPreserves
  <2>5. CASE Return(t)
    BY <2>5, ReturnPreserves
  <2> QED BY <2>1, <2>2, <2>3, <2>4, <2>5
<1> QED BY <1>1, <1>2

\* The inductive invariant of initialize() and call_once holds throughout.
THEOREM Invariance == Spec => []IInv
<1>1. Init => IInv
  BY InitEstablishes
<1>2. IInv /\ [Next]_vars => IInv'
  BY NextPreserves
<1> QED BY <1>1, <1>2, PTL DEF Spec

\* The variables have their types: the flag is unset, set, or names the
\* thread that runs the initialization.
THEOREM TypeCorrect == Spec => []TypeOK
<1>1. IInv => TypeOK
  BY DEF IInv
<1> QED BY <1>1, Invariance, PTL

\* However calls and callbacks nest and threads interleave, Rust code runs only
\* for matching bindings and finds every vtable its namespace calls through.
THEOREM RustRunsInitialized == Spec => []RustRunsOnlyInitialized
<1>1. IInv => RustRunsOnlyInitialized
  <2> SUFFICES ASSUME IInv, NEW t \in Threads, pc[t] = "rust", stack[t] # <<>>
               PROVE  Here(t) \in matching /\ Usable(Here(t)) \subseteq vtables
    BY DEF RustRunsOnlyInitialized
  <2>1. Here(t) \in Namespaces /\ flag[Here(t)] = "set"
    <3>1. Len(stack[t]) \in 1..Len(stack[t]) /\ Here(t) \in Namespaces
      BY TopType DEF IInv
    <3> QED BY <3>1 DEF IInv, StackInv, Here, Top
  <2>2. /\ Here(t) \in matching
        /\ \A i \in 1..Len(InitFns(Here(t))) : InitFns(Here(t))[i] \in vtables
    BY <2>1 DEF IInv, ReadyInv
  <2>3. ASSUME NEW v \in Usable(Here(t))
        PROVE  \E i \in 1..Len(InitFns(Here(t))) : InitFns(Here(t))[i] = v
    <3> DEFINE n == Here(t)
               own == Locals[n]
               others == Imports[n]
    <3>1. own \in Seq(VTables) /\ others \in Seq(VTables)
      BY <2>1, InitializationAssumption
    <3>2. InitFns(n) = own \o others
      BY DEF InitFns
    <3>3. (\E i \in DOMAIN own : own[i] = v) \/ (\E i \in DOMAIN others : others[i] = v)
      <4>1. CASE v \in VTables /\ Home[v] = n
        BY <4>1, InitializationAssumption
      <4>2. CASE v \in Imported(n)
        BY <4>2 DEF Imported
      <4> QED BY <4>1, <4>2 DEF Usable
    <3>4. /\ Len(own) \in Nat /\ Len(others) \in Nat
          /\ DOMAIN own = 1..Len(own) /\ DOMAIN others = 1..Len(others)
          /\ Len(own \o others) = Len(own) + Len(others)
          /\ \A i \in 1..Len(own) : (own \o others)[i] = own[i]
          /\ \A i \in 1..Len(others) : (own \o others)[Len(own) + i] = others[i]
      <4> HIDE DEF n, own, others
      <4>1. /\ Len(own) \in Nat /\ Len(others) \in Nat
            /\ DOMAIN own = 1..Len(own) /\ DOMAIN others = 1..Len(others)
        BY <3>1
      <4>2. Len(own \o others) = Len(own) + Len(others)
        BY <3>1
      <4>3. \A i \in 1..Len(own) : (own \o others)[i] = own[i]
        BY <3>1
      <4>4. \A i \in 1..Len(others) : (own \o others)[Len(own) + i] = others[i]
        BY <3>1, <4>1
      <4> QED BY <4>1, <4>2, <4>3, <4>4
    <3> HIDE DEF n, own, others
    <3>5. CASE \E i \in DOMAIN own : own[i] = v
      <4>1. PICK i \in 1..Len(own) : own[i] = v
        BY <3>4, <3>5
      <4>2. i \in 1..Len(InitFns(n)) /\ InitFns(n)[i] = v
        BY <3>2, <3>4, <4>1
      <4> QED BY <4>2 DEF n
    <3>6. CASE \E i \in DOMAIN others : others[i] = v
      <4>1. PICK i \in 1..Len(others) : others[i] = v
        BY <3>4, <3>6
      <4>2. Len(own) + i \in 1..Len(InitFns(n)) /\ InitFns(n)[Len(own) + i] = v
        BY <3>2, <3>4, <4>1
      <4> QED BY <4>2 DEF n
    <3> QED BY <3>3, <3>5, <3>6
  <2> QED BY <2>2, <2>3
<1> QED BY <1>1, Invariance, PTL

\* With the bindings of one library, initialize() never throws in a method
\* that Rust called: the call that Rust is in has initialized before.
THEOREM NothingThrownIntoRust == Spec => []NoThrowIntoRust
<1>1. IInv => NoThrowIntoRust
  BY DEF IInv
<1> QED BY <1>1, Invariance, PTL
=============================================================================
