---------------------------- MODULE GeneratorProofs ----------------------------
(***************************************************************************)
(* Proofs about the generator: first about the program, for every set of   *)
(* crates and every way they import each other, and then about the order   *)
(* in which it defines the types of an interface (TypeOrder).              *)
(*                                                                         *)
(* IInv is inductive: NamesAgree needs to know that a run starts with      *)
(* nothing of it on disk (NamesInv) and that nobody edits the renames      *)
(* while it writes; SuccessIsComplete that what is no longer to do is      *)
(* written (ProgressInv).                                                  *)
(*                                                                         *)
(* One lemma per action, one step per part of the invariant.               *)
(***************************************************************************)
EXTENDS Generator, TypeOrder, TLAPS

LEMMA InitKeeps == Init => IInv
  <1> SUFFICES ASSUME Init PROVE IInv
    OBVIOUS
  <1> USE GeneratorAssumption DEF Init, RustNames, Absent, Files, Last
  <1>1. TypeOK
    BY DEF TypeOK, NoText
  <1>2. HistoryInv
    BY DEF HistoryInv
  <1>3. NamesInv
    BY DEF NamesInv, Quiet
  <1>4. ProgressInv
    BY DEF ProgressInv
  <1>5. MixedOnlyByWriteError
    BY DEF MixedOnlyByWriteError
  <1> QED BY <1>1, <1>2, <1>3, <1>4, <1>5 DEF IInv

\* Nothing is edited while a run is under way.
LEMMA EditKeeps ==
  ASSUME NEW c \in Crates, IInv, Edit(c)
  PROVE  IInv'
  <1> USE GeneratorAssumption DEF IInv, Edit, runVars
  <1>1. TypeOK'
    <2>1. supported' \subseteq Crates
      BY DEF TypeOK
    <2>2. rename' \in [Crates -> Names]
      BY DEF TypeOK
    <2> QED BY <2>1, <2>2 DEF TypeOK
  <1>2. HistoryInv'
    BY DEF HistoryInv
  <1>3. NamesInv'
    BY DEF NamesInv, Quiet
  <1>4. ProgressInv'
    BY DEF ProgressInv
  <1>5. MixedOnlyByWriteError'
    BY DEF MixedOnlyByWriteError
  <1> QED BY <1>1, <1>2, <1>3, <1>4, <1>5

\* No file on disk is of the run that starts.
LEMMA StartKeeps ==
  ASSUME NEW library \in BOOLEAN, NEW scaffolding \in BOOLEAN, NEW cs \in SUBSET Crates,
         IInv, Start(library, scaffolding, cs)
  PROVE  IInv'
  <1> USE GeneratorAssumption DEF IInv, Start
  <1>1. TypeOK'
    BY DEF TypeOK
  <1>2. HistoryInv'
    BY DEF HistoryInv, TypeOK
  <1>3. NamesInv'
    BY DEF NamesInv, HistoryInv, TypeOK
  <1>4. ProgressInv'
    BY DEF ProgressInv
  <1>5. MixedOnlyByWriteError'
    BY DEF MixedOnlyByWriteError, Quiet
  <1> QED BY <1>1, <1>2, <1>3, <1>4, <1>5

LEMMA ApplyRenamesKeeps ==
  ASSUME IInv, ApplyRenames
  PROVE  IInv'
  <1> USE GeneratorAssumption DEF IInv, ApplyRenames
  <1>1. Loaded \subseteq Crates /\ Loaded' = Loaded
    BY DEF Loaded, TypeOK
  <1>2. \A c \in Crates : RenamesKnown(c) \in [Crates -> Names] /\ RenamesKnown(c)' = RenamesKnown(c)
    BY <1>1 DEF RenamesKnown, TypeOK
  <1>3. TypeOK'
    BY <1>2 DEF TypeOK
  <1>4. HistoryInv'
    BY DEF HistoryInv
  <1>5. NamesInv'
    BY <1>1, <1>2 DEF NamesInv, Quiet, TypeOK
  <1>6. ProgressInv'
    BY DEF ProgressInv
  <1>7. MixedOnlyByWriteError'
    BY DEF MixedOnlyByWriteError
  <1> QED BY <1>3, <1>4, <1>5, <1>6, <1>7
\* What Exit leaves of a run.
LEMMA ExitTypes ==
  ASSUME TypeOK, NEW how, Exit(how)
  PROVE  /\ names' \in [Crates -> [Crates -> Names]] /\ next' \in Files
         /\ todo' = {}
         /\ text' \in [crate : Crates, text : [run : Int, names : [Crates -> Names]]]
  BY GeneratorAssumption DEF Exit, RustNames, NoText, Absent, Files, Last

LEMMA RenderFailsKeeps ==
  ASSUME NEW c \in Crates, IInv, RenderFails(c)
  PROVE  IInv'
  <1> USE GeneratorAssumption DEF IInv, RenderFails
  <1>0. phase' = "aborted" /\ todo' = {}
    BY DEF Exit
  <1>1. TypeOK'
    BY <1>0, ExitTypes DEF TypeOK
  <1>2. HistoryInv'
    BY DEF HistoryInv
  <1>3. NamesInv'
    BY <1>0 DEF NamesInv, Quiet
  <1>4. ProgressInv'
    BY <1>0 DEF ProgressInv
  <1>5. MixedOnlyByWriteError'
    BY <1>0 DEF MixedOnlyByWriteError
  <1> QED BY <1>1, <1>2, <1>3, <1>4, <1>5

LEMMA RenderKeeps ==
  ASSUME NEW c \in Crates, IInv, Render(c)
  PROVE  IInv'
  <1> USE GeneratorAssumption DEF IInv, Render
  <1>0. /\ Loaded' = Loaded /\ Loaded \subseteq Crates
        /\ \A d \in Crates : RenamesKnown(d)' = RenamesKnown(d)
    BY DEF Loaded, RenamesKnown, TypeOK
  <1>1. TypeOK'
    BY DEF TypeOK, Files, Last
  <1>2. HistoryInv'
    BY DEF HistoryInv
  <1>3. NamesInv'
    BY <1>0 DEF NamesInv, Quiet
  <1>4. ProgressInv'
    BY DEF ProgressInv, Files, Last
  <1>5. MixedOnlyByWriteError'
    BY DEF MixedOnlyByWriteError
  <1> QED BY <1>1, <1>2, <1>3, <1>4, <1>5

\* What a writing component puts on disk is of this run, with its names.
LEMMA TextIsOfTheRun ==
  ASSUME IInv, phase = "write"
  PROVE  /\ text.crate \in todo /\ text.crate \in Loaded /\ text.crate \in Crates
         /\ text.text.run = runs
         /\ \A c \in Crates : text.text.names = RenamesKnown(c)
         /\ text.text \in [run : Int, names : [Crates -> Names]]
  <1>1. text.crate \in todo /\ text.crate \in Loaded /\ text.crate \in Crates
    BY DEF IInv, ProgressInv, TypeOK, Loaded
  <1>2. text.text = [run |-> runs, names |-> RenamesKnown(text.crate)]
    BY <1>1 DEF IInv, ProgressInv, NamesInv
  <1>3. \A c, d \in Crates : RenamesKnown(c) = RenamesKnown(d)
    BY DEF RenamesKnown
  <1>4. text.text \in [run : Int, names : [Crates -> Names]]
    BY DEF IInv, TypeOK
  <1> QED BY <1>1, <1>2, <1>3, <1>4

\* The files after one of them is written by the run under way.
LEMMA PutKeeps ==
  ASSUME NEW c \in Crates, NEW f \in Files, IInv, phase = "write", text.crate = c,
         Put(c, f, text.text), UNCHANGED <<rename, runs, args>>
  PROVE  /\ disk' \in [Crates -> [Files -> [run : Int, names : [Crates -> Names]]]]
         /\ HistoryInv'
         /\ \A d \in Crates, g \in Files :
              disk'[d][g].run = runs => disk'[d][g].names = RenamesKnown(d)
         /\ disk'[c][f] = text.text
         /\ \A d \in Crates, g \in Files : d # c \/ g # f => disk'[d][g] = disk[d][g]
  <1> DEFINE t == text.text
  <1>1. /\ t \in [run : Int, names : [Crates -> Names]] /\ t.run = runs
        /\ \A d \in Crates : t.names = RenamesKnown(d)
    BY TextIsOfTheRun
  <1>2. /\ disk \in [Crates -> [Files -> [run : Int, names : [Crates -> Names]]]]
        /\ disk' = [disk EXCEPT ![c][f] = t]
    BY DEF IInv, TypeOK, Put
  <1> HIDE DEF t
  <1>3. disk' \in [Crates -> [Files -> [run : Int, names : [Crates -> Names]]]]
    BY <1>1, <1>2
  <1>4. /\ disk'[c][f] = t
        /\ \A d \in Crates, g \in Files : d # c \/ g # f => disk'[d][g] = disk[d][g]
    BY <1>2
  <1>5. \A d \in Crates, g \in Files : disk[d][g].run = runs => disk[d][g].names = RenamesKnown(d)
    BY DEF IInv, NamesInv
  <1>6. \A d \in Crates, g \in Files : disk'[d][g].run = runs => disk'[d][g].names = RenamesKnown(d)
    BY <1>1, <1>4, <1>5
  <1>7. \A d, e \in Crates : RenamesKnown(d) = RenamesKnown(e)
    BY DEF RenamesKnown
  <1>8. HistoryInv'
    <2>1. ASSUME NEW d \in Crates, NEW g \in Files
          PROVE  disk'[d][g].run <= runs
      <3>1. disk[d][g].run <= runs /\ runs \in Nat
        BY DEF IInv, HistoryInv, TypeOK
      <3>2. disk'[d][g] = t \/ disk'[d][g] = disk[d][g]
        BY <1>4
      <3> QED BY <3>1, <3>2, <1>1
    <2>2. ASSUME NEW d \in Crates, NEW e \in Crates, NEW g \in Files, NEW h \in Files,
                 disk'[d][g].run = disk'[e][h].run
          PROVE  disk'[d][g].names = disk'[e][h].names
      <3>1. CASE disk'[d][g].run = runs
        <4>1. disk'[d][g].names = RenamesKnown(d)
          BY <3>1, <1>6
        <4>2. disk'[e][h].names = RenamesKnown(e)
          BY <2>2, <3>1, <1>6
        <4> QED BY <4>1, <4>2, <1>7
      <3>2. CASE disk'[d][g].run # runs
        BY <2>2, <3>2, <1>1, <1>4 DEF IInv, HistoryInv
      <3> QED BY <3>1, <3>2
    <2>3. ASSUME NEW d \in Crates, NEW g \in Files
          PROVE  disk'[d][g].run < 0 => disk'[d][g] = Torn
      <3>1. runs \in Nat
        BY DEF IInv, TypeOK
      <3> QED BY <3>1, <1>1, <1>4 DEF IInv, HistoryInv
    <2> QED BY <2>1, <2>2, <2>3 DEF HistoryInv, Torn, RustNames
  <1> QED BY <1>3, <1>4, <1>6, <1>8 DEF t
LEMMA WriteHeadersKeeps ==
  ASSUME NEW c \in Crates, IInv, WriteHeaders(c)
  PROVE  IInv'
  <1> USE GeneratorAssumption DEF IInv, WriteHeaders
  <1>0. /\ next \in Files /\ text.crate = c /\ phase = "write" /\ phase' = "write"
        /\ Put(c, next, text.text) /\ UNCHANGED <<rename, runs, args>>
    BY DEF TypeOK
  <1>1. /\ disk' \in [Crates -> [Files -> [run : Int, names : [Crates -> Names]]]]
        /\ HistoryInv'
        /\ \A d \in Crates, g \in Files :
             disk'[d][g].run = runs => disk'[d][g].names = RenamesKnown(d)
        /\ disk'[c][next] = text.text
        /\ \A d \in Crates, g \in Files : d # c \/ g # next => disk'[d][g] = disk[d][g]
    BY <1>0, PutKeeps
  <1>2. /\ Loaded' = Loaded /\ Loaded \subseteq Crates
        /\ \A d \in Crates : RenamesKnown(d)' = RenamesKnown(d)
    BY DEF Loaded, RenamesKnown, TypeOK
  <1>3. TypeOK'
    BY <1>1 DEF TypeOK, Files, Last
  <1>4. NamesInv'
    BY <1>0, <1>1, <1>2 DEF NamesInv, Quiet
  <1>5. ProgressInv'
    <2>1. c \in todo
      BY <1>0, TextIsOfTheRun
    <2>2. \A f \in Files : f < next' => disk'[c][f] = text.text
      BY <1>0, <1>1 DEF ProgressInv, Files, Last
    <2>3. ASSUME NEW d \in args.crates \ todo, NEW f \in Files
          PROVE  disk'[d][f].run = runs
      <3>1. d \in Crates /\ d # c
        BY <2>1 DEF TypeOK
      <3>2. disk'[d][f] = disk[d][f]
        BY <1>1, <3>1
      <3>3. disk[d][f].run = runs
        BY <1>0 DEF ProgressInv
      <3> QED BY <3>2, <3>3
    <2> QED BY <2>1, <2>2, <2>3, <1>0 DEF ProgressInv
  <1>6. MixedOnlyByWriteError'
    <2>1. \A d \in Crates, g \in Files : d # c => disk'[d][g] = disk[d][g] /\ disk'[d][1] = disk[d][1]
      BY <1>1 DEF Files, Last
    <2> QED BY <2>1, <1>0 DEF MixedOnlyByWriteError
  <1> QED BY <1>1, <1>3, <1>4, <1>5, <1>6

\* All three files of the component are of this run now.
LEMMA WriteSourceKeeps ==
  ASSUME NEW c \in Crates, IInv, WriteSource(c)
  PROVE  IInv'
  <1> USE GeneratorAssumption DEF IInv, WriteSource
  <1>0. /\ next \in Files /\ text.crate = c /\ phase = "write" /\ next = Last
        /\ Put(c, next, text.text) /\ UNCHANGED <<rename, runs, args>>
    BY DEF TypeOK
  <1>1. /\ disk' \in [Crates -> [Files -> [run : Int, names : [Crates -> Names]]]]
        /\ HistoryInv'
        /\ \A d \in Crates, g \in Files :
             disk'[d][g].run = runs => disk'[d][g].names = RenamesKnown(d)
        /\ disk'[c][next] = text.text
        /\ \A d \in Crates, g \in Files : d # c \/ g # next => disk'[d][g] = disk[d][g]
    BY <1>0, PutKeeps
  <1>2. /\ Loaded' = Loaded /\ Loaded \subseteq Crates
        /\ \A d \in Crates : RenamesKnown(d)' = RenamesKnown(d)
    BY DEF Loaded, RenamesKnown, TypeOK
  <1>3. /\ todo' = todo \ {c}
        /\ (phase' = "ok" /\ todo' = {}) \/ (phase' = "render" /\ names' = names)
    <2>1. CASE todo = {c}
      <3>1. todo' = {} /\ phase' = "ok"
        BY <2>1 DEF Written, Exit
      <3>2. todo \ {c} = {}
        BY <2>1
      <3> QED BY <3>1, <3>2
    <2>2. CASE todo # {c}
      BY <2>2 DEF Written
    <2> QED BY <2>1, <2>2
  <1>4. \A f \in Files : disk'[c][f] = text.text /\ text.text.run = runs
    <2>1. text.text.run = runs
      BY <1>0, TextIsOfTheRun
    <2> QED BY <2>1, <1>0, <1>1 DEF ProgressInv, Files, Last
  <1>5. TypeOK'
    <2>1. /\ names' \in [Crates -> [Crates -> Names]] /\ next' \in Files
          /\ text' \in [crate : Crates, text : [run : Int, names : [Crates -> Names]]]
      <3>1. CASE todo = {c}
        BY <3>1, ExitTypes DEF Written
      <3>2. CASE todo # {c}
        BY <3>2 DEF Written, TypeOK, NoText, Absent, RustNames, Files, Last
      <3> QED BY <3>1, <3>2
    <2> QED BY <2>1, <1>1, <1>3 DEF TypeOK
  <1>6. NamesInv'
    BY <1>0, <1>1, <1>2, <1>3 DEF NamesInv, Quiet
  <1>7. ProgressInv'
    <2>1. ASSUME NEW d \in args.crates \ todo', NEW f \in Files
          PROVE  disk'[d][f].run = runs
      <3>1. d \in Crates
        BY DEF TypeOK
      <3>2. CASE d = c
        BY <3>2, <1>4
      <3>3. CASE d # c
        <4>1. d \in args.crates \ todo
          BY <3>3, <1>3
        <4>2. disk[d][f].run = runs
          BY <4>1, <1>0 DEF ProgressInv
        <4>3. disk'[d][f] = disk[d][f]
          BY <3>1, <3>3, <1>1
        <4> QED BY <4>2, <4>3
      <3> QED BY <3>2, <3>3
    <2> QED BY <2>1, <1>0, <1>3 DEF ProgressInv
  <1>8. MixedOnlyByWriteError'
    <2>1. \A d \in Crates, g \in Files : d # c => disk'[d][g] = disk[d][g] /\ disk'[d][1] = disk[d][1]
      BY <1>1 DEF Files, Last
    <2>2. \A g \in Files : disk'[c][g] = disk'[c][1]
      BY <1>4 DEF Files, Last
    <2> QED BY <2>1, <2>2, <1>0 DEF MixedOnlyByWriteError
  <1> QED BY <1>1, <1>5, <1>6, <1>7, <1>8

\* A torn file is of no run.
LEMMA WriteFailsKeeps ==
  ASSUME NEW c \in Crates, IInv, WriteFails(c)
  PROVE  IInv'
  <1> USE GeneratorAssumption DEF IInv, WriteFails
  <1>0. phase' = "aborted" /\ todo' = {} /\ text.crate = c
    BY DEF Exit
  <1>1. /\ disk' \in [Crates -> [Files -> [run : Int, names : [Crates -> Names]]]]
        /\ \A d \in Crates, g \in Files : disk'[d][g] = disk[d][g] \/ (d = c /\ disk'[d][g] = Torn)
    <2>1. disk \in [Crates -> [Files -> [run : Int, names : [Crates -> Names]]]] /\ next \in Files
      BY DEF TypeOK
    <2>2. Torn \in [run : Int, names : [Crates -> Names]]
      BY DEF Torn, RustNames
    <2> DEFINE torn == Torn
    <2>3. disk' = disk \/ disk' = [disk EXCEPT ![c][next] = torn]
      BY DEF Put
    <2>4. torn \in [run : Int, names : [Crates -> Names]]
      BY <2>2
    <2> HIDE DEF torn
    <2>5. /\ disk' \in [Crates -> [Files -> [run : Int, names : [Crates -> Names]]]]
          /\ \A d \in Crates, g \in Files : disk'[d][g] = disk[d][g] \/ (d = c /\ disk'[d][g] = torn)
      <3>1. CASE disk' = disk
        BY <2>1, <3>1
      <3>2. CASE disk' = [disk EXCEPT ![c][next] = torn]
        <4>1. disk' \in [Crates -> [Files -> [run : Int, names : [Crates -> Names]]]]
          BY <2>1, <2>4, <3>2
        <4>2. \A d \in Crates, g \in Files : d # c \/ g # next => disk'[d][g] = disk[d][g]
          BY <2>1, <3>2
        <4>3. disk'[c][next] = torn
          BY <2>1, <3>2
        <4> QED BY <4>1, <4>2, <4>3
      <3> QED BY <2>3, <3>1, <3>2
    <2> QED BY <2>5 DEF torn
  <1>2. TypeOK'
    BY <1>0, <1>1, ExitTypes DEF TypeOK
  <1>3. HistoryInv'
    <2>1. runs \in Nat /\ runs' = runs /\ Torn.run < 0 /\ Torn' = Torn
      BY DEF TypeOK, Torn, RustNames
    <2>2. ASSUME NEW d \in Crates, NEW g \in Files
          PROVE  /\ disk'[d][g].run < 0 => disk'[d][g] = Torn
                 /\ disk'[d][g].run <= runs
      <3>1. Torn.run <= runs
        BY <2>1 DEF Torn
      <3>2. CASE disk'[d][g] = disk[d][g]
        BY <3>2 DEF HistoryInv
      <3>3. CASE disk'[d][g] = Torn
        BY <3>1, <3>3
      <3> QED BY <3>2, <3>3, <1>1
    <2>3. ASSUME NEW d \in Crates, NEW e \in Crates, NEW g \in Files, NEW h \in Files,
                 disk'[d][g].run = disk'[e][h].run
          PROVE  disk'[d][g].names = disk'[e][h].names
      <3>1. CASE disk'[d][g].run < 0
        BY <2>2, <2>3, <3>1
      <3>2. CASE ~(disk'[d][g].run < 0)
        <4>1. disk'[d][g] # Torn /\ disk'[e][h] # Torn
          BY <2>1, <2>3, <3>2
        <4>2. disk'[d][g] = disk[d][g] /\ disk'[e][h] = disk[e][h]
          BY <4>1, <1>1
        <4> QED BY <2>3, <4>2 DEF HistoryInv
      <3> QED BY <3>1, <3>2
    <2> QED BY <2>1, <2>2, <2>3 DEF HistoryInv
  <1>4. NamesInv'
    BY <1>0 DEF NamesInv, Quiet
  <1>5. ProgressInv'
    BY <1>0 DEF ProgressInv
  <1>6. MixedOnlyByWriteError'
    BY <1>0, <1>1 DEF MixedOnlyByWriteError, Files, Last
  <1> QED BY <1>2, <1>3, <1>4, <1>5, <1>6
THEOREM Invariance == Spec => []IInv
  <1>1. IInv /\ [Next]_vars => IInv'
    <2> SUFFICES ASSUME IInv, [Next]_vars PROVE IInv'
      OBVIOUS
    <2>1. CASE UNCHANGED vars
      BY <2>1 DEF vars, runVars, IInv, TypeOK, HistoryInv, NamesInv, ProgressInv,
                  MixedOnlyByWriteError, Quiet, Loaded, RenamesKnown
    <2>2. CASE \E c \in Crates : Edit(c) \/ Render(c) \/ RenderFails(c)
      BY <2>2, EditKeeps, RenderKeeps, RenderFailsKeeps
    <2>3. CASE \E c \in Crates : WriteHeaders(c) \/ WriteSource(c) \/ WriteFails(c)
      BY <2>3, WriteHeadersKeeps, WriteSourceKeeps, WriteFailsKeeps
    <2>4. CASE \E library, scaffolding \in BOOLEAN, cs \in SUBSET Crates : Start(library, scaffolding, cs)
      BY <2>4, StartKeeps
    <2>5. CASE ApplyRenames
      BY <2>5, ApplyRenamesKeeps
    <2> QED BY <2>1, <2>2, <2>3, <2>4, <2>5 DEF Next
  <1> QED BY <1>1, InitKeeps, PTL DEF Spec

\* All that one run writes goes by the same names, whichever components it
\* writes and wherever it stops.
THEOREM GeneratedNamesAgree == Spec => []NamesAgree
  <1>1. IInv => NamesAgree
    BY GeneratorAssumption DEF IInv, HistoryInv, NamesAgree
  <1> QED BY <1>1, Invariance, PTL

\* Only an I/O error leaves a component with files of different runs.
THEOREM MixedByErrorsOnly == Spec => []MixedOnlyByWriteError
  <1>1. IInv => MixedOnlyByWriteError
    BY DEF IInv
  <1> QED BY <1>1, Invariance, PTL

\* A run that reports success has written all it was asked for.
THEOREM SuccessMeansComplete == Spec => []SuccessIsComplete
  <1>1. IInv => SuccessIsComplete
    BY DEF IInv, ProgressInv, SuccessIsComplete, TypeOK
  <1> QED BY <1>1, Invariance, PTL
-----------------------------------------------------------------------------
(***************************************************************************)
(* The order of definitions is right for every interface, however large.   *)
(* OrderIInv is inductive: a round is complete before the next begins, and *)
(* so any order within a round is a good one (SortInv).                    *)
(***************************************************************************)
\* Links are between names of the interface and its local types.
LEMMA LinkEnds ==
  /\ Linked \subseteq Types \cup External
  /\ \A n : Preds(n) \subseteq Linked
  /\ \A n : Preds(n) # {} => n \in Types
  <1>1. Links \subseteq (Types \cup External) \X Types
    BY DEF Links
  <1>2. Linked \subseteq Types \cup External
    <2> SUFFICES ASSUME NEW l \in Links PROVE {l[1], l[2]} \subseteq Types \cup External
      BY DEF Linked
    <2> QED BY <1>1
  <1>3. ASSUME NEW n, NEW p \in Preds(n) PROVE p \in Linked /\ n \in Types
    <2>1. <<p, n>> \in Links
      BY DEF Preds
    <2> QED BY <1>1, <2>1 DEF Linked
  <1> QED BY <1>2, <1>3

\* A definition needs only types it is linked to.
LEMMA NeedsAreLinked ==
  ASSUME NEW t \in Types, NEW u \in Needs(t)
  PROVE  u \in Types /\ u \in Linked /\ t \in Linked /\ u \in Preds(t)
  <1>1. u \in Types /\ u \in uses[t] /\ kind[u] # "unnamed"
    BY DEF Needs
  <1>2. <<u, t>> \in Links
    BY <1>1 DEF Links
  <1> QED BY <1>1, <1>2 DEF Linked, Preds

\* Appending a type that is not emitted, and whose needs are, keeps the order.
LEMMA AppendKeepsOrder ==
  ASSUME OrderTypeOK, DefinedAfterNeeds, DefinedOnce,
         NEW t \in Types, t \notin Emitted, Needs(t) \subseteq Emitted,
         emitted' = Append(emitted, t), UNCHANGED <<kind, uses>>
  PROVE  /\ emitted' \in Seq(Types)
         /\ Emitted' = Emitted \cup {t}
         /\ DefinedAfterNeeds'
         /\ DefinedOnce'
  <1> DEFINE n == Len(emitted)
  <1>1. emitted \in Seq(Types) /\ n \in Nat /\ DOMAIN emitted = 1..n
    BY DEF OrderTypeOK
  <1>2. /\ emitted' \in Seq(Types)
        /\ DOMAIN emitted' = 1..(n + 1)
        /\ \A i \in 1..n : emitted'[i] = emitted[i]
        /\ emitted'[n + 1] = t
    BY <1>1
  <1>3. Emitted' = Emitted \cup {t}
    BY <1>1, <1>2 DEF Emitted
  <1>4. \A u : Needs(u)' = Needs(u)
    BY DEF Needs
  <1>5. DefinedAfterNeeds'
    <2> SUFFICES ASSUME NEW j \in 1..(n + 1), NEW u \in Needs(emitted'[j])
                 PROVE  \E i \in 1..(j - 1) : emitted'[i] = u
      BY <1>2, <1>4 DEF DefinedAfterNeeds
    <2>1. CASE j \in 1..n
      <3>1. PICK i \in 1..(j - 1) : emitted[i] = u
        BY <1>1, <1>2, <2>1 DEF DefinedAfterNeeds
      <3> QED BY <1>1, <1>2, <2>1, <3>1
    <2>2. CASE j = n + 1
      <3>1. u \in Emitted
        BY <1>2, <2>2
      <3>2. PICK i \in 1..n : emitted[i] = u
        BY <1>1, <3>1 DEF Emitted
      <3> QED BY <1>1, <1>2, <2>2, <3>2
    <2> QED BY <1>1, <2>1, <2>2
  <1>6. DefinedOnce'
    <2>1. \A i \in 1..n : emitted[i] # t
      BY <1>1 DEF Emitted
    <2> QED BY <1>1, <1>2, <2>1 DEF DefinedOnce
  <1> QED BY <1>2, <1>3, <1>5, <1>6

LEMMA OrderInitIInv == OrderInit => OrderIInv
  <1> SUFFICES ASSUME OrderInit PROVE OrderIInv
    OBVIOUS
  <1>1. emitted = <<>> /\ Emitted = {}
    BY DEF OrderInit, Emitted
  <1>2. OrderTypeOK
    BY <1>1, LinkEnds DEF OrderInit, OrderTypeOK
  <1>3. SortInv
    BY <1>1 DEF OrderInit, SortInv
  <1>4. DefinedAfterNeeds /\ DefinedOnce
    BY <1>1 DEF DefinedAfterNeeds, DefinedOnce
  <1> QED BY <1>2, <1>3, <1>4 DEF OrderIInv

\* The graph never changes.
LEMMA SameGraph ==
  ASSUME UNCHANGED interface
  PROVE  /\ Linked' = Linked
         /\ \A n : Preds(n)' = Preds(n)
         /\ \A t : Needs(t)' = Needs(t)
  <1>1. Links' = Links
    BY DEF interface, Links
  <1> QED BY <1>1 DEF interface, Linked, Preds, Needs

\* Steps that emit nothing keep the order of what is emitted.
LEMMA SameOrder ==
  ASSUME DefinedAfterNeeds, DefinedOnce, UNCHANGED <<interface, emitted>>
  PROVE  DefinedAfterNeeds' /\ DefinedOnce' /\ Emitted' = Emitted
  BY SameGraph DEF DefinedAfterNeeds, DefinedOnce, Emitted

LEMMA OrderStepIInv == OrderIInv /\ [OrderNext]_orderVars => OrderIInv'
  <1> SUFFICES ASSUME OrderIInv, [OrderNext]_orderVars PROVE OrderIInv'
    OBVIOUS
  <1> USE DEF OrderIInv, interface
  <1>1. CASE PopAll
    <2> USE <1>1 DEF PopAll
    <2>1. DefinedAfterNeeds' /\ DefinedOnce' /\ Emitted' = Emitted
      BY SameOrder
    <2>2. OrderTypeOK'
      BY DEF OrderTypeOK, Free
    <2>3. waiting' \cup round' = waiting /\ waiting' \cap round' = {}
      BY DEF Free
    <2>4. \A n \in Linked \ waiting' : Preds(n) \cap waiting = {}
      BY DEF SortInv, Free
    <2>5. SortInv'
      BY <2>1, <2>3, <2>4, SameGraph DEF SortInv
    <2> QED BY <2>1, <2>2, <2>5
  <1>2. ASSUME NEW n \in Types \cup External, Push(n) PROVE OrderIInv'
    <2> USE <1>2 DEF Push
    <2>1. n \in Linked /\ n \notin waiting /\ n \notin Emitted
      BY DEF SortInv
    <2>2. CASE n \in Types
      <3>1. Needs(n) \subseteq Emitted
        BY <2>1, <2>2, NeedsAreLinked DEF SortInv
      <3>2. /\ emitted' \in Seq(Types) /\ Emitted' = Emitted \cup {n}
            /\ DefinedAfterNeeds' /\ DefinedOnce'
        BY <2>1, <2>2, <3>1, AppendKeepsOrder
      <3>3. OrderTypeOK'
        BY <3>2 DEF OrderTypeOK
      <3>4. SortInv'
        BY <2>1, <2>2, <3>2, SameGraph DEF SortInv, Free
      <3> QED BY <3>2, <3>3, <3>4
    <2>3. CASE n \notin Types
      <3>1. DefinedAfterNeeds' /\ DefinedOnce' /\ Emitted' = Emitted
        BY <2>3, SameOrder
      <3>2. OrderTypeOK'
        BY <2>3 DEF OrderTypeOK
      <3>3. SortInv'
        BY <2>1, <2>3, <3>1, SameGraph DEF SortInv, Free
      <3> QED BY <3>1, <3>2, <3>3
    <2> QED BY <2>2, <2>3
  <1>3. CASE Panic
    <2>1. DefinedAfterNeeds' /\ DefinedOnce' /\ Emitted' = Emitted
      BY <1>3, SameOrder DEF Panic
    <2>2. OrderTypeOK'
      BY <1>3 DEF Panic, OrderTypeOK
    <2>3. SortInv'
      BY <1>3, <2>1, SameGraph DEF Panic, SortInv, Free
    <2> QED BY <2>1, <2>2, <2>3
  <1>4. CASE RoundsEnd
    <2>1. DefinedAfterNeeds' /\ DefinedOnce' /\ Emitted' = Emitted
      BY <1>4, SameOrder DEF RoundsEnd
    <2>2. OrderTypeOK'
      BY <1>4 DEF RoundsEnd, OrderTypeOK
    <2>3. SortInv'
      BY <1>4, <2>1, SameGraph DEF RoundsEnd, SortInv, Free
    <2> QED BY <2>1, <2>2, <2>3
  <1>5. ASSUME NEW t \in Types, Rest(t) PROVE OrderIInv'
    <2> USE <1>5 DEF Rest
    <2>1. t \notin Linked
      BY DEF SortInv
    <2>2. Needs(t) \subseteq Emitted
      BY <2>1, NeedsAreLinked
    <2>3. /\ emitted' \in Seq(Types) /\ Emitted' = Emitted \cup {t}
          /\ DefinedAfterNeeds' /\ DefinedOnce'
      BY <2>2, AppendKeepsOrder
    <2>4. OrderTypeOK'
      BY <2>3 DEF OrderTypeOK
    <2>5. SortInv'
      BY <2>1, <2>3, SameGraph DEF SortInv, Free
    <2> QED BY <2>3, <2>4, <2>5
  <1>6. CASE UNCHANGED orderVars
    <2>1. DefinedAfterNeeds' /\ DefinedOnce' /\ Emitted' = Emitted
      BY <1>6, SameOrder DEF orderVars
    <2>2. OrderTypeOK'
      BY <1>6 DEF orderVars, OrderTypeOK
    <2>3. SortInv'
      BY <1>6, <2>1, SameGraph DEF orderVars, SortInv, Free
    <2> QED BY <2>1, <2>2, <2>3
  <1> QED BY <1>1, <1>2, <1>3, <1>4, <1>5, <1>6 DEF OrderNext

LEMMA SortInvariance == OrderSpec => []OrderIInv
  BY OrderInitIInv, OrderStepIInv, PTL DEF OrderSpec

\* Only local types are defined, and every variable keeps its type.
THEOREM OrderTypeCorrect == OrderSpec => []OrderTypeOK
  <1>1. OrderIInv => OrderTypeOK
    BY DEF OrderIInv
  <1> QED BY <1>1, SortInvariance, PTL

\* In every interface, each type is defined after those its definition needs.
THEOREM NeedsComeFirst == OrderSpec => []DefinedAfterNeeds
  <1>1. OrderIInv => DefinedAfterNeeds
    BY DEF OrderIInv
  <1> QED BY <1>1, SortInvariance, PTL

\* In every interface, no type is defined twice.
THEOREM NoneTwice == OrderSpec => []DefinedOnce
  <1>1. OrderIInv => DefinedOnce
    BY DEF OrderIInv
  <1> QED BY <1>1, SortInvariance, PTL

\* In every interface, "Cyclic dependency detected" means that there is one:
\* the names left over are local types that each use another.
THEOREM PanicIsRight == OrderSpec => []PanicOnlyOnCycle
  <1>1. OrderIInv => PanicOnlyOnCycle
    <2> SUFFICES ASSUME OrderIInv, stage = "panic"
                 PROVE  \E S \in SUBSET Types : S # {} /\ \A t \in S : uses[t] \cap S # {}
      BY DEF PanicOnlyOnCycle
    <2>1. waiting # {} /\ \A n \in waiting : Preds(n) \cap waiting # {}
      BY DEF OrderIInv, SortInv, Free
    <2>2. waiting \subseteq Types
      BY <2>1, LinkEnds
    <2>3. \A t \in waiting : uses[t] \cap waiting # {}
      BY <2>1 DEF Preds, Links
    <2> QED BY <2>1, <2>2, <2>3
  <1> QED BY <1>1, SortInvariance, PTL
=============================================================================
