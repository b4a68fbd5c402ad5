-------------------------------- MODULE Generator --------------------------------
(***************************************************************************)
(* The generator program: main.rs, the BindingGenerator of                 *)
(* bindings/cpp/mod.rs and the parts of gen_cpp/mod.rs that it calls.      *)
(*                                                                         *)
(* A run loads the components of a library (--library) or a single one,    *)
(* gives the items of each crate the names its uniffi.toml asks for,       *)
(* wherever they are mentioned, and then writes three files for each       *)
(* component, one component after the other.  Anything that goes wrong     *)
(* ends the run where it is, and the files written so far stay.            *)
(*                                                                         *)
(* The text of a file is abstracted to the run that rendered it and the    *)
(* names by which it calls the crates' items, one item per crate.          *)
(***************************************************************************)
EXTENDS Integers

CONSTANTS
  Crates,      \* the crates linked into the library, each with a namespace
  Imports,     \* per crate, the crates whose types it uses
  Names,       \* names an item can have
  RustName,    \* the name every item has in Rust
  MaxRuns      \* bound: runs of the generator

ASSUME GeneratorAssumption ==
  /\ Imports \in [Crates -> SUBSET Crates]
  /\ Crates # {}
  /\ RustName \in Names
  /\ MaxRuns \in Nat

Last == 3
Files == 1..Last  \* the scaffolding header, the header and the source

VARIABLES
  supported,   \* the crates whose interface the generator can render
  rename,      \* per crate, the C++ name its uniffi.toml gives its item
  disk,        \* per crate and file, the text it holds
  runs,        \* the number of runs so far
  phase,       \* of the last run: "load", "render", "write"; "ok", "aborted"
  args,        \* its arguments: [library, scaffolding, crates]
  names,       \* per component, the names its ComponentInterface has
  todo,        \* the components not written yet
  text,        \* the rendered component being written, and its text
  next,        \* the file to be written next
  interrupted  \* the crates whose last writing ended with an I/O error

runVars == <<runs, phase, args, names, todo, text, next>>
vars == <<supported, rename, disk, runVars, interrupted>>

Quiet == phase \in {"ok", "aborted"}

RustNames == [d \in Crates |-> RustName]
Absent == [run |-> 0, names |-> RustNames]
Torn == [run |-> -1, names |-> RustNames]
NoText == [crate |-> CHOOSE c \in Crates : TRUE, text |-> Absent]

\* The process ends, and what it had in memory is gone.
Exit(how) ==
  /\ phase' = how
  /\ names' = [c \in Crates |-> RustNames]
  /\ todo' = {} /\ text' = NoText /\ next' = 1
-----------------------------------------------------------------------------
Init ==
  /\ supported \in SUBSET Crates
  /\ rename \in [Crates -> Names]
  /\ disk = [c \in Crates |-> [f \in Files |-> Absent]]
  /\ runs = 0 /\ phase = "ok"
  /\ args = [library |-> TRUE, scaffolding |-> FALSE, crates |-> {}]
  /\ names = [c \in Crates |-> RustNames]
  /\ todo = {} /\ text = NoText /\ next = 1
  /\ interrupted = {}

\* Between two runs the developer edits a crate, or its uniffi.toml.
Edit(c) ==
  /\ Quiet
  /\ \/ supported' \in {supported \cup {c}, supported \ {c}} /\ UNCHANGED rename
     \/ \E n \in Names : rename' = [rename EXCEPT ![c] = n] /\ UNCHANGED supported
  /\ UNCHANGED <<disk, runVars, interrupted>>

\* main: a library with all its components or, with --crate, one of them; or
\* a single component from its UDL file.
Start(library, scaffolding, cs) ==
  /\ Quiet /\ runs < MaxRuns
  /\ runs' = runs + 1
  /\ args' = [library |-> library, scaffolding |-> scaffolding, crates |-> cs]
  /\ todo' = cs
  /\ phase' = "load"
  /\ UNCHANGED <<supported, rename, disk, names, text, next, interrupted>>

\* The components loaded, whichever of them are asked for.
Loaded == IF args.library THEN Crates ELSE args.crates

\* Variant: a component's renames are applied to itself.
RenamesOwn(c) == [d \in Crates |-> IF d = c THEN rename[d] ELSE RustName]

\* new_config and update_component_configs: the renames of every component
\* that is loaded are applied to every component.
RenamesKnown(c) == [d \in Crates |-> IF d \in Loaded THEN rename[d] ELSE RustName]

ApplyRenames ==
  /\ phase = "load"
  /\ names' = [c \in Crates |-> IF c \in Loaded THEN RenamesKnown(c) ELSE names[c]]
  /\ phase' = "render"
  /\ UNCHANGED <<supported, rename, disk, runs, args, todo, text, next, interrupted>>

\* One round of write_bindings: the three texts are there before the first
\* is written.
Renderable(c) == c \in supported /\ ~args.scaffolding

Render(c) ==
  /\ phase = "render" /\ c \in todo /\ Renderable(c)
  /\ text' = [crate |-> c, text |-> [run |-> runs, names |-> names[c]]]
  /\ next' = 1
  /\ phase' = "write"
  /\ UNCHANGED <<supported, rename, disk, runs, args, names, todo, interrupted>>

\* On to the next component, or to the end of the run.
Written(c) ==
  IF todo = {c}
    THEN Exit("ok")
    ELSE /\ todo' = todo \ {c}
         /\ phase' = "render" /\ text' = NoText /\ next' = 1
         /\ UNCHANGED names

Put(c, f, t) == disk' = [disk EXCEPT ![c][f] = t]

\* Variant: a component that cannot be rendered is passed over.
RenderFailsSkipping(c) ==
  /\ phase = "render" /\ c \in todo /\ ~Renderable(c)
  /\ Written(c)
  /\ UNCHANGED <<supported, rename, disk, runs, args, interrupted>>

\* Variant: the first file is created before its text is rendered.
RenderFailsTruncating(c) ==
  /\ phase = "render" /\ c \in todo /\ ~Renderable(c)
  /\ Put(c, 1, Torn)
  /\ Exit("aborted")
  /\ UNCHANGED <<supported, rename, runs, args, interrupted>>

\* Async functions, the scaffolding mode, types that depend on each other in
\* a circle, a default that is not supported: a panic or an error ends the run.
RenderFails(c) ==
  /\ phase = "render" /\ c \in todo /\ ~Renderable(c)
  /\ Exit("aborted")
  /\ UNCHANGED <<supported, rename, disk, runs, args, interrupted>>

WriteHeaders(c) ==
  /\ phase = "write" /\ text.crate = c /\ next < Last
  /\ Put(c, next, text.text)
  /\ next' = next + 1
  /\ UNCHANGED <<supported, rename, runs, phase, args, names, todo, text, interrupted>>

WriteSource(c) ==
  /\ phase = "write" /\ text.crate = c /\ next = Last
  /\ Put(c, Last, text.text)
  /\ Written(c)
  /\ interrupted' = interrupted \ {c}
  /\ UNCHANGED <<supported, rename, runs, args>>

\* fs::write cannot open the file, or has truncated it and cannot fill it.
WriteFails(c) ==
  /\ phase = "write" /\ text.crate = c
  /\ UNCHANGED disk \/ Put(c, next, Torn)
  /\ Exit("aborted")
  /\ interrupted' = interrupted \cup {c}
  /\ UNCHANGED <<supported, rename, runs, args>>

Next ==
  \/ \E c \in Crates : Edit(c) \/ Render(c) \/ RenderFails(c)
  \/ \E c \in Crates : WriteHeaders(c) \/ WriteSource(c) \/ WriteFails(c)
  \/ \E scaffolding \in BOOLEAN :
       \/ Start(TRUE, scaffolding, Crates)
       \/ \E library \in BOOLEAN, c \in Crates : Start(library, scaffolding, {c})
  \/ ApplyRenames

Spec == Init /\ [][Next]_vars
-----------------------------------------------------------------------------
(***************************************************************************)
(* Properties.                                                             *)
(***************************************************************************)
\* The files that one run has written, all of them or those before a failure,
\* call every item by the name its own header declares it under
\* (gen_cpp/mod.rs 61-78), whatever is generated or edited before and after.
NamesAgree ==
  \A c \in Crates, f, g \in Files : \A d \in Imports[c] :
    disk[c][f].run = disk[d][g].run => disk[c][f].names[d] = disk[d][g].names[d]

\* A component that cannot be generated leaves the files it had before: its
\* three files are of one run, unless writing them is under way or met an I/O
\* error (bindings/cpp/mod.rs 126-140).
MixedOnlyByWriteError ==
  \A c \in Crates, f \in Files :
    disk[c][f] = disk[c][1] \/ c \in interrupted \/ (phase = "write" /\ text.crate = c)

\* A run that reports success has written, itself, every file it was asked for.
SuccessIsComplete ==
  phase = "ok" => \A c \in args.crates, f \in Files : disk[c][f].run = runs

(***************************************************************************)
(* The inductive invariant.                                                *)
(***************************************************************************)
TypeOK ==
  /\ supported \subseteq Crates
  /\ rename \in [Crates -> Names]
  /\ disk \in [Crates -> [Files -> [run : Int, names : [Crates -> Names]]]]
  /\ runs \in Nat
  /\ phase \in {"load", "render", "write", "ok", "aborted"}
  /\ args \in [library : BOOLEAN, scaffolding : BOOLEAN, crates : SUBSET Crates]
  /\ names \in [Crates -> [Crates -> Names]]
  /\ todo \subseteq args.crates
  /\ text \in [crate : Crates, text : [run : Int, names : [Crates -> Names]]]
  /\ next \in Files
  /\ interrupted \subseteq Crates

\* No file is of a run to come, those of one run have one set of names, and
\* those of none hold nothing.
HistoryInv ==
  /\ \A c \in Crates, f \in Files : disk[c][f].run < 0 => disk[c][f] = Torn
  /\ \A c \in Crates, f \in Files : disk[c][f].run <= runs
  /\ \A c, d \in Crates, f, g \in Files :
       disk[c][f].run = disk[d][g].run => disk[c][f].names = disk[d][g].names

\* A run under way has written nothing before it has applied the renames, and
\* then only with these names.
NamesInv ==
  /\ ~Quiet => runs > 0
  /\ phase = "load" => \A c \in Crates, f \in Files : disk[c][f].run # runs
  /\ phase \in {"render", "write"} =>
       /\ \A c \in Loaded : names[c] = RenamesKnown(c)
       /\ \A c \in Crates, f \in Files :
            disk[c][f].run = runs => disk[c][f].names = RenamesKnown(c)

\* What a run has written so far.
ProgressInv ==
  /\ phase = "ok" => todo = {}
  /\ phase # "aborted" => \A c \in args.crates \ todo, f \in Files : disk[c][f].run = runs
  /\ phase = "write" =>
       /\ text.crate \in todo
       /\ text.text = [run |-> runs, names |-> names[text.crate]]
       /\ \A f \in Files : f < next => disk[text.crate][f] = text.text

IInv == TypeOK /\ HistoryInv /\ NamesInv /\ ProgressInv /\ MixedOnlyByWriteError
=============================================================================
