# uniffi-bindgen-cpp: a TLA+ model of the generated bindings

`uniffi-bindgen-cpp` reads the interface of a Rust library and writes C++
bindings for it. Most of the repository is therefore a program that prints
text. What can go wrong in ways that a test hardly shows is in the code it
prints: objects that live on both sides of a foreign function interface, called
from many threads, with exceptions on one side and panics on the other. The
code that is printed is in `src/bindgen/src/bindings/cpp/templates/`
(`T/` below); the generator is in `src/bindgen/src/bindings/cpp/gen_cpp/`
(`G/`). The modules here model the printed code first.

## Inventory

| Component | Source | State | Operations | What is hard | What makes it correct |
|---|---|---|---|---|---|
| Handle map | `T/handle_map.cpp` | a mutex, a counter, a map from handles to `shared_ptr` | `at`, `insert`, `clone`, `erase` | every thread calls it; user code runs when an object dies and calls it again | handles unique and never reused, objects live while reachable, no user code in the mutex |
| Vtables of callback and trait interfaces | `T/callback_iface_tmpl.cpp`, `T/callback.hpp`, `T/callback_conv.cpp` | none of their own | methods, `uniffi_free`, `uniffi_clone`, `init` | Rust frees a handle while another thread is in a method | the object outlives the method |
| Objects | `T/obj.cpp`, `T/obj_conv.cpp` | `instance`, one strong reference per wrapper | construct, copy, destroy, `lower`, `lift` | two kinds of handle, ownership that moves with every argument and result | each reference has one owner |
| Initialization | `T/wrapper.cpp` 12-38, `G/mod.rs` 342-373 | one `once_flag` per namespace, the vtables Rust holds | `initialize` | threads racing to be first, namespaces that use each other's interfaces, a check that throws | nothing runs uninitialized, nobody waits forever |
| Calls and buffers | `T/wrapper.cpp` 40-119, `T/rust_buf_tmpl.cpp`, `T/macros.cpp`, `T/fn_def.cpp` | a status per call, the `RustBuffer`s in flight | `rust_call`, `check_rust_call`, `rust_call_trait_interface` | nesting, an exception at every point | each buffer is freed once and decoded as what it holds |
| Converters and stream | `T/*_conv.cpp`, `T/*_tmpl.cpp`, `T/rec.cpp`, `T/rust_buf_stream.cpp` | a position in a buffer | `read`, `write`, `allocation_size` | three descriptions of one format that must agree | bytes written fit the size computed; reading gives the value back |
| Type ordering | `G/mod.rs` 179-275 | a dependency graph | `sorted_types` | imported types, types in no dependency, cycles | a definition comes after what it needs |
| Generator driver | `src/bindgen/src/main.rs`, `bindings/cpp/mod.rs`, `G/mod.rs` 33-138, 376-416 | components, configurations, names, files on disk | one run per command | a run that ends halfway, several crates that use each other's names, files of earlier runs | what a run writes fits together; success means complete |
| C++ scaffolding: objects | `T/scaffolding/object_map.cpp`, `T/scaffolding/obj.cpp`, `T/cpp_scaffolding.cpp` 187-222 | a mutex, a map from addresses to `shared_ptr` and count | construct, `at`, `insert`, `erase` | addresses are used again; objects leave the table and come back; destructors in the table's mutex | counts exact, a key never means another object |
| C++ scaffolding: calls | `T/cpp_scaffolding.cpp`, `T/scaffolding/macros.cpp`, `callback.cpp`, `err.cpp`, `custom.cpp` | a status per call, the buffers in flight | exported functions, proxies' methods | the library throws anything, also out of callbacks that call it again | everything is reported, buffers are freed once |
| C++ scaffolding: callbacks | `T/scaffolding/callback.cpp`, `T/cpp_scaffolding.cpp` 178-222, `cpp-tests/scaffolding_tests/fixture_callbacks` | a handle per proxy, the `shared_ptr`s of it | lift, call, release | the last owner may die anywhere, also in the table's mutex; callbacks call the library again | a handle is used while it is owned and given back once |
| Defaults of fields | `G/filters/mod.rs` 132-134 and 392-410, the `CodeType`s in `G/*.rs` | none | `default_cpp`, `literal`, `default`, `type_label` | one UniFFI type has several C++ forms, several have one; what C++ makes of `{}` | Rust gets the value that was declared |
| Other names and labels | `G/filters/mod.rs`, `G/*.rs` | none | text generation | - | the C++ compiler checks the result |

How they interact. The application calls a generated function. Its arguments
are lowered: plain values as they are, compound values into `RustBuffer`s that
Rust allocates, objects into handles. `rust_call` initializes the namespace on
first use, calls Rust, and turns the status into a return or an exception.
While it runs, Rust may call a method of a C++ object through a vtable, on this
thread or on one of its own; the method finds the object in the handle map,
lifts its arguments and may call Rust again. Handles and buffers are the only
things that cross; whoever receives one owns it.

The C++ scaffolding is the other direction: a C++ library used from other
languages. `docs/SCAFFOLDING.md` describes it, `cpp-tests/scaffolding_tests` has
libraries for it and `generate_cpp_scaffolding` (`G/mod.rs` 405-416) renders it;
the command line that led there is switched off at present
(`bindings/cpp/mod.rs` 123-124).

## Modules

* **HandleTable** - what a handle map promises: four operations that each take
  effect at one instant between call and return, and a fresh handle for every
  insertion. No mutex, no counter.
* **HandleMap** - `handle_map.cpp` as it runs: `Acquire` is the `lock_guard`;
  `Look`, `Take`, `Store`, `Bump` and `Remove` are the accesses to the map and
  the counter, one step each, so that without the mutex they would interleave;
  the `Return...` actions are the end of the guard's scope. `pc`, `op`,
  `handle`, `slot` and `impl` are the locals of the call a thread is in. Around
  the calls the module has what makes the table hard: `refs` and `life` are the
  use counts of the `shared_ptr`s and the objects they control, `frames` is the
  user code on a thread's stack - a method called through a handle (`at` in
  `callback_iface_tmpl.cpp` 8), a `lift` between its two calls
  (`obj_conv.cpp` 23-24), the destructor of the object whose last reference the
  thread has just dropped. User code may call the map again.
* **HandleMapProofs** - theorems about HandleMap: its invariants, the lifetime of
  the objects, and that it implements HandleTable.
* **ObjectHandles** - one interface type that both sides implement. `strong` is
  Rust's reference count, `instance` the handle a wrapper owns, `map` the handle
  map (as the atomic table), `proxies` and `arcs` what Rust keeps, `stack` the
  nested calls of a thread, `hand` the handle it is carrying over the boundary.
  `Construct`, `Copy`, `Destroy`, `LowerWrapper`, `LowerCpp`, `LiftRust`,
  `LiftCpp` and `LiftErase` are the functions of `obj.cpp` and `obj_conv.cpp`;
  `Call`, `CallMethod` and the two returns move handles between the sides; the
  Rust actions are what the vtable and the FFI functions let Rust do.
* **ObjectHandlesProofs** - theorems about ObjectHandles.
* **Initialization** - `initialize`, per namespace: `OnceRun`, `OnceDone` and
  `OnceEnds` are `call_once`; `CheckFails` and `CheckPasses` the comparison of
  versions and checksums; `Register` one `init` of the list that
  `initialization_fns` computes (`InitFns`: the namespace's own interfaces, then
  the imported ones).
* **InitializationProofs** - theorems about Initialization.
* **RustCall** - one thread's nested calls and the buffers in them. A frame is a
  call or a method; `heap` says which buffers are allocated and what is
  serialized in them. Each exit of `rust_call`, `check_rust_call` and the two
  `rust_call_trait_interface` functions is an action, and so is each place where
  a conversion can throw.
* **Codec** - the bytes in a buffer. `Size...`, `Write...` and `Read...` are the
  `allocation_size`, `write` and `read` of each kind of converter; `Written` and
  `Get` are the stream. The types of an interface are numbered, each after those
  it is made of, and `Converters` makes their converters in that order, each from
  the ones before, as the generated converters call each other. A value is lowered
  on one side (`Lower`, `RustLower`) and lifted on the other (`RustLift`, `Lift`):
  in a buffer, or, if its type is a string or a custom type of one, as its bytes
  alone. A byte has `Base` values instead of 256, so that every width wraps within
  reach of TLC.
* **RustBufferProofs** - theorems about RustCall and Codec.
* **TypeOrder** - `sorted_types`: `Links` is the graph it builds, `PopAll` and
  `Push` are its loop, `Panic` and `RoundsEnd` what follows, `Rest` the types
  outside the graph, in the order in which the header's template defines them.
* **ObjectReferences** - what the scaffolding's table of objects promises: a
  foreign wrapper is as good as a `shared_ptr`. Wrappers refer to objects
  themselves (`refers`), a call holds the objects of its wrappers, and an object
  dies when nothing refers to it (`Sweep`). No addresses, keys, counts or mutex.
* **ScaffoldObjects** - the scaffolding's `ObjectMap` and what passes through
  it. `map` and `mutex` are the table; `addr` says where an object is while it
  is alive, `held`, `kept` and the table's entries are the `shared_ptr`s that
  keep it so (`Orphans` are the objects without one). A call looks up its
  objects (`At`), runs the library's code (`Keep`, `Drop`, `ReturnObject`,
  `ReturnNew`, `ReturnNothing`), counts its result (`Insert`) and hands the key
  to a foreign wrapper (`Return`); `Erase` takes it back, and `Destroy` is the
  destructor that runs before the mutex is released. `at` and `insert` are one
  step each: they touch the table only under the mutex, which has no holder
  between steps except in `Destroy`. `Abstract` maps this state to
  ObjectReferences, which the module implements.
* **ScaffoldObjectsProofs** - theorems about ScaffoldObjects: its invariants, the
  counts, and that it implements ObjectReferences.
* **ScaffoldCall** - one thread's exported functions and constructors and the
  methods of callback proxies that they call, as RustCall does for the bindings.
  `ThrowIn` is the `try` that functions have and constructors do not; `crossed`
  records an exception that got out.
* **ScaffoldCallProofs** - theorems about ScaffoldCall.
* **ScaffoldProxies** - the proxies of foreign callbacks, with a library as in
  `fixture_callbacks`: functions that use a callback (`RustGetters`) and objects
  that store one (`RustStringifier`). Who owns a proxy is in the frames
  (`holds`: the arguments of a call) and in `member` (what an object stores);
  `Releasing` is `~Proxy`, run wherever the last `shared_ptr` goes: at the end
  of a call (`Leave`) or in `ObjectMap::erase`, under its mutex (`Erase`,
  `Unlock`). `Release` is the foreign side's free, in which the callback object
  itself may die: until `CleanedUp` its destructor, foreign code like a callback's
  method, may call the library. The table is that of one class, and a thread which
  waits for a mutex that it holds waits for ever. ScaffoldObjects counts the table's references; here each object
  has one, and the interest is in what its destruction calls.
* **ScaffoldProxiesProofs** - theorems about ScaffoldProxies.
* **Generator** - a run of the program. `Start` is `main`, `ApplyRenames`
  `update_component_configs` and `rename_component`, and then one round of
  `write_bindings` per component: `Render` or `RenderFails`, `WriteHeaders`
  (twice) and `WriteSource`, or `WriteFails`. The text of a file is abstracted
  to the run that rendered it and the names it uses. `Edit` is the developer
  between two runs.
* **GeneratorProofs** - theorems about Generator and, in its second part, about
  TypeOrder, the two halves of the generator.
* **Defaults** - the default value of a field from its declaration to Rust. The
  generator's functions keep their structure: `DefaultCpp` is `default_cpp`,
  `Literal...`, `Default...` and `Label...` the methods of the `CodeType`s,
  `Abort` a panic or an error. `Initial`, `Value` and `Zero` are C++'s reading
  of `T name = code;`, `Lowered` what the converters make of the value (a
  `shared_ptr` that is null is an optional's None), `Meant` what the declaration
  means in Rust. RECURSIVE operators; for TLC only.
* **MCHandleMap, MCObjectHandles, MCInitialization, MCRustCall, MCCodec,
  MCTypeOrder, MCScaffoldObjects, MCScaffoldCall, MCScaffoldProxies,
  MCGenerator, MCDefaults** - constants for TLC.

Operators named as a variant (`AcquireWithoutLock`, `CopyShared`, ...) are not
part of any specification. Each is an action with a plausible mistake in it;
put in the place of the action next to it, it makes TLC report the property
that PROJECT.json pairs it with.

Rust is not part of this repository. `ObjectHandles` and `RustCall` model it
from what the templates rely on: it frees what it is given, clones what it keeps
and returns, answers with an error only from functions that declare one.

## Runs

| Run | Bounds | What it shows |
|---|---|---|
| `HandleMap.cfg` | 2 threads, 2 objects, handles to 3 (two insertions), one method per thread; destructors and lifts nest freely | `NoUserCodeUnderLock`, `HandleDenotesItsObject`, `NoHandleReuse`, `AliveWhileHeld`, `ImplementsTable`, `SomeWaiterIsServed` |
| `ObjectHandles.cfg` | 2 threads, a Rust object, a C++ object, 2 wrappers, two odd handles, calls nested 3 deep, one handle lost by a failed lowering | `StrongCountExact`, `NoUseAfterFree`, `ForeignHandlesOwnedOnce`, `ReceivedIsLifted` |
| `Initialization.cfg` | 2 threads, 2 namespaces that import each other's interface, each matching the library or not, calls nested 3 deep | `RustRunsOnlyInitialized`, `InitializeEnds`, `NoThrowIntoRust` |
| `RustCall.cfg` | 7 buffers, 2 buffer arguments per call, 4 frames, one failing conversion | `BuffersHeldOnce`, `DecodedAsWritten` |
| `Codec.cfg` | bits for bytes (an `int32_t` is -8..7), four ticks a second, 27 types nested up to three deep, strings of 0, 1, 7, 8, 15 and 17 elements, times at every edge | `WritesFit`, `NeverAltered`, `OnlyForeignRefused`, `ReadsAll` |
| `TypeOrder.cfg` | every interface of three types, with an imported one: 17,272 graphs | `DefinedAfterNeeds`, `PanicOnlyOnCycle`, `AllDefined` |
| `ScaffoldObjects.cfg` | 2 threads, 3 objects in turn at 2 addresses, 4 wrappers, 2 objects per call, one reference per object lost on the way | `CountsExact`, `KeysNameTheLiving`, `RightObject`, `LivesAsReferred`, `ImplementsReferences` |
| `ScaffoldCall.cfg` | 6 buffers, 2 buffer arguments per call, one custom value, 4 frames, one failing conversion | `BuffersHeldOnce`, `OnlyCustomsLeak`, `DecodedAsWritten`, `FunctionsReport` |
| `ScaffoldConstructors.cfg` | the same, no failing conversion | TLC finds `ConstructorsReport` violated |
| `ScaffoldProxies.cfg` | 2 threads, 2 callback handles, 2 objects, 3 method calls, 5 frames | `AskedForLivingHandles`, `LockedOutOnlyByErase`, `NoHandleForgotten`, `EveryHandleReturns` |
| `Generator.cfg` | 2 crates of which one uses the other, 2 names, 2 runs in every mode, edits and failures between and within them | `NamesAgree`, `MixedOnlyByWriteError`, `SuccessIsComplete` |
| `Defaults.cfg` | 2,850 fields: every type of nine leaves nested up to three deep in optionals, containers, custom types and records (here or in another crate), with every default UniFFI accepts for it | `DefaultsKeepMeaning`, `DefaultsCompile` |

The type invariants (`TypeOK`) are no runs of their own; those of HandleMap,
ObjectHandles, Initialization, RustCall, TypeOrder (`OrderTypeOK`),
ScaffoldObjects, ScaffoldCall, ScaffoldProxies and Generator are proved.

Why the bounds are enough. Two threads and two insertions are what a race on
the counter needs; two objects tell a handle that changed its object from one
that did not. What holds of the handles for any number of insertions is proved. A method inside a call inside a
method is the shortest nesting in which the object of an outer frame can be
destroyed by an inner one. Two namespaces that import each other are the
shortest cycle. With bits for bytes, lengths of 7 and 8 are the two sides of
2^31 and 15 and 17 those of 2^32; nothing in a converter depends on how many
values a byte has. Three types are enough for a circle, a chain and a fork with
an imported type beside them, and the theorems cover the rest. `RustCall` needs as many buffers as four frames and a failure
can hold; with fewer, TLC reports the allocation that finds none as a deadlock.

Two crates suffice for names that differ between them, and two runs for files of
different runs. Defaults has no counter: what the code distinguishes is the type
in which a type is nested, two levels of which decide every branch; the third is
for what a custom type between two optionals hides.

Two callback handles, one stored and one passed, with both objects, are what a
callback needs that calls the library while another proxy dies, and a destructor
that frees or makes another object than the one being destroyed.

An object of ScaffoldObjects that dies, a second at the same address and a third
beside them are what it takes to confuse keys.

Every bound is a guard: `MaxHandle` stops insertions that would pass it,
`MaxDepth` further nesting, `MaxLost` and `MaxFailures` further failures,
`MaxArcs` further copies in Rust's data, `MaxCustoms` further custom arguments,
`MaxMethods` further method calls, `MaxRuns` further runs of the generator,
`Room` calls for whose result there would be no wrapper. Five runs do not check
for deadlock. In ObjectHandles a method that wants to return an object when
`MaxArcs` is used up, or a thread that has lowered an object when `MaxDepth` is,
can stop, and in ScaffoldProxies all is over when the handles are used up, or when
every thread waits for a mutex that is never free again, which is one of the
things the run shows; in the code there are no such bounds. The runs of TypeOrder,
Generator and Defaults stop because the program ends. The other runs check it.

Fairness. In HandleMap a thread that is inside the map keeps running, and a free
mutex is taken by someone; `std::mutex` promises no more, so nothing is claimed
about a particular waiter, and user code need not return. In ObjectHandles
generated code that has begun to lift goes on. In Initialization a thread in
`initialize` goes on; which waiter `call_once` lets in after an attempt that
threw is open, and so `InitializeEnds` speaks of namespaces that match. In
TypeOrder the generator, a single thread, goes on. In ScaffoldProxies threads run
and get a mutex that is free again and again; the library's code, the callbacks
and their destructors end, whatever they call meanwhile, and a foreign owner frees its object
at last, on a thread that is doing nothing else. Those are promises of the
application and of the library that a test program makes too; without any one of
them a proxy may be held for ever, and nothing in the generated code could
release it. A thread that has locked itself out never goes on, nor does any that
needs the same table; `EveryHandleReturns` promises nothing then.

What the runs say about failures:

* A lowering that throws loses the handles and buffers of the arguments lowered
  before it, and a conversion that throws halfway loses its buffer (`lost` in
  both modules). That is how the code is; the properties say that nothing else
  is lost and that what is lost is never freed by someone else.
* `initialize()` is outside the `try` in `rust_call_trait_interface`
  (`T/wrapper.cpp` 82, 100). With bindings of one namespace that match the
  library and bindings of another that do not, it throws in a method that Rust
  called; without its premise on `matching`, TLC finds `NoThrowIntoRust`
  violated.
* `rustbuffer_alloc`, `rustbuffer_from_bytes` and `rustbuffer_free` call Rust
  without `initialize()`; arguments are lowered before the checks have run.
  `RustRunsOnlyInitialized` is about functions called through `rust_call`.

What the scaffolding runs say about failures:

* An exported constructor has no `try` (`T/cpp_scaffolding.cpp` 191-201, unlike
  functions and methods): what the library's constructor throws goes through the
  foreign caller and ends the process. `ConstructorsReport` states what
  `fixtures/coverall/src/coverall.udl` 143-149 expects, and
  `ScaffoldConstructors.cfg` shows that it fails. The other run's properties
  hold with that ending included.
* `lift` of a custom type never frees its buffer (`T/scaffolding/custom.cpp`
  3-8); `OnlyCustomsLeak` says that this is the only leak without a failure.
* An error that cannot be lowered is thrown inside a handler and gets out
  (`T/scaffolding/macros.cpp` 25); `FunctionsReport` says that nothing else does.
* Foreign callers are assumed to free a wrapper once, and neither during a call
  on it nor, on the same thread, from inside a destructor that the table runs:
  what happens then is ScaffoldProxies' subject, which has that case.
* A callback argument whose neighbour fails to be lifted first is a number that
  nobody releases (`lost` in ScaffoldProxies).
* `ObjectMap::erase` destroys the object, and with it the proxies it stores,
  under the table's mutex (`T/scaffolding/object_map.cpp` 24-31), so that the
  foreign side's free runs there. Where callback objects are counted, as in the
  bindings that this repository generates (`T/handle_map.cpp` 22-33), the
  callback's destructor runs then, and if it makes, calls or frees another object
  of the class its thread waits for itself for ever (`LockedOut`; one thread and two
  objects that store callbacks suffice: it frees the first, whose callback's
  destructor frees the second, or makes one). The handle map of the bindings moves
  what it erases out of the lock for this reason (`T/handle_map.cpp` 23);
  `ObjectMap` does not. `LockedOutOnlyByErase` says that this is the only way: no
  method, constructor or callback runs under the mutex.
  What `docs/SCAFFOLDING.md` 40 advises about destructors is about the C++ class,
  not about the foreign one.

What the Generator run says about failures: files are not written through a
temporary one, so a run that fails between components leaves those before it new
and those after it old, and one that fails in `fs::write` mixes the files of a
component. `NamesAgree` is about what one run has written, which is all the code
promises: generating a single component after an edit of another's
`uniffi.toml` gives it names that the other's header does not have yet.
The scaffolding mode of the command line is `unimplemented!`
(`bindings/cpp/mod.rs` 123-124), so every such run ends in `RenderFails`, although
`README.md` 60 and `docs/SCAFFOLDING.md` 9-15 describe it.

What the Defaults run says about values that do not survive. `Misread` and
`NamesVariant` name them, and the properties hold of everything else:

* `Some([])` and `Some({})` of an optional are printed as `{}`, which C++ gives
  to the optional: Rust receives None (`compounds.rs` 93, `filters/mod.rs` 405).
  `CHANGELOG.md` 20-21 announces optional fields with a non-null default. The
  same holds of `Some(None)` of an optional of an optional.
* An octal literal is printed without its prefix and read as decimal.
* A variant of an enum with fields or of an error, or of a crate generated with
  another `enum_style`, is printed by a name that C++ has not; that is found by
  the compiler.
* A `#[uniffi(default)]` on a field whose type is an object or a record of
  another crate ends the generation (`object.rs` 52, `record.rs` 13 look in this
  crate's interface only), although `CHANGELOG.md` 17-19 announces these types.

What the Codec run says about values that do not survive. They are in the model,
and `Expressible` names them; nothing in the repository's documents or tests
promises them.

* A string or container of 2^31 to 2^32 - 1 elements gets a negative length and
  is refused by the receiver (`OnlyForeignRefused`). From 2^32 on a string is
  silently cut.
* Times in the second before the epoch have zero seconds and therefore no sign;
  C++ casts the negative nanoseconds to `uint32_t`, and what arrives is a time
  after the epoch. Times that Rust has and 64 bits of nanoseconds have not wrap
  while they are read.
* Rust has no negative durations. C++ casts both parts of one (`duration_helper.cpp`
  29-33): -1 s arrives as 2^64 - 1 s. Of -1.5 s the nanoseconds are 2^32 - 5 * 10^8,
  three seconds and more, which Rust's `Duration::new` would have to carry into
  the 2^64 - 1 s; it panics, and the call is refused (`OnlyForeignRefused`). After
  a small negative fraction alone the seconds are 0, and a positive duration arrives.
* The message of a flat error does not fit into the four bytes that
  `allocation_size` asks for, and is dropped by the stream. That is as it must
  be: Rust reads the variant only and refuses a buffer with bytes left. With a
  size that counted the message, `OnlyForeignRefused` fails.

## Proofs

`HandleMapProofs.tla` proves, from `HandleMapAssumption` (a finite set of
threads, of which the free mutex is none; `None` is not an object; natural
bounds), for every number of threads, objects, and every bound:

* `Invariance`: `Spec => []IInv`;
* `TypeCorrect`, `UserCodeUnlocked`, `HandlesDenote`, `HandlesAreOdd`,
  `HandlesAreFresh`: the properties `TypeOK`, `NoUserCodeUnderLock`,
  `HandleDenotesItsObject`, `ForeignHandlesAreOdd` and `NoHandleReuse`.

None of these properties is inductive. That two insertions get different handles
follows from what holds in between: `LockInv`, a thread is between two accesses
exactly if it holds the mutex; `CallInv`, what a call's locals are at each
access - above all that `slot` still equals the counter until `Bump`; and
`HandleInv`, every issued handle is odd and below the counter, or is the one
about to be counted. `IInv` is their conjunction with `TypeOK`. It is proved
preserved part by part, one step per action (`TypeStep`, `LockStep`, `CallStep`,
`HandleStep`); `StepKinds` groups the actions by what they do to the map, the
counter and the mutex, so that each part looks only at those that can disturb
it. `refs` is typed as an integer there: that it never becomes negative is part
of `AliveWhileHeld`.

The module's second part proves `HoldInvariance` and `HeldLive`
(`AliveWhileHeld`) on top of `IInv`. `Holders(i)` is the sum of four
cardinalities: entries of the map, calls and frames that hold `i`, and the
application. Each step adds an
element to one of the sets, removes one, or passes one from one set to another,
and changes `refs[i]` by the same number (`PushCounts`, `PopCounts`,
`CallDropHolds`, `CallPushHolds` and others carry the cardinalities, and
`Finitely`, that the sets are finite, goes along as an invariant). Two more facts
make it inductive. `LiftInv`: a lift stays innermost from its `at` to its
delivery, and the handle that it then erases was issued for the object which it
will deliver, so that this erase never destroys anything and the lift's frame is
still innermost when it delivers. `DtorInv`: a destructor runs on an object that
is dying or dead, so that `Create` cannot bring that object back under it.

Its last part proves, from the same assumption, `MapIsTable`:
`Spec => ImplementsTable`, that every behaviour of the locked map is one of the
atomic table. The mapping (end of `HandleMap.tla`) shows the table the map's
entries and, for every thread, the operation that it is in and whether that has
taken effect; the effect of an insertion is `Store`, of a lookup `Look` or
`LookMiss`, of a removal `Remove`, and every other step of the map is a stutter
or the call or return itself. Beyond `IInv` the argument needs `PendingInv`: a
thread inside the map is in an operation of the table with the same handle, and
every insertion under way has room below `MaxHandle`, because two handles are
reserved when it is called. There is one lemma per action, and `Next` is matched
with the table's next-state relation by cases.

`ObjectHandlesProofs.tla` proves, from `ObjectHandlesAssumption` (finitely many
threads and wrappers; Rust objects are neither C++ objects nor numbers, `None` is
none of these), for any objects, wrappers, nesting and number of handles:
`Invariance`, `TypeCorrect`, `StrongReferencesOwned` (`StrongCountExact`),
`ForeignHandlesOwned` (`ForeignHandlesOwnedOnce`) and `RunningObjectsLive`
(`NoUseAfterFree`). The two counting properties are one fact, `Balance`: for an
even or odd handle alike, the number of its owners - wrappers, Rust's data,
threads in transit, running functions, and the lost - is what is due, a strong
count or one for an entry of the map. One lemma per kind of owner says what it
gains and loses (`HandChanges`, `WrapperChanges`, `RunChanges`, `DataGains`, ...,
all from `OneChanges`, about a finite set that gains or loses an element), one per
action adds them up. `OwnedIsDue` turns the balance round: who has a handle may
use it, since it is due, and no proxy has it too. Besides, `IInv` needs
`FreshInv` (a handle that `Insert` gives out is new, and an object that is not
made has no references), `HandInv` (a thread carries a handle exactly while it
does something with it) and `FrameInv` (a C++ method runs on no Rust object).
`NoUseAfterFree` follows, because a running function owns its argument.

`InitializationProofs.tla` proves, from `InitializationAssumption` (every
interface is among its own namespace's; a thread is not one of the flag's two
other values), for any threads, namespaces, imports and depth: `Invariance`,
`TypeCorrect`, `RustRunsInitialized` (`RustRunsOnlyInitialized`) and
`NothingThrownIntoRust` (`NoThrowIntoRust`). The inductive invariant `IInv` has
besides the types: `OnceInv`, the flag names a thread exactly while that thread
is in `ensure_initialized` of that namespace; `ReadyInv`, a set flag stands for a
match and for all of the namespace's vtables, and a thread half way through the
list has registered the first half; `StackInv`, every call below the innermost
is through its own `initialize`, and a method that Rust called stands on a call
into Rust. `NoThrowIntoRust` follows in a step: under such a method there is a
namespace that matched, so that with one library the method's own matches too.

The first part of `RustBufferProofs.tla` proves, from `RustCallAssumption`, for any buffers, number of
arguments, depth of nesting and failed conversions: `Invariance`, `TypeCorrect`,
`EveryBufferHeldOnce` (`BuffersHeldOnce`) and `CodeNamesContent`
(`DecodedAsWritten`). `BuffersHeldOnce` says who holds a buffer but not where that
holder is; `ShapeInv` adds that calls and methods alternate, with a call at the
bottom, and that a frame which is waiting, checking or in user code holds no
arguments any more, so that what an exception unwinds or `check_rust_call` drops
is not somebody's buffer. The invariant is written as a predicate `Good` of any
heap, stack and set of lost buffers. Three lemmas about such a predicate
(`UpdateKeeps`, `PushKeeps`, `PopKeeps`: the innermost frame changes, one is
pushed, one is popped) carry the sequences and sets; the lemma of each action
says which of them it is.

Its second part proves, from `CodecAssumption` (types are numbered after their
parts, values are values of their types, a byte has two values at least), for any
interface, any values and any number of values of a byte: `AlwaysWritesFit`
(`WritesFit`), `ValuesNeverAltered` (`NeverAltered`), `OnlyForeignIsRefused`
(`OnlyForeignRefused`) and `EverythingIsRead` (`ReadsAll`). The steps of the
specification are few; the work is in the converters. `Faithful` says of one that
what `write` puts out has the length `allocation_size` says; that a read of it,
whatever bytes follow, takes these bytes and no others and gives the value, unless
a mark says why it cannot, and fails only for a length or a negative duration
(`Gives`, `GivesBack`); and that a stream which has
failed stays failed (`Continues`). A read must work with any bytes after it: only
so does it still do what it should inside of another. There is one lemma per kind
(`IntFaithful`, `OptionalFaithful` and so on), each of which assumes that the parts'
converters are faithful; `FaithfulFlat` says what holds of flat errors instead,
`TextRight` what holds of strings outside of a buffer. The theorem
`ConvertersRight` puts them together by induction over the number of a type. That
types can be numbered after their parts is no restriction: `sorted_types` panics
on interfaces whose types are made of each other in a circle. Below are: the digits of a
number are read as that number (`UnsignedOfBytes`, `ReadsInt`, which are the
unique quotient and remainder), a sum is the length of what is concatenated
(`JoinedLength`), reads one after the other get what was written one after the
other (`ReadAllGives`), and truncating division (`QuotientIs`) for times. The
prover cannot use an induction theorem that takes a predicate, so every induction
here is about a set of numbers: the smallest number not in it, which exists
because the numbers are well-founded, has a predecessor in it (`Induction`).
`CodecInv` is the inductive invariant: the four properties, and `Underway`, what
is in the buffer between lowering and lifting.

`ScaffoldCallProofs.tla` proves the same of the other direction, from
`ScaffoldCallAssumption`: `Invariance`, `TypeCorrect`, `EveryBufferHeldOnce`,
`CodeNamesContent`, and besides `NothingElseLeaks` (`OnlyCustomsLeak`) and
`ExceptionsAreReported` (`FunctionsReport`). `ShapeInv` says here that exported
functions and proxies' methods alternate, with an exported one at the bottom, and
that a body which throws or answers holds no argument any more; so the frame in
which `Unwind` finds a `try` loses nothing. `LostInv`, that what is lost is custom
until a conversion fails, is what makes `OnlyCustomsLeak` follow when the stack is
empty. The exception of a constructor needs no case of its own: it ends the
process in a state which the invariant still describes, and that this state is
reached is the violation that `scaffold_constructors` shows.

`ScaffoldObjectsProofs.tla` proves, from `ScaffoldObjectsAssumption` (`None` is
no object, address, wrapper or thread; finitely many threads and wrappers;
natural bounds), for any such threads, objects, addresses and wrappers: `TableInvariance`, `Spec => []TableInv`, and
from it `ScaffoldTypeCorrect` and `KeysNameLiving` (`KeysNameTheLiving`, the
property that lets `insert` compare addresses instead of objects). It takes
four facts together to show that an address is not reused under an entry:
nobody shares an address (`HeapInv`), a result that is about to be filed is held
by its thread (`ResultInv`), the object whose destructor runs under the mutex is
held, kept and filed by nobody else (`DyingInv`), and a filed object is at its
entry's key, with a positive count (`EntryInv`). There is one lemma per action.
That the count is the *right* number of references is the second half of the
module: `CountInvariance`, and from it `EntriesCountReferences` (`CountsExact`),
`KeysLeadHome` (`RightObject`) and `ReferredLive` (`LivesAsReferred`). `CountInv`
adds to `TableInv`: `Counted`, an object's references - the wrappers that own one,
the threads on their way to the caller with one, and the lost ones - are as many
as its entry counts, or none without an entry; `KeyInv`, an owned wrapper's key is
its object's address; `UseInv`, a wrapper that a call uses is not being freed; and
nothing is an orphan. The argument turns on `Erase`: the entry goes only with the
last reference, so no other wrapper's key loses its entry, and what `Destroy`
takes from the heap is pointed to by nobody.

The third part proves `TableIsReferences`: `Spec => ImplementsReferences`, that
every behaviour of addresses, keys and counts is one of ObjectReferences, where
wrappers refer to objects. The mapping (end of `ScaffoldObjects.tla`) takes what
is at an address for what lives, the object of a wrapper for what it refers to
(`Refers`), and the wrappers in use for the arguments of a call (`Args`); `Erase`
of a last reference is the release that leaves the thread the only one to hold
the object, and `Destroy` its end. Besides the two invariants the proof needs
`HoldInv`: an idle thread uses no wrapper, and the library's code runs only once
the objects of all arguments are found and held. `AliveAre` says that what lives
is what is referred to, which is what the abstract `Sweep` leaves alive;
`ReleaseStep`, that the count is 1 exactly if nothing else refers to the object.
The run's variant `AtUnshared`, which finds an object without holding it, is no
such table.

`ScaffoldProxiesProofs.tla` proves, from `ScaffoldProxiesAssumption` (`None` is no
thread, handle or object; natural bounds), for any threads, callbacks, objects and
depth of nesting: `ProxyInvariance`, `ProxyTypeCorrect`, `NoStaleProxy`
(`AskedForLivingHandles`), `OnlyEraseLocksOut` (`LockedOutOnlyByErase`) and
`EveryHandleHasOwner` (`NoHandleForgotten`). That
nobody asks for a handle after its release is a fact about all stacks at once.
The invariant says who answers for a handle: the frame whose argument the proxy
is or which is about to release it (`Has`), or the object that stores it
(`member`), and never two of them (`ApartInv`, `MemberInv`). A frame that answers
for a handle, or an object that stores it, is a proof that the foreign side still
has it (`FrameOK`). A proxy's method answers for nothing; it is safe because of
where it stands (`On`): on a body that holds the proxy or whose object stores it,
and an object with a frame on it is not freed. The same predicate says that on
`destroy` only `release` and `cleanup` run, and nothing on `release`; `MutexInv`,
that the holder of the mutex has a `destroy` among its frames; and `Apart`, that
there is no other. So if the holder's innermost frame is one that locks, what
lies on its `destroy` is a `cleanup`, a foreign destructor.
One lemma per action says which frames it replaces; `StacksKept`, `MutexKept`
and their like carry the rest. That a handle always has an owner is the other
half: `OwnerInv` adds that a call holds one proxy at most and that a constructor's
object stores none before `Store`, so that nothing which is dropped or
overwritten was the only owner of a second handle. With it, what remains of
`EveryHandleReturns` is that owners act in the end, and that is TLC's.

`GeneratorProofs.tla` proves, from `GeneratorAssumption`, for any crates that use
each other in any way, any names and any number of runs: `Invariance`,
`GeneratedNamesAgree` (`NamesAgree`), `MixedByErrorsOnly`
(`MixedOnlyByWriteError`) and `SuccessMeansComplete` (`SuccessIsComplete`). `IInv`
consists of `TypeOK`, `HistoryInv` (no file is of a later run than the present
one), `NamesInv` (once the renames are applied, the names in use are those of the
configurations that this run read), `ProgressInv` (the components before the
present one are written, the files of the present one before the next step are)
and `MixedOnlyByWriteError`.

The second part of `GeneratorProofs.tla` proves, from `TypeOrderAssumption` (a type is local or
imported), for every set of types, every use of each other and every order
within the rounds: `OrderTypeCorrect`, `NeedsComeFirst`, `NoneTwice` and
`PanicIsRight`: the types, the run's two invariants, and that no type is
defined twice (`DefinedOnce`). `DefinedAfterNeeds` alone is not
inductive; `SortInv` adds that a name which has left the graph has no
predecessor in the graph or in the round being emitted, and that every linked
local type is in the graph, in the round, or emitted. The panic is right
because the names left over each have a predecessor among them, and imported
types, which have none, are never left over.

Only model-checked: all liveness (the prover has no rules for fairness and
ENABLED), and Defaults, whose operators are recursive over the types and defaults
they are given, trees that are not numbered: what they compute for every nesting
is an induction over data, which is out of the provers' reach. Every other safety
property that a run checks is a theorem.

## Not modelled, and the plan

Left out for good:

* identifiers, includes, docstrings and the layout of the text that is printed:
  the C++ compiler checks the result;
* the `uniffi` runtime and the user's Rust, which are external;
* asynchronous functions, which the generator rejects;
* the fixtures and tests, beyond what they say about the generated code.
