# Verification of the Aura QuickJS Runtime Host

TLA+ models of the Aura QuickJS Runtime Host, the runs that model-check them with TLC, and
theorems about them checked by TLAPS. Paths are relative to the repository; `server.rs`,
`plugin.rs` and the like are files of `crates/*/src`.

## The system

The launcher (Aura, a JVM) loads the Host plugin, which registers a Runtime Provider. The Provider
starts one native process for each JavaScript payload and talks to it over the process's standard
streams. Inside the process one thread reads commands, runs the payload's lifecycle functions in
QuickJS, and answers. While a function runs it may call the launcher back through the Bridge, over
the same two streams.

    launcher threads --> QuickJsRuntimeProvider --> (Aura's RuntimeProcessSession, not in this repository)
                                                         |  stdin: commands, callback answers
                                                         v  stdout: responses, callback requests
                         ProcessServer <---- one thread ----> ProcessBridge
                              |                                  ^
                              v                                  | aura:runtime bridge.invoke/retain/release
                         QuickJsGuestEngine -> QuickJsPlugin -> payload

| Component | State | Operations | Hard behaviour | What makes it correct |
| --- | --- | --- | --- | --- |
| `ProcessServer` (`server.rs`) | lifecycle state, engine, reader and writer locks, poison | `serve`, `handle` and six commands, `close_on_eof` | any frame in any order, pipes that break or are left full and unread, one thread that needs its own lock again | commands one at a time, each answered or the process ends; poison is final; a clean exit releases everything |
| `ProcessBridge` (`server.rs`) | callback counter, poison | `call`, `invoke`, `retain_handle`, `release_handle` | runs inside a lifecycle function; takes the next frame whatever it is; counter wraps | no frame lost, no identifier used twice by one Bridge, failure poisons |
| `QuickJsGuestEngine` (`guest_engine.rs`) | payload or none | `load` ... `unload` | a failed `unload` has already dropped the payload | agrees with the server's state |
| `QuickJsPlugin`, `QuickJsRuntime` (`plugin.rs`, `runtime.rs`) | namespace, deadline, interrupted flag, QuickJS job queue | `load`, `enable`, `invoke`, `disable`, `unload`, `settle`, `classify_exception`, `interrupt_handler` | payload code runs wherever a value is converted or an exception is read; promises that never settle | payload code is always under a deadline; fatal failures stay fatal; calls return |
| Module loader (`module_loader.rs`) | root, last recorded error | `normalize_callback`, `load_callback`, `take_error` | the recorded error outlives the import it belongs to | the reported error is the cause |
| Bridge functions (`bridge.rs`) | Bridge state | `invoke`, `retain`, `release`, `callback_guard` | conversion of arguments runs payload code; pending exceptions are dropped | an interrupt is not lost |
| `QuickJsRuntimeProvider` (Java) | session map, under one monitor | load, enable, disable, invoke, invokeHook, unload, close | several launcher threads, shutdown that fails, close against a waiting load | one command at a time per process, no process out of reach |
| `QuickJsRuntimeHostPlugin` (Java) | registration | `onLoad`, `onUnload` | close that fails, reload | nothing left after unload |
| Protocol messages (`aura-runtime-protocol`) | none | `Message::new`, `to_wire`, `from_wire`, `read_frame`, `write_frame` | truncated input, limits | only valid messages get in or out |
| Bridge Value codec (`aura-bridge-value`) | counters, within one call | `to_wire`, `from_wire` | depth, count and size limits, kept on each side | decoding inverts encoding, only canonical bytes are accepted |
| JavaScript values (`value.rs` of the engine) | objects being converted | `to_raw`, `from_raw` | objects that are shared, contain themselves or change while they are converted | a value handed out and back is the same, a cycle is refused |
| Descriptor, path policy (`descriptor.rs`, `path_policy.rs`) | package root | `read`, `resolve_module`, `normalize_*` | three normalisers of names, links | nothing outside the package |

Tools, CI, examples and typings keep no state and are left aside.

## Modules

| Module | Models | State and actions |
| --- | --- | --- |
| `ProcessServer` | `server.rs`, `guest_engine.rs`, `error.rs`, the direction rules of `lib.rs` | `pc` is where the thread is in `serve`; `reader` the reader lock; `state`, `plugin`, `poison`, `nextId` the fields of the same meaning; `input` the pipe, `outFull` says that the output pipe has no room until the driving process reads (`ParentRead`). `LockReader`/`Read*` read a frame, `Handle*` are the branches of `handle`, `GuestReturn` ends a lifecycle function, `BridgeCall` (a step of the payload, in `Guest`) and `BridgeWrite` ... `BridgeEof` (in `Bridge`) are the steps of `ProcessBridge::call`, `Finish*` the poison check and the response, `WriteOutput` the write of a frame in both, `ReadEof`/`Cleanup` are `close_on_eof` |
| `HostProtocol` | the promise of the Host to the process that drives it | accept, perform or refuse, answer; close; give up |
| `GuestContract` | the promise of the Host to the payload | which lifecycle function may run in which phase |
| `MCProcessServer` | values for TLC | |
| `QuickJsEngine` | `plugin.rs`, `runtime.rs`, and where `bridge.rs`, `module_loader.rs` and `value.rs` call payload code | `call` is the `run_with_deadline` in progress, `stack` the native frames below the running payload code, `promise` and `jobs` what `settle` looks at; one action per way the payload or the native code can go on |
| `RuntimeProvider` | both Java classes | `at` and `monitor` are the threads of the launcher and the Provider's monitor, `sessions` the map, `process` what each payload's process is doing; a synchronized method is an entering and a leaving action around the session's answer |
| `MCRuntimeProvider` | values for TLC | |
| `FrameStream` | `read_frame`, `write_frame`, `read_exact` of the protocol's `lib.rs` | `stream` is every byte written, `writing` what `write_frame` has left, `got` what the reader has of the next frame, `reader` its verdict, `log` the frames begun. `Begin`/`Refuse`, `WriteSome`, `Close` are the writer's, `ReadSome`, `ReadEnd`, `RejectLength`, `Return`, `RejectBody`, `ReadFails` the reader's |
| `MessageChannel` | the promise of the two to both ends of a pipe | a first-in first-out channel that tells whether the last message was cut short |
| `MCFrameStream` | values for TLC | |
| `BridgeValue` | `to_wire` and `from_wire` of the Bridge Value codec | the Rust call stack of `Encoder::value` is `work`, that of `Decoder::value` is `open`; `count` and `content` are the counters passed along; one action for each step into or out of a value |
| `ProcessMessages` | `Message::new`, `to_wire`, `from_wire` and `MessageBody` | a table of the fields of each kind; `message` is the one that was encoded |
| `ScriptValues` | `to_raw`, `from_raw` of the engine's `value.rs` | `heap` is the payload's objects, `frames` the call stack of `from_raw_inner`, `visited` its set; `PayloadChanges` and `PayloadThrows` are the payload's code when an object is looked at |
| `MCProcessMessages` | composes the three, with values for TLC | a value goes from the encoder to the decoder, or the other way, and from the decoder into a payload's hands and back to the encoder |
| `PackageFiles` | `descriptor.rs`, `path_policy.rs`, the names and files of `module_loader.rs` | `reads` is the files that were looked into, `modules` those QuickJS has; `ReadDescriptor`, `LoadRoot`, `Import` |
| `MCPackageFiles` | a file system for TLC | |
| `ProcessServerProofs`, `QuickJsEngineProofs`, `RuntimeProviderProofs`, `FrameStreamProofs`, `BridgeValueProofs`, `ScriptValuesProofs`, `ProcessMessagesProofs`, `PackageFilesProofs` | theorems | |

How they fit together. `ProcessServer` implements `HostProtocol` and `GuestContract`, and `FrameStream`
implements `MessageChannel`, by the refinement mappings at their ends. `ProcessServer` takes the
channel for granted: its `input` is a sequence of whole frames, an end or something unreadable,
which is what `MessageChannel` promises. `FrameStream` in turn takes bodies as constants that decode to
what was encoded, which is what `ProcessMessages` and `BridgeValue` are about. `QuickJsEngine` has
where a conversion may run payload code and how it fails, `ScriptValues` what it makes of the
payload's objects. The bodies of messages are left out of `ProcessServer`, except for the length
of a diagnostic, which a property is about.

What is abstracted. In `BridgeValue` a token stands for the bytes that are read together (a value
without entries, the head of a container, a key); anything else is `Other`, which the decoder
refuses. Texts are model values with a size. In `FrameStream` bytes are bytes, and so is the length
in a header. In `PackageFiles` a path is the sequence of its parts, links and `canonicalize` are a function
on those, and a descriptor is its fields or unreadable.

What the environment may do. The process that drives the Host writes any frame the protocol can
carry or bytes `read_frame` refuses, dies in the middle of a frame, and closes either pipe, at any time; it may also keep
the output open and never read it, which makes a write wait for ever once the pipe is full, or leave a callback unanswered for
ever. The payload does anything JavaScript can do, run for ever included. In `QuickJsEngine`, where interrupts are
modelled, it cannot catch one, in async functions and jobs neither, and QuickJS goes on polling: that is an assumption
about QuickJS, an external crate, which nothing in this repository shows. The package does not change while the payload runs. Launcher threads call a registered Provider in any order with any handle; a start
that fails leaves no process; a process may die at any time. A reload makes a new Provider.

## Runs

| Run | Shows |
| --- | --- |
| `ProcessServerAnyParent` | `ThreadDiscipline`, `EngineMatchesState`, `CleanExitReleases`, `FramesAccounted`, `PoisonSilences`, and that the two abstract specifications are implemented |
| `ProcessServerProgress` | `CommandsAnswered`, `PoisonEnds`, `ClosedInputEnds`, with three exceptions stated in them (see Fairness); `TypeOK` and `CallbackIdsFresh` with `MaxId = 5`: two identifiers, then exhaustion, then the wrap at 12, all within the seven calls allowed |
| `ProcessServerDiagnostic` | violated: a long diagnostic cannot be sent |
| `EngineCalls` | `TypeOK`, `PayloadIsBounded`, `DeadlineIsHonest`, `CallsReturnUnlessAbsorbed` |
| `EngineAbsorbed`, `EngineModuleError`, `EngineInterrupt` | violated, see below |
| `ProviderCalls` | `TypeOK`, `OneCommandAtATime`, `NoOrphanProcess`, `UnloadEnds` |
| `ProviderLateLoad` | violated, see below |
| `FrameStream` | `TypeOK`, `Delivered`, `VerdictIsRight`, `ReaderEnds`, and that `MessageChannel` is implemented, for every split of the bytes and a writer that dies anywhere |
| `ProcessMessages` | of the codec `Bounded`, `RoundTrip`, `Canonical`, `LimitsExact`; of messages `MessageArrives`, `NothingLost`; of JavaScript objects `PathsAreSimple`, `Unfolds`, `HandedBack` |
| `PackageFiles` | `Contained`, `RootLoads`, `SamePolicy`, `NamesResolve` |

Bounds and why they are enough:

- `MaxFrames = 6` frames in a behaviour: the shortest full life is five commands (Hello, Load,
  Enable, Disable, Shutdown), so that each lifecycle state is reached with one frame to spare, for a
  callback answer, a repetition or a command out of place. In `ProcessServerProgress` it is 4: Hello, Load, Enable and one
  more command, or a command with answered callbacks, after which the input may be closed; what it asks is
  whether one command, once taken, is let go, whatever follows.
- The output pipe has no capacity: after each frame it is full or not, so every size and every amount of reading is covered.
- `ProcessServerProgress` has no `CallbackError`, which `Answers` treats like an empty `CallbackResult`.
- `MaxQueue = 2` waiting frames: one that is taken for an answer and one behind it. The runs
  with liveness use 1: the thread takes one frame at a time, and more cannot block it.
- `MaxCalls = 2` Bridge calls of a lifecycle function: the second one is made by a guest whose first
  one poisoned the server. It stands for the deadline, which bounds the calls a function can make.
- `ReplyIds = {2, 4}`, `RequestIds = {1}`: the identifier of a command matters by its parity only; a
  callback needs one right answer and one wrong one.
- `MaxDepth = 3`: a conversion or job, a Bridge call in it, and the text of an exception in that. A
  deeper frame behaves as the one below it: each action looks at the top and at the bottom only.
- `MaxJobs = 1`: an empty and a nonempty queue; a job has left it when it runs, and may queue another.
- Two launcher threads: one inside a call, one waiting or unloading the plugin. Two payloads: one
  affected, one not. `MaxLoads = 2`: a Provider and its successor, while calls on the first go on. More
  threads are the theorems' matter. Symmetry is not used, for the runs also check liveness.
- `FrameStream`: `MaxFrameBytes = 2` has a shortest frame, a longest one and one too long; the bodies
  and the junk have bytes that could be taken for a header. Three frames or refusals: one before, one
  at and one after whatever goes wrong. The header is four bytes, as in the code.
- `ProcessMessages`: the limits are small enough (depth 2, ten values, four entries, three bytes of text, fourteen
  of content) that values lie on both sides of each, alone and together. Messages are all kinds with
  the extremes of each field, which `MaxId = 4` and `MaxMessage = 2` make small. Bytes are whole
  messages with one token changed, left out or added, and short openings with any continuation up to
  four tokens. Objects are three arrays or maps, with all ways of holding each other that two
  references an object allow, and two changes by payload code: one inside a conversion, one after it.
- `PackageFiles`: one package, reached by a link; a link into it, one out of it and one to nothing; names with
  every part the normalisers treat specially (empty, `.`, `..`, an unusual character, no stem, no extension).

Deadlock is checked of `QuickJsEngine`, where none exists: some entry, return or tick is always
possible. It is not checked of the others, which really stop: a Host that has ended, a plugin
that stays unloaded, a value that was converted, a package whose modules are all loaded.

Fairness:

- `ProcessServer`: weak fairness of the Host's own steps, `Serve` and `Bridge` (`FairSpec`): the operating system runs the
  thread. Nothing makes a lifecycle function return (`Guest` has no fairness), nor the driving process write, read
  or close. The properties therefore name what else can hold the thread, for ever and from some moment on:
  `GuestRuns`, a lifecycle function that does not return; `OutputUnread`, a response or callback request that waits for
  room in a pipe that is neither read nor closed (`server.rs:96`, `:272`); `CallbackUnanswered`, a callback with neither an
  answer nor the end of the input (`server.rs:282`; not an exception in `ClosedInputEnds`, where the input has ended).
  None of the three is excluded by this repository's code: a payload that absorbs its interrupts
  (disagreement 2 below) is a case of the first, and the Host's reads and writes have no deadline. Only the driving
  process can help: the Provider hands its session a timeout for an invocation and closes it at unload (`QuickJsRuntimeProvider.java:126`, `:171`),
  but what `RuntimeProcessSession` does then is outside this repository.
- `QuickJsEngine`: time passes; the plugin's own code runs; QuickJS calls the interrupt handler again
  and again while payload code runs (strong fairness, since payload code stops and goes on); a Bridge
  call is answered, which takes a driving process that reads the request and answers it. The polling is an assumption
  about QuickJS. The payload itself is not assumed to do anything.
- `RuntimeProvider`: a thread that holds the monitor goes on, because `RuntimeProcessSession` is taken to have a
  deadline for each exchange. Nothing is assumed of who gets a free monitor.
- `FrameStream`: weak fairness of the reader (`Progress`), which loops until it has a frame or a verdict.
  Nothing is assumed of the writer, nor that a read fails.

## Disagreements between the code and what it says

1. `ProcessServerDiagnostic` (`server.rs:377`). A diagnostic is cut to 4096 bytes and then gets its
   code in front; `Message::new` refuses more than 4096. A failed load with a long message (a
   descriptor with a long unknown field name, which the JSON parser quotes) ends the process.
2. `EngineAbsorbed` (`bridge.rs:287`). An interrupt that hits while the arguments of a Bridge call are
   converted is discarded, and the payload goes on past its deadline. A payload that does nothing
   else never returns.
3. `EngineModuleError` (`plugin.rs:44`). A recorded import error, caught by the payload, replaces a
   later fatal failure of the evaluation, and the Host answers it and goes on.
4. `EngineInterrupt` (`runtime.rs:208`). The interrupted flag is read before the exception's text,
   whose conversion runs payload code: an interrupt there is reported as `guest-exception`.
5. `ProviderLateLoad` (`QuickJsRuntimeProvider.java:85`, `:178`). A load that waits for the monitor while
   the plugin is unloaded starts a process that nothing closes.

## Theorems

| Module | Theorem | States |
| --- | --- | --- |
| `ProcessServerProofs` | `TypeCorrect` | `TypeOK` and `ThreadDiscipline` |
| | `EngineAgrees` | `EngineMatchesState` |
| | `IdsFresh` | `CallbackIdsFresh` |
| | `NoFrameLost` | `FramesAccounted` |
| | `CleanExit` | `CleanExitReleases` |
| | `PoisonIsFinal` | `PoisonSilences` |
| | `Disciplined` | `ThreadDiscipline` |
| | `GuestContractHolds`, `HostProtocolHolds` | `ImplementsGuestContract`, `ImplementsHostProtocol` |
| `QuickJsEngineProofs` | `EngineTyped`, `PayloadAlwaysBounded`, `DeadlineAlwaysHonest` | `TypeOK`, `PayloadIsBounded`, `DeadlineIsHonest` |
| `RuntimeProviderProofs` | `ProviderTyped`, `CommandsExclusive`, `NoOrphan` | `TypeOK`, `OneCommandAtATime`, `NoOrphanProcess` |
| `FrameStreamProofs` | `FramesTyped`, `FramesDelivered`, `VerdictsRight`, `FramesAreAChannel` | `TypeOK`, `Delivered`, `VerdictIsRight`, `ImplementsMessageChannel` |
| `BridgeValueProofs` | `DecoderBounded`, `ValuesComeBack`, `ReadIsWritten` | `Bounded`, `RoundTrip`, `Canonical` |
| `ScriptValuesProofs` | `PathsSimple`, `UntouchedComesBack` | `PathsAreSimple`, `HandedBack` |
| | `LimitsAreExact`, `ObjectsUnfold` | `LimitsExact`, `Unfolds` |
| `ProcessMessagesProofs` | `MessagesArrive` | `MessageArrives` |
| | `NoEntryLost` | `NothingLost` |
| `PackageFilesProofs` | `ReadsAreContained` | `Contained` |
| | `AcceptedRootLoads`, `OnePolicy`, `ImportsResolve` | `RootLoads`, `SamePolicy`, `NamesResolve` |

They hold for all values of the constants that the modules' assumptions allow, bounds included: any
identifier range, any number of frames, threads and payloads, any nesting depth, any values, any bytes, any file system, any names.

- `ProcessServerProofs`. The inductive invariant of the first is `TypeOK` with `ThreadDiscipline`: the type
  of `request` or `callback` alone does not survive a step, since what a step assigns depends on where
  the thread is. `EngineAgrees` adds `EngineMatchesState` itself, which is inductive relative to it, for a
  lifecycle function's success moves `state` and `plugin` together. `IdsFresh` needs that the counter is
  even and above every identifier issued, unless the server is poisoned: exhaustion poisons before the
  counter wraps. It speaks of one Bridge: each load that reaches the engine starts the identifiers anew (`server.rs:170`). `NoFrameLost` and `PoisonIsFinal` follow from the discipline, step by step.
- `QuickJsEngineProofs`. `DeadlineCoversCall` (a call in progress has a deadline, and payload frames only
  exist in a call) strengthens `PayloadIsBounded`. For `DeadlineIsHonest` it says that the
  interrupted flag of a call in progress implies that its deadline has passed, which is what
  resetting the flag in `run_with_deadline` is for.
- `RuntimeProviderProofs`. Being inside a session implies holding its Provider's monitor, and each
  payload belongs to the one Provider that started it; hence two threads inside sessions of one
  payload are one. The identifier a waiting load has drawn is nobody else's and its process does not
  exist, so that a start never takes over a process. `NoOrphan` is inductive relative to these.

- The refinements, in `ProcessServerProofs`. Each action of `ProcessServer` is shown to be one action of the abstract
  specification or a stutter, from its inductive invariant: that the server's state
  and the payload agree decides which abstract step a lifecycle function is, and the discipline says
  that a response is only written for the command that was taken.
- `FrameStreamProofs`. `IInv` says where every byte belongs: the frames of the log lie end to end in the
  stream (`LogInv`), `got` is the last bytes taken (`GotInv`), and these are the beginning of the frame
  after those that were returned (`ReadInv`). That a header's four
  bytes give its length back is a lemma on division. All of it is claimed only while the
  writer uses `write_frame`, since bytes of another writer may look like anything.
- `BridgeValueProofs`. `Bounded` needs that the frames of the stack are well formed and that each frame
  but the last waits for an entry; a frame is entered only below the limit on depth.
  The other two theorems are about whole trees, and no induction over trees is used: the
  invariants compare the two machines step by step. A road is a set of states of the encoder, each with the state
  it goes to. `InStep` says when a state of the decoder is in step with one of the encoder: what is written is what
  was read, the counters are equal, and each frame of one stack holds what is left of the same container as the frame
  of the other. For `ValuesComeBack` the road is built while the encoder runs and must reach the whole
  output; the decoder then follows it, since what it reads next is what the encoder wrote next, and the
  limits it checks are those the encoder checked in the state that it is in step with. It needs that what is encoded
  is a value (`ValuesAssumption`: leaves with no items, maps with as many keys as items, items that are
  values again). For `ReadIsWritten` the road is built backwards: each step of the decoder has a state of the
  encoder before it, which would have written just that (`LeafPrecedes`, `ContainerPrecedes`, `KeyPrecedes`,
  `LeavePrecedes`); when the encoder starts with the decoded value it is at the beginning of the road, and since it
  has only one way to go it follows the road to the end and is never refused.
- `ScriptValuesProofs`. `PathsAreSimple` is
  inductive once the call stack is known to be a sequence: an object is entered only if no frame has
  it, so that leaving it takes it, and nothing else, out of the set. `UntouchedComesBack`
  takes a road of the encoder, as above: a value that was written or read has one. `from_raw` is at a state of
  it (`Mirrors`): a frame for each container, holding the entries converted so far, and the object of each named by the
  place of the container in the value (`Located`). Then each step of the road is a step of `from_raw` (`Converts`), whose
  checks hold since the value is one Rust can hold (`HeldAssumption`, which is about the values and tokens given, is
  carried through the decoder by `Material`), and since an object's place is longer than those of the frames around it, no
  cycle is suspected. The encoder takes the same road a second time. What is at a place is a recursive function,
  shown to exist by `Counting`.
- `LimitsAreExact`, in the same module. What a limit means is said of a value as a whole: how many places it has
  (`Everywhere`), how many bytes its texts and keys have (`Bytes`), how deep its deepest place is. The counters
  of the code are added up along a recursion instead. The invariant of the encoder (`Measured`) gives its position a
  place in the value, and says which places and parts are behind it, those of the entries
  already written of each container on the stack and all within them (`Gone`, `Met`, `Passed`); `count` and `content` are the
  cardinalities of these sets, and all behind is as it should be. A leaf or an opened container adds its one place
  and its own bytes. At the end everything is behind; when the encoder refuses, what is behind with the next part is over
  a limit or at fault, and is part of the whole. The decoder needs no argument of its own: in step with an encoder of whatever it
  may be reading (`Counted`, by the lemmas that also give `ReadIsWritten`), it has that encoder's counters. For a payload's own objects
  `Making` says that what `from_raw` has made so far are values. It rests on `TextsAssumption` and
  `ObjectsAssumption`: every text among the constants has a size, each map has as many keys as items, references are to
  objects of the heap, and there are finitely many of these.
- `ObjectsUnfold`. `Unfolding` gives values to objects level by level: those with no references, those that refer to the former
  only, and so on, as often as there are objects. `UnfoldingWraps` shows that one more level would add nothing: each level adds an
  object or is the last. So when all items of a container are converted to what they unfold to, it has an unfolding
  itself, and it is what `from_raw` makes of it (`FrameUnfoldsWhole`). `Unrolling` says this of all frames, and that each waits for the
  object of the next one in (`Awaits`); hence each contains those further in, and an object that is found in `visited`
  contains itself (`SourceReachable`). It is claimed until payload code changes an object.
- `ProcessMessagesProofs`. A phase invariant ties the value that is given, and so what `RoundTrip`
  says comes out, to the message, which is shown to be a value; the rest is that looking up a name in the map
  `to_value` writes gives the field of that name. `NoEntryLost` needs that keys are distinct, which the
  decoder's stack invariant gives, and that distinct keys matched by as many names are matched one to one.
- `PackageFilesProofs`. For `Contained`: both places that read have just checked the canonical path against the
  root. `OnePolicy` leaves out the import of a module called `.mjs`, where the two do disagree (`Path::extension` sees no
  extension there). All but the first rest on `NamesInv`: the module to load is the one the descriptor named, and every module has a name
  of whole parts. A walk over the parts of a text is a recursive function; that it exists, and what it
  computes, is shown by counting to the length of the text (`Counting`, from the well-foundedness of
  strict inclusion). For `OnePolicy` the two walks, one from the importing module's directory and one from the
  root through it, are joined (`WalkJoins`), and the one that skips empty parts agrees with the one
  that refuses them (`WalksAgree`). For `ImportsResolve` each step of a walk keeps the landmark of each depth (`LeadsOn`).

Model-checked only: all liveness (`CommandsAnswered`, `PoisonEnds`, `ClosedInputEnds`, `CallsReturnUnlessAbsorbed`,
`UnloadEnds`, `ReaderEnds`), since the prover has no rules for fairness. Every other property of the passing runs is
a theorem. The five that are violated are shown by counterexamples.

## Not modelled

- `RuntimeProcessSession` and the rest of Aura: not in this repository, modelled by what its users rely on.
- Within a value: the bytes of numbers, texts and floats, and the tags. Within a file: JSON and JavaScript.
  The codec's limits and `from_wire`'s verdicts are modelled, its error codes are not.
- A package that is changed while the payload runs: between the check of a path and the read of it
  (`module_loader.rs:55`) the code has no promise to keep.
- How much time and memory a conversion takes (`value.rs:277` of the engine).
- The lock poisoning of Rust mutexes and panics: a panic in the Host ends the process, and
  `catch_unwind` in the callbacks turns one into a failure that is modelled.
- Memory and reference counting at the QuickJS interface.
- An interrupt that QuickJS turns into a rejected promise, except when it evaluates a module (`EvaluationRejected`), the one
  place where it is known to: of async functions and jobs it is assumed to stay uncatchable.
- Getters on the entries of a map iterator that the payload patched, and entries that are not pairs (`value.rs:398-408`):
  in `ScriptValues` a map's entries are those the object has, and payload code runs when the object is looked at.
- What the reader of `FrameStream` would do after an invalid frame. `serve` reads no more; a poisoned payload that calls
  the Bridge again does (`server.rs:282`), which `ProcessServer` has, with frames or something unreadable in place of bytes.
- The owner checks of `ProcessBridge` (`server.rs:307`, `:330`): their arguments come from the same `load`.
- Tools, CI, examples, typings.

## Plan

1. Done: `ProcessServer` with its abstract specifications and the proofs that it implements them, `QuickJsEngine`,
   `RuntimeProvider`, `FrameStream` with `MessageChannel`, the codec, messages, JavaScript values, the package.
2. Done: theorems for every safety property and refinement of the passing runs.
3. Still worth having: the composition of `RuntimeProvider` with `HostProtocol`, in which a session drives an abstract
   Host, to show that what it sees is what the Host promises.
