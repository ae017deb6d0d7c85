# Verification of the grevir workspace

This directory holds TLA+ modules of the programs in this repository, the TLC
configurations that check them on small instances, and proofs, checked by
TLAPS, of what they promise for instances of any size. `PROJECT.json` maps every
definition to the lines it stands for and lists runs, hazards and theorems.

    tlc -workers 2 -config bridge.cfg MCEventBridge   # a run
    tlapm EventBridgeProofs.tla                       # a proof

Contents: 1 the system, 2 modules and code, 3 the runs, 4 bounds, 5 fairness,
6 the proofs, 7 what was found, 8 what is not modelled, 9 the plan.

## 1. The system

The repository is a workspace. The libraries (grevir-core, grevir-interrupt,
grevir-peripherals, grevir-registers, grevir-irqgen, ...) are separate
repositories that `gwz.conf` lists; what lives here is the design documents, the
prototypes and checks of the interrupt architecture (`scratch/`), the boards and
sketches of the examples (`docs/examples/`), the generator of the AVR API
(`dev-docs/avr_api_gen.py`), the probes that run firmware under simavr
(`avr-probe/`) and the checks of the timer allocator
(`experiments/timer-allocation`). Where a program here calls one of the
libraries, the modules take the library as the callers use it and the checks
demand it; such definitions are marked external in the map.

| Component | State it keeps | Operations | Interacts with |
| --- | --- | --- | --- |
| Event dispatch bridge, `scratch/event-dispatch-bridge` | a ring of records with read, write and count; a pending mark per event | `fire` (in an interrupt): raw handler, direct handler or post; `dispatch_one` (main loop) | the interrupt calls the dispatcher, which calls the handler or the backend; the main loop calls the handler through a record |
| Interrupt generation round trip, `scratch/interrupt-detector` | files: catalog, plan, discovery source, object, manifest, two generated sources | `prepare`, compile, `inspect`, `emit`, strict compile | the commands communicate only by files, which a developer edits between and during them |
| Application start and sketches, `scratch/interrupt-implementation-gates`, `docs/examples/interrupt-*` | the phase of the start, its outcome, the sources' state, the sketch's flags | `start()` by several tasks, the hooks of the board, the entries, `dispatch` | the runner calls the hooks; the entries post to the queue; the sketch polls start and then dispatches |
| Boards and their events, same directories | timer and controller bits, pending interrupts, the main-loop queue with its overrun | the hooks as writes, interrupts, `post_from_isr`, `dispatch(n)`, the mains and sketches | interrupts come between any two writes; the queue is filled by interrupts and emptied by the loop |
| Interrupt allocation of the boards and probes, same directories | an inventory of timers and sources, the selected plan | select a plan; accept or refuse a given one | the plan decides what the generator and the board bind |
| Timer allocation checks, `experiments/timer-allocation` | the configuration of a request; problem, path and visits of the search | fold the options; try, backtrack, finish | the folded configurations are the problem the search solves |
| Duty writes and the register barrier, `atmega328p_checks.cpp`, `handler_allocation.cpp`, `pwm-host.cpp`, `avr_bindings.hpp` | timer registers, the TEMP latch, SREG | duty writes by `main()` and by a handler | both use the latch and the mode register of one timer |
| Macro sets, `avr_api_gen.py` `Archs` | macro pairs with the architectures that define them, `id_maps`, `macro_table` | `add` per dump, `process` | reads the dumps of the runs below |
| Board options, `avr_api_gen.py` `OptionsFile`, `ArduinoBoards` | a tree of options, the boards made so far | `add` per line, `traverse`, `getBoard`, `getBoards` | the traversal calls the observer per value |
| Runs of the generator, `avr_api_gen.py` `main` | the files of earlier runs; results and names of this one | dump per board, read back, headers per architecture, including header | compiler processes; files that outlive the run; people who edit one of them |
| Interrupt probe, `avr-probe/sim` | the machine (flag, I bit, handler, result) and the cycles the host recorded | one simulated instruction; one turn of the host's loop | the host reads the machine before and after each instruction |
| Other probes, `avr-probe/sim` | memory and timers of the firmware; how the command ended | accesses of smoke, ocr, latch, packet and pulse; the host's loops | as above |
| Round-trip check of grevir-irqgen, ownership at link time, platform strings, configuration | see section 8 | | |

What is hard to get right here, and where:

- **Interrupts between two statements.** A fire may come between the dequeue of
  a record and the call of its handler, in the middle of the bookkeeping of the
  ring, during each hook of a start, between the test of an overrun and its
  clearing, between the bytes of a 16-bit register.
- **Elision.** A mark stands for a fire; clearing it too late loses a fire,
  never clearing it silences an event, clearing it too early duplicates it.
- **Stale files.** Four commands pass six files along, while any input changes;
  a digest, an id check and the compiler itself decide what is accepted.
- **Partial failure.** An `emit` killed between its two files; a start whose
  third hook fails; a header truncated before the value it needs is looked up.
- **Callers in parallel.** Several tasks call `start()`, before, during and
  after the one setup; two policies decide what a late caller gets.
- **Observation.** A monitor that samples a machine per instruction reports the
  order of events that may fall into one sample, or reads a half-written answer.
- **Order of declarations.** Options, requests, candidates, lines and groups
  come in any order, and the answer must not depend on it.

Per component, what makes it correct (the definitions are in the modules):

| Component | Correct when |
| --- | --- |
| Event bridge | ring and marks agree (`MarksMatchQueue`, part of `BridgeInv`); a fire that is not dropped is followed by a handler start (`NoLostFire`, `EventuallyServed`, `FireNeverStranded`, `EveryFireAnswered`); a drop needs a ring full of other events (`DropsOnlyWhenFull`); a wait is bounded (`BoundedWait`); the ring is a FIFO queue of distinct events (`RefinesQueue`) |
| Round trip | what links has one ISR per handler and one owner per vector and source (`BuildBindsHandlers`, `OneOwner`); emit writes what discovery saw (`EmitsWhatWasDiscovered`, proved); a build never uses an earlier one's output and becomes current (`EveryBuildBindsHandlers`, `NoStaleOutputBuilt`, `EventuallyCurrent`) |
| Start | no entry runs before it is prepared for (`ReadyBeforeDelivery`); failures leave nothing running (`FailureIsContained`); one final verdict for all callers (`OneVerdict`, and `Terminal`, proved); no raise lost (`NoRaiseLost`, `RaisesAreAnswered`); every call returns (`CallsReturn`); work only after success (`WorkAfterSuccess`, proved) |
| Boards and events | no interrupt before the queue is ready, nothing left on after a refused start (`ReadyBeforeInterrupts`); the mains pass (`MainsPass`); no silent drop (`DropsAreReported`); an overflow that is due is pending, queued or the next callback until its handler is called (`OverflowsAreHeld`), and is answered (`OverflowsAreAnswered`) |
| Interrupt allocation | the plan binds what is offered, once, and any tampering is refused (`PlansAreSound`); each board and probe gets the answer it asserts (`CasesAnswered`, part of `ChecksAreMet`) |
| Timer allocation | the search is the brute force (`OracleAgrees`), the checks get their answers and declarations mean what they assert (`ChecksAreMet`: `CasesAnswered` and `DeclarationsMeanWhatTheyAssert`), whatever the order of the options (`OrderIsImmaterial`) |
| Duty writes | no register holds halves of two words (`WritesAreWhole`), the interrupt flag survives a barrier (`InterruptsRestored`), an output shows one call (`OutputsFollowACall`) |
| Macro sets | the result is independent of the order of files and groups (`MapsAreSupersets`) |
| Board options | a variant inherits from its board whatever the order of the lines, and the board is then left out (`VariantsInherit`) |
| Generator runs | no stale dump is read, a finished run is complete, includes resolve, a header for manual changes is left alone once it exists (`ReadsOwnMacros`, `DoneMeansFresh`, `IncludesExist`, `ManualChangesSurvive`) |
| Interrupt probe | a PASS is true, in order and never missed (`PassMeansHandled`, `AnswerIsReported`) |
| Other probes | a PASS is evidence, a FAIL is deserved (`PassIsEvidence`, `FailIsDeserved`) |

## 2. Modules and code

| Module | Models | Built on |
| --- | --- | --- |
| `EventQueue` | abstract: what the deferred half of the bridge promises | |
| `EventBridge` | the bridge with posts and dequeues atomic, handlers outside | refines `EventQueue` |
| `RingStatements` | `MockBackend` statement by statement, with an interrupt mask | refines `EventQueue` |
| `IrqDetector` | the commands and files of the round trip, in any order | |
| `IrqBuild` | the same commands as a build whose failures are fatal | extends `IrqDetector` |
| `AppStart` | `start()`, hooks, sources, queue and sketch | |
| `BoardHooks` | every board's hooks and every program, as sequences of operations | |
| `BoardEvents` | the machine that runs such a program under interrupts | extends `BoardHooks` |
| `FrequencyWindows` | ratios, windows of rates and their intersection | |
| `RequestConfig` | options, sections, and how one option changes a configuration | extends `FrequencyWindows` |
| `RequestOptions` | the fold of a declaration's options, in every order | extends `RequestConfig` |
| `PwmProblems`, `PwmCases` | the fixtures and cases of the timer allocation checks, their validation and expected answers | extends `RequestConfig` |
| `IrqProblems`, `IrqCases` | the inventories of the boards and gates, valid plans, tampered plans, expected answers | |
| `CandidateSearch` | the search, over problems in canonical form; `OracleAgrees` is the brute force it must equal | |
| `TimerAllocation` | the search asked the cases | extends `CandidateSearch`, instances `PwmCases`, `IrqCases` |
| `PwmRegisters` | timer registers, barrier, duty writes, the check programs | |
| `MacroArchs` | `Archs.add` and `Archs.process` | |
| `BoardOptions` | `OptionsFile`, `traverse`, `ArduinoBoards` | |
| `ApiRuns` | `main` and everything it calls that writes a file read later | |
| `SimIrq` | `irq.cpp` under `cmd_irq` | |
| `SimProbes` | `main` of the host, its other commands and their firmware | extends `SimIrq` |
| `MC*` | the constants of a run where a cfg cannot say them; `MCGenerator` and `MCAllocation` put parts that share no state into one run (`part` says which one moves) | |
| `*Proofs` | the theorems of a module; `BoardProofs` those of `CandidateSearch`, `RequestOptions` and `BoardEvents` | |

**EventBridge.** `records`, `read`, `write`, `count` are the members of
`MockBackend`; `pending` is `MockEventState<Event>::pending`. A record is the
event whose callback and mark it holds. `FireDeferred` is `fire` down to the
three results of `post_from_isr` (`Elide`, `Drop`, `Accept`); `FireInIsr` and
`ReturnFromIsr` run a handler in the interrupt. `Dequeue`, `Invoke`, `Return`
are `dispatch_one`: the record is copied and its mark cleared, then the handler
starts, then it returns. `owed` and `lag` are history variables. That posts and
dequeues exclude each other is what `mock_backend.hpp:16` asks of a target;
`RingStatements` takes that apart: `pc` is the statement of `dispatch_one`,
`Masked` the statements with interrupts off, `--count_` a load and a store, `Invoke`
the call of the handler and `Return` its end.

**IrqDetector, IrqBuild.** A file is the data it carries and a digest is the
catalog itself. Only successful commands are steps, because a rejected input is
found before anything is written; `emit` is two steps (`EmitHeader`,
`EmitSource`) around which `KillEmit` may come. `StrictBuild` accepts what the
C++ of `api.hpp`, `handler.hpp` and the generated sources accepts: a handler
needs a detector, an ISR needs a handler. `seen` and `torn` are history.
`IrqBuild` adds `stage`, the next command of `check_binding_set.py`; a command
fails when it is not enabled. One shell runs the commands: two builds in
parallel over one directory are not modelled. Entries of a catalog or plan that
repeat exactly collapse in a set; JSON syntax, the schema and the spelling of
names are rejected before any write and are left out.

**AppStart.** The runner belongs to grevir-core; its phases are taken from the
boards that serve it, from `mock_start_test.cpp`, which fixes the order of the
hooks and what each failure leaves, and from the sketches. `step` is the next
hook, `broken` and `rejecting` choose the hooks that fail, `Deliver` is an
entry (acknowledge, then the direct handler or a post), `Dispatch` a callback of
the main loop, `finished` and `started` the flags of the sketch. `waits` tells
`HostStartPolicy` from the ESP32 policy. Here the queue holds every source's
event, refuses posts while stopped and elides; capacity, streams, budgets and
overruns are the subject of `BoardEvents`. A queue that fails to be prepared
(`event_context_failed`) and a hook that calls `start()` itself are not
modelled.

**BoardHooks, BoardEvents.** A hook of a board is the sequence of its writes to
bits of a timer or a controller: `clock` (the timer runs), `irq` (its interrupt
is enabled), `installed` (a handler is bound) and the processor's `global` flag.
A write that a driver may refuse is a `Try`. `Start` puts the hooks in order,
with `Prepare` of the queue before them, and a program is that plus what its
`main()` or its `setup()` and `loop()` do. `BoardEvents` runs one program: an
action per operation, `Overflow` and `Serve` between any two of them. `Posted` is
`post_from_isr` under Elide and Stream; `DispatchOne` removes a record, and
`RunCallback` calls the handler afterwards. On the mock boards (`sync`) an
interrupt is taken before `raise()` returns (`MayRun`). `due`, `silent` and
`early` are history. Counter values, prescalers and the clean-up's own failure
are left out (the last is `AppStart`'s). `KeepsOrder` is what a program of the
boards keeps, and what the proofs of section 6 start from: the queue is made ready
before anything is posted or enabled (`QueueIsFirst`), no driver may refuse once an
interrupt is enabled (`EnablingIsLast`), a refusal takes back what the hooks may have
done (`CleansUp`), and a program writes out neither a callback nor the report or the
clearing of an overrun (`WrittenByHand`). TLC evaluates it as `ProgramsAssumption`.

**Allocation.** A declaration's options are folded one at a time, in any order
(`RequestOptions!Fold`, `RequestConfig!Applied`), into a configuration with an
error or a window; an option is a rate with its tolerance, a pin, a waveform or a
source, or one the target does not know and does not read (`IsOption`). `PwmProblems` validates a problem as the checks expect
(`refusal`), groups requests that share a module instance into units, and brings the
candidates into canonical order; `IrqProblems` does the same for event requests.
`CandidateSearch` then decides unit after unit: `TryCandidate` counts a visit and takes a
candidate that fits, `Backtrack` goes back, `Exhaust` gives up at the budget and
withdraws everything, `Conflict` and `Finish` are the two other ends. `AtMost`
compares ratios as a continued fraction (`Compared`, a recursive function over the
ratios), so nothing leaves 32 bits. The windows are grevir-peripherals' and are
modelled from what the checks evaluate. The checks reach the largest numerator and
denominator that README.md:129-130 of the experiment allows and never exceed them, so
that `ValidWindow` does not state these two bounds.
A plan that a gate edits is a plan that differs in one field
(`IrqCases!PlanIsSound` tries each).

**PwmRegisters.** `main()` and the handler are sequences of accesses: one byte of
a register, the load or the store of a mode register, a pin, or a step of
`IrqBarrier` (save SREG, cli, restore). `Interrupt` comes wherever the I bit is
set. Programs are the mains of the three files, and a motor that writes both
outputs while a handler writes one. Duty arithmetic (`Scaled`) is integer
arithmetic in steps that stay within TLC's range. `latest` is history.

**MacroArchs.** `Add` is one file; `Group` the first loop of `process`;
`Process` a turn of the second. The code sorts the groups; the model takes them
in any order, so that the results are shown not to depend on it. A key read
twice and the `__AVR_AT` exceptions are not modelled.

**BoardOptions.** `Load` is `OptionsNode.add` for one line of `boards.txt`,
`Observe` one value that `traverse` comes to. `Before` keeps the order that
sorting gives (`build` before `menu`); among themselves the menu entries come in
any order, a superset of the sorted one. Options outside `build.` are left out.
A second line for a path makes the load `invalid`, be it another value or the
same text again, which `copy` tells apart.

**ApiRuns.** A file is the run that wrote it and whether it is whole.
`RunBoard` is `runPreprocIncludes` (three compiler runs, all or nothing for the
macro file), `ReadBoards` the accounting of `main`, `CompileSpec`, `WriteSup`,
`WriteHand` the three parts of `run_dev_spec`, `WriteParent` the including
header. `SupFails` is the exception after the file was opened, `Die` any other
exception or a kill, with what was being written torn. Files nobody reads again
(preprocessed code, commands, cc macros, the accumulated macros) and the text
of the headers are left out, except the braces of the namespaces (`Braces`).

**SimIrq, SimProbes.** `avr_run` is one instruction of the firmware: `pc` tells
apart what the host's address ranges tell apart, `isr_first` both link orders,
`notifies` whether simavr has a notification for the vector. The overflow comes
only when `main` spins: it takes 256 cycles from the reset of TCNT0. `Observe` is
the rest of the turn of `cmd_irq`. `SimProbes` starts from `main` of the host
(usage, image, symbols) and runs one command. The firmware of the others is a
sequence of accesses; with Timer1 running, each access may come up to `MaxTicks`
ticks after the last. `hardware` says how the machine behaves: simavr, the
silicon, or a machine with the fault the probe is there to find.

## 3. The runs

| Run | Shows |
| --- | --- |
| `bridge` | three deferred, one direct and one raw event on a ring of two slots, the mock's capacity: fires are elided, dropped and accepted at every step of a dispatch; no fire is lost, waits are bounded, only a ring full of other events drops a fire, the ring implements `EventQueue` with its liveness, every event is served |
| `ring_statements` | interrupts between any two statements except load and store of `--count_`: that single exclusion suffices |
| `irq_shell` | the commands by hand in any order over right, swapped, clashing and repeated ids and over plans that share vectors or sources |
| `irq_build` | the build with edits and kills in the middle: exactly the handlers are bound, nothing stale is compiled, the program becomes current |
| `start` | a sketch and two more tasks under both start policies (the initial state chooses one), every set of failing hooks, raises at any time: one verdict, nothing early, nothing lost; under the ESP32 policy the sketch tries again from `loop()` |
| `board_events` | twenty programs of the examples and gates: boards with and without handlers, direct and deferred, sketches with the real and with a too small queue, the two-controller main with and without a stream; overflows pending from before or at any time, drivers that refuse: nothing is taken early, nothing left on, no drop silent, no overflow lost on its way to its handler |
| `allocation` | every case of the checks, boards and probes and the oracle's 512 graphs, requests in every order and candidates both ways, against the brute force and the answers that the checks assert (`ChecksAreMet`); every declaration, and every two windows of eight rates and five tolerances, in every order of the options |
| `pwm_registers` | the mains of the checks, and the motor with its handler for every two duties of four (a quarter, none, all, one tick), interrupts on and off |
| `generator` | macros: every assignment of three pairs to three architectures, every order; boards: every file with a board, two variants, two options and two values that assigns each path at most once, and each of these with one contradicting or repeated line, every order of lines; runs: two runs ended anywhere, three boards of which two share a file name, two architectures, edits at any time |
| `sim` | every command on every image and machine; for `irq` both link orders, with and without notification, every moment of the overflow |
| `sim_reti`, `api_parent` | violations: see section 7 |

Every property of a passing run has a mutant in `PROJECT.json`: a plausible bug
of the code, written as an operator next to the definition it replaces, under
which TLC finds the property violated.

`CHECK_DEADLOCK FALSE` stands where the program ends or waits for a person: the
files of `irq_shell` when the edits are used up; a `main()` that returned in
`board_events` and `pwm_registers`; a search or a fold with its verdict
(`allocation`); the generator, `sim` and `sim_reti` when the command is done.

## 4. Bounds

- Bridge: two slots and three events make the ring full, empty, wrapped and
  overtaken; one event more than slots is what it takes to drop one. The proofs
  of section 6 lift the bound.
- `MaxEdits = 5`: three edits fill the inputs and two change them, so every input
  can be changed between and within the commands of a build. Ids 1 and 2 and
  three types give a right, a swapped and a clashing catalog.
- Start: a sketch, and two further tasks that can wait or come late together; one
  direct and one deferred source; each hook may fail or not.
- `MaxRaises = 4` overflows per timer of `board_events`: a queue of two is filled,
  overrun and, after the overrun was reported, overrun again. `CallBound = 3`
  caps the count of calls, above what any main compares with. Capacity and
  budget are the boards' 4 and 4, and 1 or 2 with a stream to reach a full queue.
- Allocation: the problems are the checks' own. `MCRates` and `MCTolerances` are
  the rates and tolerances of `main()` of `frequency_checks.cpp` whose products
  stay within 32 bits.
- `pwm_registers`: four duties, because a duty is either nothing, everything, one
  tick or something between.
- `MacroArchs`: three architectures give equal, nested, overlapping and disjoint
  dumps, three pairs several groups for one architecture.
- `BoardOptions`: two variants show that one does not disturb the other through
  their common board; one field and one other option distinguish the making of
  a board from the setting of a field. The files (`MCOptionFiles`) assign each path at
  most once, or have one line more, contradicting or repeated: the load ends at the
  first such line, so that a second one is never read. The proofs cover all files.
- `MaxRuns = 2`: what one run leaves is what the next one finds; a third run finds
  nothing that a second could not.
- `Cycles = 14` for the 20000 of `cmd_irq`: the handler takes five instructions
  from its vector, which leaves room for the overflow early, late and too late.
  The other commands' limits are left open: they may run out at any step.
- `MaxTicks = 5` between two accesses of `ocr.cpp`: its window of 31 counts is
  met and left within it, and the 19 counts after the window cover the two
  accesses that must precede the new match. The timer counts once in 8 cycles, so
  five ticks are 40, more than an access takes; a firmware that is held up for
  longer than the margin is outside what the probe promises. The proof of section 6
  covers up to nine ticks.
- `MaxSends = 3` frames of the pulse sketch: the host asks for two.

## 5. Fairness

- `EventBridge!FairSpec`: an interrupt returns (weak). The main loop calls
  `dispatch_one` again and again and its handlers return; interrupts hold these
  steps back repeatedly, but an AVR executes one instruction of the interrupted
  code after each `reti`, hence strong fairness of `Dequeue`, `Invoke`,
  `Return`. `RingStatements` has only instantaneous interrupts and needs weak
  fairness of `dispatch_one`.
- `AppStart`: a setup goes on, a waiting call wakes, the sketch calls `start()`
  in `setup()` and `loop()` until it has a settled result, an enabled pending
  interrupt is taken, `loop()` dispatches. Nothing makes other tasks call or a
  source raise.
- `BoardEvents`: the processor goes on with the program (weak fairness of `Step`),
  and an enabled pending interrupt is taken (weak fairness of `Serve`). Nothing
  makes a timer overflow. `Step` is the next operation of the program; it waits
  only for an interrupt that is due, in a main that spins on its tick or on a mock
  board that is being interrupted, so it stays enabled otherwise.
- `IrqBuild`: builds are run again, their commands finish (weak), and not every
  emit is killed (strong fairness of `RunWrite`). Nobody has to edit.
- The other modules state no liveness.

## 6. The proofs

All proofs hold for every value of the constants that the named assumption of
the module allows (`BridgeAssumption`, `RingAssumption`, `DetectorAssumption`,
`StartAssumption`, `BoardAssumption`, `RunsAssumption`, `CyclesAssumption`,
`TicksAssumption`, `ProblemsAssumption`, `OptionsAssumption`, and a
`ProgramsAssumption` of `PwmRegisters` and one of `BoardEvents`; `MacroArchs` needs
none); TLC evaluates each assumption in the runs. Each proof module follows one
scheme: an inductive invariant, one lemma per action or group of actions, and the
properties as consequences.

| Module | Inductive invariant, and why the properties alone are not inductive | Proved |
| --- | --- | --- |
| `EventBridgeProofs` | `BridgeInv`: that `write` follows the queue, each live slot is marked, and `lag + position` leaves room; `MarksMatchQueue` says nothing of the free slot the next post writes | `TypeOK`, `MarksMatchQueue`, `NoLostFire`, `BoundedWait`, `DropsOnlyWhenFull` and its corollary `NoDropWhenSized`, and `RingImplementsQueue`: `Spec => Contract!Spec` |
| `RingStatementsProofs` | `RingInv`: what `count_` counts between any two statements. The record in hand is still counted until `count_` is stored, so the oldest counted record is one behind `read_` there; `FireNeverStranded` says nothing of marks or of distinct records | `RingInv`, `FireNeverStranded`, and `StatementsImplementQueue`: statement by statement, `dispatch_one` is the main loop of `EventQueue` |
| `IrqDetectorProofs` | `DetectorInv` (accepted bindings are owned and agree across an emit) and `DiscoveryInv` (object and manifest carry what the compiler saw); a file is only as good as the files it was made from. `BuildInv` adds what each command of a build may rely on: the files of the commands before it are of this build | `BuildBindsHandlers`, `OneOwner`, `EmitsWhatWasDiscovered`; of `IrqBuild`, `NoStaleOutputBuilt`, `EveryBuildBindsHandlers`, and that a build is a round trip in one order (`BuildsAreRoundTrips`: `BuildSpec => Spec`) |
| `AppStartProofs` | `StartInv`: what the hooks have done by each step (`PhaseInv`) and who may be where (`CallInv`) | `StartInv`, `ReadyBeforeDelivery`, `FailureIsContained`, `OneVerdict`, `NoRaiseLost`, `WorkAfterSuccess`, and the action property `Terminal` |
| `BoardProofs`, the search | `SearchInv`: the path decided so far is feasible (`PathInv`), and every feasible assignment is at or after it (`NonePassed`); the verdict alone says nothing of the candidates the search has passed over | `SearchInv` and `OracleAgrees`: the backtracking search finds the least feasible assignment, for problems of any size |
| `BoardProofs`, the options | `FoldedInv`: what each part of a declaration has made of the configuration, in error or not (`WindowInv`, `ValueInv`); `OrderIsImmaterial` speaks of finished requests only | `FoldedInv`, `OrderIsImmaterial`; of the operators, `RatiosAreCompared`: `AtMost` compares any two ratios as their products do |
| `BoardProofs`, the events | `EventsInv`: what is left of the program and what was put ahead of it (`CodeInv`, `AheadInv`), what its operations so far have done to queue and flags (`QueueInv`, `FlagsInv`), and how far a clean-up is (`CleanUpInv`). A flag that says whether it went wrong says nothing of the operations to come | `EventsInv`, `ReadyBeforeInterrupts`, `DropsAreReported`, `OverflowsAreHeld`; of the programs, `StartKeepsOrder`, `BoardsKeepOrder`, `SketchesKeepOrder` |
| `GeneratorProofs` | `FoldInv`: after some of the groups, the maps are the supersets of what was seen. `BoardInv`: each board is what was observed of it and of its base so far. `RunInv`: what is written by each step of the current run | `MapsAreSupersets`, `TablePartitions`; `VariantsInherit`, `BasesAreDropped`, and that the tree is the file (`TreeIsFile`); `ReadsOwnMacros`, `DoneMeansFresh`, `IncludesExist`, and the action property `ManualChangesSurvive`; the three invariants |
| `PwmRegistersProofs` | `PwmInv`: see below | `PwmInv`, `WritesAreWhole`, `InterruptsRestored`, `OutputsFollowACall`; of the operators, `CallsInTurn` and `DutyWritesAreSerialized` |
| `SimProofs` | `ProbeInv`: the recorded cycles follow the machine. `HostInv`: what the firmware of a command has done by each access (`OcrAt`, `LatchAt`, `PacketAt`, `PulseInv`); the answer alone says nothing of the accesses before it | `ProbeInv`, `PassMeansHandled`, `AnswerIsReported`; `HostInv`, `PassIsEvidence`, `FailIsDeserved`, and `HostRunsProbe`: `HostSpec => Spec`, so that what is proved of `SimIrq` holds of the host |

The refinement maps the ring to a sequence (`RingAsSeq`): an accepted fire is an
append, a dequeue takes the head, an elided or dropped fire stutters. The proof
needs `BridgeInv` for the position of `write` and for distinctness.

The search is proved as follows. `TryCandidate` keeps `NonePassed` because a candidate
that clashes with the path begins no feasible assignment that agrees with the
path; `Backtrack` because when the candidates of a unit are used up, every
feasible assignment that agrees below it is at a later candidate of the unit
before. At depth 0 with no candidate left none is feasible (`Conflict`); at full
depth the path itself is feasible and none comes before it (`Finish`).

**The options.** After any part of a declaration, the request is in error exactly if
that part contradicts itself (`ConsistentOn`), and otherwise its window is the
intersection of the windows seen and its other fields are the values seen. Both are
properties of the set that was folded and not of the order, which is
`OrderIsImmaterial`. This needs an order on ratios (`RatioOrder`, `RatioTransitive`),
which the model compares by quotients and remainders so that no product leaves
TLC's integers.
`RatiosAreCompared` proves that comparison right by a least counterexample:
of the pairs on which it differs from the products, one with the least denominators
would have a successor, round for round, on which it differs too.

**The events.** `ProgramsAssumption` asks of a program what `KeepsOrder` says, and the
order is all that the three theorems take from it. The code left is always the
program from its n-th operation on, behind what a dispatch, a test of the overrun or
a loop put ahead of it; so what was done is what comes before n, and what is to come
is not. An interrupt that is enabled was enabled by an operation before n, of which
one prepared the queue: none finds it stopped. A report is put ahead together with
its clearing and nothing else runs between them but interrupts, which leave the
overrun raised: a drop there is covered by the report that was made or is still to
be made. A driver refuses only before any interrupt is enabled, so that what a
clean-up takes back stays so; and each overflow that is due is pending, in the queue
or in the callback about to run, as every step that takes it from one puts it in the
next. `OverflowsAreHeld` takes no order between interrupts and `dispatch`
for granted: they come between the removal of a record and its callback.

That the programs are such programs is proved too, and not only evaluated:
`StartKeepsOrder` says that `start()` with hooks that enable only in `enable()` and
clean up what they may have raised (`HooksKeepOrder`), before a `main()` that writes
no hook's operation (`BodyKeepsOrder`), keeps the order, for every capacity and
delivery; `BoardsKeepOrder` that the hooks of each board are such hooks; and
`SketchesKeepOrder` draws the conclusion for the two sketches with any queue and any
budget. The mains that write hooks themselves (`AvrMain`, `EspGateSketch`,
`StreamQueueProbe`) keep it as TLC evaluates.

**The statements of the ring.** The theorems hold for every capacity, every set
of deferred events and every mask with `"store"` in it, which is to say that no
interrupt comes between the load and the store of `--count_`
(`mock_backend.hpp:43`); any other exclusion that a target adds only removes
behaviours. That this one is needed is what the mutant of the run shows.

**The registers.** The constant is the set of programs, and `ProgramsAssumption`
says what the proofs need of one. First, it is `Serialized`: words and mode
registers are accessed inside a barrier only, one word or one read-modify-write at
a time, as the bindings do with `IrqBarrier` (`avr_bindings.hpp:9`, `21`). `DutyWritesAreSerialized`
proves it of a duty write of any output at any duty, and `CallsInTurn` of calls one
after another, so it holds of every `main()` and handler made of such calls. Second,
a check of `main()` asks for what the accesses before it leave, of cells the handler
does not set; third, the handler asks one duty of the left output, and `main()`
leaves the duties of its last calls (`Handled`). TLC evaluates the assumption for
every program of the run. `PwmInv` then says, between any two accesses:

- `BarrierInv`: interrupts are off exactly inside a barrier and in the handler, and
  the saved flag is the one to restore;
- `LatchInv`: inside a barrier TEMP and the loaded mode are those of the context
  that is inside it;
- `WordsInv`: a word in a register or still to come is a word of the program;
- `ChecksInv`, `HandlerInv`, `MainInv`: what a cell will hold when the accesses left
  have been made (`Will`). An output shows a mix of two calls between the accesses
  of one, so `OutputsFollowACall` is inductive only when it is stated of what will
  be; and with the handler in between, main's own last call or the handler's comes
  true, not some third thing.

**The probes.** What is left of a firmware tells which access is next. For `ocr.cpp`
the argument is about time: after its window (70 to 100) the timer is past the old
match at 40; `TicksAssumption` says that two accesses later it is still short of the
new match at 120, so that a register that takes effect at once must match before
BOTTOM, and one that is buffered cannot; at BOTTOM the count is below 9, short of
the new match again, when the flag is read. Nine counts of the timer, which runs at
an eighth of the clock, are 72 cycles, more than one of these accesses takes.

The theorems of `MacroArchs`, `BoardOptions` and `ApiRuns` are about each part's
own specification; `generator` runs the three side by side, each leaving the
others' variables alone. The same holds of `CandidateSearch` and `RequestOptions`
within `allocation`.

Only model-checked:

- all liveness (`EventuallyServed`, `EveryFireAnswered`, the fairness half of
  `RefinesQueue`, `RaisesAreAnswered`, `CallsReturn`, `EventuallyCurrent`,
  `OverflowsAreAnswered`), which is out of TLAPS's reach;
- `ChecksAreMet` and `PlansAreSound`, which compare the answers to concrete
  problems and declarations with the expected ones, and `MainsPass`, which runs
  concrete programs to their checks: there is nothing to generalise, and TLC visits
  all of them.

## 7. What was found

- `sim_reti`: `cmd_irq` ends when it sees the result in memory, which the handler
  stores before it returns. The cycle it reports for RETI is the cycle of that
  store, and PASS does not show that the handler returned.
- `api_parent`: the template of the including header is written without
  `format`, so its namespaces open with `{{`.

Noticed and not stated as a property: the including header and a comment name
`ardo_supplemental_<arch>_defs.h` in their text (`avr_api_gen.py:849`, `889`),
the generator writes `..._dev.h` (`1359`). The comment at `avr_api_gen.py:209`
announces keys with identical macro sets; `id_maps` holds, for each key, the keys
with at least its macros (`MapsAreSupersets` is what is checked and proved).

## 8. What is not modelled

| Part | Why |
| --- | --- |
| Round-trip check of grevir-irqgen (`check_roundtrip.py`) | the tool is outside; the check sees its files before and after, never a step of it |
| Ownership at link time | a property of the linker with no steps of its own; `OneOwner` states the same promise of the generated sources |
| Expansion of platform strings, rendering of headers | string conversions; that options which name each other recurse without end is noted as a hazard |
| `gwz.conf`, CMake files, `native-compile-check`, design documents | configuration and prose |
| `DutyStepAtMost`, `period_oracle()`, the static checks of `atmega328p_checks.cpp`, the rates of `frequency_checks.cpp` beyond 32 bits | properties of 64-bit arithmetic at compile time |
| The register layouts and drivers of the platforms | libraries; a bit is a flag of `BoardHooks` or a register of `PwmRegisters` |
| A drop between the report of an overrun and its clearing | it is not reported a second time, as the sticky flag covers both; `DropsAreReported` counts it with the first |
| An inventory's misspelled source, acknowledge or entry name | one value stands for a source that is not the inventory's |

The hazards of these parts are in `PROJECT.json` with a note instead of a
property.

## 9. The plan

Done, in this order: the bridge and its statements, the round trip and the
build, the start, the generator (macros, boards, runs), the interrupt probe; then
the boards with their queue (two deliveries, budget, overrun), the other probes,
the allocators with the proof of their search and of the order of options, the
registers with the barrier; then the proofs of the boards' events and of the order
of their hooks.

Left, in the order of what it would add:

1. `Ownership`: translation units, symbols and the link, composed with
   `IrqDetector`'s strict build.
2. `OptionStrings`: the expansion of nested and self-referring options over the
   tree of `BoardOptions`.
4. `IrqGenStages`: the generator with five fault stages and the marker, when its
   source is part of the workspace's checkout.
