# Verification of the Nexora Genesis toolchain

TLA+ models of the parts of this repository whose correctness depends on order,
failure, stale state or arithmetic at a limit; the TLC configurations that check
them on small instances; and TLAPS proofs of the results that matter most, for
every value of the constants.

Paths below are relative to `src/`; `c/` stands for `bootstrap/quarantine/c/`,
`kart/` for `os/kart/src/`.

Contents: [1 The system](#1-the-system) ·
[2 Modules and the code](#2-modules-and-the-code) ·
[3 What the runs check](#3-what-the-runs-check) ·
[4 Fairness](#4-fairness) · [5 What is proved](#5-what-is-proved) ·
[6 Findings and oddities](#6-findings-and-oddities) ·
[7 What is not modelled](#7-what-is-not-modelled) · [8 Plan](#8-plan)

Run from this directory: `tlc -config MCObjects.cfg MCObjects.tla` checks a
model (the table of section 3 gives module and configuration of each), `tlapm
BuildProofs.tla` checks the proofs of a module.

## 1 The system

Nexora Genesis is a chain of compilers that ends in programs for UEFI and x86-64:
NTASM (a typed assembler with contracts and macros) and Nova (a small language over
it), bootstrapped in C, and partly written again in NTASM and in Nova. Programs
become NXO objects, objects are linked, a linked object becomes a PE image. Around the
compilers stand a runtime for Nova programs, a launcher that runs the pinned
compiler on a UEFI machine, and, as the largest program built by the chain, a
game that takes the machine over from the firmware.

| Component | State it keeps | Operations | Hard behaviour | Correct when |
|---|---|---|---|---|
| Nova ABI 2 runtime, `c/nova/runtime_v2.c` | tables of buffers and files, a common generation, quota, sticky error | alloc, literal, slice, length, copy, release, open, read, write, close, error_clear, init, destroy | stale handles after slot reuse, chains of slices, wrap-around of offset + length, a failure after a resource was acquired | a dead handle stays dead, a view never leaves its buffer, every resource has one owner |
| Launcher NTBUILD, `toolchain/native-build/ntbuild.ntasm` | what the firmware gave it and it has to give back, the verdicts of its hashes | locate, open, read, check, load, start, clean up | every firmware call may fail; a refused image may stay loaded; the child may leave or stay | only hashed bytes run, everything is released once, the status is the child's or the truth |
| Nova command line, `c/nova/cli.c` | a temporary file, the directory shared with other runs | create, write, flush, close, link, unlink | concurrent runs, kills between system calls, pid reuse, late write errors | the output appears once and whole, and exactly its owner says so |
| UEFI platform and probe, `c/nova/uefi_platform.c`, `uefi_probe.c` | pool and file counters, sticky error, what the probe holds of its child and files | malloc, free, fopen, fclose, log; open, read, load, run, judge, give back | every firmware call may fail or refuse to take back; the child leaves blocks and files behind | all goes back that the firmware takes, and what it does not take reaches the verdict |
| NTASM macros, `c/frontend.c` | scopes, quotes with marks, fuel, depths | define, expand, run, generate | one pass over a module: names are resolved while quotes are cloned into each other | an accepted module means what its names say where they are written |
| C code generator, `c/codegen.c` | frame layout, two copies of the registers, spill slots | prologue, expressions, calls, statements, epilogue | calls inside operands and arguments, narrow and shared registers, stack guard pages | the function has its meaning whatever its callees destroy; memory below rsp is never relied on |
| Interrupt stubs, `c/frontend.c`, `c/codegen.c` | none | read a table, build a stub, insist on its profile | two frames with and without an error code, interrupts inside the stub | the interrupted program goes on where it should, with its registers |
| x64 encoder, `c/x64.c` | none | encode, footprint | irregular encodings; flags after masked counts | the bytes are the instruction, the footprint is not less than the truth |
| Nova lowering, `c/nova.c` | hidden locals named by nodes | lower expressions, blocks, calls, public entry | every runtime call may be refused; evaluation order across nested calls; a buffer freed during a statement | result, error and its place, calls and stores are those of the program |
| Conformance, `c/conformance.c` | graph, reachable set, queue, facts | build, search, solve, judge | loops, dead code, merges, a queue without a count | it accepts exactly what is defined on every path |
| NXO objects from programs, `c/object_build.c`, `c/ntasm.c`, `c/codegen.c` | sections, symbols, relocations, patches | order, place, emit, patch, sort, renumber | two numberings, two ways to one artifact, allocations | assembled at once or by way of an object, a program is the same artifact |
| NXO object files, `c/object.c` | the file, the object in progress | validate, write, read | a file from anywhere; a read that fails half way | a file is read as the object it was made of, or refused |
| NXO linker, `c/object_link.c` | placement, sorted definitions, symbol map, the result in progress | place, copy, define, resolve, relocate, finish or discard | private and public names, renumbering, an allocation that fails anywhere | each site reaches the definition its unit named; a failure leaves nothing |
| Relocation and layout, `c/pe_layout.h` | none | `nt_pe_layout`, `nt_relocation_value` | overflow of intermediate results | the exact value or a refusal |
| PE back end, `c/object_materialize.c`, `c/ntasm.c`, `c/pe.c` | patched sections, base relocations, the image | materialize, make, inspect, release | three views of one layout, base relocations by page, a late range error | the image, loaded anywhere, is the linked object |
| Nexora Kart: race, `kart/race.ntasm`, `game.ntasm` | scene, laps, waypoints, places, times | one tick | events of one tick in the order of its code, off by one at the line | results agree with what was driven |
| Nexora Kart: loop and keyboard, `kart/kernel.ntasm`, `game.ntasm` | clock remainder, held and latched keys, prefix | frame, step, poll, leave | a clock and a person who act at any moment | no time lost, each key press seen once |
| Nexora Kart: boot, `kart/kernel.ntasm` | memory map and its key, video mode | locate, allocate, choose a mode, exit | the map changes under the exit; odd modes | takeover with a current map, picture inside the screen |
| Front end proper, Nova parser, ABI 1 runtime, module host, compilers in NTASM and Nova, assets, drawing, Stage 0, NASM seeds, tests | | | | not modelled, section 7 |

How they interact. The front end expands macros while it parses and checks each
function with the conformance proof before code is generated; the Nova compiler
lowers a program to functions of the same tree. The generator encodes
instructions through `x64.c` and leaves symbols and relocations beside the
bytes; `nt_compile_many` resolves them at once, `nt_object_compile` makes an
object of them, `nt_object_link` one object of several, `nt_object_materialize`
and `nt_make_pe` a PE image, all by plain calls that hand over heap blocks.
`nova build` calls this chain and publishes the bytes through the file system,
where it meets other runs of itself. A compiled Nova program knows its runtime
only by handles and callbacks. NTBUILD is a UEFI program that starts another one
and shares the firmware's handle table with it. In Kart, the loop calls one tick
of the race for each sixtieth of a second, and the keyboard controller fills its
buffer meanwhile. Nothing in the repository is multithreaded: concurrency comes
from processes (publication), from the environment (firmware, keyboard, clock,
interrupts), and from the guest's freedom to call in any order.

## 2 Modules and the code

Each module names the file it models in its head comment, each definition the
function or the operation. Capitalised constants have the source's names.

**NovaRuntime** — `runtime_v2.c`. Variables are the fields of `State`, plus the C
heap and open streams. One action for each callback (the context is
single-threaded, so a callback is atomic), with every guard in the order of the
code, as the order decides which error is raised. The guest is unconstrained: any
handle, offset and length. `calloc`, `fopen`, `fread`, `fwrite` and `fclose` may fail;
addresses and streams are reused. Bytes are left out: which bytes an access reaches
is what the properties are about. `OutOfBounds` computes modulo `U64_MAX + 1`, as C does.

**NtBuild** — `ntbuild.ntasm`. One action for each firmware call together with the
code up to the next call. The firmware is the environment: what it answers, and
in `held`, `misuse` and `executed` what it knows. A file is a sequence of slices of
any length. The digests are a verdict on the bytes. `image` is what a handle holds: a
refused image may be there all the same, but not from bytes that may run.

**UefiProbe** — `uefi_platform.c` as functions on the record `platform` (which pools and
files are open, the counters, the error) and `efi_main` of `uefi_probe.c` as one
action for each label or call; the child is anything that takes and leaves blocks and
files of its context. At most `REFUSALS` calls fail to take back or to log what they were
given. `Verdict` is the last look at the error, `Report` the lines after it: one refused there
changes nothing any more, and RESULT_OK is returned.

**Publish** — `publish` in `nova/cli.c`, one action for each system call and each
process; `Killed` may happen between any two. The directory maps names to the run
whose file it is; `Link` gives the output whatever file is under the temporary name, and
`Remove` may fail (`left` says whose did), as `publish` does not look. **PutOnce** is the abstract specification: a register put at most
once, whole, whose writers learn whether the bytes are theirs. `PutsOnce` states that
Publish implements it, under `output <- dir[Output]` and the results returned.

**NtasmTree** — typed expressions and statements of an NTASM function and what they
mean (`frontend.c`: `constant_value`, `literal_fits`, `infer`), in narrow words so that
every limit is met. **Codegen** — `codegen.c` from such a tree to instructions: the
frame, page probes, parameters of both conventions, expressions with their two
register copies, waiting operands and arguments, statements, epilogue.
**CodeRun** — the environment: a processor executes the instructions one at a
time; a callee keeps its contract and destroys everything else, including what lies
below the stack pointer. At the end the machine is compared with NtasmTree.

**InterruptStub** — a table entry's policy (`parse_interrupt_stub_entry`), the
instructions built for it, the profile the generator insists on; then a program that
faults while other interrupts strike between any two instructions.

**X64** — `nt_x64_encode`, all mnemonics and forms; prefixes, opcodes, ModRM and SIB
are the real ones, only the digits of displacements and immediates have a small base.
**X64Effects** — `nt_x64_effects`. The processor is the reference: **X64Decode** reads
bytes back, the last part of X64Effects says what an instruction does and when a footprint
may be believed; both are external.

**NovaTree** — checked Nova programs and what they mean; **NovaLower** — `lower_expr`,
`lower_block`, `call_v2` and the public entry: straight code in hidden locals, each
named by its node, the visit of the node and a role, as the code shares nodes;
**NovaRun** — runs of the code under a host and a runtime that may refuse any call.

**MacroSource** — modules as they are written and their meaning, in which each name is
the one its surroundings declare (`spec/ntasm.md`, section 13); **Macros** — the front
end's parser and expander with scopes, quotes, marks and cloning, one step for each
item or statement.

**ConformanceFlow** — `nt_conformance_verify`. `Build` gives the edges of
`build_statement` and `build_block`; `Reach`, `Fill` and `Propagate` are the bodies of
the three loops, the queue is the ring; `Check` is the last loop. Flags, locals,
output registers and pointer types are all facts that hold or do not, and the
intersection of the code's four tables is the intersection of sets of facts; the
code's `UINT32_MAX` for a pointer ("any") is the set of all types, its 0 the empty set.
What an instruction needs, makes, kills and copies is part of the program. When a
function is accepted the model goes on to run it: `Run` takes any edge. Statements are a
tree, as the parser makes them; `depth` says how far each is from the body, which makes `build` a
recursive function. A jump to no statement (`Strays`, target 0 included) is refused even where nothing reaches it. `VerdictExact` compares the verdict with a reference that knows no graph and no
queue: `Onward` reads off the tree where control goes from a statement, and `OnPaths` is the least set of
pairs of a place and a fact that is missing there on some path.

**NxoObject** — the structure of objects and `nt_object_validate`; used by the next four.

**ProgramImage** — from the parts of a verified program (imports, data, functions as
sequences of calls, references, jumps and other bytes) to sections, symbols and
relocations (`generate`, `emit_static_data`), and from there two ways: `Assemble` is
`nt_compile_many` with `absolute_relocations`; `Compile`, `Describe`, `Name`, `Finish` are
the four stretches of `nt_object_compile`, any allocation failing, and `qsort` leaving
equal names in any order. Contract texts are opaque.

**ObjectFile** — `nt_object_write` and `nt_object_read`: fields at their offsets, texts
and payloads as bytes, some of them below `ASCII` (128 in the code), which a text may not leave; between the two, `Damage` changes one field, one byte or the end.

**ObjectLink** — `nt_object_link`. The phases of the function are the values of `pc`,
its loops are steps over units; allocation failures are the disjuncts of `Allocate`
and `Define`; `Sorted` (of NxoObject) is `qsort`, by the rank of each element in a given order; `InSiteOrder`
sorts the relocations, and the last check of the result is `Valid` like that of the units; blocks are followed by name in `live`. Names are numbers in the
order of `strcmp`.

**Relocation** — the mathematical value of a relocation and when it fits.
**RelocationValue** — `nt_relocation_value` in words of bounded width, one action for
each operation, overflow where C has it; **PeImage** and **ProgramImage** use
Relocation, and `Exact` is what entitles them to it.

**PeImage** — `nt_object_materialize`, `nt_pe_layout`, `nt_make_pe`, `nt_pe_inspect`.
Bytes are symbolic, so that a patched field is recognised wherever it ends up. The places the
loader adjusts are a list as in the code: `InOrder` is its `qsort`, `Writable` compares
neighbours, and a block of the table is a run of neighbours on one page (`Starts`, `Blocks`).
`LoadsAsLinked` loads the image at another base the way the PE format has it, and compares
with the object.

**KartRace** — `tick` with its four scenes, `race_reset`, progress, ranking and the
results. Which karts cross the line of their next waypoint, and how far the others
are from theirs, is left open in every step: all driving is covered, more
than physics allows. **KartLoop** — `game_main`, `keyboard_poll` and the reboot, over
the race (its step is one tick). A person presses, holds and lets go of keys and the
clock advances at any moment; keys send the bytes of scan code set 1, prefixes included.
**KartBoot** — `boot` and `setup_video`: one action for each firmware call, any of
which may fail, the memory map changing between any two.

The `MC*` modules hold the instances: inputs and small limits. MCPrograms, MCMacros,
MCNovaLower and MCX64 hold inputs and what is asked of them; MCObjects, MCGenerated, MCBuild and MCKart put several
machines side by side, a variable saying which one a behaviour is about, so that one run
checks them all. In MCObjects they are also composed: an object made of a program is
handed to the linker or materialized, what was linked is materialized or written to a
file. The numbers of the instances are CONSTANTS of the `MC*` modules with values in
the configurations, so that a theorem about a composed machine holds for every value. The
`*Proofs` modules hold theorems only; RECURSIVE operators occur only where nothing is proved.

## 3 What the runs check

| Run | Module, configuration | Bounds | Shows |
|---|---|---|---|
| `nova_runtime` | MCNovaRuntime | 2 buffer slots, 1 file slot, blocks of 2 bytes, 3 generations, 64-bit numbers as 0..3 | generations are unique, every block and stream has one owner, the quota is exact, slices stay inside their parents, accesses inside live roots, no dead handle is ever live again |
| `build` | MCBuild | 3 runs of nova build with one pid, 2 temporary names; or the launcher with files of at most 2 bytes in any slices, every call failing; or the probe with a child of one buffer and one stream and 2 refusals | the output appears once and complete, success is told exactly to its owner, PutOnce is implemented; what the launcher acquires is released once, only verified bytes run, the status is right, it ends; the probe gives back what is taken, and a verdict of 0 hides no refusal before it (`Accounted`) |
| `objects` | MCObjects | all sequences of up to 3 of 14 units; pages of 8, sections of 0 to 17 bytes, up to 2 relocations at starts, ends and across pages; texts of 1 or 2 bytes, one damage for each file; programs of up to 2 modules, 4 functions and 3 data; words of 5 bits; stub tables of up to 2 entries, 14 words of stack, 3 faults | linking leaks nothing, succeeds exactly for units that agree, every site reaches its definition; the image loads as it was linked; image and file are read back, a damaged file only if it is the file of some object; a program is the same artifact on both ways; a relocation's value is exact; interrupted programs go on (`StubsResume`) |
| `kart_race` | KartRace, MCKartRace | 3 karts, 2 waypoints, 2 laps, the player done within 5 ticks (`RACE_BOUND`), nobody beyond 2 laps (`LAP_BOUND`), so races end and start again | ranking follows waypoints; the place at the line; laps counted |
| `kart` | MCKart | 5 video modes, 4 tries, 4 changes of the map; or 2 presses among 4 keys (two of them one flag, two with a prefix); or the clock with the numbers of the source (60 per second, 100 ms, 8 steps), delays of 1, 7 and 50 ms | the picture is inside the screen; flags are true once everything is read; Enter is seen once for a press; no step is lost or invented |
| `kart_escape` | KartLoop, MCKartEscape | Escape only | expected to fail: section 6 |
| `conformance` | MCConformanceFlow | functions of four statements in five families, one of them perhaps an `if` with one statement in a branch; jumps anywhere | accepted functions are defined on every path; refused ones are not; it decides |
| `generated` | MCGenerated | modules around one or two macros of every kind; functions of every operation on every type and calls nested in operands and arguments, pages of 32; every mnemonic with operands at every edge; Nova programs with calls in every position, records, slices, loops and every failing operation, up to the twelfth runtime call refused | what is accepted means what is written (`Hygienic`, `MeansWhatItSays`); nothing relies on memory below rsp and no guard page is jumped over (`StackKept`); the bytes are the instruction (`DecodesBack`), the footprint covers what it does, but exactly where section 6 says (`FootprintTrue`); lowered code ends with its program's result, error, place, calls and stores (`EndsAsMeant`) and touches living buffers only (`StaysInBuffers`) |
| `nova_shared` | MCNovaLower, MCNovaShared | two programs | expected to fail: section 6 |
| `x64_flags` | MCX64, MCX64Flags | shifts by every count | expected to fail: section 6 |
| `x64_rotates` | MCX64, MCX64Rotates | the same | expected to fail: section 6 |
| `macros_capture` | MCMacros, MCMacrosCapture | two macros | expected to fail: section 6 |

Why these bounds are enough. *Runtime*: with two slots there is reuse, a chain of
three views over time, and a full table; three generations let a slot be
used, freed and used again and then exhaust the counter; numbers up to 3 wrap.
*Launcher*: two bytes give a short, an exact and an overlong read in one or two slices,
which are the branches of `read_file`. *Probe*: one buffer and one stream, each of
which the child may leave, and a refusal hidden behind another. *Publication*: three runs and two names make all
names taken while a run still looks for one, and a race of two after a kill of the
third. In `build` the launcher or the probe starts only where no build of nova has got anywhere: the
programs share nothing, and their product would only repeat states. *Linker*: the 14 units
hold every way in which two units can agree or clash; three
at a time lets two clash while a third resolves. *Relocation*: the code's tests compare
with the ends of the type, and 5 bits have all orders of those ends. *PE*: sections
of nothing, less than a page, exactly a page and more; pairs of sites cover one block and
two. *Files*: two bytes of two kinds give texts that are prefixes of each other and every
order; a damage puts each field a little and much too high and low. *Programs*: the modules
and names come in every order that sorting tells apart, data in widths that need padding
and do not, references to each section from each, imports met, left open, doubled and
contradicted, and addends at and beyond the reach. *Generator*: depth two of calls in
calls is the least at which a slot can be taken twice; frames are below, at and above a
page. *Stubs*: two entries are one for each vector, in either order, or two that clash; the stack is the smallest that
holds a frame over either alignment, and a third fault meets what two have left. *Encoder*: displacements and immediates at both sides of every limit the code
compares with. *Macros*: each name is declared in the module, in the quote and by the caller, in
every combination; fuel is 1000, call depth 32 and expansions 64 in place of 1048576,
256 and 128, tables hold 4 output items and 3 scopes in place of 512 and 128.
*Conformance*: a jump over a statement, back to an earlier one and out; a branch with dead
code that falls into live code; loops that make a statement be looked at again.
*Race*: a third kart can finish between two; two laps tell the first
crossing from the last. *Keys*: two presses interleave in every order; every kind
of key is there.

`DecodesBack` leaves out the operand combinations for which `x64.c` itself chooses another
width than asked (`Chosen` in MCX64, listed in section 6), `FootprintTrue` these and signed immediates.
`FootprintTrue` leaves out no shift: for each it says exactly which flags the footprint overlooks
(`Overlooked`: the carry of a rotation by a multiple of the width, finding `x64_rotates`) and
which it proves without ground (`Unfounded`, finding `x64_flags`), and that all others are right.
`Hygienic` in `generated` leaves out the finding `macros_capture`.

Every property has been seen to fail when the code model is altered by a
plausible error; those altered operators stand in the modules, named after what
they change (`Position_Unsorted`, `Propagate_Once`, ...), and are used by no
specification.

## 4 Fairness

Fairness is stated only where the code justifies it.

- `MCBuild`: weak fairness of the launcher's steps (`Launches`), of each nova build's next system call (`Publishes(p)`) and, for PutOnce, of a run that gives up (`Abandons(p)`). Firmware calls return, the child included; the launcher is straight-line code between them. A read that delivers nothing is the end of the file for the code, and any other moves the position up to one byte past the limit, which is why the loop ends. A process that is not killed gets to its next system call; `Killed` is never required.
- `ConformanceFlow`: `WF_vars(Verify)`: the call runs on. Nobody has to run the function.
- `KartLoop`: `WF_vars(Loop)` and `WF_vars(Clock)`, in MCKart for the machine with keys: the processor runs, time passes. No fairness of the person at the keyboard.
- `NtBuild`, `Publish` and `ObjectLink` have specifications of their own with the same fairness; the composed runs use their actions.
- Everything else: safety only.

Deadlock is checked in every run. Final states have an explicit stuttering disjunct.

## 5 What is proved

TLAPS checks these for all values of the constants under the named assumptions of the
modules. Unless something else is said they have the form `Spec => []P`. Each invariant was
first checked by TLC on the instance of a run, then proved, one lemma for each action
or each part of the invariant.

**NovaRuntimeProofs** — every property of the run `nova_runtime`, for tables, quota and
generations of any size. Invariant `IInv == TablesOK /\ GenerationsDistinct /\
ResourcesOwnedOnce /\ SliceWithinParent /\ RootsBacked`. `GenerationsDistinct` also says
that no entry in use has a generation above the counter; without it a new generation could
not be shown to be new, nor a slice to lie in its own parent. `RootsBacked` says that a live
root has its block, which an access needs and no other conjunct gives.
- `HandlesUnambiguous`, `NoLeakNoDoubleFree`, `SlicesConfined`, `TablesTyped`: from `IInv`.
- `AccessesConfined` (`AccessSound`): `resolve` is a recursive function over the
  rounds of its loop. That the function exists is proved from the rounds left (at most
  `BUFFER_MAX`) by a least counterexample (`LoopExists`); that a level checked against a
  sound one above is sound (`LevelSound`) then carries up the whole chain; and the handle's parent
  resolves the same bytes to the same pointer (`ResolvedInside`), so an access is inside every slice on the way.
- `QuotaRespected` (`AllocatedExact`): `SumExists` and `SumUnfolds` do the same for the sum over
  the slots, by cardinality; a step adds or takes away one summand.
- `NothingResurrected` (`[][A]_tables`): a step fills only slots with generations above the
  counter (`StepOnlyFresh`), so the walk from an older handle meets only what it met before.

**NtBuildProofs** — the launcher, for files of any length and any slicing of reads. Invariant
`TypeOK /\ HeldExact /\ VerifiedSoFar /\ RanVerified /\ OutcomeKnown`: at each
label what is held, which files have been found good, and what the exit code knows of the
child. Results: `Typed`, and `ReadsInsideBuffer`, which no run checks: no slice is written outside
its buffer, whatever the firmware says it delivered.

**UefiProbeProofs** — the platform's functions are proved against one relation, `Sound`
(the books agree with the blocks and handles held, or a refusal is noted), one lemma for each function
and each failing path; the probe's invariant
`ControlTyped /\ Books /\ Places /\ Told /\ Answered` then says where in
the program each thing is held. Result: `BooksRight`, for any child and any number of buffers,
files and refusals. `NamesAssumption`: the names of the child's blocks and files are not those of the probe.

**BuildProofs** — the machines of MCBuild, of its `MCSpec`. Publication, for any number
of processes, any pids, any number of names, of the specification of Publish: invariant
`TypeOK /\ OwnFileThere /\ OwnFileOnly /\ FlagExact /\ LinkedComplete`, which run owns which
name at which point, and what the flag `good` knows; temporary names may collide, and that nobody
removes another's file, nor links it, follows from exclusive creation. A remove may fail: then, and only
then, a run that returned has left a file (`NothingLeftBehind`). Results: `Typed`,
`NeverSeenIncomplete`, `ResultExact`, `NothingLeftBehind`, the action properties
`DestinationNeverReplaced` and `OthersFilesUntouched`, and `ImplementsPutOnce`: initial states
and steps of Publish are those of PutOnce under the mapping. Of the launcher `LauncherReleasesOnce`,
`LauncherVerifies`, `LauncherFaithful`, of the probe `ProbeAccounts` (a verdict of 0 follows no refusal; RESULT_OK, after a report any line
of which may be refused, tells of a right answer with everything back): by instances of the two modules
above, as each machine's steps are its own module's steps or leave its variables alone.

**MachineProofs** — three machines of MCObjects. *Fields*, for its `MCSpec` (`FieldExact`), words of any width,
any base and reach: what the code computes with overflow is the integer it should be, or it reports
that it does not fit. The invariant is what each place knows of `t`, for either kind of field.
`LimitAssumption`: a signed word holds the addresses of an image and the reach of a field
(three sections of 16 MiB against 2^31 and 2^63). *Interrupt stubs* (`StubsReturn`), for `MCSpec`, any tables of any
entries, any number of faults, any stack of more than ten words (`StubAssumption`: what the program
keeps, a frame and the saved rax must fit): the program goes on two bytes later with its registers, flags
and stack. Invariant `BuiltRight /\ ProcessorWhole /\ InProgram /\ InStub`: whatever was built is one
of the two profiles (`Bodies`, `Profiles`), so the generator refuses none of it (`BuiltEmittable`), and at each of its
instructions it is known where rsp is in the frame of the fault, where the saved rip is and whether it has been
moved on yet, where the program's rax is. An interrupt inside the stub writes below rsp only, which
is why `Strike` keeps it (`FramePushed`). *Images* (`ImageLoads`), for PeImage's specification, any set of
objects, pages and bases: loaded at another base, the image means what the object meant. Invariant
`ImageStage /\ Copied /\ PatchedSoFar /\ PlacesSoFar`: the sites passed hold their values and the absolute ones are in
the list of base relocations, and every other byte is the object's. The lemmas say that no two sites overlap though
only neighbours are compared (`FieldsApart`), that sections stay apart in memory (`LaidOut`), that raw data
stays inside them in the file (`RawFits`), and that the blocks of the table adjust the places given, each once,
and no other (`BlocksCover`): sorted, the places ascend (`InOrderAscends`, by `SortedLists`: a list in the order
of ranks has every element once), so neighbours on one page are all there is on it (`RunsArePages`).
`ImageRead` (`ImagesReadBack` for MCObjects' `WrittenAndRead`) adds that the places are apart (`PlacesApart`), so that
the writer, which compares neighbours, refuses nothing that was materialized (`MaterializedWritable`), and that the
reader accepts what was written: sections and pages are where it looks for them (`TableInOrder`), the blocks
ascend and are all mapped (`BlocksOrdered`, `PlacesMapped`), the size of the table is the sum of its blocks
(`TableSizeSum`), and the sum of their entries is the number of places, each once (`SumCounts`, `ListedOnce`,
`PlacesCounted`). `PeAssumption`: a page is
a multiple of the file's alignment and holds a 64 bit field, and the inputs are of the type of
`NtObject`; valid or not is for the code to find out. In MCObjects images also come from the linker; that those are among the inputs is
model-checked.

**ObjectProofs** — the linker, `ObjectLink!Spec`, for any number of objects of any size and any limits
(`ArgumentsAssumption`: the arguments are lists of records of the type of `NtObject`; valid or not is for
the code to find out). Results: `LinkLeaksNothing`, `LinkSucceedsExactly` and `LinkReachesNames`.
Of the operators: what `qsort` leaves under any strict order (`SortedLists`);
that comparing neighbours is enough for a whole table of names or sites to ascend (`NamesAscend`,
`SitesAscend`, by a least counterexample); that relocations moved by their bases are still distinct
sites and all in the result (`RelocsMerged`). The invariant follows the function's loops:
`Placement` (units placed are valid and apart), `Places`, `Heap`, `DefinedSoFar` (the symbols so far
are the sorted definitions, moved, names strictly ascending, and `map` leads to them), `ResolvedSoFar`,
`EntrySoFar`, `Contents`, `Refusals`. `DefinedSoFar` makes `find` exact (`Found`), which
both directions of `SucceedsExactly` need: a refusal shows that units cannot be linked, a success
that they can. The last check of the code, `nt_object_validate` of the result, is not among the excuses
(`Excused`: arguments, limits, allocations): what was merged, moved and sorted is proved valid
(`SymbolsValid`, `EntryValid`, `RelocsValid`), so it refuses nothing. In MCObjects the linker also gets objects compiled from programs; that those are typed records
is only model-checked, so the theorems are about ObjectLink's specification.
*Object files* (`FilesKept`), for ObjectFile's specification, any objects, texts and sizes: `KeptOrRefused`, the
file half of MCObjects' `WrittenAndRead` (`FilesReadBack`). Two halves:
what was written is read back as it was (`SameObject`), and a file that became anything else and is still read
is the file of the object made of it (`SameFile`), so no two files are read as one object. Both rest on where
things are: texts laid end to end begin where the sum of those before says, and a table with every text in its
place is the table (`TextsLaid`, `TextsFound`); a byte of a file is in one text, one section or a gap
(`SectionPlaces`, `BytesLaid`). The invariant `FileIInv` says for each stretch of the reader what it has checked, which fields of
its output are filled and which blocks they hold (`SymbolsComing`, `SectionsComing`, `AllRead`, `BlocksHeld`), and that a file kept well
is not to blame (`BlamedRight`). `FileAssumption`: texts have no zero in them (that they are ASCII is for the code to find out) and different names different texts, the
objects written have known names, and what became of a file is a file still (`FileShaped`): its fields are
numbers, its tables as long as its header says, its bytes are there, and texts the reader takes are those of a
name or contract, as every text is one in the code.

**KartProofs** — the race (any number of karts, laps and waypoints, two at least, any resolution of
distance): invariant `TypeOK /\ StartLine /\ DoneExact /\ TimesPast /\ Ranked /\ SceneFacts /\ FinishPlace`;
ranking is by a key that combines waypoints passed and distance, and the lemmas show that the first
dominates. Results `Typed`, `RankingFollowsWaypoints`, `PlaceAtTheLine`, `LapsCounted`. The loop (any
clock): `PlaceInTheGame`, `TimeKept` — `LoopAssumption` says that what a frame may add is
spent by the steps a frame may take, which 100 ms and eight steps of a sixtieth are. The keyboard (any of the
keys modelled, `KeysAssumption`, any delay): `FlagsFollow` — the invariant `ReadsOut` says what
each flag will be when the bytes that wait have been read — and `EnterSpentOnce`: `Spent` counts a press
where it is now, in a step, a hit, a key held or a release on its way. Boot
(any table of modes of at least 320 by 200 with rows no shorter than what they show, `BootAssumption`):
`PictureFits`, for MCKart's `MCSpec`.

**ConformanceFlowProofs** — functions of any length, with any shape of graph, any facts.
Invariant `Shape /\ Searched /\ Closed /\ Filled /\ Stable /\ Followed`: a
reachable statement is in the queue or has been carried over its edges, in each of
the three loops; the entry has no more than the caller gives. With the queue empty the
facts are a solution of the equations, and a run never has less than the solution, as
`After` is monotone. Results: `Maintained` and `AcceptedRunsDefined`.
`VerdictIsExact` (`VerdictExact`) also bounds the facts from the other side: the function is accepted if and only if
no path has anything wrong with it. `BuildOrdered`: `build` meets every statement of the tree once and gives
it the edges of what follows it in the order of the text (`WaysOnward`), by descent over the depth. `OnPathsLeast`:
the reference, a fixed point reached by rounds, is the least set closed under `Further`. The invariant
`Exact == Built /\ Found /\ Lost /\ Refusal` says that what the loops have reached is on a path, and
that each fact taken away before a statement is missing on a path to it (`LostForAReason`: a fact missing after a
statement was missing before or was killed there). Assumptions: the statements of a function are a tree with
depths, the fields a kind has no use for are at rest (`WellFormed`), a fact overwritten by a
move is copied from one source (`MovesOverwrite`), and `FactsAssumption`, facts are finitely many.
The proof found that a reference which tells jumps apart before kinds has overlapping cases, unless only instructions jump; that
is what `WellFormed` says and the parser guarantees.

What stays with TLC, and why:

- liveness (`Terminates`, `EnterNotLost`, `Decides`, the liveness of `PutsOnce`): outside this prover;
- `MeansWhatItSays`, `StackKept`, `Hygienic`, `EndsAsMeant`, `StaysInBuffers`: what the code means is
  defined by recursion over trees (RECURSIVE operators), and its proof is an induction over programs;
- `DecodesBack`, `FootprintTrue`: tables of instructions, checked by enumeration; a proof
  would be the same enumeration;
- `AssembledAlike`: it compares the artifact assembled at once with the object made of the same program and
  patched; both are made in a few steps by operators over the whole program, so a proof is about those
  operators, hardly about steps, and has not been attempted;
- that the images and files of MCObjects' run are among the inputs the theorems speak of: its machines
  take objects from the linker and from compiled programs.

Recursive *functions* are no obstacle: existence by a least counterexample gives their unfolding, and
a second least counterexample the property.

Assumptions: limits are natural numbers, at least 1 where the source's are; `Null` is not a
block; the others are named above. Each is named in its module and evaluated by a run.

## 6 Findings and oddities

**Escape can be lost** (`kart_escape`). `game_main` looks at the held flag of Escape
once a frame, behind `keyboard_poll` (`kart/game.ntasm:699`). When both press and release are
read by one poll, the flag is down again and the game goes on; Enter, in contrast, is
latched. `os/kart/README.md:24` says Escape leaves. At 60 polls a second a person rarely is
that fast; during a slow frame it happens.

**A field of a computed record as buffer argument is lowered twice** (`nova_shared`,
`c/nova.c:1183`). The length of the argument is asked for through a node that shares the
field's node; lowering overwrites binary and call nodes under it, so that the code
emitted first reads hidden locals that are assigned only later. `use(r[i + 1].data)` and
`use(make(b).data)` end with an error although every operation is legal. A plain field is
read twice too, which harms nothing.

**Undefined flags count as written** (`x64_flags`, `c/x64.c:897`). A rotation's masked count is
reduced modulo the width before it is compared with 1: `rol al, 9` is taken for a
rotation by one place, which defines OF; the processor leaves OF undefined for every masked count but 1.
`c/x64.h:81` says that undefined outputs must never satisfy a proof.

**A rotation by the width changes no flag** (`x64_rotates`, `c/x64.c:897`). By the same reduction the count of
`rol al, 8` becomes 0: the footprint has no flag, no write of the flags register and not the effect
`changes_flags`, though the processor, whose masked count is 8, copies a bit into CF.
`spec/ntasm.md:347` asks `changes_flags` of rotations, and `c/x64.h:78` calls the footprint that of the
exact operand form.

**An argument is captured** (`macros_capture`, `c/frontend.c:2069`). A value macro expanded
in a statement macro clones its arguments as the parser's: a mark for a `let` of the surrounding
macro is looked up among its own lets (lines 2069-2080, through `p->macro`, set at 4640). The example in `PROJECT.json` returns 14, not 12;
`spec/ntasm.md:545` promises hygiene.

Seen on the way, not contradicting anything the repository promises:

- *Objects.* `ntasm object` refuses, with "unsorted symbol name/contract", programs that assemble: a function and a datum of one name in one module, or two imports of one open function. `assemble` accepts modules of mixed targets, `object` does not. Object files up to 64 MiB can be written, the command line reads up to 16 MiB. Base relocations are in emission order when assembled and sorted by way of an object; the image is the same.
- *Macros.* A macro is in the table before its body is parsed (`c/frontend.c:3278`), so a value macro that expands itself reads before its table of expressions (in Macros a macro is visible from its end on, and such a one refused); a value parameter given a mark indexes outside the variables. A quote may contain two lets of one name, the first counts. A nested value expansion of a template's own parameter or let is refused. A macro that makes an expression, type or declaration is accepted as a statement and does nothing. The fuel limit is compared with what is left after the fuel used may have passed it; expansion depth is given back before nested expansions, so that the call depth alone bounds them.
- *Front end.* A unary operator on anything but a literal is always refused in NTASM: its case in `infer` falls through into that of strings.
- *Generator.* `>>` on signed words is a logical shift of the extended word (Nova does its own); `&&` and `||` are not lowered; only the first operand of an instruction counts as needed in `statement_requirements`, without effect.
- *Encoder.* `imul` of 16 bits with an immediate gets an immediate of 32; `read_cr`, `write_cr` take narrow registers; memory of width 0 or 80 is taken for 32 bits in several forms; `sgdt` and `sidt` encode at CPL 3 against their footprint.
- *Nova.* `slice` and `alloc` evaluate later operands before the buffer; a slice's source must be a name or a field.
- *Stubs.* `hardware_error_code` other than "true" counts as false.
- `runtime_v2.c:156`: a slice of length 0 over a dead root raises LIFETIME and still returns a handle; the handle fails on every access.
- `nova/cli.c:261` says "four scalar slots maximum"; 64 are accepted.
- `pe_layout.h`: near the ends of `int64_t` the guarded arithmetic refuses values that would fit. No address of an image comes near.
- `c/cli.c:54-70` (`write_output`) leaves a partial file after a failed write, unlike the Nova command line.
- Kart: the limit of eight steps for each frame is never met, as 100 ms are six steps; karts that finish in one tick share a place; boot looks at the status of neither `GetMemoryMap` nor `SetMode`, and `setup_video` does not ask for 320x200 at least.
- `conformance.c`: an instruction on two 64-bit registers that only compares them loses what is known of the first, on the safe side.

## 7 What is not modelled

Wording, printing, option parsing, lexing: data without control.
SHA-256 and PE header constants: fixed functions, stood for by a verdict. Kart's physics,
steering, drawing, palette and calibration: the race is checked for any driving. The parsers and typing of
NTASM (macros and stub tables apart) and Nova, and the effects NTASM proves of a function
besides the flow facts: long sequential passes whose meaning is their own definition. In
ConformanceFlow, the write permissions of pointers, the rules on values
(`pointer_expression`) and malformed trees. In Codegen, memory operands, 16-bit types and
most machine instructions. In NovaLower, files, unary operators and ABI 1. In Macros, the node, arena and
constant budgets. The ABI 1 runtime and the host runner, the S0 module host (file handling
like the launcher's), and the compilers written in NTASM and in Nova
are left: they repeat, in other languages, what is modelled here from the C sources. The test
adapter of the launcher, the NASM seeds and the tests themselves are not part of the
product. `PROJECT.json` lists every component with its reason.

## 8 Plan

Done: the runtime, the launcher, the probe, publication, macros, generator, stubs, encoder, Nova's
lowering, conformance, objects, files, linking, relocation and images, Kart's race, loop and boot;
proofs of every safety property of the runtime, of publication, launcher and probe, of the
linker, of relocation values, of images as they are written, read and loaded, of object files, of the interrupt stubs, of Kart and of the conformance verdict. In order of what
is left:

1. Proofs: `AssembledAlike`: that `Describe` and `Name` make a valid object, then that patching it gives the
   bytes of `Compile`.
2. **ConformanceFlow, permissions** — the second lattice of `permission_*`, with its fuel.
3. **NovaPlatform** — ABI 1 runtime and host runner against the platform of UefiProbe.
4. **ModuleHost** — the S0 module host, sharing the launcher's environment.
5. **NxoMerge** — `nxo_merge.nova` against ObjectLink for two units.
6. Memory operands in Codegen, composed with X64 and with the places of ProgramImage.
