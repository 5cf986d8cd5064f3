# ct-recomp in TLA+

Models of `ct-recomp`, a static recompiler for one SNES game: the 65816
routines of the ROM become C functions, which run beside an interpreter on a
model of the console whose timing follows Mesen 2 clock for clock. The modules
model the recompiler's decoder, the instructions as interpreted and as
generated, and the parts of the runtime in which the timing, the switch between
native and interpreted code, and the order of input, sound and interrupts are
decided. All of it is translated from the source; a doc or a comment is only
ever used as a claim to check.

## 1. The system

The recompiler is a Python program that runs at build time. The runtime is one
host thread. The frontend (or `ct_boot`) calls `sched_run_frame`, which
switches to the **CPU coroutine**; that one runs instructions, interpreted or
native, and gives the thread back once a frame. The **SPC700** is a second
coroutine, which only runs when the CPU side asks it to catch up. SDL's audio
thread is the only real concurrency. What is hard is that almost everything is
*late*: effects are computed ahead of the clock (a DMA moves its bytes at the
write that starts it, a walk prices an instruction before its events happen),
or behind it (the SPC700, the auto-joypad read, the picture), and the results
must be what a clock-by-clock machine would have shown. And almost everything
is there *twice*: two implementations of every instruction, two accounts of its
clocks, two codes that pass a line's events, two ways to run a function.

| Component | State | Operations | Talks to | Hard part | Correct when |
|---|---|---|---|---|---|
| Scheduler clock (`runtime/sched.c`) | line, `hclock`, `pend`, events done, IRQ clock, paid refreshes | `charge`, `walk_*`, `advance`, `wai_cycle`, `$4200`-`$4212` handlers, `soft_reset` | interpreter, adapter, PPU, frontend hook | each instruction is walked on a copy, then committed; DMA, refresh, HDMA and line ends nest in each other | walk and commit agree; no event is lost or doubled |
| Frame edge and counters (`sched.c`, `bus.c`) | WRAM journal, latched counters | `edge_hook`, `access_clock`, `access_hv`, `$2137`, `$4212` | frontend hook, walk | the edge falls inside an instruction whose stores were all made | the hook sees memory as of the edge, the program its own stores, a counter the clock of its read |
| Auto-joypad (`runtime/sched.c`) | start clock, step, enable, pad, result | `autojoy_arm`, `autojoy_update`, reads | registers, `sched_set_joypad` | lazy: up to a frame late | a read sees what its clock would show |
| Overlays (`runtime/overlay.c`, `bus.c`) | verdict cache, page generations, watch range, activations | lookup, enter, leave, store, stale check | native dispatch, every store | the code running may overwrite itself, from an interrupt, several calls deep | no native instruction on changed bytes |
| Native dispatch (`sched.c`, `cpu.h`, `interp.c`) | C frames beside the 65816 stack, `jb`, `ct_tail_fn`, `int_depth` | `exec_one`, `exec_hook`, `tick`, `overlay_bail`, `ct_tail` | emitted code, overlays | `longjmp` across nested frames; interrupts inside native code | every jump lands in a live frame; each RTI ends one interrupt |
| Interpreter and its timing (`interp.c`, `cycles.c`) | CPU registers, the bus log | `interp_step`, `interp_interrupt`, `cyc_cycles`, `cyc_finish` | scheduler's walk | 256 opcodes, two widths, wraps; the timing is asked for while the instruction runs | flags mean what they say; each access has its cycle; both accounts of the clocks agree |
| Operations of generated code (`ops.h`, `emit.py`'s templates) | none of their own | `op_*`, `ea_*` | bus, cycle log | the same instructions a second time | same CPU, accesses, order and clocks as the interpreter |
| Recompiler: decoder, registry, emitter (`recomp/*.py`) | work list, decoded functions, cache, assumed exits | `decode_function`, `Registry.function`, `_fixpoint`, `emit_function` | metadata; emitted code's checks | M/X widths across calls, recursion, callees that are not compiled | native code runs each instruction in the width it was compiled for |
| APU ports and SPC700 host (`snes_adapter.c`, `spc700_host.cpp`) | two values a port, pending bit, cycle and target | catch-up, port read and write, cycle end, `$F1` | CPU accesses, line ends | the SPC700 stops inside an instruction, up to a cycle from the CPU's time | each side sees the other as of its own clock |
| DMA/HDMA channels (`snes_adapter.c`, vendored `dma.c`) | registers, tables | `$420B`, `$420C`, costs | scheduler | the tables advance at commit, the cost is asked for in the walk | each line pays its own cost |
| Bus (`bus.c`) | WRAM, hooks, journal | read, write, `wram_store`, speeds | everything | two definitions of a region's speed | accesses and fetches agree |
| Input (`frontend/input.c`, `main.c`, `replay.c`) | keys held and ignored, last button, open span | key, button, poll, frame, close | SDL, frame hook | duplicates in either order, hot-plug; any exit in any frame | a duplicate is never held, another key always; the file gives the frames back |
| Sound (`sched.c`'s ring, `resample.c`, `main.c`'s queue) | ring, filter history and position, queue | `dsp_out`, take, process, queue | SPC700, SDL's thread | full and empty buffers; fractions carried from call to call | samples in order, outputs a step apart, nothing rejected, the delay bounded |
| Metadata and test tools (`game/ct/tools`, `tools`) | TOML files, caches | discover, sync, compare, cache | recompiler, ROM | fixed points, stale caches | idempotent |
| Vendored cores (`third_party`) | | | | | not this project's code |

`PROJECT.json` lists the hazards, each at its line.

## 2. Modules

**SchedClock** models the scheduler's clock. An instruction is a sequence of
CPU cycles (their clocks) and an operation of its last access. `charge`
decides whether anything falls inside it (`Inside`); if so `StartWalk` copies
the line state to `w` and `WalkNext` takes one branch of `walk_cycle_start`,
`walk_pass`, `walk_pending` or `walk_dma_pending` at a time, on a small stack
`todo` that stands for the nested calls; then `AdvanceNext` commits the
walk, an event at a time, as `advance` does. `$4210` reads run a walk of
their own before their instruction is charged (`RdnmiAccess`), as
`access_clock` does. The H and V timers, NMI, WAI's idle cycles (both the
walked and the skipped ones), interrupt entries, RTI and the reset button
are actions. Clocks are relative to the line, and `line_start` is kept
modulo `Sync`, which is all the code asks of it; `field` is the frame's
parity, for the short line. A behaviour's program uses one of the sets of
operations in `Programs`. **SchedClockProofs** holds its theorems.

**Edge** models the two places where the walk meets what an instruction's
accesses did: the frame edge inside an instruction (`edge_hook` undoes the
stores that come after it, shows WRAM to the hook and redoes them) and the
counters (`access_clock` walks up to the access, `access_hv` turns its clock
into H and V). `WalkCycle` is one cycle of the walk, with the DMA that may pause
it. `before`, `moved`, `asOf` and the checks keep what a clock-by-clock machine
would show; `moved` is the byte a DMA replaced at its `$420B` write, which such a
machine would still show until the pause. **EdgeProofs** holds its theorems.

**Overlay** models the native dispatch as far as overlays are concerned, on a
stack of C frames (`Loop`, `Native`, `Bail`, `Main`) beside the 65816's `S`.
Memory is a function from WRAM bytes to values; an overlay function is a
range, an address and the image it was compiled from. A lookup is done at
once (it calls nothing), a store is `WramStore`, with `ct_wram_gen`, the watch
range and `ct_wram_hit`; `tick` takes interrupts, looks for stale activations
and bails out; `NativeTail`, `NativeTailRest`, `OverlayTailRest` and the
returns are what emitted code does. **OverlayProofs** holds its theorems.

**Bus**, **Cycles**, **Interp**, **Ops** and **Cpu** model an instruction. Bus
has the clocks of an access and of a code fetch. Interp is `interp.c`: `Decode`
is the opcode table, `ea` the addressing modes, `interp_step` an instruction
as a function from registers and the values it will read to registers and the
sequence of accesses it makes. Ops is the same for generated code. Cycles is
`cycles.c`: an instruction's cycle template with its accesses put in
(`cyc_cycles`), and the per-opcode count (`model_clocks`). Cpu runs any
`Executions`, access by access, since the walk may ask for the cycles in
between. A byte has `W` bits; the formulas take the width as it comes.

**Decode** models the recompiler's analysis. A program is a function from
addresses to instructions, of which only what the decoder looks at is kept:
set the width, use it, push and pull P, branch, jump, call, return. M stands
for M and X, and one kind of call for all. `frames` is the Python stack of
`Registry.function`; `Enter` decodes a callee, `Recurse` is `NeedAssumption`,
which unwinds the stack to the recursive function and starts `_fixpoint`;
`Iterate` and `Cache` end its passes. `Root` takes the emitter's next entry, the
least of `roots` that is left. **Compiled** runs what Decode built:
each frame is native code of a function, at an instruction compiled for one
width, or the interpreter, which has the CPU's width; entries, PLP,
interpreted calls and several exits are checked as the emitted code checks
them. **CompiledProofs** holds the theorems of both.

**AutoJoypad** models the lazy read with the clock relative to the line, so that
it runs for ever. `step`, `start`, `on`, `busy`, `joy` are the code's; `Update`
is the whole catch-up loop in closed form, and `ReadsAsOfClock` compares a
read with a definition by clock. **AutoJoypadProofs** proves both of its
invariants.

**ApuPorts** models the two sides of `$2140`-`$2143`. Only the difference of the
two clocks is kept, in fractions of an SPC700 half-cycle (`lag`), which makes
the double-precision ratio a rational and time unbounded. `Sync` starts a
catch-up, `SpcCycle` is one cycle of the coroutine with an arbitrary access,
`CpuRead` and `CpuWrite` finish the access. `recent` and `settled` are the
reference: the set of the CPU's last writes with their clocks, and what older
ones left. **ApuPortsProofs** proves both of its invariants.

**Input** joins the keyboard filter, the poll, the script and the recorder as
`on_frame` does: keys and controller presses come in any order, each frame's
buttons are live input and script together, and the recorder sees those. A
pad value is a set of buttons. **InputProofs** proves its three properties.

**Audio** models the DSP's ring, the resampler's buffer and positions and the
SDL queue with its own thread; a sample is its number, an output the samples
under it. **AudioStream** is what that promises (samples in order, the oldest
lost only to a full ring, each output one step after the last), and Audio
implements it by the refinement mapping `Stream`: the ring's samples in order
for `waiting`, what was dropped and what is buffered for `fed`, the position
counted from the beginning for `place`. **AudioProofs** proves it.

The `MC` modules give the constants that a .cfg cannot write.

## 3. Runs

| Run | Shows | Bounds |
|---|---|---|
| MCSchedLine | refresh, HDMA, HDMA init, general DMA, `$4210` reads and resets nested in each other, and the H/V timer against SEI, CLI, WAI, RTI and register writes: `WalkCommitAgree`, `TransferAligned`, `ChargedWholeIsQuiet`, `HdmaNotLost`, `AccessClockExact`, `TimeupIsIrqLine`, `NoIrqAfterEntry` | line of 92 clocks; one size of DMA, of 72 clocks, that begins in a line and crosses its end; one HTIME, one VTIME, one nested interrupt |
| MCSchedNmi | NMI against `$4200`, `$4210`, WAI and resets, or against a general DMA whose pause locks the CPU out while the NMI is counted down, with liveness: `RdnmiInVBlank`, `WaiEnds`, `NmiTaken`, `LinesEnd` | line of 104 clocks, one kind of instruction, one size of DMA (24 clocks) |
| MCEdge | stores of one and two bytes, a DMA's byte and counter reads at every alignment to refreshes, line ends and the frame edge: `EdgeView`, `StoresKept`, `CountersExact` | lines of 40 clocks, three a frame; a DMA of 44 clocks |
| MCOverlay | stores from the CPU, from native code and from interrupts against two overlays at one address: `TypeOK`, `CacheSound`, `JumpTargetLive`, `NativeBytesCurrent` | two bytes on two pages, five C frames, two stores |
| MCCpu | every opcode at every width, page crossing and wrap, interpreted and generated; arithmetic on every pair of values; registers at their limits; interrupt entries: `AccessHasItsCycle`, `TemplateIsCount`, `NativeIsInterp`, `NativeTimedAsInterp`, `RtiUndoesInterrupt`, `ArithmeticMeans` | bytes of two bits |
| MCCompiled | 8,000 programs of three functions, built and run: `RightWidth`, `CallsAgree`, `BuildEnds`, `Confirmed` | twelve instructions, calls nested to three, two P bytes pushed a call |
| MCAutoJoypad | a read over a line and more, with buttons, enable and reads at any clock: `ReadsAsOfClock`, `FrameSeesItsButtons`, `BusyEnds` | two buttons (6 steps), a frame of 4 lines of 20 clocks, instructions of 2, 3 and 25, one enable write a frame |
| MCApuPorts | every alignment of the two clocks to a fifth of a half-cycle: `InStep`, `ReadsAsOfClock`, `PendingLands` | two ports, one in each half of `$F1`; two CPU writes between SPC700 cycles |
| MCInput | every order of key and controller presses, releases, hot-plugs and exits over four frames, with a script: `DuplicatesIgnored`, `OthersHeld`, `RecordingHolds` | two keys, a window of 2 frames, two script spans that overlap |
| MCAudio | the ring full and empty, a queue far ahead, ratios below and above one: `TypeOK`, `TapsInside`, `StreamSpec` | ring of 4, 4 taps, 13 samples, thirds of a sample |
| MCOverlayRti | violation of `InterruptOwnRti` | |
| MCCompiledNested | violation of `CallsAgree` | one program of three functions |

Why the bounds are enough. *SchedClock*: MCSchedLine's line of 92 clocks keeps
the line's and the HDMA point's residue modulo 8 and the order of the events, and is
several instructions long, so every event can fall on every cycle and clock of an
instruction; MCSchedNmi's line of 104 is a multiple of 8, which
leaves `line_start` one residue there and the alignments to MCSchedLine. For the
lock only a general DMA is needed: an NMI that falls due inside its pause waits for
its end, as it would for an HDMA's. Four lines hold the first line, a picture line, VBlank's first
line and the short line. The clocks near a line's start (2, 6, 12, 18) are the
code's; the refresh, the HDMA point and the costs are scaled down with the
line, in the same order. *Edge*: an instruction may pass several lines, with a
refresh before, between and after its accesses; `MaxLines` is the one bound, in
`Commit`'s guard, and no instruction of MCEdge meets it (it would deadlock). *Overlay*: staleness is about
one function and one page at a time; two functions at one address make the
lookup choose, two pages make a watch range that can be narrowed wrongly, and
five frames allow native code in an interrupt in native code. *Cpu*: nothing in
the two codes depends on the width of a byte but through carries, sign bits
and wraps, and two bits have each of them; all 256 opcodes run. *Compiled*: a
wrong width needs a callee with two exits, a recursion, or a call left to the
interpreter, each of which fits into three functions; the programs are all
combinations of three instructions of the first with four kinds of the second,
and a few by hand, among them a recursion entered while another is being decoded.
*AutoJoypad* has steps 1, 4 and last like the code's, and steps that fall in the
arming line and in later ones; the longest of its instructions, which stands
for a DMA, is longer than a line and passes step 1 inside it. *ApuPorts*: two half-cycles every five clocks is
coprime, like the code's ratio, and coarser; an instruction takes 1 or 8 clocks, and
the one longer than the line of 5 stands for a DMA. *Audio*: a ring of 4 wraps and overflows, and 13 samples
pass through it three times.
MCOverlay, MCOverlayRti, MCInput, MCAudio and both MCCompiled runs switch deadlock
checking off: behaviours end at the bounds on stores, frames and samples, when
a recording is closed, and when the build fails or the program stops.

**Fairness.** `WF_vars(Next)` in SchedClock, AutoJoypad and ApuPorts: the
CPU coroutine is a loop without an exit, resumed for as long as the frontend
asks for frames, so *some* step is always taken. No action is given fairness of
its own, and a program that loops for ever on any instruction is allowed; the
liveness properties are those that hold for every program. In Compiled only the
build has fairness: it is a sequential program, and nothing says of the game's
code that it ends.

## 4. Where the code and its comments disagree

Two have a run.

- **A fixed point inside another** (MCCompiledNested). `funcs.py:168` computes
  the "least fixpoint" of a recursive routine's exits. When decoding inside an
  inner `_fixpoint` meets a call of an outer function that is still being
  decoded, the exception unwinds the inner one, whose `finally` drops only its
  assumption: the functions decoded under it stay in `cache`, and the outer
  `_fixpoint` counts them among `before` and keeps them. In the run's program
  (1 calls 3, which calls 8 and itself through 1, and 8 calls 3) function 8 is
  kept with one exit of function 3, which is compiled with two. After a call
  with one exit generated code checks only PC, so 8 would go on in the wrong
  width; with the entries in another order it is compiled correctly.
- **An RTI counted twice** (MCOverlayRti). When an interrupt in front of a native
  RTI overwrites the overlay, the RTI leaves `int_depth` twice and the outer
  handler's bail-out ends too early (not in strict builds, which stop).

These were met while modelling and have no run of their own:

- `dma_start` overwrites the sizes of a DMA whose pause has not begun
  (`sched.c:908`): of two `$420B` writes in a row only the second's clocks are
  charged.
- Disabling the H/V timer, or moving it, leaves the line's IRQ clock armed until
  the line ends (`sched.c:590`, `:600`), and one enabled or moved behind that clock
  is missed on the line. The model does the same; no property asks which setting
  a line's IRQ belongs to, since the code promises nothing about it.
- `$4200` bit 0 written after step 1 but before a catch-up decides the
  auto-joypad read (`sched.c:287`).
- NMI enabled at clocks 2 to 5 of line 225 is armed by `nmitimen_write` and
  again at clock 6 (`sched.c:151`, `:737`).
- A walk that passes two lines asks `snes_hdma_cost` twice with the tables of
  the first (`sched.c:725`).
- `access_hv` takes off one line's length only (`sched.c:173`): `$2137` or `$4212`
  read by the instruction right after a DMA longer than a line reports an H past
  the line's end. A VBlank entered in the middle of a long DMA arms the
  auto-joypad at its line's start, after accesses past it: `ReadsAsOfClock` speaks of
  the read armed by a line begun before the access's instruction. The field bit of
  `$213F` is that of the committed frames.
- When the frame edge falls between a `$420B` write and the start of its pause,
  the hook sees the DMA's bytes although `sched_frame_in_dma` says that none is
  under way. An HDMA that `advance` runs after the instruction adds to
  `ct_bus_n` and to the journal, so that its `$2180` writes may be rolled back
  with the instruction's.
- HTIME 336 on the short line is lost silently: its clock, 1362, is past that
  line's 1360, while 337 and up stop the program (`sched.c:501`).
- `ct_wram_gen` is 32 bits wide and "only grows" (`overlay.h:5`); 2^32 stores to
  a page between two lookups make it current again. `CacheTheorem` has the bound
  as its assumption.
- Generated code reads a jump table of known length from constants and is
  charged 6 clocks for each of the two reads, whatever the region's speed,
  though `cycles.h` says "both charge exactly the same".
- A function that called an uncompiled one, and got another width back, is
  finished by the interpreter, and may return in a width that is none of its
  exits; a compiled caller that expects one exit checks only PC and goes on in
  the wrong width. `RightWidth` therefore holds only until such a return
  (`strayed`).
- The decoder's key of a visited place leaves the pushed P bytes out
  (`decode.py:673`): where two PHPs of different widths meet at one PLP only one
  of them is followed. The other stops at run time, in `cpu_check_mx`, though
  `decode.py:8-10` promises a `DecodeError` for what cannot be resolved.
- `_fixpoint` is not monotone: a callee whose exits become unknown is called
  through the interpreter, as if it kept M/X. The exits may oscillate, and a legal
  program then fails with "do not converge" (`NeverSettles` in MCCompiled).
- A recording does not hold the script's resets, nor pad ID bits.
- The key filter learns of a controller at the next poll, not when it is
  plugged in.

## 5. Proofs

`OverlayProofs` proves, for every memory size, page size, set of functions and
depth:

- `TypeCorrect`: `TypeOK`, from `TypeOK /\ StackInv`. `StackInv` is the first
  inductive invariant: the interrupt depths kept in C frames count the frames
  below (`Counts`), every frame a loop returns to is there (`Targets`), and an
  activation's jump buffer is set in the frame that entered it (`Buffers`).
- `JumpTargets`: `JumpTargetLive`, from `Buffers`: a `longjmp` always lands in a
  live C frame. The interesting steps are the reset and the bail-out, which
  drop several frames, and a tail jump, which reuses one.
- `CacheTheorem`: `CacheSound` if `MaxWrites < GenMod`. The property alone is not
  inductive. `CacheInv` adds that a page's generation is never below the sum
  a verdict was taken at, and that an unchanged sum over a function's pages
  means unchanged bytes; the assumption is what excludes the wrap.
- `NativeTheorem`: `NativeBytesCurrent` under the same assumption. `WatchInv` says
  that the watch range covers every activation that is not dormant, so that a
  store to its bytes raises `ct_wram_hit`; `FreshInv` that without a hit every
  native activation's bytes are the image's, except one (`Exempt`) whose
  instruction is under way.

The assumptions are those named in Overlay (`Addr`, `Lo`, `Hi` and `Image`
describe ranges inside WRAM, the bounds are natural numbers). The models' bounds
`MaxAct`, `MaxS`, `MaxWrites`, `MaxFrames` stay constants in the theorems.

`AudioProofs` proves, for every ring, filter length, ratio and queue that
`AudioAssumption` allows (it asks that an output buffer hold what a full input
gives, which the code's 8192 does at every ratio the rate control asks for):

- `TypeCorrect`: `TypeOK`, the bounds of the ring, the resampler's buffer and the
  SDL queue among it.
- `NoSampleRejected`: `TapsInside`. Neither is inductive alone. `Inv` adds that
  between calls at most `Taps` samples are kept, and that within a call
  `pos` has travelled at least `produced` steps: so the loop has ended because the
  samples ran out and not the output, hence few are left. The product of
  outputs and step is the only non-linear part, and has lemmas of its own.
- `Implements`: `StreamSpec`. Each action is a step of AudioStream or a stutter
  under the mapping of section 2: `DspOut` is `Make` (the ring's slots modulo
  `Ring` are the sequence of waiting samples, before and after it wraps), `Take`
  is `Take`, `Output` is `Emit`, and `Finish`, which moves samples from `buf` to
  `gone`, and `Device` change nothing that AudioStream sees.

`InputProofs` proves, for every set of keys and buttons, script and number of
frames, from `InputAssumption` (a script's spans are as the parser accepts them; the
window is below 1000, because `Never`, no press so far, is frame -1000):

- `DuplicatesTheorem` and `OthersTheorem`: `DuplicatesIgnored` and `OthersHeld`,
  inductive together with `FilterInv`: every key that is down is held or ignored
  and never both; the one press the filter remembers is the latest there was, so
  that by it alone (`NearIsLast`) it sees whether any press was near; and it goes by
  whether a controller was there when the poll began.
- `RecordingTheorem`: `RecordingHolds`, which says nothing until the file is
  closed. `RecInv` is what holds while it is open: the file's spans and the
  recorder's open one (`OpenSpan`) give back every frame so far, in order, and the
  open one reaches the last frame. `ReplayAppend` says what one more span adds to
  each frame; `FlushedHolds`, used at a new span and at the exit, that the flush
  loses nothing by not writing a span without buttons.

`ApuPortsProofs` proves, for every ratio of the two clocks, set of ports and
values and length of instructions (`ConstantsAssumption` asks that the SPC700's
reset vector be read before the CPU's first instruction, which 186 clocks
before it allow):

- `InStepTheorem`: `InStep`. What makes it inductive is `InTime`: while a catch-up
  is running, the cycles still to run leave the SPC700 less than a cycle behind
  the access, and between accesses it is never ahead of the CPU.
- `ReadsTheorem`: `ReadsAsOfClock`. `Latched` says that the latch holds what the
  writes due by now leave in each port, and `port_new` what all of them leave;
  that the two differ only while a write is pending, and that this write is not
  due. `Ordered` keeps the writes' clocks apart, without which "the last write"
  would not be one. `LastWrite` is a choice among a set, and lemmas say which.

`AutoJoypadProofs` proves, for every number of buttons, step, line and frame, and
instructions of any length, those that cross several lines included:

- `ReadsTheorem`: `ReadsAsOfClock`. A lazy catch-up runs any number of steps at
  once; `RunWereDue` and `LastRun` describe the state after some of them,
  `EnableInSince` which enable bits step 1 may have seen (those from its own clock to
  the first read or line start after it; nothing later), and `UpdateIs` that
  `Update` takes such a state to the one at its clock. What the theorem leaves out
  is a read armed inside the instruction that looks (section 4).
- `FrameTheorem`: `FrameSeesItsButtons`, with `ReadLies`: a read ends within the
  lines after the one that armed it, and long before the next VBlank. That is
  the assumption `Delay + Grid + StepClocks * (2 * Bits + 2) <= (Lines - 1) *
  LineClocks`; in the code a read takes 34 steps of 128 clocks and starts within
  130 + 256, and a frame less a line is 261 lines of 1364.

`SchedClockProofs` proves, for every line length, event clock in the code's
order, refresh, transfer cost, instruction and program that `LineAssumption` and
`InputAssumption` allow, five of the run's properties from one inductive
invariant, `IInv` (`Inductive`):

- `WalkCommitTheorem` (`WalkCommitAgree`) and `TimeupTheorem` (`TimeupIsIrqLine`) rest
  on `Sim`. While a walk is under way and until its commit is over, the walk is
  `m` lines ahead of the committed clock, along a `Chain` of line starts with
  their numbers and fields, which is what `advance` is going to pass. Along it:
  what the committed line has met the walk's has too, if they are the same line
  (`Flags`); what the walk met lies at or before the clock to be committed
  (`Met`), what it has not lies after it (`Unmet`), so that `advance`, which goes
  by the clock alone and in another order, can only meet the same events; the
  refreshes charged and not met are those of the lines in between (`PaidFor`);
  and if the IRQ line is up and TIMEUP is not, the timer matches on one of the
  lines ahead (`TimeupFollows`). `AdvanceEndLine` takes the first link off the
  chain, `WalkEndLine` adds one at its end; when `advance` finds nothing more to
  do the chain is empty (`Arrived`). `LinesAgree` is the same for states without
  a walk, and for `access_clock`, which walks and puts `pend` back.
- `QuietTheorem` (`ChargedWholeIsQuiet`) rests on `Settled`: where the program
  runs, every event of the line is behind the clock or strictly ahead. It is
  what `Inside` then compares the instruction's clocks with, and the idle run of
  a WAI too (`WaiNextIs`).
- `AlignedTheorem` (`TransferAligned`) rests on `Aligned`: a transfer to come is
  either next, on the grid, or behind one pass that ends on the grid. A refresh
  inside that pass keeps it so because `RefreshClocks % Sync = 0`, and the end of
  a line because `line_start` is counted on, not reset.
- `EntryTheorem` (`NoIrqAfterEntry`) rests on `Entry`: from an interrupt to the end
  of its entry the I flag in effect is set, so that the sample of the entry's
  last cycle is false, if the sample has been taken.

`EdgeProofs` proves, for every line, frame and refresh, instruction of any length and
position of the edge:

- `EdgeTheorem` (`EdgeView`) and `StoresTheorem` (`StoresKept`), from `Stores`: each
  journal entry holds what its byte held when the instruction began and what it
  holds now. `WalkGrows` says that time never falls along a walk, so that
  `undo_from`, one index, splits the stores into those that end before the edge and
  those that end at it or later (`UndoFromIs`); `JournalIs` what undoing and redoing
  from there do to each byte; `SeenIs` and `RedoneIs` are their sums. The
  exceptions of `EdgeView` are what is left for a DMA's byte (`DmaOver`).
- `CountersTheorem` (`CountersExact`): `LineAtIs` finds the line of a clock among the
  starts of the lines ahead, and `HvIs` that `access_hv`, which takes off one
  line, finds the same one while the clock is at most one line ahead.

`ClockAssumption` asks that a line be longer than the refresh's clock and that an
instruction may pass a frame's lines at least. `AccessAssumption` is what the
model leaves out: an instruction stores to a byte once, and does not both store to
WRAM and write `$420B`. (A 16-bit read-modify-write has one store per byte; so has a
push or a call.) `Iterates` gives the recursive functions `Start` and `Walk` their values:
a sequence of any length exists by the least length for which it does not.

`CompiledProofs` proves, for every program that `DecodeAssumption` allows (addresses
are numbers, a branch or a direct jump has one target, entry states are widths), any
depth of calls and any number of tries, what the decoder promises the emitted code.
Both theorems have the hypothesis `Confirmed`: no fixed point is given up
unfinished, what is assumed of a function stays assumed until it is decoded as
assumed. The code does not ensure it: the finding of MCCompiledNested is a behaviour
in which a recursion around another drops its assumption, and there `CallsAgree` is
false. It is the only way for it to fail, and no program without a recursion inside
another gives a fixed point up. `Confirmed` is a property of MCCompiled, whose
programs recurse alone, through one another, and (one program) inside another
recursion that is left alone. MCCompiledNested's program violates it.

- `AgreeTheorem` (`CallsAgree`). `DecodeInv` is the inductive invariant, on the whole
  stack of functions being decoded. `Closed` says of each function, decoded or half
  decoded, that every instruction leads to decoded ones or to the work list, and
  that what it took of other functions (`Flow`) is what they are now known for
  (`Known`: the cache, and the exits assumed). That would break when `Iterate` changes
  an assumption, or `Cache` turns it into exits. The first is what `Rests` is for: what
  was cached when a fixed point started, and the functions below it on the stack,
  took nothing of what the fixed point drops or changes, so that the code's
  `before` is enough to keep; the second is `Stable`. `Rooted` says that no
  registered entry is forgotten, not even by the cached functions that an iteration
  drops. When the stack is empty nothing is assumed any more, and `Closed` speaks of
  the cache alone (`BuiltIs`).
- `RightWidthTheorem` (`RightWidth`). `RunInv` adds the calls under way: native code
  is at an instruction compiled for its width (`Placed`), and a native caller's
  instruction goes on in all the widths that the function it waits for, or the one
  whose rest the interpreter runs for it (`Owner`), was compiled to return in, or
  checks M after an interpreted call (`Expects`). A tail call keeps this because the
  decoder counts its exits among its function's (`TailStep`, `JumpStep`); a return
  because its width is among the exits of its owner, so that a caller with one exit,
  which does not look, is right (`ReturnsIn`, `ReturnStep`). It holds until a function
  that the interpreter finished strays, as the property says.

Each is the usual three facts (the initial state, one step per action, the
property), and the temporal step is the last. Where an argument goes by
induction (the sum of an instruction's clocks, the chain's order) it takes the
least counterexample, from the library's well-foundedness of the numbers
(`Least`).

Only model-checked:

- all liveness, which the prover does not do;
- `HdmaNotLost`, which needs a bound on what a transfer costs that the program
  chooses; `AccessClockExact` and `RdnmiInVBlank`, which compare two walks
  of the same instruction, one behind the other;
- `Confirmed`, the hypothesis of CompiledProofs' theorems, of the programs of
  MCCompiled (a property of that run): which programs have it is a question of their call graph;
- Cpu, whose modules use recursive operators (`Total`, `Walk` of Cycles) and Bitwise,
  out of the prover's reach.

## 6. Not modelled

- Native code in SchedClock: `tick` charges the instruction before, otherwise
  like `exec_one`; the switch itself is Overlay's. STP, profiling, the
  `CT_REF_QUIRKS` count.
- In Edge, an instruction stores to a byte once, a DMA's pause has one length,
  HDMA writes no WRAM.
- In AutoJoypad, an access inside an instruction is at its end. In ApuPorts, a DMA into the ports, several accesses at one clock.
- In Interp and Ops: the strict build's checks and budgets, traces, the bus log's
  size, which of the two reads of `read8(a) | read8(b) << 8` a compiler makes
  first (taken in the order written), a stack that wraps inside emulation mode, an
  instruction that straddles two speeds. `decode.py`'s opcode table is taken to
  be the interpreter's, as the emitter's tests check.
- In Decode and Compiled: XCE, pushes other than PHP, the difference of JSR and
  JSL, externs, tables of unknown length (they behave as interpreted calls), a
  function that pulls P bytes or returns through bytes its caller pushed. A call
  at the bounds is not taken.
- In Input, a script's text and its resets, which only end a frame early. In
  Audio, the filter's floating-point arithmetic, the level average behind the rate
  control (any of `Steps` may be asked for at any frame), and a device that cannot
  be opened.
- The HDMA tables: each line's cost is any of `HdmaCosts`.
- The emitted text, the metadata and test tools, the window, png, wav, logs: pure
  output, or text in and text out. The vendored cores are not this project's code.

## 7. What could follow

1. **Hdma**: the channels' registers and tables, with `snes_hdma_cost` and
   `snes_hdma_init_cost` against what `dma_doHdma` then does.
2. **NativeExec**: `exec_one`, `tick`, `ct_run`, `ct_call_interp` and
   `exec_until` for ROM functions: the C frames against `S`, tail calls, the
   context check after an interrupt. Abstract specification: an interpreter
   without C frames, refined by it.
3. **Discover**, **CTestCache**, **SyncSymbols**: the loop of `discover.py` that
   closes the call graph, stale results, idempotence.
4. **FrameClock**: the machine SchedClock promises (lines, one NMI and one
   refresh a line, no walk), which SchedClock implements.

Theorems to add: that `Confirmed` holds of programs whose recursions are not nested;
`RdnmiInVBlank` and `AccessClockExact`, with the first walk's
result kept as a history; NativeExec's refinement.
