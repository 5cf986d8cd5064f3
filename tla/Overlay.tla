------------------------------ MODULE Overlay ------------------------------
(***************************************************************************)
(* Code the game puts in WRAM, run natively (runtime/overlay.c, overlay.h, *)
(* the write path of bus.c and the dispatch of sched.c).                   *)
(*                                                                         *)
(* A recompiled overlay function runs only while the WRAM bytes it was     *)
(* compiled from are there.  Three mechanisms keep that true: a cache of   *)
(* checks keyed by the sum of the page write counters (valid), a watched   *)
(* range whose writes raise ct_wram_hit (wram_store), and the bail at the  *)
(* next native instruction boundary (tick, overlay_bail), which interprets *)
(* until the stale function has returned and then longjmps to its dispatch.*)
(*                                                                         *)
(* The C stack is the sequence frames: dispatcher loops ("main", "until",  *)
(* "int", "bail") and native functions ("ovl", "rom").  The guest program  *)
(* is arbitrary: it writes any byte, moves S anywhere, calls and returns   *)
(* as it likes.  The hash comparison of matches() is taken as the equality *)
(* it stands for (no FNV-1a collision).                                    *)
(***************************************************************************)
EXTENDS Integers, Sequences, FiniteSets

CONSTANTS
    WramSize,    \* bytes of WRAM (0x20000 in the code)
    PageSize,    \* bytes counted by one write counter (256)
    Bytes,       \* the values of a byte
    NFuncs,      \* n_ovl, the entries of the sorted lookup ovl[]
    Addr,        \* entry address (and M/X state) of each
    Lo, Hi,      \* the WRAM offsets each was compiled from, inclusive
    Image,       \* the bytes it was compiled from
    GenMod,      \* ct_wram_gen wraps here (2^32: uint32_t)
    MaxAct,      \* OVERLAY_MAX_ACT
    MaxS,        \* bound: S ranges over 0..MaxS
    MaxWrites,   \* bound: WRAM writes in a behaviour
    MaxDepth,    \* bound: interrupts open at once
    MaxFrames    \* bound: C frames

VARIABLES
    wram,        \* the bytes
    gen,         \* ct_wram_gen: the write counter of each page
    writes,      \* how many writes there were (history; bounds the model)
    hit,         \* ct_wram_hit
    watch,       \* ct_wram_watch_lo, ct_wram_watch_len
    act,         \* ct_ovl_act[0 .. ct_ovl_n)
    cache,       \* cache[]
    frames,      \* the C stack
    pc,          \* where the innermost frame is
    S,           \* cpu->S
    int_depth,   \* sched.c's count of interrupts under way
    open,        \* interrupts entered and not returned from (history)
    strict       \* ct_overlay_strict

vars == <<wram, gen, writes, hit, watch, act, cache, frames, pc, S, int_depth, open, strict>>

Offsets == 0 .. WramSize - 1
Pages == {a \div PageSize : a \in Offsets}
Ovl == 1 .. NFuncs

ASSUME SizeAssumption ==
    /\ WramSize \in Nat \ {0} /\ PageSize \in Nat \ {0} /\ GenMod \in Nat \ {0}
    /\ NFuncs \in Nat /\ MaxAct \in Nat /\ MaxS \in Nat
    /\ MaxWrites \in Nat /\ MaxDepth \in Nat /\ MaxFrames \in Nat \ {0}

ASSUME TableAssumption ==
    /\ Lo \in [Ovl -> Offsets] /\ Hi \in [Ovl -> Offsets]
    /\ \A k \in Ovl : Lo[k] <= Hi[k]
    /\ Image \in [Ovl -> [Offsets -> Bytes]]

Loops == {"main", "until", "int", "bail"}
Natives == {"ovl", "rom"}

(* n is the number of functions active in the frame.  s is the S that ends *)
(* an "until" loop, the S a "rom" function was entered with, or the S an   *)
(* "int" loop must come back to; depth and open are int_depth and open     *)
(* before the interrupt; of is the function a "bail" loop stands in for.   *)
Frame == [kind : Loops \union Natives, n : Nat, s : Int, depth : Int, open : Nat, of : Nat]
Loop(kind, n, s) == [kind |-> kind, n |-> n, s |-> s, depth |-> 0, open |-> 0, of |-> 0]
Main == Loop("main", 0, 0)

WatchRange == [lo : Nat, len : Nat]
NoWatch == [lo |-> 0, len |-> 0]

(* An active function: jb is the depth of the C stack its setjmp was       *)
(* called at, that of the dispatcher loop, and saved is the range watched  *)
(* before it entered.                                                      *)
Act == [f : Ovl, s0 : 0 .. MaxS, dormant : BOOLEAN, saved : WatchRange, jb : Nat]
Entry == [checked : BOOLEAN, gens : Nat, valid : BOOLEAN]

TypeOK ==
    /\ wram \in [Offsets -> Bytes]
    /\ gen \in [Pages -> 0 .. GenMod - 1]
    /\ writes \in 0 .. MaxWrites
    /\ hit \in BOOLEAN
    /\ watch \in WatchRange
    /\ act \in Seq(Act) /\ Len(act) <= MaxAct
    /\ cache \in [Ovl -> Entry]
    /\ frames \in Seq(Frame) /\ Len(frames) >= 1
    /\ pc \in {"run", "insn", "rti", "ret", "fatal"}
    /\ S \in 0 .. MaxS
    /\ int_depth \in Int
    /\ open \in 0 .. MaxDepth
    /\ strict \in BOOLEAN

----------------------------------------------------------------------------
(* The validity of a function.                                             *)

PagesOf(k) == {a \div PageSize : a \in Lo[k] .. Hi[k]}

(* The sum of its pages' counters, as the number of (page, count) pairs at *)
(* or below them.                                                          *)
Counted(k) == {w \in PagesOf(k) \X (1 .. GenMod) : w[2] <= gen[w[1]]}
PageGens(k) == Cardinality(Counted(k))

Matches(k) == \A a \in Lo[k] .. Hi[k] : wram[a] = Image[k][a]

(* valid(k): the entry after the check, rehashed if a counter moved.       *)
Checked(k) ==
    IF ~cache[k].checked \/ cache[k].gens # PageGens(k)
    THEN [checked |-> TRUE, gens |-> PageGens(k), valid |-> Matches(k)]
    ELSE cache[k]

AfterChecks(Ks) == [k \in Ovl |-> IF k \in Ks THEN Checked(k) ELSE cache[k]]

(* overlay_lookup: the candidates at an address are tried in order until   *)
(* one is valid.                                                           *)
At(at) == {k \in Ovl : Addr[k] = at}
Tried(at) == {k \in At(at) : \A j \in At(at) : j < k => ~Checked(j).valid}
Found(at) == {k \in Tried(at) : Checked(k).valid}

(* overlay_stale_active: the active functions are tried outermost first.   *)
Tested == {k \in DOMAIN act : /\ ~act[k].dormant
                              /\ \A j \in 1 .. k - 1 : act[j].dormant \/ Checked(act[j].f).valid}
Stale == {k \in Tested : ~Checked(act[k].f).valid}

----------------------------------------------------------------------------
(* The watched range.                                                      *)

Smaller(a, b) == IF a < b THEN a ELSE b
Larger(a, b) == IF a > b THEN a ELSE b

(* The range r extended to the bytes of function k.                        *)
Watching(r, k) ==
    IF r.len = 0
    THEN [lo |-> Lo[k], len |-> Hi[k] + 1 - Lo[k]]
    ELSE LET lo == Smaller(r.lo, Lo[k])
         IN  [lo |-> lo, len |-> Larger(r.lo + r.len, Hi[k] + 1) - lo]

(* rewatch, once the innermost function has gone dormant: the range that   *)
(* spans the functions below it.                                           *)
Awake == {act[k].f : k \in {j \in 1 .. Len(act) - 1 : ~act[j].dormant}}
Lowest == CHOOSE a \in {Lo[k] : k \in Awake} : \A k \in Awake : a <= Lo[k]
Highest == CHOOSE a \in {Hi[k] : k \in Awake} : \A k \in Awake : a >= Hi[k]
Rewatch == IF Awake = {} THEN NoWatch ELSE [lo |-> Lowest, len |-> Highest + 1 - Lowest]

(* wram_store: every write counts, and one in the watched range is seen.   *)
SeenFirst(a) == a = watch.lo   \* mutant: only the first byte is watched
Seen(a) == watch.lo <= a /\ a < watch.lo + watch.len

WramStoreUncounted(a, v) ==   \* mutant: the counter is not bumped
    /\ writes < MaxWrites /\ writes' = writes + 1
    /\ gen' = gen
    /\ hit' = (hit \/ Seen(a))
    /\ wram' = [wram EXCEPT ![a] = v]
WramStore(a, v) ==
    /\ writes < MaxWrites /\ writes' = writes + 1
    /\ gen' = [gen EXCEPT ![a \div PageSize] = (@ + 1) % GenMod]
    /\ hit' = (hit \/ Seen(a))
    /\ wram' = [wram EXCEPT ![a] = v]

NoStore == UNCHANGED <<wram, gen, writes, hit>>

----------------------------------------------------------------------------
(* The C stack.                                                            *)

Top == frames[Len(frames)]
InNative == Top.kind \in Natives
Below == SubSeq(frames, 1, Len(frames) - 1)
Push(fr) == Append(frames, fr)
Room == Len(frames) < MaxFrames

(* overlay_leave(a): a and everything entered after it are popped, and the *)
(* range watched before it comes back.                                     *)
Leave(a) == act' = SubSeq(act, 1, a - 1) /\ watch' = act[a].saved

(* What returning from the innermost native function does to the overlay   *)
(* state.                                                                  *)
Left == IF Top.kind = "ovl" THEN Leave(Len(act)) ELSE UNCHANGED <<act, watch>>

(* ct_exec_done, and the condition of tick's interrupt loop.               *)
LoopDone ==
    CASE Top.kind = "until" -> S >= Top.s
      [] Top.kind = "bail"  -> S > act[Top.of].s0
      [] Top.kind = "int"   -> int_depth <= Top.depth
      [] OTHER -> FALSE
InLoop == pc = "run" /\ ~InNative /\ ~LoopDone

----------------------------------------------------------------------------
(* exec_one, the dispatcher, in any of the loops.                          *)

(* An interpreted instruction: it moves S, writes WRAM (a DMA it starts    *)
(* writes more: further steps) or returns from an interrupt.  No overlay   *)
(* was found where it is; the lookup has checked the candidates there.     *)
Interpret(at) ==
    /\ InLoop
    /\ Found(at) = {} /\ cache' = AfterChecks(Tried(at))
    /\ \/ /\ S' \in 0 .. MaxS
          /\ NoStore /\ UNCHANGED <<int_depth, open>>
       \/ /\ \E a \in Offsets, v \in Bytes : WramStore(a, v)
          /\ UNCHANGED <<S, int_depth, open>>
       \/ /\ open > 0 /\ open' = open - 1 /\ int_depth' = int_depth - 1
          /\ S < MaxS /\ S' = S + 1
          /\ NoStore
    /\ UNCHANGED <<watch, act, frames, pc, strict>>

(* An interrupt taken between interpreted instructions.                    *)
InterpretInterrupt ==
    /\ InLoop
    /\ open < MaxDepth /\ open' = open + 1 /\ int_depth' = int_depth + 1
    /\ S > 0 /\ S' = S - 1
    /\ NoStore /\ UNCHANGED <<watch, act, cache, frames, pc, strict>>

(* run_overlay: overlay_enter and the call of the function found.          *)
DispatchOverlay(at) ==
    /\ InLoop /\ Room
    /\ cache' = AfterChecks(Tried(at))
    /\ \E k \in Found(at) :
          IF Len(act) = MaxAct
          THEN pc' = "fatal" /\ UNCHANGED <<act, watch, frames>>
          ELSE /\ act' = Append(act, [f |-> k, s0 |-> S, dormant |-> FALSE,
                                      saved |-> watch, jb |-> Len(frames)])
               /\ watch' = Watching(watch, k)
               /\ frames' = Push(Loop("ovl", Len(act) + 1, S))
               /\ UNCHANGED pc
    /\ NoStore /\ UNCHANGED <<S, int_depth, open, strict>>

(* native_lookup found a compiled ROM function.                            *)
DispatchRom ==
    /\ InLoop /\ Room
    /\ frames' = Push(Loop("rom", Len(act), S))
    /\ NoStore /\ UNCHANGED <<watch, act, cache, pc, S, int_depth, open, strict>>

(* The ends of the loops: exec_hook returns to the native caller, tick     *)
(* returns to the interrupted instruction if the handler came back to it,  *)
(* and overlay_bail jumps to the dispatch of the function it stood in for. *)
UntilDone ==
    /\ pc = "run" /\ Top.kind = "until" /\ LoopDone
    /\ frames' = Below
    /\ NoStore /\ UNCHANGED <<watch, act, cache, pc, S, int_depth, open, strict>>

IntDone ==
    /\ pc = "run" /\ Top.kind = "int" /\ LoopDone
    /\ IF S = Top.s THEN frames' = Below /\ UNCHANGED pc
                    ELSE pc' = "fatal" /\ UNCHANGED frames
    /\ NoStore /\ UNCHANGED <<watch, act, cache, S, int_depth, open, strict>>

BailPastDispatch ==   \* mutant: the jump buffer is the dispatcher's caller's
    /\ pc = "run" /\ Top.kind = "bail" /\ LoopDone
    /\ frames' = SubSeq(frames, 1, act[Top.of].jb - 1)
    /\ Leave(Top.of)
    /\ NoStore /\ UNCHANGED <<cache, pc, S, int_depth, open, strict>>
BailDone ==
    /\ pc = "run" /\ Top.kind = "bail" /\ LoopDone
    /\ frames' = SubSeq(frames, 1, act[Top.of].jb)
    /\ Leave(Top.of)
    /\ NoStore /\ UNCHANGED <<cache, pc, S, int_depth, open, strict>>

----------------------------------------------------------------------------
(* tick, at the start of every native instruction.                         *)

(* An interrupt is due: its handler runs in a loop of its own.             *)
TickInterrupt ==
    /\ pc = "run" /\ InNative /\ Room
    /\ open < MaxDepth /\ open' = open + 1 /\ int_depth' = int_depth + 1
    /\ S > 0 /\ S' = S - 1
    /\ frames' = Push([Loop("int", Len(act), S) EXCEPT !.depth = int_depth, !.open = open])
    /\ NoStore /\ UNCHANGED <<watch, act, cache, pc, strict>>

(* No interrupt, or all handled: the code-overwrite check, and the         *)
(* instruction begins unless it is one of a function overwritten.  An RTI  *)
(* has left its interrupt here already.                                    *)
HitChecked == hit' = FALSE /\ cache' = IF hit THEN AfterChecks({act[k].f : k \in Tested}) ELSE cache
Outermost == CHOOSE k \in Stale : TRUE

Tick(op) ==
    /\ pc = "run" /\ InNative
    /\ op = "rti" => open > 0
    /\ int_depth' = IF op = "rti" THEN int_depth - 1 ELSE int_depth
    /\ HitChecked
    /\ \/ /\ ~hit \/ Stale = {}
          /\ pc' = op /\ UNCHANGED frames
       \/ /\ hit /\ Stale # {} /\ strict
          /\ pc' = "fatal" /\ UNCHANGED frames
       \/ /\ hit /\ Stale # {} /\ ~strict
          /\ Room
          /\ frames' = Push([Loop("bail", Len(act), 0) EXCEPT !.of = Outermost])
          /\ UNCHANGED pc
    /\ UNCHANGED <<wram, gen, writes, watch, act, S, open, strict>>

----------------------------------------------------------------------------
(* The native instruction.                                                 *)

(* It writes WRAM; more writes of it, of a DMA it starts or of an HDMA due *)
(* before the next boundary may follow.                                    *)
NativeWrite ==
    /\ pc = "insn"
    /\ \E a \in Offsets, v \in Bytes : WramStore(a, v)
    /\ UNCHANGED <<watch, act, cache, frames, pc, S, int_depth, open, strict>>

NativeInsn ==
    /\ pc = "insn" /\ pc' = "run"
    /\ S' \in 0 .. MaxS
    /\ NoStore /\ UNCHANGED <<watch, act, cache, frames, int_depth, open, strict>>

(* ct_call_interp: a call of code that isn't compiled.                     *)
NativeCall ==
    /\ pc = "insn" /\ pc' = "run" /\ Room
    /\ S > 0 /\ S' = S - 1
    /\ frames' = Push(Loop("until", Len(act), S))
    /\ NoStore /\ UNCHANGED <<watch, act, cache, int_depth, open, strict>>

(* A call of a compiled ROM function (ct_run).                             *)
NativeCallRom ==
    /\ pc = "insn" /\ pc' = "run" /\ Room
    /\ S > 0 /\ S' = S - 1
    /\ frames' = Push(Loop("rom", Len(act), S - 1))
    /\ NoStore /\ UNCHANGED <<watch, act, cache, int_depth, open, strict>>

NativeReturn ==
    /\ pc = "insn" /\ pc' = "run"
    /\ S < MaxS /\ S' = S + 1
    /\ frames' = Below /\ Left
    /\ NoStore /\ UNCHANGED <<cache, int_depth, open, strict>>

NativeRti ==
    /\ pc = "rti" /\ pc' = "run"
    /\ open > 0 /\ open' = open - 1
    /\ S < MaxS /\ S' = S + 1
    /\ frames' = Below /\ Left
    /\ NoStore /\ UNCHANGED <<cache, int_depth, strict>>

(* ct_tail: the function returns and whoever called it runs the target.    *)
NativeTail ==
    /\ pc = "insn" /\ pc' = "run"
    /\ Left
    /\ frames' = Append(Below, Loop("rom", Len(act'), S))
    /\ NoStore /\ UNCHANGED <<cache, S, int_depth, open, strict>>

(* ct_tail_rest: the rest of a ROM function is interpreted, in the loop    *)
(* that dispatched it or, called from native code, in one of its own.      *)
NativeTailRest ==
    /\ pc = "insn" /\ pc' = "run" /\ Top.kind = "rom"
    /\ frames' = IF frames[Len(frames) - 1].kind \in Loops
                 THEN Below ELSE Append(Below, Loop("until", Len(act), Top.s + 1))
    /\ NoStore /\ UNCHANGED <<watch, act, cache, S, int_depth, open, strict>>

(* ct_overlay_tail_rest: the same for an overlay function, which runs none *)
(* of its code any more; then it returns.                                  *)
OverlayTailRest ==
    /\ pc = "insn" /\ pc' = "ret" /\ Top.kind = "ovl"
    /\ act' = [act EXCEPT ![Len(act)].dormant = TRUE]
    /\ watch' = Rewatch
    /\ NoStore /\ UNCHANGED <<cache, frames, S, int_depth, open, strict>>

OverlayReturn ==
    /\ pc = "ret" /\ pc' = "run"
    /\ frames' = Below /\ Left
    /\ NoStore /\ UNCHANGED <<cache, S, int_depth, open, strict>>

----------------------------------------------------------------------------
(* soft_reset, from the frame edge inside charge(): the frames are gone.   *)
SoftResetKeepsActive ==   \* mutant: overlay_reset_active is not called
    /\ pc = "run"
    /\ frames' = <<Main>>
    /\ hit' = FALSE
    /\ int_depth' = 0 /\ open' = 0
    /\ S' \in 0 .. MaxS
    /\ UNCHANGED <<wram, gen, writes, watch, act, cache, pc, strict>>
SoftReset ==
    /\ pc = "run"
    /\ frames' = <<Main>>
    /\ act' = <<>> /\ watch' = NoWatch /\ hit' = FALSE
    /\ int_depth' = 0 /\ open' = 0
    /\ S' \in 0 .. MaxS
    /\ UNCHANGED <<wram, gen, writes, cache, pc, strict>>

(* overlay_state: the profile's report checks every entry at an address.   *)
OverlayState(at) ==
    /\ pc = "run"
    /\ cache' = AfterChecks(At(at))
    /\ NoStore /\ UNCHANGED <<watch, act, frames, pc, S, int_depth, open, strict>>

Init ==
    /\ wram \in [Offsets -> Bytes]
    /\ gen = [p \in Pages |-> 0]
    /\ writes = 0 /\ hit = FALSE
    /\ watch = NoWatch /\ act = <<>>
    /\ cache = [k \in Ovl |-> [checked |-> FALSE, gens |-> 0, valid |-> FALSE]]
    /\ frames = <<Main>> /\ pc = "run"
    /\ S = MaxS /\ int_depth = 0 /\ open = 0
    /\ strict \in BOOLEAN

Addresses == {Addr[k] : k \in Ovl} \union {"elsewhere"}

Next ==
    \/ \E at \in Addresses : Interpret(at) \/ DispatchOverlay(at) \/ OverlayState(at)
    \/ InterpretInterrupt \/ DispatchRom
    \/ UntilDone \/ IntDone \/ BailDone
    \/ TickInterrupt \/ Tick("insn") \/ Tick("rti")
    \/ NativeWrite \/ NativeInsn \/ NativeCall \/ NativeCallRom
    \/ NativeReturn \/ NativeRti \/ NativeTail \/ NativeTailRest
    \/ OverlayTailRest \/ OverlayReturn
    \/ SoftReset

Spec == Init /\ [][Next]_vars

----------------------------------------------------------------------------
(* Properties.                                                             *)

(* A cached check speaks of the bytes that are there: while the sum of the *)
(* page counters is the one it was made at, no write changed what it found *)
(* (overlay.h: "an unchanged sum means no write landed there since the     *)
(* last check").                                                           *)
CacheSound ==
    \A k \in Ovl : cache[k].checked /\ cache[k].gens = PageGens(k)
                     => cache[k].valid = Matches(k)

(* When tick lets an instruction of an overlay function begin, the bytes   *)
(* the function was compiled from are in WRAM, whatever the program, its   *)
(* interrupt handlers and DMA wrote since the function was dispatched and  *)
(* whichever functions were entered, left and bailed out of meanwhile.     *)
NativeBytesCurrent ==
    [][ pc = "run" /\ pc' \in {"insn", "rti"} /\ Top.kind = "ovl"
        => Matches(act[Len(act)].f) ]_vars

(* The jump buffer of every active function names a frame that is still on *)
(* the C stack: the dispatcher loop its native frame sits on (overlay.h:   *)
(* "the matching __builtin_longjmp always comes from a deeper function").  *)
JumpTargetLive ==
    \A k \in DOMAIN act :
        /\ act[k].jb < Len(frames)
        /\ frames[act[k].jb].kind \in Loops
        /\ frames[act[k].jb + 1].kind = "ovl" /\ frames[act[k].jb + 1].n = k

(* An interrupt taken in native code runs until its own RTI (tick: "until  *)
(* its own RTI"): its loop ends only when the guest has returned from it.  *)
InterruptOwnRti ==
    pc = "run" /\ Top.kind = "int" /\ LoopDone => open <= Top.open

=============================================================================
