-------------------------------- MODULE Edge --------------------------------
(***************************************************************************)
(* A frame edge inside an instruction, and the H/V counters read inside    *)
(* one (runtime/sched.c, bus.c).  The accesses of an instruction run first *)
(* and its clocks are committed after, so that at the edge WRAM holds      *)
(* writes that come later: edge_hook takes them back for the frame hook    *)
(* and puts them forward again.  A counter read happens before the clocks  *)
(* it depends on are committed: access_clock walks up to it.               *)
(*                                                                         *)
(* Clocks count from the start of the current line.  SchedClock has every  *)
(* event of a walk; here it passes refreshes, line ends and a general      *)
(* DMA's pause of fixed length.                                            *)
(***************************************************************************)
EXTENDS Integers, Sequences, FiniteSets

CONSTANTS
    LineClocks, ShortBy, Lines, ShortLine, VBlankLine, HBlankClock,   \* the console's
    RefreshAt, RefreshClocks,
    ReadHold,    \* 4: clocks from a read's sample to its cycle's end
    DmaLead, DmaTime, DmaWait,   \* sync, transfer and wait back of a DMA's pause
    Offsets,     \* bytes of WRAM; DMA moves to one of them
    DmaOffset, Values,
    Insns,       \* instructions: sequences of cycles [clk, kind, to]
    MaxLines     \* bound: lines one instruction may pass

VARIABLES
    line, h, odd,        \* line, hclock, the frame's parity (frames - field_base)
    pend,                \* a DMA asked for: 2 pend.delay, 1 pend.dma, 0 none
    insn, done,          \* the instruction, and the cycles whose access was made
    wram, journal,       \* ct_bus_wram_*, by cycle; NoStore where none
    hv,                  \* what a counter read of the instruction reported
    hook,                \* what the frame hook saw at its end: WRAM, sched_frame_in_dma()
    before,              \* history: WRAM as the instruction began
    moved,               \* history: the byte under the DMA asked for, before it
    asOf                 \* history: WRAM as of that edge, and whether a DMA's
                         \* bytes were there before its time began

vars == <<line, h, odd, pend, insn, done, wram, journal, hv, hook, before, moved, asOf>>

None == [none |-> TRUE]
NoStore == [off |-> "none", old |-> 0, new |-> 0]

ASSUME ClockAssumption ==
    /\ {LineClocks, ShortBy, Lines, RefreshAt, RefreshClocks, ReadHold,
        DmaLead, DmaTime, DmaWait, MaxLines} \subseteq Nat
    /\ RefreshAt < LineClocks - ShortBy
    /\ 1 < Lines /\ Lines <= MaxLines

(* Where a cycle's access goes: a byte of WRAM, a register, or elsewhere.  *)
Registers == {"none", "mdmaen", "slhv", "hvbjoy"}
Cycles == [clk : Nat, kind : {"read", "write", "idle"}, to : Offsets \union Registers]

(* A byte is only stored to by a write, and once; the bytes beside $420B   *)
(* are registers.                                                          *)
ASSUME AccessAssumption ==
    /\ Offsets \intersect Registers = {} /\ DmaOffset \in Offsets
    /\ Insns \subseteq Seq(Cycles) \ {<<>>}
    /\ \A i \in Insns : \A j, k \in DOMAIN i :
         /\ i[j].kind = "read" => i[j].clk >= ReadHold
         /\ i[j].to \in Offsets => i[j].kind = "write" /\ i[k].to # "mdmaen"
         /\ i[j].to = i[k].to /\ i[j].to \in Offsets => j = k

----------------------------------------------------------------------------
(* Clocks.                                                                 *)

(* line_clocks.                                                            *)
LengthOf(l, o) == IF l = ShortLine /\ o THEN LineClocks - ShortBy ELSE LineClocks

(* The j-th line from the current one, its frame's parity and its start.   *)
LineOf(j) == (line + j) % Lines
OddOf(j) == IF ((line + j) \div Lines) % 2 = 1 THEN ~odd ELSE odd
Start == LET f[j \in 0 .. MaxLines] == IF j = 0 THEN 0 ELSE f[j - 1] + LengthOf(LineOf(j - 1), OddOf(j - 1))
         IN  f

EdgeClock == Start[Lines - line]

(* walk_pass: c clocks of CPU or DMA time from t on, each refresh in them  *)
(* pausing it.                                                             *)
Refreshes(t, end) == Cardinality({j \in 0 .. MaxLines : t < Start[j] + RefreshAt /\ Start[j] + RefreshAt <= end})
Pass(t, c) ==
    LET with(n) == t + c + RefreshClocks * n
        n == CHOOSE k \in 0 .. MaxLines + 1 :
               /\ Refreshes(t, with(k)) = k
               /\ \A i \in 0 .. k - 1 : Refreshes(t, with(i)) # i
    IN  with(n)

(* A cycle c of walk_insn from p on: its end, its sample, what of a DMA is *)
(* pending, and the DMA's span if it ran (walk_pending).                   *)
WalkCycle(p, c) ==
    LET runs == p.pend = 1
        lo == Pass(p.t, DmaLead)
        hi == Pass(lo, DmaTime)
        t == IF runs THEN Pass(hi, DmaWait) ELSE p.t
    IN  [t    |-> Pass(t, c.clk),
         smp  |-> Pass(t, IF c.kind = "read" THEN c.clk - ReadHold ELSE c.clk),
         pend |-> IF c.to = "mdmaen" THEN 2 ELSE IF p.pend = 0 THEN 0 ELSE p.pend - 1,
         lo   |-> IF runs THEN lo ELSE p.lo,
         hi   |-> IF runs THEN hi ELSE p.hi]

(* walk_insn: where it is after each cycle.                                *)
Walk ==
    LET w[k \in 0 .. Len(insn)] ==
          IF k = 0 THEN [t |-> h, smp |-> h, pend |-> pend, lo |-> 0, hi |-> 0]
                   ELSE WalkCycle(w[k - 1], insn[k])
    IN  w

----------------------------------------------------------------------------
(* An instruction's accesses.                                              *)

Begin ==
    /\ insn = <<>>
    /\ insn' \in Insns
    /\ done' = 0 /\ journal' = [k \in DOMAIN insn' |-> NoStore] /\ before' = wram
    /\ hook' = None /\ asOf' = None
    /\ UNCHANGED <<line, h, odd, pend, wram, hv, moved>>

(* access_clock: the sample point of the access being made.                *)
AccessClock == Walk[done + 1].smp

(* access_hv: at most one line ahead of the committed one.                 *)
HvInLine(at) == IF at < LengthOf(line, odd) THEN [v |-> line, h |-> at]   \* mutant: no line 0
                ELSE [v |-> line + 1, h |-> at - LengthOf(line, odd)]
Hv(at) == IF at < LengthOf(line, odd) THEN [v |-> line, h |-> at]
          ELSE [v |-> LineOf(1), h |-> at - LengthOf(line, odd)]

(* hvbjoy_read's bits 7 and 6.                                             *)
Blanks(p) == [vb |-> p.v >= VBlankLine, hb |-> p.h < 4 \/ p.h > HBlankClock]

(* wram_store, as the instruction's access k.                              *)
WramStore(off, k) ==
    \E v \in Values :
       /\ wram' = [wram EXCEPT ![off] = v]
       /\ journal' = [journal EXCEPT ![k] = [off |-> off, old |-> wram[off], new |-> v]]

(* mdmaen_write: the bytes move at once, whatever the pause.               *)
MdmaenWrite ==
    /\ \E v \in Values : wram' = [wram EXCEPT ![DmaOffset] = v]
    /\ moved' = wram[DmaOffset]
    /\ UNCHANGED journal

Access ==
    /\ done < Len(insn) /\ done' = done + 1
    /\ LET to == insn[done + 1].to IN
       /\ \/ to \in Offsets /\ WramStore(to, done + 1) /\ UNCHANGED moved
          \/ to = "mdmaen" /\ MdmaenWrite
          \/ to \notin Offsets \union {"mdmaen"} /\ UNCHANGED <<wram, journal, moved>>
       /\ hv' = CASE to = "slhv" -> Hv(AccessClock)             \* latch_counters
                  [] to = "hvbjoy" -> Blanks(Hv(AccessClock))
                  [] OTHER -> hv
    /\ UNCHANGED <<line, h, odd, pend, insn, hook, before, asOf>>

----------------------------------------------------------------------------
(* charge, walk_commit and advance.                                        *)

(* The journal from access `from` on, taken back and put forward.  No      *)
(* instruction stores to a byte twice.                                     *)
Stored(from, off) == {k \in from .. Len(insn) : journal[k].off = off}

Journal(from, mem, side) ==
    [off \in Offsets |-> LET s == Stored(from, off) IN
        IF s = {} THEN mem[off] ELSE journal[CHOOSE k \in s : TRUE][side]]

Undone(from) == Journal(from, wram, "old")

NotRedone(from, mem) == mem        \* mutant: what the hook saw stays
Redone(from, mem) == Journal(from, mem, "new")

(* undo_from: the first write that ends at the edge or after, or none.     *)
UndoFromNext ==                    \* mutant: a write that ends at the edge stays
    LET after == {k \in DOMAIN insn : insn[k].kind = "write" /\ Walk[k].t > EdgeClock}
    IN  CHOOSE k \in after \union {Len(insn) + 1} : \A i \in after : k <= i
UndoFrom ==
    LET after == {k \in DOMAIN insn : insn[k].kind = "write" /\ Walk[k].t >= EdgeClock}
    IN  CHOOSE k \in after \union {Len(insn) + 1} : \A i \in after : k <= i

(* WRAM with what is stored, and moved by a DMA, before the edge only.     *)
DmaOver(end) == end.pend = 0 /\ end.hi <= EdgeClock
BeforeEdge ==
    [off \in Offsets |->
       LET s == {k \in DOMAIN insn : journal[k].off = off} IN
       IF s = {} THEN IF off = DmaOffset /\ ~DmaOver(Walk[Len(insn)]) THEN moved ELSE wram[off]
       ELSE IF \E k \in s : Walk[k].t < EdgeClock THEN wram[off] ELSE before[off]]

(* Where a clock is.                                                       *)
LineAt(t) == CHOOSE j \in 0 .. MaxLines - 1 : Start[j] <= t /\ t < Start[j + 1]

Commit ==
    /\ insn # <<>> /\ done = Len(insn)
    /\ LET end == Walk[Len(insn)]
           j == LineAt(end.t) IN
       /\ end.t < Start[MaxLines]
       /\ line' = LineOf(j) /\ odd' = OddOf(j) /\ h' = end.t - Start[j]
       /\ pend' = end.pend
       /\ IF end.t >= EdgeClock
          THEN LET seen == Undone(UndoFrom) IN     \* edge_hook
               /\ hook' = [wram |-> seen, in_dma |-> end.lo < EdgeClock /\ EdgeClock < end.hi]
               /\ wram' = Redone(UndoFrom, seen)
               /\ asOf' = [wram |-> BeforeEdge,
                           early |-> end.pend # 0 \/ end.lo >= EdgeClock]
          ELSE UNCHANGED <<hook, wram, asOf>>
    /\ insn' = <<>> /\ done' = 0 /\ journal' = <<>>
    /\ hv' = None /\ before' = wram'
    /\ moved' = IF pend' = 0 THEN 0 ELSE moved

Init ==
    /\ line = 0 /\ h = 0 /\ odd = FALSE /\ pend = 0
    /\ insn = <<>> /\ done = 0 /\ journal = <<>>
    /\ wram = [off \in Offsets |-> 0] /\ before = wram /\ moved = 0
    /\ hv = None /\ hook = None /\ asOf = None

Next == Begin \/ Access \/ Commit

Spec == Init /\ [][Next]_vars

----------------------------------------------------------------------------
(* Properties.                                                             *)

(* "The frame hook sees memory as of the frame edge": the stores that end  *)
(* before it and no others, unless the edge fell inside a general DMA, and *)
(* the hook is told, or between its $420B write and its start.             *)
EdgeView == hook = None \/ hook.in_dma \/ asOf.early \/ hook.wram = asOf.wram

(* After the hook the program goes on with every byte it had stored.       *)
StoresKept == [][wram' # wram => done' = done + 1]_vars

(* The line and clock a counter read reports are those of its own sample   *)
(* point, refreshes and a DMA's pause before it included, across a line's  *)
(* and a frame's end, as long as it is not more than one line ahead of the *)
(* committed clock.                                                        *)
CountersExact ==
    [][done' = done + 1 /\ insn[done'].to \in {"slhv", "hvbjoy"} /\ AccessClock < Start[2] =>
         LET j == LineAt(AccessClock)
             p == [v |-> LineOf(j), h |-> AccessClock - Start[j]]
         IN  hv' = IF insn[done'].to = "slhv" THEN p ELSE Blanks(p)]_vars
=============================================================================
