----------------------------- MODULE SchedClock -----------------------------
(***************************************************************************)
(* The frame scheduler of runtime/sched.c: the master clock, the events of *)
(* a scanline, the cycle walk that times an instruction against them, its  *)
(* commit by advance(), the pending transfers (DMA, HDMA, HDMA init), the  *)
(* NMI and H/V IRQ lines, WAI and the reset button.                        *)
(*                                                                         *)
(* The program is one thread.  What makes it hard is that every line event *)
(* is handled twice by different code: walk_pass() meets it cycle by cycle *)
(* on a private copy of the timeline (struct walk), and advance() meets it *)
(* again, in another order, when the walked clocks are committed.  Every   *)
(* loop iteration of either is a step of this specification.               *)
(*                                                                         *)
(* The master clock enters the code only through differences and through   *)
(* "& 7", so line_start is kept modulo Sync and the clocks of a walk are   *)
(* counted from the start of the line the walk began in.  Likewise frames  *)
(* enters only through its parity since the last reset (the field).        *)
(***************************************************************************)
EXTENDS Integers, Sequences, FiniteSets

CONSTANTS
    LineClocks, ShortBy,      \* SCHED_CLOCKS_PER_LINE; the short line is this much shorter
    Lines, VBlankLine,        \* SCHED_LINES, SCHED_VBLANK_LINE
    ShortLine,                \* 240: short in every odd field
    HdmaClock,                \* SCHED_HDMA_CLOCK
    RefreshAt, RefreshClocks, \* 530 + 8, REFRESH_CLOCKS
    InitAt, NmiAt, RdnmiAt,   \* 12, 6 and 2: HDMA init, NMI, RDNMI flag
    Sync,                     \* 8: transfers start at a multiple of it, a DMA byte takes it
    IdleClocks,               \* an internal CPU cycle (6)
    ReadHold,                 \* a read samples this many clocks before its cycle's end
    StartDelay,               \* reset_delay()
    Insns,                    \* instructions: sequences of cycle lengths, access in the last
    IntEntry,                 \* the cycles of an interrupt entry
    Programs,                 \* the programs: sets of operations each may use
    NmitimenValues,           \* what it writes to $4200
    HTimes, VTimes, HMax,     \* what it writes to $4207-$420A; an H target above HMax never matches
    DmaUnits,                 \* Sync-clock units of a general DMA, see MdmaenWrite
    HdmaCosts, InitCost,      \* what snes_hdma_cost and snes_hdma_init_cost return
    MaxNest                   \* bound: interrupts entered and not yet returned from

(* The order of a line's events, as the code's literals have it.           *)
ASSUME LineAssumption ==
    /\ {LineClocks, ShortBy, Lines, VBlankLine, ShortLine, HdmaClock, RefreshAt,
        RefreshClocks, InitAt, NmiAt, RdnmiAt, Sync, IdleClocks, ReadHold,
        StartDelay, HMax, InitCost, MaxNest} \subseteq Nat
    /\ 0 < Sync /\ 0 < IdleClocks
    /\ RdnmiAt < NmiAt /\ NmiAt < InitAt /\ InitAt + Sync < RefreshAt - Sync
    /\ RefreshAt < HdmaClock /\ HdmaClock < LineClocks - ShortBy
    /\ 0 < VBlankLine /\ VBlankLine < ShortLine /\ ShortLine < Lines
    /\ StartDelay < RefreshAt - Sync
    /\ RefreshClocks % Sync = 0

Operations == {"nop", "sei", "cli", "nmitimen", "htime", "vtime", "rdnmi", "timeup",
               "mdmaen", "hdmaen", "wai", "rti", "reset"}

ASSUME InputAssumption ==
    /\ Insns # {} /\ Insns \subseteq Seq(Nat \ {0}) /\ <<>> \notin Insns
    /\ IntEntry \in Seq(Nat \ {0}) /\ IntEntry # <<>>
    /\ Programs \subseteq SUBSET Operations
    /\ NmitimenValues \subseteq [nmi : BOOLEAN, mode : 0 .. 3]
    /\ (DmaUnits \cup HdmaCosts) \subseteq Nat \ {0} /\ HdmaCosts # {}
    /\ VTimes \subseteq Nat
    /\ \A h \in HTimes : h \in Nat /\ (h > HMax \/ 18 + 4 * h < LineClocks)

VARIABLES
    line, hclock, line_start, field,       \* the committed clock
    done,            \* which events of the line have passed: *_done, irq_at
    refresh_paid,    \* refreshes a walk charged that advance has not met yet
    pend,            \* struct pend
    nmitimen, htime, vtime,                \* $4200 (NMI enable, timer mode), H/V targets
    hdmaen, hdma_cost,                     \* HDMA channels enabled; their next line's clocks
    rdnmi, rdnmi_set, rdnmi_cleared, timeup,
    cpu,             \* I flag, waiting in WAI, I flags on the stack
    insn_i, take_irq, wai_over, skip_check,
    pc,              \* where in the code the scheduler is
    mode,            \* what the walk or advance is for
    op,              \* the operation of the instruction being run
    walked,          \* advance is committing a walk
    insn, k,         \* the cycles being charged, the current one
    todo,            \* what is left of the current cycle, see the walk below
    count, lock,     \* walk_pending's clock count; whether a transfer ran
    sampled,         \* the clock of the last access, *sampled
    w,               \* struct walk
    saved,           \* access_clock's copy of pend
    uses             \* the operations of the program that runs

clockVars == <<line, hclock, line_start, field>>
regVars   == <<nmitimen, htime, vtime, hdmaen, hdma_cost>>
flagVars  == <<rdnmi, rdnmi_set, rdnmi_cleared, timeup>>
execVars  == <<cpu, insn_i, take_irq, wai_over, skip_check>>
walkVars  == <<insn, k, todo, count, lock, sampled, w, saved>>
vars == <<clockVars, done, refresh_paid, pend, regVars, flagVars, execVars,
          pc, mode, op, walked, walkVars, uses>>

-----------------------------------------------------------------------------
(* The timeline.                                                           *)

LengthOf(l, f) == IF l = ShortLine /\ f = 1 THEN LineClocks - ShortBy ELSE LineClocks

NextLine(l) == IF l + 1 = Lines THEN 0 ELSE l + 1

(* irq_clock_for: the clock in line l where the H/V timer raises the IRQ   *)
(* line, or -1.                                                            *)
IrqClockFor(l) ==
    CASE nmitimen.mode = 0 -> -1
      [] nmitimen.mode = 2 -> IF l # vtime THEN -1 ELSE IF vtime = 0 THEN 10 ELSE 14
      [] OTHER -> IF (nmitimen.mode = 3 /\ l # vtime) \/ htime > HMax
                  THEN -1 ELSE 18 + 4 * htime

RefreshClock(ls) == RefreshAt - (ls % Sync)
InitClock(ls) == InitAt + (ls % Sync)

(* begin_line's event flags at the start of line l.                        *)
BeginLine(l) ==
    [refresh |-> FALSE, hdma |-> FALSE, init |-> l # 0, nmi |-> l # VBlankLine,
     irq |-> IrqClockFor(l) < 0, irq_at |-> IrqClockFor(l)]

(* walk_reset.  A bus access is named by its cycle; 0 stands for none (-1).*)
NoPend == [delay |-> FALSE, hdma |-> FALSE, init |-> FALSE, dma |-> FALSE,
           hdma_cost |-> 0, dma_after |-> 0, dma_units |-> 0,
           nmi_count |-> 0, need_nmi |-> FALSE, irq_line |-> FALSE,
           prev_irq |-> FALSE, nmi_after |-> 0]

TransferPending == pend.delay \/ pend.hdma \/ pend.init \/ pend.dma

NoWalk == [t |-> 0, ls |-> 0, line |-> 0, field |-> 0, refreshes |-> 0,
           done |-> [refresh |-> FALSE, hdma |-> FALSE, init |-> FALSE,
                     nmi |-> FALSE, irq |-> FALSE, irq_at |-> -1]]

(* walk_init: a walk starts from the committed timeline.                   *)
WalkInit == [t |-> hclock, ls |-> 0, line |-> line, field |-> field,
             refreshes |-> 0, done |-> done]

-----------------------------------------------------------------------------
(* What is left of a CPU cycle in the walk, as a list of steps: a pass is  *)
(* one walk_pass call of n clocks whose read samples smp clocks in.        *)

Step(o) == [op |-> o, n |-> 0, smp |-> 0]
Pass(n) == [op |-> "pass", n |-> n, smp |-> 0]
Reading == op = "rdnmi"

CycleSteps(clk) ==
    <<Step("pending"), Step("sample"),
      [op |-> "cycle", n |-> clk, smp |-> IF Reading THEN clk - ReadHold ELSE clk],
      Step("after")>>

Walking == pc \in {"access", "walk"}
At(o) == Walking /\ Head(todo).op = o
Then(steps) == todo' = steps \o Tail(todo)

(* The line's next event at or after the walk's clock.  Ties go to the     *)
(* event walk_next looks at first.                                         *)
Event(cond, at, rank, kind) == IF cond THEN {<<at, rank, kind>>} ELSE {}

Events ==
    LET d == w.done
        ls == line_start + w.ls
    IN  UNION {Event(TRUE, LengthOf(w.line, w.field), 0, "eol"),
               Event(w.line = VBlankLine /\ ~d.nmi, NmiAt, 1, "nmi"),
               Event(~d.irq /\ d.irq_at >= 0, d.irq_at, 2, "irq"),
               Event(w.line = 0 /\ ~d.init, InitClock(ls), 3, "init"),
               Event(~d.refresh, RefreshClock(ls), 4, "refresh"),
               Event(w.line < VBlankLine /\ ~d.hdma, HdmaClock, 5, "hdma")}

NextEvent == CHOOSE e \in Events :
                \A f \in Events : e[1] < f[1] \/ (e[1] = f[1] /\ e[2] <= f[2])

Passing == Walking /\ Head(todo).op \in {"pass", "cycle"}
Meets(kind) == /\ Passing
               /\ NextEvent[3] = kind
               /\ w.ls + NextEvent[1] <= w.t + Head(todo).n

WalkUnchanged == UNCHANGED <<clockVars, done, refresh_paid, regVars, flagVars, cpu, insn_i,
                             take_irq, skip_check, pc, mode, op, walked, insn, k, saved>>
EventUnchanged == WalkUnchanged /\ UNCHANGED <<wai_over, count, lock, sampled>>

WalkRefresh ==
    /\ Meets("refresh")
    /\ LET e == w.ls + NextEvent[1] IN
       todo' = [todo EXCEPT ![1].n = @ + RefreshClocks,
                            ![1].smp = IF e <= w.t + @ THEN @ + RefreshClocks ELSE @]
    /\ w' = [w EXCEPT !.done.refresh = TRUE, !.refreshes = @ + 1]
    /\ EventUnchanged /\ UNCHANGED pend

WalkHdma ==
    /\ Meets("hdma")
    /\ w' = [w EXCEPT !.done.hdma = TRUE]
    /\ pend' = IF hdmaen THEN [pend EXCEPT !.hdma = TRUE, !.hdma_cost = hdma_cost, !.delay = TRUE]
                         ELSE pend
    /\ EventUnchanged /\ UNCHANGED todo

WalkHdmaInit ==
    /\ Meets("init")
    /\ w' = [w EXCEPT !.done.init = TRUE]
    /\ pend' = [pend EXCEPT !.delay = TRUE, !.init = @ \/ hdmaen]
    /\ EventUnchanged /\ UNCHANGED todo

WalkNmi ==
    /\ Meets("nmi")
    /\ w' = [w EXCEPT !.done.nmi = TRUE]
    /\ pend' = [pend EXCEPT !.nmi_count = IF nmitimen.nmi THEN 1 ELSE @]
    /\ EventUnchanged /\ UNCHANGED todo

LineUp(p) == [p EXCEPT !.irq_line = TRUE]

WalkIrq ==
    /\ Meets("irq")
    /\ w' = [w EXCEPT !.done.irq = TRUE]
    /\ pend' = LineUp(pend)
    /\ EventUnchanged /\ UNCHANGED todo

(* The event flags a walk starts a line with.                              *)
LineAhead(l) == [NoWalk.done EXCEPT !.irq_at = IrqClockFor(l)]

WalkEndLine ==
    /\ Meets("eol")
    /\ LET l == NextLine(w.line) IN
       w' = [w EXCEPT !.ls = @ + LengthOf(w.line, w.field),
                      !.line = l,
                      !.field = IF l = 0 THEN 1 - @ ELSE @,
                      !.done = LineAhead(l)]
    /\ EventUnchanged /\ UNCHANGED <<todo, pend>>

(* No event left in the pass: its clocks are over.                         *)
WalkPassed ==
    /\ Passing
    /\ w.ls + NextEvent[1] > w.t + Head(todo).n
    /\ w' = [w EXCEPT !.t = @ + Head(todo).n]
    /\ sampled' = IF Head(todo).op = "cycle" /\ k = Len(insn) /\ Reading
                  THEN w.t + Head(todo).smp ELSE sampled
    /\ Then(<<>>)
    /\ WalkUnchanged /\ UNCHANGED <<wai_over, count, lock, pend>>

-----------------------------------------------------------------------------
(* walk_pending, at the start of a CPU cycle: a pending transfer waits out *)
(* its start delay, else syncs and runs.                                   *)

NoTransfer ==
    /\ At("pending")
    /\ ~TransferPending \/ pend.delay
    /\ pend' = [pend EXCEPT !.delay = FALSE]
    /\ lock' = FALSE
    /\ Then(<<>>)
    /\ WalkUnchanged /\ UNCHANGED <<wai_over, count, sampled, w>>

(* The walk's clock since power-on, modulo Sync.                           *)
WalkClockInLine == w.t % Sync                    \* mutant: since the line's start
WalkClock == (line_start + w.t) % Sync

SyncTransfer ==
    /\ At("pending")
    /\ TransferPending /\ ~pend.delay
    /\ LET sync == Sync - WalkClock IN
       /\ count' = sync
       /\ Then(<<Pass(sync), Step("transfer")>>)
    /\ lock' = TRUE
    /\ WalkUnchanged /\ UNCHANGED <<wai_over, sampled, w, pend>>

(* HDMA before init before the general DMA.  A DMA is its overhead unit,   *)
(* one per channel and one per byte, each of Sync clocks and each followed *)
(* by walk_dma_pending.                                                    *)
Transfer ==
    /\ At("transfer")
    /\ \/ /\ pend.hdma
          /\ pend' = [pend EXCEPT !.hdma = FALSE]
          /\ count' = count + pend.hdma_cost
          /\ Then(<<Pass(pend.hdma_cost), Step("wait")>>)
       \/ /\ ~pend.hdma /\ pend.init
          /\ pend' = [pend EXCEPT !.init = FALSE]
          /\ count' = count + InitCost
          /\ Then(<<Pass(InitCost), Step("wait")>>)
       \/ /\ ~pend.hdma /\ ~pend.init
          /\ pend' = [pend EXCEPT !.dma = FALSE]
          /\ count' = count + Sync * pend.dma_units
          /\ Then(<<[op |-> "dma", n |-> pend.dma_units, smp |-> 0], Step("wait")>>)
    /\ WalkUnchanged /\ UNCHANGED <<wai_over, lock, sampled, w>>

DmaUnit ==
    /\ At("dma")
    /\ LET n == Head(todo).n IN
       Then(<<Pass(Sync), Step("dma_pending")>>
            \o IF n > 1 THEN <<[op |-> "dma", n |-> n - 1, smp |-> 0]>> ELSE <<>>)
    /\ WalkUnchanged /\ UNCHANGED <<wai_over, count, lock, sampled, w, pend>>

NoHdmaInDma == FALSE                             \* mutant: a DMA holds off HDMA
HdmaInDma == ~pend.delay /\ pend.hdma

(* walk_dma_pending: HDMA or init between two bytes of a DMA, no sync.     *)
DmaPending ==
    /\ At("dma_pending")
    /\ \/ /\ HdmaInDma
          /\ pend' = [pend EXCEPT !.hdma = FALSE]
          /\ count' = count + pend.hdma_cost
          /\ Then(<<Pass(pend.hdma_cost)>>)
       \/ /\ ~HdmaInDma /\ ~pend.delay /\ pend.init
          /\ pend' = [pend EXCEPT !.init = FALSE]
          /\ count' = count + InitCost
          /\ Then(<<Pass(InitCost)>>)
       \/ /\ ~HdmaInDma /\ (pend.delay \/ ~pend.init)
          /\ pend' = [pend EXCEPT !.delay = FALSE]
          /\ count' = count
          /\ Then(<<>>)
    /\ WalkUnchanged /\ UNCHANGED <<wai_over, lock, sampled, w>>

(* The wait back to a whole number of the resuming cycle's clocks.         *)
TransferWait ==
    /\ At("wait")
    /\ Then(<<Pass(insn[k] - (count % insn[k]))>>)
    /\ count' = 0
    /\ WalkUnchanged /\ UNCHANGED <<wai_over, lock, sampled, w, pend>>

EndsWaiIrqOnly(nmi) == pend.irq_line             \* mutant: an NMI does not end a WAI
EndsWai(nmi) == nmi \/ pend.irq_line

(* The NMI counter one cycle start on.  A transfer locks the CPU out of    *)
(* seeing an NMI that is due: it waits a cycle.                            *)
CountDownLocked(n, locked) ==                    \* mutant: and it is lost
    IF n = 0 THEN 0 ELSE n - 1
CountDown(n, locked) ==
    IF n = 1 /\ locked THEN 1 ELSE IF n = 0 THEN 0 ELSE n - 1

(* walk_cycle_start: the NMI counter and the IRQ line are sampled, not     *)
(* right after a transfer.  An interrupt line seen here ends a WAI.        *)
CycleSample ==
    /\ At("sample")
    /\ LET i    == IF mode # "insn" THEN cpu.i ELSE insn_i
           seen == pend.nmi_count = 1 /\ ~lock
       IN  /\ pend' = [pend EXCEPT
                         !.nmi_count = CountDown(@, lock),
                         !.need_nmi = @ \/ seen,
                         !.prev_irq = ~lock /\ pend.irq_line /\ ~i]
           /\ wai_over' = (wai_over \/ (mode # "insn" /\ EndsWai(pend.need_nmi \/ seen)))
    /\ Then(<<>>)
    /\ lock' = FALSE
    /\ WalkUnchanged /\ UNCHANGED <<count, sampled, w>>

(* The end of a cycle: the $420B or $4200 write made in it takes effect.   *)
AfterAccess(p) ==
    LET dma == p.dma_after = k
        nmi == p.nmi_after = k
    IN  [p EXCEPT !.dma = @ \/ dma, !.delay = @ \/ dma,
                  !.dma_after = IF dma THEN 0 ELSE @,
                  !.nmi_count = IF nmi THEN 2 ELSE @,
                  !.nmi_after = IF nmi THEN 0 ELSE @]

AfterCycle ==
    /\ At("after")
    /\ k < Len(insn)
    /\ pend' = AfterAccess(pend)
    /\ k' = k + 1
    /\ todo' = CycleSteps(insn[k + 1])
    /\ UNCHANGED <<clockVars, done, refresh_paid, regVars, flagVars, execVars, pc, mode, op,
                   walked, insn, count, lock, sampled, w, saved>>

Uncommitted == hclock                            \* mutant: the walked clocks are lost
Committed == w.t

(* The last cycle of an instruction, interrupt entry or idle cycle: charge *)
(* settles the interrupt to take and walk_commit starts advance.           *)
WalkDone ==
    /\ pc = "walk" /\ At("after")
    /\ k = Len(insn)
    /\ pend' = [AfterAccess(pend) EXCEPT !.dma_after = 0, !.nmi_after = 0]
    /\ take_irq' = IF mode = "insn" THEN pend.prev_irq ELSE take_irq
    /\ refresh_paid' = refresh_paid + w.refreshes
    /\ hclock' = Committed
    /\ walked' = TRUE
    /\ todo' = <<>>
    /\ pc' = "advance"
    /\ UNCHANGED <<line, line_start, field, done, regVars, flagVars, cpu, insn_i, wai_over,
                   skip_check, mode, op, insn, k, count, lock, sampled, w, saved>>

WalkNext == \/ WalkRefresh \/ WalkHdma \/ WalkHdmaInit \/ WalkNmi \/ WalkIrq
            \/ WalkEndLine \/ WalkPassed
            \/ NoTransfer \/ SyncTransfer \/ Transfer \/ DmaUnit \/ DmaPending
            \/ TransferWait \/ CycleSample \/ AfterCycle \/ WalkDone

-----------------------------------------------------------------------------
(* advance: the events at or before the committed clock, in its own order. *)

LateIrq == ~done.irq /\ hclock >= done.irq_at

AdvanceCase ==
    IF      line = VBlankLine /\ ~rdnmi_set /\ hclock >= RdnmiAt THEN "rdnmi_set"
    ELSE IF line = 0 /\ ~rdnmi_cleared /\ hclock >= RdnmiAt THEN "rdnmi_clear"
    ELSE IF ~done.nmi /\ hclock >= NmiAt THEN "nmi"
    ELSE IF ~done.refresh /\ hclock >= RefreshClock(line_start) THEN "refresh"
    ELSE IF ~done.irq /\ done.irq_at < HdmaClock /\ hclock >= done.irq_at THEN "irq"
    ELSE IF ~done.hdma /\ hclock >= HdmaClock THEN "hdma"
    ELSE IF LateIrq THEN "irq"
    ELSE IF hclock >= LengthOf(line, field) THEN "eol"
    ELSE "none"

Advancing(c) == pc = "advance" /\ AdvanceCase = c

AdvanceUnchanged == UNCHANGED <<nmitimen, htime, vtime, execVars, pc, mode, op, walked, walkVars>>

RdnmiKept == rdnmi                               \* mutant: line 0 leaves the flag
RdnmiAtLine0 == FALSE

AdvanceRdnmi ==
    /\ \/ /\ Advancing("rdnmi_set")
          /\ rdnmi' = TRUE /\ rdnmi_set' = TRUE /\ UNCHANGED rdnmi_cleared
       \/ /\ Advancing("rdnmi_clear")
          /\ rdnmi' = RdnmiAtLine0 /\ rdnmi_cleared' = TRUE /\ UNCHANGED rdnmi_set
    /\ AdvanceUnchanged
    /\ UNCHANGED <<clockVars, done, refresh_paid, pend, hdmaen, hdma_cost, timeup>>

AdvanceNmi ==
    /\ Advancing("nmi")
    /\ done' = [done EXCEPT !.nmi = TRUE]
    /\ pend' = [pend EXCEPT !.nmi_count = IF ~walked /\ nmitimen.nmi THEN 1 ELSE @]
    /\ AdvanceUnchanged
    /\ UNCHANGED <<clockVars, refresh_paid, hdmaen, hdma_cost, flagVars>>

NeverPaid == FALSE                               \* mutant: charge every refresh again
RefreshPaid == refresh_paid > 0

AdvanceRefresh ==
    /\ Advancing("refresh")
    /\ done' = [done EXCEPT !.refresh = TRUE]
    /\ IF RefreshPaid
       THEN refresh_paid' = refresh_paid - 1 /\ UNCHANGED hclock
       ELSE hclock' = hclock + RefreshClocks /\ UNCHANGED refresh_paid
    /\ AdvanceUnchanged
    /\ UNCHANGED <<line, line_start, field, pend, hdmaen, hdma_cost, flagVars>>

AdvanceIrq ==
    /\ Advancing("irq")
    /\ done' = [done EXCEPT !.irq = TRUE]
    /\ timeup' = TRUE
    /\ pend' = [pend EXCEPT !.irq_line = TRUE]
    /\ AdvanceUnchanged
    /\ UNCHANGED <<clockVars, refresh_paid, hdmaen, hdma_cost, rdnmi, rdnmi_set, rdnmi_cleared>>

(* dma_doHdma moves the channels to their next line.                       *)
AdvanceHdma ==
    /\ Advancing("hdma")
    /\ done' = [done EXCEPT !.hdma = TRUE]
    /\ IF hdmaen /\ line < VBlankLine THEN hdma_cost' \in HdmaCosts ELSE UNCHANGED hdma_cost
    /\ AdvanceUnchanged
    /\ UNCHANGED <<clockVars, refresh_paid, pend, hdmaen, flagVars>>

(* The end of a line; after the last one the frame edge.  Line 0 starts    *)
(* HDMA for the frame (dma_initHdma).                                      *)
AdvanceEndLine ==
    /\ Advancing("eol")
    /\ LET l   == NextLine(line)
           len == LengthOf(line, field)
       IN  /\ hclock' = hclock - len
           /\ line_start' = (line_start + len) % Sync
           /\ line' = l
           /\ field' = IF l = 0 THEN 1 - field ELSE field
           /\ done' = BeginLine(l)
           /\ rdnmi_set' = (rdnmi_set /\ l # 0)
           /\ rdnmi_cleared' = (rdnmi_cleared /\ l # 0)
           /\ IF hdmaen /\ l = 0 THEN hdma_cost' \in HdmaCosts ELSE UNCHANGED hdma_cost
    /\ AdvanceUnchanged
    /\ UNCHANGED <<refresh_paid, pend, hdmaen, rdnmi, timeup>>

(* Back to the dispatcher: nothing of a walk outlives its commit.          *)
ClearWalk == /\ insn' = <<>> /\ k' = 0 /\ todo' = <<>> /\ count' = 0 /\ lock' = FALSE
             /\ sampled' = 0 /\ saved' = NoPend /\ w' = NoWalk

(* The loop is over: the rest of walk_commit, and of exec_one's WAI part.  *)
AdvanceDone ==
    /\ Advancing("none")
    /\ walked' = FALSE
    /\ done' = IF walked /\ line = w.line
               THEN [done EXCEPT !.init = @ \/ w.done.init, !.nmi = @ \/ w.done.nmi] ELSE done
    /\ IF mode = "wake" /\ walked
       THEN /\ wai_over' = FALSE
            /\ cpu' = [cpu EXCEPT !.waiting = FALSE]
            /\ take_irq' = pend.prev_irq
       ELSE UNCHANGED <<wai_over, cpu, take_irq>>
    /\ IF mode \in {"wai", "wake"} /\ ~walked
       THEN pc' = "idle" /\ UNCHANGED mode
       ELSE pc' = "boundary" /\ mode' = "insn"
    /\ op' = "nop"
    /\ ClearWalk
    /\ UNCHANGED <<clockVars, refresh_paid, pend, regVars, flagVars, insn_i, skip_check>>

PaidAfterReset == 0

(* soft_reset: start_line asks the reset hook as VBlank begins; the longjmp*)
(* abandons the walk and its commit.                                       *)
AdvanceReset ==
    /\ "reset" \in uses
    /\ Advancing("eol") /\ NextLine(line) = VBlankLine
    /\ line' = 0 /\ hclock' = 0 /\ line_start' = 0 /\ field' = 0
    /\ done' = [done EXCEPT !.nmi = TRUE]
    /\ refresh_paid' = PaidAfterReset /\ pend' = NoPend
    /\ nmitimen' = [nmi |-> FALSE, mode |-> 0] /\ hdmaen' = FALSE
    /\ rdnmi' = FALSE /\ rdnmi_set' = FALSE /\ rdnmi_cleared' = FALSE /\ timeup' = FALSE
    /\ cpu' = [i |-> TRUE, waiting |-> FALSE, stack |-> <<>>]
    /\ insn_i' = TRUE /\ take_irq' = FALSE /\ wai_over' = FALSE /\ skip_check' = FALSE
    /\ walked' = FALSE
    /\ pc' = "start" /\ mode' = "insn" /\ op' = "nop"
    /\ ClearWalk
    /\ UNCHANGED <<htime, vtime, hdma_cost>>

AdvanceNext == \/ AdvanceRdnmi \/ AdvanceNmi \/ AdvanceRefresh \/ AdvanceIrq
               \/ AdvanceHdma \/ AdvanceEndLine \/ AdvanceDone \/ AdvanceReset

-----------------------------------------------------------------------------
(* charge: an instruction is charged whole when nothing can happen inside. *)

(* The cycles' clocks added up.                                            *)
Clocks ==
    LET sum[i \in 0 .. Len(insn)] == IF i = 0 THEN 0 ELSE sum[i - 1] + insn[i]
    IN  sum[Len(insn)]

NoRefreshInside(end) == FALSE                    \* mutant: charge over a refresh
RefreshInside(end) == ~done.refresh /\ RefreshClock(line_start) <= end

Inside(end) ==
    \/ TransferPending
    \/ pend.dma_after # 0 \/ pend.nmi_count # 0 \/ pend.nmi_after # 0
    \/ ~done.nmi /\ NmiAt <= end
    \/ ~done.irq /\ done.irq_at >= 0 /\ done.irq_at <= end
    \/ end >= LengthOf(line, field)
    \/ RefreshInside(end)
    \/ ~done.hdma /\ line < VBlankLine /\ HdmaClock <= end /\ hdmaen
    \/ line = 0 /\ ~done.init /\ InitClock(line_start) <= end

ChargeWhole ==
    /\ pc = "charge"
    /\ ~Inside(hclock + Clocks)
    /\ pend' = [pend EXCEPT !.prev_irq = pend.irq_line /\ ~insn_i]
    /\ take_irq' = (pend.irq_line /\ ~insn_i)
    /\ hclock' = hclock + Clocks
    /\ pc' = "advance"
    /\ UNCHANGED <<line, line_start, field, done, refresh_paid, regVars, flagVars, cpu, insn_i,
                   wai_over, skip_check, mode, op, walked, walkVars>>

StartWalk(cycles) ==
    /\ insn' = cycles /\ k' = 1 /\ todo' = CycleSteps(cycles[1])
    /\ w' = WalkInit
    /\ count' = 0 /\ lock' = FALSE

ChargeWalk ==
    /\ pc = "charge"
    /\ Inside(hclock + Clocks)
    /\ StartWalk(insn)
    /\ pc' = "walk"
    /\ UNCHANGED <<clockVars, done, refresh_paid, pend, regVars, flagVars, execVars, mode, op,
                   walked, sampled, saved>>

-----------------------------------------------------------------------------
(* exec_one, at an instruction boundary.                                   *)

InterruptDue == pend.need_nmi \/ take_irq

BoundaryUnchanged == UNCHANGED <<clockVars, done, refresh_paid, mode, walked>>

(* The I flag in effect while an interrupt entry is charged.               *)
EntryIKept == cpu.i                              \* mutant: the interrupted code's
EntryI == TRUE

(* An NMI once seen, else an IRQ: pushes P and sets I.                     *)
Interrupt ==
    /\ pc = "boundary"
    /\ ~skip_check /\ ~cpu.waiting /\ InterruptDue
    /\ pend' = [pend EXCEPT !.need_nmi = FALSE]
    /\ take_irq' = FALSE
    /\ insn_i' = EntryI
    /\ cpu' = [cpu EXCEPT !.i = TRUE, !.stack = Append(@, cpu.i)]
    /\ skip_check' = TRUE
    /\ insn' = IntEntry
    /\ pc' = "charge"
    /\ BoundaryUnchanged
    /\ UNCHANGED <<regVars, flagVars, wai_over, op, k, todo, count, lock, sampled, w, saved>>

(* One instruction, with cycles c, doing o: what it does to the registers  *)
(* happens now, its clocks pass when it is charged.                        *)
Begin(o, c) ==
    /\ pc = "boundary" /\ o \in uses
    /\ ~cpu.waiting /\ (skip_check \/ ~InterruptDue)
    /\ Len(cpu.stack) < MaxNest \/ o = "rti"
    /\ skip_check' = FALSE
    /\ insn_i' = cpu.i
    /\ insn' = c
    /\ op' = o
    /\ BoundaryUnchanged
    /\ UNCHANGED <<take_irq, k, todo, count, lock, sampled, w, saved>>

Execute(o, c) == /\ Begin(o, c)
                 /\ pc' = "charge"

Nop(c) == /\ Execute("nop", c)
          /\ UNCHANGED <<pend, regVars, flagVars, cpu, wai_over>>

SetI(c) == /\ \/ Execute("sei", c) /\ cpu' = [cpu EXCEPT !.i = TRUE]
              \/ Execute("cli", c) /\ cpu' = [cpu EXCEPT !.i = FALSE]
           /\ UNCHANGED <<pend, regVars, flagVars, wai_over>>

Rti(c) == /\ cpu.stack # <<>>
          /\ Execute("rti", c)
          /\ LET n == Len(cpu.stack) IN
             cpu' = [cpu EXCEPT !.i = cpu.stack[n], !.stack = SubSeq(@, 1, n - 1)]
          /\ UNCHANGED <<pend, regVars, flagVars, wai_over>>

WaiInsn(c) == /\ Execute("wai", c)
              /\ cpu' = [cpu EXCEPT !.waiting = TRUE]
              /\ wai_over' = FALSE
              /\ UNCHANGED <<pend, regVars, flagVars>>

NmitimenWrite(c) ==
    /\ Execute("nmitimen", c)
    /\ \E v \in NmitimenValues :
         /\ nmitimen' = v
         /\ pend' = [pend EXCEPT
                       !.nmi_after = IF ~nmitimen.nmi /\ v.nmi /\ rdnmi THEN Len(c) ELSE @,
                       !.irq_line = @ /\ v.mode # 0]
         /\ timeup' = (timeup /\ v.mode # 0)
    /\ UNCHANGED <<htime, vtime, hdmaen, hdma_cost, rdnmi, rdnmi_set, rdnmi_cleared, cpu, wai_over>>

TimerWrite(c) ==
    /\ \/ Execute("htime", c) /\ htime' \in HTimes /\ UNCHANGED vtime
       \/ Execute("vtime", c) /\ vtime' \in VTimes /\ UNCHANGED htime
    /\ UNCHANGED <<pend, nmitimen, hdmaen, hdma_cost, flagVars, cpu, wai_over>>

IrqLineKept == pend.irq_line                     \* mutant: only the flag is cleared
IrqLineRead == FALSE

TimeupRead(c) ==
    /\ Execute("timeup", c)
    /\ timeup' = FALSE
    /\ pend' = [pend EXCEPT !.irq_line = IrqLineRead]
    /\ UNCHANGED <<regVars, rdnmi, rdnmi_set, rdnmi_cleared, cpu, wai_over>>

(* mdmaen_write and dma_start: the bytes move at once, the pause is timed  *)
(* later.  The sizes matter to it only through the units they add up to.   *)
MdmaenWrite(c) ==
    /\ Execute("mdmaen", c)
    /\ \E n \in DmaUnits : pend' = [pend EXCEPT !.dma_units = n, !.dma_after = Len(c)]
    /\ UNCHANGED <<regVars, flagVars, cpu, wai_over>>

HdmaenWrite(c) ==
    /\ Execute("hdmaen", c)
    /\ hdmaen' \in BOOLEAN
    /\ hdma_cost' \in IF hdmaen' THEN HdmaCosts ELSE {hdma_cost}
    /\ UNCHANGED <<pend, nmitimen, htime, vtime, flagVars, cpu, wai_over>>

(* rdnmi_read asks for the clock of its own access first: access_clock     *)
(* walks the instruction on a copy of pend.                                *)
RdnmiAccess(c) ==
    /\ pc = "boundary" /\ "rdnmi" \in uses
    /\ ~cpu.waiting /\ (skip_check \/ ~InterruptDue)
    /\ Len(cpu.stack) < MaxNest
    /\ skip_check' = FALSE /\ insn_i' = cpu.i /\ op' = "rdnmi"
    /\ insn' = c /\ k' = 1 /\ w' = WalkInit
    /\ todo' = <<Step("pending"), Step("sample"),
                 [op |-> "cycle", n |-> c[1], smp |-> c[1] - ReadHold], Step("after")>>
    /\ saved' = pend
    /\ pc' = "access"
    /\ BoundaryUnchanged
    /\ UNCHANGED <<pend, regVars, flagVars, cpu, take_irq, wai_over, count, lock, sampled>>

(* access_hv: the access's line and clock, one line on at most.            *)
AccessHv ==
    LET len == LengthOf(line, field) IN
    IF sampled < len THEN [ln |-> line, h |-> sampled]
                     ELSE [ln |-> NextLine(line), h |-> sampled - len]

NotRestored == pend                              \* mutant: access_clock leaves pend walked
Restored == saved

RdnmiRead ==
    /\ pc = "access" /\ At("after") /\ k = Len(insn)
    /\ LET a    == AccessHv
           sets == a.ln = VBlankLine /\ a.h >= RdnmiAt /\ ~rdnmi_set
           set  == (rdnmi \/ sets) /\ ~(a.ln = 0 /\ a.h >= RdnmiAt /\ line # 0)
       IN  /\ rdnmi_set' = (rdnmi_set \/ sets)
           /\ rdnmi' = (set /\ a.ln = VBlankLine /\ a.h < NmiAt)
    /\ pend' = Restored
    /\ saved' = NoPend /\ w' = NoWalk /\ k' = 0 /\ todo' = <<>> /\ count' = 0 /\ lock' = FALSE
    /\ pc' = "charge"
    /\ UNCHANGED <<clockVars, done, refresh_paid, regVars, rdnmi_cleared, timeup, execVars,
                   mode, op, walked, insn, sampled>>

-----------------------------------------------------------------------------
(* wai_cycle: idle cycles up to just before the next event when nothing is *)
(* pending, then one cycle walked.                                         *)

WaiQuiet == /\ ~TransferPending /\ pend.nmi_count = 0
            /\ ~pend.need_nmi /\ ~pend.irq_line

SetMin(S) == CHOOSE x \in S : \A y \in S : x <= y

WaiNext == SetMin(UNION {
    {LengthOf(line, field)},
    IF done.refresh THEN {} ELSE {RefreshClock(line_start)},
    IF ~done.hdma /\ line < VBlankLine THEN {HdmaClock} ELSE {},
    IF line = 0 /\ ~done.init THEN {InitClock(line_start)} ELSE {},
    IF done.nmi THEN {} ELSE {NmiAt},
    IF ~done.irq /\ done.irq_at >= 0 THEN {done.irq_at} ELSE {}})

WaiCycles ==
    /\ pc = "boundary" /\ cpu.waiting
    /\ skip_check' = FALSE
    /\ mode' = IF wai_over THEN "wake" ELSE "wai"
    /\ IF WaiQuiet /\ WaiNext > hclock + 2 * IdleClocks
       THEN /\ hclock' = hclock + IdleClocks * (((WaiNext - hclock) \div IdleClocks) - 1)
            /\ pc' = "advance"
       ELSE pc' = "idle" /\ UNCHANGED hclock
    /\ UNCHANGED <<line, line_start, field, done, refresh_paid, pend, regVars, flagVars, cpu,
                   insn_i, take_irq, wai_over, op, walked, walkVars>>

WaiWalk ==
    /\ pc = "idle"
    /\ StartWalk(<<IdleClocks>>)
    /\ pc' = "walk"
    /\ UNCHANGED <<clockVars, done, refresh_paid, pend, regVars, flagVars, execVars, mode, op,
                   walked, sampled, saved>>

(* cpu_main after power-on or a reset: line 0 begins and the reset         *)
(* sequence's clocks pass.                                                 *)
StartFrame ==
    /\ pc = "start"
    /\ done' = BeginLine(0)
    /\ rdnmi_set' = FALSE /\ rdnmi_cleared' = FALSE
    /\ hclock' = hclock + StartDelay
    /\ pc' = "advance"
    /\ UNCHANGED <<line, line_start, field, refresh_paid, pend, regVars, rdnmi, timeup, execVars,
                   mode, op, walked, walkVars>>

-----------------------------------------------------------------------------
Init ==
    /\ line = 0 /\ hclock = 0 /\ line_start = 0 /\ field = 0
    /\ done = [refresh |-> FALSE, hdma |-> FALSE, init |-> FALSE, nmi |-> TRUE,
               irq |-> FALSE, irq_at |-> -1]
    /\ refresh_paid = 0 /\ pend = NoPend
    /\ nmitimen = [nmi |-> FALSE, mode |-> 0]
    /\ htime = 511 /\ vtime = 511            \* 0x1FF
    /\ hdmaen = FALSE /\ hdma_cost \in HdmaCosts
    /\ rdnmi = FALSE /\ rdnmi_set = FALSE /\ rdnmi_cleared = FALSE /\ timeup = FALSE
    /\ cpu = [i |-> TRUE, waiting |-> FALSE, stack |-> <<>>]
    /\ insn_i = TRUE /\ take_irq = FALSE /\ wai_over = FALSE /\ skip_check = FALSE
    /\ pc = "start" /\ mode = "insn" /\ op = "nop" /\ walked = FALSE
    /\ insn = <<>> /\ k = 0 /\ todo = <<>> /\ count = 0 /\ lock = FALSE
    /\ sampled = 0 /\ w = NoWalk /\ saved = NoPend
    /\ uses \in Programs

ExecNext ==
    \/ StartFrame \/ Interrupt \/ WaiCycles \/ WaiWalk \/ RdnmiRead
    \/ ChargeWhole \/ ChargeWalk
    \/ \E c \in Insns : \/ Nop(c) \/ SetI(c) \/ Rti(c) \/ WaiInsn(c)
                        \/ NmitimenWrite(c) \/ TimerWrite(c) \/ TimeupRead(c)
                        \/ MdmaenWrite(c) \/ HdmaenWrite(c) \/ RdnmiAccess(c)

Next == (ExecNext \/ WalkNext \/ AdvanceNext) /\ UNCHANGED uses

(* The CPU thread never stops between instructions.                        *)
Spec == Init /\ [][Next]_vars /\ WF_vars(Next)

-----------------------------------------------------------------------------
(* Properties.                                                             *)

(* When advance has run out of events to commit, it stands exactly where   *)
(* the walk ended: the same line, field and clock, the same events of the  *)
(* line behind it, and every refresh the walk paid for met once.           *)
WalkCommitAgree ==
    Advancing("none") /\ walked =>
        /\ line = w.line /\ field = w.field /\ hclock = w.t - w.ls
        /\ refresh_paid = 0
        /\ done.refresh = w.done.refresh
        /\ line < VBlankLine => done.hdma = w.done.hdma
        /\ line = VBlankLine => done.nmi = w.done.nmi
        /\ done.irq_at = w.done.irq_at
        /\ done.irq_at >= 0 => done.irq = w.done.irq

(* TIMEUP ($4211) and the CPU's IRQ line are set by different code at      *)
(* different times (walk_pass, advance) but agree whenever the program can *)
(* look.                                                                   *)
TimeupIsIrqLine == pc = "boundary" => (timeup <=> pend.irq_line)

(* The VBlank NMI flag is never left over into the picture, whichever of   *)
(* advance and rdnmi_read set or cleared it first.                         *)
RdnmiInVBlank ==
    pc = "boundary" /\ rdnmi => line >= VBlankLine \/ (line = 0 /\ hclock < RdnmiAt)

(* An interrupt entry ends with no IRQ to take: the handler runs at least  *)
(* one instruction with I set before the level IRQ line can interrupt it.  *)
NoIrqAfterEntry == pc = "boundary" /\ skip_check => ~take_irq

(* A transfer starts at a multiple of Sync clocks since power-on, refresh  *)
(* pauses inside the sync included.                                        *)
TransferAligned == At("transfer") => (line_start + w.t) % Sync = 0

(* An instruction charged whole, a run of idle cycles or the reset         *)
(* sequence passes no event with an effect: only a walk ends a line, pays  *)
(* a refresh, arms an NMI or raises an IRQ.                                *)
ChargedWholeIsQuiet ==
    [][pc = "advance" /\ ~walked =>
           /\ UNCHANGED <<clockVars, refresh_paid, pend, timeup>>
           /\ done'.refresh = done.refresh /\ done'.nmi = done.nmi]_vars

(* No HDMA is lost: when a line's HDMA goes pending, the one before has    *)
(* been run.                                                               *)
HdmaNotLost ==
    [][Walking /\ hdmaen /\ w'.done.hdma /\ ~w.done.hdma => ~pend.hdma]_vars

(* The clock access_clock predicted for a read is the clock at which the   *)
(* read happens when its instruction is charged.                           *)
AccessClockExact == [][pc = "walk" /\ pc' \in {"walk", "advance"} => sampled' = sampled]_vars

(* Time passes: every line ends, whatever program runs on it.              *)
LinesEnd == []<><<line' # line>>_vars

(* A WAI with NMI enabled ends.                                            *)
WaiEnds == (cpu.waiting /\ nmitimen.nmi) ~> ~cpu.waiting

(* An NMI that was armed is not lost: a cycle start comes at which the CPU *)
(* sees it, transfers having locked it out of others or not, unless the    *)
(* console is reset; and what it has seen it enters.                       *)
NmiTaken == /\ pend.nmi_count > 0 ~> pend.need_nmi \/ pc = "start"
            /\ pend.need_nmi ~> ~pend.need_nmi
=============================================================================
