------------------------------ MODULE ApuPorts ------------------------------
(***************************************************************************)
(* The CPU's side and the SPC700's of the four APU ports                   *)
(* (runtime/snes_adapter.c) and the SPC700's coroutine                     *)
(* (runtime/spc700_host.cpp).  The SPC700 stands still until the scheduler *)
(* needs it: at each port access of the CPU and at each line's end it runs *)
(* whole cycles up to the CPU's time, stopping inside an instruction if    *)
(* need be.                                                                *)
(*                                                                         *)
(* Its time is counted in half-cycles, Num of them every Den clocks of the *)
(* CPU.  Only the difference between the two clocks is kept, in units of   *)
(* 1/Den half-cycle: "lag" is how far the SPC700 is behind the start of    *)
(* the CPU's instruction.                                                  *)
(***************************************************************************)
EXTENDS Integers, FiniteSets

CONSTANTS
    Num, Den,        \* SPC_HALF_PER_MASTER = Num / Den
    Ports, Values,   \* the ports and their values, 0 the cleared one
    LineClocks,      \* SCHED_CLOCKS_PER_LINE
    InsnClocks,      \* clocks an instruction can take, its pauses included
    StartDelay,      \* clocks from reset to the first instruction
    MaxRecent        \* bound: CPU writes between two SPC700 cycles

VARIABLES
    h,               \* hclock
    at,              \* clocks from the instruction's start to its last access
    lag,
    todo,            \* SPC700 cycles still to run: host.target - host.cycle
    access,          \* what the SPC700 is run for: a port access or a line's end
    port_new,        \* last CPU write per port
    port_vis,        \* what the SPC700 reads at $F4-$F7
    port_pending,
    settled,         \* history: what the SPC700 should have read in its last cycle
    recent           \* history: CPU writes since, each with its time, from the SPC700's

ports == <<port_new, port_vis, port_pending>>
history == <<settled, recent>>
vars == <<h, at, lag, todo, access, ports, history>>

ASSUME ConstantsAssumption ==
    /\ {Num, Den, LineClocks} \subseteq Nat \ {0} /\ Ports \subseteq 0 .. 3 /\ 0 \in Values
    /\ InsnClocks \subseteq Nat \ {0} /\ {StartDelay, MaxRecent} \subseteq Nat
    /\ StartDelay * Num >= 4 * Den      \* the vector's two cycles are past by then

Cleared == [p \in Ports |-> 0]
Half == Den                             \* a half-cycle
Cycle == 2 * Den

-----------------------------------------------------------------------------
(* The catch-up.                                                           *)

(* snes_apu_catch_up, with the SPC700 a behind: the cycles that bring its  *)
(* count to the CPU's time, truncated, minus 1.                            *)
CyclesAhead(a) == (a \div Den + 1) \div 2   \* mutant: to the CPU's time itself
Cycles(a) == LET short == a \div Den - 1 IN IF short > 0 THEN (short + 1) \div 2 ELSE 0

(* apu_reg_read and apu_reg_write begin here: an access c clocks into the  *)
(* instruction.                                                            *)
Sync(c) ==
    /\ access = "none" /\ h < LineClocks /\ c > at
    /\ at' = c
    /\ todo' = Cycles(lag + c * Num)
    /\ access' = "port"
    /\ UNCHANGED <<h, lag, ports, history>>

-----------------------------------------------------------------------------
(* The SPC700's cycle: its access at its end, then spc_cycle_end.          *)

(* The last of the writes in S to port p, or what was there before, v.     *)
LastWrite(v, S, p) ==
    LET of == {r \in S : r.port = p}
    IN  IF of = {} THEN v[p] ELSE (CHOOSE r \in of : \A q \in of : q.off <= r.off).value

(* What the CPU had written one half-cycle before the cycle's end.         *)
Due == {r \in recent : r.off <= Half}
Wanted == [p \in Ports |-> LastWrite(settled, Due, p)]
Later(clear) == {r \in recent : r.off > Half /\ r.port \div 2 \notin clear}
Aged(S) == {[r EXCEPT !.off = @ - Cycle] : r \in S}

(* $F1 with bits 4 and 5 as in clear: ports 0-1 and 2-3 are cleared.       *)
ClearedIn(v, clear) == [p \in Ports |-> IF p \div 2 \in clear THEN 0 ELSE v[p]]
ClearedNew(v, clear) == ClearedIn(v, clear)

NotLanding == FALSE                \* mutant: only another write lands it
Landing == port_pending

(* A cycle that may read the ports, or write $F1 (clear).                  *)
SpcCycle(clear) ==
    /\ todo > 0
    /\ todo' = todo - 1
    /\ lag' = lag - Cycle
    /\ port_new' = ClearedNew(port_new, clear)
    /\ port_vis' = IF Landing THEN port_new' ELSE ClearedIn(port_vis, clear)
    /\ port_pending' = IF Landing THEN FALSE ELSE port_pending
    /\ settled' = ClearedIn(Wanted, clear)
    /\ recent' = Aged(Later(clear))
    /\ UNCHANGED <<h, at, access>>

-----------------------------------------------------------------------------
(* The CPU's access, the SPC700 caught up.                                 *)

AtOnce(a) == TRUE                  \* mutant: every write is latched at once
LatchedNow(a) == a <= Half

Offset == lag + at * Num

(* apu_reg_read: the SPC700's output port.                                 *)
CpuRead ==
    /\ access = "port" /\ todo = 0
    /\ access' = "none"
    /\ UNCHANGED <<h, at, lag, todo, ports, history>>

(* apu_reg_write: a value that changes the port.                           *)
CpuWrite(p, v) ==
    /\ access = "port" /\ todo = 0
    /\ access' = "none"
    /\ Cardinality(recent) < MaxRecent
    /\ recent' = recent \union {[port |-> p, value |-> v, off |-> Offset]}
    /\ IF port_new[p] = v
       THEN UNCHANGED ports
       ELSE /\ port_new' = [port_new EXCEPT ![p] = v]
            /\ IF LatchedNow(Offset)
               THEN port_vis' = [port_vis EXCEPT ![p] = v] /\ UNCHANGED port_pending
               ELSE port_pending' = TRUE /\ UNCHANGED port_vis
    /\ UNCHANGED <<h, at, lag, todo, settled>>

-----------------------------------------------------------------------------
(* The CPU's clock.                                                        *)

(* The instruction ends, d clocks after its start.                         *)
EndInsn(d) ==
    /\ access = "none" /\ h < LineClocks
    /\ d >= at
    /\ h' = h + d /\ at' = 0
    /\ lag' = lag + d * Num
    /\ UNCHANGED <<todo, access, ports, history>>

(* advance ends a line, at the instruction's end: apu_sync, then the next. *)
LineSync == Cycles(lag)

EndLine ==
    /\ access = "none" /\ h >= LineClocks
    /\ todo' = LineSync
    /\ access' = "line"
    /\ UNCHANGED <<h, at, lag, ports, history>>

NextLine ==
    /\ access = "line" /\ todo = 0
    /\ access' = "none"
    /\ h' = h - LineClocks
    /\ UNCHANGED <<at, lag, todo, ports, history>>

(* snes_hw_reset or snes_hw_soft_reset, then the reset sequence: the       *)
(* SPC700 has read its reset vector when the CPU's clock is 0.             *)
AfterReset ==
    /\ h' = StartDelay /\ at' = 0
    /\ lag' = StartDelay * Num - 2 * Cycle
    /\ todo' = 0 /\ access' = "none"
    /\ port_new' = Cleared /\ port_vis' = Cleared /\ port_pending' = FALSE
    /\ settled' = Cleared /\ recent' = {}

(* The reset button: as a line begins, in advance.                         *)
Reset == access = "line" /\ todo = 0 /\ AfterReset

Init ==
    /\ h = StartDelay /\ at = 0
    /\ lag = StartDelay * Num - 2 * Cycle
    /\ todo = 0 /\ access = "none"
    /\ port_new = Cleared /\ port_vis = Cleared /\ port_pending = FALSE
    /\ settled = Cleared /\ recent = {}

Next ==
    \/ \E d \in InsnClocks : \E c \in 1 .. d : Sync(c)
    \/ \E clear \in SUBSET {0, 1} : SpcCycle(clear)
    \/ CpuRead
    \/ \E p \in Ports, v \in Values : CpuWrite(p, v)
    \/ \E d \in InsnClocks : EndInsn(d)
    \/ EndLine \/ NextLine \/ Reset

(* The CPU and the SPC700 are one thread: while frames are asked for, some *)
(* step is taken.                                                          *)
Spec == Init /\ [][Next]_vars /\ WF_vars(Next)

-----------------------------------------------------------------------------
(* Properties.                                                             *)

Longest == CHOOSE d \in InsnClocks : \A e \in InsnClocks : e <= d

(* "So the SPC700 is exactly at the CPU's time on every $2140-$2143        *)
(* access": it has run every cycle that ends by the access's clock, and    *)
(* none that ends after it.                                                *)
InStep == access = "port" /\ todo = 0 => 0 <= Offset /\ Offset < Cycle

(* A cycle of the SPC700 reads in each port the CPU's last write at least  *)
(* a half-cycle before its end, or the clear that followed it, whatever    *)
(* the catch-up's granularity was.                                         *)
ReadsAsOfClock == todo > 0 => port_vis = Wanted

(* A pending write lands.                                                  *)
PendingLands == port_pending ~> ~port_pending
=============================================================================
