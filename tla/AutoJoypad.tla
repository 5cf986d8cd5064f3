----------------------------- MODULE AutoJoypad -----------------------------
(***************************************************************************)
(* The automatic joypad read of runtime/sched.c: armed as VBlank begins,   *)
(* it shifts the buttons in bit by bit.  The code does not run the steps   *)
(* at their clocks: autojoy_update catches up at each line start and at    *)
(* each read of $4212 or $4218-$421F.  The host changes the buttons at     *)
(* frame edges (frontend/main.c, set_input), the program changes the       *)
(* enable bit ($4200 bit 0) whenever it likes.                             *)
(*                                                                         *)
(* Clocks are counted from the start of the current line; phase is that    *)
(* start since power-on, modulo Grid.  One port stands for the four, which *)
(* the code treats alike.                                                  *)
(***************************************************************************)
EXTENDS Integers, FiniteSets

CONSTANTS
    Bits,        \* buttons shifted in (16)
    StepClocks,  \* clocks between two steps (128)
    Grid,        \* the read starts on a multiple of these, less a step (256)
    Delay,       \* clocks into the VBlank line before that multiple (130)
    LineClocks,  \* clocks in a line (1364)
    Lines,       \* lines in a frame (262)
    VBlankLine,  \* the line that arms the read (225)
    InsnClocks,  \* the clocks instructions take up to their access, a transfer's
                 \* pause included: up to several lines, or a frame
    MaxEnables   \* bound: $4200 writes between two frame edges

VARIABLES
    line, h, phase,  \* line, hclock, line_start % Grid
    enable,          \* nmitimen bit 0
    pad, joy,        \* pad[0]: the buttons held; joy[0]: the result
    start,           \* autojoy_start from the line's start, while step <= LastStep
    step,            \* autojoy_step
    on, busy,        \* autojoy_on, autojoy_busy
    reading,         \* autojoy_pad[0]
    enables,         \* $4200 writes so far this frame (bounds the model)
    given,           \* history: the buttons set for the frame under way
    since,           \* history: the values enable had from step 1's clock to the first
                     \* read or line start after it
    kept             \* history: joy when the read was armed

historyVars == <<given, since, kept>>
readVars == <<start, step, on, busy, reading, joy>>
vars == <<line, h, phase, enable, pad, readVars, enables, historyVars>>

ASSUME ConstantsAssumption ==
    /\ {Bits, StepClocks, Grid, Delay, LineClocks, Lines} \subseteq Nat \ {0}
    /\ VBlankLine \in 1 .. Lines - 1
    /\ InsnClocks \subseteq Nat \ {0}
    /\ Delay + Grid + StepClocks * (2 * Bits + 2) <= (Lines - 1) * LineClocks
                      \* a read is over well before the next
    /\ MaxEnables \in Nat

LastStep == 2 * Bits + 2
Idle == LastStep + 1
Buttons == 0 .. 2 ^ Bits - 1

Smaller(a, b) == IF a < b THEN a ELSE b
Larger(a, b) == IF a > b THEN a ELSE b

(* autojoy_arm, on a line that starts at phase p.                          *)
StartFrom(p) == ((p + Delay + Grid - 1) \div Grid) * Grid - StepClocks - p

(* The next step to run once those at or before clock c have been.         *)
NextStepAtReads(s, at, c) ==   \* mutant: a line's start does not catch up
    IF c = 0 THEN s ELSE Larger(s, Smaller(Idle, 1 + (c - at) \div StepClocks))
NextStep(s, at, c) == Larger(s, Smaller(Idle, 1 + (c - at) \div StepClocks))

(* Bits shifted in before step s runs: steps 4, 6, ... shift one in each.  *)
BitsInLess(s) == IF s <= 6 THEN 0 ELSE (s - 5) \div 2   \* mutant: step 4 shifts nothing
BitsIn(s) == IF s <= 4 THEN 0 ELSE (s - 3) \div 2
Shifted(b, s) == b \div 2 ^ (Bits - BitsIn(s))

(* autojoy_update(c): the enable bit is looked at when step 1 is caught up *)
(* with.                                                                   *)
EnableKept == on                   \* mutant: the read before this one decides
EnableSeen == enable'
NeverOver(n) == FALSE              \* mutant: step 34 leaves busy set
Over(n) == n = Idle

Update(s, at, b, j, c) ==
    LET n     == NextStep(s, at, c)
        first == s <= 1 /\ 1 < n
        runs  == IF first THEN EnableSeen ELSE on
    IN  /\ step' = n
        /\ on' = runs
        /\ busy' = (~Over(n) /\ (IF first THEN runs ELSE busy))
        /\ joy' = IF runs /\ (first \/ BitsIn(s) < BitsIn(n)) THEN Shifted(b, n) ELSE j
        /\ reading' = b
        /\ start' = IF n = Idle THEN 0 ELSE at

----------------------------------------------------------------------------
(* The program.  An instruction's access comes d clocks after its start,   *)
(* and the next instruction starts there.                                  *)

AtStepOne == IF step <= LastStep THEN start + StepClocks ELSE -1

(* Between clocks h and h + d, with enable e before and e1 after.          *)
Watch(d, e, e1) ==
    since' = CASE AtStepOne \in h + 1 .. h + d          -> {e, e1}
               [] step <= 1 /\ AtStepOne \in 1 .. h     -> since \union {e1}
               [] OTHER                                 -> since

Running == h < LineClocks

Nop(d) ==
    /\ Running /\ h' = h + d
    /\ Watch(d, enable, enable)
    /\ UNCHANGED <<line, phase, enable, pad, readVars, enables, given, kept>>

NmitimenWrite(d) ==
    /\ Running /\ h' = h + d
    /\ enables < MaxEnables /\ enables' = enables + 1
    /\ enable' = ~enable
    /\ Watch(d, enable, ~enable)
    /\ UNCHANGED <<line, phase, pad, readVars, given, kept>>

(* hvbjoy_read and joy_read.                                               *)
Read(d) ==
    /\ Running /\ h' = h + d
    /\ enable' = enable
    /\ Update(step, start, reading, joy, h + d)
    /\ Watch(d, enable, enable)
    /\ UNCHANGED <<line, phase, pad, enables, given, kept>>

----------------------------------------------------------------------------
(* advance, at the end of a line: the frame hook sets the buttons at the   *)
(* frame edge, and start_line arms the read as VBlank begins and catches   *)
(* up with it.                                                             *)
Arms(l) == l = VBlankLine

EndLine ==
    /\ h >= LineClocks
    /\ LET l == IF line + 1 = Lines THEN 0 ELSE line + 1
           p == (phase + LineClocks) % Grid
       IN  /\ line' = l /\ h' = h - LineClocks /\ phase' = p
           /\ enable' = enable
           /\ IF l = 0 THEN pad' \in Buttons /\ given' = pad' /\ enables' = 0
                       ELSE UNCHANGED <<pad, given, enables>>
           /\ IF Arms(l)
              THEN /\ Update(0, StartFrom(p), pad, joy, 0)
                   /\ kept' = joy
                   /\ since' = IF StartFrom(p) + StepClocks <= h' THEN {enable} ELSE {}
              ELSE /\ Update(step, start - LineClocks, reading, joy, 0)
                   /\ UNCHANGED <<kept, since>>

(* soft_reset, as VBlank begins: the frame ends and the clock restarts.    *)
(* The enable bit clears, joy[] stays.                                     *)
Reset ==
    /\ h >= LineClocks /\ line + 1 = VBlankLine
    /\ line' = 0 /\ h' = 0 /\ phase' = 0
    /\ enable' = FALSE /\ enables' = 0
    /\ pad' \in Buttons /\ given' = pad'
    /\ step' = Idle /\ on' = FALSE /\ busy' = FALSE /\ start' = 0
    /\ kept' = joy /\ since' = {}
    /\ UNCHANGED <<joy, reading>>

(* sched_init, and the first set_input.                                    *)
Init ==
    /\ line = 0 /\ h = 0 /\ phase = 0
    /\ enable = FALSE /\ enables = 0
    /\ pad \in Buttons /\ given = pad
    /\ joy = 0 /\ reading = 0 /\ start = 0 /\ step = Idle
    /\ on = FALSE /\ busy = FALSE
    /\ since = {} /\ kept = 0

Next ==
    \/ \E d \in InsnClocks : Nop(d) \/ NmitimenWrite(d) \/ Read(d)
    \/ EndLine \/ Reset

(* The CPU thread never stops between instructions.                        *)
Spec == Init /\ [][Next]_vars /\ WF_vars(Next)

----------------------------------------------------------------------------
(* Properties.                                                             *)

(* Catching up late shows what running every step at its clock would: a    *)
(* read of $4212 or $4218 at clock c finds the bits shifted in by c, those *)
(* of the buttons held as VBlank began, and busy set exactly from step 1   *)
(* to step 34, however many line starts and reads came before it and       *)
(* however long the instructions are.  The enable bit it goes by is one    *)
(* the program had there between step 1's clock and the first read or line *)
(* start after that, the instruction reaching into that line included:     *)
(* never one written before, or on a later line.  What it goes by is the   *)
(* read armed by the last line begun before its own instruction: one that  *)
(* is armed inside that instruction is not seen (step is Idle then).       *)
ReadsAsOfClock ==
    [][\A d \in InsnClocks : Read(d) /\ step <= LastStep =>
         LET run == {s \in 0 .. LastStep : start + StepClocks * s <= h + d}
             in  == Cardinality({s \in run : s >= 4 /\ s % 2 = 0})
         IN  /\ 1 \in run => on' \in since'
             /\ busy' = (on' /\ 1 \in run /\ LastStep \notin run)
             /\ joy' = IF on' /\ 1 \in run THEN reading \div 2 ^ (Bits - in) ELSE kept]_vars

(* A read that has ended left the buttons that were set for its frame at   *)
(* the frame edge before it, or all that was there (replay.h: "Frame F's   *)
(* buttons are the ones its auto-joypad read sees").                       *)
FrameSeesItsButtons ==
    line > VBlankLine /\ step = Idle => joy = IF on THEN given ELSE kept

(* Busy ($4212 bit 0) does not stay set.                                   *)
BusyEnds == busy ~> ~busy
=============================================================================
