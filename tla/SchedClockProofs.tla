-------------------------- MODULE SchedClockProofs --------------------------
(***************************************************************************)
(* Proofs about SchedClock: what a walk finds is what advance commits, the *)
(* TIMEUP flag and the IRQ line agree, a transfer starts on the bus's      *)
(* grid, an interrupt entry ends with no IRQ to take, and an instruction   *)
(* charged whole passes no event: for every length of a line and a frame,  *)
(* every event clock in the code's order, every set of instructions and    *)
(* programs, and transfers of any length.                                  *)
(***************************************************************************)
EXTENDS SchedClock, WellFoundedInduction, TLAPS

StepNames == {"pending", "sample", "cycle", "after", "pass", "transfer", "wait",
              "dma", "dma_pending"}
StepType == [op : StepNames, n : Nat, smp : Int]
DoneType == [refresh : BOOLEAN, hdma : BOOLEAN, init : BOOLEAN, nmi : BOOLEAN,
             irq : BOOLEAN, irq_at : Int]
PendType == [delay : BOOLEAN, hdma : BOOLEAN, init : BOOLEAN, dma : BOOLEAN,
             hdma_cost : Nat, dma_after : Nat, dma_units : Nat, nmi_count : Nat,
             need_nmi : BOOLEAN, irq_line : BOOLEAN, prev_irq : BOOLEAN, nmi_after : Nat]
WalkType == [t : Nat, ls : Nat, line : 0 .. Lines - 1, field : 0 .. 1, refreshes : Nat,
             done : DoneType]
Cycle == Nat \ {0}

Types ==
    /\ line \in 0 .. Lines - 1 /\ hclock \in Nat /\ line_start \in 0 .. Sync - 1
    /\ field \in 0 .. 1
    /\ done \in DoneType /\ refresh_paid \in Nat
    /\ pend \in PendType /\ saved \in PendType
    /\ nmitimen \in [nmi : BOOLEAN, mode : 0 .. 3] /\ htime \in Nat /\ vtime \in Nat
    /\ hdmaen \in BOOLEAN /\ hdma_cost \in Nat /\ timeup \in BOOLEAN
    /\ take_irq \in BOOLEAN /\ skip_check \in BOOLEAN /\ walked \in BOOLEAN
    /\ pc \in {"start", "boundary", "charge", "walk", "access", "advance", "idle"}
    /\ insn \in Seq(Cycle) /\ k \in Nat /\ todo \in Seq(StepType) /\ count \in Nat
    /\ w \in WalkType

-----------------------------------------------------------------------------
(* Arithmetic, and the least element of a set of numbers, which stands for *)
(* induction in this module.                                               *)

LEMMA Quotient ==
    ASSUME NEW a \in Int, NEW d \in Nat, d > 0
    PROVE  a \div d \in Int /\ a % d \in 0 .. d - 1 /\ a = (d * (a \div d)) + (a % d)
  OBVIOUS

LEMMA Remainder ==
    ASSUME NEW d \in Nat, d > 0, NEW q \in Int, NEW r \in 0 .. d - 1
    PROVE  ((d * q) + r) % d = r
  <1> DEFINE a == (d * q) + r
             p == a \div d
             s == a % d
  <1>1. a \in Int  OBVIOUS
  <1>2. p \in Int /\ s \in 0 .. d - 1 /\ a = (d * p) + s  BY <1>1, Quotient
  <1> HIDE DEF p, s
  <1>3. (d * p) + s = (d * q) + r  BY <1>2
  <1>4. p = q
    <2>1. p > q => d * p >= (d * q) + d
      <3>1. p >= q + 1 => d * p >= d * (q + 1)  BY <1>2
      <3> QED  BY <3>1, <1>2
    <2>2. q > p => d * q >= (d * p) + d
      <3>1. q >= p + 1 => d * q >= d * (p + 1)  BY <1>2
      <3> QED  BY <3>1, <1>2
    <2>3. d * p \in Int /\ d * q \in Int  BY <1>2
    <2> QED  BY <1>2, <1>3, <2>1, <2>2, <2>3
  <1>5. s = r  BY <1>2, <1>3, <1>4
  <1> QED  BY <1>5 DEF s

(* A clock counted modulo d may be taken modulo d before.                  *)
LEMMA ModuloSum ==
    ASSUME NEW a \in Int, NEW b \in Int, NEW d \in Nat, d > 0
    PROVE  ((a % d) + b) % d = (a + b) % d
  <1> DEFINE q == a \div d
             r == a % d
             p == (r + b) \div d
             s == (r + b) % d
  <1>1. q \in Int /\ r \in 0 .. d - 1 /\ a = (d * q) + r  BY Quotient
  <1>2. p \in Int /\ s \in 0 .. d - 1 /\ r + b = (d * p) + s  BY <1>1, Quotient
  <1> HIDE DEF q, r, p, s
  <1>3. a + b = (d * (q + p)) + s
    <2>1. d * (q + p) = (d * q) + (d * p)  BY <1>1, <1>2
    <2> QED  BY <1>1, <1>2, <2>1
  <1>4. (a + b) % d = s
    <2>1. q + p \in Int  BY <1>1, <1>2
    <2> QED  BY <1>2, <1>3, <2>1, Remainder
  <1> QED  BY <1>4 DEF r, s

LEMMA Least ==
    ASSUME NEW T, T \subseteq Nat, T # {}
    PROVE  \E x \in T : \A y \in T : x <= y
  <1> DEFINE LessThan == {ss \in Nat \X Nat : ss[1] < ss[2]}
  <1>1. IsWellFoundedOn(LessThan, Nat)  BY NatLessThanWellFounded DEF OpToRel
  <1> HIDE DEF LessThan
  <1>2. \E x \in T : \A y \in T : <<y, x>> \notin LessThan  BY <1>1, WFMin, Zenon
  <1>3. PICK x \in T : \A y \in T : <<y, x>> \notin LessThan  BY <1>2
  <1>4. ASSUME NEW y \in T PROVE x <= y
    <2>1. x \in Nat /\ y \in Nat /\ <<y, x>> \notin LessThan  BY <1>3
    <2> QED  BY <2>1 DEF LessThan
  <1> QED  BY <1>4

(* The recursive sum of a sequence of numbers is a number.                 *)
LEMMA SumIsNat ==
    ASSUME NEW c \in Seq(Nat), NEW sum,
           sum = CHOOSE g : g = [i \in 0 .. Len(c) |-> IF i = 0 THEN 0 ELSE g[i - 1] + c[i]]
    PROVE  sum[Len(c)] \in Nat
  <1> DEFINE N == Len(c)
             Sums(n, g) == \A i \in 0 .. n : g[i] = IF i = 0 THEN 0 ELSE g[i - 1] + c[i]
             T == {n \in 0 .. N : ~ \E g \in [0 .. n -> Nat] : Sums(n, g)}
  <1>1. N \in Nat /\ \A i \in 1 .. N : c[i] \in Nat  OBVIOUS
  <1>2. T = {}
    <2> SUFFICES ASSUME T # {} PROVE FALSE  OBVIOUS
    <2>1. T \subseteq Nat  BY <1>1
    <2> HIDE DEF T
    <2>2. PICK n \in T : \A y \in T : n <= y  BY <2>1, Least
    <2>3. n \in Nat  BY <2>1, <2>2
    <2>4. n - 1 \notin T  BY <2>2, <2>3
    <2> USE DEF T
    <2>5. n # 0
      <3>1. Sums(0, [i \in 0 .. 0 |-> 0])  OBVIOUS
      <3> QED  BY <3>1
    <2>6. n \in 0 .. N /\ n - 1 \in 0 .. N  BY <2>3, <2>5, <1>1
    <2>7. PICK g \in [0 .. n - 1 -> Nat] : Sums(n - 1, g)  BY <2>4, <2>6
    <2> DEFINE h == [i \in 0 .. n |-> IF i = n THEN g[n - 1] + c[n] ELSE g[i]]
    <2>8. h \in [0 .. n -> Nat]  BY <2>5, <2>7, <1>1
    <2>9. Sums(n, h)
      <3> TAKE i \in 0 .. n
      <3>1. CASE i = n  BY <3>1, <2>5, <1>1
      <3>2. CASE i # n
        <4>1. i \in 0 .. n - 1  BY <3>2, <1>1
        <4>2. h[i] = g[i]  BY <4>1, <1>1
        <4>3. i # 0 => h[i - 1] = g[i - 1]  BY <4>1, <1>1
        <4> QED  BY <4>1, <4>2, <4>3, <2>7
      <3> QED  BY <3>1, <3>2
    <2> QED  BY <2>8, <2>9
  <1>3. N \in 0 .. N /\ N \notin T
    <2> HIDE DEF T
    <2> QED  BY <1>1, <1>2
  <1>4. PICK g \in [0 .. N -> Nat] : Sums(N, g)  BY <1>3
  <1>5. g = [i \in 0 .. N |-> IF i = 0 THEN 0 ELSE g[i - 1] + c[i]]  BY <1>4
  <1>6. sum = [i \in 0 .. N |-> IF i = 0 THEN 0 ELSE sum[i - 1] + c[i]]  BY <1>5
  <1> DEFINE B == {i \in 0 .. N : sum[i] \notin Nat}
  <1>7. B = {}
    <2> SUFFICES ASSUME B # {} PROVE FALSE  OBVIOUS
    <2>1. B \subseteq Nat  BY <1>1
    <2> HIDE DEF B
    <2>2. PICK n \in B : \A y \in B : n <= y  BY <2>1, Least
    <2>3. n \in Nat /\ n - 1 \notin B  BY <2>1, <2>2
    <2> USE DEF B
    <2>4. n \in 0 .. N /\ sum[n] \notin Nat  BY <2>2
    <2>5. n # 0 => sum[n - 1] \in Nat  BY <2>3, <2>4, <1>1
    <2>6. sum[n] = IF n = 0 THEN 0 ELSE sum[n - 1] + c[n]  BY <1>6, <2>4
    <2> QED  BY <1>1, <2>4, <2>5, <2>6
  <1> QED  BY <1>1, <1>7

LEMMA ClocksIsNat == ASSUME insn \in Seq(Cycle) PROVE Clocks \in Nat
  <1>1. insn \in Seq(Nat)  BY DEF Cycle
  <1> QED  BY <1>1, SumIsNat DEF Clocks

-----------------------------------------------------------------------------
(* The timeline.                                                           *)

LEMMA Constants ==
    /\ LineClocks \in Nat /\ ShortBy \in Nat /\ Lines \in Nat /\ VBlankLine \in Nat
    /\ ShortLine \in Nat /\ HdmaClock \in Nat /\ RefreshAt \in Nat /\ RefreshClocks \in Nat
    /\ InitAt \in Nat /\ NmiAt \in Nat /\ RdnmiAt \in Nat /\ Sync \in Nat /\ IdleClocks \in Nat
    /\ ReadHold \in Nat /\ StartDelay \in Nat /\ HMax \in Nat /\ InitCost \in Nat
    /\ 0 < Sync /\ 0 < IdleClocks
    /\ NmiAt < RefreshAt - Sync /\ InitAt + Sync < RefreshAt - Sync
    /\ RefreshAt < HdmaClock /\ HdmaClock < LineClocks - ShortBy
    /\ 0 < VBlankLine /\ VBlankLine < Lines /\ StartDelay < RefreshAt - Sync
    /\ RefreshClocks % Sync = 0
  BY LineAssumption

LEMMA Inputs ==
    /\ \A c \in Insns : c \in Seq(Cycle) /\ c # <<>>
    /\ IntEntry \in Seq(Cycle) /\ IntEntry # <<>>
    /\ NmitimenValues \subseteq [nmi : BOOLEAN, mode : 0 .. 3]
    /\ DmaUnits \subseteq Nat /\ HdmaCosts \subseteq Nat
    /\ HTimes \subseteq Nat /\ VTimes \subseteq Nat
  BY InputAssumption DEF Cycle

LEMMA LengthIs ==
    ASSUME NEW l, NEW f
    PROVE  LengthOf(l, f) \in Nat /\ HdmaClock < LengthOf(l, f)
  BY Constants DEF LengthOf

LEMMA NextLineIs ==
    ASSUME NEW l \in 0 .. Lines - 1
    PROVE  NextLine(l) \in 0 .. Lines - 1
  BY Constants DEF NextLine

LEMMA RefreshIs ==
    ASSUME NEW ls \in Int
    PROVE  /\ RefreshClock(ls) \in Nat /\ InitClock(ls) \in Nat
           /\ NmiAt < RefreshClock(ls) /\ InitClock(ls) < RefreshClock(ls)
           /\ RefreshClock(ls) <= RefreshAt /\ RefreshAt - Sync < RefreshClock(ls)
  <1>1. ls % Sync \in 0 .. Sync - 1  BY Constants, Quotient
  <1> QED  BY <1>1, Constants DEF RefreshClock, InitClock

(* Only the clock modulo Sync counts.                                      *)
LEMMA RefreshModulo ==
    ASSUME NEW a \in Int, NEW b \in Int
    PROVE  RefreshClock((a % Sync) + b) = RefreshClock(a + b)
  BY Constants, ModuloSum DEF RefreshClock

LEMMA IrqIs ==
    ASSUME Types, NEW l
    PROVE  IrqClockFor(l) \in Int
  <1>1. nmitimen.mode \in 0 .. 3 /\ htime \in Nat  BY DEF Types
  <1> QED  BY <1>1 DEF IrqClockFor

LEMMA BeginLineIs ==
    ASSUME Types, NEW l
    PROVE  BeginLine(l) \in DoneType
  BY IrqIs DEF BeginLine, DoneType

LEMMA LineAheadIs ==
    ASSUME Types, NEW l
    PROVE  /\ LineAhead(l) \in DoneType
           /\ ~LineAhead(l).refresh /\ ~LineAhead(l).hdma /\ ~LineAhead(l).nmi
           /\ ~LineAhead(l).irq /\ LineAhead(l).irq_at = IrqClockFor(l)
  <1> DEFINE d == NoWalk.done
  <1>1. d \in DoneType /\ d.refresh = FALSE /\ d.hdma = FALSE /\ d.nmi = FALSE /\ d.irq = FALSE
    BY DEF NoWalk, DoneType
  <1>2. IrqClockFor(l) \in Int  BY IrqIs
  <1>3. LineAhead(l) = [d EXCEPT !.irq_at = IrqClockFor(l)]  BY DEF LineAhead
  <1> HIDE DEF d
  <1> QED  BY <1>1, <1>2, <1>3 DEF DoneType

LEMMA NoneAreTyped == NoPend \in PendType /\ NoWalk \in WalkType
  BY Constants DEF NoPend, PendType, NoWalk, WalkType, DoneType

LEMMA WalkInitIs == ASSUME Types PROVE WalkInit \in WalkType
  BY DEF Types, WalkInit, WalkType

(* The walk's next event is one of the line's, at a clock none is before.  *)
LEMMA EventsAre ==
    ASSUME NEW e
    PROVE  e \in Events <=>
             \/ e = <<LengthOf(w.line, w.field), 0, "eol">>
             \/ w.line = VBlankLine /\ ~w.done.nmi /\ e = <<NmiAt, 1, "nmi">>
             \/ ~w.done.irq /\ w.done.irq_at >= 0 /\ e = <<w.done.irq_at, 2, "irq">>
             \/ w.line = 0 /\ ~w.done.init /\ e = <<InitClock(line_start + w.ls), 3, "init">>
             \/ ~w.done.refresh /\ e = <<RefreshClock(line_start + w.ls), 4, "refresh">>
             \/ w.line < VBlankLine /\ ~w.done.hdma /\ e = <<HdmaClock, 5, "hdma">>
  BY DEF Events, Event

LEMMA NextEventIs ==
    ASSUME Types
    PROVE  NextEvent \in Events /\ \A f \in Events : NextEvent[1] \in Nat /\ NextEvent[1] <= f[1]
  <1>1. \A f \in Events : f[1] \in Nat /\ f[2] \in Nat
    <2> TAKE f \in Events
    <2>1. line_start + w.ls \in Int /\ w.done.irq_at \in Int
      BY DEF Types, WalkType, DoneType
    <2> QED  BY <2>1, EventsAre, LengthIs, RefreshIs, Constants
  <1> DEFINE At1 == {e[1] : e \in Events}
  <1>2. PICK a \in At1 : \A b \in At1 : a <= b
    <2>1. At1 \subseteq Nat  BY <1>1
    <2>2. <<LengthOf(w.line, w.field), 0, "eol">> \in Events  BY EventsAre
    <2>3. At1 # {}  BY <2>2
    <2> HIDE DEF At1
    <2> QED  BY <2>1, <2>3, Least
  <1> DEFINE Rank == {e[2] : e \in {f \in Events : f[1] = a}}
  <1>3. PICK r \in Rank : \A s \in Rank : r <= s
    <2>1. Rank \subseteq Nat  BY <1>1
    <2>2. Rank # {}  BY <1>2
    <2> HIDE DEF Rank
    <2> QED  BY <2>1, <2>2, Least
  <1>4. PICK e \in Events : e[1] = a /\ e[2] = r  BY <1>3
  <1>5. \A f \in Events : e[1] < f[1] \/ (e[1] = f[1] /\ e[2] <= f[2])
    <2> TAKE f \in Events
    <2>1. f[1] \in At1 /\ (f[1] = a => f[2] \in Rank)  OBVIOUS
    <2>2. a <= f[1] /\ (f[1] = a => r <= f[2])  BY <2>1, <1>2, <1>3
    <2> QED  BY <2>2, <1>1, <1>4
  <1>6. NextEvent \in Events
        /\ \A f \in Events : \/ NextEvent[1] < f[1]
                             \/ NextEvent[1] = f[1] /\ NextEvent[2] <= f[2]
    BY <1>4, <1>5 DEF NextEvent
  <1> QED  BY <1>1, <1>6

LEMMA Nearest ==
    ASSUME Types
    PROVE  /\ NextEvent[1] \in Nat
           /\ NextEvent[1] <= LengthOf(w.line, w.field)
           /\ w.line = VBlankLine /\ ~w.done.nmi => NextEvent[1] <= NmiAt
           /\ ~w.done.irq /\ w.done.irq_at >= 0 => NextEvent[1] <= w.done.irq_at
           /\ ~w.done.refresh => NextEvent[1] <= RefreshClock(line_start + w.ls)
           /\ w.line < VBlankLine /\ ~w.done.hdma => NextEvent[1] <= HdmaClock
           /\ NextEvent[3] = "eol" => NextEvent[1] = LengthOf(w.line, w.field)
           /\ NextEvent[3] = "nmi" =>
                w.line = VBlankLine /\ ~w.done.nmi /\ NextEvent[1] = NmiAt
           /\ NextEvent[3] = "irq" =>
                ~w.done.irq /\ w.done.irq_at >= 0 /\ NextEvent[1] = w.done.irq_at
           /\ NextEvent[3] = "refresh" =>
                ~w.done.refresh /\ NextEvent[1] = RefreshClock(line_start + w.ls)
           /\ NextEvent[3] = "hdma" =>
                w.line < VBlankLine /\ ~w.done.hdma /\ NextEvent[1] = HdmaClock
  <1>1. NextEvent \in Events /\ \A f \in Events : NextEvent[1] \in Nat /\ NextEvent[1] <= f[1]
    BY NextEventIs
  <1>2. /\ <<LengthOf(w.line, w.field), 0, "eol">> \in Events
        /\ w.line = VBlankLine /\ ~w.done.nmi => <<NmiAt, 1, "nmi">> \in Events
        /\ ~w.done.irq /\ w.done.irq_at >= 0 => <<w.done.irq_at, 2, "irq">> \in Events
        /\ ~w.done.refresh => <<RefreshClock(line_start + w.ls), 4, "refresh">> \in Events
        /\ w.line < VBlankLine /\ ~w.done.hdma => <<HdmaClock, 5, "hdma">> \in Events
    BY EventsAre
  <1>3. /\ NextEvent[1] \in Nat
        /\ NextEvent[1] <= LengthOf(w.line, w.field)
        /\ w.line = VBlankLine /\ ~w.done.nmi => NextEvent[1] <= NmiAt
        /\ ~w.done.irq /\ w.done.irq_at >= 0 => NextEvent[1] <= w.done.irq_at
        /\ ~w.done.refresh => NextEvent[1] <= RefreshClock(line_start + w.ls)
        /\ w.line < VBlankLine /\ ~w.done.hdma => NextEvent[1] <= HdmaClock
    BY <1>1, <1>2
  <1> DEFINE e == NextEvent
  <1>4. \/ e = <<LengthOf(w.line, w.field), 0, "eol">>
        \/ w.line = VBlankLine /\ ~w.done.nmi /\ e = <<NmiAt, 1, "nmi">>
        \/ ~w.done.irq /\ w.done.irq_at >= 0 /\ e = <<w.done.irq_at, 2, "irq">>
        \/ w.line = 0 /\ ~w.done.init /\ e = <<InitClock(line_start + w.ls), 3, "init">>
        \/ ~w.done.refresh /\ e = <<RefreshClock(line_start + w.ls), 4, "refresh">>
        \/ w.line < VBlankLine /\ ~w.done.hdma /\ e = <<HdmaClock, 5, "hdma">>
    BY <1>1, EventsAre
  <1> HIDE DEF e
  <1>5. /\ e[3] = "eol" => e[1] = LengthOf(w.line, w.field)
        /\ e[3] = "nmi" => w.line = VBlankLine /\ ~w.done.nmi /\ e[1] = NmiAt
        /\ e[3] = "irq" => ~w.done.irq /\ w.done.irq_at >= 0 /\ e[1] = w.done.irq_at
        /\ e[3] = "refresh" => ~w.done.refresh /\ e[1] = RefreshClock(line_start + w.ls)
        /\ e[3] = "hdma" => w.line < VBlankLine /\ ~w.done.hdma /\ e[1] = HdmaClock
    BY <1>4
  <1> QED  BY <1>3, <1>5 DEF e

-----------------------------------------------------------------------------
(* The steps left of a cycle.                                              *)

(* The cycle's last step, and only it, is the end of its access.           *)
Shape(s) == s # <<>> /\ \A i \in 1 .. Len(s) : (s[i].op = "after") <=> (i = Len(s))

HasSample(s) == \E i \in 1 .. Len(s) : s[i].op = "sample"

(* With the walk at clock c: a transfer comes next and c is a multiple of  *)
(* Sync, or it comes after a pass that ends at one.                        *)
OnGrid(s, c) ==
    \A i \in 1 .. Len(s) : s[i].op = "transfer" =>
        \/ i = 1 /\ c % Sync = 0
        \/ i = 2 /\ s[1].op = "pass" /\ (c + s[1].n) % Sync = 0

LEMMA ThenIs ==
    ASSUME NEW s \in Seq(StepType), s # <<>>, NEW a \in Seq(StepType)
    PROVE  LET r == a \o Tail(s) IN
           /\ r \in Seq(StepType) /\ Len(r) = Len(a) + Len(s) - 1
           /\ \A i \in 1 .. Len(r) :
                r[i] = IF i <= Len(a) THEN a[i] ELSE s[i - Len(a) + 1]
  OBVIOUS

(* Taking the first step off and putting others in its place.              *)
Kept(s, r) ==
    /\ r \in Seq(StepType) /\ Shape(r)
    /\ HasSample(s) /\ Head(s).op # "sample" => HasSample(r)

LEMMA ThenKeeps ==
    ASSUME NEW s \in Seq(StepType), Shape(s), Head(s).op # "after", NEW a \in Seq(StepType),
           \A i \in 1 .. Len(a) : a[i].op # "after"
    PROVE  Kept(s, a \o Tail(s))
  <1> DEFINE r == a \o Tail(s)
  <1>1. Len(s) \in Nat /\ Len(s) > 0 /\ Len(a) \in Nat /\ Head(s) = s[1]  BY DEF Shape
  <1>2. r \in Seq(StepType) /\ Len(r) = Len(a) + Len(s) - 1
        /\ \A i \in 1 .. Len(r) : r[i] = IF i <= Len(a) THEN a[i] ELSE s[i - Len(a) + 1]
    BY <1>1, ThenIs
  <1> HIDE DEF r
  <1>3. Len(s) > 1  BY <1>1 DEF Shape
  <1>4. \A i \in 1 .. Len(r) : (r[i].op = "after") <=> (i = Len(r))
    <2> TAKE i \in 1 .. Len(r)
    <2>1. CASE i <= Len(a)  BY <1>1, <1>2, <1>3, <2>1
    <2>2. CASE i > Len(a)
      <3>1. i - Len(a) + 1 \in 1 .. Len(s) /\ r[i] = s[i - Len(a) + 1]  BY <1>1, <1>2, <2>2
      <3>2. (i - Len(a) + 1 = Len(s)) <=> (i = Len(r))  BY <1>1, <1>2
      <3> QED  BY <3>1, <3>2 DEF Shape
    <2> QED  BY <2>1, <2>2, <1>1
  <1>5. ASSUME HasSample(s), s[1].op # "sample" PROVE HasSample(r)
    <2>1. PICK i \in 1 .. Len(s) : s[i].op = "sample"  BY <1>5 DEF HasSample
    <2>2. i > 1  BY <2>1, <1>5
    <2>3. i + Len(a) - 1 \in 1 .. Len(r) /\ r[i + Len(a) - 1] = s[i]  BY <1>1, <1>2, <2>2
    <2> QED  BY <2>1, <2>3 DEF HasSample
  <1>6. r # <<>>  BY <1>1, <1>2, <1>3
  <1> QED  BY <1>1, <1>2, <1>4, <1>5, <1>6 DEF r, Shape, Kept

LEMMA ThenSome ==
    ASSUME NEW s \in Seq(StepType), Shape(s), Head(s).op # "after",
           NEW p \in StepType, p.op # "after", NEW q \in StepType, q.op # "after",
           NEW r \in StepType, r.op # "after"
    PROVE  /\ Kept(s, <<>> \o Tail(s)) /\ Kept(s, <<p>> \o Tail(s))
           /\ Kept(s, <<p, q>> \o Tail(s)) /\ Kept(s, <<p, q, r>> \o Tail(s))
  <1>1. <<>> \in Seq(StepType) /\ \A i \in 1 .. Len(<<>>) : <<>>[i].op # "after"  OBVIOUS
  <1>2. <<p>> \in Seq(StepType) /\ \A i \in 1 .. Len(<<p>>) : <<p>>[i].op # "after"  OBVIOUS
  <1>3. <<p, q>> \in Seq(StepType) /\ \A i \in 1 .. Len(<<p, q>>) : <<p, q>>[i].op # "after"
    <2>1. \A i \in 1 .. 2 : i = 1 \/ i = 2  OBVIOUS
    <2> QED  BY <2>1
  <1>4. <<p, q, r>> \in Seq(StepType)
        /\ \A i \in 1 .. Len(<<p, q, r>>) : <<p, q, r>>[i].op # "after"
    <2>1. \A i \in 1 .. 3 : i = 1 \/ i = 2 \/ i = 3  OBVIOUS
    <2> QED  BY <2>1
  <1> QED  BY <1>1, <1>2, <1>3, <1>4, ThenKeeps

LEMMA StepIs ==
    ASSUME NEW n \in Nat
    PROVE  /\ Pass(n) \in StepType /\ Pass(n).op = "pass" /\ Pass(n).n = n
           /\ \A o \in StepNames : Step(o) \in StepType /\ Step(o).op = o
           /\ [op |-> "dma", n |-> n, smp |-> 0] \in StepType
  BY DEF Pass, Step, StepType, StepNames

LEMMA CycleStepsIs ==
    ASSUME NEW c \in Cycle
    PROVE  /\ CycleSteps(c) \in Seq(StepType) /\ Shape(CycleSteps(c)) /\ HasSample(CycleSteps(c))
           /\ \A i \in 1 .. Len(CycleSteps(c)) : CycleSteps(c)[i].op # "transfer"
           /\ Head(CycleSteps(c)).op = "pending"
  <1> DEFINE e == [op |-> "cycle", n |-> c, smp |-> IF Reading THEN c - ReadHold ELSE c]
             s == <<Step("pending"), Step("sample"), e, Step("after")>>
  <1>1. e \in StepType /\ e.op = "cycle"  BY Constants DEF StepType, StepNames, Cycle
  <1>2. \A o \in StepNames : Step(o) \in StepType /\ Step(o).op = o  BY StepIs
  <1>3. CycleSteps(c) = s  BY DEF CycleSteps
  <1> HIDE DEF e
  <1>4. s \in Seq(StepType) /\ Len(s) = 4  BY <1>1, <1>2 DEF StepNames
  <1>5. s[1].op = "pending" /\ s[2].op = "sample" /\ s[3].op = "cycle" /\ s[4].op = "after"
    BY <1>1, <1>2 DEF StepNames
  <1>6. \A i \in 1 .. Len(s) : i = 1 \/ i = 2 \/ i = 3 \/ i = 4  BY <1>4
  <1>7. Head(s) = s[1] /\ s # <<>>  OBVIOUS
  <1> HIDE DEF s
  <1> QED  BY <1>3, <1>4, <1>5, <1>6, <1>7 DEF Shape, HasSample

-----------------------------------------------------------------------------
(* Where the scheduler is.                                                 *)

Flow ==
    /\ walked => pc = "advance"
    /\ ~walked => refresh_paid = 0
    /\ pc = "boundary" => mode = "insn"
    /\ line # VBlankLine => done.nmi
    /\ pc # "start" => (done.irq_at < 0 => done.irq)
    /\ pc = "start" => line = 0 /\ hclock = 0 /\ line_start = 0 /\ nmitimen.mode = 0
    /\ Walking => Shape(todo) /\ k \in 1 .. Len(insn)
    /\ pc = "charge" => insn # <<>>

WalkStep == \/ WalkPassed \/ NoTransfer \/ SyncTransfer \/ Transfer \/ DmaUnit \/ DmaPending
            \/ TransferWait \/ CycleSample

(* A step of a cycle other than its end is taken off, others may come      *)
(* before the rest.                                                        *)
Plain == {s \in StepType : s.op \notin {"after", "transfer"}}

LEMMA WalkStepIs ==
    ASSUME Types, Flow, WalkStep
    PROVE  /\ Walking /\ todo \in Seq(StepType) /\ Shape(todo) /\ Head(todo).op # "after"
           /\ \/ todo' = <<>> \o Tail(todo)
              \/ \E p \in Plain : todo' = <<p>> \o Tail(todo)
              \/ \E p, q \in Plain : todo' = <<p, q>> \o Tail(todo)
              \/ \E p, q, r \in Plain : todo' = <<p, q, r>> \o Tail(todo)
              \/ todo' = <<Pass(Sync - WalkClock), Step("transfer")>> \o Tail(todo)
  <1>1. Walking /\ todo \in Seq(StepType) /\ Shape(todo)
    BY DEF WalkStep, WalkPassed, NoTransfer, SyncTransfer, Transfer, DmaUnit, DmaPending,
       TransferWait, CycleSample, At, Passing, Types, Flow
  <1>2. Head(todo) \in StepType  BY <1>1 DEF Shape
  <1>3. \A n \in Nat : Pass(n) \in Plain  BY StepIs DEF Plain
  <1>4. Step("wait") \in Plain /\ Step("dma_pending") \in Plain
    BY StepIs DEF StepNames, Plain
  <1>5. ASSUME NEW n \in Nat
        PROVE  [op |-> "dma", n |-> n, smp |-> 0] \in Plain
    BY StepIs DEF Plain
  <1>6. /\ pend.hdma_cost \in Nat /\ pend.dma_units \in Nat /\ InitCost \in Nat
        /\ line_start + w.t \in Int
    <2>1. pend \in PendType /\ w \in WalkType /\ line_start \in 0 .. Sync - 1  BY DEF Types
    <2>2. pend.hdma_cost \in Nat /\ pend.dma_units \in Nat  BY <2>1 DEF PendType
    <2>3. w.t \in Nat /\ line_start \in Int  BY <2>1, Constants DEF WalkType
    <2> QED  BY <2>2, <2>3, Constants
  <1>7. insn[k] \in Nat /\ insn[k] > 0 /\ count \in Nat  BY <1>1 DEF Types, Flow, Cycle
  <1>8. CASE WalkPassed \/ NoTransfer \/ CycleSample
    <2>1. todo' = <<>> \o Tail(todo) /\ Head(todo).op # "after"
      BY <1>8 DEF WalkPassed, NoTransfer, CycleSample, Then, Passing, At
    <2> QED  BY <1>1, <2>1
  <1>9. CASE SyncTransfer  BY <1>1, <1>9 DEF SyncTransfer, Then, At
  <1>10. CASE Transfer
    <2>2. Head(todo).op # "after"  BY <1>10 DEF Transfer, At
    <2> DEFINE d == [op |-> "dma", n |-> pend.dma_units, smp |-> 0]
    <2>3. d \in Plain  BY <1>5, <1>6
    <2>4. \/ todo' = <<Pass(pend.hdma_cost), Step("wait")>> \o Tail(todo)
          \/ todo' = <<Pass(InitCost), Step("wait")>> \o Tail(todo)
          \/ todo' = <<d, Step("wait")>> \o Tail(todo)
      BY <1>10 DEF Transfer, Then
    <2> HIDE DEF d
    <2> QED  BY <1>1, <1>3, <1>4, <1>6, <2>2, <2>3, <2>4
  <1>11. CASE DmaUnit
    <2> DEFINE n == Head(todo).n
               u == <<Pass(Sync), Step("dma_pending")>>
               v == [op |-> "dma", n |-> n - 1, smp |-> 0]
    <2>1. n \in Nat  BY <1>2 DEF StepType
    <2>2. Head(todo).op # "after"
          /\ todo' = (u \o IF n > 1 THEN <<v>> ELSE <<>>) \o Tail(todo)
      BY <1>11 DEF DmaUnit, Then, At
    <2>4. Pass(Sync) \in Plain  BY <1>3, Constants
    <2>5. CASE n > 1
      <3>1. v \in Plain  BY <1>5, <2>1, <2>5
      <3>2. ASSUME NEW x \in StepType, NEW y \in StepType, NEW z \in StepType
            PROVE  <<x, y>> \o <<z>> = <<x, y, z>>
        <4> DEFINE a == <<x, y>> \o <<z>>
                   b == <<x, y, z>>
        <4>1. a \in Seq(StepType) /\ b \in Seq(StepType) /\ Len(a) = 3 /\ Len(b) = 3  OBVIOUS
        <4>2. a[1] = b[1] /\ a[2] = b[2] /\ a[3] = b[3]  OBVIOUS
        <4> HIDE DEF a, b
        <4>3. \A i \in 1 .. 3 : a[i] = b[i]
          <5>1. \A i \in 1 .. 3 : i = 1 \/ i = 2 \/ i = 3  OBVIOUS
          <5> QED  BY <4>2, <5>1
        <4>4. a = b  BY <4>1, <4>3
        <4> QED  BY <4>4 DEF a, b
      <3>3. todo' = (u \o <<v>>) \o Tail(todo)  BY <2>2, <2>5
      <3> HIDE DEF v, n
      <3>4. todo' = <<Pass(Sync), Step("dma_pending"), v>> \o Tail(todo)  
        BY <1>4, <2>4, <3>1, <3>2, <3>3 DEF Plain
      <3> QED  BY <1>1, <1>4, <2>2, <2>4, <3>1, <3>4
    <2>6. CASE ~(n > 1)
      <3>1. \A x, y : <<x, y>> \o <<>> = <<x, y>>  OBVIOUS
      <3>2. todo' = (u \o <<>>) \o Tail(todo)  BY <2>2, <2>6
      <3>3. todo' = u \o Tail(todo)  BY <3>1, <3>2
      <3> QED  BY <1>1, <1>4, <2>2, <2>4, <3>3
    <2> QED  BY <2>5, <2>6
  <1>12. CASE DmaPending
    <2>1. Head(todo).op # "after"  BY <1>12 DEF DmaPending, At
    <2>2. \/ todo' = <<Pass(pend.hdma_cost)>> \o Tail(todo)
          \/ todo' = <<Pass(InitCost)>> \o Tail(todo)
          \/ todo' = <<>> \o Tail(todo)
      BY <1>12 DEF DmaPending, Then
    <2> QED  BY <1>1, <1>3, <1>6, <2>1, <2>2
  <1>13. CASE TransferWait
    <2>1. insn[k] - (count % insn[k]) \in Nat
      <3>1. count % insn[k] \in 0 .. insn[k] - 1  BY <1>7, Quotient
      <3> QED  BY <1>7, <3>1
    <2>2. Head(todo).op # "after"
          /\ todo' = <<Pass(insn[k] - (count % insn[k]))>> \o Tail(todo)
      BY <1>13 DEF TransferWait, At, Then
    <2> QED  BY <1>1, <1>3, <2>1, <2>2
  <1> QED  BY <1>1, <1>8, <1>9, <1>10, <1>11, <1>12, <1>13 DEF WalkStep

LEMMA SyncIs ==
    ASSUME Types
    PROVE  Sync - WalkClock \in Nat
  <1>1. line_start + w.t \in Int  BY DEF Types, WalkType
  <1>2. (line_start + w.t) % Sync \in 0 .. Sync - 1  BY <1>1, Constants, Quotient
  <1> QED  BY <1>2, Constants DEF WalkClock

LEMMA StepsTaken ==
    ASSUME Types, Flow, WalkStep
    PROVE  Walking /\ Kept(todo, todo')
  <1>1. Walking /\ todo \in Seq(StepType) /\ Shape(todo) /\ Head(todo).op # "after"
    BY WalkStepIs
  <1>2. \A p \in Plain : p \in StepType /\ p.op # "after"  BY DEF Plain
  <1>3. Pass(Sync - WalkClock) \in StepType /\ Pass(Sync - WalkClock).op # "after"
    BY SyncIs, StepIs
  <1>4. Step("transfer") \in StepType /\ Step("transfer").op # "after"
    BY StepIs DEF StepNames
  <1>5. CASE todo' = <<>> \o Tail(todo)  BY <1>1, <1>4, <1>5, ThenSome
  <1>6. CASE \E p \in Plain : todo' = <<p>> \o Tail(todo)
    BY <1>1, <1>2, <1>6, ThenSome
  <1>7. CASE \E p, q \in Plain : todo' = <<p, q>> \o Tail(todo)
    BY <1>1, <1>2, <1>7, ThenSome
  <1>8. CASE \E p, q, r \in Plain : todo' = <<p, q, r>> \o Tail(todo)
    BY <1>1, <1>2, <1>8, ThenSome
  <1>9. CASE todo' = <<Pass(Sync - WalkClock), Step("transfer")>> \o Tail(todo)
    BY <1>1, <1>3, <1>4, <1>9, ThenSome
  <1> QED  BY <1>1, <1>5, <1>6, <1>7, <1>8, <1>9, WalkStepIs

LEMMA ThenGrid ==
    ASSUME NEW s \in Seq(StepType), s # <<>>, Head(s).op # "pass", NEW c \in Int, OnGrid(s, c),
           NEW a \in Seq(StepType), NEW e \in Int, OnGrid(a, e)
    PROVE  OnGrid(a \o Tail(s), e)
  <1> DEFINE r == a \o Tail(s)
  <1>1. Len(s) \in Nat /\ Len(s) > 0 /\ Len(a) \in Nat /\ Head(s) = s[1]  OBVIOUS
  <1>2. r \in Seq(StepType) /\ Len(r) = Len(a) + Len(s) - 1
        /\ \A i \in 1 .. Len(r) : r[i] = IF i <= Len(a) THEN a[i] ELSE s[i - Len(a) + 1]
    BY <1>1, ThenIs
  <1> HIDE DEF r
  <1>3. ASSUME NEW i \in 1 .. Len(r), r[i].op = "transfer"
        PROVE  i <= Len(a) /\ a[i].op = "transfer"
    <2>1. CASE i <= Len(a)  BY <1>2, <1>3, <2>1
    <2>2. CASE i > Len(a)
      <3>1. i - Len(a) + 1 \in 1 .. Len(s) /\ i - Len(a) + 1 # 1  BY <1>1, <1>2, <2>2
      <3>2. s[i - Len(a) + 1].op = "transfer"  BY <1>1, <1>2, <1>3, <2>2
      <3> QED  BY <1>1, <3>1, <3>2 DEF OnGrid
    <2> QED  BY <1>1, <2>1, <2>2
  <1>4. \A i \in 1 .. Len(r) : i <= Len(a) => r[i] = a[i] /\ i \in 1 .. Len(a) /\ r[1] = a[1]
    BY <1>1, <1>2
  <1>5. OnGrid(r, e)  BY <1>3, <1>4 DEF OnGrid
  <1> QED  BY <1>5 DEF r

LEMMA PassedGrid ==
    ASSUME NEW s \in Seq(StepType), s # <<>>, NEW c \in Int, OnGrid(s, c),
           Head(s).op \in {"pass", "cycle"}
    PROVE  OnGrid(<<>> \o Tail(s), c + Head(s).n)
  <1> DEFINE r == <<>> \o Tail(s)
  <1>1. Len(s) \in Nat /\ Len(s) > 0 /\ Head(s) = s[1]  OBVIOUS
  <1>2. Len(r) = Len(s) - 1 /\ \A i \in 1 .. Len(r) : r[i] = s[i + 1]  OBVIOUS
  <1> HIDE DEF r
  <1>3. ASSUME NEW i \in 1 .. Len(r), r[i].op = "transfer"
        PROVE  i = 1 /\ (c + s[1].n) % Sync = 0
    <2>1. i + 1 \in 1 .. Len(s) /\ s[i + 1].op = "transfer"  BY <1>1, <1>2, <1>3
    <2> QED  BY <1>1, <2>1 DEF OnGrid
  <1> QED  BY <1>1, <1>3 DEF OnGrid, r

(* What the steps of a walk put in front has no transfer but the one after *)
(* the sync, which ends on the grid.                                       *)
LEMMA GridOf ==
    ASSUME NEW c \in Int, NEW p \in StepType, p.op # "transfer",
           NEW q \in StepType, q.op # "transfer", NEW r \in StepType, r.op # "transfer"
    PROVE  /\ OnGrid(<<>>, c) /\ OnGrid(<<p>>, c) /\ OnGrid(<<p, q>>, c)
           /\ OnGrid(<<p, q, r>>, c)
           /\ OnGrid(<<Pass(Sync - (c % Sync)), Step("transfer")>>, c)
  <1>1. OnGrid(<<>>, c) /\ OnGrid(<<p>>, c)  BY DEF OnGrid
  <1>2. OnGrid(<<p, q>>, c)
    <2>1. \A i \in 1 .. 2 : i = 1 \/ i = 2  OBVIOUS
    <2> QED  BY <2>1 DEF OnGrid
  <1>3. OnGrid(<<p, q, r>>, c)
    <2>1. \A i \in 1 .. 3 : i = 1 \/ i = 2 \/ i = 3  OBVIOUS
    <2> QED  BY <2>1 DEF OnGrid
  <1>4. OnGrid(<<Pass(Sync - (c % Sync)), Step("transfer")>>, c)
    <2> DEFINE m == c \div Sync
               x == c % Sync
               s == Pass(Sync - x)
               u == Step("transfer")
    <2>1. m \in Int /\ x \in 0 .. Sync - 1 /\ c = (Sync * m) + x  BY Constants, Quotient
    <2> HIDE DEF m, x
    <2>2. s.op = "pass" /\ s.n = Sync - x /\ u.op = "transfer"  BY DEF Pass, Step
    <2> HIDE DEF s, u
    <2>3. (c + s.n) % Sync = 0
      <3>1. Sync * (m + 1) = (Sync * m) + Sync  BY <2>1, Constants
      <3>2. c + s.n = (Sync * (m + 1)) + 0  BY <2>1, <2>2, <3>1, Constants
      <3> QED  BY <2>1, <3>2, Constants, Remainder
    <2>4. \A i \in 1 .. 2 : i = 1 \/ i = 2  OBVIOUS
    <2>5. OnGrid(<<s, u>>, c)  BY <2>2, <2>3, <2>4 DEF OnGrid
    <2> QED  BY <2>5 DEF s, u, x
  <1> QED  BY <1>1, <1>2, <1>3, <1>4

WalkClockNow == line_start + w.t

LEMMA GridTaken ==
    ASSUME Types, Flow, OnGrid(todo, WalkClockNow), WalkStep
    PROVE  OnGrid(todo', WalkClockNow')
  <1> DEFINE c == WalkClockNow
  <1>1. todo \in Seq(StepType) /\ todo # <<>> /\ Head(todo) \in StepType /\ c \in Int
    BY WalkStepIs DEF Shape, Types, WalkType, WalkClockNow
  <1>2. CASE WalkPassed
    <2>1. WalkClockNow' = c + Head(todo).n /\ todo' = <<>> \o Tail(todo)
          /\ Head(todo).op \in {"pass", "cycle"}
      <3>1. w' = [w EXCEPT !.t = @ + Head(todo).n] /\ line_start' = line_start
        BY <1>2 DEF WalkPassed, WalkUnchanged, clockVars
      <3>2. w'.t = w.t + Head(todo).n  BY <3>1 DEF Types, WalkType
      <3>3. Head(todo).n \in Int /\ w.t \in Int /\ line_start \in Int
        <4>1. w \in WalkType /\ line_start \in Int  BY DEF Types
        <4> QED  BY <1>1, <4>1 DEF StepType, WalkType
      <3> QED  BY <1>2, <3>1, <3>2, <3>3 DEF WalkPassed, Passing, Then, WalkClockNow
    <2> QED  BY <1>1, <2>1, PassedGrid
  <1>3. CASE ~WalkPassed
    <2>1. c' = c /\ Head(todo).op # "pass"
      BY <1>3 DEF WalkStep, NoTransfer, SyncTransfer, Transfer, DmaUnit, DmaPending, TransferWait,
         CycleSample, At, WalkUnchanged, clockVars, WalkClockNow
    <2>2. \A p \in Plain : p \in StepType /\ p.op # "transfer"  BY DEF Plain
    <2>3. Pass(Sync - (c % Sync)) \in StepType /\ Step("transfer") \in StepType
          /\ WalkClock = c % Sync
      BY SyncIs, StepIs DEF StepNames, WalkClock, WalkClockNow
    <2>4. Step("wait") \in Plain  BY StepIs DEF StepNames, Plain
    <2> HIDE DEF c
    <2>5. CASE todo' = <<>> \o Tail(todo)
      <3>1. OnGrid(<<>>, c)  BY <1>1, <2>2, <2>4, GridOf
      <3>2. <<>> \in Seq(StepType)  BY <2>2
      <3> QED  BY <1>1, <2>1, <2>5, <3>1, <3>2, ThenGrid DEF c
    <2>6. CASE \E p \in Plain : todo' = <<p>> \o Tail(todo)
      <3>1. PICK p \in Plain : todo' = <<p>> \o Tail(todo)  BY <2>6
      <3>2. OnGrid(<<p>>, c)  BY <1>1, <2>2, <2>4, GridOf
      <3>3. <<p>> \in Seq(StepType)  BY <2>2
      <3> QED  BY <1>1, <2>1, <3>1, <3>2, <3>3, ThenGrid DEF c
    <2>7. CASE \E p, q \in Plain : todo' = <<p, q>> \o Tail(todo)
      <3>1. PICK p, q \in Plain : todo' = <<p, q>> \o Tail(todo)  BY <2>7
      <3>2. OnGrid(<<p, q>>, c)  BY <1>1, <2>2, <2>4, GridOf
      <3>3. <<p, q>> \in Seq(StepType)  BY <2>2
      <3> QED  BY <1>1, <2>1, <3>1, <3>2, <3>3, ThenGrid DEF c
    <2>8. CASE \E p, q, r \in Plain : todo' = <<p, q, r>> \o Tail(todo)
      <3>1. PICK p, q, r \in Plain : todo' = <<p, q, r>> \o Tail(todo)  BY <2>8
      <3>2. OnGrid(<<p, q, r>>, c)  BY <1>1, <2>2, <2>4, GridOf
      <3>3. <<p, q, r>> \in Seq(StepType)  BY <2>2
      <3> QED  BY <1>1, <2>1, <3>1, <3>2, <3>3, ThenGrid DEF c
    <2>9. CASE todo' = <<Pass(Sync - WalkClock), Step("transfer")>> \o Tail(todo)
      <3> DEFINE a == <<Pass(Sync - (c % Sync)), Step("transfer")>>
      <3>1. OnGrid(a, c)  BY <1>1, <2>2, <2>4, GridOf
      <3>2. a \in Seq(StepType)  BY <2>3
      <3>3. todo' = a \o Tail(todo)  BY <2>3, <2>9
      <3> HIDE DEF a
      <3> QED  BY <1>1, <2>1, <3>1, <3>2, <3>3, ThenGrid DEF c
    <2> QED  BY <2>5, <2>6, <2>7, <2>8, <2>9, WalkStepIs
  <1> QED  BY <1>2, <1>3

-----------------------------------------------------------------------------
(* Types.                                                                  *)

(* What no step of a walk changes.                                         *)
Fixed ==
    /\ line \in 0 .. Lines - 1 /\ hclock \in Nat /\ line_start \in 0 .. Sync - 1
    /\ field \in 0 .. 1 /\ done \in DoneType /\ refresh_paid \in Nat /\ saved \in PendType
    /\ nmitimen \in [nmi : BOOLEAN, mode : 0 .. 3] /\ htime \in Nat /\ vtime \in Nat
    /\ hdmaen \in BOOLEAN /\ hdma_cost \in Nat /\ timeup \in BOOLEAN
    /\ take_irq \in BOOLEAN /\ skip_check \in BOOLEAN /\ walked \in BOOLEAN
    /\ pc \in {"start", "boundary", "charge", "walk", "access", "advance", "idle"}
    /\ insn \in Seq(Cycle) /\ k \in Nat

LEMMA FixedKept ==
    ASSUME Types, WalkUnchanged
    PROVE  Fixed'
  BY DEF Types, Fixed, WalkUnchanged, clockVars, regVars, flagVars

LEMMA WalkWith ==
    ASSUME NEW v \in WalkType, NEW d \in DoneType, NEW n \in Nat,
           NEW l \in 0 .. Lines - 1, NEW f \in 0 .. 1
    PROVE  /\ [v EXCEPT !.done = d, !.refreshes = n] \in WalkType
           /\ [v EXCEPT !.ls = n, !.line = l, !.field = f, !.done = d] \in WalkType
           /\ [v EXCEPT !.t = n] \in WalkType
  BY DEF WalkType

EventStep == WalkRefresh \/ WalkHdma \/ WalkHdmaInit \/ WalkNmi \/ WalkIrq \/ WalkEndLine

LEMMA EventTypes ==
    ASSUME Types, Flow, EventStep
    PROVE  Types'
  <1>1. WalkUnchanged /\ count' = count
    BY DEF EventStep, WalkRefresh, WalkHdma, WalkHdmaInit, WalkNmi, WalkIrq, WalkEndLine,
       EventUnchanged
  <1>2. Fixed' /\ count' \in Nat  BY <1>1, FixedKept DEF Types
  <1>3. pend \in PendType /\ w \in WalkType /\ todo \in Seq(StepType) /\ hdma_cost \in Nat
        /\ hdmaen \in BOOLEAN /\ w.done \in DoneType
    BY DEF Types, WalkType
  <1>4. pend' \in PendType
    <2>1. CASE WalkHdma  BY <1>3, <2>1 DEF WalkHdma, PendType
    <2>2. CASE WalkHdmaInit  BY <1>3, <2>2 DEF WalkHdmaInit, PendType
    <2>3. CASE WalkNmi  BY <1>3, <2>3 DEF WalkNmi, PendType
    <2>4. CASE WalkIrq  BY <1>3, <2>4 DEF WalkIrq, LineUp, PendType
    <2>5. CASE WalkRefresh \/ WalkEndLine  BY <1>3, <2>5 DEF WalkRefresh, WalkEndLine
    <2> QED  BY <2>1, <2>2, <2>3, <2>4, <2>5 DEF EventStep
  <1>5. w' \in WalkType
    <2>1. CASE WalkRefresh
      <3> DEFINE d == [w.done EXCEPT !.refresh = TRUE]
      <3>1. d \in DoneType  BY <1>3 DEF DoneType
      <3>2. w' = [w EXCEPT !.done = d, !.refreshes = @ + 1]  BY <2>1 DEF WalkRefresh
      <3>3. w.refreshes + 1 \in Nat /\ w.line \in 0 .. Lines - 1 /\ w.field \in 0 .. 1
        BY <1>3 DEF WalkType
      <3> HIDE DEF d
      <3> QED  BY <1>3, <3>1, <3>2, <3>3, WalkWith
    <2>2. CASE WalkHdma  BY <1>3, <2>2 DEF WalkHdma, WalkType, DoneType
    <2>3. CASE WalkHdmaInit  BY <1>3, <2>3 DEF WalkHdmaInit, WalkType, DoneType
    <2>4. CASE WalkNmi  BY <1>3, <2>4 DEF WalkNmi, WalkType, DoneType
    <2>5. CASE WalkIrq  BY <1>3, <2>5 DEF WalkIrq, WalkType, DoneType
    <2>6. CASE WalkEndLine
      <3>1. LineAhead(NextLine(w.line)) \in DoneType  BY LineAheadIs
      <3>2. NextLine(w.line) \in 0 .. Lines - 1  BY <1>3, NextLineIs DEF WalkType
      <3>3. LengthOf(w.line, w.field) \in Nat  BY LengthIs
      <3> DEFINE l == NextLine(w.line)
                 f == IF l = 0 THEN 1 - w.field ELSE w.field
                 d == LineAhead(l)
                 n == LengthOf(w.line, w.field)
      <3>4. w' = [w EXCEPT !.ls = @ + n, !.line = l, !.field = f, !.done = d]
        BY <2>6 DEF WalkEndLine
      <3>5. f \in 0 .. 1  BY <1>3 DEF WalkType
      <3> HIDE DEF l, f, d, n
      <3>6. l \in 0 .. Lines - 1 /\ d \in DoneType /\ n \in Nat  BY <3>1, <3>2, <3>3 DEF l, d, n
      <3>7. w.ls + n \in Nat  BY <1>3, <3>6 DEF WalkType
      <3> QED  BY <1>3, <3>4, <3>5, <3>6, <3>7, WalkWith
    <2> QED  BY <2>1, <2>2, <2>3, <2>4, <2>5, <2>6 DEF EventStep
  <1>6. todo' \in Seq(StepType)
    <2>1. CASE WalkRefresh
      <3>1. Len(todo) > 0 /\ todo[1] \in StepType  BY <2>1 DEF WalkRefresh, Meets, Passing,
              Flow, Shape, Types
      <3> DEFINE e == w.ls + NextEvent[1]
                 d == [todo[1] EXCEPT !.n = @ + RefreshClocks,
                        !.smp = IF e <= w.t + @ THEN @ + RefreshClocks ELSE @]
      <3>2. todo' = [todo EXCEPT ![1] = d]  BY <2>1, <3>1 DEF WalkRefresh
      <3> HIDE DEF e
      <3>3. d \in StepType
        <4> DEFINE m == todo[1].n + RefreshClocks
                   x == IF e <= w.t + todo[1].smp THEN todo[1].smp + RefreshClocks
                                                  ELSE todo[1].smp
        <4>1. m \in Nat /\ x \in Int  BY <3>1, Constants DEF StepType
        <4>2. d = [todo[1] EXCEPT !.n = m, !.smp = x]  OBVIOUS
        <4> HIDE DEF m, x
        <4> QED  BY <3>1, <4>1, <4>2 DEF StepType
      <3> HIDE DEF d
      <3> QED  BY <1>3, <3>1, <3>2, <3>3
    <2>2. CASE ~WalkRefresh
      BY <1>3, <2>2 DEF EventStep, WalkHdma, WalkHdmaInit, WalkNmi, WalkIrq, WalkEndLine
    <2> QED  BY <2>1, <2>2
  <1> QED  BY <1>2, <1>4, <1>5, <1>6 DEF Types, Fixed

LEMMA StepTypes ==
    ASSUME Types, Flow, WalkStep
    PROVE  Types'
  <1>1. WalkUnchanged
    BY DEF WalkStep, WalkPassed, NoTransfer, SyncTransfer, Transfer, DmaUnit, DmaPending,
       TransferWait, CycleSample
  <1>2. Fixed'  BY <1>1, FixedKept
  <1>3. pend \in PendType /\ w \in WalkType /\ count \in Nat  BY DEF Types
  <1>4. todo' \in Seq(StepType)  BY StepsTaken DEF Kept
  <1>5. pend' \in PendType
    <2>1. CASE WalkPassed \/ SyncTransfer \/ DmaUnit \/ TransferWait
      BY <1>3, <2>1 DEF WalkPassed, SyncTransfer, DmaUnit, TransferWait
    <2>2. CASE NoTransfer  BY <1>3, <2>2 DEF NoTransfer, PendType
    <2>3. CASE Transfer  BY <1>3, <2>3 DEF Transfer, PendType
    <2>4. CASE DmaPending  BY <1>3, <2>4 DEF DmaPending, PendType
    <2>5. CASE CycleSample
      <3>1. PICK n \in Nat, b \in BOOLEAN, c \in BOOLEAN :
                pend' = [pend EXCEPT !.nmi_count = n, !.need_nmi = b, !.prev_irq = c]
        <4> DEFINE i == IF mode # "insn" THEN cpu.i ELSE insn_i
                   seen == pend.nmi_count = 1 /\ ~lock
                   n == CountDown(pend.nmi_count, lock)
                   b == pend.need_nmi \/ seen
                   c == ~lock /\ pend.irq_line /\ ~i
        <4>1. n \in Nat  BY <1>3 DEF PendType, CountDown
        <4>2. b \in BOOLEAN /\ c \in BOOLEAN  BY Zenon
        <4>3. pend' = [pend EXCEPT !.nmi_count = n, !.need_nmi = b, !.prev_irq = c]
          BY <2>5 DEF CycleSample
        <4> HIDE DEF n, b, c
        <4> QED  BY <4>1, <4>2, <4>3
      <3> QED  BY <1>3, <3>1 DEF PendType
    <2> QED  BY <2>1, <2>2, <2>3, <2>4, <2>5 DEF WalkStep
  <1>6. w' \in WalkType
    <2>1. CASE WalkPassed
      <3>1. Head(todo) \in StepType  BY WalkStepIs DEF Shape
      <3>2. Head(todo).n \in Nat  BY <3>1 DEF StepType
      <3> QED  BY <1>3, <2>1, <3>2 DEF WalkPassed, WalkType
    <2>2. CASE ~WalkPassed
      BY <1>3, <2>2 DEF WalkStep, NoTransfer, SyncTransfer, Transfer, DmaUnit, DmaPending,
         TransferWait, CycleSample
    <2> QED  BY <2>1, <2>2
  <1>7. count' \in Nat
    <2>1. CASE SyncTransfer  BY <2>1, SyncIs DEF SyncTransfer
    <2>2. CASE Transfer
      <3>1. pend.hdma_cost \in Nat /\ pend.dma_units \in Nat /\ Sync * pend.dma_units \in Nat
        BY <1>3, Constants DEF PendType
      <3> QED  BY <1>3, <2>2, <3>1, Constants DEF Transfer
    <2>3. CASE DmaPending
      <3>1. pend.hdma_cost \in Nat  BY <1>3 DEF PendType
      <3>2. \/ count' = count + pend.hdma_cost \/ count' = count + InitCost \/ count' = count
        BY <2>3 DEF DmaPending
      <3> QED  BY <1>3, <3>1, <3>2, Constants
    <2>4. CASE WalkPassed \/ NoTransfer \/ DmaUnit \/ TransferWait \/ CycleSample
      BY <1>3, <2>4 DEF WalkPassed, NoTransfer, DmaUnit, TransferWait, CycleSample
    <2> QED  BY <2>1, <2>2, <2>3, <2>4 DEF WalkStep
  <1> QED  BY <1>2, <1>4, <1>5, <1>6, <1>7 DEF Types, Fixed

LEMMA AfterTypes ==
    ASSUME Types, Flow, AfterCycle \/ WalkDone
    PROVE  Types'
  <1>1. pend \in PendType /\ insn \in Seq(Cycle) /\ k \in 1 .. Len(insn)
    BY DEF Types, Flow, AfterCycle, WalkDone, At
  <1>2. AfterAccess(pend) \in PendType
    <2> DEFINE a == pend.dma \/ pend.dma_after = k
               b == pend.delay \/ pend.dma_after = k
               c == IF pend.dma_after = k THEN 0 ELSE pend.dma_after
               d == IF pend.nmi_after = k THEN 2 ELSE pend.nmi_count
               e == IF pend.nmi_after = k THEN 0 ELSE pend.nmi_after
    <2>1. a \in BOOLEAN /\ b \in BOOLEAN /\ c \in Nat /\ d \in Nat /\ e \in Nat
      BY <1>1 DEF PendType
    <2>2. AfterAccess(pend) = [pend EXCEPT !.dma = a, !.delay = b, !.dma_after = c,
                                           !.nmi_count = d, !.nmi_after = e]
      BY DEF AfterAccess
    <2> HIDE DEF a, b, c, d, e
    <2> QED  BY <1>1, <2>1, <2>2 DEF PendType
  <1>3. CASE AfterCycle
    <2>1. CycleSteps(insn[k + 1]) \in Seq(StepType)
      BY <1>1, <1>3, CycleStepsIs DEF AfterCycle
    <2> QED
      BY <1>1, <1>2, <1>3, <2>1 DEF AfterCycle, Types, clockVars, regVars, flagVars, execVars
  <1>4. CASE WalkDone
    <2>1. pend' \in PendType /\ pend.prev_irq \in BOOLEAN
      BY <1>1, <1>2, <1>4 DEF WalkDone, PendType
    <2>2. hclock' \in Nat /\ refresh_paid' \in Nat
      <3>1. w \in WalkType /\ refresh_paid \in Nat  BY DEF Types
      <3>2. w.t \in Nat /\ w.refreshes \in Nat  BY <3>1 DEF WalkType
      <3>3. hclock' = w.t /\ refresh_paid' = refresh_paid + w.refreshes
        BY <1>4 DEF WalkDone, Committed
      <3> QED  BY <3>1, <3>2, <3>3
    <2> QED  BY <1>4, <2>1, <2>2 DEF WalkDone, Types, regVars, flagVars
  <1> QED  BY <1>3, <1>4

(* The clock an advance stands at does not fall below its line's start.    *)
LEMMA AdvanceTypes ==
    ASSUME Types, Flow, AdvanceNext
    PROVE  Types'
  <1>1. done \in DoneType /\ pend \in PendType /\ hclock \in Nat /\ refresh_paid \in Nat
    BY DEF Types
  <1>2. CASE AdvanceRdnmi
    BY <1>2 DEF AdvanceRdnmi, AdvanceUnchanged, Types, clockVars, execVars, walkVars
  <1>3. CASE AdvanceNmi
    <2>1. done' \in DoneType /\ pend' \in PendType
      BY <1>1, <1>3 DEF AdvanceNmi, DoneType, PendType
    <2> QED
      BY <1>3, <2>1 DEF AdvanceNmi, AdvanceUnchanged, Types, clockVars, execVars, walkVars, flagVars
  <1>4. CASE AdvanceRefresh
    <2>1. done' \in DoneType  BY <1>1, <1>4 DEF AdvanceRefresh, DoneType
    <2>2. hclock' \in Nat /\ refresh_paid' \in Nat
      <3>1. \/ refresh_paid > 0 /\ refresh_paid' = refresh_paid - 1 /\ hclock' = hclock
            \/ hclock' = hclock + RefreshClocks /\ refresh_paid' = refresh_paid
        BY <1>4 DEF AdvanceRefresh, RefreshPaid
      <3> QED  BY <1>1, <3>1, Constants
    <2> QED
      BY <1>4, <2>1, <2>2 DEF AdvanceRefresh, AdvanceUnchanged, Types, execVars, walkVars, flagVars
  <1>5. CASE AdvanceIrq
    <2>1. done' \in DoneType /\ pend' \in PendType
      BY <1>1, <1>5 DEF AdvanceIrq, DoneType, PendType
    <2> QED
      BY <1>5, <2>1 DEF AdvanceIrq, AdvanceUnchanged, Types, clockVars, execVars, walkVars
  <1>6. CASE AdvanceHdma
    <2>1. done' \in DoneType /\ hdma_cost' \in Nat
      BY <1>1, <1>6, Inputs DEF AdvanceHdma, DoneType, Types
    <2> QED
      BY <1>6, <2>1 DEF AdvanceHdma, AdvanceUnchanged, Types, clockVars, execVars, walkVars, flagVars
  <1>7. CASE AdvanceEndLine
    <2>1. LengthOf(line, field) \in Nat /\ hclock >= LengthOf(line, field)
      BY <1>7, LengthIs DEF AdvanceEndLine, Advancing, AdvanceCase
    <2>2. hclock' \in Nat  BY <1>1, <1>7, <2>1 DEF AdvanceEndLine
    <2>3. done' \in DoneType /\ line' \in 0 .. Lines - 1 /\ field' \in 0 .. 1
      BY <1>7, BeginLineIs, NextLineIs DEF AdvanceEndLine, Types
    <2>4. line_start' \in 0 .. Sync - 1
      <3>1. line_start + LengthOf(line, field) \in Int  BY <2>1 DEF Types
      <3> QED  BY <1>7, <3>1, Constants, Quotient DEF AdvanceEndLine
    <2>5. hdma_cost' \in Nat  BY <1>7, Inputs DEF AdvanceEndLine, Types
    <2> QED
      BY <1>7, <2>2, <2>3, <2>4, <2>5 DEF AdvanceEndLine, AdvanceUnchanged, Types, execVars, walkVars
  <1>8. CASE AdvanceDone
    <2>1. done' \in DoneType
      <3>1. w.done \in DoneType  BY DEF Types, WalkType
      <3> QED  BY <1>1, <1>8, <3>1 DEF AdvanceDone, DoneType
    <2>2. take_irq' \in BOOLEAN  BY <1>1, <1>8 DEF AdvanceDone, PendType, Types
    <2>3. insn' \in Seq(Cycle) /\ k' \in Nat /\ todo' \in Seq(StepType) /\ count' \in Nat
          /\ saved' \in PendType /\ w' \in WalkType
      BY <1>8, NoneAreTyped DEF AdvanceDone, ClearWalk
    <2> QED
      BY <1>8, <2>1, <2>2, <2>3 DEF AdvanceDone, Types, clockVars, regVars, flagVars
  <1>9. CASE AdvanceReset
    <2>1. insn' \in Seq(Cycle) /\ k' \in Nat /\ todo' \in Seq(StepType) /\ count' \in Nat
          /\ saved' \in PendType /\ w' \in WalkType /\ pend' \in PendType
      BY <1>9, NoneAreTyped DEF AdvanceReset, ClearWalk
    <2>2. done' \in DoneType  BY <1>1, <1>9 DEF AdvanceReset, DoneType
    <2>3. 0 \in 0 .. Lines - 1 /\ 0 \in 0 .. Sync - 1 /\ 0 \in 0 .. 1 /\ 0 \in Nat
      BY Constants
    <2>4. nmitimen' \in [nmi : BOOLEAN, mode : 0 .. 3]  BY <1>9 DEF AdvanceReset
    <2> QED  BY <1>9, <2>1, <2>2, <2>3, <2>4 DEF AdvanceReset, Types, PaidAfterReset
  <1> QED
    BY <1>2, <1>3, <1>4, <1>5, <1>6, <1>7, <1>8, <1>9 DEF AdvanceNext

(* The actions that start an instruction or an interrupt entry.            *)
Started ==
    \/ Interrupt
    \/ \E c \in Insns : \/ Nop(c) \/ SetI(c) \/ Rti(c) \/ WaiInsn(c) \/ NmitimenWrite(c)
                        \/ TimerWrite(c) \/ TimeupRead(c) \/ MdmaenWrite(c) \/ HdmaenWrite(c)

(* What they do to the clock's side of the state: nothing but the          *)
(* instruction's cycles, the registers and what is pending.                *)
LEMMA StartedIs ==
    ASSUME Types, Flow, Started
    PROVE  /\ pc = "boundary" /\ pc' = "charge"
           /\ UNCHANGED <<clockVars, done, refresh_paid, mode, walked, k, todo, count, w, saved>>
           /\ insn' \in Seq(Cycle) /\ insn' # <<>>
  <1>1. CASE Interrupt
    BY <1>1, Inputs DEF Interrupt, BoundaryUnchanged
  <1>2. ASSUME NEW c \in Insns, NEW o, Execute(o, c)
        PROVE  /\ pc = "boundary" /\ pc' = "charge" /\ insn' = c
               /\ UNCHANGED <<clockVars, done, refresh_paid, mode, walked, k, todo, count, w, saved>>
    BY <1>2 DEF Execute, Begin, BoundaryUnchanged
  <1>3. ASSUME NEW c \in Insns,
               \/ Nop(c) \/ SetI(c) \/ Rti(c) \/ WaiInsn(c) \/ NmitimenWrite(c)
               \/ TimerWrite(c) \/ TimeupRead(c) \/ MdmaenWrite(c) \/ HdmaenWrite(c)
        PROVE  \E o : Execute(o, c)
    BY <1>3 DEF Nop, SetI, Rti, WaiInsn, NmitimenWrite, TimerWrite, TimeupRead, MdmaenWrite,
       HdmaenWrite
  <1>4. ASSUME NEW c \in Insns, NEW o, Execute(o, c)
        PROVE  insn' \in Seq(Cycle) /\ insn' # <<>>
    BY <1>2, <1>4, Inputs
  <1> QED  BY <1>1, <1>2, <1>3, <1>4 DEF Started

LEMMA StartedTypes ==
    ASSUME Types, Flow, Started
    PROVE  Types'
  <1>1. /\ pc' = "charge" /\ insn' \in Seq(Cycle)
        /\ UNCHANGED <<clockVars, done, refresh_paid, mode, walked, k, todo, count, w, saved>>
    BY StartedIs
  <1> SUFFICES /\ pend' \in PendType /\ nmitimen' \in [nmi : BOOLEAN, mode : 0 .. 3]
               /\ htime' \in Nat /\ vtime' \in Nat /\ hdmaen' \in BOOLEAN /\ hdma_cost' \in Nat
               /\ timeup' \in BOOLEAN /\ take_irq' \in BOOLEAN /\ skip_check' \in BOOLEAN
    BY <1>1 DEF Types, clockVars
  <1>2. /\ pend \in PendType /\ nmitimen \in [nmi : BOOLEAN, mode : 0 .. 3]
        /\ htime \in Nat /\ vtime \in Nat /\ hdmaen \in BOOLEAN /\ hdma_cost \in Nat
        /\ timeup \in BOOLEAN /\ take_irq \in BOOLEAN /\ skip_check \in BOOLEAN
    BY DEF Types
  <1>3. \A c \in Insns : Len(c) \in Nat  BY Inputs
  <1>4. CASE Interrupt  BY <1>2, <1>4 DEF Interrupt, PendType, regVars, flagVars
  <1>5. ASSUME NEW c \in Insns, Nop(c) \/ SetI(c) \/ Rti(c) \/ WaiInsn(c)
        PROVE  UNCHANGED <<pend, regVars, timeup, take_irq>> /\ skip_check' = FALSE
    BY <1>5 DEF Nop, SetI, Rti, WaiInsn, Execute, Begin, flagVars
  <1>6. ASSUME NEW c \in Insns, NmitimenWrite(c)
        PROVE  /\ pend' \in PendType /\ nmitimen' \in [nmi : BOOLEAN, mode : 0 .. 3]
               /\ timeup' \in BOOLEAN /\ UNCHANGED <<htime, vtime, hdmaen, hdma_cost, take_irq>>
               /\ skip_check' = FALSE
    <2>1. PICK v \in NmitimenValues :
            /\ nmitimen' = v
            /\ pend' = [pend EXCEPT
                          !.nmi_after = IF ~nmitimen.nmi /\ v.nmi /\ rdnmi THEN Len(c) ELSE @,
                          !.irq_line = @ /\ v.mode # 0]
            /\ timeup' = (timeup /\ v.mode # 0)
            /\ UNCHANGED <<htime, vtime, hdmaen, hdma_cost>>
      BY <1>6 DEF NmitimenWrite
    <2> DEFINE n == IF ~nmitimen.nmi /\ v.nmi /\ rdnmi THEN Len(c) ELSE pend.nmi_after
               b == pend.irq_line /\ v.mode # 0
               t == timeup /\ v.mode # 0
    <2>2. n \in Nat  BY <1>2, <1>3 DEF PendType
    <2>3. b \in BOOLEAN /\ t \in BOOLEAN  BY Zenon
    <2>4. pend' = [pend EXCEPT !.nmi_after = n, !.irq_line = b] /\ timeup' = t  BY <2>1
    <2> HIDE DEF n, b, t
    <2>5. pend' \in PendType  BY <1>2, <2>2, <2>3, <2>4 DEF PendType
    <2>6. take_irq' = take_irq /\ skip_check' = FALSE
      BY <1>6 DEF NmitimenWrite, Execute, Begin
    <2> QED  BY <2>1, <2>3, <2>4, <2>5, <2>6, Inputs
  <1>7. ASSUME NEW c \in Insns, TimerWrite(c)
        PROVE  /\ htime' \in Nat /\ vtime' \in Nat /\ skip_check' = FALSE
               /\ UNCHANGED <<pend, nmitimen, hdmaen, hdma_cost, timeup, take_irq>>
    BY <1>2, <1>7, Inputs DEF TimerWrite, Execute, Begin, flagVars
  <1>8. ASSUME NEW c \in Insns, TimeupRead(c)
        PROVE  /\ pend' \in PendType /\ timeup' = FALSE /\ skip_check' = FALSE
               /\ UNCHANGED <<regVars, take_irq>>
    BY <1>2, <1>8 DEF TimeupRead, IrqLineRead, Execute, Begin, PendType
  <1>9. ASSUME NEW c \in Insns, MdmaenWrite(c)
        PROVE  pend' \in PendType /\ skip_check' = FALSE /\ UNCHANGED <<regVars, timeup, take_irq>>
    BY <1>2, <1>3, <1>9, Inputs DEF MdmaenWrite, Execute, Begin, PendType, flagVars
  <1>10. ASSUME NEW c \in Insns, HdmaenWrite(c)
         PROVE  /\ hdmaen' \in BOOLEAN /\ hdma_cost' \in Nat /\ skip_check' = FALSE
                /\ UNCHANGED <<pend, nmitimen, htime, vtime, timeup, take_irq>>
    BY <1>2, <1>10, Inputs DEF HdmaenWrite, Execute, Begin, flagVars
  <1> QED
    BY <1>2, <1>4, <1>5, <1>6, <1>7, <1>8, <1>9, <1>10 DEF Started, regVars

(* The next event after a committed clock that has caught up is ahead.     *)
WaiEvents == UNION {
    {LengthOf(line, field)},
    IF done.refresh THEN {} ELSE {RefreshClock(line_start)},
    IF ~done.hdma /\ line < VBlankLine THEN {HdmaClock} ELSE {},
    IF line = 0 /\ ~done.init THEN {InitClock(line_start)} ELSE {},
    IF done.nmi THEN {} ELSE {NmiAt},
    IF ~done.irq /\ done.irq_at >= 0 THEN {done.irq_at} ELSE {}}

LEMMA WaiNextIs ==
    ASSUME Types
    PROVE  /\ WaiNext \in Nat
           /\ WaiNext <= LengthOf(line, field)
           /\ ~done.refresh => WaiNext <= RefreshClock(line_start)
           /\ ~done.nmi => WaiNext <= NmiAt
           /\ ~done.irq /\ done.irq_at >= 0 => WaiNext <= done.irq_at
  <1>1. WaiEvents \subseteq Nat
    <2>1. line_start \in Int /\ done.irq_at \in Int  BY DEF Types, DoneType
    <2> QED  BY <2>1, LengthIs, RefreshIs, Constants DEF WaiEvents
  <1>2. /\ LengthOf(line, field) \in WaiEvents
        /\ ~done.refresh => RefreshClock(line_start) \in WaiEvents
        /\ ~done.nmi => NmiAt \in WaiEvents
        /\ ~done.irq /\ done.irq_at >= 0 => done.irq_at \in WaiEvents
    BY DEF WaiEvents
  <1>3. \E x \in WaiEvents : \A y \in WaiEvents : x <= y  BY <1>1, <1>2, Least
  <1>4. WaiNext \in WaiEvents /\ \A y \in WaiEvents : WaiNext <= y
    BY <1>3 DEF WaiNext, WaiEvents, SetMin
  <1> QED  BY <1>1, <1>2, <1>4

LEMMA SkippedIs ==
    ASSUME NEW a \in Nat, a > 2 * IdleClocks
    PROVE  /\ IdleClocks * ((a \div IdleClocks) - 1) \in Nat
           /\ IdleClocks * ((a \div IdleClocks) - 1) < a
  <1> DEFINE q == a \div IdleClocks
             r == a % IdleClocks
  <1>1. q \in Int /\ r \in 0 .. IdleClocks - 1 /\ a = (IdleClocks * q) + r
    BY Constants, Quotient
  <1> HIDE DEF q, r
  <1>2. IdleClocks * (q - 1) = (IdleClocks * q) - IdleClocks  BY <1>1, Constants
  <1>3. q >= 1
    <2>1. q <= 0 => IdleClocks * q <= 0  BY <1>1, Constants
    <2> QED  BY <1>1, <2>1, Constants
  <1>4. IdleClocks * (q - 1) \in Nat  BY <1>1, <1>3, Constants
  <1>5. IdleClocks * q \in Int  BY <1>1, Constants
  <1>6. IdleClocks * (q - 1) < a  BY <1>1, <1>2, <1>5, Constants
  <1> QED  BY <1>4, <1>6 DEF q

(* A run of skipped idle cycles ends before the next event.                *)
LEMMA WaiSkips ==
    ASSUME Types, WaiCycles
    PROVE  hclock' \in Nat /\ (hclock' = hclock \/ hclock' < WaiNext)
           /\ (pc' = "advance" => hclock' < WaiNext) /\ pc' \in {"advance", "idle"}
  <1>1. hclock \in Nat /\ WaiNext \in Nat  BY WaiNextIs DEF Types
  <1>2. CASE WaiQuiet /\ WaiNext > hclock + 2 * IdleClocks
    <2> DEFINE a == WaiNext - hclock
               n == IdleClocks * ((a \div IdleClocks) - 1)
    <2>1. a \in Nat /\ a > 2 * IdleClocks  BY <1>1, <1>2, Constants
    <2>2. n \in Nat /\ n < a  BY <2>1, SkippedIs
    <2>3. hclock' = hclock + n /\ pc' = "advance"  BY <1>2 DEF WaiCycles
    <2> HIDE DEF n
    <2> QED  BY <1>1, <2>2, <2>3
  <1>3. CASE ~(WaiQuiet /\ WaiNext > hclock + 2 * IdleClocks)
    BY <1>1, <1>3 DEF WaiCycles
  <1> QED  BY <1>2, <1>3

LEMMA StartWalkIs ==
    ASSUME Types, NEW c \in Seq(Cycle), c # <<>>, StartWalk(c)
    PROVE  /\ insn' \in Seq(Cycle) /\ k' = 1 /\ k' \in 1 .. Len(insn')
           /\ todo' \in Seq(StepType) /\ Shape(todo') /\ HasSample(todo')
           /\ \A i \in 1 .. Len(todo') : todo'[i].op # "transfer"
           /\ Head(todo').op = "pending"
           /\ w' = WalkInit /\ w' \in WalkType /\ count' \in Nat
  <1>1. c[1] \in Cycle /\ Len(c) \in Nat /\ Len(c) >= 1  OBVIOUS
  <1>2. insn' = c /\ k' = 1 /\ todo' = CycleSteps(c[1]) /\ w' = WalkInit /\ count' = 0
    BY DEF StartWalk
  <1>3. k' \in 1 .. Len(insn')  BY <1>1, <1>2
  <1>4. /\ CycleSteps(c[1]) \in Seq(StepType) /\ Shape(CycleSteps(c[1]))
        /\ HasSample(CycleSteps(c[1])) /\ Head(CycleSteps(c[1])).op = "pending"
        /\ \A i \in 1 .. Len(CycleSteps(c[1])) : CycleSteps(c[1])[i].op # "transfer"
    BY <1>1, CycleStepsIs
  <1>5. WalkInit \in WalkType  BY WalkInitIs
  <1> DEFINE s == CycleSteps(c[1])
  <1>6. todo' = s  BY <1>2
  <1> HIDE DEF s
  <1>7. /\ s \in Seq(StepType) /\ Shape(s) /\ HasSample(s) /\ Head(s).op = "pending"
        /\ \A i \in 1 .. Len(s) : s[i].op # "transfer"
    BY <1>4 DEF s
  <1> QED  BY <1>2, <1>3, <1>5, <1>6, <1>7

LEMMA RdnmiAccessIs ==
    ASSUME Types, NEW c \in Insns, RdnmiAccess(c)
    PROVE  /\ insn' \in Seq(Cycle) /\ k' = 1 /\ k' \in 1 .. Len(insn')
           /\ todo' \in Seq(StepType) /\ Shape(todo')
           /\ \A i \in 1 .. Len(todo') : todo'[i].op # "transfer"
           /\ Head(todo').op = "pending"
           /\ w' = WalkInit /\ w' \in WalkType
  <1>1. c \in Seq(Cycle) /\ c # <<>>  BY Inputs
  <1>2. c[1] \in Cycle /\ Len(c) >= 1  BY <1>1
  <1> DEFINE e == [op |-> "cycle", n |-> c[1], smp |-> c[1] - ReadHold]
             s == <<Step("pending"), Step("sample"), e, Step("after")>>
  <1>3. e \in StepType /\ e.op = "cycle"  BY <1>2, Constants DEF StepType, StepNames, Cycle
  <1>4. \A o \in StepNames : Step(o) \in StepType /\ Step(o).op = o  BY StepIs
  <1>5. todo' = s  BY DEF RdnmiAccess
  <1> HIDE DEF e
  <1>6. s \in Seq(StepType) /\ Len(s) = 4  BY <1>3, <1>4 DEF StepNames
  <1>7. s[1].op = "pending" /\ s[2].op = "sample" /\ s[3].op = "cycle" /\ s[4].op = "after"
    BY <1>3, <1>4 DEF StepNames
  <1>8. \A i \in 1 .. Len(s) : i = 1 \/ i = 2 \/ i = 3 \/ i = 4  BY <1>6
  <1>9. Head(s) = s[1] /\ s # <<>>  OBVIOUS
  <1> HIDE DEF s
  <1>10. Shape(todo') /\ Head(todo').op = "pending" /\ todo' \in Seq(StepType)
         /\ \A i \in 1 .. Len(todo') : todo'[i].op # "transfer"
    BY <1>5, <1>6, <1>7, <1>8, <1>9 DEF Shape
  <1>11. insn' = c /\ k' = 1 /\ w' = WalkInit  BY DEF RdnmiAccess
  <1> QED  BY <1>1, <1>2, <1>10, <1>11, WalkInitIs

Others == \/ StartFrame \/ WaiCycles \/ WaiWalk \/ RdnmiRead \/ ChargeWhole \/ ChargeWalk
          \/ \E c \in Insns : RdnmiAccess(c)

LEMMA OthersTypes ==
    ASSUME Types, Flow, Others
    PROVE  Types'
  <1>1. CASE StartFrame
    <2>1. done' \in DoneType /\ hclock' \in Nat
      BY <1>1, BeginLineIs, Constants DEF StartFrame, Types
    <2> QED  BY <1>1, <2>1 DEF StartFrame, Types, regVars, execVars, walkVars
  <1>2. CASE WaiCycles
    <2>1. hclock' \in Nat /\ pc' \in {"advance", "idle"}  BY <1>2, WaiSkips
    <2> QED  BY <1>2, <2>1 DEF WaiCycles, Types, regVars, flagVars, walkVars
  <1>3. CASE WaiWalk
    <2>1. <<IdleClocks>> \in Seq(Cycle) /\ <<IdleClocks>> # <<>>  BY Constants DEF Cycle
    <2>2. insn' \in Seq(Cycle) /\ k' \in Nat /\ todo' \in Seq(StepType) /\ w' \in WalkType
          /\ count' \in Nat
      <3>1. StartWalk(<<IdleClocks>>)  BY <1>3 DEF WaiWalk
      <3>2. /\ insn' \in Seq(Cycle) /\ k' = 1 /\ todo' \in Seq(StepType)
            /\ w' \in WalkType /\ count' \in Nat
        BY <2>1, <3>1, StartWalkIs
      <3> QED  BY <3>2
    <2> QED  BY <1>3, <2>2 DEF WaiWalk, Types, clockVars, regVars, flagVars, execVars
  <1>4. CASE RdnmiRead
    <2>1. w' \in WalkType /\ saved' \in PendType /\ pend' \in PendType
      BY <1>4, NoneAreTyped DEF RdnmiRead, Restored, Types
    <2> QED  BY <1>4, <2>1 DEF RdnmiRead, Types, clockVars, regVars, execVars
  <1>5. CASE ChargeWhole
    <2>1. hclock' \in Nat  BY <1>5, ClocksIsNat DEF ChargeWhole, Types
    <2>2. pend' \in PendType /\ take_irq' \in BOOLEAN
      <3>1. PICK b \in BOOLEAN : pend' = [pend EXCEPT !.prev_irq = b] /\ take_irq' = b
        <4> DEFINE b == pend.irq_line /\ ~insn_i
        <4>1. b \in BOOLEAN  BY Zenon
        <4>2. pend' = [pend EXCEPT !.prev_irq = b] /\ take_irq' = b  BY <1>5 DEF ChargeWhole
        <4> HIDE DEF b
        <4> QED  BY <4>1, <4>2
      <3> QED  BY <3>1 DEF Types, PendType
    <2> QED  BY <1>5, <2>1, <2>2 DEF ChargeWhole, Types, regVars, flagVars, walkVars
  <1>6. CASE ChargeWalk
    <2>1. insn \in Seq(Cycle) /\ insn # <<>>  BY <1>6 DEF ChargeWalk, Types, Flow
    <2>2. insn' \in Seq(Cycle) /\ k' \in Nat /\ todo' \in Seq(StepType) /\ w' \in WalkType
          /\ count' \in Nat
      BY <1>6, <2>1, StartWalkIs DEF ChargeWalk
    <2> QED  BY <1>6, <2>2 DEF ChargeWalk, Types, clockVars, regVars, flagVars, execVars
  <1>7. ASSUME NEW c \in Insns, RdnmiAccess(c)
        PROVE  Types'
    <2>1. insn' \in Seq(Cycle) /\ k' \in Nat /\ todo' \in Seq(StepType) /\ w' \in WalkType
      BY <1>7, RdnmiAccessIs
    <2> QED
      BY <1>7, <2>1 DEF RdnmiAccess, BoundaryUnchanged, Types, clockVars, regVars, flagVars
  <1> QED  BY <1>1, <1>2, <1>3, <1>4, <1>5, <1>6, <1>7 DEF Others

-----------------------------------------------------------------------------
(* Where the scheduler goes next.                                          *)

(* An event of the walk leaves the steps of the cycle in place.            *)
LEMMA EventIs ==
    ASSUME Types, Flow, EventStep
    PROVE  /\ Walking /\ Passing /\ WalkUnchanged /\ UNCHANGED <<count, lock, wai_over>>
           /\ todo # <<>> /\ Len(todo') = Len(todo)
           /\ \A i \in 1 .. Len(todo) : todo'[i].op = todo[i].op
           /\ pend'.prev_irq = pend.prev_irq
  <1>1. Passing /\ WalkUnchanged /\ UNCHANGED <<count, lock, wai_over>>
    BY DEF EventStep, WalkRefresh, WalkHdma, WalkHdmaInit, WalkNmi, WalkIrq, WalkEndLine, Meets,
       EventUnchanged
  <1>2. Walking /\ todo # <<>> /\ todo \in Seq(StepType) /\ pend \in PendType
    BY <1>1 DEF Passing, Flow, Shape, Types
  <1>3. pend'.prev_irq = pend.prev_irq
    BY <1>2 DEF EventStep, WalkRefresh, WalkHdma, WalkHdmaInit, WalkNmi, WalkIrq, WalkEndLine,
       LineUp, PendType
  <1>4. Len(todo') = Len(todo) /\ \A i \in 1 .. Len(todo) : todo'[i].op = todo[i].op
    <2>1. CASE WalkRefresh
      <3>1. \E d : todo' = [todo EXCEPT ![1] = d] /\ d.op = todo[1].op
        <4> DEFINE n == todo[1].n + RefreshClocks
                   x == IF w.ls + NextEvent[1] <= w.t + todo[1].smp
                        THEN todo[1].smp + RefreshClocks ELSE todo[1].smp
                   d == [todo[1] EXCEPT !.n = n, !.smp = x]
        <4>1. 1 \in 1 .. Len(todo) /\ todo[1] \in StepType  BY <1>2
        <4>2. todo' = [todo EXCEPT ![1] = d]  BY <2>1, <4>1 DEF WalkRefresh
        <4> HIDE DEF n, x
        <4>3. d.op = todo[1].op  BY <4>1 DEF StepType
        <4> QED  BY <4>2, <4>3
      <3> QED  BY <1>2, <3>1
    <2>2. CASE ~WalkRefresh
      BY <2>2 DEF EventStep, WalkHdma, WalkHdmaInit, WalkNmi, WalkIrq, WalkEndLine
    <2> QED  BY <2>1, <2>2
  <1> QED  BY <1>1, <1>2, <1>3, <1>4

LEMMA WalkFlow ==
    ASSUME Types, Flow, EventStep \/ WalkStep
    PROVE  Flow'
  <1>1. WalkUnchanged
    BY EventIs DEF WalkStep, WalkPassed, NoTransfer, SyncTransfer, Transfer, DmaUnit, DmaPending,
       TransferWait, CycleSample
  <1>2. CASE EventStep
    <2>1. Walking /\ Len(todo') = Len(todo) /\ Len(todo) \in Nat /\ Shape(todo)
          /\ \A i \in 1 .. Len(todo) : todo'[i].op = todo[i].op
      BY <1>2, EventIs DEF Flow, Types
    <2>2. todo' \in Seq(StepType)  BY <1>2, EventTypes DEF Types
    <2>3. todo' # <<>>  BY <2>1, <2>2 DEF Shape
    <2>4. Shape(todo')  BY <2>1, <2>3 DEF Shape
    <2> QED  BY <1>1, <2>1, <2>4 DEF Flow, WalkUnchanged, clockVars, regVars, Walking
  <1>3. CASE WalkStep
    <2>1. Walking /\ Shape(todo')  BY <1>3, StepsTaken DEF Kept
    <2> QED  BY <1>1, <2>1 DEF Flow, WalkUnchanged, clockVars, regVars, Walking
  <1> QED  BY <1>2, <1>3

LEMMA AfterFlow ==
    ASSUME Types, Flow, AfterCycle \/ WalkDone
    PROVE  Flow'
  <1>1. CASE AfterCycle
    <2>1. k \in 1 .. Len(insn) /\ k < Len(insn) /\ insn \in Seq(Cycle) /\ Walking
      BY <1>1 DEF AfterCycle, At, Flow, Types
    <2>2. k' \in 1 .. Len(insn')  BY <1>1, <2>1 DEF AfterCycle
    <2>3. Shape(todo')  BY <1>1, <2>1, CycleStepsIs DEF AfterCycle
    <2> QED  BY <1>1, <2>2, <2>3 DEF AfterCycle, Flow, clockVars, regVars, Walking
  <1>2. CASE WalkDone
    BY <1>2 DEF WalkDone, Flow, regVars, Walking
  <1> QED  BY <1>1, <1>2

(* That a commit ends with no refresh left over is a part of Sim, below.   *)
LEMMA AdvanceFlow ==
    ASSUME Types, Flow, AdvanceNext, AdvanceDone => refresh_paid = 0
    PROVE  Flow'
  <1>1. pc = "advance"
    BY DEF AdvanceNext, AdvanceRdnmi, AdvanceNmi, AdvanceRefresh, AdvanceIrq, AdvanceHdma,
       AdvanceEndLine, AdvanceDone, AdvanceReset, Advancing
  <1>2. done \in DoneType /\ refresh_paid \in Nat  BY DEF Types
  <1>3. CASE AdvanceRdnmi
    BY <1>1, <1>3 DEF AdvanceRdnmi, AdvanceUnchanged, Flow, clockVars, walkVars, Walking
  <1>4. CASE AdvanceNmi
    BY <1>1, <1>2, <1>4
       DEF AdvanceNmi, AdvanceUnchanged, Flow, clockVars, walkVars, Walking, DoneType
  <1>5. CASE AdvanceRefresh
    <2>1. ~walked => refresh_paid' = 0
      BY <1>2, <1>5 DEF AdvanceRefresh, RefreshPaid, Flow
    <2> QED
      BY <1>1, <1>2, <1>5, <2>1
         DEF AdvanceRefresh, AdvanceUnchanged, Flow, walkVars, Walking, DoneType
  <1>6. CASE AdvanceIrq
    BY <1>1, <1>2, <1>6
       DEF AdvanceIrq, AdvanceUnchanged, Flow, clockVars, walkVars, Walking, DoneType
  <1>7. CASE AdvanceHdma
    BY <1>1, <1>2, <1>7
       DEF AdvanceHdma, AdvanceUnchanged, Flow, clockVars, walkVars, Walking, DoneType
  <1>8. CASE AdvanceEndLine
    BY <1>1, <1>8
       DEF AdvanceEndLine, AdvanceUnchanged, Flow, walkVars, Walking, BeginLine
  <1>9. CASE AdvanceDone
    <2>1. /\ pc' \in {"idle", "boundary"} /\ (pc' = "boundary" => mode' = "insn") /\ ~walked'
          /\ refresh_paid' = 0 /\ line' = line
      BY <1>9 DEF AdvanceDone, clockVars
    <2>2. /\ done'.irq_at = done.irq_at /\ done'.irq = done.irq /\ (done.nmi => done'.nmi)
      BY <1>2, <1>9 DEF AdvanceDone, DoneType
    <2> QED  BY <1>1, <2>1, <2>2 DEF Flow, Walking
  <1>10. CASE AdvanceReset
    <2>1. done'.nmi = TRUE  BY <1>2, <1>10 DEF AdvanceReset, DoneType
    <2> QED  BY <1>10, <2>1 DEF AdvanceReset, PaidAfterReset, Flow, Walking
  <1> QED
    BY <1>3, <1>4, <1>5, <1>6, <1>7, <1>8, <1>9, <1>10 DEF AdvanceNext

LEMMA StartedFlow == ASSUME Types, Flow, Started PROVE Flow'
  <1>1. /\ pc = "boundary" /\ pc' = "charge"
        /\ UNCHANGED <<clockVars, done, refresh_paid, mode, walked, k, todo, count, w, saved>>
        /\ insn' # <<>>
    BY StartedIs
  <1> QED  BY <1>1 DEF Flow, Walking, clockVars

LEMMA OthersFlow == ASSUME Types, Flow, Others PROVE Flow'
  <1>1. CASE StartFrame
    <2>1. line = 0 /\ pc' = "advance" /\ line' = line /\ done' = BeginLine(0)
          /\ refresh_paid' = refresh_paid /\ walked' = walked
      BY <1>1 DEF StartFrame, Flow
    <2> QED  BY <2>1 DEF BeginLine, Flow, Walking
  <1>2. CASE WaiCycles
    <2>1. pc' \in {"advance", "idle"}  BY <1>2, WaiSkips
    <2> QED  BY <1>2, <2>1 DEF WaiCycles, Flow, Walking
  <1>3. CASE WaiWalk
    <2>1. <<IdleClocks>> \in Seq(Cycle) /\ <<IdleClocks>> # <<>> /\ StartWalk(<<IdleClocks>>)
      BY <1>3, Constants DEF Cycle, WaiWalk
    <2>2. Shape(todo') /\ k' \in 1 .. Len(insn')  BY <2>1, StartWalkIs
    <2> QED  BY <1>3, <2>2 DEF WaiWalk, Flow, Walking, clockVars, regVars
  <1>4. CASE RdnmiRead
    <2>1. insn # <<>>  BY <1>4 DEF RdnmiRead, Flow, Walking, Types
    <2> QED  BY <1>4, <2>1 DEF RdnmiRead, Flow, Walking, clockVars, regVars
  <1>5. CASE ChargeWhole
    BY <1>5 DEF ChargeWhole, Flow, Walking
  <1>6. CASE ChargeWalk
    <2>1. insn \in Seq(Cycle) /\ insn # <<>> /\ StartWalk(insn)
      BY <1>6 DEF ChargeWalk, Types, Flow
    <2>2. Shape(todo') /\ k' \in 1 .. Len(insn')  BY <2>1, StartWalkIs
    <2> QED  BY <1>6, <2>2 DEF ChargeWalk, Flow, Walking, clockVars, regVars
  <1>7. ASSUME NEW c \in Insns, RdnmiAccess(c)
        PROVE  Flow'
    <2>1. Shape(todo') /\ k' \in 1 .. Len(insn')  BY <1>7, RdnmiAccessIs
    <2> QED
      BY <1>7, <2>1 DEF RdnmiAccess, BoundaryUnchanged, Flow, Walking, clockVars, regVars
  <1> QED  BY <1>1, <1>2, <1>3, <1>4, <1>5, <1>6, <1>7 DEF Others

-----------------------------------------------------------------------------
(* Transfers on the bus's grid.                                            *)

Aligned == Walking => OnGrid(todo, WalkClockNow)

LEMMA NoTransferOnGrid ==
    ASSUME \A i \in 1 .. Len(todo') : todo'[i].op # "transfer"
    PROVE  Aligned'
  BY DEF Aligned, OnGrid

(* A refresh in the sync before a transfer is a multiple of Sync clocks.   *)
LEMMA WalkAligned ==
    ASSUME Types, Flow, Aligned, EventStep \/ WalkStep
    PROVE  Aligned'
  <1>1. CASE WalkStep
    <2>1. Walking  BY <1>1, WalkStepIs
    <2> QED  BY <1>1, <2>1, GridTaken DEF Aligned
  <1>2. CASE EventStep
    <2>1. /\ Walking /\ Passing /\ todo # <<>> /\ Len(todo') = Len(todo)
          /\ \A i \in 1 .. Len(todo) : todo'[i].op = todo[i].op
      BY <1>2, EventIs
    <2>2. todo \in Seq(StepType) /\ todo' \in Seq(StepType)  BY <1>2, EventTypes DEF Types
    <2>3. line_start' = line_start /\ w'.t = w.t /\ w \in WalkType
      <3>1. w \in WalkType  BY DEF Types
      <3>2. w'.t = w.t
        BY <1>2, <3>1 DEF EventStep, WalkRefresh, WalkHdma, WalkHdmaInit, WalkNmi, WalkIrq,
           WalkEndLine, WalkType
      <3> QED  BY <1>2, <3>1, <3>2, EventIs DEF WalkUnchanged, clockVars
    <2> DEFINE c == WalkClockNow
    <2>4. c \in Int /\ c' = c  BY <2>3 DEF WalkClockNow, WalkType, Types
    <2>5. OnGrid(todo, c)  BY <2>1 DEF Aligned
    <2>6. todo[1].op # "transfer" /\ todo[1] \in StepType  BY <2>1, <2>2 DEF Passing
    <2>7. todo'[1].n = todo[1].n \/ todo'[1].n = todo[1].n + RefreshClocks
      <3>1. CASE WalkRefresh
        <4> DEFINE n == todo[1].n + RefreshClocks
                   x == IF w.ls + NextEvent[1] <= w.t + todo[1].smp
                        THEN todo[1].smp + RefreshClocks ELSE todo[1].smp
        <4>1. todo' = [todo EXCEPT ![1] = [todo[1] EXCEPT !.n = n, !.smp = x]]
          BY <3>1 DEF WalkRefresh
        <4> HIDE DEF n, x
        <4>2. todo'[1].n = n  BY <2>1, <2>2, <2>6, <4>1 DEF StepType
        <4> QED  BY <4>2 DEF n
      <3>2. CASE ~WalkRefresh
        BY <1>2, <3>2 DEF EventStep, WalkHdma, WalkHdmaInit, WalkNmi, WalkIrq, WalkEndLine
      <3> QED  BY <3>1, <3>2
    <2>8. (c + todo[1].n) % Sync = 0 => (c + todo'[1].n) % Sync = 0
      <3> DEFINE a == c + todo[1].n
      <3>1. a \in Int /\ c + todo[1].n + RefreshClocks = a + RefreshClocks
            /\ todo[1].n \in Int /\ RefreshClocks \in Int /\ Sync \in Nat /\ Sync > 0
            /\ RefreshClocks % Sync = 0
        BY <2>4, <2>6, Constants DEF StepType
      <3> HIDE DEF a, c
      <3>2. ((a % Sync) + RefreshClocks) % Sync = (a + RefreshClocks) % Sync
        BY <3>1, ModuloSum
      <3>3. a % Sync = 0 => (a + RefreshClocks) % Sync = 0  BY <3>1, <3>2
      <3>4. c + (todo[1].n + RefreshClocks) = a + RefreshClocks  BY <2>4, <3>1
      <3> QED  BY <2>7, <3>1, <3>3, <3>4 DEF a
    <2> HIDE DEF c
    <2>9. OnGrid(todo', c)
      <3> SUFFICES ASSUME NEW i \in 1 .. Len(todo'), todo'[i].op = "transfer"
                   PROVE  i = 2 /\ todo'[1].op = "pass" /\ (c + todo'[1].n) % Sync = 0
        BY DEF OnGrid
      <3>1. i \in 1 .. Len(todo) /\ todo[i].op = "transfer" /\ 1 \in 1 .. Len(todo)
        BY <2>1, <2>2
      <3>2. i # 1 /\ i = 2 /\ todo[1].op = "pass" /\ (c + todo[1].n) % Sync = 0
        BY <2>5, <2>6, <3>1 DEF OnGrid
      <3> QED  BY <2>1, <2>8, <3>1, <3>2
    <2>10. OnGrid(todo', WalkClockNow')  BY <2>4, <2>9 DEF c
    <2> QED  BY <2>10 DEF Aligned
  <1> QED  BY <1>1, <1>2

LEMMA OthersAligned ==
    ASSUME Types, Flow, Aligned,
           AfterCycle \/ WalkDone \/ AdvanceNext \/ Started \/ Others
    PROVE  Aligned'
  <1>1. CASE AfterCycle
    <2>1. insn[k + 1] \in Cycle
      <3>1. k \in 1 .. Len(insn) /\ k < Len(insn) /\ insn \in Seq(Cycle)
        BY <1>1 DEF AfterCycle, At, Flow, Types
      <3> QED  BY <3>1
    <2>2. \A i \in 1 .. Len(todo') : todo'[i].op # "transfer"
      BY <1>1, <2>1, CycleStepsIs DEF AfterCycle
    <2> QED  BY <2>2, NoTransferOnGrid
  <1>2. ASSUME NEW c \in Seq(Cycle), c # <<>>, StartWalk(c)
        PROVE  Aligned'
    BY <1>2, StartWalkIs, NoTransferOnGrid
  <1>3. CASE WaiWalk
    <2>1. <<IdleClocks>> \in Seq(Cycle) /\ <<IdleClocks>> # <<>> /\ StartWalk(<<IdleClocks>>)
      BY <1>3, Constants DEF Cycle, WaiWalk
    <2> QED  BY <1>2, <2>1
  <1>4. CASE ChargeWalk
    BY <1>2, <1>4 DEF ChargeWalk, Types, Flow
  <1>5. ASSUME NEW c \in Insns, RdnmiAccess(c)
        PROVE  Aligned'
    BY <1>5, RdnmiAccessIs, NoTransferOnGrid
  <1>6. CASE Started  BY <1>6, StartedIs DEF Aligned, Walking
  <1>7. CASE WalkDone \/ AdvanceNext \/ StartFrame \/ WaiCycles \/ RdnmiRead \/ ChargeWhole
    <2>1. pc' \notin {"access", "walk"}
      BY <1>7 DEF WalkDone, StartFrame, WaiCycles, RdnmiRead, ChargeWhole, AdvanceNext,
         AdvanceRdnmi, AdvanceNmi, AdvanceRefresh, AdvanceIrq, AdvanceHdma, AdvanceEndLine,
         AdvanceDone, AdvanceReset, Advancing, AdvanceUnchanged
    <2> QED  BY <2>1 DEF Aligned, Walking
  <1> QED  BY <1>1, <1>3, <1>4, <1>5, <1>6, <1>7 DEF Others

-----------------------------------------------------------------------------
(* The interrupt entry.                                                    *)

(* From the entry to its end the I flag in effect is set, so that the IRQ  *)
(* seen at its last cycle start is none.                                   *)
Entry ==
    skip_check =>
        /\ insn_i /\ mode = "insn" /\ ~take_irq
        /\ pc \in {"charge", "walk", "advance", "boundary"}
        /\ pc = "walk" => ~pend.prev_irq \/ HasSample(todo)

LEMMA WalkEntry ==
    ASSUME Types, Flow, Entry, EventStep \/ WalkStep
    PROVE  Entry'
  <1>1. WalkUnchanged /\ Walking
    BY EventIs, WalkStepIs DEF WalkStep, WalkPassed, NoTransfer, SyncTransfer, Transfer, DmaUnit,
       DmaPending, TransferWait, CycleSample
  <1> SUFFICES ASSUME skip_check, pc = "walk", insn_i, mode = "insn",
                      ~pend.prev_irq \/ HasSample(todo)
               PROVE  ~pend'.prev_irq \/ HasSample(todo')
    BY <1>1 DEF Entry, WalkUnchanged
  <1>2. CASE EventStep
    <2>1. /\ pend'.prev_irq = pend.prev_irq /\ Len(todo') = Len(todo)
          /\ \A i \in 1 .. Len(todo) : todo'[i].op = todo[i].op
      BY <1>2, EventIs
    <2> QED  BY <2>1 DEF HasSample
  <1>3. CASE CycleSample
    <2>1. pend \in PendType  BY DEF Types
    <2>2. PICK n, b : pend' = [pend EXCEPT !.nmi_count = n, !.need_nmi = b, !.prev_irq = FALSE]
      <3> DEFINE c == ~lock /\ pend.irq_line /\ ~insn_i
      <3>1. \E n, b : pend' = [pend EXCEPT !.nmi_count = n, !.need_nmi = b, !.prev_irq = c]
        BY <1>3 DEF CycleSample
      <3>2. c = FALSE  OBVIOUS
      <3> QED  BY <3>1, <3>2
    <2> QED  BY <2>1, <2>2 DEF PendType
  <1>4. CASE WalkStep /\ ~CycleSample
    <2>1. Kept(todo, todo')  BY <1>4, StepsTaken
    <2>2. pend'.prev_irq = pend.prev_irq /\ Head(todo).op # "sample"
      <3>1. pend \in PendType  BY DEF Types
      <3> QED
        BY <1>4, <3>1 DEF WalkStep, WalkPassed, NoTransfer, SyncTransfer, Transfer, DmaUnit,
           DmaPending, TransferWait, At, Passing, PendType
    <2> QED  BY <2>1, <2>2 DEF Kept
  <1> QED  BY <1>2, <1>3, <1>4 DEF WalkStep

LEMMA AfterEntry ==
    ASSUME Types, Flow, Entry, AfterCycle \/ WalkDone
    PROVE  Entry'
  <1>1. CASE AfterCycle
    <2>1. k \in 1 .. Len(insn) /\ k < Len(insn) /\ insn \in Seq(Cycle)
      BY <1>1 DEF AfterCycle, At, Flow, Types
    <2>2. HasSample(todo')  BY <1>1, <2>1, CycleStepsIs DEF AfterCycle
    <2> QED  BY <1>1, <2>2 DEF AfterCycle, Entry, execVars
  <1>2. CASE WalkDone
    <2>1. Shape(todo) /\ todo \in Seq(StepType) /\ Head(todo).op = "after"
      BY <1>2 DEF WalkDone, At, Flow, Types
    <2>2. Len(todo) = 1 /\ todo[1].op = "after"
      <3>1. Len(todo) \in Nat /\ Len(todo) > 0 /\ todo[1].op = "after"  BY <2>1 DEF Shape
      <3>2. 1 \in 1 .. Len(todo)  BY <3>1
      <3> QED  BY <2>1, <3>1, <3>2 DEF Shape
    <2>3. ~HasSample(todo)  BY <2>2 DEF HasSample
    <2> QED  BY <1>2, <2>3 DEF WalkDone, Entry
  <1> QED  BY <1>1, <1>2

LEMMA AdvanceEntry ==
    ASSUME Types, Flow, Entry, AdvanceNext
    PROVE  Entry'
  <1>1. CASE AdvanceDone
    BY <1>1 DEF AdvanceDone, Advancing, Entry
  <1>2. CASE AdvanceReset
    BY <1>2 DEF AdvanceReset, Entry
  <1>3. CASE AdvanceNext /\ ~AdvanceDone /\ ~AdvanceReset
    <2>1. AdvanceUnchanged /\ pc = "advance"
      BY <1>3 DEF AdvanceNext, AdvanceRdnmi, AdvanceNmi, AdvanceRefresh, AdvanceIrq, AdvanceHdma,
         AdvanceEndLine, Advancing
    <2> QED  BY <2>1 DEF AdvanceUnchanged, execVars, Entry
  <1> QED  BY <1>1, <1>2, <1>3

LEMMA OthersEntry ==
    ASSUME Types, Flow, Entry, Started \/ Others
    PROVE  Entry'
  <1>1. CASE Interrupt
    BY <1>1 DEF Interrupt, EntryI, BoundaryUnchanged, Flow, Entry
  <1>2. ASSUME NEW c \in Insns,
               \/ Nop(c) \/ SetI(c) \/ Rti(c) \/ WaiInsn(c) \/ NmitimenWrite(c)
               \/ TimerWrite(c) \/ TimeupRead(c) \/ MdmaenWrite(c) \/ HdmaenWrite(c)
               \/ RdnmiAccess(c)
        PROVE  Entry'
    <2>1. skip_check' = FALSE
      BY <1>2 DEF Nop, SetI, Rti, WaiInsn, NmitimenWrite, TimerWrite, TimeupRead, MdmaenWrite,
         HdmaenWrite, Execute, Begin, RdnmiAccess
    <2> QED  BY <2>1 DEF Entry
  <1>3. CASE WaiCycles  BY <1>3 DEF WaiCycles, Entry
  <1>4. CASE ChargeWhole  BY <1>4 DEF ChargeWhole, Entry
  <1>5. CASE ChargeWalk
    <2>1. HasSample(todo')
      <3>1. insn \in Seq(Cycle) /\ insn # <<>> /\ StartWalk(insn)
        BY <1>5 DEF ChargeWalk, Types, Flow
      <3> QED  BY <3>1, StartWalkIs
    <2> QED  BY <1>5, <2>1 DEF ChargeWalk, execVars, Entry
  <1>6. CASE StartFrame \/ WaiWalk \/ RdnmiRead
    <2>1. ~skip_check  BY <1>6 DEF StartFrame, WaiWalk, RdnmiRead, Entry
    <2>2. skip_check' = skip_check  BY <1>6 DEF StartFrame, WaiWalk, RdnmiRead, execVars
    <2> QED  BY <2>1, <2>2 DEF Entry
  <1> QED  BY <1>1, <1>2, <1>3, <1>4, <1>5, <1>6 DEF Started, Others

-----------------------------------------------------------------------------
(* The committed clock between two commits.                                *)

(* The events with an effect are behind the clock or strictly ahead.       *)
Quiet ==
    /\ hclock < LengthOf(line, field)
    /\ done.refresh \/ hclock < RefreshClock(line_start)
    /\ done.nmi \/ hclock < NmiAt
    /\ done.irq \/ hclock < done.irq_at

(* So they are when the program runs, and while advance has no walk to     *)
(* commit.  Only then may it meet the HDMA event, of a line without HDMA.  *)
Settled ==
    /\ pc \in {"boundary", "charge", "idle", "access"} =>
         Quiet /\ (done.hdma \/ hclock < HdmaClock)
    /\ pc = "advance" /\ ~walked => Quiet

LEMMA WalkSettled ==
    ASSUME Types, Flow, Settled, EventStep \/ WalkStep \/ AfterCycle \/ WalkDone
    PROVE  Settled'
  <1>1. CASE WalkDone  BY <1>1 DEF WalkDone, Settled
  <1>2. CASE EventStep \/ WalkStep \/ AfterCycle
    <2>1. UNCHANGED <<clockVars, done, pc, walked>> /\ Walking
      BY <1>2, EventIs, WalkStepIs DEF AfterCycle, At, WalkStep, WalkPassed, NoTransfer,
         SyncTransfer, Transfer, DmaUnit, DmaPending, TransferWait, CycleSample, WalkUnchanged
    <2> QED  BY <2>1 DEF Settled, Quiet, clockVars
  <1> QED  BY <1>1, <1>2

(* What advance finds when the clocks were charged whole.                  *)
LEMMA QuietCase ==
    ASSUME Types, Flow, Quiet, pc = "advance"
    PROVE  AdvanceCase \in {"rdnmi_set", "rdnmi_clear", "hdma", "none"}
  <1>1. hclock \in Nat /\ done.irq_at \in Int /\ line_start \in Int  BY DEF Types, DoneType
  <1>2. LengthOf(line, field) \in Nat /\ RefreshClock(line_start) \in Nat /\ NmiAt \in Nat
    BY <1>1, LengthIs, RefreshIs, Constants
  <1>3. ~(hclock >= LengthOf(line, field)) /\ ~(~done.nmi /\ hclock >= NmiAt)
        /\ ~(~done.refresh /\ hclock >= RefreshClock(line_start))
        /\ ~(~done.irq /\ hclock >= done.irq_at)
    BY <1>1, <1>2 DEF Quiet
  <1> QED  BY <1>3 DEF AdvanceCase, LateIrq

LEMMA AdvanceSettled ==
    ASSUME Types, Flow, Settled, AdvanceNext
    PROVE  Settled'
  <1>1. pc = "advance"
    BY DEF AdvanceNext, AdvanceRdnmi, AdvanceNmi, AdvanceRefresh, AdvanceIrq, AdvanceHdma,
       AdvanceEndLine, AdvanceDone, AdvanceReset, Advancing
  <1>2. done \in DoneType /\ w.done \in DoneType /\ hclock \in Nat /\ line_start \in Int
    BY DEF Types, WalkType
  <1>3. CASE AdvanceDone
    <2>1. AdvanceCase = "none"  BY <1>3 DEF AdvanceDone, Advancing
    <2>2. /\ hclock < LengthOf(line, field)
          /\ done.refresh \/ hclock < RefreshClock(line_start)
          /\ done.nmi \/ hclock < NmiAt
          /\ done.irq \/ hclock < done.irq_at
          /\ done.hdma \/ hclock < HdmaClock
      <3>1. LengthOf(line, field) \in Nat /\ RefreshClock(line_start) \in Nat /\ NmiAt \in Nat
            /\ HdmaClock \in Nat /\ done.irq_at \in Int
        BY <1>2, LengthIs, RefreshIs, Constants DEF DoneType
      <3>2. /\ ~(hclock >= LengthOf(line, field)) /\ ~(~done.nmi /\ hclock >= NmiAt)
            /\ ~(~done.refresh /\ hclock >= RefreshClock(line_start))
            /\ ~(~done.irq /\ hclock >= done.irq_at) /\ ~(~done.hdma /\ hclock >= HdmaClock)
        BY <2>1 DEF AdvanceCase, LateIrq
      <3> QED  BY <1>2, <3>1, <3>2
    <2>3. /\ done'.refresh = done.refresh /\ done'.irq = done.irq /\ done'.hdma = done.hdma
          /\ done'.irq_at = done.irq_at /\ (done.nmi => done'.nmi)
      BY <1>2, <1>3 DEF AdvanceDone, DoneType
    <2>4. UNCHANGED clockVars  BY <1>3 DEF AdvanceDone
    <2>5. Quiet' /\ (done.hdma \/ hclock < HdmaClock)'  BY <2>2, <2>3, <2>4 DEF Quiet, clockVars
    <2> QED  BY <2>5 DEF Settled
  <1>4. CASE AdvanceReset  BY <1>4 DEF AdvanceReset, Settled
  <1>5. CASE AdvanceNext /\ ~AdvanceDone /\ ~AdvanceReset
    <2>1. UNCHANGED <<pc, walked>>
      BY <1>5 DEF AdvanceNext, AdvanceRdnmi, AdvanceNmi, AdvanceRefresh, AdvanceIrq, AdvanceHdma,
         AdvanceEndLine, AdvanceUnchanged
    <2>2. CASE walked  BY <1>1, <2>1, <2>2 DEF Settled
    <2>3. CASE ~walked
      <3>1. Quiet  BY <1>1, <2>3 DEF Settled
      <3>2. AdvanceRdnmi \/ AdvanceHdma
        BY <1>1, <1>5, <3>1, QuietCase DEF AdvanceNext, AdvanceNmi, AdvanceRefresh, AdvanceIrq,
           AdvanceEndLine, Advancing
      <3>3. Quiet'
        <4>1. /\ done'.refresh = done.refresh /\ done'.irq = done.irq /\ done'.nmi = done.nmi
              /\ done'.irq_at = done.irq_at /\ UNCHANGED clockVars
          BY <1>2, <3>2 DEF AdvanceRdnmi, AdvanceHdma, DoneType
        <4> QED  BY <3>1, <4>1 DEF Quiet, clockVars
      <3> QED  BY <1>1, <2>1, <3>3 DEF Settled
    <2> QED  BY <2>2, <2>3
  <1> QED  BY <1>3, <1>4, <1>5

LEMMA StartFrameQuiet ==
    ASSUME Types, Flow, StartFrame
    PROVE  Quiet'
  <1>1. /\ line = 0 /\ hclock = 0 /\ line_start = 0 /\ nmitimen.mode = 0
        /\ line' = line /\ line_start' = line_start /\ field' = field
        /\ done' = BeginLine(0) /\ hclock' = hclock + StartDelay
    BY DEF StartFrame, Flow
  <1>2. IrqClockFor(0) = -1  BY <1>1 DEF IrqClockFor
  <1>3. done'.nmi /\ done'.irq /\ hclock' = StartDelay
    <2>1. BeginLine(0).nmi <=> 0 # VBlankLine  BY Zenon DEF BeginLine
    <2>2. BeginLine(0).irq <=> IrqClockFor(0) < 0  BY Zenon DEF BeginLine
    <2>3. BeginLine(0).nmi /\ BeginLine(0).irq  BY <1>2, <2>1, <2>2, Constants
    <2>4. done'.nmi /\ done'.irq  BY <1>1, <2>3, Zenon
    <2>5. hclock' = StartDelay  BY <1>1, Constants
    <2> QED  BY <2>4, <2>5
  <1>4. StartDelay < RefreshClock(0) /\ RefreshClock(0) < LengthOf(0, field)
    <2>1. RefreshAt - Sync < RefreshClock(0) /\ RefreshClock(0) <= RefreshAt
          /\ RefreshClock(0) \in Nat
      BY RefreshIs
    <2>2. LengthOf(0, field) \in Nat /\ HdmaClock < LengthOf(0, field)  BY LengthIs
    <2> QED  BY <2>1, <2>2, Constants
  <1>5. StartDelay < LengthOf(0, field)
    <2>1. RefreshClock(0) \in Nat /\ LengthOf(0, field) \in Nat  BY RefreshIs, LengthIs
    <2> QED  BY <1>4, <2>1, Constants
  <1> QED  BY <1>1, <1>3, <1>4, <1>5 DEF Quiet

LEMMA ChargeWholeQuiet ==
    ASSUME Types, Flow, ChargeWhole
    PROVE  Quiet'
  <1> DEFINE end == hclock + Clocks
  <1>1. ~Inside(end) /\ hclock' = end /\ UNCHANGED <<line, line_start, field, done>>
        /\ pc # "start"
    BY DEF ChargeWhole
  <1>2. end \in Nat  BY ClocksIsNat DEF Types
  <1>3. LengthOf(line, field) \in Nat /\ RefreshClock(line_start) \in Nat /\ NmiAt \in Nat
        /\ done.irq_at \in Int
    <2>1. line_start \in Int /\ done.irq_at \in Int  BY DEF Types, DoneType
    <2> QED  BY <2>1, LengthIs, RefreshIs, Constants
  <1> HIDE DEF end
  <1>4. /\ end < LengthOf(line, field)
        /\ done.refresh \/ end < RefreshClock(line_start)
        /\ done.nmi \/ end < NmiAt
        /\ done.irq \/ end < done.irq_at
    BY <1>1, <1>2, <1>3 DEF Inside, RefreshInside, Flow
  <1> QED  BY <1>1, <1>4 DEF Quiet

LEMMA WaiQuietKept ==
    ASSUME Types, Flow, Quiet, WaiCycles
    PROVE  Quiet'
  <1>1. hclock' \in Nat /\ (hclock' = hclock \/ hclock' < WaiNext)  BY WaiSkips
  <1>2. UNCHANGED <<line, line_start, field, done>> /\ pc # "start"  BY DEF WaiCycles
  <1>3. LengthOf(line, field) \in Nat /\ RefreshClock(line_start) \in Nat /\ NmiAt \in Nat
        /\ done.irq_at \in Int /\ hclock \in Nat
    <2>1. line_start \in Int /\ done.irq_at \in Int /\ hclock \in Nat  BY DEF Types, DoneType
    <2> QED  BY <2>1, LengthIs, RefreshIs, Constants
  <1>4. /\ WaiNext \in Nat
        /\ WaiNext <= LengthOf(line, field)
        /\ ~done.refresh => WaiNext <= RefreshClock(line_start)
        /\ ~done.nmi => WaiNext <= NmiAt
        /\ ~done.irq => WaiNext <= done.irq_at
    BY <1>2, <1>3, WaiNextIs DEF Flow
  <1>5. /\ hclock' < LengthOf(line, field)
        /\ done.refresh \/ hclock' < RefreshClock(line_start)
        /\ done.nmi \/ hclock' < NmiAt
        /\ done.irq \/ hclock' < done.irq_at
    BY <1>1, <1>3, <1>4 DEF Quiet
  <1> QED  BY <1>2, <1>5 DEF Quiet

LEMMA OthersSettled ==
    ASSUME Types, Flow, Settled, Started \/ Others
    PROVE  Settled'
  <1>1. CASE Started
    <2>1. pc = "boundary" /\ pc' = "charge" /\ UNCHANGED <<clockVars, done>>
      BY <1>1, StartedIs
    <2> QED  BY <2>1 DEF Settled, Quiet, clockVars
  <1>2. CASE StartFrame
    <2>1. pc' = "advance"  BY <1>2 DEF StartFrame
    <2> QED  BY <1>2, <2>1, StartFrameQuiet DEF Settled
  <1>3. CASE ChargeWhole
    <2>1. pc' = "advance"  BY <1>3 DEF ChargeWhole
    <2> QED  BY <1>3, <2>1, ChargeWholeQuiet DEF Settled
  <1>4. CASE WaiCycles
    <2>1. Quiet /\ (done.hdma \/ hclock < HdmaClock)  BY <1>4 DEF WaiCycles, Settled
    <2>2. Quiet'  BY <1>4, <2>1, WaiQuietKept
    <2>3. pc' = "advance" \/ (pc' = "idle" /\ hclock' = hclock)  BY <1>4 DEF WaiCycles
    <2>4. done' = done  BY <1>4 DEF WaiCycles
    <2> QED  BY <2>1, <2>2, <2>3, <2>4 DEF Settled
  <1>5. CASE WaiWalk \/ ChargeWalk
    BY <1>5 DEF WaiWalk, ChargeWalk, Settled
  <1>6. CASE RdnmiRead \/ \E c \in Insns : RdnmiAccess(c)
    <2>1. pc \in {"boundary", "access"} /\ pc' \in {"access", "charge"}
          /\ UNCHANGED <<clockVars, done>>
      BY <1>6 DEF RdnmiRead, RdnmiAccess, BoundaryUnchanged
    <2> QED  BY <2>1 DEF Settled, Quiet, clockVars
  <1> QED  BY <1>1, <1>2, <1>3, <1>4, <1>5, <1>6 DEF Others

-----------------------------------------------------------------------------
(* The lines between the committed clock and the walk's.  A place is the   *)
(* start of a line, at a clock counted from the committed line's start.    *)

Place == [line : 0 .. Lines - 1, field : 0 .. 1, at : Int]

After(q) == [line |-> NextLine(q.line),
             field |-> IF NextLine(q.line) = 0 THEN 1 - q.field ELSE q.field,
             at |-> q.at + LengthOf(q.line, q.field)]

(* The line starts from a to b, m lines on.                                *)
Chain(p, m, a, b) ==
    /\ m \in Nat /\ p \in [0 .. m -> Place] /\ p[0] = a /\ p[m] = b
    /\ \A i \in 1 .. m : p[i] = After(p[i - 1])
    /\ \A i \in 0 .. m : p[i].at <= b.at

(* The same place once n clocks have been committed.                       *)
Back(q, n) == [line |-> q.line, field |-> q.field, at |-> q.at - n]

LEMMA AfterIs ==
    ASSUME NEW q \in Place
    PROVE  /\ After(q) \in Place /\ After(q).line = NextLine(q.line)
           /\ After(q).at = q.at + LengthOf(q.line, q.field) /\ q.at < After(q).at
           /\ After(q).field = IF NextLine(q.line) = 0 THEN 1 - q.field ELSE q.field
  <1>1. q.line \in 0 .. Lines - 1 /\ q.field \in 0 .. 1 /\ q.at \in Int  BY DEF Place
  <1>2. NextLine(q.line) \in 0 .. Lines - 1  BY <1>1, NextLineIs
  <1>3. LengthOf(q.line, q.field) \in Nat /\ LengthOf(q.line, q.field) > 0
    BY LengthIs, Constants
  <1> DEFINE n == LengthOf(q.line, q.field)
             l == NextLine(q.line)
             f == IF l = 0 THEN 1 - q.field ELSE q.field
  <1>4. After(q) = [line |-> l, field |-> f, at |-> q.at + n]  BY DEF After
  <1>5. f \in 0 .. 1  BY <1>1
  <1> HIDE DEF n, f, l
  <1>6. q.at + n \in Int /\ q.at < q.at + n /\ l \in 0 .. Lines - 1
    BY <1>1, <1>2, <1>3 DEF n, l
  <1>7. After(q) \in Place  BY <1>4, <1>5, <1>6 DEF Place
  <1> QED  BY <1>4, <1>6, <1>7 DEF n, l, f

LEMMA ChainNone ==
    ASSUME NEW a \in Place
    PROVE  Chain([i \in 0 .. 0 |-> a], 0, a, a)
  BY DEF Chain, Place

LEMMA ChainOn ==
    ASSUME NEW m, NEW p, NEW a, NEW b, Chain(p, m, a, b)
    PROVE  \E q : Chain(q, m + 1, a, After(b)) /\ \A i \in 0 .. m : q[i] = p[i]
  <1> DEFINE q == [i \in 0 .. m + 1 |-> IF i <= m THEN p[i] ELSE After(b)]
  <1>1. m \in Nat /\ p \in [0 .. m -> Place] /\ p[0] = a /\ p[m] = b
        /\ (\A i \in 1 .. m : p[i] = After(p[i - 1])) /\ (\A i \in 0 .. m : p[i].at <= b.at)
    BY DEF Chain
  <1>2. b \in Place  BY <1>1
  <1>3. After(b) \in Place /\ b.at < After(b).at  BY <1>2, AfterIs
  <1>4. \A i \in 0 .. m : p[i].at \in Int /\ b.at \in Int /\ After(b).at \in Int
    BY <1>1, <1>2, <1>3 DEF Place
  <1>5. q \in [0 .. m + 1 -> Place]  BY <1>1, <1>3
  <1>6. \A i \in 0 .. m : q[i] = p[i]  BY <1>1
  <1>7. q[0] = a /\ q[m + 1] = After(b)  BY <1>1
  <1>8. \A i \in 1 .. m + 1 : q[i] = After(q[i - 1])
    <2> TAKE i \in 1 .. m + 1
    <2>1. CASE i <= m
      <3>1. i \in 1 .. m /\ i \in 0 .. m /\ i - 1 \in 0 .. m  BY <1>1, <2>1
      <3>2. q[i] = p[i] /\ q[i - 1] = p[i - 1] /\ p[i] = After(p[i - 1])  BY <1>1, <1>6, <3>1
      <3> QED  BY <3>2
    <2>2. CASE i > m
      <3>1. i = m + 1 /\ i - 1 = m /\ m \in 0 .. m  BY <1>1, <2>2
      <3>2. q[i - 1] = p[m]  BY <1>6, <3>1
      <3> QED  BY <1>1, <1>7, <3>1, <3>2
    <2> QED  BY <1>1, <2>1, <2>2
  <1>9. \A i \in 0 .. m + 1 : q[i].at <= After(b).at
    <2> TAKE i \in 0 .. m + 1
    <2>1. CASE i <= m
      <3>1. i \in 0 .. m  BY <1>1, <2>1
      <3>2. q[i].at = p[i].at /\ p[i].at <= b.at  BY <1>1, <1>6, <3>1
      <3> QED  BY <1>3, <1>4, <3>1, <3>2
    <2>2. CASE i > m
      <3>1. i = m + 1 /\ 0 \in 0 .. m  BY <1>1, <2>2
      <3> QED  BY <1>4, <1>7, <3>1
    <2> QED  BY <1>1, <2>1, <2>2
  <1> HIDE DEF q
  <1>10. Chain(q, m + 1, a, After(b))  BY <1>1, <1>5, <1>7, <1>8, <1>9 DEF Chain
  <1> QED  BY <1>6, <1>10

LEMMA BackIs ==
    ASSUME NEW q \in Place, NEW n \in Int
    PROVE  /\ Back(q, n) \in Place /\ Back(q, n).line = q.line /\ Back(q, n).field = q.field
           /\ Back(q, n).at = q.at - n /\ After(Back(q, n)) = Back(After(q), n)
  <1>1. Back(q, n) \in Place /\ Back(q, n).line = q.line /\ Back(q, n).field = q.field
        /\ Back(q, n).at = q.at - n
    BY DEF Back, Place
  <1> DEFINE k1 == LengthOf(q.line, q.field)
             l == NextLine(q.line)
             f == IF l = 0 THEN 1 - q.field ELSE q.field
  <1>2. k1 \in Int /\ q.at \in Int  BY LengthIs DEF Place
  <1>3. After(Back(q, n)) = [line |-> l, field |-> f, at |-> (q.at - n) + k1]
    BY <1>1 DEF After
  <1>4. After(q).line = l /\ After(q).field = f /\ After(q).at = q.at + k1  BY DEF After
  <1>5. Back(After(q), n) = [line |-> l, field |-> f, at |-> (q.at + k1) - n]
    BY <1>4 DEF Back
  <1> HIDE DEF k1, l, f
  <1>6. (q.at - n) + k1 = (q.at + k1) - n  BY <1>2
  <1> QED  BY <1>1, <1>3, <1>5, <1>6

LEMMA ChainOff ==
    ASSUME NEW m, NEW p, NEW a, NEW b, Chain(p, m, a, b), m # 0, NEW n \in Int
    PROVE  \E q : /\ Chain(q, m - 1, Back(After(a), n), Back(b, n))
                  /\ \A i \in 0 .. m - 1 : q[i] = Back(p[i + 1], n)
                  /\ After(a).at <= b.at
  <1> DEFINE q == [i \in 0 .. m - 1 |-> Back(p[i + 1], n)]
  <1>1. m \in Nat /\ p \in [0 .. m -> Place] /\ p[0] = a /\ p[m] = b
        /\ (\A i \in 1 .. m : p[i] = After(p[i - 1])) /\ (\A i \in 0 .. m : p[i].at <= b.at)
    BY DEF Chain
  <1>2. m - 1 \in Nat  BY <1>1
  <1>3. \A i \in 0 .. m - 1 : i + 1 \in 1 .. m /\ i + 1 \in 0 .. m /\ p[i + 1] \in Place
                              /\ q[i] = Back(p[i + 1], n)
    BY <1>1
  <1>4. q \in [0 .. m - 1 -> Place]  BY <1>3, BackIs
  <1>5. p[1] = After(a)
    <2>1. 1 \in 1 .. m /\ 1 - 1 = 0  BY <1>1
    <2> QED  BY <1>1, <2>1
  <1>6. q[0] = Back(After(a), n) /\ q[m - 1] = Back(b, n)
    <2>1. 0 \in 0 .. m - 1 /\ m - 1 \in 0 .. m - 1 /\ 0 + 1 = 1 /\ (m - 1) + 1 = m
      BY <1>1, <1>2
    <2> QED  BY <1>1, <1>3, <1>5, <2>1
  <1>7. \A i \in 1 .. m - 1 : q[i] = After(q[i - 1])
    <2> TAKE i \in 1 .. m - 1
    <2>1. i \in 0 .. m - 1 /\ i - 1 \in 0 .. m - 1 /\ (i - 1) + 1 = i /\ (i + 1) - 1 = i
          /\ i \in 0 .. m /\ i + 1 \in 1 .. m
      BY <1>1, <1>2
    <2>2. q[i] = Back(p[i + 1], n) /\ q[i - 1] = Back(p[i], n)  BY <1>3, <2>1
    <2>3. p[i + 1] = After(p[i]) /\ p[i] \in Place  BY <1>1, <2>1
    <2> QED  BY <2>2, <2>3, BackIs
  <1>8. \A i \in 0 .. m - 1 : q[i].at <= Back(b, n).at
    <2> TAKE i \in 0 .. m - 1
    <2>1. p[i + 1] \in Place /\ b \in Place /\ p[i + 1].at <= b.at  BY <1>1, <1>3
    <2>2. q[i].at = p[i + 1].at - n /\ Back(b, n).at = b.at - n  BY <1>3, <2>1, BackIs
    <2>3. p[i + 1].at \in Int /\ b.at \in Int  BY <2>1 DEF Place
    <2> QED  BY <2>1, <2>2, <2>3
  <1>9. After(a).at <= b.at
    <2>1. 1 \in 0 .. m  BY <1>1
    <2> QED  BY <1>1, <1>5, <2>1
  <1> HIDE DEF q
  <1>10. Chain(q, m - 1, Back(After(a), n), Back(b, n))
    BY <1>2, <1>4, <1>6, <1>7, <1>8 DEF Chain
  <1> QED  BY <1>3, <1>9, <1>10

-----------------------------------------------------------------------------
(* The walk and its commit.  The walk runs ahead of the committed clock,   *)
(* by m lines; what it has met there is what advance is going to meet.     *)

Committing == pc = "advance" /\ walked
Ahead == Walking \/ Committing

(* All clocks are counted from the start of the committed line: the start  *)
(* of the walk's line, the clock no event behind which is left to meet,    *)
(* the clock up to which events may have been met, and the refreshes the   *)
(* walk paid for beyond advance's.                                         *)
Dist == IF Walking THEN w.ls ELSE hclock - w.t + w.ls
Reached == IF Walking THEN w.t ELSE hclock
Front == IF Passing THEN w.t + Head(todo).n ELSE Reached
Paid == IF Walking THEN w.refreshes ELSE refresh_paid

Here == [line |-> line, field |-> field, at |-> 0]
There == [line |-> w.line, field |-> w.field, at |-> Dist]

Bit(b) == IF b THEN 1 ELSE 0

(* What is met of the committed line is met in the walk's, if it is the    *)
(* same one; the timer matches where the registers say.                    *)
Flags(m) ==
    /\ m = 0 => /\ done.refresh => w.done.refresh
                /\ line < VBlankLine /\ done.hdma => w.done.hdma
                /\ line = VBlankLine /\ done.nmi => w.done.nmi
                /\ w.done.irq_at = done.irq_at
                /\ done.irq_at >= 0 /\ done.irq => w.done.irq
    /\ m > 0 => w.done.irq_at = IrqClockFor(w.line)

(* What the walk met is due, and what it has not is not.                   *)
Met(m) ==
    /\ w.done.refresh /\ (m = 0 => ~done.refresh) =>
         Dist + RefreshClock(line_start + Dist) <= Front
    /\ w.line < VBlankLine /\ w.done.hdma /\ (m = 0 => ~done.hdma) => Dist + HdmaClock <= Front
    /\ w.line = VBlankLine /\ w.done.nmi /\ (m = 0 => ~done.nmi) => Dist + NmiAt <= Front
    /\ w.done.irq /\ (m = 0 => ~done.irq) => Dist + w.done.irq_at <= Front
    /\ Dist <= Front

Unmet ==
    /\ ~w.done.refresh => Dist + RefreshClock(line_start + Dist) > Reached
    /\ w.line < VBlankLine /\ ~w.done.hdma => Dist + HdmaClock > Reached
    /\ w.line = VBlankLine /\ ~w.done.nmi => Dist + NmiAt > Reached
    /\ ~w.done.irq /\ w.done.irq_at >= 0 => Dist + w.done.irq_at > Reached
    /\ Dist + LengthOf(w.line, w.field) > Reached

PaidFor(m) == Paid = m + Bit(w.done.refresh) - Bit(done.refresh)

(* The timer matches on the i-th line ahead, at a clock already met.       *)
Raised(m, p) ==
    \E i \in 0 .. m :
        LET a == IF i = 0 THEN done.irq_at ELSE IrqClockFor(p[i].line) IN
        /\ i = 0 => ~done.irq
        /\ a >= 0 /\ p[i].at + a <= Front

(* TIMEUP follows the IRQ line when advance gets to the match.             *)
TimeupFollows(m, p) ==
    /\ timeup => pend.irq_line
    /\ pend.irq_line /\ ~timeup => Raised(m, p)

Follows(m, p) ==
    /\ Chain(p, m, Here, There)
    /\ Flags(m) /\ Met(m) /\ Unmet /\ PaidFor(m) /\ TimeupFollows(m, p)

Sim == Ahead => \E m, p : Follows(m, p)

LEMMA AheadTypes ==
    ASSUME Types, Flow, Ahead
    PROVE  /\ Dist \in Int /\ Reached \in Nat /\ Front \in Nat /\ Paid \in Nat
           /\ Reached <= Front /\ Here \in Place /\ There \in Place
           /\ w.done \in DoneType /\ done \in DoneType /\ line_start \in Int
           /\ w.line \in 0 .. Lines - 1 /\ line \in 0 .. Lines - 1
           /\ RefreshClock(line_start + Dist) \in Nat
           /\ (~Passing => Front = Reached)
           /\ (Passing => Head(todo) \in StepType /\ Head(todo).n \in Nat)
  <1>1. /\ w \in WalkType /\ w.t \in Nat /\ w.ls \in Nat /\ w.line \in 0 .. Lines - 1
        /\ w.field \in 0 .. 1 /\ w.refreshes \in Nat /\ w.done \in DoneType
        /\ hclock \in Nat /\ refresh_paid \in Nat /\ line \in 0 .. Lines - 1 /\ field \in 0 .. 1
        /\ done \in DoneType /\ line_start \in Int
    BY DEF Types, WalkType
  <1>2. Dist \in Int /\ Reached \in Nat /\ Paid \in Nat  BY <1>1 DEF Dist, Reached, Paid
  <1>3. Passing => Head(todo) \in StepType /\ Head(todo).n \in Nat /\ Reached = w.t
    <2> SUFFICES ASSUME Passing PROVE Head(todo) \in StepType /\ Head(todo).n \in Nat
                                      /\ Reached = w.t
      OBVIOUS
    <2>1. Walking /\ todo \in Seq(StepType) /\ todo # <<>>  BY DEF Passing, Flow, Shape, Types
    <2>2. Head(todo) \in StepType  BY <2>1
    <2> QED  BY <2>1, <2>2 DEF StepType, Reached
  <1>4. Front \in Nat /\ Reached <= Front /\ (~Passing => Front = Reached)
    BY <1>1, <1>2, <1>3 DEF Front
  <1>5. line_start + Dist \in Int  BY <1>1, <1>2
  <1>6. RefreshClock(line_start + Dist) \in Nat  BY <1>5, RefreshIs
  <1>7. Here \in Place /\ There \in Place  BY <1>1, <1>2 DEF Here, There, Place
  <1> QED  BY <1>1, <1>2, <1>3, <1>4, <1>6, <1>7

LEMMA IrqKept ==
    ASSUME UNCHANGED <<nmitimen, htime, vtime>>
    PROVE  \A l : IrqClockFor(l)' = IrqClockFor(l)
  BY DEF IrqClockFor

(* The chain's places keep their clocks as long as the committed line does.*)
LEMMA RaisedKept ==
    ASSUME NEW m, NEW p, Raised(m, p), Chain(p, m, Here, There),
           UNCHANGED <<done, nmitimen, htime, vtime>>, Types,
           Front \in Int, Front' \in Int, Front <= Front'
    PROVE  Raised(m, p)'
  <1>1. PICK i \in 0 .. m :
          LET a == IF i = 0 THEN done.irq_at ELSE IrqClockFor(p[i].line) IN
          /\ i = 0 => ~done.irq
          /\ a >= 0 /\ p[i].at + a <= Front
    BY DEF Raised
  <1> DEFINE a == IF i = 0 THEN done.irq_at ELSE IrqClockFor(p[i].line)
  <1>2. a' = a  BY IrqKept
  <1>3. a \in Int  BY IrqIs DEF Types, DoneType
  <1>4. p[i].at \in Int  BY DEF Chain, Place
  <1>5. (i = 0 => ~done'.irq) /\ a >= 0 /\ p[i].at + a <= Front  BY <1>1
  <1> HIDE DEF a
  <1>6. p[i].at + a <= Front'  BY <1>3, <1>4, <1>5
  <1>7. a' >= 0 /\ p[i].at + a' <= Front'  BY <1>2, <1>5, <1>6
  <1> QED  BY <1>5, <1>7 DEF Raised, a

(* A step that meets no event, of the walk's or of advance's.              *)
LEMMA FollowsKept ==
    ASSUME Types, Flow, Ahead, NEW m, NEW p, Follows(m, p),
           UNCHANGED <<line, line_start, field, done, nmitimen, htime, vtime, timeup>>,
           pend'.irq_line = pend.irq_line, w'.line = w.line, w'.field = w.field,
           w'.done.refresh = w.done.refresh, w'.done.hdma = w.done.hdma,
           w'.done.nmi = w.done.nmi, w'.done.irq = w.done.irq, w'.done.irq_at = w.done.irq_at,
           Dist' = Dist, Paid' = Paid, Front' \in Int, Front <= Front', Unmet'
    PROVE  Follows(m, p)'
  <1>1. UNCHANGED <<line, line_start, field, done, nmitimen, htime, vtime, timeup>>
    OBVIOUS
  <1>2. \A l : IrqClockFor(l)' = IrqClockFor(l)  BY <1>1, IrqKept
  <1>3. /\ Dist \in Int /\ Front \in Int /\ RefreshClock(line_start + Dist) \in Int
        /\ HdmaClock \in Int /\ NmiAt \in Int /\ w.done.irq_at \in Int
    BY AheadTypes, Constants DEF DoneType
  <1>4. Here' = Here /\ There' = There  BY <1>1 DEF Here, There
  <1>5. Chain(p, m, Here, There)'  BY <1>4 DEF Follows
  <1>6. Flags(m)'  BY <1>1, <1>2 DEF Follows, Flags
  <1>7. Met(m)'
    <2>1. RefreshClock(line_start + Dist)' = RefreshClock(line_start + Dist)  BY <1>1
    <2>2. Met(m)  BY DEF Follows
    <2> DEFINE r == RefreshClock(line_start + Dist)
    <2>3. r' = r /\ r \in Int  BY <1>3, <2>1
    <2>4. /\ w.done.refresh /\ (m = 0 => ~done.refresh) => Dist + r <= Front
          /\ w.line < VBlankLine /\ w.done.hdma /\ (m = 0 => ~done.hdma) => Dist + HdmaClock <= Front
          /\ w.line = VBlankLine /\ w.done.nmi /\ (m = 0 => ~done.nmi) => Dist + NmiAt <= Front
          /\ w.done.irq /\ (m = 0 => ~done.irq) => Dist + w.done.irq_at <= Front
          /\ Dist <= Front
      BY <2>2 DEF Met
    <2> HIDE DEF r
    <2>5. /\ w.done.refresh /\ (m = 0 => ~done.refresh) => Dist + r <= Front'
          /\ w.line < VBlankLine /\ w.done.hdma /\ (m = 0 => ~done.hdma) => Dist + HdmaClock <= Front'
          /\ w.line = VBlankLine /\ w.done.nmi /\ (m = 0 => ~done.nmi) => Dist + NmiAt <= Front'
          /\ w.done.irq /\ (m = 0 => ~done.irq) => Dist + w.done.irq_at <= Front'
          /\ Dist <= Front'
      BY <1>3, <2>3, <2>4
    <2>6. /\ w'.done.refresh /\ (m = 0 => ~done'.refresh) => Dist' + r' <= Front'
          /\ w'.line < VBlankLine /\ w'.done.hdma /\ (m = 0 => ~done'.hdma) => Dist' + HdmaClock <= Front'
          /\ w'.line = VBlankLine /\ w'.done.nmi /\ (m = 0 => ~done'.nmi) => Dist' + NmiAt <= Front'
          /\ w'.done.irq /\ (m = 0 => ~done'.irq) => Dist' + w'.done.irq_at <= Front'
          /\ Dist' <= Front'
      BY <1>1, <2>3, <2>5
    <2> QED  BY <2>6 DEF Met, r
  <1>8. PaidFor(m)'  BY <1>1 DEF Follows, PaidFor, Bit
  <1>9. TimeupFollows(m, p)'
    <2>1. Raised(m, p) => Raised(m, p)'  BY <1>1, <1>3, RaisedKept DEF Follows
    <2> QED  BY <1>1, <2>1 DEF Follows, TimeupFollows
  <1> QED  BY <1>5, <1>6, <1>7, <1>8, <1>9 DEF Follows

(* The steps of a cycle other than a pass take no time; a pass whose       *)
(* clocks are over has met every event up to its end.                      *)
LEMMA StepFollows ==
    ASSUME Types, Flow, NEW m, NEW p, Follows(m, p), WalkStep, Types', Flow'
    PROVE  Follows(m, p)' /\ Walking'
  <1>1. WalkUnchanged /\ Walking
    BY WalkStepIs DEF WalkStep, WalkPassed, NoTransfer, SyncTransfer, Transfer, DmaUnit,
       DmaPending, TransferWait, CycleSample
  <1>2. Walking' /\ Ahead  BY <1>1 DEF WalkUnchanged, Walking, Ahead
  <1>3. UNCHANGED <<line, line_start, field, done, nmitimen, htime, vtime, timeup>>
    BY <1>1 DEF WalkUnchanged, clockVars, regVars, flagVars
  <1>4. pend'.irq_line = pend.irq_line
    <2>1. pend \in PendType  BY DEF Types
    <2> QED
      BY <2>1 DEF WalkStep, WalkPassed, NoTransfer, SyncTransfer, Transfer, DmaUnit, DmaPending,
         TransferWait, CycleSample, PendType
  <1>5. /\ Dist \in Int /\ Reached \in Nat /\ Front \in Nat /\ Reached <= Front
        /\ w.done \in DoneType /\ RefreshClock(line_start + Dist) \in Nat
        /\ (Passing => Head(todo).n \in Nat) /\ (~Passing => Front = Reached)
    BY <1>2, AheadTypes
  <1>6. w \in WalkType  BY DEF Types
  <1>7. /\ w'.line = w.line /\ w'.field = w.field /\ w'.done = w.done /\ w'.ls = w.ls
        /\ w'.refreshes = w.refreshes
        /\ w'.t = IF WalkPassed THEN w.t + Head(todo).n ELSE w.t
    <2>1. CASE WalkPassed  BY <1>6, <2>1 DEF WalkPassed, WalkType
    <2>2. CASE ~WalkPassed
      BY <2>2 DEF WalkStep, NoTransfer, SyncTransfer, Transfer, DmaUnit, DmaPending,
         TransferWait, CycleSample
    <2> QED  BY <2>1, <2>2
  <1>8. Dist' = Dist /\ Paid' = Paid  BY <1>1, <1>2, <1>7 DEF Dist, Paid
  <1>9. Reached' = Front
    <2>1. CASE WalkPassed
      <3>1. Passing  BY <2>1 DEF WalkPassed
      <3> QED  BY <1>2, <1>7, <2>1, <3>1 DEF Reached, Front
    <2>2. CASE ~WalkPassed
      <3>1. ~Passing
        BY <2>2 DEF WalkStep, NoTransfer, SyncTransfer, Transfer, DmaUnit, DmaPending,
           TransferWait, CycleSample, At, Passing
      <3> QED  BY <1>1, <1>2, <1>7, <2>2, <3>1 DEF Reached, Front
    <2> QED  BY <2>1, <2>2
  <1>10. Front' \in Int /\ Front <= Front'
    <2>1. Passing' => todo' \in Seq(StepType) /\ todo' # <<>>
      BY <1>2 DEF Types, Flow, Shape
    <2>2. Passing' => Head(todo') \in StepType  BY <2>1
    <2>3. Passing' => Head(todo').n \in Nat  BY <2>2 DEF StepType
    <2>4. Front' = IF Passing' THEN Reached' + Head(todo').n ELSE Reached'
      BY <1>2 DEF Front, Reached
    <2> QED  BY <1>5, <1>9, <2>3, <2>4
  <1>11. Unmet'
    <2>1. CASE WalkPassed
      <3>1. w.ls + NextEvent[1] > Front /\ Dist = w.ls
        BY <1>1, <2>1 DEF WalkPassed, Front, Dist
      <3>2. /\ NextEvent[1] \in Nat
            /\ NextEvent[1] <= LengthOf(w.line, w.field)
            /\ w.line = VBlankLine /\ ~w.done.nmi => NextEvent[1] <= NmiAt
            /\ ~w.done.irq /\ w.done.irq_at >= 0 => NextEvent[1] <= w.done.irq_at
            /\ ~w.done.refresh => NextEvent[1] <= RefreshClock(line_start + Dist)
            /\ w.line < VBlankLine /\ ~w.done.hdma => NextEvent[1] <= HdmaClock
        BY <3>1, Nearest
      <3>3. LengthOf(w.line, w.field) \in Nat /\ HdmaClock \in Nat /\ NmiAt \in Nat
            /\ w.done.irq_at \in Int
        BY <1>5, LengthIs, Constants DEF DoneType
      <3>4. line_start' = line_start  BY <1>3
      <3> DEFINE r == RefreshClock(line_start + Dist)
      <3>5. r' = r /\ r \in Nat  BY <1>5, <1>8, <3>4
      <3>6. ~w.done.refresh => NextEvent[1] <= r  BY <3>2
      <3> HIDE DEF r
      <3>7. /\ ~w.done.refresh => Dist + r > Front
            /\ w.line < VBlankLine /\ ~w.done.hdma => Dist + HdmaClock > Front
            /\ w.line = VBlankLine /\ ~w.done.nmi => Dist + NmiAt > Front
            /\ ~w.done.irq /\ w.done.irq_at >= 0 => Dist + w.done.irq_at > Front
            /\ Dist + LengthOf(w.line, w.field) > Front
        BY <1>5, <3>1, <3>2, <3>3, <3>5, <3>6
      <3>8. /\ ~w'.done.refresh => Dist' + r' > Reached'
            /\ w'.line < VBlankLine /\ ~w'.done.hdma => Dist' + HdmaClock > Reached'
            /\ w'.line = VBlankLine /\ ~w'.done.nmi => Dist' + NmiAt > Reached'
            /\ ~w'.done.irq /\ w'.done.irq_at >= 0 => Dist' + w'.done.irq_at > Reached'
            /\ Dist' + LengthOf(w'.line, w'.field) > Reached'
        BY <1>7, <1>8, <1>9, <3>5, <3>7
      <3> QED  BY <3>8 DEF Unmet, r
    <2>2. CASE ~WalkPassed
      <3>1. Reached' = Reached  BY <1>1, <1>2, <1>7, <2>2 DEF Reached
      <3>2. line_start' = line_start  BY <1>3
      <3> QED  BY <1>7, <1>8, <3>1, <3>2 DEF Follows, Unmet
    <2> QED  BY <2>1, <2>2
  <1> QED  BY <1>2, <1>3, <1>4, <1>7, <1>8, <1>10, <1>11, FollowsKept

(* The end of a cycle, and the end of the walk: its clock becomes the      *)
(* committed one.                                                          *)
LEMMA AfterFollows ==
    ASSUME Types, Flow, NEW m, NEW p, Follows(m, p), AfterCycle \/ WalkDone, Types', Flow'
    PROVE  Follows(m, p)' /\ Ahead'
  <1>1. Walking /\ ~Passing  BY DEF AfterCycle, WalkDone, At, Passing
  <1>2. Ahead /\ Ahead'
    BY <1>1 DEF AfterCycle, WalkDone, Ahead, Walking, Committing
  <1>3. UNCHANGED <<line, line_start, field, done, nmitimen, htime, vtime, timeup>> /\ w' = w
    BY DEF AfterCycle, WalkDone, clockVars, regVars, flagVars
  <1>4. pend'.irq_line = pend.irq_line
    <2>1. pend \in PendType  BY DEF Types
    <2> QED  BY <2>1 DEF AfterCycle, WalkDone, AfterAccess, PendType
  <1>5. /\ Dist \in Int /\ Reached \in Nat /\ Front = Reached
    BY <1>1, <1>2, AheadTypes
  <1>6. w.t \in Nat /\ w.ls \in Nat /\ w.refreshes \in Nat  BY DEF Types, WalkType
  <1>7. Dist' = Dist /\ Reached' = Reached /\ Paid' = Paid
    <2>1. CASE AfterCycle
      BY <1>1, <1>3, <2>1 DEF AfterCycle, Walking, Dist, Reached, Paid
    <2>2. CASE WalkDone
      <3>1. hclock' = w.t /\ refresh_paid' = 0 + w.refreshes /\ ~Walking'
        BY <2>2 DEF WalkDone, Committed, Flow, Walking
      <3> QED  BY <1>1, <1>3, <1>6, <3>1 DEF Dist, Reached, Paid
    <2> QED  BY <2>1, <2>2
  <1>8. Front' \in Int /\ Front <= Front'
    <2>1. Passing' => todo' \in Seq(StepType) /\ todo' # <<>> /\ Walking'
      BY DEF Types, Flow, Shape, Passing
    <2>2. Passing' => Head(todo') \in StepType  BY <2>1
    <2>3. Passing' => Head(todo').n \in Nat  BY <2>2 DEF StepType
    <2>4. Front' = IF Passing' THEN Reached' + Head(todo').n ELSE Reached'
      BY <2>1 DEF Front, Reached
    <2> QED  BY <1>5, <1>7, <2>3, <2>4
  <1>9. Unmet'  BY <1>3, <1>7 DEF Follows, Unmet
  <1> QED  BY <1>2, <1>3, <1>4, <1>5, <1>7, <1>8, <1>9, FollowsKept

(* An event the walk meets leaves its clocks where they were, but for the  *)
(* pause of a refresh.                                                     *)
LEMMA MetIs ==
    ASSUME Types, Flow, EventStep
    PROVE  /\ Walking /\ Passing /\ Ahead /\ Walking' /\ Passing' /\ Ahead'
           /\ UNCHANGED <<line, line_start, field, done, nmitimen, htime, vtime, timeup, refresh_paid>>
           /\ Reached' = Reached /\ Front \in Nat /\ Front' \in Int /\ Front <= Front'
           /\ Dist = w.ls /\ w.ls + NextEvent[1] <= Front /\ Paid = w.refreshes
           /\ Dist' = w'.ls /\ Paid' = w'.refreshes
  <1>1. /\ Walking /\ Passing /\ WalkUnchanged /\ todo # <<>> /\ Len(todo') = Len(todo)
        /\ \A i \in 1 .. Len(todo) : todo'[i].op = todo[i].op
    BY EventIs
  <1>2. todo \in Seq(StepType) /\ w \in WalkType /\ todo' \in Seq(StepType)
    BY EventTypes DEF Types
  <1>3. Ahead /\ Walking' /\ Ahead'  BY <1>1 DEF WalkUnchanged, Walking, Ahead
  <1>4. Head(todo) = todo[1] /\ Head(todo') = todo'[1] /\ 1 \in 1 .. Len(todo)  BY <1>1, <1>2
  <1>5. Passing'  BY <1>1, <1>3, <1>4 DEF Passing
  <1>6. w'.t = w.t
    BY <1>2 DEF EventStep, WalkRefresh, WalkHdma, WalkHdmaInit, WalkNmi, WalkIrq, WalkEndLine,
       WalkType
  <1>7. todo[1].n \in Nat /\ (todo'[1].n = todo[1].n \/ todo'[1].n = todo[1].n + RefreshClocks)
    <2>1. todo[1] \in StepType  BY <1>2, <1>4
    <2>2. CASE WalkRefresh
      <3> DEFINE n == todo[1].n + RefreshClocks
                 x == IF w.ls + NextEvent[1] <= w.t + todo[1].smp
                      THEN todo[1].smp + RefreshClocks ELSE todo[1].smp
      <3>1. todo' = [todo EXCEPT ![1] = [todo[1] EXCEPT !.n = n, !.smp = x]]
        BY <1>4, <2>2 DEF WalkRefresh
      <3> HIDE DEF n, x
      <3>2. todo'[1].n = n  BY <1>2, <1>4, <2>1, <3>1 DEF StepType
      <3> QED  BY <2>1, <3>2 DEF n, StepType
    <2>3. CASE ~WalkRefresh
      BY <2>1, <2>3 DEF EventStep, WalkHdma, WalkHdmaInit, WalkNmi, WalkIrq, WalkEndLine, StepType
    <2> QED  BY <2>2, <2>3
  <1>8. w.t \in Nat  BY <1>2 DEF WalkType
  <1>9. Reached' = Reached  BY <1>1, <1>3, <1>6 DEF Reached
  <1>10. Front = w.t + todo[1].n /\ Front' = w.t + todo'[1].n
    BY <1>1, <1>4, <1>5, <1>6 DEF Front
  <1>11. Front \in Nat /\ Front' \in Int /\ Front <= Front'  BY <1>7, <1>8, <1>10, Constants
  <1>12. w.ls + NextEvent[1] <= Front
    BY <1>4, <1>10 DEF EventStep, WalkRefresh, WalkHdma, WalkHdmaInit, WalkNmi, WalkIrq,
       WalkEndLine, Meets
  <1>13. Dist = w.ls /\ Dist' = w'.ls /\ Paid = w.refreshes /\ Paid' = w'.refreshes
    BY <1>1, <1>3 DEF Dist, Paid
  <1>14. UNCHANGED <<line, line_start, field, done, nmitimen, htime, vtime, timeup, refresh_paid>>
    BY <1>1 DEF WalkUnchanged, clockVars, regVars, flagVars
  <1> QED  BY <1>1, <1>3, <1>5, <1>9, <1>11, <1>12, <1>13, <1>14

(* An event of the walk's line is marked as met.                           *)
LEMMA FollowsMarked ==
    ASSUME Types, Flow, Ahead, NEW m, NEW p, Follows(m, p),
           UNCHANGED <<line, line_start, field, done, nmitimen, htime, vtime, timeup>>,
           w'.line = w.line, w'.field = w.field, w'.done.irq_at = w.done.irq_at,
           Dist' = Dist, Reached' = Reached, Front' \in Int, Front <= Front',
           w.done.refresh => w'.done.refresh, w.done.hdma => w'.done.hdma,
           w.done.nmi => w'.done.nmi, w.done.irq => w'.done.irq,
           w'.done.refresh => w.done.refresh \/ Dist + RefreshClock(line_start + Dist) <= Front,
           w'.done.hdma => w.done.hdma \/ Dist + HdmaClock <= Front,
           w'.done.nmi => w.done.nmi \/ Dist + NmiAt <= Front,
           w'.done.irq => w.done.irq \/ Dist + w.done.irq_at <= Front,
           Paid' = Paid + Bit(w'.done.refresh) - Bit(w.done.refresh),
           TimeupFollows(m, p)'
    PROVE  Follows(m, p)'
  <1>1. \A l : IrqClockFor(l)' = IrqClockFor(l)  BY IrqKept
  <1>2. /\ Dist \in Int /\ Front \in Int /\ RefreshClock(line_start + Dist) \in Int
        /\ HdmaClock \in Int /\ NmiAt \in Int /\ w.done.irq_at \in Int /\ Paid \in Int
    BY AheadTypes, Constants DEF DoneType
  <1>3. Here' = Here /\ There' = There  BY DEF Here, There
  <1>4. Chain(p, m, Here, There)'  BY <1>3 DEF Follows
  <1>5. Flags(m)'  BY <1>1 DEF Follows, Flags
  <1> DEFINE r == RefreshClock(line_start + Dist)
  <1>6. r' = r /\ r \in Int  BY <1>2
  <1>7. w'.done.refresh => w.done.refresh \/ Dist + r <= Front  OBVIOUS
  <1>8. Met(m)'
    <2>1. /\ w.done.refresh /\ (m = 0 => ~done.refresh) => Dist + r <= Front
          /\ w.line < VBlankLine /\ w.done.hdma /\ (m = 0 => ~done.hdma) => Dist + HdmaClock <= Front
          /\ w.line = VBlankLine /\ w.done.nmi /\ (m = 0 => ~done.nmi) => Dist + NmiAt <= Front
          /\ w.done.irq /\ (m = 0 => ~done.irq) => Dist + w.done.irq_at <= Front
          /\ Dist <= Front
      BY DEF Follows, Met
    <2> HIDE DEF r
    <2>2. /\ w'.done.refresh /\ (m = 0 => ~done.refresh) => Dist + r <= Front
          /\ w.line < VBlankLine /\ w'.done.hdma /\ (m = 0 => ~done.hdma) => Dist + HdmaClock <= Front
          /\ w.line = VBlankLine /\ w'.done.nmi /\ (m = 0 => ~done.nmi) => Dist + NmiAt <= Front
          /\ w'.done.irq /\ (m = 0 => ~done.irq) => Dist + w.done.irq_at <= Front
          /\ Dist <= Front
      BY <1>7, <2>1
    <2>3. /\ w'.done.refresh /\ (m = 0 => ~done.refresh) => Dist + r <= Front'
          /\ w.line < VBlankLine /\ w'.done.hdma /\ (m = 0 => ~done.hdma) => Dist + HdmaClock <= Front'
          /\ w.line = VBlankLine /\ w'.done.nmi /\ (m = 0 => ~done.nmi) => Dist + NmiAt <= Front'
          /\ w'.done.irq /\ (m = 0 => ~done.irq) => Dist + w.done.irq_at <= Front'
          /\ Dist <= Front'
      BY <1>2, <1>6, <2>2
    <2>4. /\ w'.done.refresh /\ (m = 0 => ~done'.refresh) => Dist' + r' <= Front'
          /\ w'.line < VBlankLine /\ w'.done.hdma /\ (m = 0 => ~done'.hdma) => Dist' + HdmaClock <= Front'
          /\ w'.line = VBlankLine /\ w'.done.nmi /\ (m = 0 => ~done'.nmi) => Dist' + NmiAt <= Front'
          /\ w'.done.irq /\ (m = 0 => ~done'.irq) => Dist' + w'.done.irq_at <= Front'
          /\ Dist' <= Front'
      BY <1>6, <2>3
    <2> QED  BY <2>4 DEF Met, r
  <1>9. Unmet'
    <2>1. /\ ~w.done.refresh => Dist + r > Reached
          /\ w.line < VBlankLine /\ ~w.done.hdma => Dist + HdmaClock > Reached
          /\ w.line = VBlankLine /\ ~w.done.nmi => Dist + NmiAt > Reached
          /\ ~w.done.irq /\ w.done.irq_at >= 0 => Dist + w.done.irq_at > Reached
          /\ Dist + LengthOf(w.line, w.field) > Reached
      BY DEF Follows, Unmet
    <2> HIDE DEF r
    <2>2. /\ ~w'.done.refresh => Dist' + r' > Reached'
          /\ w'.line < VBlankLine /\ ~w'.done.hdma => Dist' + HdmaClock > Reached'
          /\ w'.line = VBlankLine /\ ~w'.done.nmi => Dist' + NmiAt > Reached'
          /\ ~w'.done.irq /\ w'.done.irq_at >= 0 => Dist' + w'.done.irq_at > Reached'
          /\ Dist' + LengthOf(w'.line, w'.field) > Reached'
      BY <1>6, <2>1
    <2> QED  BY <2>2 DEF Unmet, r
  <1>10. PaidFor(m)'
    <2>1. Paid = m + Bit(w.done.refresh) - Bit(done.refresh) /\ m \in Int
      BY DEF Follows, PaidFor, Chain
    <2>2. \A b : Bit(b) \in Int  BY DEF Bit
    <2>3. Paid' = m + Bit(w'.done.refresh) - Bit(done.refresh)  BY <1>2, <2>1, <2>2
    <2> QED  BY <2>3 DEF PaidFor
  <1> QED  BY <1>4, <1>5, <1>8, <1>9, <1>10 DEF Follows

LEMMA EventFollows ==
    ASSUME Types, Flow, NEW m, NEW p, Follows(m, p),
           WalkRefresh \/ WalkHdma \/ WalkHdmaInit \/ WalkNmi \/ WalkIrq
    PROVE  Follows(m, p)'
  <1>1. EventStep  BY DEF EventStep
  <1>2. /\ Passing /\ Ahead
        /\ UNCHANGED <<line, line_start, field, done, nmitimen, htime, vtime, timeup, refresh_paid>>
        /\ Reached' = Reached /\ Front \in Nat /\ Front' \in Int /\ Front <= Front'
        /\ Dist = w.ls /\ w.ls + NextEvent[1] <= Front /\ Paid = w.refreshes
        /\ Dist' = w'.ls /\ Paid' = w'.refreshes
    BY <1>1, MetIs
  <1>3. w \in WalkType /\ w.done \in DoneType /\ pend \in PendType  BY DEF Types, WalkType
  <1>4. w'.line = w.line /\ w'.field = w.field /\ w'.ls = w.ls
        /\ w'.done.irq_at = w.done.irq_at
    <2>1. CASE WalkRefresh  BY <1>3, <2>1 DEF WalkRefresh, WalkType, DoneType
    <2>2. CASE WalkHdma  BY <1>3, <2>2 DEF WalkHdma, WalkType, DoneType
    <2>3. CASE WalkHdmaInit  BY <1>3, <2>3 DEF WalkHdmaInit, WalkType, DoneType
    <2>4. CASE WalkNmi  BY <1>3, <2>4 DEF WalkNmi, WalkType, DoneType
    <2>5. CASE WalkIrq  BY <1>3, <2>5 DEF WalkIrq, WalkType, DoneType
    <2> QED  BY <2>1, <2>2, <2>3, <2>4, <2>5
  <1>5. Chain(p, m, Here, There) /\ TimeupFollows(m, p) /\ Flags(m)  BY DEF Follows
  <1>6. pend'.irq_line = pend.irq_line => TimeupFollows(m, p)'
    <2>1. Raised(m, p) => Raised(m, p)'  BY <1>2, <1>5, RaisedKept
    <2> QED  BY <1>2, <1>5, <2>1 DEF TimeupFollows
  <1>7. CASE WalkRefresh
    <2>1. ~w.done.refresh /\ NextEvent[1] = RefreshClock(line_start + w.ls)
      BY <1>7, Nearest DEF WalkRefresh, Meets
    <2>2. /\ w'.done.refresh = TRUE /\ w'.done.hdma = w.done.hdma /\ w'.done.nmi = w.done.nmi
          /\ w'.done.irq = w.done.irq /\ w'.refreshes = w.refreshes + 1
      BY <1>3, <1>7 DEF WalkRefresh, WalkType, DoneType
    <2>3. Paid' = Paid + Bit(w'.done.refresh) - Bit(w.done.refresh)
      <3>1. Bit(w.done.refresh) = 0 /\ Bit(w'.done.refresh) = 1  BY <2>1, <2>2 DEF Bit
      <3>2. w.refreshes \in Nat  BY <1>3 DEF WalkType
      <3> QED  BY <1>2, <2>2, <3>1, <3>2
    <2>4. pend' = pend  BY <1>7 DEF WalkRefresh
    <2>5. Dist + RefreshClock(line_start + Dist) <= Front  BY <1>2, <2>1
    <2> QED  BY <1>2, <1>4, <1>6, <2>2, <2>3, <2>4, <2>5, FollowsMarked
  <1>8. CASE ~WalkRefresh
    <2>1. w'.done.refresh = w.done.refresh /\ w'.refreshes = w.refreshes
      BY <1>3, <1>8 DEF WalkHdma, WalkHdmaInit, WalkNmi, WalkIrq, WalkType, DoneType
    <2>2. Paid' = Paid + Bit(w'.done.refresh) - Bit(w.done.refresh)
      <3>1. w.refreshes \in Nat /\ Bit(w.done.refresh) \in Int  BY <1>3 DEF WalkType, Bit
      <3> QED  BY <1>2, <2>1, <3>1
    <2>3. CASE WalkHdma
      <3>1. NextEvent[1] = HdmaClock  BY <2>3, Nearest DEF WalkHdma, Meets
      <3>2. /\ w'.done.hdma = TRUE /\ w'.done.nmi = w.done.nmi /\ w'.done.irq = w.done.irq
            /\ pend'.irq_line = pend.irq_line
        BY <1>3, <2>3 DEF WalkHdma, WalkType, DoneType, PendType
      <3>3. Dist + HdmaClock <= Front  BY <1>2, <3>1
      <3> QED  BY <1>2, <1>4, <1>6, <2>1, <2>2, <3>2, <3>3, FollowsMarked
    <2>4. CASE WalkHdmaInit
      <3>1. /\ w'.done.hdma = w.done.hdma /\ w'.done.nmi = w.done.nmi
            /\ w'.done.irq = w.done.irq /\ pend'.irq_line = pend.irq_line
        BY <1>3, <2>4 DEF WalkHdmaInit, WalkType, DoneType, PendType
      <3> QED  BY <1>2, <1>4, <1>6, <2>1, <2>2, <3>1, FollowsMarked
    <2>5. CASE WalkNmi
      <3>1. NextEvent[1] = NmiAt  BY <2>5, Nearest DEF WalkNmi, Meets
      <3>2. /\ w'.done.hdma = w.done.hdma /\ w'.done.nmi = TRUE
            /\ w'.done.irq = w.done.irq /\ pend'.irq_line = pend.irq_line
        BY <1>3, <2>5 DEF WalkNmi, WalkType, DoneType, PendType
      <3>3. Dist + NmiAt <= Front  BY <1>2, <3>1
      <3> QED  BY <1>2, <1>4, <1>6, <2>1, <2>2, <3>2, <3>3, FollowsMarked
    <2>6. CASE WalkIrq
      <3>1. ~w.done.irq /\ w.done.irq_at >= 0 /\ NextEvent[1] = w.done.irq_at
        BY <2>6, Nearest DEF WalkIrq, Meets
      <3>2. /\ w'.done.hdma = w.done.hdma /\ w'.done.nmi = w.done.nmi
            /\ w'.done.irq = TRUE /\ pend'.irq_line = TRUE
        BY <1>3, <2>6 DEF WalkIrq, LineUp, WalkType, DoneType, PendType
      <3>3. Dist + w.done.irq_at <= Front  BY <1>2, <3>1
      <3>4. Raised(m, p)'
        <4>1. m \in 0 .. m /\ p[m] = There /\ m \in Nat  BY <1>5 DEF Chain
        <4>2. p[m].line = w.line /\ p[m].at = Dist  BY <4>1 DEF There
        <4>3. (m = 0 => ~done.irq /\ done.irq_at = w.done.irq_at)
              /\ (m # 0 => w.done.irq_at = IrqClockFor(w.line))
          BY <1>5, <3>1, <4>1 DEF Flags
        <4>4. IrqClockFor(p[m].line)' = IrqClockFor(p[m].line)  BY <1>2, IrqKept
        <4>5. Dist + w.done.irq_at <= Front'
          <5>1. w.done.irq_at \in Int /\ Dist \in Int  BY <1>2, <1>3 DEF DoneType, WalkType
          <5> QED  BY <1>2, <3>3, <5>1
        <4> DEFINE a == IF m = 0 THEN done.irq_at ELSE IrqClockFor(p[m].line)
        <4>6. a = w.done.irq_at  BY <4>2, <4>3
        <4>7. a' = a  BY <1>2, <4>4
        <4>8. a' >= 0 /\ p[m].at + a' <= Front' /\ (m = 0 => ~done'.irq)
          BY <1>2, <3>1, <4>2, <4>3, <4>5, <4>6, <4>7
        <4> QED  BY <4>1, <4>8 DEF Raised
      <3>5. TimeupFollows(m, p)'  BY <3>2, <3>4 DEF TimeupFollows
      <3> QED  BY <1>2, <1>4, <2>1, <2>2, <3>2, <3>3, <3>5, FollowsMarked
    <2> QED  BY <1>8, <2>3, <2>4, <2>5, <2>6
  <1> QED  BY <1>7, <1>8

(* The walk goes on to the next line, its refresh behind it: the chain is  *)
(* one line longer, and the walk stands at a line with nothing met.        *)
LEMMA EndLineFollows ==
    ASSUME Types, Flow, NEW m, NEW p, Follows(m, p), WalkEndLine
    PROVE  \E q : Follows(m + 1, q)'
  <1>1. /\ Ahead
        /\ UNCHANGED <<line, line_start, field, done, nmitimen, htime, vtime, timeup, refresh_paid>>
        /\ Reached' = Reached /\ Front \in Nat /\ Front' \in Int /\ Front <= Front'
        /\ Dist = w.ls /\ w.ls + NextEvent[1] <= Front /\ Paid = w.refreshes
        /\ Dist' = w'.ls /\ Paid' = w'.refreshes
    BY MetIs DEF EventStep
  <1>2. NextEvent[1] = LengthOf(w.line, w.field) /\ pend' = pend /\ Meets("eol")
    BY Nearest DEF WalkEndLine, Meets
  <1>3. /\ Here \in Place /\ There \in Place /\ w.done \in DoneType /\ Reached \in Nat
        /\ Dist \in Int /\ RefreshClock(line_start + Dist) \in Nat
    BY <1>1, AheadTypes
  <1>4. w \in WalkType  BY DEF Types
  <1>5. LengthOf(w.line, w.field) \in Nat /\ HdmaClock < LengthOf(w.line, w.field)
    BY LengthIs
  <1>6. w.done.refresh
    <2>1. ~w.done.refresh => NextEvent[1] <= RefreshClock(line_start + Dist)
      BY <1>1, Nearest
    <2>2. RefreshClock(line_start + Dist) <= RefreshAt
      <3>1. line_start + Dist \in Int  BY <1>3 DEF Types
      <3> QED  BY <3>1, RefreshIs
    <2> QED  BY <1>2, <1>3, <1>5, <2>1, <2>2, Constants
  <1> DEFINE l == NextLine(w.line)
             n == LengthOf(w.line, w.field)
             f == IF l = 0 THEN 1 - w.field ELSE w.field
             d == LineAhead(l)
  <1>7. w' = [w EXCEPT !.ls = @ + n, !.line = l, !.field = f, !.done = d]
    BY DEF WalkEndLine
  <1>8. ~d.refresh /\ ~d.hdma /\ ~d.nmi /\ ~d.irq /\ d.irq_at = IrqClockFor(l) /\ d \in DoneType
    BY LineAheadIs
  <1>9. After(There) = [line |-> l, field |-> f, at |-> Dist + n]  BY DEF After, There
  <1> HIDE DEF l, n, f, d
  <1>10. w'.line = l /\ w'.field = f /\ w'.done = d /\ w'.ls = w.ls + n
         /\ w'.refreshes = w.refreshes /\ w'.t = w.t
    BY <1>4, <1>7 DEF WalkType
  <1>11. Here' = Here /\ There' = After(There) /\ Dist' = Dist + n
    BY <1>1, <1>9, <1>10 DEF Here, There
  <1>12. Chain(p, m, Here, There) /\ m \in Nat  BY DEF Follows, Chain
  <1>13. PICK q : Chain(q, m + 1, Here, After(There)) /\ \A i \in 0 .. m : q[i] = p[i]
    BY <1>12, ChainOn
  <1>14. Chain(q, m + 1, Here, There)'  BY <1>11, <1>13
  <1>15. Flags(m + 1)'
    <2>1. IrqClockFor(w.line)' = IrqClockFor(l)  BY <1>1, <1>10 DEF IrqClockFor
    <2>2. w'.done.irq_at = IrqClockFor(w.line)' /\ m + 1 # 0  BY <1>8, <1>10, <1>12, <2>1
    <2> QED  BY <2>2 DEF Flags
  <1>16. n \in Nat /\ HdmaClock < n  BY <1>5 DEF n
  <1>17. Dist' > Reached' /\ Dist' \in Int
    <2>1. Dist + n > Reached  BY DEF Follows, Unmet, n
    <2> QED  BY <1>1, <1>3, <1>11, <1>16, <2>1
  <1>18. Met(m + 1)'
    <2>1. Dist' <= Front'  BY <1>1, <1>2, <1>3, <1>11, <1>16 DEF n
    <2> QED  BY <1>8, <1>10, <2>1 DEF Met
  <1>19. Unmet'
    <2> DEFINE r == RefreshClock(line_start + Dist)'
               k1 == LengthOf(w'.line, w'.field)
    <2>1. r \in Nat
      <3>1. line_start' + Dist' \in Int  BY <1>1, <1>17 DEF Types
      <3>2. r = RefreshClock(line_start' + Dist')  OBVIOUS
      <3> HIDE DEF r
      <3> QED  BY <3>1, <3>2, RefreshIs
    <2>2. k1 \in Nat /\ HdmaClock \in Nat /\ NmiAt \in Nat /\ w'.done.irq_at \in Int
          /\ Reached' \in Int
      BY <1>1, <1>3, <1>8, <1>10, LengthIs, Constants DEF DoneType
    <2> HIDE DEF r, k1
    <2>3. ASSUME NEW c \in Int, c >= 0 PROVE Dist' + c > Reached'
      <3>1. \A a, b \in Int : a > b => a + c > b  BY <2>3
      <3> QED  BY <1>17, <2>2, <3>1
    <2>4. /\ Dist' + r > Reached' /\ Dist' + HdmaClock > Reached' /\ Dist' + NmiAt > Reached'
          /\ w'.done.irq_at >= 0 => Dist' + w'.done.irq_at > Reached'
          /\ Dist' + k1 > Reached'
      BY <2>1, <2>2, <2>3
    <2> QED  BY <2>4 DEF Unmet, r, k1
  <1>20. PaidFor(m + 1)'
    <2>1. Paid = m + Bit(w.done.refresh) - Bit(done.refresh)  BY DEF Follows, PaidFor
    <2>2. Bit(w.done.refresh) = 1 /\ Bit(w'.done.refresh) = 0 /\ Bit(done.refresh) \in Int
      BY <1>6, <1>8, <1>10 DEF Bit
    <2>3. Paid' = (m + 1) + Bit(w'.done.refresh) - Bit(done.refresh)
      BY <1>1, <1>10, <1>12, <2>1, <2>2
    <2> QED  BY <1>1, <2>3 DEF PaidFor
  <1>21. TimeupFollows(m + 1, q)'
    <2>1. Raised(m, p) => Raised(m, p)'  BY <1>1, <1>12, RaisedKept
    <2>2. Raised(m, p)' => Raised(m + 1, q)'
      <3>1. 0 .. m \subseteq 0 .. m + 1  BY <1>12
      <3> QED  BY <1>13, <3>1 DEF Raised
    <2> QED  BY <1>1, <1>2, <2>1, <2>2 DEF Follows, TimeupFollows
  <1> QED  BY <1>14, <1>15, <1>18, <1>19, <1>20, <1>21 DEF Follows

(* While advance commits a walk, an event of the committed line that is    *)
(* due was met by the walk, or the walk is lines ahead.                    *)
LEMMA DueIsMet ==
    ASSUME Types, Flow, Committing, NEW m, NEW p, Follows(m, p)
    PROVE  /\ m \in Nat /\ Reached = hclock /\ Front = hclock /\ Paid = refresh_paid
           /\ m = 0 => Dist = 0 /\ w.line = line /\ w.field = field
           /\ m = 0 /\ hclock >= RefreshClock(line_start) => w.done.refresh
           /\ m = 0 /\ line < VBlankLine /\ hclock >= HdmaClock => w.done.hdma
           /\ m = 0 /\ line = VBlankLine /\ hclock >= NmiAt => w.done.nmi
           /\ m = 0 /\ done.irq_at >= 0 /\ hclock >= done.irq_at => w.done.irq
           /\ hclock >= LengthOf(line, field) => m # 0
           /\ ~done.refresh /\ hclock >= RefreshClock(line_start) => refresh_paid > 0
  <1>1. Ahead /\ ~Walking /\ ~Passing  BY DEF Committing, Ahead, Walking, Passing
  <1>2. Reached = hclock /\ Front = hclock /\ Paid = refresh_paid
    BY <1>1 DEF Reached, Front, Paid
  <1>3. /\ Dist \in Int /\ hclock \in Nat /\ w.done \in DoneType /\ line_start \in Int
        /\ done \in DoneType
    BY <1>1, AheadTypes DEF Types
  <1>4. m \in Nat /\ (m = 0 => Here = There)  BY DEF Follows, Chain
  <1>5. m = 0 => Dist = 0 /\ w.line = line /\ w.field = field
    <2>1. Here = There => Here.at = There.at /\ Here.line = There.line /\ Here.field = There.field
      OBVIOUS
    <2> QED  BY <1>4, <2>1 DEF Here, There
  <1>6. CASE m = 0
    <2>1. Dist = 0 /\ w.line = line /\ w.field = field /\ line_start + Dist = line_start
      BY <1>3, <1>5, <1>6
    <2>2. RefreshClock(line_start) \in Nat /\ LengthOf(line, field) \in Nat /\ HdmaClock \in Nat
          /\ NmiAt \in Nat /\ done.irq_at \in Int
      BY <1>3, RefreshIs, LengthIs, Constants DEF DoneType
    <2>3. w.done.irq_at = done.irq_at  BY <1>6 DEF Follows, Flags
    <2> DEFINE r == RefreshClock(line_start)
    <2>4. RefreshClock(line_start + Dist) = r  BY <2>1
    <2> HIDE DEF r
    <2>5. /\ ~w.done.refresh => r > hclock
          /\ line < VBlankLine /\ ~w.done.hdma => HdmaClock > hclock
          /\ line = VBlankLine /\ ~w.done.nmi => NmiAt > hclock
          /\ ~w.done.irq /\ done.irq_at >= 0 => done.irq_at > hclock
          /\ LengthOf(line, field) > hclock
      <3>1. /\ ~w.done.refresh => 0 + r > hclock
            /\ line < VBlankLine /\ ~w.done.hdma => 0 + HdmaClock > hclock
            /\ line = VBlankLine /\ ~w.done.nmi => 0 + NmiAt > hclock
            /\ ~w.done.irq /\ done.irq_at >= 0 => 0 + done.irq_at > hclock
            /\ 0 + LengthOf(line, field) > hclock
        BY <1>2, <2>1, <2>3, <2>4 DEF Follows, Unmet
      <3> QED  BY <2>2, <3>1 DEF r
    <2>6. r \in Nat  BY <2>2 DEF r
    <2>7. Paid = m + Bit(w.done.refresh) - Bit(done.refresh)  BY DEF Follows, PaidFor
    <2>8. ~done.refresh /\ w.done.refresh => refresh_paid = 1
      BY <1>2, <1>6, <2>7 DEF Bit
    <2> QED  BY <1>2, <1>3, <1>4, <1>6, <2>1, <2>2, <2>5, <2>6, <2>8 DEF r
  <1>7. CASE m # 0
    <2>1. Paid = m + Bit(w.done.refresh) - Bit(done.refresh)  BY DEF Follows, PaidFor
    <2>2. ~done.refresh => Bit(done.refresh) = 0  BY DEF Bit
    <2>3. Bit(w.done.refresh) \in 0 .. 1  BY DEF Bit
    <2>4. ~done.refresh => refresh_paid > 0  BY <1>2, <1>4, <1>7, <2>1, <2>2, <2>3
    <2> QED  BY <1>2, <1>4, <1>7, <2>4
  <1> QED  BY <1>6, <1>7

(* advance marks an event of the committed line.                           *)
LEMMA FollowsCommitted ==
    ASSUME Types, Flow, Committing, NEW m, NEW p, Follows(m, p),
           UNCHANGED <<clockVars, w, nmitimen, htime, vtime, pc, walked>>,
           done'.irq_at = done.irq_at,
           done.refresh => done'.refresh, done.hdma => done'.hdma,
           done.nmi => done'.nmi, done.irq => done'.irq,
           done'.refresh /\ m = 0 => done.refresh \/ w.done.refresh,
           done'.hdma /\ m = 0 /\ line < VBlankLine => done.hdma \/ w.done.hdma,
           done'.nmi /\ m = 0 /\ line = VBlankLine => done.nmi \/ w.done.nmi,
           done'.irq /\ m = 0 /\ done.irq_at >= 0 => done.irq \/ w.done.irq,
           refresh_paid' = refresh_paid - Bit(done'.refresh) + Bit(done.refresh),
           TimeupFollows(m, p)'
    PROVE  Follows(m, p)' /\ Ahead'
  <1>1. Ahead /\ ~Walking /\ ~Passing /\ ~Walking' /\ ~Passing' /\ Ahead'
    BY DEF Committing, Ahead, Walking, Passing
  <1>2. Dist' = Dist /\ Reached' = Reached /\ Front' = Front /\ Paid = refresh_paid
        /\ Paid' = refresh_paid'
    BY <1>1 DEF clockVars, Dist, Reached, Front, Paid
  <1>3. Here' = Here /\ There' = There  BY <1>2 DEF clockVars, Here, There
  <1>4. Chain(p, m, Here, There)'  BY <1>3 DEF Follows
  <1>5. Flags(m)'
    <2>1. IrqClockFor(w.line)' = IrqClockFor(w.line)  BY DEF IrqClockFor
    <2> QED  BY <2>1 DEF clockVars, Follows, Flags
  <1>6. Met(m)'  BY <1>2 DEF clockVars, Follows, Met
  <1>7. Unmet'  BY <1>2 DEF clockVars, Follows, Unmet
  <1>8. PaidFor(m)'
    <2>1. Paid = m + Bit(w.done.refresh) - Bit(done.refresh) /\ m \in Int
      BY DEF Follows, PaidFor, Chain
    <2>2. \A b : Bit(b) \in Int  BY DEF Bit
    <2>3. refresh_paid' = m + Bit(w.done.refresh) - Bit(done'.refresh)
      BY <1>2, <2>1, <2>2
    <2> QED  BY <1>2, <2>3 DEF PaidFor
  <1> QED  BY <1>1, <1>4, <1>5, <1>6, <1>7, <1>8 DEF Follows

LEMMA AdvanceFollows ==
    ASSUME Types, Flow, Committing, NEW m, NEW p, Follows(m, p),
           AdvanceRdnmi \/ AdvanceNmi \/ AdvanceRefresh \/ AdvanceIrq \/ AdvanceHdma
    PROVE  Follows(m, p)' /\ Ahead'
  <1>1. /\ m \in Nat /\ Front = hclock /\ Reached = hclock /\ Paid = refresh_paid
        /\ m = 0 /\ hclock >= RefreshClock(line_start) => w.done.refresh
        /\ m = 0 /\ line < VBlankLine /\ hclock >= HdmaClock => w.done.hdma
        /\ m = 0 /\ line = VBlankLine /\ hclock >= NmiAt => w.done.nmi
        /\ m = 0 /\ done.irq_at >= 0 /\ hclock >= done.irq_at => w.done.irq
        /\ ~done.refresh /\ hclock >= RefreshClock(line_start) => refresh_paid > 0
    BY DueIsMet
  <1>2. done \in DoneType /\ pend \in PendType /\ hclock \in Nat /\ refresh_paid \in Nat
    BY DEF Types
  <1>3. \A b : Bit(b) \in Int  BY DEF Bit
  <1>4. UNCHANGED <<line, line_start, field, w, nmitimen, htime, vtime, pc, walked>>
    BY DEF AdvanceRdnmi, AdvanceNmi, AdvanceRefresh, AdvanceIrq, AdvanceHdma, AdvanceUnchanged,
       clockVars, walkVars
  <1>5. hclock' = hclock
    BY <1>1 DEF AdvanceRdnmi, AdvanceNmi, AdvanceRefresh, AdvanceIrq, AdvanceHdma, clockVars,
       Advancing, AdvanceCase, RefreshPaid
  <1>6. UNCHANGED clockVars  BY <1>4, <1>5 DEF clockVars
  <1>7. ~Walking /\ ~Passing /\ ~Walking' /\ ~Passing' /\ Ahead
    BY <1>4 DEF Committing, Walking, Passing, Ahead
  <1>8. Front' = Front  BY <1>5, <1>7 DEF Front, Reached
  <1>9. timeup' = timeup /\ pend'.irq_line = pend.irq_line /\ ~AdvanceIrq
        /\ (done'.irq => done.irq) /\ done'.irq_at = done.irq_at
        => TimeupFollows(m, p)'
    <2> SUFFICES ASSUME timeup' = timeup, pend'.irq_line = pend.irq_line,
                        done'.irq => done.irq, done'.irq_at = done.irq_at, Raised(m, p)
                 PROVE  Raised(m, p)'
      BY DEF Follows, TimeupFollows
    <2>1. PICK i \in 0 .. m :
            LET a == IF i = 0 THEN done.irq_at ELSE IrqClockFor(p[i].line) IN
            /\ i = 0 => ~done.irq
            /\ a >= 0 /\ p[i].at + a <= Front
      BY DEF Raised
    <2>2. IrqClockFor(p[i].line)' = IrqClockFor(p[i].line)  BY <1>4, IrqKept
    <2> QED  BY <1>8, <2>1, <2>2 DEF Raised
  <1>10. CASE AdvanceRdnmi
    <2>1. UNCHANGED <<done, pend, refresh_paid, timeup>>  BY <1>10 DEF AdvanceRdnmi
    <2>2. ~AdvanceIrq  BY <1>10 DEF AdvanceRdnmi, AdvanceIrq, Advancing
    <2>3. TimeupFollows(m, p)'  BY <1>9, <2>1, <2>2
    <2>4. refresh_paid' = refresh_paid - Bit(done'.refresh) + Bit(done.refresh)
      BY <1>2, <1>3, <2>1
    <2> QED  BY <1>4, <1>6, <2>1, <2>3, <2>4, FollowsCommitted
  <1>11. CASE AdvanceNmi
    <2>1. /\ done'.nmi = TRUE /\ done'.refresh = done.refresh /\ done'.hdma = done.hdma
          /\ done'.irq = done.irq /\ done'.irq_at = done.irq_at
          /\ pend'.irq_line = pend.irq_line /\ UNCHANGED <<refresh_paid, timeup>>
      BY <1>2, <1>11 DEF AdvanceNmi, DoneType, PendType, flagVars
    <2>2. ~AdvanceIrq /\ hclock >= NmiAt
      BY <1>11 DEF AdvanceNmi, AdvanceIrq, Advancing, AdvanceCase
    <2>3. TimeupFollows(m, p)'  BY <1>9, <2>1, <2>2
    <2>4. refresh_paid' = refresh_paid - Bit(done'.refresh) + Bit(done.refresh)
      BY <1>2, <1>3, <2>1
    <2> QED  BY <1>1, <1>4, <1>6, <2>1, <2>2, <2>3, <2>4, FollowsCommitted
  <1>12. CASE AdvanceRefresh
    <2>1. ~done.refresh /\ hclock >= RefreshClock(line_start)
      BY <1>12 DEF AdvanceRefresh, Advancing, AdvanceCase
    <2>2. /\ done'.refresh = TRUE /\ done'.nmi = done.nmi /\ done'.hdma = done.hdma
          /\ done'.irq = done.irq /\ done'.irq_at = done.irq_at
          /\ pend' = pend /\ timeup' = timeup /\ refresh_paid' = refresh_paid - 1
      BY <1>1, <1>2, <1>12, <2>1 DEF AdvanceRefresh, RefreshPaid, DoneType, flagVars
    <2>3. ~AdvanceIrq  BY <1>12 DEF AdvanceRefresh, AdvanceIrq, Advancing
    <2>4. TimeupFollows(m, p)'  BY <1>9, <2>2, <2>3
    <2>5. refresh_paid' = refresh_paid - Bit(done'.refresh) + Bit(done.refresh)
      <3>1. Bit(done'.refresh) = 1 /\ Bit(done.refresh) = 0  BY <2>1, <2>2 DEF Bit
      <3> QED  BY <1>2, <2>2, <3>1
    <2> QED  BY <1>1, <1>4, <1>6, <2>1, <2>2, <2>4, <2>5, FollowsCommitted
  <1>13. CASE AdvanceIrq
    <2>1. /\ done'.irq = TRUE /\ done'.refresh = done.refresh /\ done'.hdma = done.hdma
          /\ done'.nmi = done.nmi /\ done'.irq_at = done.irq_at
          /\ pend'.irq_line = TRUE /\ timeup' = TRUE /\ refresh_paid' = refresh_paid
      BY <1>2, <1>13 DEF AdvanceIrq, DoneType, PendType
    <2>2. hclock >= done.irq_at
      BY <1>13 DEF AdvanceIrq, Advancing, AdvanceCase, LateIrq
    <2>3. TimeupFollows(m, p)'  BY <2>1 DEF TimeupFollows
    <2>4. refresh_paid' = refresh_paid - Bit(done'.refresh) + Bit(done.refresh)
      BY <1>2, <1>3, <2>1
    <2> QED  BY <1>1, <1>4, <1>6, <2>1, <2>2, <2>3, <2>4, FollowsCommitted
  <1>14. CASE AdvanceHdma
    <2>1. /\ done'.hdma = TRUE /\ done'.refresh = done.refresh /\ done'.nmi = done.nmi
          /\ done'.irq = done.irq /\ done'.irq_at = done.irq_at
          /\ pend' = pend /\ UNCHANGED <<refresh_paid, timeup>>
      BY <1>2, <1>14 DEF AdvanceHdma, DoneType, flagVars
    <2>2. ~AdvanceIrq /\ hclock >= HdmaClock
      BY <1>14 DEF AdvanceHdma, AdvanceIrq, Advancing, AdvanceCase
    <2>3. TimeupFollows(m, p)'  BY <1>9, <2>1, <2>2
    <2>4. refresh_paid' = refresh_paid - Bit(done'.refresh) + Bit(done.refresh)
      BY <1>2, <1>3, <2>1
    <2> QED  BY <1>1, <1>4, <1>6, <2>1, <2>2, <2>3, <2>4, FollowsCommitted
  <1> QED  BY <1>10, <1>11, <1>12, <1>13, <1>14

(* advance goes on to the next line: the chain loses its first line.  All  *)
(* of the line's events are behind, its timer match too: had the walk      *)
(* raised the IRQ there, advance would have met it.                        *)
LEMMA CommitEndLine ==
    ASSUME Types, Flow, Committing, NEW m, NEW p, Follows(m, p), AdvanceEndLine
    PROVE  (\E q : Follows(m - 1, q)') /\ Ahead'
  <1> DEFINE n == LengthOf(line, field)
             l == NextLine(line)
             f == IF l = 0 THEN 1 - field ELSE field
  <1>1. /\ AdvanceCase = "eol" /\ hclock' = hclock - n /\ line_start' = (line_start + n) % Sync
        /\ line' = l /\ field' = f /\ done' = BeginLine(l)
        /\ UNCHANGED <<nmitimen, htime, vtime, pc, walked, w, pend, timeup, refresh_paid>>
    BY DEF AdvanceEndLine, Advancing, AdvanceUnchanged, walkVars
  <1>2. /\ m \in Nat /\ Front = hclock /\ Reached = hclock /\ Paid = refresh_paid
        /\ hclock >= LengthOf(line, field) => m # 0
    BY DueIsMet
  <1>3. n \in Nat /\ HdmaClock < n /\ RefreshClock(line_start) \in Nat
        /\ RefreshClock(line_start) <= RefreshAt /\ HdmaClock \in Nat /\ RefreshAt < HdmaClock
        /\ RefreshAt \in Nat
    <2>1. line_start \in Int  BY DEF Types
    <2> QED  BY <2>1, LengthIs, RefreshIs, Constants
  <1>4. hclock >= n /\ ~LateIrq /\ ~(~done.refresh /\ hclock >= RefreshClock(line_start))
    BY <1>1 DEF AdvanceCase
  <1>5. hclock \in Nat /\ done.refresh /\ m # 0
    <2>1. hclock \in Nat  BY DEF Types
    <2>2. hclock >= RefreshClock(line_start)  BY <1>3, <1>4, <2>1
    <2> QED  BY <1>2, <1>4, <2>1, <2>2 DEF n
  <1>6. Ahead /\ ~Walking /\ ~Passing /\ ~Walking' /\ ~Passing' /\ Ahead'
    BY <1>1 DEF Committing, Ahead, Walking, Passing
  <1>7. /\ Dist \in Int /\ Here \in Place /\ There \in Place /\ line_start \in Int
        /\ w.done \in DoneType /\ done \in DoneType
    BY <1>6, AheadTypes
  <1>8. Dist' = Dist - n /\ Reached' = hclock - n /\ Front' = hclock - n /\ Paid' = refresh_paid
    <2>1. w.t \in Int /\ w.ls \in Int  BY DEF Types, WalkType
    <2>2. Dist = hclock - w.t + w.ls /\ Dist' = (hclock - n) - w.t + w.ls
      BY <1>1, <1>6 DEF Dist
    <2>3. Dist' = Dist - n  BY <1>3, <1>5, <2>1, <2>2
    <2> QED  BY <1>1, <1>6, <2>3 DEF Reached, Front, Paid
  <1>9. Here' = Back(After(Here), n) /\ There' = Back(There, n)
    <2>1. After(Here).line = l /\ After(Here).field = f /\ After(Here).at = 0 + n
      BY DEF After, Here
    <2>2. Back(After(Here), n) = [line |-> l, field |-> f, at |-> (0 + n) - n]
      BY <2>1 DEF Back
    <2>3. (0 + n) - n = 0  BY <1>3
    <2>4. Here' = [line |-> l, field |-> f, at |-> 0]  BY <1>1 DEF Here
    <2>5. Back(There, n) = [line |-> w.line, field |-> w.field, at |-> Dist - n]
      BY DEF Back, There
    <2>6. There' = [line |-> w.line, field |-> w.field, at |-> Dist - n]
      BY <1>1, <1>8 DEF There
    <2> QED  BY <2>2, <2>3, <2>4, <2>5, <2>6
  <1>10. Chain(p, m, Here, There)  BY DEF Follows
  <1>11. PICK q : /\ Chain(q, m - 1, Back(After(Here), n), Back(There, n))
                  /\ \A i \in 0 .. m - 1 : q[i] = Back(p[i + 1], n)
    BY <1>3, <1>5, <1>10, ChainOff
  <1>12. Chain(q, m - 1, Here, There)'  BY <1>9, <1>11
  <1>13. m - 1 \in Nat /\ 0 \in 0 .. m - 1  BY <1>2, <1>5
  <1> DEFINE d == BeginLine(l)
  <1>14. /\ ~d.refresh /\ ~d.hdma /\ (l = VBlankLine => ~d.nmi) /\ (d.irq <=> IrqClockFor(l) < 0)
         /\ d.irq_at = IrqClockFor(l)
    BY DEF BeginLine
  <1>15. done' = d  BY <1>1
  <1>16. \A x : IrqClockFor(x)' = IrqClockFor(x)  BY <1>1, IrqKept
  <1> HIDE DEF n, d
  <1>17. Flags(m - 1)'
    <2>1. w.done.irq_at = IrqClockFor(w.line)  BY <1>2, <1>5 DEF Follows, Flags
    <2>2. m - 1 = 0 => w.line = l
      <3>1. m - 1 = 0 => Here' = There'  BY <1>12 DEF Chain
      <3>2. Here' = There' => Here'.line = There'.line  OBVIOUS
      <3> QED  BY <1>1, <3>1, <3>2 DEF Here, There
    <2>3. IrqClockFor(w.line)' = IrqClockFor(w.line)  BY <1>1 DEF IrqClockFor
    <2>4. m - 1 > 0 => w'.done.irq_at = IrqClockFor(w.line)'  BY <1>1, <2>1, <2>3
    <2>5. IrqClockFor(l) \in Int  BY IrqIs
    <2>6. m - 1 = 0 => /\ done'.refresh => w'.done.refresh
                       /\ line' < VBlankLine /\ done'.hdma => w'.done.hdma
                       /\ line' = VBlankLine /\ done'.nmi => w'.done.nmi
                       /\ w'.done.irq_at = done'.irq_at
                       /\ done'.irq_at >= 0 /\ done'.irq => w'.done.irq
      BY <1>1, <1>14, <1>15, <2>1, <2>2, <2>5
    <2> QED  BY <2>4, <2>6 DEF Flags
  <1>18. RefreshClock(line_start + Dist)' = RefreshClock(line_start + Dist)
         /\ RefreshClock(line_start + Dist) \in Int
    <2>1. line_start + n \in Int /\ Dist - n \in Int
          /\ (line_start + n) + (Dist - n) = line_start + Dist
      BY <1>3, <1>7
    <2>2. RefreshClock(((line_start + n) % Sync) + (Dist - n))
            = RefreshClock((line_start + n) + (Dist - n))
      BY <2>1, RefreshModulo
    <2>3. line_start' = (line_start + n) % Sync  BY <1>1 DEF n
    <2>4. RefreshClock(line_start + Dist)' = RefreshClock(line_start' + Dist')  OBVIOUS
    <2>5. line_start + Dist \in Int  BY <1>7
    <2> QED  BY <1>8, <2>1, <2>2, <2>3, <2>4, <2>5, RefreshIs
  <1> DEFINE r == RefreshClock(line_start + Dist)
  <1>19. r' = r /\ r \in Int  BY <1>18
  <1>20. HdmaClock \in Int /\ NmiAt \in Int /\ w.done.irq_at \in Int /\ n \in Int
         /\ hclock \in Int /\ LengthOf(w.line, w.field) \in Int
    BY <1>3, <1>5, <1>7, LengthIs, Constants DEF DoneType
  <1>21. Met(m - 1)'
    <2>1. /\ w.done.refresh => Dist + r <= hclock
          /\ w.line < VBlankLine /\ w.done.hdma => Dist + HdmaClock <= hclock
          /\ w.line = VBlankLine /\ w.done.nmi => Dist + NmiAt <= hclock
          /\ w.done.irq => Dist + w.done.irq_at <= hclock
          /\ Dist <= hclock
      BY <1>2, <1>5 DEF Follows, Met
    <2> HIDE DEF r
    <2>2. /\ w.done.refresh => (Dist - n) + r <= hclock - n
          /\ w.line < VBlankLine /\ w.done.hdma => (Dist - n) + HdmaClock <= hclock - n
          /\ w.line = VBlankLine /\ w.done.nmi => (Dist - n) + NmiAt <= hclock - n
          /\ w.done.irq => (Dist - n) + w.done.irq_at <= hclock - n
          /\ Dist - n <= hclock - n
      BY <1>7, <1>19, <1>20, <2>1
    <2>3. /\ w'.done.refresh => Dist' + r' <= Front'
          /\ w'.line < VBlankLine /\ w'.done.hdma => Dist' + HdmaClock <= Front'
          /\ w'.line = VBlankLine /\ w'.done.nmi => Dist' + NmiAt <= Front'
          /\ w'.done.irq => Dist' + w'.done.irq_at <= Front'
          /\ Dist' <= Front'
      BY <1>1, <1>8, <1>19, <2>2
    <2> QED  BY <2>3 DEF Met, r
  <1>22. Unmet'
    <2>1. /\ ~w.done.refresh => Dist + r > hclock
          /\ w.line < VBlankLine /\ ~w.done.hdma => Dist + HdmaClock > hclock
          /\ w.line = VBlankLine /\ ~w.done.nmi => Dist + NmiAt > hclock
          /\ ~w.done.irq /\ w.done.irq_at >= 0 => Dist + w.done.irq_at > hclock
          /\ Dist + LengthOf(w.line, w.field) > hclock
      BY <1>2 DEF Follows, Unmet
    <2> HIDE DEF r
    <2>2. /\ ~w.done.refresh => (Dist - n) + r > hclock - n
          /\ w.line < VBlankLine /\ ~w.done.hdma => (Dist - n) + HdmaClock > hclock - n
          /\ w.line = VBlankLine /\ ~w.done.nmi => (Dist - n) + NmiAt > hclock - n
          /\ ~w.done.irq /\ w.done.irq_at >= 0 => (Dist - n) + w.done.irq_at > hclock - n
          /\ (Dist - n) + LengthOf(w.line, w.field) > hclock - n
      BY <1>7, <1>19, <1>20, <2>1
    <2>3. /\ ~w'.done.refresh => Dist' + r' > Reached'
          /\ w'.line < VBlankLine /\ ~w'.done.hdma => Dist' + HdmaClock > Reached'
          /\ w'.line = VBlankLine /\ ~w'.done.nmi => Dist' + NmiAt > Reached'
          /\ ~w'.done.irq /\ w'.done.irq_at >= 0 => Dist' + w'.done.irq_at > Reached'
          /\ Dist' + LengthOf(w'.line, w'.field) > Reached'
      BY <1>1, <1>8, <1>19, <2>2
    <2> QED  BY <2>3 DEF Unmet, r
  <1>23. PaidFor(m - 1)'
    <2>1. refresh_paid = m + Bit(w.done.refresh) - Bit(done.refresh)
      BY <1>2 DEF Follows, PaidFor
    <2>2. Bit(done.refresh) = 1 /\ Bit(done'.refresh) = 0 /\ Bit(w.done.refresh) \in Int
      BY <1>5, <1>14, <1>15 DEF Bit
    <2>3. Paid' = (m - 1) + Bit(w'.done.refresh) - Bit(done'.refresh)
      BY <1>1, <1>2, <1>8, <2>1, <2>2
    <2> QED  BY <2>3 DEF PaidFor
  <1>24. TimeupFollows(m - 1, q)'
    <2> SUFFICES ASSUME pend.irq_line, ~timeup PROVE Raised(m - 1, q)'
      BY <1>1 DEF Follows, TimeupFollows
    <2>1. PICK i \in 0 .. m :
            LET a == IF i = 0 THEN done.irq_at ELSE IrqClockFor(p[i].line) IN
            /\ i = 0 => ~done.irq
            /\ a >= 0 /\ p[i].at + a <= Front
      BY DEF Follows, TimeupFollows, Raised
    <2>2. i # 0
      <3> SUFFICES ASSUME i = 0 PROVE FALSE  OBVIOUS
      <3>1. ~done.irq /\ p[0].at + done.irq_at <= hclock /\ p[0].at = 0
        BY <1>2, <1>10, <2>1 DEF Chain, Here
      <3>2. done.irq_at \in Int  BY <1>7 DEF DoneType
      <3> QED  BY <1>4, <1>20, <3>1, <3>2 DEF LateIrq
    <2> DEFINE j == i - 1
               a == IrqClockFor(p[i].line)
    <2>3. a >= 0 /\ p[i].at + a <= hclock /\ a \in Int
      BY <1>2, <2>1, <2>2, IrqIs
    <2>4. j \in 0 .. m - 1 /\ j + 1 = i /\ p[i] \in Place  BY <1>2, <1>10, <2>2 DEF Chain
    <2>5. q[j] = Back(p[i], n)  BY <1>11, <2>4
    <2>6. q[j].line = p[i].line /\ q[j].at = p[i].at - n
      <3>1. \A x \in Place : Back(x, n).line = x.line /\ Back(x, n).at = x.at - n
        BY <1>20, BackIs
      <3> QED  BY <2>4, <2>5, <3>1
    <2>7. q[j].at + a <= Front'
      <3>1. p[i].at \in Int  BY <2>4 DEF Place
      <3> QED  BY <1>8, <1>20, <2>3, <2>6, <3>1
    <2>8. j = 0 => done'.irq_at = a /\ ~done'.irq
      <3> SUFFICES ASSUME j = 0 PROVE done'.irq_at = a /\ ~done'.irq  OBVIOUS
      <3>1. Here'.line = l  BY <1>1 DEF Here
      <3>2. q[j] = Here'  BY <1>12 DEF Chain
      <3>3. q[j].line = l  BY <3>1, <3>2
      <3>4. a = IrqClockFor(l)  BY <2>6, <3>3
      <3> QED  BY <1>14, <1>15, <2>3, <3>4
    <2>9. IrqClockFor(q[j].line)' = a  BY <1>16, <2>6
    <2> DEFINE b == IF j = 0 THEN done.irq_at ELSE IrqClockFor(q[j].line)
    <2>10. b' = a  BY <2>8, <2>9
    <2>11. b' >= 0 /\ q[j].at + b' <= Front' /\ (j = 0 => ~done'.irq)
      BY <2>3, <2>7, <2>8, <2>10
    <2> QED  BY <2>4, <2>11 DEF Raised
  <1> QED  BY <1>6, <1>12, <1>17, <1>21, <1>22, <1>23, <1>24 DEF Follows

(* When advance finds nothing more to commit, it has reached the walk.     *)
LEMMA Arrived ==
    ASSUME Types, Flow, Committing, NEW m, NEW p, Follows(m, p), AdvanceCase = "none"
    PROVE  /\ line = w.line /\ field = w.field /\ hclock = w.t - w.ls
           /\ refresh_paid = 0
           /\ done.refresh = w.done.refresh
           /\ line < VBlankLine => done.hdma = w.done.hdma
           /\ line = VBlankLine => done.nmi = w.done.nmi
           /\ done.irq_at = w.done.irq_at
           /\ done.irq_at >= 0 => done.irq = w.done.irq
           /\ timeup <=> pend.irq_line
  <1>1. Ahead /\ ~Walking  BY DEF Committing, Ahead, Walking
  <1>2. /\ Dist \in Int /\ Here \in Place /\ There \in Place /\ line_start \in Int
        /\ w.done \in DoneType /\ done \in DoneType /\ hclock \in Nat
    BY <1>1, AheadTypes DEF Types
  <1>3. /\ m \in Nat /\ Front = hclock /\ Reached = hclock /\ Paid = refresh_paid
        /\ m = 0 => Dist = 0 /\ w.line = line /\ w.field = field
    BY DueIsMet
  <1>4. /\ LengthOf(line, field) \in Nat /\ RefreshClock(line_start) \in Nat
        /\ HdmaClock \in Nat /\ NmiAt \in Nat /\ done.irq_at \in Int
    BY <1>2, LengthIs, RefreshIs, Constants DEF DoneType
  <1>5. /\ hclock < LengthOf(line, field)
        /\ ~done.refresh => hclock < RefreshClock(line_start)
        /\ ~done.nmi => hclock < NmiAt
        /\ ~done.hdma => hclock < HdmaClock
        /\ ~done.irq => hclock < done.irq_at
    <2>1. /\ ~(hclock >= LengthOf(line, field)) /\ ~(~done.nmi /\ hclock >= NmiAt)
          /\ ~(~done.refresh /\ hclock >= RefreshClock(line_start))
          /\ ~(~done.irq /\ hclock >= done.irq_at) /\ ~(~done.hdma /\ hclock >= HdmaClock)
      BY DEF AdvanceCase, LateIrq
    <2> QED  BY <1>2, <1>4, <2>1
  <1>6. m = 0
    <2> SUFFICES ASSUME m # 0 PROVE FALSE  OBVIOUS
    <2>1. Chain(p, m, Here, There)  BY DEF Follows
    <2>2. 0 \in Int  OBVIOUS
    <2>3. After(Here).at <= There.at  BY <2>1, <2>2, ChainOff
    <2>4. After(Here).at = 0 + LengthOf(line, field) /\ There.at = Dist
      BY DEF After, Here, There
    <2>5. Dist <= hclock  BY <1>3 DEF Follows, Met
    <2> QED  BY <1>2, <1>4, <1>5, <2>3, <2>4, <2>5
  <1>7. Dist = 0 /\ w.line = line /\ w.field = field /\ line_start + Dist = line_start
    BY <1>2, <1>3, <1>6
  <1>8. hclock = w.t - w.ls
    <2>1. w.t \in Int /\ w.ls \in Int  BY DEF Types, WalkType
    <2>2. hclock - w.t + w.ls = 0  BY <1>1, <1>7 DEF Dist
    <2> QED  BY <1>2, <2>1, <2>2
  <1>9. /\ done.refresh => w.done.refresh
        /\ line < VBlankLine /\ done.hdma => w.done.hdma
        /\ line = VBlankLine /\ done.nmi => w.done.nmi
        /\ w.done.irq_at = done.irq_at
        /\ done.irq_at >= 0 /\ done.irq => w.done.irq
    BY <1>6 DEF Follows, Flags
  <1>10. /\ w.done.refresh /\ ~done.refresh => RefreshClock(line_start) <= hclock
         /\ line < VBlankLine /\ w.done.hdma /\ ~done.hdma => HdmaClock <= hclock
         /\ line = VBlankLine /\ w.done.nmi /\ ~done.nmi => NmiAt <= hclock
         /\ w.done.irq /\ ~done.irq => done.irq_at <= hclock
    <2> DEFINE r == RefreshClock(line_start)
    <2>1. RefreshClock(line_start + Dist) = r  BY <1>7
    <2> HIDE DEF r
    <2>2. /\ w.done.refresh /\ ~done.refresh => 0 + r <= hclock
          /\ line < VBlankLine /\ w.done.hdma /\ ~done.hdma => 0 + HdmaClock <= hclock
          /\ line = VBlankLine /\ w.done.nmi /\ ~done.nmi => 0 + NmiAt <= hclock
          /\ w.done.irq /\ ~done.irq => 0 + done.irq_at <= hclock
      BY <1>3, <1>6, <1>7, <1>9, <2>1 DEF Follows, Met
    <2> QED  BY <1>4, <2>2 DEF r
  <1>11. /\ w.done.refresh => done.refresh
         /\ line < VBlankLine /\ w.done.hdma => done.hdma
         /\ line = VBlankLine /\ w.done.nmi => done.nmi
         /\ w.done.irq => done.irq
    BY <1>2, <1>4, <1>5, <1>10
  <1>12. /\ done.refresh = w.done.refresh
         /\ line < VBlankLine => done.hdma = w.done.hdma
         /\ line = VBlankLine => done.nmi = w.done.nmi
         /\ done.irq_at >= 0 => done.irq = w.done.irq
    <2>1. /\ {done.refresh, done.hdma, done.nmi, done.irq} \subseteq BOOLEAN
          /\ {w.done.refresh, w.done.hdma, w.done.nmi, w.done.irq} \subseteq BOOLEAN
      BY <1>2 DEF DoneType
    <2> QED  BY <1>9, <1>11, <2>1
  <1>13. refresh_paid = 0
    <2>1. refresh_paid = 0 + Bit(w.done.refresh) - Bit(done.refresh)
      BY <1>3, <1>6 DEF Follows, PaidFor
    <2> QED  BY <1>12, <2>1 DEF Bit
  <1>14. timeup <=> pend.irq_line
    <2> SUFFICES ASSUME pend.irq_line, ~timeup PROVE FALSE
      BY DEF Follows, TimeupFollows
    <2>1. PICK i \in 0 .. m :
            LET a == IF i = 0 THEN done.irq_at ELSE IrqClockFor(p[i].line) IN
            /\ i = 0 => ~done.irq
            /\ a >= 0 /\ p[i].at + a <= Front
      BY DEF Follows, TimeupFollows, Raised
    <2>2. i = 0  BY <1>6
    <2>3. p[0].at = 0  BY DEF Follows, Chain, Here
    <2>4. ~done.irq /\ 0 + done.irq_at <= hclock  BY <1>3, <2>1, <2>2, <2>3
    <2> QED  BY <1>2, <1>4, <1>5, <2>4
  <1> QED  BY <1>7, <1>8, <1>9, <1>12, <1>13, <1>14

-----------------------------------------------------------------------------
(* TIMEUP and the IRQ line where no walk is ahead of its commit; and what  *)
(* access_clock puts back after a walk that is not committed.              *)
LinesAgree ==
    /\ ~Ahead => (timeup <=> pend.irq_line)
    /\ pc = "access" => (timeup <=> saved.irq_line)

(* A walk starts where the committed clock stands.                         *)
LEMMA WalkStarts ==
    ASSUME Types, Flow, Quiet, done.hdma \/ hclock < HdmaClock, timeup <=> pend.irq_line,
           w' = WalkInit, Head(todo').op = "pending", pc' \in {"walk", "access"},
           pc # "start", ~walked,
           UNCHANGED <<clockVars, done, pend, timeup, nmitimen, htime, vtime>>
    PROVE  \E p : Follows(0, p)'
  <1>1. Walking' /\ ~Passing'  BY DEF Walking, Passing
  <1>2. /\ w'.t = hclock /\ w'.ls = 0 /\ w'.line = line /\ w'.field = field
        /\ w'.refreshes = 0 /\ w'.done = done
    BY DEF WalkInit
  <1>3. Dist' = 0 /\ Reached' = hclock /\ Front' = hclock /\ Paid' = 0
    BY <1>1, <1>2 DEF Dist, Reached, Front, Paid
  <1>4. Here' = [line |-> line, field |-> field, at |-> 0] /\ There' = Here'
    BY <1>2, <1>3 DEF clockVars, Here, There
  <1>5. Here' \in Place  BY <1>4 DEF Place, Types
  <1> DEFINE h == [line |-> line, field |-> field, at |-> 0]
  <1>6. PICK p : Chain(p, 0, h, h)  BY <1>4, <1>5, ChainNone
  <1>7. Chain(p, 0, Here, There)'  BY <1>4, <1>6
  <1>8. line' = line /\ line_start' = line_start /\ field' = field /\ done' = done
    BY DEF clockVars
  <1>9. Flags(0)'  BY <1>2, <1>8 DEF Flags
  <1>10. /\ hclock \in Nat /\ line_start + 0 = line_start /\ LengthOf(line, field) \in Nat
         /\ RefreshClock(line_start) \in Nat /\ HdmaClock \in Nat /\ NmiAt \in Nat
         /\ done.irq_at \in Int
    <2>1. hclock \in Nat /\ line_start \in Int /\ done.irq_at \in Int  BY DEF Types, DoneType
    <2> QED  BY <2>1, LengthIs, RefreshIs, Constants
  <1>11. Met(0)'  BY <1>2, <1>3, <1>8, <1>10 DEF Met
  <1>12. Unmet'
    <2> DEFINE r == RefreshClock(line_start)
    <2>1. RefreshClock(line_start + Dist)' = r  BY <1>3, <1>8, <1>10
    <2>2. r \in Nat /\ (done.refresh \/ hclock < r)  BY <1>10 DEF Quiet
    <2> HIDE DEF r
    <2>3. /\ ~done.refresh => 0 + r > hclock
          /\ ~done.hdma => 0 + HdmaClock > hclock
          /\ ~done.nmi => 0 + NmiAt > hclock
          /\ ~done.irq /\ done.irq_at >= 0 => 0 + done.irq_at > hclock
          /\ 0 + LengthOf(line, field) > hclock
      BY <1>10, <2>2 DEF Quiet
    <2> QED  BY <1>2, <1>3, <2>1, <2>3 DEF Unmet
  <1>13. PaidFor(0)'
    <2>1. Bit(done.refresh) \in Int  BY DEF Bit
    <2>2. 0 = 0 + Bit(done.refresh) - Bit(done.refresh)  BY <2>1
    <2> QED  BY <1>2, <1>3, <1>8, <2>2 DEF PaidFor
  <1>14. TimeupFollows(0, p)'  BY DEF TimeupFollows
  <1> QED  BY <1>7, <1>9, <1>11, <1>12, <1>13, <1>14 DEF Follows

LEMMA AdvanceIs ==
    ASSUME AdvanceNext
    PROVE  /\ pc = "advance"
           /\ AdvanceDone => pc' \in {"idle", "boundary"} /\ UNCHANGED <<pend, timeup>>
           /\ AdvanceReset => pc' = "start" /\ ~timeup' /\ pend' = NoPend
           /\ ~AdvanceDone /\ ~AdvanceReset => UNCHANGED <<pc, walked>>
  BY DEF AdvanceNext, AdvanceRdnmi, AdvanceNmi, AdvanceRefresh, AdvanceIrq, AdvanceHdma,
     AdvanceEndLine, AdvanceDone, AdvanceReset, Advancing, AdvanceUnchanged, flagVars

(* A commit ends with every refresh the walk paid for met.                 *)
LEMMA PaidUp ==
    ASSUME Types, Flow, Sim, AdvanceDone
    PROVE  refresh_paid = 0 /\ (walked => (timeup <=> pend.irq_line))
  <1>1. pc = "advance" /\ AdvanceCase = "none"  BY DEF AdvanceDone, Advancing
  <1>2. CASE walked
    <2>1. Committing /\ Ahead  BY <1>1, <1>2 DEF Committing, Ahead
    <2> QED  BY <1>1, <2>1, Arrived DEF Sim
  <1>3. CASE ~walked  BY <1>3 DEF Flow
  <1> QED  BY <1>2, <1>3

LEMMA WalkSim ==
    ASSUME Types, Flow, Sim, EventStep \/ WalkStep \/ AfterCycle \/ WalkDone, Types', Flow'
    PROVE  Sim'
  <1>1. Walking
    BY EventIs, WalkStepIs DEF AfterCycle, WalkDone, At
  <1>2. PICK m, p : Follows(m, p)  BY <1>1 DEF Sim, Ahead
  <1>3. CASE WalkEndLine
    <2>1. \E q : Follows(m + 1, q)'  BY <1>2, <1>3, EndLineFollows
    <2> QED  BY <2>1 DEF Sim
  <1>4. CASE EventStep /\ ~WalkEndLine
    <2>1. Follows(m, p)'  BY <1>2, <1>4, EventFollows DEF EventStep
    <2> QED  BY <2>1 DEF Sim
  <1>5. CASE WalkStep
    <2>1. Follows(m, p)'  BY <1>2, <1>5, StepFollows
    <2> QED  BY <2>1 DEF Sim
  <1>6. CASE AfterCycle \/ WalkDone
    <2>1. Follows(m, p)'  BY <1>2, <1>6, AfterFollows
    <2> QED  BY <2>1 DEF Sim
  <1> QED  BY <1>3, <1>4, <1>5, <1>6

LEMMA AdvanceSim ==
    ASSUME Types, Flow, Sim, AdvanceNext
    PROVE  Sim'
  <1>1. /\ pc = "advance"
        /\ AdvanceDone => pc' \in {"idle", "boundary"}
        /\ AdvanceReset => pc' = "start"
        /\ ~AdvanceDone /\ ~AdvanceReset => UNCHANGED <<pc, walked>>
    BY AdvanceIs
  <1>2. CASE AdvanceDone \/ AdvanceReset \/ ~walked
    BY <1>1, <1>2 DEF Sim, Ahead, Walking, Committing
  <1>3. CASE walked /\ ~AdvanceDone /\ ~AdvanceReset
    <2>1. Committing /\ Ahead  BY <1>1, <1>3 DEF Committing, Ahead
    <2>2. PICK m, p : Follows(m, p)  BY <2>1 DEF Sim
    <2>3. CASE AdvanceEndLine
      <3>1. \E q : Follows(m - 1, q)'  BY <2>1, <2>2, <2>3, CommitEndLine
      <3> QED  BY <3>1 DEF Sim
    <2>4. CASE ~AdvanceEndLine
      <3>1. Follows(m, p)'
        BY <1>3, <2>1, <2>2, <2>4, AdvanceFollows DEF AdvanceNext
      <3> QED  BY <3>1 DEF Sim
    <2> QED  BY <2>3, <2>4
  <1> QED  BY <1>2, <1>3

(* A walk starts: the steps of Others that start one.                      *)
LEMMA StartSim ==
    ASSUME Types, Flow, Settled, LinesAgree, Started \/ Others
    PROVE  Sim'
  <1>1. CASE Started
    BY <1>1, StartedIs DEF Sim, Ahead, Walking, Committing
  <1>2. CASE StartFrame \/ WaiCycles \/ ChargeWhole \/ RdnmiRead
    <2>1. pc # "advance" /\ walked' = walked
      BY <1>2 DEF StartFrame, WaiCycles, ChargeWhole, RdnmiRead
    <2>2. pc' \in {"advance", "idle", "charge"}
      BY <1>2, WaiSkips DEF StartFrame, ChargeWhole, RdnmiRead
    <2>3. ~walked'  BY <2>1 DEF Flow
    <2> QED  BY <2>2, <2>3 DEF Sim, Ahead, Walking, Committing
  <1>3. CASE WaiWalk \/ ChargeWalk \/ \E c \in Insns : RdnmiAccess(c)
    <2>1. /\ pc \in {"idle", "charge", "boundary"} /\ pc' \in {"walk", "access"}
          /\ w' = WalkInit
          /\ UNCHANGED <<clockVars, done, pend, timeup, nmitimen, htime, vtime>>
      BY <1>3 DEF WaiWalk, ChargeWalk, StartWalk, RdnmiAccess, BoundaryUnchanged, regVars, flagVars
    <2>2. Head(todo').op = "pending"
      <3>1. CASE WaiWalk
        <4>1. <<IdleClocks>> \in Seq(Cycle) /\ <<IdleClocks>> # <<>> /\ StartWalk(<<IdleClocks>>)
          BY <3>1, Constants DEF Cycle, WaiWalk
        <4> QED  BY <4>1, StartWalkIs
      <3>2. CASE ChargeWalk
        <4>1. insn \in Seq(Cycle) /\ insn # <<>> /\ StartWalk(insn)
          BY <3>2 DEF ChargeWalk, Types, Flow
        <4> QED  BY <4>1, StartWalkIs
      <3>3. ASSUME NEW c \in Insns, RdnmiAccess(c) PROVE Head(todo').op = "pending"
        BY <3>3, RdnmiAccessIs
      <3> QED  BY <1>3, <3>1, <3>2, <3>3
    <2>3. ~walked /\ ~Ahead  BY <2>1 DEF Flow, Ahead, Walking, Committing
    <2>4. Quiet /\ (done.hdma \/ hclock < HdmaClock) /\ (timeup <=> pend.irq_line)
      BY <2>1, <2>3 DEF Settled, LinesAgree
    <2>5. \E p : Follows(0, p)'  BY <2>1, <2>2, <2>3, <2>4, WalkStarts
    <2> QED  BY <2>5 DEF Sim
  <1> QED  BY <1>1, <1>2, <1>3 DEF Others

LEMMA LinesKept ==
    ASSUME Types, Flow, Settled, Sim, LinesAgree,
           EventStep \/ WalkStep \/ AfterCycle \/ WalkDone \/ AdvanceNext \/ Started \/ Others
    PROVE  LinesAgree'
  <1>1. pend \in PendType  BY DEF Types
  <1>2. CASE EventStep \/ WalkStep \/ AfterCycle
    <2>1. Walking /\ UNCHANGED <<pc, timeup, saved>>
      BY <1>2, EventIs, WalkStepIs DEF AfterCycle, At, WalkStep, WalkPassed, NoTransfer,
         SyncTransfer, Transfer, DmaUnit, DmaPending, TransferWait, CycleSample, WalkUnchanged,
         flagVars
    <2> QED  BY <2>1 DEF LinesAgree, Ahead, Walking
  <1>3. CASE WalkDone
    BY <1>3 DEF WalkDone, LinesAgree, Ahead, Committing
  <1>4. CASE AdvanceNext
    <2>1. /\ pc = "advance"
          /\ AdvanceDone => pc' \in {"idle", "boundary"} /\ UNCHANGED <<pend, timeup>>
          /\ AdvanceReset => pc' = "start" /\ ~timeup' /\ pend' = NoPend
          /\ ~AdvanceDone /\ ~AdvanceReset => UNCHANGED <<pc, walked>>
      BY <1>4, AdvanceIs
    <2>2. ~walked => (timeup <=> pend.irq_line) /\ Quiet
      BY <2>1 DEF LinesAgree, Ahead, Walking, Committing, Settled
    <2>3. CASE AdvanceDone
      <3>1. timeup <=> pend.irq_line  BY <2>2, <2>3, PaidUp
      <3> QED  BY <2>1, <2>3, <3>1 DEF LinesAgree
    <2>4. CASE AdvanceReset
      BY <2>1, <2>4 DEF LinesAgree, NoPend
    <2>5. CASE ~AdvanceDone /\ ~AdvanceReset /\ walked
      BY <2>1, <2>5 DEF LinesAgree, Ahead, Committing
    <2>6. CASE ~AdvanceDone /\ ~AdvanceReset /\ ~walked
      <3>1. AdvanceRdnmi \/ AdvanceHdma
        BY <1>4, <2>1, <2>2, <2>6, QuietCase DEF AdvanceNext, AdvanceNmi, AdvanceRefresh,
           AdvanceIrq, AdvanceEndLine, Advancing
      <3>2. UNCHANGED <<pend, timeup>>  BY <3>1 DEF AdvanceRdnmi, AdvanceHdma, flagVars
      <3> QED  BY <2>1, <2>2, <2>6, <3>2 DEF LinesAgree
    <2> QED  BY <2>3, <2>4, <2>5, <2>6
  <1>5. CASE Started
    <2>1. pc = "boundary" /\ pc' = "charge"  BY <1>5, StartedIs
    <2>2. timeup <=> pend.irq_line  BY <2>1 DEF LinesAgree, Ahead, Walking, Committing
    <2>3. timeup' <=> pend'.irq_line
      <3>1. CASE Interrupt  BY <1>1, <2>2, <3>1 DEF Interrupt, PendType, flagVars
      <3>2. ASSUME NEW c \in Insns,
                   Nop(c) \/ SetI(c) \/ Rti(c) \/ WaiInsn(c) \/ TimerWrite(c) \/ HdmaenWrite(c)
            PROVE  UNCHANGED <<pend, timeup>>
        BY <3>2 DEF Nop, SetI, Rti, WaiInsn, TimerWrite, HdmaenWrite, flagVars
      <3>3. ASSUME NEW c \in Insns, NmitimenWrite(c)
            PROVE  timeup' <=> pend'.irq_line
        <4>1. PICK v \in NmitimenValues :
                /\ pend' = [pend EXCEPT
                     !.nmi_after = IF ~nmitimen.nmi /\ v.nmi /\ rdnmi THEN Len(c) ELSE @,
                     !.irq_line = @ /\ v.mode # 0]
                /\ timeup' = (timeup /\ v.mode # 0)
          BY <3>3 DEF NmitimenWrite
        <4> DEFINE b == pend.irq_line /\ v.mode # 0
                   x == IF ~nmitimen.nmi /\ v.nmi /\ rdnmi THEN Len(c) ELSE pend.nmi_after
        <4>2. pend' = [pend EXCEPT !.nmi_after = x, !.irq_line = b]  BY <4>1
        <4> HIDE DEF b, x
        <4>3. pend'.irq_line = b  BY <1>1, <4>2 DEF PendType
        <4> QED  BY <2>2, <4>1, <4>3 DEF b
      <3>4. ASSUME NEW c \in Insns, TimeupRead(c)
            PROVE  ~timeup' /\ ~pend'.irq_line
        BY <1>1, <3>4 DEF TimeupRead, IrqLineRead, PendType
      <3>5. ASSUME NEW c \in Insns, MdmaenWrite(c)
            PROVE  pend'.irq_line = pend.irq_line /\ timeup' = timeup
        BY <1>1, <3>5 DEF MdmaenWrite, PendType, flagVars
      <3> QED  BY <1>5, <2>2, <3>1, <3>2, <3>3, <3>4, <3>5 DEF Started
    <2> QED  BY <2>1, <2>3 DEF LinesAgree
  <1>6. CASE StartFrame \/ WaiCycles \/ WaiWalk \/ ChargeWalk \/ ChargeWhole
    <2>1. /\ ~Ahead /\ pc' # "access" /\ timeup' = timeup
      BY <1>6, WaiSkips DEF StartFrame, WaiCycles, WaiWalk, ChargeWalk, ChargeWhole, flagVars,
         Ahead, Walking, Committing
    <2>2. pend'.irq_line = pend.irq_line
      <3>1. CASE ChargeWhole
        <4> DEFINE b == pend.irq_line /\ ~insn_i
        <4>1. pend' = [pend EXCEPT !.prev_irq = b]  BY <3>1 DEF ChargeWhole
        <4> HIDE DEF b
        <4> QED  BY <1>1, <4>1 DEF PendType
      <3>2. CASE ~ChargeWhole
        BY <1>6, <3>2 DEF StartFrame, WaiCycles, WaiWalk, ChargeWalk
      <3> QED  BY <3>1, <3>2
    <2> QED  BY <2>1, <2>2 DEF LinesAgree
  <1>7. CASE RdnmiRead
    BY <1>7 DEF RdnmiRead, Restored, LinesAgree
  <1>8. ASSUME NEW c \in Insns, RdnmiAccess(c)
        PROVE  LinesAgree'
    <2>1. /\ pc = "boundary" /\ pc' = "access" /\ saved' = pend /\ timeup' = timeup
      BY <1>8 DEF RdnmiAccess, flagVars
    <2>2. timeup <=> pend.irq_line  BY <2>1 DEF LinesAgree, Ahead, Walking, Committing
    <2> QED  BY <2>1, <2>2 DEF LinesAgree, Ahead, Walking
  <1> QED  BY <1>2, <1>3, <1>4, <1>5, <1>6, <1>7, <1>8 DEF Others

-----------------------------------------------------------------------------
(* The inductive invariant and what follows from it.                       *)

IInv == Types /\ Flow /\ Settled /\ Aligned /\ Entry /\ LinesAgree /\ Sim

LEMMA InitHolds == Init => IInv
  <1> SUFFICES ASSUME Init PROVE IInv  OBVIOUS
  <1>1. Types
    <2>1. 0 \in 0 .. Lines - 1 /\ 0 \in 0 .. Sync - 1 /\ 0 \in 0 .. 1 /\ 0 \in Nat
      BY Constants
    <2>2. hdma_cost \in Nat  BY Inputs DEF Init
    <2>3. pend \in PendType /\ saved \in PendType /\ w \in WalkType
      BY NoneAreTyped DEF Init
    <2>4. done \in DoneType  BY DEF Init, DoneType
    <2>5. insn \in Seq(Cycle) /\ todo \in Seq(StepType)  BY DEF Init
    <2>6. nmitimen \in [nmi : BOOLEAN, mode : 0 .. 3]  BY DEF Init
    <2>7. /\ line \in 0 .. Lines - 1 /\ hclock \in Nat /\ line_start \in 0 .. Sync - 1
          /\ field \in 0 .. 1 /\ refresh_paid \in Nat /\ htime \in Nat /\ vtime \in Nat
          /\ k \in Nat /\ count \in Nat
      BY <2>1 DEF Init
    <2>8. /\ hdmaen \in BOOLEAN /\ timeup \in BOOLEAN /\ take_irq \in BOOLEAN
          /\ skip_check \in BOOLEAN /\ walked \in BOOLEAN
          /\ pc \in {"start", "boundary", "charge", "walk", "access", "advance", "idle"}
      BY DEF Init
    <2> QED  BY <2>2, <2>3, <2>4, <2>5, <2>6, <2>7, <2>8 DEF Types
  <1>2. Flow  BY DEF Init, Flow, Walking
  <1>3. Settled  BY DEF Init, Settled
  <1>4. Aligned  BY DEF Init, Aligned, Walking
  <1>5. Entry  BY DEF Init, Entry
  <1>6. LinesAgree  BY DEF Init, LinesAgree, NoPend
  <1>7. Sim  BY DEF Init, Sim, Ahead, Walking, Committing
  <1> QED  BY <1>1, <1>2, <1>3, <1>4, <1>5, <1>6, <1>7 DEF IInv

LEMMA NextIs ==
    ASSUME Next
    PROVE  EventStep \/ WalkStep \/ AfterCycle \/ WalkDone \/ AdvanceNext \/ Started \/ Others
  BY DEF Next, ExecNext, WalkNext, EventStep, WalkStep, Started, Others

LEMMA StepHolds == IInv /\ [Next]_vars => IInv'
  <1> SUFFICES ASSUME IInv, [Next]_vars PROVE IInv'  OBVIOUS
  <1> USE DEF IInv
  <1>1. CASE Next
    <2>1. EventStep \/ WalkStep \/ AfterCycle \/ WalkDone \/ AdvanceNext \/ Started \/ Others
      BY <1>1, NextIs
    <2>2. AdvanceDone => refresh_paid = 0  BY PaidUp
    <2>3. CASE EventStep \/ WalkStep
      <3>1. Types' /\ Flow'  BY <2>3, EventTypes, StepTypes, WalkFlow
      <3>2. Settled' /\ Aligned' /\ Entry' /\ LinesAgree'
        BY <2>3, WalkSettled, WalkAligned, WalkEntry, LinesKept
      <3>3. Sim'  BY <2>3, <3>1, WalkSim
      <3> QED  BY <3>1, <3>2, <3>3
    <2>4. CASE AfterCycle \/ WalkDone
      <3>1. Types' /\ Flow'  BY <2>4, AfterTypes, AfterFlow
      <3>2. Settled' /\ Aligned' /\ Entry' /\ LinesAgree'
        BY <2>4, WalkSettled, OthersAligned, AfterEntry, LinesKept
      <3>3. Sim'  BY <2>4, <3>1, WalkSim
      <3> QED  BY <3>1, <3>2, <3>3
    <2>5. CASE AdvanceNext
      <3>1. Types' /\ Flow'  BY <2>2, <2>5, AdvanceTypes, AdvanceFlow
      <3>2. Settled' /\ Aligned' /\ Entry' /\ LinesAgree'
        BY <2>5, AdvanceSettled, OthersAligned, AdvanceEntry, LinesKept
      <3>3. Sim'  BY <2>5, AdvanceSim
      <3> QED  BY <3>1, <3>2, <3>3
    <2>6. CASE Started \/ Others
      <3>1. Types' /\ Flow'  BY <2>6, StartedTypes, OthersTypes, StartedFlow, OthersFlow
      <3>2. Settled' /\ Aligned' /\ Entry' /\ LinesAgree'
        BY <2>6, OthersSettled, OthersAligned, OthersEntry, LinesKept
      <3>3. Sim'  BY <2>6, StartSim
      <3> QED  BY <3>1, <3>2, <3>3
    <2> QED  BY <2>1, <2>3, <2>4, <2>5, <2>6
  <1>2. CASE UNCHANGED vars
    <2> USE <1>2 DEF vars, clockVars, regVars, flagVars, execVars, walkVars
    <2>1. Types'  BY DEF Types
    <2>2. Flow'  BY DEF Flow, Walking
    <2>3. Settled'  BY DEF Settled, Quiet
    <2>4. Aligned'  BY DEF Aligned, Walking, WalkClockNow
    <2>5. Entry'  BY DEF Entry
    <2>6. LinesAgree'  BY DEF LinesAgree, Ahead, Walking, Committing
    <2>7. Ahead' <=> Ahead  BY DEF Ahead, Walking, Committing
    <2>8. ASSUME NEW m, NEW p, Follows(m, p), Ahead PROVE Follows(m, p)'
      <3>1. Dist' = Dist /\ Paid' = Paid /\ Reached' = Reached /\ Front' = Front
        BY DEF Dist, Paid, Reached, Front, Walking, Passing
      <3>2. Unmet'  BY <2>8, <3>1 DEF Follows, Unmet
      <3>3. Front \in Int /\ Front <= Front'  BY <2>8, <3>1, AheadTypes
      <3> QED  BY <2>8, <3>1, <3>2, <3>3, FollowsKept
    <2>9. Sim'  BY <2>7, <2>8 DEF Sim
    <2> QED  BY <2>1, <2>2, <2>3, <2>4, <2>5, <2>6, <2>9
  <1> QED  BY <1>1, <1>2

(* Every state the scheduler of runtime/sched.c reaches is well typed, its *)
(* walk (walk_pass and its helpers) is ahead of the committed clock along  *)
(* the lines advance() is going to end, and has met there exactly the      *)
(* events advance() is going to meet.                                      *)
THEOREM Inductive == Spec => []IInv
  BY InitHolds, StepHolds, PTL DEF Spec

(* walk_commit: when advance() has no event left to handle it stands at    *)
(* the line, field and clock where the walk ended, with the same events    *)
(* of the line behind it and every refresh that the walk charged met once. *)
THEOREM WalkCommitTheorem == Spec => []WalkCommitAgree
  <1>1. ASSUME IInv PROVE WalkCommitAgree
    <2> SUFFICES ASSUME Advancing("none"), walked PROVE WalkCommitAgree
      BY DEF WalkCommitAgree
    <2>1. Committing /\ Ahead /\ AdvanceCase = "none"  BY DEF Advancing, Committing, Ahead
    <2>2. PICK m, p : Follows(m, p)  BY <1>1, <2>1 DEF IInv, Sim
    <2> QED  BY <1>1, <2>1, <2>2, Arrived DEF IInv, WalkCommitAgree
  <1> QED  BY <1>1, Inductive, PTL

(* TIMEUP, which advance() sets, and the CPU's IRQ line, which walk_pass() *)
(* raises, are cleared and set by different code; at every instruction     *)
(* boundary of exec_one they agree.                                        *)
THEOREM TimeupTheorem == Spec => []TimeupIsIrqLine
  <1>1. IInv => TimeupIsIrqLine
    BY DEF IInv, LinesAgree, TimeupIsIrqLine, Ahead, Walking, Committing
  <1> QED  BY <1>1, Inductive, PTL

(* walk_pending: when a DMA, HDMA or HDMA init starts, the clock since     *)
(* power-on is a multiple of Sync, whatever refresh came in the sync pass. *)
THEOREM AlignedTheorem == Spec => []TransferAligned
  <1>1. ASSUME IInv PROVE TransferAligned
    <2> SUFFICES ASSUME At("transfer") PROVE (line_start + w.t) % Sync = 0
      BY DEF TransferAligned
    <2>1. Walking /\ Head(todo).op = "transfer"  BY DEF At
    <2>2. todo \in Seq(StepType) /\ todo # <<>>  BY <1>1, <2>1 DEF IInv, Types, Flow, Shape
    <2>3. 1 \in 1 .. Len(todo) /\ todo[1].op = "transfer"  BY <2>1, <2>2
    <2>4. OnGrid(todo, line_start + w.t)  BY <1>1, <2>1 DEF IInv, Aligned, WalkClockNow
    <2> QED  BY <2>3, <2>4 DEF OnGrid
  <1> QED  BY <1>1, Inductive, PTL

(* exec_one: at the boundary after an interrupt entry no IRQ is due,       *)
(* although the IRQ line may still be up and walk_cycle_start sampled it   *)
(* all through the entry.                                                  *)
THEOREM EntryTheorem == Spec => []NoIrqAfterEntry
  <1>1. IInv => NoIrqAfterEntry  BY DEF IInv, Entry, NoIrqAfterEntry
  <1> QED  BY <1>1, Inductive, PTL

(* A step of the scheduler outside advance() neither runs it nor ends a    *)
(* line.                                                                   *)
LEMMA OnlyAdvance ==
    ASSUME Types, Flow, Next
    PROVE  AdvanceNext \/ (pc # "advance" /\ line' = line)
  <1>1. CASE EventStep \/ WalkStep
    <2>1. Walking /\ WalkUnchanged
      BY <1>1, EventIs DEF WalkStep, WalkPassed, NoTransfer, SyncTransfer, Transfer, DmaUnit,
         DmaPending, TransferWait, CycleSample, At, Passing
    <2> QED  BY <2>1 DEF Walking, WalkUnchanged, clockVars
  <1>2. CASE AfterCycle \/ WalkDone
    BY <1>2 DEF AfterCycle, WalkDone, At, Walking, clockVars
  <1>3. CASE Started
    BY <1>3, StartedIs DEF clockVars
  <1>4. CASE Others
    BY <1>4 DEF Others, StartFrame, WaiCycles, WaiWalk, RdnmiRead, ChargeWhole, ChargeWalk,
       RdnmiAccess, clockVars, BoundaryUnchanged
  <1> QED  BY <1>1, <1>2, <1>3, <1>4, NextIs

(* charge: what runs uncharged by a walk (an instruction charged whole,    *)
(* wai_cycle's idle run, the reset sequence) passes no event with an       *)
(* effect: advance() ends no line, pays no refresh, arms no NMI and raises *)
(* no IRQ for it.                                                          *)
THEOREM QuietTheorem == Spec => ChargedWholeIsQuiet
  <1>1. ASSUME IInv, Next, pc = "advance", ~walked
        PROVE  /\ UNCHANGED <<clockVars, refresh_paid, pend, timeup>>
               /\ done'.refresh = done.refresh /\ done'.nmi = done.nmi
    <2>1. AdvanceNext  BY <1>1, OnlyAdvance DEF IInv
    <2>2. AdvanceCase \in {"rdnmi_set", "rdnmi_clear", "hdma", "none"}
      BY <1>1, QuietCase DEF IInv, Settled
    <2>3. AdvanceRdnmi \/ AdvanceHdma \/ AdvanceDone
      BY <2>1, <2>2 DEF AdvanceNext, AdvanceNmi, AdvanceRefresh, AdvanceIrq, AdvanceEndLine,
         AdvanceReset, Advancing
    <2>4. CASE AdvanceRdnmi  BY <2>4 DEF AdvanceRdnmi
    <2>5. CASE AdvanceHdma
      <3>1. done' = [done EXCEPT !.hdma = TRUE]  BY <2>5 DEF AdvanceHdma
      <3>2. done \in DoneType  BY <1>1 DEF IInv, Types
      <3>3. done'.refresh = done.refresh /\ done'.nmi = done.nmi  BY <3>1, <3>2 DEF DoneType
      <3> QED  BY <2>5, <3>3 DEF AdvanceHdma, flagVars
    <2>6. CASE AdvanceDone  BY <1>1, <2>6 DEF AdvanceDone, flagVars
    <2> QED  BY <2>3, <2>4, <2>5, <2>6
  <1>2. ASSUME IInv, UNCHANGED vars
        PROVE  /\ UNCHANGED <<clockVars, refresh_paid, pend, timeup>>
               /\ done'.refresh = done.refresh /\ done'.nmi = done.nmi
    BY <1>2 DEF vars, flagVars
  <1>3. IInv /\ [Next]_vars =>
          [pc = "advance" /\ ~walked =>
             /\ UNCHANGED <<clockVars, refresh_paid, pend, timeup>>
             /\ done'.refresh = done.refresh /\ done'.nmi = done.nmi]_vars
    BY <1>1, <1>2
  <1> QED  BY <1>3, Inductive, PTL DEF Spec, ChargedWholeIsQuiet
=============================================================================
