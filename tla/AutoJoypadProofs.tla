-------------------------- MODULE AutoJoypadProofs --------------------------
(***************************************************************************)
(* Proofs about AutoJoypad: catching up with the automatic read at any     *)
(* clock shows what running each step at its own would, for every number   *)
(* of buttons, length of a step, a line and a frame, and instructions of   *)
(* any length: one may cross several lines.                                *)
(***************************************************************************)
EXTENDS AutoJoypad, FiniteSetTheorems, TLAPS

Types ==
    /\ line \in 0 .. Lines - 1 /\ h \in Nat
    /\ phase \in 0 .. Grid - 1
    /\ enable \in BOOLEAN /\ on \in BOOLEAN /\ busy \in BOOLEAN /\ since \subseteq BOOLEAN
    /\ pad \in Int /\ reading \in Int /\ given \in Int
    /\ step \in 0 .. Idle /\ start \in Int

Reading == step <= LastStep

(* A step that has been run was due.                                       *)
RunWereDue ==
    Reading => \A t \in 0 .. LastStep : t < step => start + StepClocks * t <= h

(* The result and busy are those of the last step run, with the enable bit *)
(* taken at step 1.                                                        *)
LastRun ==
    /\ step <= 1 => joy = kept
    /\ step > 1 => joy = IF on THEN Shifted(reading, step) ELSE kept
    /\ busy <=> on /\ step > 1 /\ Reading

(* Until step 1 has been run its clock lies in this line; once that has    *)
(* passed, the enable bit is one of those since then.  So is the one taken.*)
EnableInSince ==
    Reading =>
        /\ step <= 1 => /\ start + StepClocks > 0
                        /\ start + StepClocks <= h => enable \in since
        /\ step > 1 => on \in since

(* Lines since the read was armed, if it was armed in this frame or the    *)
(* one before.                                                             *)
Age == IF line >= VBlankLine THEN line - VBlankLine ELSE line + Lines - VBlankLine

(* Where the read under way lies: no later than a line allows, and not all *)
(* of it before this line.                                                 *)
ReadLies ==
    Reading => /\ start <= Delay + Grid - StepClocks - Age * LineClocks
               /\ start + StepClocks * LastStep > 0

(* From VBlank to the frame edge the read is of this frame's buttons.      *)
OfThisFrame ==
    /\ pad = given
    /\ line >= VBlankLine => reading = given

Inv == Types /\ RunWereDue /\ LastRun /\ EnableInSince /\ ReadLies /\ OfThisFrame

LEMMA Constants ==
    /\ Bits \in Nat /\ Bits > 0 /\ StepClocks \in Nat /\ StepClocks > 0
    /\ Grid \in Nat /\ Grid > 0 /\ Delay \in Nat /\ Delay > 0
    /\ LineClocks \in Nat /\ LineClocks > 0 /\ Lines \in Nat
    /\ VBlankLine \in 1 .. Lines - 1
    /\ \A d \in InsnClocks : d \in Nat /\ 0 < d
    /\ LastStep \in Nat /\ LastStep = 2 * Bits + 2 /\ LastStep >= 4 /\ Idle = LastStep + 1
    /\ StepClocks * LastStep \in Nat
    /\ Delay + Grid + StepClocks * LastStep <= (Lines - 1) * LineClocks
  <1>1. /\ Bits \in Nat /\ Bits > 0 /\ StepClocks \in Nat /\ StepClocks > 0
        /\ Grid \in Nat /\ Grid > 0 /\ Delay \in Nat /\ Delay > 0
        /\ LineClocks \in Nat /\ LineClocks > 0 /\ Lines \in Nat
        /\ VBlankLine \in 1 .. Lines - 1
        /\ \A d \in InsnClocks : d \in Nat /\ 0 < d
    BY ConstantsAssumption
  <1>2. LastStep \in Nat /\ LastStep = 2 * Bits + 2 /\ LastStep >= 4 /\ Idle = LastStep + 1
    BY <1>1 DEF LastStep, Idle
  <1>3. StepClocks * LastStep \in Nat  BY <1>1, <1>2
  <1>4. Delay + Grid + StepClocks * LastStep <= (Lines - 1) * LineClocks
    BY ConstantsAssumption, <1>2
  <1> QED  BY <1>1, <1>2, <1>3, <1>4

-----------------------------------------------------------------------------
(* Arithmetic.                                                             *)

LEMMA Quotient ==
    ASSUME NEW a \in Int, NEW d \in Nat, d > 0
    PROVE  a \div d \in Int /\ a % d \in 0 .. d - 1 /\ a = (d * (a \div d)) + (a % d)
  OBVIOUS

(* The steps at or before a clock are those up to the quotient.            *)
LEMMA StepsUpTo ==
    ASSUME NEW a \in Int, NEW t \in Nat
    PROVE  (StepClocks * t <= a) <=> (t <= a \div StepClocks)
  <1> DEFINE q == a \div StepClocks
             r == a % StepClocks
  <1>1. /\ StepClocks \in Nat /\ StepClocks > 0 /\ q \in Int /\ r \in 0 .. StepClocks - 1
        /\ a = (StepClocks * q) + r
    BY Constants, Quotient
  <1> HIDE DEF q, r
  <1>2. CASE t <= q
    <2>1. StepClocks * t <= StepClocks * q  BY <1>1, <1>2
    <2> QED  BY <1>1, <1>2, <2>1 DEF q
  <1>3. CASE t > q
    <2>1. StepClocks * (q + 1) <= StepClocks * t  BY <1>1, <1>3
    <2>2. StepClocks * (q + 1) = StepClocks * q + StepClocks  BY <1>1
    <2>3. StepClocks * q \in Int /\ StepClocks * t \in Int  BY <1>1
    <2> QED  BY <1>1, <1>3, <2>1, <2>2, <2>3 DEF q
  <1> QED  BY <1>1, <1>2, <1>3

(* autojoy_update runs the steps at or before its clock and no other.  An  *)
(* earlier one may have run some up to a later clock, e: a read whose      *)
(* instruction reached into the next line.                                 *)
LEMMA NextStepIs ==
    ASSUME NEW s \in 0 .. Idle, NEW a \in Int, NEW c \in Int, NEW e \in Int, c <= e,
           \A t \in 0 .. LastStep : t < s => a + StepClocks * t <= e
    PROVE  /\ NextStep(s, a, c) \in s .. Idle
           /\ \A t \in 0 .. LastStep :
                /\ t < NextStep(s, a, c) => a + StepClocks * t <= e
                /\ a + StepClocks * t <= c => t < NextStep(s, a, c)
  <1> DEFINE q == (c - a) \div StepClocks
             n == NextStep(s, a, c)
  <1>1. q \in Int  BY Constants, Quotient
  <1>2. \A t \in Nat : StepClocks * t \in Nat  BY Constants
  <1>3. \A t \in Nat : t <= q <=> a + StepClocks * t <= c
    <2> SUFFICES ASSUME NEW t \in Nat PROVE t <= q <=> a + StepClocks * t <= c  OBVIOUS
    <2>1. (StepClocks * t <= c - a) <=> (t <= q)  BY StepsUpTo
    <2> QED  BY <1>2, <2>1
  <1>4. n = Larger(s, Smaller(Idle, 1 + q))  BY DEF NextStep
  <1> HIDE DEF q, n
  <1>5. /\ n \in s .. Idle /\ (n = s \/ (n = Idle /\ Idle <= 1 + q) \/ n = 1 + q)
        /\ n >= Idle \/ n >= 1 + q
    BY <1>1, <1>4, Constants DEF Larger, Smaller
  <1>6. ASSUME NEW t \in 0 .. LastStep, t < n  PROVE a + StepClocks * t <= e
    <2>1. CASE n = s  BY <1>6, <2>1
    <2>2. CASE n # s
      <3>1. t <= q  BY <1>1, <1>5, <1>6, <2>2, Constants
      <3>2. t \in Nat /\ StepClocks * t \in Nat /\ a + StepClocks * t <= c
        BY <1>2, <1>3, <3>1, Constants
      <3> QED  BY <3>2
    <2> QED  BY <2>1, <2>2
  <1>7. ASSUME NEW t \in 0 .. LastStep, a + StepClocks * t <= c  PROVE t < n
    <2>1. t <= q  BY <1>3, <1>7, Constants
    <2> QED  BY <1>1, <1>5, <2>1, Constants
  <1> QED  BY <1>5, <1>6, <1>7 DEF n

LEMMA BitsInMonotone ==
    ASSUME NEW s \in Nat, NEW n \in Nat, s <= n
    PROVE  BitsIn(s) <= BitsIn(n) /\ BitsIn(n) \in Nat /\ BitsIn(s) \in Nat
           /\ (n <= 4 => BitsIn(n) = 0)
  BY DEF BitsIn

(* As many bits are in as shifting steps were run.                         *)
LEMMA BitsInIsCount ==
    ASSUME NEW n \in 0 .. Idle, NEW S, S = {s \in 0 .. LastStep : s < n}
    PROVE  Cardinality({s \in S : s >= 4 /\ s % 2 = 0}) = BitsIn(n)
  <1> DEFINE m == BitsIn(n)
             T == {s \in S : s >= 4 /\ s % 2 = 0}
             f == [i \in 1 .. m |-> 2 * i + 2]
  <1>1. n \in Nat /\ m \in Nat /\ (n <= 4 => m = 0) /\ (n > 4 => m = (n - 3) \div 2)
    BY Constants DEF BitsIn
  <1>2. \A i \in 1 .. m : f[i] \in T
    <2> SUFFICES ASSUME NEW i \in 1 .. m PROVE f[i] \in T  OBVIOUS
    <2>1. n > 4 /\ 2 * m <= n - 3  BY <1>1
    <2>2. 2 * i + 2 >= 4 /\ 2 * i + 2 < n /\ (2 * i + 2) % 2 = 0  BY <1>1, <2>1
    <2>3. f[i] = 2 * i + 2 /\ f[i] \in 0 .. LastStep  BY <2>1, <2>2, Constants
    <2> QED  BY <2>2, <2>3
  <1>3. \A t \in T : \E i \in 1 .. m : f[i] = t
    <2> SUFFICES ASSUME NEW t \in T PROVE \E i \in 1 .. m : f[i] = t  OBVIOUS
    <2>1. t \in Nat /\ t >= 4 /\ t < n /\ t % 2 = 0  BY Constants
    <2>2. PICK k \in Int : t = 2 * k  BY <2>1
    <2>3. k - 1 \in 1 .. m /\ 2 * (k - 1) + 2 = t  BY <1>1, <2>1, <2>2
    <2> QED  BY <2>3
  <1>4. \A i, j \in 1 .. m : f[i] = f[j] => i = j  BY <1>1
  <1>5. f \in [1 .. m -> T]  BY <1>2
  <1> HIDE DEF m, T, f
  <1>6. f \in Bijection(1 .. m, T)
    BY <1>3, <1>4, <1>5 DEF Bijection, Injection, IsInjective, Surjection
  <1>7. ExistsBijection(1 .. m, T)  BY <1>6 DEF ExistsBijection
  <1>8. IsFiniteSet(1 .. m) /\ Cardinality(1 .. m) = m
    <2>1. IsFiniteSet(1 .. m) /\ Cardinality(1 .. m) = IF 1 > m THEN 0 ELSE m - 1 + 1
      <3>1. 1 \in Int /\ m \in Int  BY <1>1
      <3> QED  BY <3>1, FS_Interval, Zenon
    <2> QED  BY <1>1, <2>1
  <1>9. Cardinality(T) = m  BY <1>7, <1>8, FS_Bijection
  <1> QED  BY <1>9 DEF m, T

-----------------------------------------------------------------------------
(* A read of buttons b that started at a and has step s to run next, when  *)
(* j is the result and k what was there before the read: it has run no     *)
(* step that was not due at e.                                             *)
Before(s, a, b, j, k, e) ==
    /\ s <= LastStep => \A t \in 0 .. LastStep : t < s => a + StepClocks * t <= e
    /\ s <= 1 => j = k
    /\ s > 1 => j = IF on THEN Shifted(b, s) ELSE k
    /\ busy <=> on /\ s > 1 /\ s <= LastStep
    /\ s <= 1 /\ a + StepClocks <= e => enable \in since'
    /\ s <= LastStep /\ s > 1 => on \in since'

(* The same once it has caught up with clock c.                            *)
After(s, a, b, k, c, e) ==
    /\ step' \in s .. Idle /\ start' \in Int /\ reading' = b
    /\ on' \in BOOLEAN /\ busy' \in BOOLEAN
    /\ step' <= 1 => joy' = k
    /\ step' > 1 => joy' = IF on' THEN Shifted(b, step') ELSE k
    /\ busy' <=> on' /\ step' > 1 /\ step' <= LastStep
    /\ step' <= LastStep => s <= LastStep /\ start' = a
    /\ s <= LastStep => \A t \in 0 .. LastStep : /\ t < step' => a + StepClocks * t <= e
                                                 /\ a + StepClocks * t <= c => t < step'
    /\ s <= LastStep /\ step' > 1 => on' \in since'

LEMMA UpdateIs ==
    ASSUME NEW s \in 0 .. Idle, NEW a \in Int, NEW b, NEW j, NEW k,
           NEW c \in Int, NEW e \in Int, c <= e,
           Update(s, a, b, j, c), enable' = enable,
           enable \in BOOLEAN, on \in BOOLEAN, busy \in BOOLEAN,
           Before(s, a, b, j, k, e)
    PROVE  After(s, a, b, k, c, e)
  <1> USE DEF Before
  <1> DEFINE n == NextStep(s, a, c)
             first == s <= 1 /\ 1 < n
             runs == IF first THEN enable' ELSE on
  <1>1. /\ step' = n /\ on' = runs /\ reading' = b
        /\ busy' = (~(n = Idle) /\ (IF first THEN runs ELSE busy))
        /\ joy' = IF runs /\ (first \/ BitsIn(s) < BitsIn(n)) THEN Shifted(b, n) ELSE j
        /\ start' = IF n = Idle THEN 0 ELSE a
    BY DEF Update, Over, EnableSeen
  <1>2. /\ n \in s .. Idle
        /\ s <= LastStep => \A t \in 0 .. LastStep :
                              /\ t < n => a + StepClocks * t <= e
                              /\ a + StepClocks * t <= c => t < n
    <2>1. CASE s <= LastStep  BY <2>1, NextStepIs
    <2>2. CASE s = Idle
      <3>1. (c - a) \div StepClocks \in Int  BY Constants, Quotient
      <3>2. n = Idle  BY <2>2, <3>1, Constants DEF NextStep, Larger, Smaller
      <3> QED  BY <2>2, <3>2, Constants
    <2> QED  BY <2>1, <2>2, Constants
  <1>3. /\ s \in Nat /\ n \in Nat /\ s <= n /\ n <= LastStep + 1 /\ LastStep \in Nat
        /\ Idle = LastStep + 1 /\ LastStep >= 4
    BY <1>2, Constants
  <1>4. /\ BitsIn(s) \in Nat /\ BitsIn(n) \in Nat /\ BitsIn(s) <= BitsIn(n)
        /\ (n <= 4 => BitsIn(n) = 0)
    BY <1>3, BitsInMonotone
  <1>5. s > 1 /\ BitsIn(s) = BitsIn(n) => Shifted(b, s) = Shifted(b, n)  BY DEF Shifted
  <1> HIDE DEF n
  <1>6. /\ on' \in BOOLEAN /\ busy' \in BOOLEAN
        /\ busy' <=> on' /\ n > 1 /\ n <= LastStep
    <2>1. CASE first  BY <1>1, <1>3, <2>1
    <2>2. CASE ~first
      <3>1. on' = on /\ busy' = (~(n = Idle) /\ busy)  BY <1>1, <2>2
      <3>2. s > 1 \/ n <= 1  BY <1>3, <2>2
      <3>3. (s > 1 /\ s <= LastStep /\ n # Idle) <=> (n > 1 /\ n <= LastStep)
        BY <1>3, <3>2
      <3> QED  BY <3>1, <3>3, Zenon
    <2> QED  BY <2>1, <2>2
  <1>7. n <= 1 => joy' = k
    BY <1>1, <1>3, <1>4
  <1>8. n > 1 => joy' = IF on' THEN Shifted(b, n) ELSE k
    <2>1. CASE first  BY <1>1, <1>3, <2>1
    <2>2. CASE n > 1 /\ ~first
      BY <1>1, <1>3, <1>4, <1>5, <2>2
    <2> QED  BY <2>1, <2>2
  <1>9. s <= LastStep /\ n > 1 => on' \in since'
    <2>1. CASE first
      <3>1. a + StepClocks * 1 <= e /\ StepClocks * 1 = StepClocks  BY <1>2, <1>3, <2>1, Constants
      <3> QED  BY <1>1, <2>1, <3>1
    <2>2. CASE ~first  BY <1>1, <1>3, <2>2
    <2> QED  BY <2>1, <2>2
  <1> QED  BY <1>1, <1>2, <1>3, <1>6, <1>7, <1>8, <1>9 DEF After

-----------------------------------------------------------------------------
(* The steps.                                                              *)

LEMMA InitInv == ASSUME Init PROVE Inv
  <1>1. pad \in Int /\ line \in 0 .. Lines - 1 /\ ~(line >= VBlankLine) /\ step = Idle
        /\ ~Reading /\ step > 1
    BY Constants DEF Init, Reading, Buttons
  <1>2. h \in Nat /\ phase \in 0 .. Grid - 1 /\ start \in Int
        /\ step \in 0 .. Idle /\ reading \in Int
    BY Constants DEF Init
  <1>3. enable \in BOOLEAN /\ on \in BOOLEAN /\ busy \in BOOLEAN /\ since \subseteq BOOLEAN
        /\ ~on /\ ~busy /\ joy = kept /\ pad = given
    BY DEF Init
  <1> QED  BY <1>1, <1>2, <1>3, Constants
           DEF Inv, Types, RunWereDue, LastRun, EnableInSince, ReadLies, OfThisFrame

(* The program's clock goes on: what a read, a write of $4200 and any      *)
(* other instruction have in common.                                       *)
LEMMA Passes ==
    ASSUME Inv, NEW d \in InsnClocks, Running, h' = h + d, NEW e1 \in BOOLEAN,
           Watch(d, enable, e1)
    PROVE  /\ h' \in Nat /\ h <= h'
           /\ since' \subseteq BOOLEAN
           /\ Reading /\ step <= 1 /\ start + StepClocks <= h' => e1 \in since'
           /\ Reading /\ step > 1 => on \in since'
  <1>1. h \in Nat /\ d \in Nat /\ h < LineClocks /\ 0 < d
    BY Constants DEF Inv, Types, Running
  <1>2. /\ since' = CASE AtStepOne \in h + 1 .. h + d      -> {enable, e1}
                       [] step <= 1 /\ AtStepOne \in 1 .. h -> since \union {e1}
                       [] OTHER                             -> since
        /\ enable \in BOOLEAN /\ since \subseteq BOOLEAN
    BY DEF Watch, Inv, Types
  <1>3. ASSUME Reading PROVE AtStepOne = start + StepClocks /\ AtStepOne \in Int
    BY <1>3, Constants DEF AtStepOne, Reading, Inv, Types
  <1>4. ASSUME Reading, step <= 1, start + StepClocks <= h' PROVE e1 \in since'
    <2>1. AtStepOne \in Int /\ 0 < AtStepOne /\ AtStepOne <= h + d
      BY <1>3, <1>4 DEF Inv, EnableInSince
    <2>2. AtStepOne \in 1 .. h \/ AtStepOne \in h + 1 .. h + d  BY <1>1, <2>1
    <2> QED  BY <1>2, <1>4, <2>2
  <1>5. ASSUME Reading, step > 1 PROVE on \in since'
    <2>1. start + StepClocks * 1 <= h /\ StepClocks * 1 = StepClocks
      BY <1>5, Constants DEF Inv, RunWereDue
    <2>2. AtStepOne \notin h + 1 .. h + d  BY <1>1, <1>3, <1>5, <2>1
    <2>3. ~(step <= 1)  BY <1>5, Constants DEF Inv, Types
    <2>4. since' = since  BY <1>2, <2>2, <2>3
    <2> QED  BY <1>5, <2>4 DEF Inv, EnableInSince
  <1>6. since' \subseteq BOOLEAN  BY <1>2
  <1> QED  BY <1>1, <1>4, <1>5, <1>6

LEMMA NopInv ==
    ASSUME Inv, NEW d \in InsnClocks, Nop(d) \/ NmitimenWrite(d)
    PROVE  Inv'
  <1>1. PICK e1 \in BOOLEAN : /\ Watch(d, enable, e1) /\ enable' = e1 /\ Running /\ h' = h + d
                              /\ UNCHANGED <<line, phase, pad, readVars, given, kept>>
    BY DEF Nop, NmitimenWrite, Inv, Types
  <1>2. /\ h' \in Nat /\ h <= h'
        /\ since' \subseteq BOOLEAN
        /\ Reading /\ step <= 1 /\ start + StepClocks <= h' => e1 \in since'
        /\ Reading /\ step > 1 => on \in since'
    BY <1>1, Passes
  <1>3. Types'  BY <1>1, <1>2 DEF Inv, Types, readVars
  <1>4. RunWereDue'
    <2> SUFFICES ASSUME Reading', NEW t \in 0 .. LastStep, t < step'
                 PROVE  start' + StepClocks * t <= h'
      BY DEF RunWereDue, LastStep
    <2>1. start + StepClocks * t <= h /\ StepClocks * t \in Int /\ start \in Int /\ h \in Int
      BY <1>1, Constants DEF Inv, Types, RunWereDue, Reading, readVars
    <2> QED  BY <1>1, <1>2, <2>1 DEF readVars
  <1>5. EnableInSince'
    BY <1>1, <1>2 DEF Inv, EnableInSince, Reading, readVars
  <1> QED  BY <1>1, <1>3, <1>4, <1>5
           DEF Inv, LastRun, Reading, ReadLies, OfThisFrame, Age, Shifted, BitsIn, readVars

(* A read of the registers: also what it sees.                             *)
LEMMA ReadIs ==
    ASSUME Inv, NEW d \in InsnClocks, Read(d)
    PROVE  /\ Inv' /\ step' \in 0 .. Idle
           /\ Reading => /\ \A t \in 0 .. LastStep :
                              t < step' <=> start + StepClocks * t <= h + d
                         /\ step' > 1 => on' \in since'
  <1>1. /\ Watch(d, enable, enable) /\ enable' = enable /\ Running /\ h' = h + d
        /\ UNCHANGED <<line, phase, pad, given, kept>>
        /\ Update(step, start, reading, joy, h + d)
    BY DEF Read
  <1>2. /\ step \in 0 .. Idle /\ start \in Int /\ enable \in BOOLEAN /\ on \in BOOLEAN
        /\ busy \in BOOLEAN /\ reading \in Int /\ d \in Int /\ h \in Int
    BY Constants DEF Inv, Types
  <1>3. /\ h' \in Nat /\ h <= h'
        /\ since' \subseteq BOOLEAN
        /\ Reading /\ step <= 1 /\ start + StepClocks <= h' => enable \in since'
        /\ Reading /\ step > 1 => on \in since'
    BY <1>1, <1>2, Passes
  <1>4. Reading => \A t \in 0 .. LastStep : t < step => start + StepClocks * t <= h + d
    <2> SUFFICES ASSUME Reading, NEW t \in 0 .. LastStep, t < step
                 PROVE  start + StepClocks * t <= h + d
      OBVIOUS
    <2>1. start + StepClocks * t <= h /\ StepClocks * t \in Int
      BY Constants DEF Inv, RunWereDue
    <2> QED  BY <1>1, <1>2, <1>3, <2>1
  <1>5. /\ step <= 1 => joy = kept
        /\ step > 1 => joy = IF on THEN Shifted(reading, step) ELSE kept
        /\ busy <=> on /\ step > 1 /\ step <= LastStep
    BY DEF Inv, LastRun, Reading
  <1>6. Before(step, start, reading, joy, kept, h + d)
    BY <1>1, <1>2, <1>3, <1>4, <1>5, Constants DEF Before, Reading
  <1>6a. After(step, start, reading, kept, h + d, h + d)
    <2>1. h + d \in Int /\ h + d <= h + d  BY <1>2
    <2> QED  BY <1>1, <1>2, <1>6, <2>1, UpdateIs
  <1> USE <1>6a DEF After
  <1>7. Types'  BY <1>1, <1>2, <1>3 DEF Inv, Types
  <1>8. RunWereDue'  BY <1>1 DEF RunWereDue, Reading, LastStep
  <1>9. LastRun'  BY <1>1 DEF LastRun, Reading, Shifted, BitsIn
  <1>10. EnableInSince'
    <2>1. step' <= 1 => step <= 1  BY <1>2, Constants
    <2> QED  BY <1>1, <1>2, <1>3, <2>1, Constants DEF Inv, EnableInSince, Reading
  <1>11. ReadLies'  BY <1>1 DEF Inv, ReadLies, Reading, Age
  <1>12. OfThisFrame'  BY <1>1 DEF Inv, OfThisFrame
  <1>13. Reading => /\ \A t \in 0 .. LastStep : t < step' <=> start + StepClocks * t <= h + d
                    /\ step' > 1 => on' \in since'
    BY DEF Reading
  <1>14. step' \in 0 .. Idle  BY <1>7 DEF Types
  <1> QED  BY <1>7, <1>8, <1>9, <1>10, <1>11, <1>12, <1>13, <1>14 DEF Inv

(* Where autojoy_arm puts the read, on a line that starts at phase p: step *)
(* 1 comes after the line's start.                                         *)
LEMMA StartIs ==
    ASSUME NEW p \in 0 .. Grid - 1
    PROVE  /\ StartFrom(p) \in Int /\ Delay - StepClocks <= StartFrom(p)
           /\ StartFrom(p) <= Delay + Grid - StepClocks
  <1> DEFINE x == p + Delay + Grid - 1
             q == x \div Grid
  <1>1. x \in Int /\ q \in Int /\ x % Grid \in 0 .. Grid - 1 /\ x = (Grid * q) + (x % Grid)
    BY Constants, Quotient
  <1>2. Grid * q \in Int /\ Grid * q = q * Grid  BY <1>1, Constants
  <1>3. StartFrom(p) = q * Grid - StepClocks - p  BY DEF StartFrom
  <1> HIDE DEF q
  <1> QED  BY <1>1, <1>2, <1>3, Constants

(* Whatever line it is, the read armed a frame before is over when VBlank  *)
(* begins.                                                                 *)
LEMMA OverBeforeArming ==
    ASSUME Inv, line + 1 = VBlankLine
    PROVE  ~Reading /\ ~busy
  <1>1. Age = Lines - 1  BY Constants DEF Age, Inv, Types
  <1>2. start \in Int /\ (Lines - 1) * LineClocks \in Int  BY Constants DEF Inv, Types
  <1>3. ~Reading  BY <1>1, <1>2, Constants DEF Inv, ReadLies
  <1> QED  BY <1>3 DEF Inv, LastRun

LEMMA EndLineInv == ASSUME Inv, EndLine PROVE Inv'
  <1> DEFINE l == IF line + 1 = Lines THEN 0 ELSE line + 1
             p == (phase + LineClocks) % Grid
  <1>1. /\ line' = l /\ h' = h - LineClocks /\ phase' = p /\ enable' = enable
        /\ h >= LineClocks
    BY DEF EndLine
  <1>2. /\ IF l = 0 THEN pad' \in Buttons /\ given' = pad' ELSE UNCHANGED <<pad, given>>
        /\ IF l = VBlankLine
           THEN /\ Update(0, StartFrom(p), pad, joy, 0) /\ kept' = joy
                /\ since' = IF StartFrom(p) + StepClocks <= h' THEN {enable} ELSE {}
           ELSE /\ Update(step, start - LineClocks, reading, joy, 0) /\ kept' = kept /\ since' = since
    BY DEF EndLine, Arms
  <1>3. /\ step \in 0 .. Idle /\ start \in Int /\ enable \in BOOLEAN /\ on \in BOOLEAN
        /\ busy \in BOOLEAN /\ reading \in Int /\ h \in Nat
        /\ line \in 0 .. Lines - 1 /\ phase \in 0 .. Grid - 1 /\ pad \in Int /\ given \in Int
        /\ since \subseteq BOOLEAN
    BY DEF Inv, Types
  <1>4. l \in 0 .. Lines - 1 /\ p \in 0 .. Grid - 1 /\ h' \in Nat
       
    BY <1>1, <1>3, Constants
  <1>5. pad' \in Int /\ given' \in Int /\ pad' = given'
    BY <1>2, <1>3 DEF Buttons, Inv, OfThisFrame
  <1> HIDE DEF l, p
  <1>6. CASE l = VBlankLine
    <2> DEFINE a == StartFrom(p)
    <2>1. line + 1 = VBlankLine /\ l # 0 /\ UNCHANGED <<pad, given>>
      BY <1>2, <1>3, <1>6, Constants DEF l
    <2>2. ~busy  BY <2>1, OverBeforeArming
    <2>3. a \in Int /\ Delay - StepClocks <= a /\ a <= Delay + Grid - StepClocks
      BY <1>4, StartIs
    <2>4. /\ Update(0, a, pad, joy, 0) /\ kept' = joy
          /\ since' = IF a + StepClocks <= h' THEN {enable} ELSE {}
      BY <1>2, <1>6
    <2> HIDE DEF a
    <2>5. Before(0, a, pad, joy, joy, h')
      BY <1>4, <2>2, <2>3, <2>4, Constants DEF Before
    <2>6. After(0, a, pad, joy, 0, h')
      <3>1. 0 \in 0 .. Idle /\ 0 \in Int /\ h' \in Int /\ 0 <= h'  BY <1>4, Constants
      <3> QED  BY <1>1, <1>3, <2>3, <2>4, <2>5, <3>1, UpdateIs
    <2> USE DEF After
    <2>7. Types'  BY <1>1, <1>3, <1>4, <1>5, <2>4, <2>6 DEF Types
    <2>8. RunWereDue'  BY <2>6, Constants DEF RunWereDue, Reading
    <2>9. LastRun'  BY <2>4, <2>6 DEF LastRun, Reading, Shifted, BitsIn
    <2>10. EnableInSince'  BY <1>1, <1>4, <2>3, <2>4, <2>6, Constants DEF EnableInSince, Reading
    <2>11. ReadLies'
      <3>1. Age' = 0  BY <1>1, <1>6, Constants DEF Age
      <3>2. 0 * LineClocks = 0 /\ StepClocks * LastStep >= StepClocks  BY Constants
      <3> QED  BY <2>3, <2>6, <3>1, <3>2, Constants DEF ReadLies, Reading
    <2>12. OfThisFrame'  BY <1>5, <2>1, <2>6 DEF Inv, OfThisFrame
    <2> QED  BY <2>7, <2>8, <2>9, <2>10, <2>11, <2>12 DEF Inv
  <1>7. CASE l # VBlankLine
    <2> DEFINE a == start - LineClocks
    <2>1. Update(step, a, reading, joy, 0) /\ kept' = kept /\ since' = since  BY <1>2, <1>7
    <2>2. Reading => \A t \in 0 .. LastStep : t < step => a + StepClocks * t <= h'
      <3> SUFFICES ASSUME Reading, NEW t \in 0 .. LastStep, t < step
                   PROVE  a + StepClocks * t <= h'
        OBVIOUS
      <3>1. start + StepClocks * t <= h /\ StepClocks * t \in Int
        BY Constants DEF Inv, RunWereDue
      <3> QED  BY <1>1, <1>3, <3>1, Constants
    <2>3. Before(step, a, reading, joy, kept, h')
      BY <1>1, <1>3, <1>4, <2>1, <2>2, Constants
      DEF Before, Inv, LastRun, EnableInSince, Reading
    <2>3a. a \in Int  BY <1>3, Constants
    <2> HIDE DEF a
    <2>4. After(step, a, reading, kept, 0, h')
      <3>1. 0 \in Int /\ h' \in Int /\ 0 <= h'  BY <1>4
      <3> QED  BY <1>1, <1>3, <2>1, <2>3, <2>3a, <3>1, UpdateIs
    <2> USE DEF After
    <2>5. Types'  BY <1>1, <1>3, <1>4, <1>5, <2>1, <2>4 DEF Types
    <2>6. RunWereDue'  BY <2>4 DEF RunWereDue, Reading, LastStep
    <2>7. LastRun'  BY <2>1, <2>4 DEF LastRun, Reading, Shifted, BitsIn
    <2>8. EnableInSince'
      <3> SUFFICES ASSUME Reading'
                   PROVE  /\ step' <= 1 => /\ start' + StepClocks > 0
                                           /\ start' + StepClocks <= h' => enable \in since'
                          /\ step' > 1 => on' \in since'
        BY <1>1 DEF EnableInSince
      <3>1. step <= LastStep /\ start' = a  BY <2>4 DEF Reading
      <3>2. ASSUME step' <= 1 PROVE step <= 1 /\ a + StepClocks > 0
        <4>1. step <= 1  BY <1>3, <2>4, <3>2, Constants
        <4>2. ~(a + StepClocks * 1 <= 0)
          <5>1. 1 \in 0 .. LastStep /\ ~(1 < step')  BY <2>4, <3>2, Constants
          <5> QED  BY <2>4, <3>1, <5>1
        <4> QED  BY <2>3a, <4>1, <4>2, Constants
      <3> QED  BY <2>3, <2>4, <3>1, <3>2 DEF Before
    <2>9. ReadLies'
      <3>1. Age' = Age + 1 /\ Age \in Nat
        BY <1>1, <1>3, <1>7, Constants DEF Age, l
      <3>2. (Age + 1) * LineClocks = Age * LineClocks + LineClocks /\ Age * LineClocks \in Int
        BY <3>1, Constants
      <3>3. ASSUME Reading'
            PROVE  /\ start' <= Delay + Grid - StepClocks - Age' * LineClocks
                   /\ start' + StepClocks * LastStep > 0
        <4>1. Reading /\ start' = a  BY <2>4, <3>3 DEF Reading
        <4>2. start <= Delay + Grid - StepClocks - Age * LineClocks
          BY <4>1 DEF Inv, ReadLies
        <4>3. ~(a + StepClocks * LastStep <= 0)
          BY <2>4, <3>3, <4>1, Constants DEF Reading
        <4> QED  BY <1>3, <2>3a, <3>1, <3>2, <4>1, <4>2, <4>3, Constants DEF a
      <3> QED  BY <3>3 DEF ReadLies, Reading
    <2>10. OfThisFrame'
      BY <1>1, <1>2, <1>3, <1>5, <1>7, <2>4, Constants DEF Inv, OfThisFrame, l
    <2> QED  BY <2>5, <2>6, <2>7, <2>8, <2>9, <2>10 DEF Inv
  <1> QED  BY <1>6, <1>7

LEMMA ResetInv == ASSUME Inv, Reset PROVE Inv'
  <1>1. /\ line' = 0 /\ h' = 0 /\ phase' = 0 /\ step' = Idle /\ start' = 0
        /\ pad' \in Int /\ given' = pad' /\ reading' = reading /\ kept' = joy /\ joy' = joy
        /\ reading \in Int
    BY Constants DEF Reset, Buttons, Inv, Types
  <1>2. ~enable' /\ ~on' /\ ~busy' /\ since' = {} /\ enable' \in BOOLEAN /\ on' \in BOOLEAN
        /\ busy' \in BOOLEAN
    BY Zenon DEF Reset
  <1>3. ~Reading' /\ step' > 1  BY <1>1, Constants DEF Reading
  <1>4. Types'  BY <1>1, <1>2, Constants DEF Types
  <1> QED  BY <1>1, <1>2, <1>3, <1>4, Constants
           DEF Inv, RunWereDue, LastRun, EnableInSince, ReadLies, OfThisFrame

LEMMA StepInv == ASSUME Inv, [Next]_vars PROVE Inv'
  <1>1. CASE \E d \in InsnClocks : Nop(d) \/ NmitimenWrite(d)  BY <1>1, NopInv
  <1>2. CASE \E d \in InsnClocks : Read(d)  BY <1>2, ReadIs
  <1>3. CASE EndLine  BY <1>3, EndLineInv
  <1>4. CASE Reset  BY <1>4, ResetInv
  <1>5. CASE UNCHANGED vars
    BY <1>5 DEF vars, readVars, historyVars, Inv, Types, RunWereDue, Reading, LastRun,
                EnableInSince, ReadLies, Age, OfThisFrame, Shifted, BitsIn
  <1> QED  BY <1>1, <1>2, <1>3, <1>4, <1>5 DEF Next

-----------------------------------------------------------------------------
(* A read that has ended left its frame's buttons ("Frame F's buttons are  *)
(* the ones its auto-joypad read sees"), or what was there before it.      *)
THEOREM FrameTheorem == Spec => []FrameSeesItsButtons
  <1>1. Init => Inv  BY InitInv
  <1>2. Inv /\ [Next]_vars => Inv'  BY StepInv
  <1>3. Inv => FrameSeesItsButtons
    <2> SUFFICES ASSUME Inv, line > VBlankLine, step = Idle
                 PROVE  joy = IF on THEN given ELSE kept
      BY DEF FrameSeesItsButtons
    <2>1. step > 1 /\ line >= VBlankLine  BY Constants DEF Inv, Types
    <2>2. Bits - BitsIn(Idle) = 0  BY Constants DEF BitsIn
    <2>3. Shifted(reading, Idle) = reading
      <3>1. reading \in Int  BY DEF Inv, Types
      <3>2. Shifted(reading, Idle) = reading \div 2 ^ 0  BY <2>2 DEF Shifted
      <3>3. 2 ^ 0 = 1  OBVIOUS
      <3> QED  BY <3>1, <3>2, <3>3
    <2> QED  BY <2>1, <2>3 DEF Inv, LastRun, OfThisFrame
  <1> QED  BY <1>1, <1>2, <1>3, PTL DEF Spec

(* Catching up late (autojoy_update) is exact: a read of the registers at  *)
(* clock c sees what running each step at its own clock would show by c.   *)
THEOREM ReadsTheorem == Spec => ReadsAsOfClock
  <1> DEFINE Exact(d) ==
               LET run == {s \in 0 .. LastStep : start + StepClocks * s <= h + d}
                   in  == Cardinality({s \in run : s >= 4 /\ s % 2 = 0})
               IN  /\ 1 \in run => on' \in since'
                   /\ busy' = (on' /\ 1 \in run /\ LastStep \notin run)
                   /\ joy' = IF on' /\ 1 \in run THEN reading \div 2 ^ (Bits - in) ELSE kept
  <1>1. Init => Inv  BY InitInv
  <1>2. Inv /\ [Next]_vars => Inv'  BY StepInv
  <1>3. ASSUME Inv, NEW d \in InsnClocks, Read(d), step <= LastStep
        PROVE  Exact(d)
    <2> DEFINE run == {s \in 0 .. LastStep : start + StepClocks * s <= h + d}
               in == Cardinality({s \in run : s >= 4 /\ s % 2 = 0})
    <2>1. /\ Inv' /\ step' \in 0 .. Idle
          /\ \A t \in 0 .. LastStep : t < step' <=> start + StepClocks * t <= h + d
          /\ step' > 1 => on' \in since'
      BY <1>3, ReadIs DEF Reading
    <2>2. run = {s \in 0 .. LastStep : s < step'}  BY <2>1
    <2>3. in = BitsIn(step')  BY <2>1, <2>2, BitsInIsCount
    <2>4. (1 \in run <=> step' > 1) /\ (LastStep \in run <=> step' = Idle)
      <3>1. 1 \in 0 .. LastStep /\ LastStep \in 0 .. LastStep  BY Constants
      <3>2. (1 < step' <=> step' > 1) /\ (LastStep < step' <=> step' = Idle)
        BY <2>1, Constants
      <3> HIDE DEF run
      <3> QED  BY <2>2, <3>1, <3>2
    <2>5. reading' = reading /\ kept' = kept  BY <1>3 DEF Read, Update
    <2>6. joy' = IF on' /\ step' > 1 THEN reading \div 2 ^ (Bits - BitsIn(step')) ELSE kept
      <3>1. /\ step' <= 1 => joy' = kept'
            /\ step' > 1 => joy' = IF on' THEN Shifted(reading', step') ELSE kept'
        BY <2>1 DEF Inv, LastRun, Shifted, BitsIn
      <3>2. step' <= 1 \/ step' > 1  BY <2>1, Constants
      <3> QED  BY <2>5, <3>1, <3>2 DEF Shifted
    <2>7. busy' = (on' /\ step' > 1 /\ step' # Idle)
      <3>1. busy' \in BOOLEAN /\ (busy' <=> on' /\ step' > 1 /\ step' <= LastStep)
        BY <2>1 DEF Inv, Types, LastRun, Reading, LastStep
      <3>2. step' <= LastStep <=> step' # Idle  BY <2>1, Constants
      <3> QED  BY <3>1, <3>2, Zenon
    <2> HIDE DEF run, in
    <2>8. /\ 1 \in run => on' \in since'
          /\ busy' = (on' /\ 1 \in run /\ LastStep \notin run)
          /\ joy' = IF on' /\ 1 \in run THEN reading \div 2 ^ (Bits - in) ELSE kept
      <3>1. busy' = (on' /\ 1 \in run /\ LastStep \notin run)  BY <2>4, <2>7, Zenon
      <3> QED  BY <2>1, <2>3, <2>4, <2>6, <3>1
    <2> QED  BY <2>8 DEF run, in
  <1>4. Inv /\ [Next]_vars => [\A d \in InsnClocks : Read(d) /\ step <= LastStep => Exact(d)]_vars
    BY <1>3
  <1>5. Spec => [][\A d \in InsnClocks : Read(d) /\ step <= LastStep => Exact(d)]_vars
    BY <1>1, <1>2, <1>4, PTL DEF Spec
  <1> QED  BY <1>5, PTL DEF ReadsAsOfClock

=============================================================================
