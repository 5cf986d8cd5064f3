----------------------------- MODULE EdgeProofs -----------------------------
(***************************************************************************)
(* Proofs about Edge: the frame hook sees the stores that end before the   *)
(* frame edge and no others, they are all there again after it, and the    *)
(* counters read inside an instruction are those of the read's own clock:  *)
(* for every line, frame and refresh, and instructions of any length.      *)
(***************************************************************************)
EXTENDS Edge, FiniteSetTheorems, WellFoundedInduction, TLAPS

LEMMA Constants ==
    /\ LineClocks \in Nat /\ ShortBy \in Nat /\ Lines \in Nat /\ RefreshAt \in Nat
    /\ RefreshClocks \in Nat /\ ReadHold \in Nat /\ DmaLead \in Nat /\ DmaTime \in Nat
    /\ DmaWait \in Nat /\ MaxLines \in Nat
    /\ LineClocks - ShortBy \in Nat /\ LineClocks - ShortBy > 0
    /\ 1 < Lines /\ Lines <= MaxLines
  BY ClockAssumption

-----------------------------------------------------------------------------
(* Numbers: the least element of a set stands for induction here.          *)

LEMMA Least ==
    ASSUME NEW T, T \subseteq Nat, T # {}
    PROVE  \E x \in T : \A y \in T : x <= y
  <1> DEFINE LessThan == {ss \in Nat \X Nat : ss[1] < ss[2]}
  <1>1. IsWellFoundedOn(LessThan, Nat)  BY NatLessThanWellFounded DEF OpToRel
  <1> HIDE DEF LessThan
  <1>2. \E x \in T : \A y \in T : <<y, x>> \notin LessThan  BY <1>1, WFMin, Zenon
  <1>3. PICK x \in T : \A y \in T : <<y, x>> \notin LessThan  BY <1>2
  <1>4. ASSUME NEW y \in T PROVE x <= y
    <2>1. x \in Nat /\ y \in Nat /\ <<y, x>> \notin LessThan  BY <1>3
    <2> QED  BY <2>1 DEF LessThan
  <1> QED  BY <1>4

(* What is applied again and again has a sequence of results.              *)
Results(g, S, N, a, F) ==
    /\ g \in [0 .. N -> S]
    /\ g[0] = a
    /\ \A i \in 1 .. N : g[i] = F[<<g[i - 1], i>>]

LEMMA Iterates ==
    ASSUME NEW S, NEW N \in Nat, NEW a \in S, NEW F \in [S \X (1 .. N) -> S]
    PROVE  \E g : Results(g, S, N, a, F)
  <1> DEFINE Runs(n, g) == g[0] = a /\ \A i \in 1 .. n : g[i] = F[<<g[i - 1], i>>]
             T == {n \in 0 .. N : ~ \E g \in [0 .. n -> S] : Runs(n, g)}
  <1>1. T = {}
    <2> SUFFICES ASSUME T # {} PROVE FALSE  OBVIOUS
    <2>1. T \subseteq Nat  OBVIOUS
    <2> HIDE DEF T
    <2>2. PICK n \in T : \A y \in T : n <= y  BY <2>1, Least
    <2>3. n \in Nat  BY <2>1
    <2>4. n - 1 \notin T  BY <2>2, <2>3
    <2> USE DEF T
    <2>5. n # 0
      <3>1. [i \in 0 .. 0 |-> a] \in [0 .. 0 -> S] /\ Runs(0, [i \in 0 .. 0 |-> a])  OBVIOUS
      <3> QED  BY <3>1
    <2>6. n \in 0 .. N /\ n - 1 \in 0 .. N  BY <2>3, <2>5
    <2>7. PICK g \in [0 .. n - 1 -> S] : Runs(n - 1, g)  BY <2>4, <2>6
    <2> DEFINE r == [i \in 0 .. n |-> IF i = n THEN F[<<g[n - 1], n>>] ELSE g[i]]
    <2>8. g[n - 1] \in S /\ n \in 1 .. N  BY <2>3, <2>5, <2>6, <2>7
    <2>9. r \in [0 .. n -> S]  BY <2>8, <2>7
    <2>10. Runs(n, r)
      <3>1. r[0] = a  BY <2>3, <2>5, <2>7
      <3>2. ASSUME NEW i \in 1 .. n PROVE r[i] = F[<<r[i - 1], i>>]
        <4>1. CASE i = n
          <5>1. n \in 0 .. n /\ n - 1 \in 0 .. n /\ n - 1 # n  BY <2>3, <2>5
          <5>2. r[n] = F[<<g[n - 1], n>>] /\ r[n - 1] = g[n - 1]  BY <5>1
          <5> QED  BY <4>1, <5>2
        <4>2. CASE i # n
          <5>1. i \in 1 .. n - 1 /\ r[i] = g[i] /\ r[i - 1] = g[i - 1]  BY <4>2, <2>3
          <5> QED  BY <5>1, <2>7
        <4> QED  BY <4>1, <4>2
      <3> QED  BY <3>1, <3>2
    <2> QED  BY <2>9, <2>10
  <1>2. N \in 0 .. N /\ N \notin T
    <2> HIDE DEF T
    <2> QED  BY <1>1
  <1> QED  BY <1>2 DEF Results

(* What never falls from one to the next never falls.                      *)
LEMMA Grows ==
    ASSUME NEW N \in Nat, NEW f, \A i \in 0 .. N : f[i] \in Int,
           \A i \in 1 .. N : f[i - 1] <= f[i]
    PROVE  \A i, j \in 0 .. N : i <= j => f[i] <= f[j]
  <1> SUFFICES ASSUME NEW i \in 0 .. N
               PROVE  \A j \in 0 .. N : i <= j => f[i] <= f[j]
    OBVIOUS
  <1> DEFINE T == {j \in 0 .. N : i <= j /\ ~(f[i] <= f[j])}
  <1>1. T = {}
    <2> SUFFICES ASSUME T # {} PROVE FALSE  OBVIOUS
    <2>1. T \subseteq Nat  OBVIOUS
    <2> HIDE DEF T
    <2>2. PICK n \in T : \A y \in T : n <= y  BY <2>1, Least
    <2>3. n \in Nat /\ n - 1 \notin T  BY <2>1, <2>2
    <2> USE DEF T
    <2>4. n \in 0 .. N /\ i <= n /\ ~(f[i] <= f[n]) /\ f[i] \in Int /\ f[n] \in Int  OBVIOUS
    <2>5. n # i  BY <2>4
    <2>6. n \in 1 .. N /\ n - 1 \in 0 .. N /\ i <= n - 1  BY <2>3, <2>4, <2>5
    <2>7. f[i] <= f[n - 1] /\ f[n - 1] <= f[n] /\ f[n - 1] \in Int  BY <2>3, <2>6
    <2> QED  BY <2>4, <2>7
  <1> QED  BY <1>1

-----------------------------------------------------------------------------
(* Clocks.                                                                 *)

Located == line \in 0 .. Lines - 1 /\ h \in Nat /\ odd \in BOOLEAN

LEMMA LengthIs ==
    ASSUME NEW l, NEW o
    PROVE  LengthOf(l, o) \in Nat /\ LengthOf(l, o) > 0
  BY Constants DEF LengthOf

(* The starts of the lines ahead, one after another.                       *)
LEMMA StartIs ==
    ASSUME Located
    PROVE  /\ \A j \in 0 .. MaxLines : Start[j] \in Int
           /\ Start[0] = 0
           /\ \A j \in 1 .. MaxLines :
                Start[j] = Start[j - 1] + LengthOf(LineOf(j - 1), OddOf(j - 1))
  <1> DEFINE N == MaxLines
             L(j) == LengthOf(LineOf(j), OddOf(j))
             F == [x \in Int \X (1 .. N) |-> x[1] + L(x[2] - 1)]
             f == Start
  <1>1. N \in Nat  BY Constants
  <1>2. \A j : L(j) \in Nat  BY LengthIs
  <1> HIDE DEF L
  <1>3. /\ F \in [Int \X (1 .. N) -> Int]
        /\ \A x \in Int, i \in 1 .. N : F[<<x, i>>] = x + L(i - 1)
    BY <1>2
  <1> HIDE DEF F
  <1>4. PICK g : Results(g, Int, N, 0, F)
    <2> HIDE DEF N
    <2>1. 0 \in Int  OBVIOUS
    <2> QED  BY <1>1, <1>3, <2>1, Iterates
  <1>5. \A i \in 1 .. N : g[i] = g[i - 1] + L(i - 1)
    <2> TAKE i \in 1 .. N
    <2>1. i - 1 \in 0 .. N  BY <1>1
    <2>2. g[i - 1] \in Int  BY <1>4, <2>1 DEF Results
    <2> QED  BY <1>3, <1>4, <2>2 DEF Results
  <1>6. g = [j \in 0 .. N |-> IF j = 0 THEN 0 ELSE g[j - 1] + L(j - 1)]
    <2>1. \A j \in 0 .. N : g[j] = IF j = 0 THEN 0 ELSE g[j - 1] + L(j - 1)
      BY <1>1, <1>4, <1>5 DEF Results
    <2> QED  BY <1>4, <2>1 DEF Results
  <1>7. f = CHOOSE u : u = [j \in 0 .. N |-> IF j = 0 THEN 0 ELSE u[j - 1] + L(j - 1)]
    BY DEF Start, L
  <1> HIDE DEF f, N
  <1>8. f = [j \in 0 .. N |-> IF j = 0 THEN 0 ELSE f[j - 1] + L(j - 1)]  BY <1>6, <1>7
  <1>9. f[0] = 0 /\ \A j \in 1 .. N : f[j] = f[j - 1] + L(j - 1)
    BY <1>1, <1>8
  <1>10. \A j \in 0 .. N : f[j] \in Int
    <2> DEFINE B == {j \in 0 .. N : f[j] \notin Int}
    <2>1. B = {}
      <3> SUFFICES ASSUME B # {} PROVE FALSE  OBVIOUS
      <3>1. B \subseteq Nat  BY <1>1
      <3> HIDE DEF B
      <3>2. PICK n \in B : \A y \in B : n <= y  BY <3>1, Least
      <3>3. n \in Nat /\ n - 1 \notin B  BY <3>1, <3>2
      <3> USE DEF B
      <3>4. n \in 0 .. N /\ f[n] \notin Int  BY <3>2
      <3>5. n # 0  BY <1>9, <3>4
      <3>6. n \in 1 .. N /\ f[n - 1] \in Int  BY <1>1, <3>3, <3>4, <3>5
      <3>7. f[n] = f[n - 1] + L(n - 1) /\ L(n - 1) \in Nat  BY <1>2, <1>9, <3>6
      <3> QED  BY <3>4, <3>6, <3>7
    <2> QED  BY <2>1
  <1> QED  BY <1>9, <1>10 DEF f, N, L

LEMMA StartGrows ==
    ASSUME Located
    PROVE  /\ Start[1] = LengthOf(line, odd) /\ 0 < Start[1]
           /\ \A i, j \in 0 .. MaxLines : i <= j => Start[i] <= Start[j]
  <1>1. /\ \A j \in 0 .. MaxLines : Start[j] \in Int
        /\ Start[0] = 0
        /\ \A j \in 1 .. MaxLines : Start[j] = Start[j - 1] + LengthOf(LineOf(j - 1), OddOf(j - 1))
    BY StartIs
  <1>2. MaxLines \in Nat /\ MaxLines > 1  BY Constants
  <1>3. LineOf(0) = line /\ OddOf(0) = odd
    <2>1. line \in Nat /\ line < Lines /\ Lines \in Nat  BY Constants DEF Located
    <2>2. line % Lines = line /\ line \div Lines = 0  BY <2>1, SMT
    <2> QED  BY <2>1, <2>2 DEF LineOf, OddOf
  <1>4. Start[1] = LengthOf(line, odd)
    <2>1. Start[1] = Start[0] + LengthOf(LineOf(0), OddOf(0))  BY <1>1, <1>2
    <2> QED  BY <1>1, <1>3, <2>1, LengthIs
  <1>5. \A j \in 1 .. MaxLines : Start[j - 1] <= Start[j]
    <2> TAKE j \in 1 .. MaxLines
    <2>1. /\ Start[j] = Start[j - 1] + LengthOf(LineOf(j - 1), OddOf(j - 1))
          /\ Start[j - 1] \in Int
      BY <1>1, <1>2
    <2> QED  BY <2>1, LengthIs
  <1>6. \A i, j \in 0 .. MaxLines : i <= j => Start[i] <= Start[j]
    BY <1>1, <1>2, <1>5, Grows
  <1> QED  BY <1>4, <1>6, LengthIs

(* The refreshes up to a clock are counted, and no fewer up to a later.    *)
LEMMA RefreshesCount ==
    ASSUME Located, NEW t \in Int, NEW a \in Int, NEW b \in Int, a <= b
    PROVE  /\ Refreshes(t, a) \in 0 .. MaxLines + 1
           /\ Refreshes(t, a) <= Refreshes(t, b)
  <1> DEFINE In(e) == {j \in 0 .. MaxLines : t < Start[j] + RefreshAt /\ Start[j] + RefreshAt <= e}
  <1>1. MaxLines \in Nat /\ RefreshAt \in Nat  BY Constants
  <1>2. IsFiniteSet(0 .. MaxLines) /\ Cardinality(0 .. MaxLines) = MaxLines + 1
    BY <1>1, FS_Interval
  <1>3. \A e : In(e) \subseteq 0 .. MaxLines  OBVIOUS
  <1>4. \A j \in 0 .. MaxLines : Start[j] \in Int  BY StartIs
  <1>5. In(a) \subseteq In(b)  BY <1>1, <1>4
  <1> HIDE DEF In
  <1>6. IsFiniteSet(In(a)) /\ IsFiniteSet(In(b))  BY <1>2, <1>3, FS_Subset
  <1>7. Cardinality(In(a)) <= Cardinality(In(b))  BY <1>5, <1>6, FS_Subset
  <1>8. Cardinality(In(a)) <= MaxLines + 1  BY <1>2, <1>3, FS_Subset
  <1>9. Cardinality(In(a)) \in Nat  BY <1>6, FS_CardinalityType
  <1>10. Refreshes(t, a) = Cardinality(In(a)) /\ Refreshes(t, b) = Cardinality(In(b))
    BY DEF Refreshes, In
  <1> QED  BY <1>1, <1>7, <1>8, <1>9, <1>10

(* Clocks of a cycle pass: the refreshes inside only make them longer.     *)
LEMMA PassIs ==
    ASSUME Located, NEW t \in Int, NEW c \in Nat
    PROVE  Pass(t, c) \in Int /\ Pass(t, c) >= t + c
  <1> DEFINE N == MaxLines + 1
             with(n) == t + c + RefreshClocks * n
             g(n) == Refreshes(t, with(n))
             Ends(k) == /\ Refreshes(t, with(k)) = k
                        /\ \A i \in 0 .. k - 1 : Refreshes(t, with(i)) # i
             T == {k \in 0 .. N : g(k) <= k}
  <1>1. N \in Nat /\ RefreshClocks \in Nat  BY Constants
  <1>2. \A n \in Nat : with(n) \in Int /\ with(n) >= t + c
    <2> TAKE n \in Nat
    <2>1. RefreshClocks * n \in Nat  BY <1>1
    <2> QED  BY <2>1
  <1>3. \A i, j \in Nat : i <= j => with(i) <= with(j)
    <2> TAKE i, j \in Nat
    <2>1. i <= j => RefreshClocks * i <= RefreshClocks * j  BY <1>1
    <2>2. RefreshClocks * i \in Nat /\ RefreshClocks * j \in Nat  BY <1>1
    <2> QED  BY <2>1, <2>2
  <1>4. /\ \A i \in Nat : g(i) \in 0 .. N
        /\ \A i, j \in Nat : i <= j => g(i) <= g(j)
    <2> HIDE DEF with
    <2>1. \A i \in Nat : with(i) \in Int /\ with(i) <= with(i)  BY <1>2
    <2>2. \A i \in Nat : g(i) \in 0 .. N  BY <2>1, RefreshesCount
    <2>3. \A i, j \in Nat : i <= j => g(i) <= g(j)  BY <1>2, <1>3, RefreshesCount
    <2> QED  BY <2>2, <2>3
  <1> HIDE DEF with
  <1>5. \E k \in 0 .. N : Ends(k)
    <2> HIDE DEF g
    <2>1. T \subseteq Nat /\ N \in T  BY <1>1, <1>4
    <2>2. PICK k \in T : \A y \in T : k <= y  BY <2>1, Least
    <2>3. k \in 0 .. N /\ k \in Nat /\ g(k) <= k /\ g(k) \in Nat  BY <1>1, <1>4, <2>2
    <2>4. ASSUME NEW i \in 0 .. k - 1 PROVE g(i) > i
      <3>1. i \in 0 .. N /\ i \in Nat /\ i < k  BY <1>1, <2>3
      <3>2. i \notin T  BY <2>2, <2>3, <3>1
      <3>3. g(i) \in Nat  BY <1>1, <1>4, <3>1
      <3> QED  BY <3>1, <3>2, <3>3
    <2>5. g(k) = k
      <3>1. CASE k = 0  BY <2>3, <3>1
      <3>2. CASE k > 0
        <4>1. k - 1 \in 0 .. k - 1 /\ k - 1 \in Nat  BY <2>3, <3>2
        <4>2. g(k - 1) > k - 1 /\ g(k - 1) <= g(k)  BY <1>4, <2>3, <2>4, <4>1
        <4>3. g(k - 1) \in Nat  BY <1>1, <1>4, <4>1
        <4> QED  BY <2>3, <4>2, <4>3
      <3> QED  BY <2>3, <3>1, <3>2
    <2>6. \A i \in 0 .. k - 1 : g(i) # i
      <3> TAKE i \in 0 .. k - 1
      <3>1. g(i) > i /\ i \in Int /\ g(i) \in Nat  BY <1>1, <1>4, <2>3, <2>4
      <3> QED  BY <3>1
    <2> QED  BY <2>3, <2>5, <2>6 DEF g
  <1> DEFINE n == CHOOSE k \in 0 .. N : Ends(k)
  <1>6. n \in 0 .. N  BY <1>5
  <1>7. n \in Nat  BY <1>1, <1>6
  <1>8. Pass(t, c) = with(n)  BY DEF Pass, with
  <1> QED  BY <1>2, <1>7, <1>8

-----------------------------------------------------------------------------
(* The walk of an instruction: time does not run backwards in it.          *)

WalkAt == [t : Int, smp : Int, pend : Int, lo : Int, hi : Int]
Memory == [Offsets -> Values \union {0}]

Types ==
    /\ Located
    /\ pend \in Int
    /\ insn \in Insns \union {<<>>} /\ done \in 0 .. Len(insn)
    /\ wram \in Memory /\ before \in Memory
    /\ DOMAIN journal = 1 .. Len(insn)

LEMMA InsnIs ==
    ASSUME Types
    PROVE  /\ insn \in Seq(Cycles) /\ Len(insn) \in Nat
           /\ DOMAIN insn = 1 .. Len(insn)
           /\ \A k \in 1 .. Len(insn) : insn[k] \in Cycles
  <1>1. insn \in Seq(Cycles)
    <2>1. <<>> \in Seq(Cycles)  OBVIOUS
    <2>2. Insns \subseteq Seq(Cycles)  BY AccessAssumption
    <2>3. insn \in Insns \union {<<>>}  BY DEF Types
    <2> QED  BY <2>1, <2>2, <2>3
  <1> QED  BY <1>1

LEMMA WalkCycleIs ==
    ASSUME Types, NEW p \in WalkAt, NEW k \in 1 .. Len(insn)
    PROVE  /\ WalkCycle(p, insn[k]) \in WalkAt
           /\ p.t <= WalkCycle(p, insn[k]).t /\ p.t <= WalkCycle(p, insn[k]).smp
  <1> DEFINE c == insn[k]
             lo == Pass(p.t, DmaLead)
             hi == Pass(lo, DmaTime)
             t == IF p.pend = 1 THEN Pass(hi, DmaWait) ELSE p.t
             n == IF c.kind = "read" THEN c.clk - ReadHold ELSE c.clk
             e == Pass(t, c.clk)
             s == Pass(t, n)
             a == IF c.to = "mdmaen" THEN 2 ELSE IF p.pend = 0 THEN 0 ELSE p.pend - 1
  <1>1. Located /\ p.t \in Int /\ p.pend \in Int /\ p.lo \in Int /\ p.hi \in Int
    BY DEF Types, WalkAt
  <1>2. c.clk \in Nat /\ n \in Nat
    <2>1. c \in Cycles /\ insn \in Insns /\ k \in DOMAIN insn  BY InsnIs DEF Types
    <2>2. c.clk \in Nat /\ (c.kind = "read" => c.clk >= ReadHold)
      BY <2>1, AccessAssumption DEF Cycles
    <2> QED  BY <2>2, Constants
  <1>3. lo \in Int /\ lo >= p.t + DmaLead  BY <1>1, PassIs, Constants
  <1> HIDE DEF lo
  <1>4. hi \in Int /\ hi >= lo + DmaTime  BY <1>1, <1>3, PassIs, Constants
  <1> HIDE DEF hi
  <1>5. Pass(hi, DmaWait) \in Int /\ Pass(hi, DmaWait) >= hi + DmaWait
    BY <1>1, <1>4, PassIs, Constants
  <1>6. t \in Int /\ t >= p.t  BY <1>1, <1>3, <1>4, <1>5, Constants
  <1> HIDE DEF t, n
  <1>7. e \in Int /\ e >= t + c.clk  BY <1>1, <1>2, <1>6, PassIs
  <1>8. s \in Int /\ s >= t + n  BY <1>1, <1>2, <1>6, PassIs
  <1>9. a \in Int  BY <1>1
  <1> DEFINE l == IF p.pend = 1 THEN lo ELSE p.lo
             u == IF p.pend = 1 THEN hi ELSE p.hi
  <1>10. l \in Int /\ u \in Int  BY <1>1, <1>3, <1>4
  <1>11. WalkCycle(p, insn[k]) = [t |-> e, smp |-> s, pend |-> a, lo |-> l, hi |-> u]
    BY DEF WalkCycle, t, n, lo, hi
  <1> HIDE DEF e, s, a, l, u, c
  <1>12. WalkCycle(p, insn[k]) \in WalkAt  BY <1>7, <1>8, <1>9, <1>10, <1>11 DEF WalkAt
  <1>13. p.t <= e /\ p.t <= s  BY <1>1, <1>2, <1>6, <1>7, <1>8
  <1> QED  BY <1>11, <1>12, <1>13

LEMMA WalkIs ==
    ASSUME Types
    PROVE  /\ Walk[0].t = h
           /\ \A k \in 0 .. Len(insn) : Walk[k] \in WalkAt
           /\ \A k \in 1 .. Len(insn) : /\ Walk[k - 1].t <= Walk[k].t
                                        /\ Walk[k - 1].t <= Walk[k].smp
  <1> DEFINE N == Len(insn)
             a == [t |-> h, smp |-> h, pend |-> pend, lo |-> 0, hi |-> 0]
             F == [x \in WalkAt \X (1 .. N) |-> WalkCycle(x[1], insn[x[2]])]
             f == Walk
  <1>1. N \in Nat  BY InsnIs
  <1>2. a \in WalkAt /\ a.t = h  BY DEF Types, Located, WalkAt
  <1>3. /\ F \in [WalkAt \X (1 .. N) -> WalkAt]
        /\ \A x \in WalkAt, i \in 1 .. N : F[<<x, i>>] = WalkCycle(x, insn[i])
    BY WalkCycleIs
  <1> HIDE DEF F, a
  <1>4. PICK g : Results(g, WalkAt, N, a, F)
    <2> HIDE DEF N
    <2> QED  BY <1>1, <1>2, <1>3, Iterates
  <1>5. \A i \in 1 .. N : g[i] = WalkCycle(g[i - 1], insn[i])
    <2> TAKE i \in 1 .. N
    <2>1. i - 1 \in 0 .. N  BY <1>1
    <2>2. g[i - 1] \in WalkAt  BY <1>4, <2>1 DEF Results
    <2> QED  BY <1>3, <1>4, <2>2 DEF Results
  <1>6. g = [i \in 0 .. N |-> IF i = 0 THEN a ELSE WalkCycle(g[i - 1], insn[i])]
    <2>1. \A i \in 0 .. N : g[i] = IF i = 0 THEN a ELSE WalkCycle(g[i - 1], insn[i])
      BY <1>1, <1>4, <1>5 DEF Results
    <2> QED  BY <1>4, <2>1 DEF Results
  <1>7. f = CHOOSE u : u = [i \in 0 .. N |-> IF i = 0 THEN a ELSE WalkCycle(u[i - 1], insn[i])]
    BY DEF Walk, a
  <1> HIDE DEF f, N
  <1>8. f = [i \in 0 .. N |-> IF i = 0 THEN a ELSE WalkCycle(f[i - 1], insn[i])]
    BY <1>6, <1>7
  <1>9. f[0] = a /\ \A i \in 1 .. N : f[i] = WalkCycle(f[i - 1], insn[i])  BY <1>1, <1>8
  <1>10. \A i \in 0 .. N : f[i] \in WalkAt
    <2> DEFINE B == {i \in 0 .. N : f[i] \notin WalkAt}
    <2>1. B = {}
      <3> SUFFICES ASSUME B # {} PROVE FALSE  OBVIOUS
      <3>1. B \subseteq Nat  BY <1>1
      <3> HIDE DEF B
      <3>2. PICK n \in B : \A y \in B : n <= y  BY <3>1, Least
      <3>3. n \in Nat /\ n - 1 \notin B  BY <3>1, <3>2
      <3> USE DEF B
      <3>4. n \in 0 .. N /\ f[n] \notin WalkAt  BY <3>2
      <3>5. n # 0  BY <1>2, <1>9, <3>4
      <3>6. n \in 1 .. N /\ f[n - 1] \in WalkAt  BY <1>1, <3>3, <3>4, <3>5
      <3>7. f[n] = WalkCycle(f[n - 1], insn[n])  BY <1>9, <3>6
      <3> QED  BY <3>4, <3>6, <3>7, WalkCycleIs DEF N
    <2> QED  BY <2>1
  <1>11. \A i \in 1 .. N : f[i - 1].t <= f[i].t /\ f[i - 1].t <= f[i].smp
    <2> TAKE i \in 1 .. N
    <2>1. f[i - 1] \in WalkAt /\ f[i] = WalkCycle(f[i - 1], insn[i])
      <3>1. i - 1 \in 0 .. N  BY <1>1
      <3> QED  BY <1>9, <1>10, <3>1
    <2> QED  BY <2>1, WalkCycleIs DEF N
  <1> QED  BY <1>2, <1>9, <1>10, <1>11 DEF f, N

LEMMA WalkGrows ==
    ASSUME Types
    PROVE  /\ \A i, j \in 0 .. Len(insn) : i <= j => Walk[i].t <= Walk[j].t
           /\ \A i \in 0 .. Len(insn) : Walk[i].t \in Nat
           /\ \A i \in 1 .. Len(insn) : Walk[i].smp \in Nat
  <1> DEFINE N == Len(insn)
             f == [i \in 0 .. N |-> Walk[i].t]
  <1>1. N \in Nat  BY InsnIs
  <1>2. \A i \in 0 .. N : f[i] = Walk[i].t /\ f[i] \in Int  BY WalkIs DEF WalkAt
  <1>3. \A i \in 1 .. N : f[i - 1] <= f[i] /\ i - 1 \in 0 .. N
    <2> TAKE i \in 1 .. N
    <2>1. i - 1 \in 0 .. N /\ i \in 0 .. N  BY <1>1
    <2> QED  BY <1>2, <2>1, WalkIs
  <1> HIDE DEF f, N
  <1>4. \A i, j \in 0 .. N : i <= j => f[i] <= f[j]  BY <1>1, <1>2, <1>3, Grows
  <1>5. f[0] = h /\ h \in Nat /\ 0 \in 0 .. N  BY <1>1, <1>2, WalkIs DEF Types, Located
  <1>6. \A i \in 0 .. N : f[i] \in Nat
    <2> TAKE i \in 0 .. N
    <2>1. 0 <= i /\ f[0] <= f[i] /\ f[i] \in Int  BY <1>1, <1>2, <1>4, <1>5
    <2> QED  BY <1>5, <2>1
  <1>7. \A i \in 1 .. N : Walk[i].smp \in Nat
    <2> TAKE i \in 1 .. N
    <2>1. i - 1 \in 0 .. N /\ i \in 0 .. N  BY <1>1
    <2>2. Walk[i].smp \in Int  BY <2>1, WalkIs DEF WalkAt, N
    <2>3. Walk[i - 1].t <= Walk[i].smp  BY WalkIs DEF N
    <2>4. Walk[i - 1].t \in Nat  BY <1>2, <1>6, <2>1
    <2> QED  BY <2>2, <2>3, <2>4
  <1> QED  BY <1>2, <1>4, <1>6, <1>7 DEF N

-----------------------------------------------------------------------------
(* The stores of an instruction.                                           *)

(* The journal has each store that was made, with what its byte held when  *)
(* the instruction began and what it holds now; an instruction that stores *)
(* to WRAM changes no other byte.                                          *)
Stores ==
    /\ \A k \in 1 .. Len(insn) :
         journal[k] = IF k <= done /\ insn[k].to \in Offsets
                      THEN [off |-> insn[k].to, old |-> before[insn[k].to],
                            new |-> wram[insn[k].to]]
                      ELSE NoStore
    /\ (\E j \in 1 .. Len(insn) : insn[j].to \in Offsets) =>
         \A off \in Offsets :
            (\A k \in 1 .. done : insn[k].to # off) => wram[off] = before[off]

(* What AccessAssumption says of the instruction under way.                *)
LEMMA AccessesAre ==
    ASSUME Types
    PROVE  \A j, k \in 1 .. Len(insn) :
             insn[j].to \in Offsets =>
               /\ insn[j].kind = "write" /\ insn[k].to # "mdmaen"
               /\ insn[k].to = insn[j].to => j = k
  <1> SUFFICES ASSUME NEW j \in 1 .. Len(insn), NEW k \in 1 .. Len(insn), insn[j].to \in Offsets
               PROVE  /\ insn[j].kind = "write" /\ insn[k].to # "mdmaen"
                      /\ insn[k].to = insn[j].to => j = k
    OBVIOUS
  <1>1. insn \in Insns /\ j \in DOMAIN insn /\ k \in DOMAIN insn  BY InsnIs DEF Types
  <1> QED  BY <1>1, AccessAssumption

LEMMA AccessKeeps ==
    ASSUME Types, Stores, Access
    PROVE  Types' /\ Stores'
  <1> DEFINE n == done + 1
  <1>1. /\ done \in Nat /\ Len(insn) \in Nat /\ n \in 1 .. Len(insn) /\ done' = n
        /\ UNCHANGED <<line, h, odd, pend, insn, before>>
    BY InsnIs DEF Types, Access
  <1>2. wram \in Memory /\ before \in Memory /\ DOMAIN journal = 1 .. Len(insn)  BY DEF Types
  <1>3. \/ insn[n].to \in Offsets /\ WramStore(insn[n].to, n)
        \/ insn[n].to = "mdmaen" /\ MdmaenWrite
        \/ insn[n].to \notin Offsets \union {"mdmaen"} /\ UNCHANGED <<wram, journal>>
    BY DEF Access
  <1>4. wram' \in Memory /\ DOMAIN journal' = 1 .. Len(insn)
    <2>1. ASSUME NEW off \in Offsets, NEW v \in Values, wram' = [wram EXCEPT ![off] = v]
          PROVE  wram' \in Memory
      BY <1>2, <2>1 DEF Memory
    <2>2. CASE insn[n].to \in Offsets /\ WramStore(insn[n].to, n)
      BY <1>2, <2>1, <2>2 DEF WramStore
    <2>3. CASE MdmaenWrite  BY <1>2, <2>1, <2>3, AccessAssumption DEF MdmaenWrite
    <2> QED  BY <1>2, <1>3, <2>2, <2>3
  <1>5. Types'  BY <1>1, <1>2, <1>4 DEF Types, Located
  <1>6. CASE insn[n].to \in Offsets
    <2> DEFINE b == insn[n].to
    <2>1. PICK v \in Values :
            /\ wram' = [wram EXCEPT ![b] = v]
            /\ journal' = [journal EXCEPT ![n] = [off |-> b, old |-> wram[b], new |-> v]]
      BY <1>3, <1>6, AccessAssumption DEF WramStore, Registers
    <2>2. \A k \in 1 .. done : insn[k].to # b
      <3> TAKE k \in 1 .. done
      <3>1. k \in 1 .. Len(insn) /\ k # n  BY <1>1
      <3> QED  BY <1>1, <1>6, <3>1, AccessesAre
    <2>3. wram[b] = before[b]  BY <1>1, <1>6, <2>2 DEF Stores
    <2>4. wram'[b] = v /\ \A off \in Offsets : off # b => wram'[off] = wram[off]
      BY <1>2, <1>6, <2>1 DEF Memory
    <2>5. ASSUME NEW k \in 1 .. Len(insn)
          PROVE  journal'[k] = IF k <= n /\ insn[k].to \in Offsets
                               THEN [off |-> insn[k].to, old |-> before[insn[k].to],
                                     new |-> wram'[insn[k].to]]
                               ELSE NoStore
      <3>1. CASE k = n  BY <1>1, <1>2, <1>6, <2>1, <2>3, <2>4, <3>1
      <3>2. CASE k # n
        <4>1. journal'[k] = journal[k]  BY <1>2, <2>1, <3>2
        <4>2. k <= n <=> k <= done  BY <1>1, <3>2
        <4>3. insn[k].to # b  BY <1>1, <1>6, <3>2, AccessesAre
        <4> QED  BY <2>4, <4>1, <4>2, <4>3 DEF Stores
      <3> QED  BY <3>1, <3>2
    <2>6. ASSUME NEW off \in Offsets, \A k \in 1 .. n : insn[k].to # off
          PROVE  wram'[off] = before[off]
      <3>1. off # b /\ \A k \in 1 .. done : insn[k].to # off  BY <1>1, <2>6
      <3> QED  BY <1>1, <1>6, <2>4, <3>1 DEF Stores
    <2>7. Stores'  BY <1>1, <2>5, <2>6 DEF Stores
    <2> QED  BY <1>5, <2>7
  <1>7. CASE insn[n].to \notin Offsets
    <2>1. journal' = journal  BY <1>3, <1>7 DEF MdmaenWrite
    <2>2. \A k \in 1 .. Len(insn) : insn[k].to \in Offsets => (k <= n <=> k <= done)
      <3> TAKE k \in 1 .. Len(insn)
      <3>1. insn[k].to \in Offsets => k # n  BY <1>7
      <3> QED  BY <1>1, <3>1
    <2>3. CASE insn[n].to = "mdmaen"
      <3>1. \A k \in 1 .. Len(insn) : insn[k].to \notin Offsets  BY <1>1, <2>3, AccessesAre
      <3> QED  BY <1>1, <1>5, <2>1, <3>1 DEF Stores
    <2>4. CASE insn[n].to # "mdmaen"
      <3>1. wram' = wram  BY <1>3, <1>7, <2>4
      <3>2. \A k \in 1 .. Len(insn) :
              journal'[k] = IF k <= n /\ insn[k].to \in Offsets
                            THEN [off |-> insn[k].to, old |-> before[insn[k].to],
                                  new |-> wram'[insn[k].to]]
                            ELSE NoStore
        BY <2>1, <2>2, <3>1 DEF Stores
      <3>3. 1 .. done \subseteq 1 .. n  BY <1>1
      <3> QED  BY <1>1, <1>5, <3>1, <3>2, <3>3 DEF Stores
    <2> QED  BY <2>3, <2>4
  <1> QED  BY <1>6, <1>7

LEMMA BeginKeeps ==
    ASSUME Types, Stores, Begin
    PROVE  Types' /\ Stores'
  <1>1. /\ insn' \in Insns /\ done' = 0 /\ journal' = [k \in DOMAIN insn' |-> NoStore]
        /\ before' = wram /\ UNCHANGED <<line, h, odd, pend, wram>>
    BY DEF Begin
  <1>2. insn' \in Seq(Cycles)  BY <1>1, AccessAssumption
  <1>3. Len(insn') \in Nat /\ DOMAIN insn' = 1 .. Len(insn')  BY <1>2
  <1>4. Types'  BY <1>1, <1>3 DEF Types, Located
  <1>5. Stores'  BY <1>1, <1>3 DEF Stores
  <1> QED  BY <1>4, <1>5

-----------------------------------------------------------------------------
(* The frame edge.                                                         *)

LEMMA EdgeClockIs == ASSUME Types PROVE EdgeClock \in Int
  <1>1. Lines - line \in 0 .. MaxLines  BY Constants DEF Types, Located
  <1> QED  BY <1>1, StartIs DEF EdgeClock, Types

(* undo_from splits the instruction: what is stored from it on ends at the *)
(* edge or later, what is stored before it ends before the edge.           *)
LEMMA UndoFromIs ==
    ASSUME Types
    PROVE  /\ UndoFrom \in 1 .. Len(insn) + 1
           /\ \A k \in 1 .. Len(insn) :
                insn[k].kind = "write" => (k >= UndoFrom <=> Walk[k].t >= EdgeClock)
  <1> DEFINE N == Len(insn)
             after == {k \in 1 .. N : insn[k].kind = "write" /\ Walk[k].t >= EdgeClock}
             T == after \union {N + 1}
             u == CHOOSE k \in T : \A i \in after : k <= i
  <1>1. N \in Nat /\ DOMAIN insn = 1 .. N  BY InsnIs
  <1>2. UndoFrom = u  BY <1>1 DEF UndoFrom
  <1>3. T \subseteq Nat /\ T # {}  BY <1>1
  <1>4. \E k \in T : \A i \in after : k <= i
    <2> HIDE DEF after
    <2>1. PICK k \in T : \A i \in T : k <= i  BY <1>3, Least
    <2> QED  BY <2>1
  <1>5. u \in T /\ \A i \in after : u <= i
    <2> HIDE DEF after, T
    <2> QED  BY <1>4
  <1> HIDE DEF u
  <1>6. u \in 1 .. N + 1  BY <1>1, <1>5
  <1>7. ASSUME NEW k \in 1 .. N, insn[k].kind = "write"
        PROVE  k >= u <=> Walk[k].t >= EdgeClock
    <2>1. Walk[k].t >= EdgeClock => k >= u
      <3>1. Walk[k].t >= EdgeClock => u <= k  BY <1>5, <1>7
      <3> QED  BY <1>6, <3>1
    <2>2. ASSUME k >= u PROVE Walk[k].t >= EdgeClock
      <3>1. u \in after  BY <1>1, <1>5, <1>6, <2>2
      <3>2. u \in 0 .. N /\ k \in 0 .. N /\ Walk[u].t >= EdgeClock  BY <1>1, <3>1
      <3>3. Walk[u].t <= Walk[k].t  BY <2>2, <3>2, WalkGrows
      <3>4. Walk[u].t \in Nat /\ Walk[k].t \in Nat /\ EdgeClock \in Int
        BY <3>2, WalkGrows, EdgeClockIs
      <3> QED  BY <3>2, <3>3, <3>4
    <2> QED  BY <2>1, <2>2
  <1> QED  BY <1>2, <1>6, <1>7

(* At most one store to a byte, so that undoing and redoing it give what   *)
(* the byte held when the instruction began, and what it holds now.        *)
LEMMA JournalIs ==
    ASSUME Types, Stores, done = Len(insn), NEW off \in Offsets,
           NEW from \in 1 .. Len(insn) + 1, NEW mem
    PROVE  /\ (\A k \in from .. Len(insn) : insn[k].to # off) =>
                /\ Journal(from, mem, "old")[off] = mem[off]
                /\ Journal(from, mem, "new")[off] = mem[off]
           /\ (\E k \in from .. Len(insn) : insn[k].to = off) =>
                /\ Journal(from, mem, "old")[off] = before[off]
                /\ Journal(from, mem, "new")[off] = wram[off]
  <1> DEFINE N == Len(insn)
             s == Stored(from, off)
  <1>1. N \in Nat /\ from \in Nat /\ from .. N \subseteq 1 .. N  BY InsnIs
  <1>2. ASSUME NEW k \in 1 .. N
        PROVE  /\ journal[k].off = off <=> insn[k].to = off
               /\ insn[k].to = off => journal[k].old = before[off] /\ journal[k].new = wram[off]
    <2>1. journal[k] = IF k <= done /\ insn[k].to \in Offsets
                       THEN [off |-> insn[k].to, old |-> before[insn[k].to],
                             new |-> wram[insn[k].to]]
                       ELSE NoStore
      BY DEF Stores
    <2>2. k <= done  BY <1>1
    <2>3. off # "none"  BY AccessAssumption DEF Registers
    <2> QED  BY <2>1, <2>2, <2>3 DEF NoStore
  <1>3. s = {k \in from .. N : insn[k].to = off}
    <2>1. \A k \in from .. N : journal[k].off = off <=> insn[k].to = off  BY <1>1, <1>2
    <2> QED  BY <2>1 DEF Stored
  <1>4. \A mm, side : Journal(from, mm, side)[off]
                        = IF s = {} THEN mm[off] ELSE journal[CHOOSE k \in s : TRUE][side]
    BY DEF Journal
  <1> HIDE DEF s
  <1>5. CASE \A k \in from .. N : insn[k].to # off
    <2>1. s = {}  BY <1>3, <1>5
    <2> QED  BY <1>4, <1>5, <2>1
  <1>6. CASE \E k \in from .. N : insn[k].to = off
    <2> DEFINE k == CHOOSE i \in s : TRUE
    <2>1. s # {}  BY <1>3, <1>6
    <2>2. k \in s  BY <2>1
    <2>3. Journal(from, mem, "old")[off] = journal[k]["old"]  BY <1>4, <2>1
    <2>4. Journal(from, mem, "new")[off] = journal[k]["new"]  BY <1>4, <2>1
    <2> HIDE DEF k
    <2>5. k \in 1 .. N /\ insn[k].to = off  BY <1>1, <1>3, <2>2
    <2> QED  BY <1>2, <1>6, <2>3, <2>4, <2>5
  <1> QED  BY <1>5, <1>6

LEMMA JournalsAre ==
    ASSUME NEW from, NEW mem, NEW side
    PROVE  Journal(from, mem, side) = [off \in Offsets |-> Journal(from, mem, side)[off]]
  BY DEF Journal

(* What the hook sees is what was stored before the edge.                  *)
LEMMA SeenIs ==
    ASSUME Types, Stores, done = Len(insn), DmaOver(Walk[Len(insn)])
    PROVE  Undone(UndoFrom) = BeforeEdge
  <1> DEFINE N == Len(insn)
             u == UndoFrom
             seen == Undone(u)
  <1>1. N \in Nat /\ DOMAIN insn = 1 .. N  BY InsnIs
  <1>2. /\ u \in 1 .. N + 1
        /\ \A k \in 1 .. N : insn[k].kind = "write" => (k >= u <=> Walk[k].t >= EdgeClock)
    BY UndoFromIs
  <1> HIDE DEF u
  <1>3. ASSUME NEW off \in Offsets
        PROVE  seen[off] = BeforeEdge[off]
    <2> DEFINE s == {k \in 1 .. N : insn[k].to = off}
    <2>1. {k \in DOMAIN insn : journal[k].off = off} = s
      <3>1. ASSUME NEW k \in 1 .. N PROVE journal[k].off = off <=> insn[k].to = off
        <4>1. journal[k] = IF k <= done /\ insn[k].to \in Offsets
                           THEN [off |-> insn[k].to, old |-> before[insn[k].to],
                                 new |-> wram[insn[k].to]]
                           ELSE NoStore
          BY DEF Stores
        <4>2. k <= done /\ off # "none"  BY <1>1, AccessAssumption DEF Registers
        <4> QED  BY <4>1, <4>2 DEF NoStore
      <3> QED  BY <1>1, <3>1
    <2>2. BeforeEdge[off] = IF s = {} THEN wram[off]
                            ELSE IF \E k \in s : Walk[k].t < EdgeClock THEN wram[off]
                            ELSE before[off]
      BY <2>1 DEF BeforeEdge
    <2>3. seen[off] = Journal(u, wram, "old")[off]  BY DEF Undone
    <2>4. CASE \E k \in u .. N : insn[k].to = off
      <3>1. PICK k \in u .. N : insn[k].to = off  BY <2>4
      <3>2. k \in 1 .. N /\ k >= u  BY <1>1, <1>2
      <3>3. s = {k}
        <4>1. \A i \in 1 .. N : insn[i].to = off => i = k
          BY <3>1, <3>2, AccessesAre
        <4> QED  BY <3>1, <3>2, <4>1
      <3>4. Walk[k].t >= EdgeClock  BY <1>2, <3>1, <3>2, AccessesAre
      <3>5. ~(Walk[k].t < EdgeClock)
        <4>1. k \in 0 .. N  BY <3>2
        <4>2. Walk[k].t \in Nat /\ EdgeClock \in Int  BY <4>1, WalkGrows, EdgeClockIs
        <4> QED  BY <3>4, <4>2
      <3>6. BeforeEdge[off] = before[off]  BY <2>2, <3>3, <3>5
      <3>7. Journal(u, wram, "old")[off] = before[off]  BY <1>2, <2>4, JournalIs
      <3> QED  BY <2>3, <3>6, <3>7
    <2>5. CASE \A k \in u .. N : insn[k].to # off
      <3>1. Journal(u, wram, "old")[off] = wram[off]  BY <1>2, <2>5, JournalIs
      <3>2. ASSUME NEW k \in s PROVE Walk[k].t < EdgeClock
        <4>1. k \in 1 .. N /\ insn[k].to = off  OBVIOUS
        <4>2. ~(k >= u)  BY <1>1, <1>2, <2>5, <4>1
        <4>3. ~(Walk[k].t >= EdgeClock)  BY <1>2, <4>1, <4>2, AccessesAre
        <4>4. k \in 0 .. N  BY <4>1
        <4>5. Walk[k].t \in Nat /\ EdgeClock \in Int  BY <4>4, WalkGrows, EdgeClockIs
        <4> QED  BY <4>3, <4>5
      <3>3. BeforeEdge[off] = wram[off]
        <4>1. s = {} \/ \E k \in s : Walk[k].t < EdgeClock
          <5> HIDE DEF s
          <5> QED  BY <3>2
        <4> HIDE DEF s
        <4> QED  BY <2>2, <4>1
      <3> QED  BY <2>3, <3>1, <3>3
    <2> QED  BY <2>4, <2>5
  <1>4. seen = [off \in Offsets |-> seen[off]]  BY JournalsAre DEF Undone
  <1>5. BeforeEdge = [off \in Offsets |-> BeforeEdge[off]]  BY DEF BeforeEdge
  <1> HIDE DEF seen
  <1>6. seen = BeforeEdge  BY <1>3, <1>4, <1>5
  <1> QED  BY <1>6 DEF seen, u

(* After the hook everything is as the instruction left it.                *)
LEMMA RedoneIs ==
    ASSUME Types, Stores, done = Len(insn)
    PROVE  Redone(UndoFrom, Undone(UndoFrom)) = wram
  <1> DEFINE u == UndoFrom
             seen == Undone(u)
  <1>1. u \in 1 .. Len(insn) + 1  BY UndoFromIs
  <1> HIDE DEF u
  <1>2. ASSUME NEW off \in Offsets
        PROVE  Journal(u, seen, "new")[off] = wram[off]
    <2>1. CASE \E k \in u .. Len(insn) : insn[k].to = off  BY <1>1, <2>1, JournalIs
    <2>2. CASE \A k \in u .. Len(insn) : insn[k].to # off
      <3>1. Journal(u, seen, "new")[off] = seen[off]  BY <1>1, <2>2, JournalIs
      <3>2. seen[off] = wram[off]  BY <1>1, <2>2, JournalIs DEF Undone
      <3> QED  BY <3>1, <3>2
    <2> QED  BY <2>1, <2>2
  <1> HIDE DEF seen
  <1>3. Redone(u, seen) = [off \in Offsets |-> Journal(u, seen, "new")[off]]
    BY JournalsAre DEF Redone
  <1>4. wram = [off \in Offsets |-> wram[off]]  BY DEF Types, Memory
  <1>5. Redone(u, seen) = wram  BY <1>2, <1>3, <1>4
  <1> QED  BY <1>5 DEF seen, u

-----------------------------------------------------------------------------
(* The line of a clock.                                                    *)

LEMMA LineAtIs ==
    ASSUME Located, NEW t \in Nat, t < Start[MaxLines]
    PROVE  /\ LineAt(t) \in 0 .. MaxLines - 1
           /\ Start[LineAt(t)] <= t /\ t < Start[LineAt(t) + 1]
           /\ LineAt(t) = 0 <=> t < Start[1]
           /\ t < Start[2] => LineAt(t) <= 1
  <1> DEFINE N == MaxLines
             T == {j \in 0 .. N : t < Start[j]}
             Here(j) == Start[j] <= t /\ t < Start[j + 1]
             a == CHOOSE j \in 0 .. N - 1 : Here(j)
  <1>1. N \in Nat /\ N > 1 /\ 1 \in 0 .. N /\ 2 \in 0 .. N  BY Constants
  <1>2. Start[0] = 0 /\ \A j \in 0 .. N : Start[j] \in Int  BY StartIs
  <1>3. \A i, j \in 0 .. N : i <= j => Start[i] <= Start[j]  BY StartGrows
  <1>4. \E j \in 0 .. N - 1 : Here(j)
    <2>1. T \subseteq Nat /\ N \in T  BY <1>1
    <2>2. PICK j \in T : \A y \in T : j <= y
      <3> HIDE DEF T
      <3> QED  BY <2>1, Least
    <2>3. j \in 0 .. N /\ j \in Nat /\ t < Start[j]  BY <2>1, <2>2
    <2>4. j # 0  BY <1>2, <2>3
    <2>5. j - 1 \in 0 .. N - 1 /\ j - 1 \in 0 .. N /\ (j - 1) + 1 = j  BY <1>1, <2>3, <2>4
    <2>6. j - 1 \notin T  BY <2>2, <2>3
    <2>7. Start[j - 1] \in Int /\ ~(t < Start[j - 1])  BY <1>2, <2>5, <2>6
    <2>8. Start[j - 1] <= t  BY <2>7
    <2> QED  BY <2>3, <2>5, <2>8
  <1>5. a \in 0 .. N - 1 /\ Here(a)
    <2> HIDE DEF Here
    <2> QED  BY <1>4
  <1>6. LineAt(t) = a  BY DEF LineAt
  <1> HIDE DEF a
  <1>7. a \in 0 .. N /\ a + 1 \in 0 .. N /\ a \in Nat  BY <1>1, <1>5
  <1>8. Start[1] \in Int /\ Start[2] \in Int /\ Start[a] \in Int /\ Start[a + 1] \in Int
    BY <1>1, <1>2, <1>7
  <1>9. a >= 1 => Start[1] <= Start[a]  BY <1>1, <1>3, <1>7
  <1>10. a >= 2 => Start[2] <= Start[a]  BY <1>1, <1>3, <1>7
  <1>11. a = 0 => t < Start[1]  BY <1>5
  <1>12. a # 0 => ~(t < Start[1])  BY <1>5, <1>7, <1>8, <1>9
  <1>13. t < Start[2] => a <= 1  BY <1>5, <1>7, <1>8, <1>10
  <1> QED  BY <1>5, <1>6, <1>11, <1>12, <1>13

LEMMA Remains == ASSUME NEW n \in Nat, NEW l \in Nat, l > 0 PROVE n % l \in 0 .. l - 1
  OBVIOUS

-----------------------------------------------------------------------------
(* The commit.                                                             *)

LEMMA CommitKeeps ==
    ASSUME Types, Stores, Commit
    PROVE  Types' /\ Stores' /\ wram' = wram /\ (EdgeView => EdgeView')
  <1> DEFINE end == Walk[Len(insn)]
             j == LineAt(end.t)
  <1>1. Len(insn) \in Nat /\ Len(insn) \in 0 .. Len(insn)  BY InsnIs
  <1>2. end \in WalkAt /\ end.t \in Nat  BY <1>1, WalkIs, WalkGrows
  <1>3. /\ done = Len(insn) /\ end.t < Start[MaxLines]
        /\ line' = LineOf(j) /\ odd' = OddOf(j) /\ h' = end.t - Start[j]
        /\ pend' = end.pend
        /\ insn' = <<>> /\ done' = 0 /\ journal' = <<>> /\ before' = wram'
    BY DEF Commit
  <1>4. \/ /\ hook'.wram = Undone(UndoFrom) /\ wram' = Redone(UndoFrom, Undone(UndoFrom))
           /\ hook'.in_dma = (end.lo < EdgeClock /\ EdgeClock < end.hi)
           /\ asOf'.wram = BeforeEdge
           /\ asOf'.early = (end.pend # 0 \/ end.lo >= EdgeClock)
        \/ UNCHANGED <<hook, wram, asOf>>
    BY DEF Commit
  <1>5. wram' = wram  BY <1>3, <1>4, RedoneIs
  <1>6. EdgeView => EdgeView'
    <2>1. CASE UNCHANGED <<hook, asOf>>  BY <2>1 DEF EdgeView
    <2>2. CASE /\ hook'.wram = Undone(UndoFrom)
               /\ hook'.in_dma = (end.lo < EdgeClock /\ EdgeClock < end.hi)
               /\ asOf'.wram = BeforeEdge
               /\ asOf'.early = (end.pend # 0 \/ end.lo >= EdgeClock)
      <3>1. end.lo \in Int /\ end.hi \in Int /\ EdgeClock \in Int
        BY <1>2, EdgeClockIs DEF WalkAt
      <3>2. CASE DmaOver(end)
        <4>1. Undone(UndoFrom) = BeforeEdge  BY <1>3, <3>2, SeenIs
        <4> QED  BY <2>2, <4>1 DEF EdgeView
      <3>3. CASE ~DmaOver(end)
        <4> HIDE DEF end
        <4>1. \/ end.pend # 0 \/ end.lo >= EdgeClock
              \/ end.lo < EdgeClock /\ EdgeClock < end.hi
          BY <3>1, <3>3 DEF DmaOver
        <4>2. asOf'.early \/ hook'.in_dma  BY <2>2, <4>1, Zenon
        <4> QED  BY <4>2 DEF EdgeView
      <3> QED  BY <3>2, <3>3
    <2> QED  BY <1>4, <2>1, <2>2
  <1> HIDE DEF end
  <1>7. Located  BY DEF Types
  <1>8. j \in 0 .. MaxLines - 1 /\ Start[j] <= end.t  BY <1>2, <1>3, <1>7, LineAtIs
  <1> HIDE DEF j
  <1>9. h' \in Nat
    <2>1. j \in 0 .. MaxLines  BY <1>8, Constants
    <2>2. Start[j] \in Int  BY <1>7, <2>1, StartIs
    <2> QED  BY <1>2, <1>3, <1>8, <2>2
  <1>10. line' \in 0 .. Lines - 1
    <2>1. line + j \in Nat /\ Lines \in Nat /\ Lines > 0
      BY <1>7, <1>8, Constants DEF Located
    <2> QED  BY <1>3, <2>1, Remains DEF LineOf
  <1>11. odd' \in BOOLEAN
    <2>1. odd \in BOOLEAN  BY <1>7 DEF Located
    <2>2. (~odd) \in BOOLEAN  BY <2>1, Zenon
    <2> QED  BY <1>3, <2>1, <2>2, Zenon DEF OddOf
  <1>12. pend' \in Int  BY <1>2, <1>3 DEF WalkAt
  <1>13. Types'
    <2>1. wram' \in Memory /\ before' \in Memory  BY <1>3, <1>5 DEF Types
    <2>2. Len(insn') = 0 /\ DOMAIN journal' = 1 .. 0  BY <1>3
    <2> QED  BY <1>3, <1>9, <1>10, <1>11, <1>12, <2>1, <2>2 DEF Types, Located
  <1>14. Stores'
    <2>1. Len(insn') = 0  BY <1>3
    <2> QED  BY <1>3, <2>1 DEF Stores
  <1> QED  BY <1>5, <1>6, <1>13, <1>14

-----------------------------------------------------------------------------
(* The invariant.                                                          *)

IInv == Types /\ Stores /\ EdgeView

LEMMA Inductive == Spec => []IInv
  <1>1. Init => IInv
    <2> SUFFICES ASSUME Init PROVE IInv  OBVIOUS
    <2>1. Len(<<>>) = 0 /\ DOMAIN <<>> = 1 .. 0  OBVIOUS
    <2>2. wram \in Memory /\ before \in Memory  BY DEF Init, Memory
    <2>3. Located
      <3>1. 0 \in 0 .. Lines - 1 /\ 0 \in Nat  BY Constants
      <3>2. FALSE \in BOOLEAN  OBVIOUS
      <3> QED  BY <3>1, <3>2 DEF Init, Located
    <2>4. Types  BY <2>1, <2>2, <2>3 DEF Init, Types
    <2>5. Stores  BY <2>1 DEF Init, Stores
    <2> QED  BY <2>4, <2>5 DEF IInv, Init, EdgeView
  <1>2. IInv /\ [Next]_vars => IInv'
    <2> SUFFICES ASSUME IInv, [Next]_vars PROVE IInv'  OBVIOUS
    <2> USE DEF IInv
    <2>1. CASE Begin
      <3>1. EdgeView'  BY <2>1 DEF Begin, EdgeView
      <3> QED  BY <2>1, <3>1, BeginKeeps
    <2>2. CASE Access
      <3>1. EdgeView'  BY <2>2 DEF Access, EdgeView
      <3> QED  BY <2>2, <3>1, AccessKeeps
    <2>3. CASE Commit  BY <2>3, CommitKeeps
    <2>4. CASE UNCHANGED vars
      <3>1. UNCHANGED <<line, h, odd, pend, insn, done, wram, journal, hook, before, asOf>>
        BY <2>4 DEF vars
      <3>2. Types'  BY <3>1 DEF Types, Located
      <3>3. Stores'  BY <3>1 DEF Stores
      <3>4. EdgeView'  BY <3>1 DEF EdgeView
      <3> QED  BY <3>2, <3>3, <3>4
    <2> QED  BY <2>1, <2>2, <2>3, <2>4 DEF Next
  <1> QED  BY <1>1, <1>2, PTL DEF Spec

(* The frame hook sees memory as of the frame edge, wherever in an         *)
(* instruction the edge falls: the stores of edge_hook's undo list are     *)
(* those, and only those, that end at the edge or after it, unless the     *)
(* edge is in a general DMA, or before one that has been asked for.        *)
THEOREM EdgeTheorem == Spec => []EdgeView
  <1>1. IInv => EdgeView  BY DEF IInv
  <1> QED  BY <1>1, Inductive, PTL

(* Only an access changes WRAM: what edge_hook takes back it puts forward  *)
(* again, every byte, whatever the instruction stored and in what order.   *)
THEOREM StoresTheorem == Spec => StoresKept
  <1>1. IInv /\ [Next]_vars => [wram' # wram => done' = done + 1]_vars
    <2> SUFFICES ASSUME IInv, Next PROVE wram' # wram => done' = done + 1
      BY DEF vars
    <2>1. CASE Begin  BY <2>1 DEF Begin
    <2>2. CASE Access  BY <2>2 DEF Access
    <2>3. CASE Commit  BY <2>3, CommitKeeps DEF IInv
    <2> QED  BY <2>1, <2>2, <2>3 DEF Next
  <1> QED  BY <1>1, Inductive, PTL DEF Spec, StoresKept

LEMMA HvIs ==
    ASSUME Located, NEW t \in Nat, t < Start[2]
    PROVE  Hv(t) = [v |-> LineOf(LineAt(t)), h |-> t - Start[LineAt(t)]]
  <1>1. Start[2] <= Start[MaxLines] /\ Start[2] \in Int /\ Start[MaxLines] \in Int
    <2>1. 2 \in 0 .. MaxLines /\ MaxLines \in 0 .. MaxLines /\ 2 <= MaxLines  BY Constants
    <2> QED  BY <2>1, StartIs, StartGrows
  <1>2. t < Start[MaxLines]  BY <1>1
  <1>3. /\ LineAt(t) \in 0 .. MaxLines - 1
        /\ LineAt(t) = 0 <=> t < Start[1]
        /\ LineAt(t) <= 1
    BY <1>2, LineAtIs
  <1>4. Start[1] = LengthOf(line, odd) /\ Start[0] = 0  BY StartGrows, StartIs
  <1>5. CASE t < Start[1]
    <2>1. LineAt(t) = 0 /\ Hv(t) = [v |-> line, h |-> t]  BY <1>3, <1>4, <1>5 DEF Hv
    <2>2. LineOf(0) = line
      <3>1. line \in Nat /\ line < Lines /\ Lines \in Nat  BY Constants DEF Located
      <3>2. line % Lines = line  BY <3>1
      <3> QED  BY <3>1, <3>2 DEF LineOf
    <2> QED  BY <1>4, <2>1, <2>2
  <1>6. CASE ~(t < Start[1])
    <2>1. LineAt(t) = 1  BY <1>3, <1>6, Constants
    <2> QED  BY <1>4, <1>6, <2>1 DEF Hv
  <1> QED  BY <1>5, <1>6

(* $2137 and $4212 report the line and the clock of the read's own sample  *)
(* point, access_clock, and not the committed ones.                        *)
THEOREM CountersTheorem == Spec => CountersExact
  <1> DEFINE Reads == done' = done + 1 /\ insn[done'].to \in {"slhv", "hvbjoy"}
             Point(t) == [v |-> LineOf(LineAt(t)), h |-> t - Start[LineAt(t)]]
             Exact == Reads /\ AccessClock < Start[2] =>
                        LET j == LineAt(AccessClock)
                            p == [v |-> LineOf(j), h |-> AccessClock - Start[j]]
                        IN  hv' = IF insn[done'].to = "slhv" THEN p ELSE Blanks(p)
  <1>1. IInv /\ [Next]_vars => [Exact]_vars
    <2> SUFFICES ASSUME IInv, Next, Reads, AccessClock < Start[2]
                 PROVE  hv' = IF insn[done'].to = "slhv" THEN Point(AccessClock)
                              ELSE Blanks(Point(AccessClock))
      OBVIOUS
    <2>1. Types /\ Located /\ done \in Nat  BY InsnIs DEF IInv, Types
    <2>2. Access
      <3>1. ~Begin  BY <2>1 DEF Begin
      <3>2. ~Commit  BY <2>1 DEF Commit
      <3> QED  BY <3>1, <3>2 DEF Next
    <2>3. done + 1 \in 1 .. Len(insn)  BY <2>1, <2>2, InsnIs DEF Access
    <2>4. AccessClock \in Nat  BY <2>1, <2>3, WalkGrows DEF AccessClock
    <2>5. Hv(AccessClock) = Point(AccessClock)  BY <2>1, <2>4, HvIs
    <2>6. hv' = CASE insn[done'].to = "slhv" -> Hv(AccessClock)
                  [] insn[done'].to = "hvbjoy" -> Blanks(Hv(AccessClock))
                  [] OTHER -> hv
      BY <2>2 DEF Access
    <2> HIDE DEF Point
    <2>7. CASE insn[done'].to = "slhv"  BY <2>5, <2>6, <2>7
    <2>8. CASE insn[done'].to = "hvbjoy"
      <3>1. insn[done'].to # "slhv"  BY <2>8
      <3> QED  BY <2>5, <2>6, <2>8, <3>1
    <2> QED  BY <2>7, <2>8
  <1> QED  BY <1>1, Inductive, PTL DEF Spec, CountersExact
=============================================================================
