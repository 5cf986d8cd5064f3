--------------------------- MODULE OverlayProofs ---------------------------
(***************************************************************************)
(* Proofs about Overlay: the C stack and the active functions agree, the   *)
(* cached checks are sound while no write counter wraps, and no native     *)
(* overlay instruction begins on bytes other than those it was compiled    *)
(* from.                                                                   *)
(***************************************************************************)
EXTENDS Overlay, FiniteSetTheorems, FunctionTheorems, SequenceTheorems,
        WellFoundedInduction, TLAPS

----------------------------------------------------------------------------
(* The inductive invariant.                                                *)

(* The frames fr and the active functions ac belong together: n counts the *)
(* overlay frames up to each frame, a bail stands in for a function active *)
(* in its frame, and jb of the k-th function is the frame under its own.   *)
Steps(fr) ==
    \A i \in 2 .. Len(fr) :
        fr[i].n = IF fr[i].kind = "ovl" THEN fr[i - 1].n + 1 ELSE fr[i - 1].n
Order(fr) ==
    \A i, j \in 1 .. Len(fr) :
        i < j => /\ fr[i].n <= fr[j].n
                 /\ fr[j].kind = "ovl" => fr[i].n < fr[j].n
Counts(fr) == fr[1].n = 0 /\ fr[1].kind = "main" /\ Steps(fr) /\ Order(fr)
Targets(fr) == \A i \in 1 .. Len(fr) : fr[i].kind = "bail" => fr[i].of \in 1 .. fr[i].n
Buffers(fr, ac) ==
    \A k \in 1 .. Len(ac) :
        /\ ac[k].jb \in 1 .. Len(fr) - 1
        /\ fr[ac[k].jb].kind \in Loops /\ fr[ac[k].jb].n = k - 1
        /\ fr[ac[k].jb + 1].kind = "ovl" /\ fr[ac[k].jb + 1].n = k
StackOK(fr, ac) ==
    /\ fr \in Seq(Frame) /\ Len(fr) >= 1
    /\ ac \in Seq(Act) /\ Len(ac) <= MaxAct
    /\ fr[Len(fr)].n = Len(ac)
    /\ Counts(fr) /\ Targets(fr) /\ Buffers(fr, ac)

StackInv ==
    /\ StackOK(frames, act)
    /\ pc \in {"insn", "rti"} => InNative
    /\ pc = "ret" => Top.kind = "ovl"

(* The sum of a checked entry's counters has grown since the check, or the *)
(* check still holds.                                                      *)
CacheInv ==
    /\ \A p \in Pages : gen[p] <= writes
    /\ \A k \in Ovl : cache[k].checked =>
          \/ cache[k].gens < PageGens(k)
          \/ cache[k].gens = PageGens(k) /\ cache[k].valid = Matches(k)

(* Every function that may run more of its code is watched, and the range  *)
(* a function saved watches those under it.                                *)
Covers(r, k) == r.lo <= Lo[k] /\ Hi[k] < r.lo + r.len
WatchInv ==
    /\ \A k \in 1 .. Len(act) : act[k].dormant => k = Len(act) /\ pc = "ret"
    /\ pc # "ret" => \A k \in 1 .. Len(act) : Covers(watch, act[k].f)
    /\ \A k \in 1 .. Len(act) : \A j \in 1 .. k - 1 : Covers(act[k].saved, act[j].f)

(* The functions a bail in force has given up: from the one it stands in   *)
(* for to the last one active when it began.                               *)
Exempt(fr, k) ==
    \E i \in 1 .. Len(fr) :
        /\ fr[i].kind = "bail" /\ \A j \in i + 1 .. Len(fr) : fr[j].kind # "bail"
        /\ fr[i].of <= k /\ k <= fr[i].n

(* Unless a write has been seen since the last check, the bytes of every   *)
(* other active function are those it was compiled from.                   *)
FreshInv ==
    ~hit /\ pc # "fatal" => \A k \in 1 .. Len(act) :
                ~act[k].dormant /\ ~Exempt(frames, k) => Matches(act[k].f)

----------------------------------------------------------------------------
(* The C stack and the active functions.                                   *)

(* Every frame is a frame, with at most the active functions.              *)
LEMMA Levels ==
    ASSUME NEW fr, NEW ac, StackOK(fr, ac)
    PROVE  /\ Len(ac) \in Nat /\ Len(fr) \in Nat
           /\ \A i \in 1 .. Len(fr) : fr[i] \in Frame /\ fr[i].n \in Nat /\ fr[i].n <= Len(ac)
<1>1. Len(fr) \in Nat /\ Len(ac) \in Nat /\ \A i \in 1 .. Len(fr) : fr[i] \in Frame
  BY DEF StackOK
<1>2. \A i \in 1 .. Len(fr) : fr[i].n \in Nat
  BY <1>1 DEF Frame
<1>3. ASSUME NEW i \in 1 .. Len(fr) PROVE fr[i].n <= Len(ac)
  <2>1. CASE i = Len(fr)
    BY <2>1, <1>2, <1>1 DEF StackOK
  <2>2. CASE i # Len(fr)
    BY <2>2, <1>1, <1>2 DEF StackOK, Counts, Order
  <2> QED BY <2>1, <2>2
<1> QED BY <1>1, <1>2, <1>3

(* Entering a loop or a ROM function keeps the stack in order.             *)
LEMMA PushOK ==
    ASSUME NEW fr, NEW ac, StackOK(fr, ac), NEW g \in Frame,
           g.kind # "ovl", g.n = Len(ac), g.kind = "bail" => g.of \in 1 .. g.n
    PROVE  StackOK(Append(fr, g), ac)
<1> DEFINE gr == Append(fr, g)
<1>1. /\ gr \in Seq(Frame) /\ Len(gr) = Len(fr) + 1 /\ Len(fr) \in Nat
      /\ gr[Len(gr)] = g /\ \A i \in 1 .. Len(fr) : gr[i] = fr[i]
  BY DEF StackOK
<1>2. \A i \in 1 .. Len(fr) : fr[i].n \in Nat /\ fr[i].n <= Len(ac)
  BY Levels
<1> HIDE DEF gr
<1>3. Counts(gr)
  <2>1. ASSUME NEW i \in 2 .. Len(gr)
        PROVE  gr[i].n = IF gr[i].kind = "ovl" THEN gr[i - 1].n + 1 ELSE gr[i - 1].n
    <3>1. CASE i = Len(gr)
      <4>1. i - 1 = Len(fr) /\ Len(fr) \in 1 .. Len(fr)
        BY <3>1, <1>1 DEF StackOK
      <4>2. gr[i] = g /\ gr[i - 1] = fr[Len(fr)]
        BY <3>1, <4>1, <1>1
      <4>3. fr[Len(fr)].n = Len(ac)
        BY DEF StackOK
      <4> QED BY <4>2, <4>3
    <3>2. CASE i # Len(gr)
      <4>1. i \in 2 .. Len(fr) /\ i \in 1 .. Len(fr) /\ i - 1 \in 1 .. Len(fr)
        BY <3>2, <1>1
      <4> QED BY <4>1, <1>1 DEF StackOK, Counts, Steps
    <3> QED BY <3>1, <3>2
  <2>2. ASSUME NEW i \in 1 .. Len(gr), NEW j \in 1 .. Len(gr), i < j
        PROVE  gr[i].n <= gr[j].n /\ (gr[j].kind = "ovl" => gr[i].n < gr[j].n)
    <3>1. CASE j = Len(gr)
      BY <2>2, <3>1, <1>1, <1>2
    <3>2. CASE j # Len(gr)
      <4>1. i \in 1 .. Len(fr) /\ j \in 1 .. Len(fr)
        BY <2>2, <3>2, <1>1
      <4> QED BY <4>1, <2>2, <1>1 DEF StackOK, Counts, Order
    <3> QED BY <3>1, <3>2
  <2>3. gr[1] = fr[1]
    BY <1>1 DEF StackOK
  <2> QED BY <2>1, <2>2, <2>3 DEF StackOK, Counts, Steps, Order
<1>4. Targets(gr)
  <2> SUFFICES ASSUME NEW i \in 1 .. Len(gr), gr[i].kind = "bail"
               PROVE  gr[i].of \in 1 .. gr[i].n
    BY DEF Targets
  <2>1. CASE i = Len(gr)
    BY <2>1, <1>1
  <2>2. CASE i # Len(gr)
    <3>1. i \in 1 .. Len(fr) /\ gr[i] = fr[i]
      BY <2>2, <1>1
    <3> QED BY <3>1 DEF StackOK, Targets
  <2> QED BY <2>1, <2>2
<1>5. Buffers(gr, ac)
  <2> SUFFICES ASSUME NEW k \in 1 .. Len(ac)
               PROVE  /\ ac[k].jb \in 1 .. Len(gr) - 1
                      /\ gr[ac[k].jb].kind \in Loops /\ gr[ac[k].jb].n = k - 1
                      /\ gr[ac[k].jb + 1].kind = "ovl" /\ gr[ac[k].jb + 1].n = k
    BY DEF Buffers
  <2>1. ac[k].jb \in 1 .. Len(fr) - 1
    BY DEF StackOK, Buffers
  <2>2. /\ ac[k].jb \in 1 .. Len(fr) /\ ac[k].jb + 1 \in 1 .. Len(fr)
        /\ ac[k].jb \in 1 .. Len(gr) - 1
    BY <2>1, <1>1
  <2> QED BY <2>2, <1>1 DEF StackOK, Buffers
<1>6. StackOK(gr, ac)
  BY <1>1, <1>3, <1>4, <1>5 DEF StackOK
<1> QED BY <1>6 DEF gr

(* Entering an overlay function: the loop that dispatches it is the frame  *)
(* its jump buffer names.                                                  *)
LEMMA EnterOK ==
    ASSUME NEW fr, NEW ac, StackOK(fr, ac), NEW g \in Frame, NEW a \in Act,
           g.kind = "ovl", g.n = Len(ac) + 1, a.jb = Len(fr),
           fr[Len(fr)].kind \in Loops, Len(ac) < MaxAct
    PROVE  StackOK(Append(fr, g), Append(ac, a))
<1> DEFINE gr == Append(fr, g)
           bc == Append(ac, a)
<1>1. /\ gr \in Seq(Frame) /\ Len(gr) = Len(fr) + 1 /\ Len(fr) \in Nat \ {0}
      /\ gr[Len(gr)] = g /\ \A i \in 1 .. Len(fr) : gr[i] = fr[i]
  BY DEF StackOK
<1>2. /\ bc \in Seq(Act) /\ Len(bc) = Len(ac) + 1 /\ Len(ac) \in Nat
      /\ bc[Len(bc)] = a /\ \A i \in 1 .. Len(ac) : bc[i] = ac[i]
  BY DEF StackOK
<1>3. \A i \in 1 .. Len(fr) : fr[i].n \in Nat /\ fr[i].n <= Len(ac)
  BY Levels
<1> HIDE DEF gr, bc
<1>4. Counts(gr)
  <2>1. ASSUME NEW i \in 2 .. Len(gr)
        PROVE  gr[i].n = IF gr[i].kind = "ovl" THEN gr[i - 1].n + 1 ELSE gr[i - 1].n
    <3>1. CASE i = Len(gr)
      BY <3>1, <1>1 DEF StackOK
    <3>2. CASE i # Len(gr)
      <4>1. i \in 2 .. Len(fr) /\ i \in 1 .. Len(fr) /\ i - 1 \in 1 .. Len(fr)
        BY <3>2, <1>1
      <4> QED BY <4>1, <1>1 DEF StackOK, Counts, Steps
    <3> QED BY <3>1, <3>2
  <2>2. ASSUME NEW i \in 1 .. Len(gr), NEW j \in 1 .. Len(gr), i < j
        PROVE  gr[i].n <= gr[j].n /\ (gr[j].kind = "ovl" => gr[i].n < gr[j].n)
    <3>1. CASE j = Len(gr)
      BY <2>2, <3>1, <1>1, <1>2, <1>3
    <3>2. CASE j # Len(gr)
      <4>1. i \in 1 .. Len(fr) /\ j \in 1 .. Len(fr)
        BY <2>2, <3>2, <1>1
      <4> QED BY <4>1, <2>2, <1>1 DEF StackOK, Counts, Order
    <3> QED BY <3>1, <3>2
  <2>3. gr[1] = fr[1]
    BY <1>1 DEF StackOK
  <2> QED BY <2>1, <2>2, <2>3 DEF StackOK, Counts, Steps, Order
<1>5. Targets(gr)
  BY <1>1 DEF StackOK, Targets
<1>6. Buffers(gr, bc)
  <2> SUFFICES ASSUME NEW k \in 1 .. Len(bc)
               PROVE  /\ bc[k].jb \in 1 .. Len(gr) - 1
                      /\ gr[bc[k].jb].kind \in Loops /\ gr[bc[k].jb].n = k - 1
                      /\ gr[bc[k].jb + 1].kind = "ovl" /\ gr[bc[k].jb + 1].n = k
    BY DEF Buffers
  <2>1. CASE k = Len(bc)
    BY <2>1, <1>1, <1>2 DEF StackOK
  <2>2. CASE k # Len(bc)
    <3>1. k \in 1 .. Len(ac) /\ bc[k] = ac[k]
      BY <2>2, <1>2
    <3>2. ac[k].jb \in 1 .. Len(fr) - 1
      BY <3>1 DEF StackOK, Buffers
    <3>3. /\ ac[k].jb \in 1 .. Len(fr) /\ ac[k].jb + 1 \in 1 .. Len(fr)
          /\ ac[k].jb \in 1 .. Len(gr) - 1
      <4>1. Len(gr) = Len(fr) + 1 /\ Len(fr) \in Nat
        BY <1>1
      <4> QED BY <3>2, <4>1
    <3>4. gr[ac[k].jb] = fr[ac[k].jb] /\ gr[ac[k].jb + 1] = fr[ac[k].jb + 1]
      BY <3>3, <1>1
    <3>5. /\ fr[ac[k].jb].kind \in Loops /\ fr[ac[k].jb].n = k - 1
          /\ fr[ac[k].jb + 1].kind = "ovl" /\ fr[ac[k].jb + 1].n = k
      BY <3>1 DEF StackOK, Buffers
    <3> QED BY <3>1, <3>3, <3>4, <3>5
  <2> QED BY <2>1, <2>2
<1>7. Len(bc) <= MaxAct
  BY <1>2, SizeAssumption
<1>8. StackOK(gr, bc)
  BY <1>1, <1>2, <1>4, <1>5, <1>6, <1>7 DEF StackOK
<1> QED BY <1>8 DEF gr, bc

(* Cutting the stack back to a frame keeps it in order with the functions  *)
(* active in that frame.                                                   *)
LEMMA CutOK ==
    ASSUME NEW fr, NEW ac, StackOK(fr, ac), NEW m \in 1 .. Len(fr)
    PROVE  StackOK(SubSeq(fr, 1, m), SubSeq(ac, 1, fr[m].n))
<1> DEFINE gr == SubSeq(fr, 1, m)
           bc == SubSeq(ac, 1, fr[m].n)
<1>1. /\ gr \in Seq(Frame) /\ Len(gr) = m /\ Len(fr) \in Nat \ {0} /\ m \in Nat \ {0}
      /\ \A i \in 1 .. m : gr[i] = fr[i]
  BY DEF StackOK
<1>2. fr[m].n \in Nat /\ fr[m].n <= Len(ac) /\ Len(ac) \in Nat
  BY Levels
<1>3. /\ bc \in Seq(Act) /\ Len(bc) = fr[m].n
      /\ \A i \in 1 .. fr[m].n : bc[i] = ac[i]
  BY <1>2 DEF StackOK
<1> HIDE DEF gr, bc
<1>4. Counts(gr)
  <2>1. Steps(gr)
    <3> SUFFICES ASSUME NEW i \in 2 .. m
                 PROVE  gr[i].n = IF gr[i].kind = "ovl" THEN gr[i - 1].n + 1 ELSE gr[i - 1].n
      BY <1>1 DEF Steps
    <3>1. i \in 2 .. Len(fr) /\ i \in 1 .. m /\ i - 1 \in 1 .. m
      BY <1>1
    <3> QED BY <3>1, <1>1 DEF StackOK, Counts, Steps
  <2>2. Order(gr)
    <3>1. Order(fr)
      BY DEF StackOK, Counts
    <3>2. Len(gr) = m /\ \A i \in 1 .. m : i \in 1 .. Len(fr) /\ gr[i] = fr[i]
      BY <1>1
    <3> QED BY <3>1, <3>2 DEF Order
  <2>3. gr[1] = fr[1]
    BY <1>1
  <2>4. fr[1].n = 0 /\ fr[1].kind = "main"
    BY DEF StackOK, Counts
  <2> QED BY <2>1, <2>2, <2>3, <2>4 DEF Counts
<1>5. Targets(gr)
  BY <1>1 DEF StackOK, Targets
<1>6. Buffers(gr, bc)
  <2>1. ASSUME NEW k \in 1 .. fr[m].n
        PROVE  ac[k].jb \in 1 .. m - 1
    <3>1. /\ ac[k].jb \in 1 .. Len(fr) - 1 /\ fr[ac[k].jb].n = k - 1
      BY <1>2 DEF StackOK, Buffers
    <3>2. \A i, j \in 1 .. Len(fr) : i < j => fr[i].n <= fr[j].n
      BY DEF StackOK, Counts, Order
    <3>3. CASE ac[k].jb >= m
      <4>1. fr[m].n <= k - 1
        <5>1. CASE ac[k].jb = m
          BY <3>1, <5>1, <1>2
        <5>2. CASE ac[k].jb # m
          <6>1. ac[k].jb \in 1 .. Len(fr) /\ m < ac[k].jb
            BY <3>1, <3>3, <5>2, <1>1
          <6> QED BY <3>1, <3>2, <6>1
        <5> QED BY <5>1, <5>2
      <4> QED BY <4>1, <1>2
    <3> QED BY <3>1, <3>3, <1>1
  <2>2. ASSUME NEW k \in 1 .. fr[m].n
        PROVE  /\ bc[k].jb \in 1 .. m - 1
               /\ gr[bc[k].jb].kind \in Loops /\ gr[bc[k].jb].n = k - 1
               /\ gr[bc[k].jb + 1].kind = "ovl" /\ gr[bc[k].jb + 1].n = k
    <3>1. bc[k] = ac[k] /\ k \in 1 .. Len(ac)
      BY <1>2, <1>3
    <3>2. ac[k].jb \in 1 .. m /\ ac[k].jb + 1 \in 1 .. m
      BY <2>1, <1>1
    <3>3. gr[ac[k].jb] = fr[ac[k].jb] /\ gr[ac[k].jb + 1] = fr[ac[k].jb + 1]
      BY <3>2, <1>1
    <3>4. /\ fr[ac[k].jb].kind \in Loops /\ fr[ac[k].jb].n = k - 1
          /\ fr[ac[k].jb + 1].kind = "ovl" /\ fr[ac[k].jb + 1].n = k
      BY <3>1 DEF StackOK, Buffers
    <3> QED BY <2>1, <3>1, <3>3, <3>4
  <2> QED BY <2>2, <1>1, <1>3 DEF Buffers
<1>7. Len(bc) <= MaxAct
  BY <1>2, <1>3, SizeAssumption DEF StackOK
<1>8. StackOK(gr, bc)
  BY <1>1, <1>3, <1>4, <1>5, <1>6, <1>7 DEF StackOK
<1> QED BY <1>8 DEF gr, bc

(* Returning from a native function.                                       *)
LEMMA PopOK ==
    ASSUME StackOK(frames, act), InNative
    PROVE  /\ Len(frames) - 1 \in 1 .. Len(frames)
           /\ Top.kind = "ovl" => Len(act) >= 1 /\ StackOK(Below, SubSeq(act, 1, Len(act) - 1))
           /\ Top.kind # "ovl" => StackOK(Below, act)
<1>1. Len(frames) \in Nat /\ Len(act) \in Nat /\ Len(frames) >= 1
  BY Levels DEF StackOK
<1>2. Len(frames) # 1
  BY DEF StackOK, Counts, InNative, Top, Natives
<1> DEFINE l == Len(frames)
<1>a. l \in Nat /\ l >= 1 /\ l # 1
  BY <1>1, <1>2
<1> HIDE DEF l
<1>b. l - 1 \in 1 .. l /\ l \in 2 .. l
  BY <1>a
<1>3. Len(frames) - 1 \in 1 .. Len(frames) /\ Len(frames) \in 2 .. Len(frames)
  BY <1>b DEF l
<1>4. /\ frames[Len(frames)].n = Len(act)
      /\ frames[Len(frames)].n = IF frames[Len(frames)].kind = "ovl"
                                 THEN frames[Len(frames) - 1].n + 1
                                 ELSE frames[Len(frames) - 1].n
  BY <1>3 DEF StackOK, Counts, Steps
<1>5. frames[Len(frames) - 1].n \in Nat
  BY <1>3, Levels
<1>6. StackOK(Below, SubSeq(act, 1, frames[Len(frames) - 1].n))
  BY <1>3, CutOK DEF Below
<1>7. SubSeq(act, 1, Len(act)) = act
  BY SubSeqFull DEF StackOK
<1>8. CASE Top.kind = "ovl"
  <2>1. frames[Len(frames) - 1].n = Len(act) - 1 /\ Len(act) >= 1
    BY <1>8, <1>4, <1>5, <1>1 DEF Top
  <2> QED BY <2>1, <1>6, <1>3, <1>8
<1>9. CASE Top.kind # "ovl"
  <2>1. frames[Len(frames) - 1].n = Len(act)
    BY <1>9, <1>4 DEF Top
  <2> QED BY <2>1, <1>6, <1>7, <1>3, <1>9
<1> QED BY <1>8, <1>9

(* The other loops end: their frame goes, no function is left.             *)
LEMMA LoopPopOK ==
    ASSUME StackOK(frames, act), Top.kind \in {"until", "int"}
    PROVE  StackOK(Below, act)
<1>1. Len(frames) \in Nat /\ Len(act) \in Nat /\ Len(frames) >= 1
  BY Levels DEF StackOK
<1>2. Len(frames) # 1
  BY DEF StackOK, Counts, Top
<1> DEFINE l == Len(frames)
<1>a. l \in Nat /\ l >= 1 /\ l # 1
  BY <1>1, <1>2
<1> HIDE DEF l
<1>b. l - 1 \in 1 .. l /\ l \in 2 .. l
  BY <1>a
<1>3. Len(frames) - 1 \in 1 .. Len(frames) /\ Len(frames) \in 2 .. Len(frames)
  BY <1>b DEF l
<1>4. frames[Len(frames) - 1].n = Len(act)
  BY <1>3 DEF StackOK, Counts, Steps, Top
<1>5. StackOK(Below, SubSeq(act, 1, frames[Len(frames) - 1].n))
  BY <1>3, CutOK DEF Below
<1>6. SubSeq(act, 1, Len(act)) = act
  BY SubSeqFull DEF StackOK
<1> QED BY <1>4, <1>5, <1>6

(* The longjmp of a bail: its target is a frame of the stack, and the      *)
(* functions active there are those below the one it stood in for.         *)
LEMMA JumpOK ==
    ASSUME StackOK(frames, act), Top.kind = "bail"
    PROVE  /\ Top.of \in 1 .. Len(act)
           /\ StackOK(SubSeq(frames, 1, act[Top.of].jb), SubSeq(act, 1, Top.of - 1))
<1>1. Len(frames) \in Nat /\ Len(act) \in Nat /\ Len(frames) \in 1 .. Len(frames)
  BY Levels DEF StackOK
<1>2. Top.of \in 1 .. Len(act)
  BY <1>1 DEF StackOK, Targets, Top
<1>3. act[Top.of].jb \in 1 .. Len(frames) - 1 /\ frames[act[Top.of].jb].n = Top.of - 1
  BY <1>2 DEF StackOK, Buffers
<1>4. act[Top.of].jb \in 1 .. Len(frames)
  BY <1>1, <1>3
<1>5. StackOK(SubSeq(frames, 1, act[Top.of].jb), SubSeq(act, 1, frames[act[Top.of].jb].n))
  BY <1>4, CutOK
<1> QED BY <1>2, <1>3, <1>5

----------------------------------------------------------------------------
(* Types of the operators.                                                 *)

(* A set of naturals that is not empty has a least element.                *)
LEMMA Smallest ==
    ASSUME NEW T, T \subseteq Nat, T # {}
    PROVE  \E x \in T : \A y \in T : x <= y
<1>1. \E x \in T : \A y \in T : ~(<<y, x>> \in OpToRel(<, Nat))
  BY NatLessThanWellFounded, WFMin
<1>2. PICK x \in T : \A y \in T : ~(<<y, x>> \in OpToRel(<, Nat))
  BY <1>1
<1>3. ASSUME NEW y \in T PROVE x <= y
  <2>1. ~(<<y, x>> \in OpToRel(<, Nat))
    BY <1>2
  <2>2. x \in Nat /\ y \in Nat
    OBVIOUS
  <2>3. ~(y < x)
    BY <2>1, <2>2 DEF OpToRel
  <2> QED BY <2>2, <2>3
<1> QED BY <1>3

(* A bounded set of naturals that is not empty has a greatest element.     *)
LEMMA Largest ==
    ASSUME NEW M \in Nat, NEW T, T \subseteq 0 .. M, T # {}
    PROVE  \E x \in T : \A y \in T : x >= y
<1> DEFINE U == {M - x : x \in T}
<1>1. U \subseteq Nat /\ U # {}
  <2>1. \A x \in T : M - x \in Nat
    OBVIOUS
  <2> QED BY <2>1
<1>2. PICK u \in U : \A v \in U : u <= v
  BY <1>1, Smallest
<1>3. PICK x \in T : u = M - x
  OBVIOUS
<1>4. ASSUME NEW y \in T PROVE x >= y
  <2>1. M - y \in U /\ x \in 0 .. M /\ y \in 0 .. M
    OBVIOUS
  <2>2. M - x <= M - y
    BY <2>1, <1>2, <1>3
  <2> QED BY <2>1, <2>2
<1> QED BY <1>4

(* The bounds of a compiled function's bytes (the generated table).        *)
LEMMA TableTypes ==
    ASSUME NEW k \in Ovl
    PROVE  /\ Lo[k] \in Nat /\ Hi[k] \in Nat /\ Lo[k] <= Hi[k]
           /\ Lo[k] \in 0 .. WramSize - 1 /\ Hi[k] \in 0 .. WramSize - 1
BY TableAssumption, SizeAssumption DEF Offsets

(* overlay_enter sets the watch to a range again.                          *)
LEMMA WatchingType ==
    ASSUME NEW r \in WatchRange, NEW k \in Ovl
    PROVE  Watching(r, k) \in WatchRange
BY TableTypes DEF WatchRange, Watching, Smaller, Larger

(* What TypeOK says of each active function.                               *)
LEMMA ActTypes ==
    ASSUME TypeOK
    PROVE  /\ Len(act) \in Nat /\ DOMAIN act = 1 .. Len(act)
           /\ \A k \in 1 .. Len(act) :
                 act[k] \in Act /\ act[k].f \in Ovl /\ act[k].saved \in WatchRange
<1>1. Len(act) \in Nat /\ DOMAIN act = 1 .. Len(act) /\ \A k \in 1 .. Len(act) : act[k] \in Act
  BY DEF TypeOK
<1> QED BY <1>1 DEF Act

(* rewatch sets the watch to a range, empty or not.                        *)
LEMMA RewatchType ==
    ASSUME TypeOK
    PROVE  Rewatch \in WatchRange
<1>1. Awake \subseteq Ovl
  BY ActTypes DEF Awake
<1>2. CASE Awake = {}
  BY <1>2 DEF Rewatch, NoWatch, WatchRange
<1>3. CASE Awake # {}
  <2> DEFINE L == {Lo[k] : k \in Awake}
             H == {Hi[k] : k \in Awake}
  <2>1. L \subseteq Nat /\ L # {} /\ H \subseteq 0 .. WramSize - 1 /\ H # {}
    BY <1>1, <1>3, TableTypes
  <2>2. \E a \in L : \A k \in Awake : a <= Lo[k]
    <3> HIDE DEF L
    <3>1. PICK a \in L : \A b \in L : a <= b
      BY <2>1, Smallest
    <3> QED BY <3>1 DEF L
  <2>3. WramSize - 1 \in Nat
    BY SizeAssumption
  <2>4. \E a \in H : \A k \in Awake : a >= Hi[k]
    <3> HIDE DEF H
    <3>1. PICK a \in H : \A b \in H : a >= b
      BY <2>1, <2>3, Largest
    <3> QED BY <3>1 DEF H
  <2>5. Lowest \in L /\ \A k \in Awake : Lowest <= Lo[k]
    BY <2>2 DEF Lowest
  <2>6. Highest \in H /\ \A k \in Awake : Highest >= Hi[k]
    BY <2>4 DEF Highest
  <2>7. PICK k \in Awake : TRUE
    BY <1>3
  <2>8. Lowest \in Nat /\ Highest \in Nat
    BY <2>1, <2>5, <2>6
  <2>9. Lowest <= Lo[k] /\ Lo[k] <= Hi[k] /\ Hi[k] <= Highest /\ Lo[k] \in Nat /\ Hi[k] \in Nat
    BY <2>5, <2>6, <1>1, TableTypes
  <2>10. Highest + 1 - Lowest \in Nat
    BY <2>8, <2>9
  <2>11. Rewatch = [lo |-> Lowest, len |-> Highest + 1 - Lowest]
    BY <1>3 DEF Rewatch
  <2> QED BY <2>8, <2>10, <2>11 DEF WatchRange
<1> QED BY <1>2, <1>3

(* The pages of a function are finitely many, and pages of WRAM.           *)
LEMMA PagesFinite ==
    ASSUME NEW k \in Ovl
    PROVE  IsFiniteSet(PagesOf(k)) /\ PagesOf(k) \subseteq Pages
<1> DEFINE D == Lo[k] .. Hi[k]
           f == [a \in D |-> a \div PageSize]
<1>1. IsFiniteSet(D)
  <2>1. Lo[k] \in Int /\ Hi[k] \in Int
    BY TableTypes
  <2> QED BY <2>1, FS_Interval, Zenon
<1>2. f \in Surjection(D, PagesOf(k))
  BY DEF Surjection, PagesOf
<1>3. IsFiniteSet(PagesOf(k))
  BY <1>1, <1>2, FS_Surjection
<1>4. D \subseteq Offsets
  BY TableTypes, SizeAssumption DEF Offsets
<1> QED BY <1>3, <1>4 DEF PagesOf, Pages

(* The sum of the page counters is a number (page_gens).                   *)
LEMMA CountedFinite ==
    ASSUME NEW k \in Ovl
    PROVE  IsFiniteSet(Counted(k)) /\ PageGens(k) \in Nat
<1>1. IsFiniteSet(1 .. GenMod)
  BY FS_Interval, SizeAssumption
<1>2. IsFiniteSet(PagesOf(k) \X (1 .. GenMod))
  BY <1>1, PagesFinite, FS_Product
<1>3. IsFiniteSet(Counted(k))
  BY <1>2, FS_Subset DEF Counted
<1> QED BY <1>3, FS_CardinalityType DEF PageGens

(* valid() leaves a cache entry of the right type.                         *)
LEMMA CheckedType ==
    ASSUME TypeOK
    PROVE  /\ \A k \in Ovl : Checked(k) \in Entry
           /\ \A Ks : AfterChecks(Ks) \in [Ovl -> Entry]
<1>1. ASSUME NEW k \in Ovl PROVE Checked(k) \in Entry
  <2>1. PageGens(k) \in Nat
    BY CountedFinite
  <2>2. cache[k] \in Entry
    BY DEF TypeOK
  <2>3. Matches(k) \in BOOLEAN
    BY DEF Matches
  <2> QED BY <2>1, <2>2, <2>3 DEF Checked, Entry
<1>2. \A k \in Ovl : cache[k] \in Entry
  BY DEF TypeOK
<1> QED BY <1>1, <1>2 DEF AfterChecks

(* wram_store keeps the types of what it writes.                           *)
LEMMA StoreType ==
    ASSUME TypeOK, NEW a \in Offsets, NEW v \in Bytes, WramStore(a, v)
    PROVE  /\ wram' \in [Offsets -> Bytes] /\ gen' \in [Pages -> 0 .. GenMod - 1]
           /\ writes' \in 0 .. MaxWrites /\ hit' \in BOOLEAN
<1>1. \A n \in Nat : (n + 1) % GenMod \in 0 .. GenMod - 1
  BY SizeAssumption
<1>2. \A p \in Pages : (gen[p] + 1) % GenMod \in 0 .. GenMod - 1
  <2>1. \A p \in Pages : gen[p] \in Nat
    BY SizeAssumption DEF TypeOK
  <2> QED BY <1>1, <2>1
<1>3. gen' \in [Pages -> 0 .. GenMod - 1]
  BY <1>2 DEF TypeOK, WramStore
<1>4. wram' \in [Offsets -> Bytes]
  BY DEF TypeOK, WramStore
<1>5. writes' \in 0 .. MaxWrites
  BY SizeAssumption DEF TypeOK, WramStore
<1>6. hit' \in BOOLEAN
  BY DEF WramStore
<1> QED BY <1>3, <1>4, <1>5, <1>6

(* Loop builds a frame with the fields it is given.                        *)
LEMMA LoopType ==
    ASSUME NEW kind \in Loops \union Natives, NEW n \in Nat, NEW s \in Int
    PROVE  Loop(kind, n, s) \in Frame /\ Loop(kind, n, s).kind = kind /\ Loop(kind, n, s).n = n
BY DEF Loop, Frame

(* What leaving the innermost native function makes of the stack and the   *)
(* types of the overlay state.                                             *)
LEMMA LeftOK ==
    ASSUME TypeOK, StackInv, InNative, Left
    PROVE  StackOK(Below, act') /\ watch' \in WatchRange
<1>1. StackOK(frames, act)
  BY DEF StackInv
<1>2. CASE Top.kind = "ovl"
  <2>1. act' = SubSeq(act, 1, Len(act) - 1) /\ watch' = act[Len(act)].saved
    BY <1>2 DEF Left, Leave
  <2>2. Len(act) \in 1 .. Len(act)
    BY <1>1, <1>2, PopOK, ActTypes
  <2> QED BY <1>1, <1>2, <2>1, <2>2, PopOK, ActTypes
<1>3. CASE Top.kind # "ovl"
  BY <1>1, <1>3, PopOK DEF Left, TypeOK
<1> QED BY <1>2, <1>3

(* The stack of a machine just started or reset.                           *)
LEMMA StartOK == StackOK(<<Main>>, <<>>)
<1> DEFINE fr == <<Main>>
<1>1. Main \in Frame /\ Main.n = 0 /\ Main.kind = "main"
  BY LoopType DEF Main, Loops
<1>2. fr \in Seq(Frame) /\ Len(fr) = 1 /\ fr[1] = Main
  BY <1>1
<1>3. <<>> \in Seq(Act) /\ Len(<<>>) = 0
  OBVIOUS
<1> HIDE DEF fr
<1>4. Counts(fr) /\ Targets(fr)
  BY <1>1, <1>2 DEF Counts, Steps, Order, Targets
<1>5. Buffers(fr, <<>>)
  BY <1>3 DEF Buffers
<1>6. StackOK(fr, <<>>)
  BY <1>1, <1>2, <1>3, <1>4, <1>5, SizeAssumption DEF StackOK
<1> QED BY <1>6 DEF fr

(* Stale names active functions.                                           *)
LEMMA OutermostType ==
    ASSUME TypeOK, Stale # {}
    PROVE  Outermost \in Stale /\ Outermost \in 1 .. Len(act)
BY ActTypes DEF Outermost, Stale, Tested

(* Every step keeps the types and the shape of the C stack.                *)
LEMMA TypeStackStep ==
    ASSUME TypeOK, StackInv, [Next]_vars
    PROVE  TypeOK' /\ StackInv'
<1> USE DEF NoStore
<1>0. /\ StackOK(frames, act) /\ Len(act) \in Nat /\ S \in Int /\ Len(frames) \in Nat
      /\ S \in 0 .. MaxS /\ MaxS \in Nat
  BY ActTypes, Levels, SizeAssumption DEF StackInv, TypeOK
<1>1. ASSUME NEW at \in Addresses, Interpret(at)
      PROVE  TypeOK' /\ StackInv'
  <2>1. UNCHANGED <<watch, act, frames, pc, strict>> /\ cache' \in [Ovl -> Entry] /\ pc = "run"
    BY <1>1, CheckedType DEF Interpret, InLoop
  <2>2. StackInv'
    BY <2>1 DEF StackInv, InNative, Top
  <2>3. CASE S' \in 0 .. MaxS /\ NoStore /\ UNCHANGED <<int_depth, open>>
    BY <2>1, <2>2, <2>3 DEF TypeOK
  <2>4. CASE (\E a \in Offsets, v \in Bytes : WramStore(a, v)) /\ UNCHANGED <<S, int_depth, open>>
    <3>1. PICK a \in Offsets, v \in Bytes : WramStore(a, v)
      BY <2>4
    <3> QED BY <2>1, <2>2, <2>4, <3>1, StoreType DEF TypeOK
  <2>5. CASE /\ open > 0 /\ open' = open - 1 /\ int_depth' = int_depth - 1
             /\ S < MaxS /\ S' = S + 1 /\ NoStore
    BY <2>1, <2>2, <2>5, SizeAssumption DEF TypeOK
  <2> QED BY <1>1, <2>3, <2>4, <2>5 DEF Interpret
<1>2. CASE InterpretInterrupt
  BY <1>2, <1>0, SizeAssumption DEF InterpretInterrupt, InLoop, TypeOK, StackInv, InNative, Top
<1>3. ASSUME NEW at \in Addresses, DispatchOverlay(at)
      PROVE  TypeOK' /\ StackInv'
  <2>1. PICK k \in Found(at) :
          IF Len(act) = MaxAct
          THEN pc' = "fatal" /\ UNCHANGED <<act, watch, frames>>
          ELSE /\ act' = Append(act, [f |-> k, s0 |-> S, dormant |-> FALSE,
                                      saved |-> watch, jb |-> Len(frames)])
               /\ watch' = Watching(watch, k)
               /\ frames' = Push(Loop("ovl", Len(act) + 1, S))
               /\ UNCHANGED pc
    BY <1>3 DEF DispatchOverlay
  <2>2. cache' \in [Ovl -> Entry] /\ pc = "run" /\ ~InNative /\ k \in Ovl
    BY <1>3, CheckedType DEF DispatchOverlay, InLoop, Found, Tried, At
  <2>3. CASE Len(act) = MaxAct
    BY <1>3, <2>1, <2>2, <2>3 DEF DispatchOverlay, TypeOK, StackInv
  <2>4. CASE Len(act) # MaxAct
    <3> DEFINE g == Loop("ovl", Len(act) + 1, S)
               a == [f |-> k, s0 |-> S, dormant |-> FALSE, saved |-> watch, jb |-> Len(frames)]
    <3>1. g \in Frame /\ g.kind = "ovl" /\ g.n = Len(act) + 1
      <4>1. Len(act) + 1 \in Nat /\ "ovl" \in Loops \union Natives
        BY <1>0 DEF Natives
      <4> QED BY <1>0, <4>1, LoopType
    <3>2. a \in Act /\ a.jb = Len(frames)
      BY <1>0, <2>2 DEF Act, TypeOK
    <3>3. Len(act) < MaxAct
      BY <1>0, <2>4, SizeAssumption DEF TypeOK
    <3>4. frames[Len(frames)].kind \in Loops
      <4>1. Len(frames) \in 1 .. Len(frames)
        BY <1>0 DEF StackOK
      <4>2. frames[Len(frames)] \in Frame
        BY <4>1, <1>0, Levels
      <4> QED BY <4>2, <2>2 DEF InNative, Top, Frame
    <3>5. frames' = Append(frames, g) /\ act' = Append(act, a)
      BY <2>1, <2>4 DEF Push
    <3> HIDE DEF g, a
    <3>6. StackOK(frames', act')
      BY <1>0, <3>1, <3>2, <3>3, <3>4, <3>5, EnterOK
    <3>7. watch' \in WatchRange /\ pc' = "run"
      BY <2>1, <2>2, <2>4, WatchingType DEF TypeOK
    <3> QED BY <1>3, <2>2, <3>6, <3>7 DEF DispatchOverlay, TypeOK, StackInv, StackOK
  <2> QED BY <2>3, <2>4
<1>4. CASE DispatchRom
  <2> DEFINE g == Loop("rom", Len(act), S)
  <2>1. g \in Frame /\ g.kind = "rom" /\ g.n = Len(act)
    BY <1>0, LoopType DEF Natives
  <2>2. frames' = Append(frames, g) /\ act' = act /\ pc' = "run"
    BY <1>4 DEF DispatchRom, Push, InLoop
  <2> HIDE DEF g
  <2>3. StackOK(frames', act')
    BY <1>0, <2>1, <2>2, PushOK
  <2> QED BY <1>4, <2>2, <2>3 DEF DispatchRom, TypeOK, StackInv, StackOK
<1>5. CASE UntilDone
  <2>1. StackOK(frames', act') /\ pc' = "run"
    BY <1>5, <1>0, LoopPopOK DEF UntilDone
  <2> QED BY <1>5, <2>1 DEF UntilDone, TypeOK, StackInv, StackOK
<1>6. CASE IntDone
  <2>1. CASE S = Top.s
    <3>1. StackOK(frames', act') /\ pc' = "run"
      BY <1>6, <2>1, <1>0, LoopPopOK DEF IntDone
    <3> QED BY <1>6, <3>1 DEF IntDone, TypeOK, StackInv, StackOK
  <2>2. CASE S # Top.s
    BY <1>6, <2>2 DEF IntDone, TypeOK, StackInv
  <2> QED BY <2>1, <2>2
<1>7. CASE BailDone
  <2>1. StackOK(frames', act') /\ pc' = "run"
    BY <1>7, <1>0, JumpOK DEF BailDone, Leave
  <2>2. watch' \in WatchRange
    BY <1>7, <1>0, JumpOK, ActTypes DEF BailDone, Leave
  <2> QED BY <1>7, <2>1, <2>2 DEF BailDone, TypeOK, StackInv, StackOK
<1>8. CASE TickInterrupt
  <2> DEFINE g == [Loop("int", Len(act), S) EXCEPT !.depth = int_depth, !.open = open]
  <2>1. g \in Frame /\ g.kind = "int" /\ g.n = Len(act)
    <3>1. int_depth \in Int /\ open \in Nat
      BY SizeAssumption DEF TypeOK
    <3> QED BY <1>0, <3>1 DEF Frame, Loop, Loops
  <2>2. frames' = Append(frames, g) /\ act' = act /\ pc' = "run"
    BY <1>8 DEF TickInterrupt, Push
  <2> HIDE DEF g
  <2>3. StackOK(frames', act')
    BY <1>0, <2>1, <2>2, PushOK
  <2>4. S' \in 0 .. MaxS /\ open' \in 0 .. MaxDepth /\ int_depth' \in Int
    <3>1. /\ S > 0 /\ S' = S - 1 /\ open < MaxDepth /\ open' = open + 1
          /\ int_depth' = int_depth + 1
      BY <1>8 DEF TickInterrupt
    <3>2. open \in 0 .. MaxDepth /\ int_depth \in Int /\ MaxDepth \in Nat
      BY SizeAssumption DEF TypeOK
    <3> QED BY <3>1, <3>2, <1>0
  <2> QED BY <1>8, <2>2, <2>3, <2>4 DEF TickInterrupt, TypeOK, StackInv, StackOK
<1>9. ASSUME NEW op \in {"insn", "rti"}, Tick(op)
      PROVE  TypeOK' /\ StackInv'
  <2>1. hit' = FALSE /\ cache' \in [Ovl -> Entry] /\ int_depth' \in Int
    BY <1>9, CheckedType DEF Tick, HitChecked, TypeOK
  <2>2. CASE pc' = op /\ UNCHANGED frames
    BY <1>9, <2>1, <2>2 DEF Tick, TypeOK, StackInv, InNative, Top
  <2>3. CASE pc' = "fatal" /\ UNCHANGED frames
    BY <1>9, <2>1, <2>3 DEF Tick, TypeOK, StackInv, InNative, Top
  <2>4. CASE /\ hit /\ Stale # {} /\ ~strict
             /\ frames' = Push([Loop("bail", Len(act), 0) EXCEPT !.of = Outermost])
             /\ UNCHANGED pc
    <3> DEFINE g == [Loop("bail", Len(act), 0) EXCEPT !.of = Outermost]
    <3>1. g \in Frame /\ g.kind = "bail" /\ g.n = Len(act) /\ g.of \in 1 .. g.n
      <4>1. Outermost \in 1 .. Len(act)
        BY <2>4, OutermostType
      <4> QED BY <1>0, <4>1 DEF Frame, Loop, Loops
    <3>2. frames' = Append(frames, g) /\ act' = act /\ pc' = "run"
      BY <1>9, <2>4 DEF Tick, Push
    <3> HIDE DEF g
    <3>3. StackOK(frames', act')
      BY <1>0, <3>1, <3>2, PushOK
    <3> QED BY <1>9, <2>1, <3>2, <3>3 DEF Tick, TypeOK, StackInv, StackOK
  <2> QED BY <1>9, <2>2, <2>3, <2>4 DEF Tick
<1>10. CASE NativeWrite
  <2>1. PICK a \in Offsets, v \in Bytes : WramStore(a, v)
    BY <1>10 DEF NativeWrite
  <2> QED BY <1>10, <2>1, StoreType DEF NativeWrite, TypeOK, StackInv, InNative, Top
<1>11. CASE NativeInsn
  BY <1>11 DEF NativeInsn, TypeOK, StackInv, InNative, Top
<1>12. CASE NativeCall
  <2> DEFINE g == Loop("until", Len(act), S)
  <2>1. g \in Frame /\ g.kind = "until" /\ g.n = Len(act)
    BY <1>0, LoopType DEF Loops
  <2>2. frames' = Append(frames, g) /\ act' = act /\ pc' = "run"
    BY <1>12 DEF NativeCall, Push
  <2> HIDE DEF g
  <2>3. StackOK(frames', act')
    BY <1>0, <2>1, <2>2, PushOK
  <2>4. S' \in 0 .. MaxS
    BY <1>12, <1>0 DEF NativeCall
  <2> QED BY <1>12, <2>2, <2>3, <2>4 DEF NativeCall, TypeOK, StackInv, StackOK
<1>13. CASE NativeCallRom
  <2> DEFINE g == Loop("rom", Len(act), S - 1)
  <2>1. g \in Frame /\ g.kind = "rom" /\ g.n = Len(act)
    <3>1. S - 1 \in Int /\ "rom" \in Loops \union Natives
      BY <1>0 DEF Natives
    <3> QED BY <1>0, <3>1, LoopType
  <2>2. frames' = Append(frames, g) /\ act' = act /\ pc' = "run"
    BY <1>13 DEF NativeCallRom, Push
  <2> HIDE DEF g
  <2>3. StackOK(frames', act')
    BY <1>0, <2>1, <2>2, PushOK
  <2>4. S' \in 0 .. MaxS
    BY <1>13, <1>0 DEF NativeCallRom
  <2> QED BY <1>13, <2>2, <2>3, <2>4 DEF NativeCallRom, TypeOK, StackInv, StackOK
<1>14. CASE NativeReturn
  <2>1. StackOK(frames', act') /\ watch' \in WatchRange /\ pc' = "run"
    BY <1>14, LeftOK DEF NativeReturn, StackInv
  <2>2. S' \in 0 .. MaxS
    BY <1>14, <1>0 DEF NativeReturn
  <2> QED BY <1>14, <2>1, <2>2 DEF NativeReturn, TypeOK, StackInv, StackOK
<1>15. CASE NativeRti
  <2>1. StackOK(frames', act') /\ watch' \in WatchRange /\ pc' = "run"
    BY <1>15, LeftOK DEF NativeRti, StackInv
  <2>2. S' \in 0 .. MaxS /\ open' \in 0 .. MaxDepth
    BY <1>15, <1>0, SizeAssumption DEF NativeRti, TypeOK
  <2> QED BY <1>15, <2>1, <2>2 DEF NativeRti, TypeOK, StackInv, StackOK
<1>16. CASE NativeTail
  <2>1. StackOK(Below, act') /\ watch' \in WatchRange /\ pc' = "run"
    BY <1>16, LeftOK DEF NativeTail, StackInv
  <2> DEFINE g == Loop("rom", Len(act'), S)
  <2>2. g \in Frame /\ g.kind = "rom" /\ g.n = Len(act')
    BY <1>0, <2>1, LoopType, Levels DEF Natives
  <2>3. frames' = Append(Below, g)
    BY <1>16 DEF NativeTail
  <2> HIDE DEF g
  <2>4. StackOK(frames', act')
    BY <2>1, <2>2, <2>3, PushOK
  <2> QED BY <1>16, <2>1, <2>4 DEF NativeTail, TypeOK, StackInv, StackOK
<1>17. CASE NativeTailRest
  <2>1. StackOK(Below, act) /\ pc' = "run" /\ act' = act
    BY <1>17, <1>0, PopOK DEF NativeTailRest, StackInv
  <2> DEFINE g == Loop("until", Len(act), Top.s + 1)
  <2>2. g \in Frame /\ g.kind = "until" /\ g.n = Len(act)
    <3>1. Len(frames) \in 1 .. Len(frames)
      BY <1>0 DEF StackOK
    <3>2. Top \in Frame
      BY <3>1, <1>0, Levels DEF Top
    <3>3. Top.s + 1 \in Int
      BY <3>2 DEF Frame
    <3> QED BY <1>0, <3>3, LoopType DEF Loops
  <2>3. frames' = Below \/ frames' = Append(Below, g)
    BY <1>17 DEF NativeTailRest
  <2> HIDE DEF g
  <2>4. StackOK(frames', act')
    BY <2>1, <2>2, <2>3, PushOK
  <2> QED BY <1>17, <2>1, <2>4 DEF NativeTailRest, TypeOK, StackInv, StackOK
<1>18. CASE OverlayTailRest
  <2>1. Len(act) \in 1 .. Len(act)
    BY <1>18, <1>0, PopOK DEF OverlayTailRest, StackInv
  <2>2. act' = [act EXCEPT ![Len(act)] = [act[Len(act)] EXCEPT !.dormant = TRUE]]
    BY <1>18 DEF OverlayTailRest
  <2>3. [act[Len(act)] EXCEPT !.dormant = TRUE] \in Act
    BY <2>1, ActTypes DEF Act
  <2>4. act' \in Seq(Act) /\ Len(act') = Len(act)
    BY <2>1, <2>2, <2>3 DEF TypeOK
  <2>5. \A k \in 1 .. Len(act) : act'[k].jb = act[k].jb
    <3> TAKE k \in 1 .. Len(act)
    <3>1. act[Len(act)] \in Act
      BY <2>1, ActTypes
    <3>2. [act[Len(act)] EXCEPT !.dormant = TRUE].jb = act[Len(act)].jb
      BY <3>1 DEF Act
    <3>3. DOMAIN act = 1 .. Len(act)
      BY ActTypes
    <3> QED BY <2>1, <2>2, <3>2, <3>3
  <2>6. StackOK(frames', act')
    <3>1. frames' = frames
      BY <1>18 DEF OverlayTailRest
    <3>2. StackOK(frames, act)
      BY DEF StackInv
    <3>3. Buffers(frames, act')
      BY <3>2, <2>4, <2>5 DEF StackOK, Buffers
    <3> QED BY <3>1, <3>2, <3>3, <2>4 DEF StackOK
  <2> QED BY <1>18, <2>6, RewatchType DEF OverlayTailRest, TypeOK, StackInv, StackOK, Top
<1>19. CASE OverlayReturn
  <2>1. StackOK(frames', act') /\ watch' \in WatchRange /\ pc' = "run"
    BY <1>19, LeftOK DEF OverlayReturn, StackInv, InNative, Natives
  <2> QED BY <1>19, <2>1 DEF OverlayReturn, TypeOK, StackInv, StackOK
<1>20. CASE SoftReset
  <2>1. StackOK(<<Main>>, <<>>)
    BY StartOK
  <2>2. StackOK(frames', act') /\ pc' = "run"
    BY <1>20, <2>1 DEF SoftReset
  <2>3. watch' \in WatchRange /\ open' \in 0 .. MaxDepth /\ int_depth' \in Int /\ hit' \in BOOLEAN
    <3>1. 0 \in 0 .. MaxDepth
      BY SizeAssumption
    <3>2. NoWatch \in WatchRange
      BY DEF NoWatch, WatchRange
    <3>3. hit' = FALSE /\ watch' = NoWatch /\ int_depth' = 0 /\ open' = 0
      BY <1>20 DEF SoftReset
    <3>4. hit' \in BOOLEAN
      BY <3>3, Zenon
    <3> QED BY <3>1, <3>2, <3>3, <3>4
  <2> QED BY <1>20, <2>2, <2>3 DEF SoftReset, TypeOK, StackInv, StackOK
<1>21. ASSUME NEW at \in Addresses, OverlayState(at)
       PROVE  TypeOK' /\ StackInv'
  BY <1>21, CheckedType DEF OverlayState, TypeOK, StackInv, InNative, Top
<1>22. CASE UNCHANGED vars
  BY <1>22 DEF vars, TypeOK, StackInv, InNative, Top
<1> QED BY <1>1, <1>2, <1>3, <1>4, <1>5, <1>6, <1>7, <1>8, <1>9, <1>10, <1>11, <1>12,
           <1>13, <1>14, <1>15, <1>16, <1>17, <1>18, <1>19, <1>20, <1>21, <1>22 DEF Next

(* They hold when the program starts.                                      *)
LEMMA TypeStackInit ==
    ASSUME Init
    PROVE  TypeOK /\ StackInv
<1>1. StackOK(frames, act) /\ pc = "run"
  BY StartOK DEF Init
<1>2. /\ watch \in WatchRange /\ cache \in [Ovl -> Entry] /\ S \in 0 .. MaxS
      /\ open \in 0 .. MaxDepth /\ writes \in 0 .. MaxWrites /\ gen \in [Pages -> 0 .. GenMod - 1]
  <2>1. NoWatch \in WatchRange
    BY DEF NoWatch, WatchRange
  <2>2. [checked |-> FALSE, gens |-> 0, valid |-> FALSE] \in Entry
    BY DEF Entry
  <2> QED BY <2>1, <2>2, SizeAssumption DEF Init
<1>3. StackInv
  BY <1>1 DEF StackInv
<1>4. hit \in BOOLEAN /\ strict \in BOOLEAN /\ wram \in [Offsets -> Bytes]
  BY Zenon DEF Init
<1>5. int_depth \in Int
  BY DEF Init
<1>6. TypeOK
  BY <1>1, <1>2, <1>4, <1>5 DEF TypeOK, StackOK
<1> QED BY <1>3, <1>6

(* Every reachable state is well typed, and the C stack agrees with the    *)
(* active functions.                                                       *)
THEOREM TypeCorrect == Spec => [](TypeOK /\ StackInv)
<1>1. Init => TypeOK /\ StackInv
  BY TypeStackInit
<1>2. TypeOK /\ StackInv /\ [Next]_vars => (TypeOK /\ StackInv)'
  BY TypeStackStep
<1> QED BY <1>1, <1>2, PTL DEF Spec

(* The jump buffer of every active function names a frame on the C stack   *)
(* (overlay.h 42-44): the longjmp of overlay_bail is never into a frame    *)
(* that has returned.                                                      *)
THEOREM JumpTargets == Spec => []JumpTargetLive
<1>1. TypeOK /\ StackInv => JumpTargetLive
  <2> SUFFICES ASSUME TypeOK, StackInv, NEW k \in DOMAIN act
               PROVE  /\ act[k].jb < Len(frames)
                      /\ frames[act[k].jb].kind \in Loops
                      /\ frames[act[k].jb + 1].kind = "ovl" /\ frames[act[k].jb + 1].n = k
    BY DEF JumpTargetLive
  <2>1. k \in 1 .. Len(act) /\ StackOK(frames, act) /\ Len(frames) \in Nat
    BY ActTypes, Levels DEF StackInv
  <2>2. /\ act[k].jb \in 1 .. Len(frames) - 1 /\ frames[act[k].jb].kind \in Loops
        /\ frames[act[k].jb + 1].kind = "ovl" /\ frames[act[k].jb + 1].n = k
    BY <2>1 DEF StackOK, Buffers
  <2> QED BY <2>1, <2>2
<1> QED BY <1>1, TypeCorrect, PTL

----------------------------------------------------------------------------
(* The cached checks.                                                      *)

(* One entry of CacheInv.                                                  *)
Sound(e, k) == e.checked => \/ e.gens < PageGens(k)
                            \/ e.gens = PageGens(k) /\ e.valid = Matches(k)

(* Every step checks some entries, and writes one byte of WRAM or none.    *)
LEMMA StepKinds ==
    ASSUME TypeOK, [Next]_vars
    PROVE  /\ \E Ks : cache' = AfterChecks(Ks)
           /\ \/ UNCHANGED <<wram, gen, writes>>
              \/ \E a \in Offsets, v \in Bytes : WramStore(a, v)
<1>1. cache = AfterChecks({})
  BY DEF AfterChecks, TypeOK
<1>2. \/ cache' = cache
      \/ \E Ks : cache' = AfterChecks(Ks)
  BY DEF Next, vars, Interpret, InterpretInterrupt, DispatchOverlay, DispatchRom, UntilDone,
         IntDone, BailDone, TickInterrupt, Tick, HitChecked, NativeWrite, NativeInsn, NativeCall,
         NativeCallRom, NativeReturn, NativeRti, NativeTail, NativeTailRest, OverlayTailRest,
         OverlayReturn, SoftReset, OverlayState
<1>3. \/ UNCHANGED <<wram, gen, writes>>
      \/ \E a \in Offsets, v \in Bytes : WramStore(a, v)
  BY DEF Next, vars, NoStore, Interpret, InterpretInterrupt, DispatchOverlay, DispatchRom,
         UntilDone, IntDone, BailDone, TickInterrupt, Tick, HitChecked, NativeWrite, NativeInsn,
         NativeCall, NativeCallRom, NativeReturn, NativeRti, NativeTail, NativeTailRest,
         OverlayTailRest, OverlayReturn, SoftReset, OverlayState
<1> QED BY <1>1, <1>2, <1>3

(* A write counts once in the sum of every function on its page, and in no *)
(* other.                                                                  *)
LEMMA StoreGens ==
    ASSUME TypeOK, CacheInv, MaxWrites < GenMod, NEW a \in Offsets, NEW v \in Bytes,
           WramStore(a, v)
    PROVE  /\ \A p \in Pages : gen'[p] <= writes'
           /\ \A k \in Ovl : PageGens(k)' = IF a \div PageSize \in PagesOf(k)
                                            THEN PageGens(k) + 1 ELSE PageGens(k)
<1> DEFINE p == a \div PageSize
<1>1. p \in Pages
  BY DEF Pages
<1> HIDE DEF p
<1>2. gen \in [Pages -> Nat] /\ writes \in Nat /\ writes' = writes + 1 /\ writes < MaxWrites
  BY SizeAssumption DEF TypeOK, WramStore
<1>3. gen[p] \in Nat /\ gen[p] + 1 < GenMod /\ gen[p] <= writes
  BY <1>1, <1>2, SizeAssumption DEF CacheInv
<1>4. (gen[p] + 1) % GenMod = gen[p] + 1
  BY <1>3, SizeAssumption
<1>5. gen' = [gen EXCEPT ![p] = gen[p] + 1]
  BY <1>4 DEF WramStore, p
<1>6. \A q \in Pages : gen'[q] <= writes'
  BY <1>2, <1>3, <1>5 DEF CacheInv
<1>7. ASSUME NEW k \in Ovl, p \in PagesOf(k)
      PROVE  PageGens(k)' = PageGens(k) + 1
  <2>1. Counted(k)' = Counted(k) \union {<<p, gen[p] + 1>>}
    <3>1. PagesOf(k) \subseteq Pages
      BY PagesFinite
    <3>2. \A w \in PagesOf(k) \X (1 .. GenMod) :
             w[2] <= gen'[w[1]] <=> w[2] <= gen[w[1]] \/ w = <<p, gen[p] + 1>>
      <4> SUFFICES ASSUME NEW q \in PagesOf(k), NEW m \in 1 .. GenMod
                   PROVE  m <= gen'[q] <=> m <= gen[q] \/ (q = p /\ m = gen[p] + 1)
        OBVIOUS
      <4>1. q \in Pages /\ gen[q] \in Nat
        BY <3>1, <1>2
      <4> QED BY <4>1, <1>2, <1>3, <1>5
    <3>3. <<p, gen[p] + 1>> \in PagesOf(k) \X (1 .. GenMod)
      BY <1>3, <1>7, SizeAssumption
    <3> QED BY <3>2, <3>3 DEF Counted, PagesOf
  <2>2. <<p, gen[p] + 1>> \notin Counted(k)
    BY <1>3 DEF Counted
  <2> QED BY <2>1, <2>2, CountedFinite, FS_AddElement DEF PageGens
<1>8. ASSUME NEW k \in Ovl, p \notin PagesOf(k)
      PROVE  PageGens(k)' = PageGens(k)
  <2>1. PagesOf(k) \subseteq Pages
    BY PagesFinite
  <2>2. \A q \in PagesOf(k) : gen'[q] = gen[q]
    BY <2>1, <1>2, <1>5, <1>8
  <2>3. Counted(k)' = Counted(k)
    BY <2>2 DEF Counted, PagesOf
  <2> QED BY <2>3 DEF PageGens
<1> QED BY <1>6, <1>7, <1>8 DEF p

(* A check leaves a sound entry, and one that says what is in WRAM.        *)
LEMMA CheckedSound ==
    ASSUME TypeOK, CacheInv, NEW k \in Ovl
    PROVE  Sound(Checked(k), k) /\ Checked(k).valid = Matches(k)
<1>1. PageGens(k) \in Nat /\ cache[k] \in Entry
  BY CountedFinite DEF TypeOK
<1>2. Sound(cache[k], k)
  BY DEF CacheInv, Sound
<1> QED BY <1>1, <1>2 DEF Checked, Sound, Entry

(* Every step keeps the cache sound as long as no counter has wrapped.     *)
LEMMA CacheStep ==
    ASSUME TypeOK, CacheInv, MaxWrites < GenMod, [Next]_vars
    PROVE  CacheInv'
<1>1. PICK Ks : cache' = AfterChecks(Ks)
  BY StepKinds
<1>2. ASSUME NEW k \in Ovl
      PROVE  Sound(cache'[k], k) /\ cache'[k] \in Entry
  <2>1. Sound(cache[k], k) /\ cache[k] \in Entry
    BY DEF CacheInv, Sound, TypeOK
  <2> QED BY <2>1, <1>1, CheckedSound, CheckedType DEF AfterChecks
<1>3. CASE UNCHANGED <<wram, gen, writes>>
  <2>1. \A k \in Ovl : PageGens(k)' = PageGens(k) /\ Matches(k)' = Matches(k)
    BY <1>3 DEF PageGens, Counted, PagesOf, Matches
  <2> QED BY <1>2, <1>3, <2>1 DEF CacheInv, Sound
<1>4. CASE \E a \in Offsets, v \in Bytes : WramStore(a, v)
  <2>1. PICK a \in Offsets, v \in Bytes : WramStore(a, v)
    BY <1>4
  <2>2. /\ \A p \in Pages : gen'[p] <= writes'
        /\ \A k \in Ovl : PageGens(k)' = IF a \div PageSize \in PagesOf(k)
                                         THEN PageGens(k) + 1 ELSE PageGens(k)
    BY <2>1, StoreGens
  <2>3. ASSUME NEW k \in Ovl
        PROVE  cache'[k].checked => \/ cache'[k].gens < PageGens(k)'
                                    \/ cache'[k].gens = PageGens(k)' /\ cache'[k].valid = Matches(k)'
    <3>1. PageGens(k) \in Nat /\ cache'[k].gens \in Nat
      BY <1>2, CountedFinite DEF Entry
    <3>2. CASE a \div PageSize \in PagesOf(k)
      BY <1>2, <2>2, <3>1, <3>2 DEF Sound
    <3>3. CASE a \div PageSize \notin PagesOf(k)
      <4>1. a \notin Lo[k] .. Hi[k]
        BY <3>3 DEF PagesOf
      <4>2. \A b \in Lo[k] .. Hi[k] : wram'[b] = wram[b]
        <5>1. Lo[k] .. Hi[k] \subseteq Offsets
          BY TableTypes, SizeAssumption DEF Offsets
        <5> QED BY <2>1, <4>1, <5>1 DEF WramStore, TypeOK
      <4>3. Matches(k)' = Matches(k)
        BY <4>2 DEF Matches
      <4> QED BY <1>2, <2>2, <3>3, <4>3 DEF Sound
    <3> QED BY <3>2, <3>3
  <2> QED BY <2>2, <2>3 DEF CacheInv
<1> QED BY <1>3, <1>4, StepKinds

(* A check made at an unchanged sum of write counters still tells what is  *)
(* in WRAM (overlay.h 4-6), as long as no counter wraps.                   *)
THEOREM CacheTheorem ==
    ASSUME MaxWrites < GenMod
    PROVE  Spec => []CacheSound
<1>1. Init => CacheInv
  BY SizeAssumption DEF Init, CacheInv
<1>2. TypeOK /\ CacheInv /\ [Next]_vars => CacheInv'
  BY CacheStep
<1>3. TypeOK /\ CacheInv => CacheSound
  <2> SUFFICES ASSUME TypeOK, CacheInv, NEW k \in Ovl,
                      cache[k].checked, cache[k].gens = PageGens(k)
               PROVE  cache[k].valid = Matches(k)
    BY DEF CacheSound
  <2>1. PageGens(k) \in Nat
    BY CountedFinite
  <2> QED BY <2>1 DEF CacheInv
<1> QED BY <1>1, <1>2, <1>3, TypeCorrect, PTL DEF Spec

----------------------------------------------------------------------------
(* The watched range.                                                      *)

(* The extended range covers the new function and all it covered.          *)
LEMMA CoversWatching ==
    ASSUME NEW r \in WatchRange, NEW k \in Ovl
    PROVE  /\ Covers(Watching(r, k), k)
           /\ \A j \in Ovl : Covers(r, j) => Covers(Watching(r, k), j)
<1>1. r.lo \in Nat /\ r.len \in Nat
  BY DEF WatchRange
<1>2. Covers(Watching(r, k), k)
  BY <1>1, TableTypes DEF Covers, Watching, Smaller, Larger
<1>3. ASSUME NEW j \in Ovl, Covers(r, j)
      PROVE  Covers(Watching(r, k), j)
  BY <1>1, <1>3, TableTypes DEF Covers, Watching, Smaller, Larger
<1> QED BY <1>2, <1>3

(* Leaving the a-th function.                                              *)
LEMMA LeaveWatch ==
    ASSUME TypeOK, WatchInv, NEW a \in 1 .. Len(act), Leave(a), pc' # "ret",
           pc = "ret" => a = Len(act)
    PROVE  WatchInv'
<1>1. Len(act) \in Nat /\ a - 1 \in 0 .. Len(act) /\ act \in Seq(Act)
  BY ActTypes DEF TypeOK
<1>2. /\ Len(act') = a - 1 /\ \A k \in 1 .. a - 1 : act'[k] = act[k]
      /\ watch' = act[a].saved
  BY <1>1 DEF Leave
<1>3. \A k \in 1 .. a - 1 : k \in 1 .. Len(act) /\ k # Len(act) /\ k \in 1 .. a - 1
  BY <1>1
<1>4. \A k \in 1 .. a - 1 : ~act'[k].dormant
  BY <1>2, <1>3 DEF WatchInv
<1>5. \A k \in 1 .. a - 1 : Covers(watch', act'[k].f)
  BY <1>2 DEF WatchInv
<1>6. ASSUME NEW k \in 1 .. a - 1, NEW j \in 1 .. k - 1
      PROVE  Covers(act'[k].saved, act'[j].f)
  <2>1. k \in 1 .. Len(act) /\ j \in 1 .. a - 1
    BY <1>1
  <2> QED BY <2>1, <1>2 DEF WatchInv
<1> QED BY <1>2, <1>4, <1>5, <1>6 DEF WatchInv, Covers

(* Returning from a native function keeps the watch covering.              *)
LEMMA LeftWatch ==
    ASSUME TypeOK, StackInv, WatchInv, InNative, Left, pc' # "ret", pc = "ret" => Top.kind = "ovl"
    PROVE  WatchInv'
<1>1. CASE Top.kind = "ovl"
  <2>1. Len(act) \in 1 .. Len(act)
    BY <1>1, PopOK, ActTypes DEF StackInv
  <2> QED BY <1>1, <2>1, LeaveWatch DEF Left
<1>2. CASE Top.kind # "ovl"
  BY <1>2 DEF Left, WatchInv, Covers
<1> QED BY <1>1, <1>2

(* Every step keeps the watch covering the active functions.               *)
LEMMA WatchStep ==
    ASSUME TypeOK, StackInv, WatchInv, [Next]_vars
    PROVE  WatchInv'
<1>1. CASE UNCHANGED <<act, watch>> /\ pc # "ret" /\ pc' # "ret"
  BY <1>1 DEF WatchInv, Covers
<1>2. ASSUME NEW at \in Addresses, DispatchOverlay(at) PROVE WatchInv'
  <2>1. CASE Len(act) = MaxAct
    BY <1>1, <1>2, <2>1 DEF DispatchOverlay, InLoop
  <2>2. CASE Len(act) # MaxAct
    <3>1. PICK k \in Found(at) :
            /\ act' = Append(act, [f |-> k, s0 |-> S, dormant |-> FALSE,
                                   saved |-> watch, jb |-> Len(frames)])
            /\ watch' = Watching(watch, k) /\ UNCHANGED pc
      BY <1>2, <2>2 DEF DispatchOverlay
    <3>2. k \in Ovl /\ pc = "run" /\ watch \in WatchRange
      BY <1>2 DEF DispatchOverlay, InLoop, Found, Tried, At, TypeOK
    <3> DEFINE l == Len(act)
    <3>3. /\ l \in Nat /\ Len(act') = l + 1 /\ \A j \in 1 .. l : act'[j] = act[j]
          /\ act'[l + 1].f = k /\ act'[l + 1].dormant = FALSE /\ act'[l + 1].saved = watch
      BY <3>1, ActTypes DEF TypeOK
    <3>4. \A j \in 1 .. l : ~act[j].dormant /\ act[j].f \in Ovl /\ Covers(watch, act[j].f)
      BY <3>2, ActTypes DEF WatchInv
    <3> HIDE DEF l
    <3>5. \A j \in 1 .. l + 1 : ~act'[j].dormant /\ Covers(watch', act'[j].f)
      BY <3>1, <3>2, <3>3, <3>4, CoversWatching
    <3>6. ASSUME NEW i \in 1 .. l + 1, NEW j \in 1 .. i - 1
          PROVE  Covers(act'[i].saved, act'[j].f)
      <4>1. j \in 1 .. l
        BY <3>3
      <4>2. CASE i = l + 1
        BY <4>1, <4>2, <3>3, <3>4
      <4>3. CASE i # l + 1
        <5>1. i \in 1 .. Len(act)
          BY <4>3, <3>3 DEF l
        <5> QED BY <5>1, <4>1, <3>3 DEF WatchInv, l
      <4> QED BY <4>2, <4>3
    <3>7. /\ \A j \in 1 .. Len(act') : ~act'[j].dormant /\ Covers(watch', act'[j].f)
          /\ \A i \in 1 .. Len(act') : \A j \in 1 .. i - 1 : Covers(act'[i].saved, act'[j].f)
      BY <3>3, <3>5, <3>6
    <3> QED BY <3>7 DEF WatchInv, Covers
  <2> QED BY <2>1, <2>2
<1>3. CASE BailDone
  <2>1. Top.of \in 1 .. Len(act) /\ Leave(Top.of) /\ pc = "run" /\ pc' = "run"
    BY <1>3, JumpOK DEF BailDone, StackInv
  <2> QED BY <2>1, LeaveWatch
<1>4. CASE NativeReturn \/ NativeRti \/ NativeTail
  <2>1. InNative /\ Left /\ pc' = "run" /\ pc \in {"insn", "rti"}
    BY <1>4 DEF NativeReturn, NativeRti, NativeTail, StackInv
  <2> QED BY <2>1, LeftWatch
<1>5. CASE OverlayTailRest
  <2>1. Len(act) \in 1 .. Len(act) /\ pc = "insn" /\ pc' = "ret"
    BY <1>5, PopOK, ActTypes DEF OverlayTailRest, StackInv
  <2>2. /\ Len(act') = Len(act) /\ Len(act) \in Nat
        /\ \A k \in 1 .. Len(act) : /\ act'[k].f = act[k].f /\ act'[k].saved = act[k].saved
                                    /\ k # Len(act) => act'[k].dormant = act[k].dormant
    <3>1. act' = [act EXCEPT ![Len(act)] = [act[Len(act)] EXCEPT !.dormant = TRUE]]
      BY <1>5 DEF OverlayTailRest
    <3>2. [act[Len(act)] EXCEPT !.dormant = TRUE] \in Act
      BY <2>1, ActTypes DEF Act
    <3>3. Len(act') = Len(act) /\ Len(act) \in Nat
      BY <3>1, <3>2, ActTypes DEF TypeOK
    <3>4. ASSUME NEW k \in 1 .. Len(act)
          PROVE  /\ act'[k].f = act[k].f /\ act'[k].saved = act[k].saved
                 /\ k # Len(act) => act'[k].dormant = act[k].dormant
      <4>1. act[k] \in Act /\ k \in DOMAIN act
        BY ActTypes
      <4> QED BY <3>1, <4>1 DEF Act
    <3> QED BY <3>3, <3>4
  <2>3. \A k \in 1 .. Len(act') : act'[k].dormant => k = Len(act')
    BY <2>1, <2>2 DEF WatchInv
  <2>4. ASSUME NEW k \in 1 .. Len(act'), NEW j \in 1 .. k - 1
        PROVE  Covers(act'[k].saved, act'[j].f)
    <3>1. k \in 1 .. Len(act) /\ j \in 1 .. Len(act)
      BY <2>2
    <3> QED BY <3>1, <2>2 DEF WatchInv
  <2> QED BY <2>1, <2>3, <2>4 DEF WatchInv, Covers
<1>6. CASE OverlayReturn
  <2>1. InNative /\ Left /\ pc' = "run" /\ Top.kind = "ovl"
    BY <1>6 DEF OverlayReturn, StackInv, InNative, Natives
  <2> QED BY <2>1, LeftWatch
<1>7. CASE SoftReset
  <2>1. Len(act') = 0 /\ pc' = "run"
    BY <1>7 DEF SoftReset
  <2> QED BY <2>1 DEF WatchInv
<1>8. CASE UNCHANGED vars
  BY <1>8 DEF vars, WatchInv, Covers
<1>9. ASSUME NEW at \in Addresses, Interpret(at) \/ OverlayState(at) PROVE WatchInv'
  BY <1>1, <1>9 DEF Interpret, OverlayState, InLoop
<1>10. CASE InterpretInterrupt \/ DispatchRom
  BY <1>1, <1>10 DEF InterpretInterrupt, DispatchRom, InLoop
<1>11. CASE UntilDone \/ IntDone
  BY <1>1, <1>11 DEF UntilDone, IntDone
<1>12. CASE TickInterrupt \/ Tick("insn") \/ Tick("rti")
  BY <1>1, <1>12 DEF TickInterrupt, Tick
<1>13. CASE NativeWrite \/ NativeInsn \/ NativeCall \/ NativeCallRom \/ NativeTailRest
  BY <1>1, <1>13 DEF NativeWrite, NativeInsn, NativeCall, NativeCallRom, NativeTailRest
<1> QED BY <1>2, <1>3, <1>4, <1>5, <1>6, <1>7, <1>8, <1>9, <1>10, <1>11, <1>12, <1>13 DEF Next

----------------------------------------------------------------------------
(* The bytes of the functions running.                                     *)

(* A frame pushed that is no bail keeps the exemptions.                    *)
LEMMA ExemptPush ==
    ASSUME NEW fr \in Seq(Frame), NEW g \in Frame, g.kind # "bail", NEW k
    PROVE  Exempt(fr, k) => Exempt(Append(fr, g), k)
<1> DEFINE gr == Append(fr, g)
<1>1. /\ Len(gr) = Len(fr) + 1 /\ Len(fr) \in Nat
      /\ gr[Len(gr)] = g /\ \A i \in 1 .. Len(fr) : gr[i] = fr[i]
  OBVIOUS
<1> HIDE DEF gr
<1>2. ASSUME Exempt(fr, k) PROVE Exempt(gr, k)
  <2>1. PICK i \in 1 .. Len(fr) :
          /\ fr[i].kind = "bail" /\ \A j \in i + 1 .. Len(fr) : fr[j].kind # "bail"
          /\ fr[i].of <= k /\ k <= fr[i].n
    BY <1>2 DEF Exempt
  <2>2. i \in 1 .. Len(gr) /\ gr[i] = fr[i]
    BY <1>1
  <2>3. ASSUME NEW j \in i + 1 .. Len(gr) PROVE gr[j].kind # "bail"
    <3>1. CASE j = Len(gr)
      BY <3>1, <1>1
    <3>2. CASE j # Len(gr)
      <4>1. j \in i + 1 .. Len(fr) /\ j \in 1 .. Len(fr)
        BY <3>2, <1>1
      <4> QED BY <4>1, <2>1, <1>1
    <3> QED BY <3>1, <3>2
  <2> QED BY <2>1, <2>2, <2>3 DEF Exempt
<1> QED BY <1>2 DEF gr

(* A frame popped that is no bail keeps the exemptions.                    *)
LEMMA ExemptPop ==
    ASSUME NEW fr \in Seq(Frame), Len(fr) >= 1, fr[Len(fr)].kind # "bail", NEW k
    PROVE  Exempt(fr, k) => Exempt(SubSeq(fr, 1, Len(fr) - 1), k)
<1> DEFINE gr == SubSeq(fr, 1, Len(fr) - 1)
<1>1. /\ Len(gr) = Len(fr) - 1 /\ Len(fr) \in Nat
      /\ \A i \in 1 .. Len(fr) - 1 : gr[i] = fr[i]
  <2>1. \A i \in 1 .. Len(fr) - 1 : fr[i] \in Frame
    BY ElementOfSeq
  <2>2. Len(fr) \in Nat /\ Len(fr) - 1 \in Int
    OBVIOUS
  <2> DEFINE m == Len(fr) - 1
  <2>3. m \in Int /\ m >= 0 /\ m = Len(fr) - 1 /\ \A i \in 1 .. m : fr[i] \in Frame
    BY <2>1, <2>2
  <2> HIDE DEF m
  <2>4. Len(SubSeq(fr, 1, m)) = m /\ \A i \in 1 .. m : SubSeq(fr, 1, m)[i] = fr[i]
    BY <2>3
  <2> QED BY <2>2, <2>3, <2>4
<1> HIDE DEF gr
<1>2. ASSUME Exempt(fr, k) PROVE Exempt(gr, k)
  <2>1. PICK i \in 1 .. Len(fr) :
          /\ fr[i].kind = "bail" /\ \A j \in i + 1 .. Len(fr) : fr[j].kind # "bail"
          /\ fr[i].of <= k /\ k <= fr[i].n
    BY <1>2 DEF Exempt
  <2>2. i \in 1 .. Len(gr) /\ gr[i] = fr[i]
    BY <2>1, <1>1
  <2>3. ASSUME NEW j \in i + 1 .. Len(gr) PROVE gr[j].kind # "bail"
    <3>1. j \in i + 1 .. Len(fr) /\ j \in 1 .. Len(fr) - 1
      BY <1>1
    <3> QED BY <3>1, <2>1, <1>1
  <2> QED BY <2>1, <2>2, <2>3 DEF Exempt
<1> QED BY <1>2 DEF gr

(* A step that writes nothing and gives up no bail keeps what was fresh.   *)
LEMMA FreshCarry ==
    ASSUME FreshInv, pc # "fatal", UNCHANGED <<wram, hit>>,
           Len(act) \in Nat, Len(act') \in Nat, Len(act') <= Len(act),
           \A k \in 1 .. Len(act') : /\ act'[k].f = act[k].f
                                     /\ ~act'[k].dormant => ~act[k].dormant,
           \A k \in 1 .. Len(act') : Exempt(frames, k) => Exempt(frames', k)
    PROVE  FreshInv'
<1> SUFFICES ASSUME ~hit', NEW k \in 1 .. Len(act'),
                    ~act'[k].dormant, ~Exempt(frames', k)
             PROVE  Matches(act[k].f)'
  BY DEF FreshInv, Exempt, Matches
<1>1. k \in 1 .. Len(act) /\ ~hit /\ ~act[k].dormant /\ ~Exempt(frames, k)
  OBVIOUS
<1>2. Matches(act[k].f)
  BY <1>1 DEF FreshInv
<1> QED BY <1>2 DEF Matches

(* Leaving the innermost native function.                                  *)
LEMMA LeftAct ==
    ASSUME TypeOK, StackInv, InNative, Left
    PROVE  /\ Len(act) \in Nat /\ Len(act') \in Nat /\ Len(act') <= Len(act)
           /\ \A k \in 1 .. Len(act') : act'[k] = act[k]
           /\ \A k : Exempt(frames, k) => Exempt(Below, k)
<1>1. Len(act) \in Nat /\ act \in Seq(Act)
  BY ActTypes DEF TypeOK
<1>2. CASE Top.kind = "ovl"
  <2>1. act' = SubSeq(act, 1, Len(act) - 1) /\ Len(act) >= 1
    BY <1>2, PopOK DEF Left, Leave, StackInv
  <2> QED BY <1>1, <2>1, ExemptPop DEF StackInv, StackOK, InNative, Natives, Top, Below
<1>3. CASE Top.kind # "ovl"
  <2>1. act' = act
    BY <1>3 DEF Left
  <2> QED BY <1>1, <2>1, ExemptPop DEF StackInv, StackOK, InNative, Natives, Top, Below
<1> QED BY <1>2, <1>3

(* If overlay_stale_active finds none, every active function is current.   *)
LEMMA NoneStale ==
    ASSUME TypeOK, CacheInv, Stale = {}, NEW k \in 1 .. Len(act), ~act[k].dormant
    PROVE  Matches(act[k].f)
<1> DEFINE T == {j \in 1 .. Len(act) : ~act[j].dormant /\ ~Checked(act[j].f).valid}
<1>1. CASE T = {}
  BY <1>1, CheckedSound, ActTypes
<1>2. CASE T # {}
  <2>1. T \subseteq Nat
    OBVIOUS
  <2> HIDE DEF T
  <2>2. PICK j \in T : \A i \in T : j <= i
    BY <1>2, <2>1, Smallest
  <2> USE DEF T
  <2>3. j \in 1 .. Len(act) /\ ~act[j].dormant /\ ~Checked(act[j].f).valid /\ Len(act) \in Nat
    BY ActTypes
  <2>4. ASSUME NEW i \in 1 .. j - 1 PROVE act[i].dormant \/ Checked(act[i].f).valid
    <3>1. i \in 1 .. Len(act) /\ ~(j <= i)
      BY <2>3
    <3> QED BY <3>1, <2>2
  <2>5. j \in Stale
    BY <2>3, <2>4, ActTypes DEF Stale, Tested
  <2> QED BY <2>5
<1> QED BY <1>1, <1>2

(* The function an instruction belongs to is not one a bail has given up:  *)
(* its frame is above the bail's.                                          *)
LEMMA TopNotExempt ==
    ASSUME StackInv, Top.kind = "ovl"
    PROVE  ~Exempt(frames, Len(act))
<1> SUFFICES ASSUME NEW i \in 1 .. Len(frames), frames[i].kind = "bail", Len(act) <= frames[i].n
             PROVE  FALSE
  BY DEF Exempt
<1>1. StackOK(frames, act) /\ Len(frames) \in 1 .. Len(frames) /\ Len(frames) \in Nat
  BY Levels DEF StackInv, StackOK
<1>2. i < Len(frames)
  BY <1>1 DEF Top
<1>3. frames[i].n < frames[Len(frames)].n /\ frames[Len(frames)].n = Len(act)
  BY <1>1, <1>2 DEF StackOK, Counts, Order, Top
<1>4. frames[i].n \in Nat /\ Len(act) \in Nat
  BY <1>1, Levels
<1> QED BY <1>3, <1>4

(* A write to the bytes of an active function is seen.                     *)
LEMMA StoreFresh ==
    ASSUME TypeOK, WatchInv, FreshInv, pc \in {"run", "insn"}, UNCHANGED <<act, frames>>,
           NEW a \in Offsets, NEW v \in Bytes, WramStore(a, v)
    PROVE  FreshInv'
<1> SUFFICES ASSUME ~hit', NEW k \in 1 .. Len(act), ~act[k].dormant, ~Exempt(frames, k)
             PROVE  Matches(act[k].f)'
  BY DEF FreshInv, Exempt, Matches
<1>1. ~hit /\ ~Seen(a)
  BY DEF WramStore
<1>2. act[k].f \in Ovl
  BY ActTypes
<1>3. Covers(watch, act[k].f)
  BY DEF WatchInv
<1> DEFINE f == act[k].f
<1> HIDE DEF f
<1>4. watch.lo \in Nat /\ watch.len \in Nat
  BY DEF TypeOK, WatchRange
<1>5. a \notin Lo[f] .. Hi[f]
  BY <1>1, <1>2, <1>3, <1>4, TableTypes DEF Covers, Seen, f
<1>6. Matches(f)
  BY <1>1 DEF FreshInv, f
<1>7. \A b \in Lo[f] .. Hi[f] : wram'[b] = wram[b]
  <2>1. Lo[f] .. Hi[f] \subseteq Offsets
    BY <1>2, TableTypes, SizeAssumption DEF Offsets, f
  <2> QED BY <1>5, <2>1 DEF WramStore, TypeOK
<1>8. act'[k].f = f
  BY DEF f
<1> QED BY <1>6, <1>7, <1>8 DEF Matches

(* The check in tick: nothing stale runs on, or a bail stands in for it.   *)
LEMMA TickFresh ==
    ASSUME TypeOK, StackInv, CacheInv, WatchInv, FreshInv, NEW op \in {"insn", "rti"}, Tick(op)
    PROVE  FreshInv'
<1>1. pc = "run" /\ act' = act /\ wram' = wram /\ hit' = FALSE
  BY DEF Tick, HitChecked
<1>2. CASE (~hit \/ Stale = {}) /\ UNCHANGED frames
  <2>1. CASE ~hit
    <3>1. \A k \in 1 .. Len(act) : ~act[k].dormant /\ ~Exempt(frames, k) => Matches(act[k].f)
      BY <1>1, <2>1 DEF FreshInv
    <3> QED BY <1>1, <1>2, <3>1 DEF FreshInv, Exempt, Matches
  <2>2. CASE Stale = {}
    <3>1. \A k \in 1 .. Len(act) : ~act[k].dormant => Matches(act[k].f)
      BY <2>2, NoneStale
    <3> QED BY <1>1, <3>1 DEF FreshInv, Matches
  <2> QED BY <1>2, <2>1, <2>2
<1>3. CASE pc' = "fatal"
  BY <1>3 DEF FreshInv
<1>4. CASE /\ Stale # {}
           /\ frames' = Push([Loop("bail", Len(act), 0) EXCEPT !.of = Outermost])
  <2> DEFINE g == [Loop("bail", Len(act), 0) EXCEPT !.of = Outermost]
  <2>1. Outermost \in Stale /\ Outermost \in 1 .. Len(act) /\ Len(act) \in Nat
    BY <1>4, OutermostType, ActTypes
  <2>2. g.kind = "bail" /\ g.n = Len(act) /\ g.of = Outermost /\ g \in Frame
    BY <2>1 DEF Loop, Frame, Loops
  <2>3. frames' = Append(frames, g) /\ frames \in Seq(Frame)
    BY <1>4 DEF Push, TypeOK
  <2> HIDE DEF g
  <2>4. /\ Len(frames') = Len(frames) + 1 /\ Len(frames) \in Nat
        /\ frames'[Len(frames')] = g
    BY <2>2, <2>3
  <2>5. ASSUME NEW k \in 1 .. Len(act), k >= Outermost
        PROVE  Exempt(frames', k)
    <3>1. Len(frames') \in 1 .. Len(frames')
      BY <2>4
    <3>2. \A j \in Len(frames') + 1 .. Len(frames') : FALSE
      BY <2>4
    <3>3. g.of <= k /\ k <= g.n
      BY <2>1, <2>2, <2>5
    <3> QED BY <2>2, <2>4, <3>1, <3>2, <3>3 DEF Exempt
  <2>6. ASSUME NEW k \in 1 .. Len(act), ~act[k].dormant, ~Exempt(frames', k)
        PROVE  Matches(act[k].f)
    <3>1. k \in 1 .. Outermost - 1
      BY <2>1, <2>5, <2>6
    <3>2. Checked(act[k].f).valid
      BY <2>1, <2>6, <3>1 DEF Stale, Tested
    <3> QED BY <3>2, CheckedSound, ActTypes
  <2>7. \A k \in 1 .. Len(act') : ~act'[k].dormant /\ ~Exempt(frames', k) => Matches(act'[k].f)
    BY <1>1, <2>6
  <2> QED BY <1>1, <2>7 DEF FreshInv, Exempt, Matches
<1> QED BY <1>2, <1>3, <1>4 DEF Tick

(* Every step keeps the active functions fresh, seen or exempt.            *)
LEMMA FreshStep ==
    ASSUME TypeOK, StackInv, CacheInv, WatchInv, FreshInv, [Next]_vars
    PROVE  FreshInv'
<1> USE DEF NoStore
<1>0. /\ frames \in Seq(Frame) /\ Len(frames) >= 1 /\ Len(frames) \in Nat /\ Len(act) \in Nat
      /\ S \in Int /\ StackOK(frames, act)
  BY ActTypes DEF TypeOK, StackInv
<1>1. CASE UNCHANGED <<act, frames, wram, hit>> /\ pc # "fatal"
  BY <1>0, <1>1, FreshCarry
<1>2. CASE /\ UNCHANGED <<act, wram, hit>> /\ pc # "fatal"
           /\ \E g \in Frame : g.kind # "bail" /\ frames' = Append(frames, g)
  <2>1. PICK g \in Frame : g.kind # "bail" /\ frames' = Append(frames, g)
    BY <1>2
  <2>2. \A k : Exempt(frames, k) => Exempt(frames', k)
    BY <1>0, <2>1, ExemptPush
  <2> QED BY <1>0, <1>2, <2>2, FreshCarry
<1>3. CASE UNCHANGED <<act, wram, hit>> /\ pc # "fatal" /\ frames' = Below /\ Top.kind # "bail"
  <2>1. \A k : Exempt(frames, k) => Exempt(frames', k)
    BY <1>0, <1>3, ExemptPop DEF Below, Top
  <2> QED BY <1>0, <1>3, <2>1, FreshCarry
<1>4. ASSUME NEW at \in Addresses, Interpret(at) PROVE FreshInv'
  <2>1. UNCHANGED <<act, frames>> /\ pc = "run"
    BY <1>4 DEF Interpret, InLoop
  <2>2. CASE NoStore
    BY <2>1, <2>2, <1>1
  <2>3. CASE \E a \in Offsets, v \in Bytes : WramStore(a, v)
    BY <2>1, <2>3, StoreFresh
  <2> QED BY <1>4, <2>2, <2>3 DEF Interpret
<1>5. CASE InterpretInterrupt
  BY <1>1, <1>5 DEF InterpretInterrupt, InLoop
<1>6. ASSUME NEW at \in Addresses, DispatchOverlay(at) PROVE FreshInv'
  <2>1. CASE Len(act) = MaxAct
    BY <1>6, <2>1 DEF DispatchOverlay, FreshInv
  <2>2. CASE Len(act) # MaxAct
    <3>1. PICK k \in Found(at) :
            /\ act' = Append(act, [f |-> k, s0 |-> S, dormant |-> FALSE,
                                   saved |-> watch, jb |-> Len(frames)])
            /\ frames' = Push(Loop("ovl", Len(act) + 1, S))
      BY <1>6, <2>2 DEF DispatchOverlay
    <3>2. /\ k \in Ovl /\ Checked(k).valid /\ pc = "run" /\ UNCHANGED <<wram, hit>>
      BY <1>6 DEF DispatchOverlay, InLoop, Found, Tried, At
    <3>3. Matches(k)
      BY <3>2, CheckedSound
    <3> DEFINE g == Loop("ovl", Len(act) + 1, S)
    <3>4. g \in Frame /\ g.kind = "ovl"
      <4>1. Len(act) + 1 \in Nat /\ "ovl" \in Loops \union Natives
        BY <1>0 DEF Natives
      <4> QED BY <1>0, <4>1, LoopType
    <3>5. frames' = Append(frames, g)
      BY <3>1 DEF Push
    <3> HIDE DEF g
    <3>6. \A j : Exempt(frames, j) => Exempt(frames', j)
      BY <1>0, <3>4, <3>5, ExemptPush
    <3>7. /\ Len(act') = Len(act) + 1 /\ \A j \in 1 .. Len(act) : act'[j] = act[j]
          /\ act'[Len(act) + 1].f = k
      BY <3>1, <1>0 DEF TypeOK
    <3>8. ASSUME ~hit, NEW j \in 1 .. Len(act'), ~act'[j].dormant, ~Exempt(frames', j)
          PROVE  Matches(act'[j].f)
      <4>1. CASE j = Len(act) + 1
        BY <4>1, <3>3, <3>7
      <4>2. CASE j # Len(act) + 1
        <5>1. j \in 1 .. Len(act) /\ act'[j] = act[j]
          BY <4>2, <3>7, <1>0
        <5> QED BY <5>1, <3>2, <3>6, <3>8 DEF FreshInv
      <4> QED BY <4>1, <4>2
    <3> QED BY <3>2, <3>8 DEF FreshInv, Exempt, Matches
  <2> QED BY <2>1, <2>2
<1>7. CASE DispatchRom
  <2>1. Loop("rom", Len(act), S) \in Frame /\ Loop("rom", Len(act), S).kind # "bail"
    <3>1. "rom" \in Loops \union Natives
      BY DEF Natives
    <3> QED BY <1>0, <3>1, LoopType
  <2> QED BY <1>2, <1>7, <2>1 DEF DispatchRom, Push, InLoop
<1>8. CASE UntilDone
  BY <1>3, <1>8 DEF UntilDone
<1>9. CASE IntDone
  <2>1. CASE S = Top.s
    BY <1>3, <1>9, <2>1 DEF IntDone
  <2>2. CASE S # Top.s
    BY <1>9, <2>2 DEF IntDone, FreshInv
  <2> QED BY <2>1, <2>2
<1>10. CASE BailDone
  <2>1. /\ Top.kind = "bail" /\ pc = "run" /\ UNCHANGED <<wram, hit>>
        /\ act' = SubSeq(act, 1, Top.of - 1) /\ Top.of \in 1 .. Len(act)
    BY <1>10, <1>0, JumpOK DEF BailDone, Leave
  <2>2. /\ Len(act') = Top.of - 1
        /\ \A k \in 1 .. Top.of - 1 : act'[k] = act[k] /\ k \in 1 .. Len(act)
    BY <2>1, <1>0 DEF TypeOK
  <2>3. ASSUME NEW k \in 1 .. Top.of - 1 PROVE ~Exempt(frames, k)
    <3> SUFFICES ASSUME NEW i \in 1 .. Len(frames),
                        \A j \in i + 1 .. Len(frames) : frames[j].kind # "bail",
                        frames[i].of <= k
                 PROVE  FALSE
      BY DEF Exempt
    <3>1. i = Len(frames)
      BY <2>1, <1>0 DEF Top
    <3> QED BY <3>1, <2>1, <1>0 DEF Top
  <2>4. ~hit => \A k \in 1 .. Len(act') : ~act'[k].dormant => Matches(act'[k].f)
    BY <2>1, <2>2, <2>3 DEF FreshInv
  <2> QED BY <2>1, <2>4 DEF FreshInv, Matches
<1>11. CASE TickInterrupt
  <2> DEFINE g == [Loop("int", Len(act), S) EXCEPT !.depth = int_depth, !.open = open]
  <2>1. g \in Frame /\ g.kind # "bail"
    <3>1. int_depth \in Int /\ open \in Nat
      BY SizeAssumption DEF TypeOK
    <3> QED BY <1>0, <3>1 DEF Frame, Loop, Loops
  <2> QED BY <1>2, <1>11, <2>1 DEF TickInterrupt, Push
<1>12. CASE Tick("insn") \/ Tick("rti")
  BY <1>12, TickFresh
<1>13. CASE NativeWrite
  BY <1>13, StoreFresh DEF NativeWrite
<1>14. CASE NativeInsn
  BY <1>1, <1>14 DEF NativeInsn
<1>15. CASE NativeCall
  <2>1. Loop("until", Len(act), S) \in Frame /\ Loop("until", Len(act), S).kind # "bail"
    BY <1>0, LoopType DEF Loops
  <2> QED BY <1>2, <1>15, <2>1 DEF NativeCall, Push
<1>16. CASE NativeCallRom
  <2>1. Loop("rom", Len(act), S - 1) \in Frame /\ Loop("rom", Len(act), S - 1).kind # "bail"
    <3>1. S - 1 \in Int /\ "rom" \in Loops \union Natives
      BY <1>0 DEF Natives
    <3> QED BY <1>0, <3>1, LoopType
  <2> QED BY <1>2, <1>16, <2>1 DEF NativeCallRom, Push
<1>17. CASE NativeReturn \/ NativeRti \/ OverlayReturn
  <2>1. InNative /\ Left /\ frames' = Below /\ UNCHANGED <<wram, hit>> /\ pc # "fatal"
    BY <1>17 DEF NativeReturn, NativeRti, OverlayReturn, StackInv, InNative, Natives
  <2> QED BY <2>1, LeftAct, FreshCarry
<1>18. CASE NativeTail
  <2>1. /\ InNative /\ Left /\ UNCHANGED <<wram, hit>> /\ pc # "fatal"
        /\ frames' = Append(Below, Loop("rom", Len(act'), S))
    BY <1>18 DEF NativeTail, StackInv
  <2>2. Loop("rom", Len(act'), S) \in Frame /\ Loop("rom", Len(act'), S).kind # "bail"
    <3>1. S \in Int /\ Len(act') \in Nat /\ "rom" \in Loops \union Natives
      BY <1>0, <2>1, LeftAct DEF Natives
    <3> QED BY <3>1, LoopType
  <2>3. Below \in Seq(Frame)
    BY <2>1, LeftOK DEF StackOK
  <2>4. \A k : Exempt(frames, k) => Exempt(frames', k)
    BY <2>1, <2>2, <2>3, LeftAct, ExemptPush
  <2> QED BY <2>1, <2>4, LeftAct, FreshCarry
<1>19. CASE NativeTailRest
  <2>1. /\ Top.kind = "rom" /\ UNCHANGED <<act, wram, hit>> /\ pc # "fatal" /\ InNative
        /\ frames' = Below \/ frames' = Append(Below, Loop("until", Len(act), Top.s + 1))
    BY <1>19 DEF NativeTailRest, InNative, Natives
  <2>2. CASE frames' = Below
    BY <1>3, <2>1, <2>2
  <2>3. CASE frames' = Append(Below, Loop("until", Len(act), Top.s + 1))
    <3>1. Top.s + 1 \in Int
      <4>1. Len(frames) \in 1 .. Len(frames)
        BY <1>0
      <4>2. Top \in Frame
        BY <4>1, <1>0, Levels DEF Top
      <4> QED BY <4>2 DEF Frame
    <3> DEFINE g == Loop("until", Len(act), Top.s + 1)
    <3>2. g \in Frame /\ g.kind # "bail"
      BY <1>0, <3>1, LoopType DEF Loops
    <3> HIDE DEF g
    <3>3. Below \in Seq(Frame)
      BY <1>0, <2>1, PopOK DEF StackOK
    <3>4. \A k : Exempt(frames, k) => Exempt(Below, k)
      BY <1>0, <2>1, ExemptPop DEF Below, Top
    <3>5. \A k : Exempt(Below, k) => Exempt(frames', k)
      BY <2>3, <3>2, <3>3, ExemptPush DEF g
    <3> QED BY <1>0, <2>1, <3>4, <3>5, FreshCarry
  <2> QED BY <2>1, <2>2, <2>3
<1>20. CASE OverlayTailRest
  <2>1. Len(act) \in 1 .. Len(act) /\ pc = "insn" /\ UNCHANGED <<frames, wram, hit>>
    BY <1>20, PopOK, ActTypes DEF OverlayTailRest, StackInv
  <2>2. act' = [act EXCEPT ![Len(act)] = [act[Len(act)] EXCEPT !.dormant = TRUE]]
    BY <1>20 DEF OverlayTailRest
  <2>3. [act[Len(act)] EXCEPT !.dormant = TRUE] \in Act
    BY <2>1, ActTypes DEF Act
  <2>4. Len(act') = Len(act)
    BY <2>2, <2>3, ActTypes DEF TypeOK
  <2>5. ASSUME NEW k \in 1 .. Len(act)
        PROVE  act'[k].f = act[k].f /\ (~act'[k].dormant => ~act[k].dormant)
    <3>1. act[k] \in Act /\ k \in DOMAIN act
      BY ActTypes
    <3> QED BY <2>2, <3>1 DEF Act
  <2> QED BY <1>0, <2>1, <2>4, <2>5, FreshCarry
<1>21. CASE SoftReset
  <2>1. Len(act') = 0
    BY <1>21 DEF SoftReset
  <2> QED BY <2>1 DEF FreshInv
<1>22. ASSUME NEW at \in Addresses, OverlayState(at) PROVE FreshInv'
  BY <1>1, <1>22 DEF OverlayState
<1>23. CASE UNCHANGED vars
  BY <1>23 DEF vars, FreshInv, Exempt, Matches
<1> QED BY <1>4, <1>5, <1>6, <1>7, <1>8, <1>9, <1>10, <1>11, <1>12, <1>13, <1>14, <1>15,
           <1>16, <1>17, <1>18, <1>19, <1>20, <1>21, <1>22, <1>23 DEF Next

(* The instructions that begin do so in Tick.                              *)
LEMMA BeginsInTick ==
    ASSUME TypeOK, StackInv, CacheInv, WatchInv, FreshInv, [Next]_vars,
           pc = "run", pc' \in {"insn", "rti"}, Top.kind = "ovl"
    PROVE  Matches(act[Len(act)].f)
<1>1. PICK op \in {"insn", "rti"} : Tick(op)
  BY DEF Next, vars, Interpret, InterpretInterrupt, DispatchOverlay, DispatchRom, UntilDone,
         IntDone, BailDone, TickInterrupt, NativeWrite, NativeInsn, NativeCall,
         NativeCallRom, NativeReturn, NativeRti, NativeTail, NativeTailRest, OverlayTailRest,
         OverlayReturn, SoftReset, OverlayState
<1>2. Len(act) \in 1 .. Len(act)
  BY PopOK, ActTypes DEF StackInv, InNative, Natives
<1>3. ~act[Len(act)].dormant
  BY <1>2 DEF WatchInv
<1>4. ~hit \/ Stale = {}
  BY <1>1 DEF Tick
<1>5. CASE ~hit
  BY <1>2, <1>3, <1>5, TopNotExempt DEF FreshInv
<1>6. CASE Stale = {}
  BY <1>2, <1>3, <1>6, NoneStale
<1> QED BY <1>4, <1>5, <1>6

(* No native instruction of an overlay function begins while the bytes the *)
(* function was compiled from have changed (sched.c tick, overlay.h        *)
(* 28-35), for every program, every table of functions and any nesting of  *)
(* calls, interrupts and bails, as long as no write counter wraps.         *)
THEOREM NativeTheorem ==
    ASSUME MaxWrites < GenMod
    PROVE  Spec => NativeBytesCurrent
<1> DEFINE IInv == TypeOK /\ StackInv /\ CacheInv /\ WatchInv /\ FreshInv
<1>1. Init => IInv
  <2> SUFFICES ASSUME Init PROVE IInv
    OBVIOUS
  <2>1. TypeOK /\ StackInv
    BY TypeStackInit
  <2>2. CacheInv
    BY SizeAssumption DEF Init, CacheInv
  <2>3. Len(act) = 0 /\ pc = "run"
    BY DEF Init
  <2>4. WatchInv /\ FreshInv
    BY <2>3 DEF WatchInv, FreshInv
  <2> QED BY <2>1, <2>2, <2>4
<1>2. IInv /\ [Next]_vars => IInv'
  BY TypeStackStep, CacheStep, WatchStep, FreshStep
<1>3. IInv /\ [Next]_vars =>
        [pc = "run" /\ pc' \in {"insn", "rti"} /\ Top.kind = "ovl"
         => Matches(act[Len(act)].f)]_vars
  BY BeginsInTick
<1> QED BY <1>1, <1>2, <1>3, PTL DEF Spec, NativeBytesCurrent

=============================================================================
