---------------------------- MODULE AudioProofs -----------------------------
(***************************************************************************)
(* Proofs about Audio: its buffers stay within their bounds, the           *)
(* resampler never reads outside its samples and never rejects an input,   *)
(* and the ring and the resampler implement AudioStream, for every size,   *)
(* ratio and filter that AudioAssumption allows.                           *)
(***************************************************************************)
EXTENDS Audio, SequenceTheorems, TLAPS

----------------------------------------------------------------------------
(* The inductive invariant.                                                *)

(* How far pos has come from the history that stays, and how far a step    *)
(* takes it, in fractions of a sample.                                     *)
Travelled == (pos.int - (Half - 1)) * Unit + pos.frac
Speed(s) == s.int * Unit + s.frac

(* Between calls no more is kept than the next output's taps; within one,  *)
(* the queue has not grown and every output has taken pos its step.        *)
Inv ==
    /\ TypeOK
    /\ pos.int >= Half - 1
    /\ phase = "run" => Len(buf) <= Taps
    /\ phase = "process" => level <= early /\ Travelled >= produced * Speed(step)

----------------------------------------------------------------------------
(* Arithmetic and sequences.                                               *)

(* The modulus of a number that wraps at most once.                        *)
LEMMA ModOnce ==
    ASSUME NEW r \in Nat \ {0}, NEW x \in 0 .. 2 * r - 1
    PROVE  x % r = IF x < r THEN x ELSE x - r
  BY SMT

(* A positive factor may be cancelled.                                     *)
LEMMA Cancel ==
    ASSUME NEW u \in Nat \ {0}, NEW a \in Int, NEW b \in Int, a * u > b * u
    PROVE  a > b
  BY SMT

(* Distance passed grows with the outputs.                                 *)
LEMMA ProductMonotonic ==
    ASSUME NEW a \in Int, NEW b \in Nat, NEW c \in Int, a >= b, c \in Nat
    PROVE  a * c >= b * c
  BY SMT

(* A function on 1 .. n is a sequence of that length.                      *)
LEMMA FunctionIsSeq ==
    ASSUME NEW S, NEW n \in Nat, NEW f \in [1 .. n -> S]
    PROVE  f \in Seq(S) /\ Len(f) = n
  BY SMT

(* A factor common to both terms of a sum.                                 *)
LEMMA Distribute ==
    ASSUME NEW a \in Int, NEW b \in Int, NEW u \in Int
    PROVE  (a + b) * u = a * u + b * u
  BY SMT

(* What AudioAssumption says of each constant alone.                       *)
LEMMA Sizes ==
    /\ Ring \in Nat \ {0} /\ MaxTake \in Nat \ {0} /\ Half \in Nat \ {0} /\ Unit \in Nat \ {0}
    /\ Steps \subseteq Place
    /\ MaxOut \in Nat /\ Target \in Nat /\ Chunk \in Nat
  BY AudioAssumption

(* What the invariant says of the positions.                               *)
LEMMA Positions ==
    ASSUME Inv
    PROVE  /\ pos \in Place /\ pos.int \in Nat /\ pos.frac \in 0 .. Unit - 1
           /\ step \in Place /\ step.int \in Nat /\ step.frac \in 0 .. Unit - 1
           /\ Travelled \in Int /\ Speed(step) \in Nat
           /\ pos.int - (Half - 1) \in Nat
  <1>1. /\ pos \in Place /\ pos.int \in Nat /\ pos.frac \in 0 .. Unit - 1
        /\ step \in Place /\ step.int \in Nat /\ step.frac \in 0 .. Unit - 1
    BY Sizes DEF Inv, TypeOK, Place
  <1>2. pos.int - (Half - 1) \in Nat
    BY <1>1, Sizes DEF Inv
  <1> QED  BY <1>1, <1>2, Sizes DEF Travelled, Speed

----------------------------------------------------------------------------
(* Steps of the resampler.                                                 *)

(* A full output buffer means that the input is used up: AudioAssumption's *)
(* ample room for the outputs.                                             *)
LEMMA FullMeansDone ==
    ASSUME Inv, phase = "process", ~Room
    PROVE  ~Ready
  <1> DEFINE a == pos.int - (Half - 1)
  <1>1. produced = MaxOut
    BY Sizes DEF Room, Inv, TypeOK
  <1>2. Travelled >= (MaxTake + 1) * Unit
    <2>1. step \in Steps
      BY DEF Inv, TypeOK
    <2>2. MaxOut * Speed(step) >= (MaxTake + 1) * Unit
      BY <2>1, AudioAssumption DEF Speed
    <2>3. Travelled >= MaxOut * Speed(step)
      BY <1>1 DEF Inv
    <2>4. MaxOut * Speed(step) \in Int /\ (MaxTake + 1) * Unit \in Int
      BY Sizes, Positions
    <2> QED  BY <2>2, <2>3, <2>4, Positions
  <1>3. (a + 1) * Unit > (MaxTake + 1) * Unit
    <2>1. a * Unit + pos.frac >= (MaxTake + 1) * Unit
      BY <1>2 DEF Travelled
    <2>2. (a + 1) * Unit = a * Unit + 1 * Unit
      BY Distribute, Positions, Sizes
    <2>3. a * Unit \in Int /\ (MaxTake + 1) * Unit \in Int /\ 1 * Unit = Unit /\ pos.frac < Unit
      BY Sizes, Positions
    <2> HIDE DEF a
    <2> QED  BY <2>1, <2>2, <2>3, Positions, Sizes
  <1>4. a + 1 > MaxTake + 1
    <2>1. a + 1 \in Int /\ MaxTake + 1 \in Int
      BY Sizes, Positions
    <2> QED  BY <1>3, <2>1, Cancel, Sizes
  <1>5. Len(buf) <= MaxTake + 2 * Half
    BY DEF Inv, TypeOK, Taps
  <1>6. Len(buf) \in Nat
    BY DEF Inv, TypeOK
  <1>7. pos.int \in Nat /\ Half \in Nat /\ MaxTake \in Nat
    BY Sizes, Positions
  <1>8. ~(pos.int + Half < Len(buf))
    BY <1>4, <1>5, <1>6, <1>7
  <1> QED  BY <1>8 DEF Ready

(* An output takes pos one step further.                                   *)
LEMMA OutputTravels ==
    ASSUME Inv, Output
    PROVE  /\ pos' \in Place /\ pos'.int >= pos.int
           /\ Travelled' = Travelled + Speed(step)
  <1> DEFINE frac == pos.frac + step.frac
             carry == IF frac >= Unit THEN 1 ELSE 0
             a == pos.int - (Half - 1)
  <1>1. pos' = [int |-> pos.int + step.int + carry, frac |-> frac - carry * Unit]
    BY DEF Output
  <1>2. a \in Int /\ carry \in {0, 1} /\ frac \in 0 .. 2 * Unit - 2
    BY Positions, Sizes
  <1>3. pos' \in Place /\ pos'.int = pos.int + step.int + carry /\ pos'.frac = frac - carry * Unit
    BY <1>1, Positions, Sizes DEF Place
  <1>4. Travelled' = ((a + step.int) + carry) * Unit + (frac - carry * Unit)
    BY <1>3, Positions, Sizes DEF Travelled
  <1>5. ((a + step.int) + carry) * Unit = (a * Unit + step.int * Unit) + carry * Unit
    BY <1>2, Distribute, Positions, Sizes
  <1>6. a * Unit \in Int /\ step.int * Unit \in Int /\ carry * Unit \in Int
    BY <1>2, Positions, Sizes
  <1>7. Travelled' = Travelled + Speed(step)
    <2> HIDE DEF frac
    <2>1. Travelled' = a * Unit + step.int * Unit + frac
      BY <1>2, <1>4, <1>5, <1>6
    <2>2. frac = pos.frac + step.frac
      BY DEF frac
    <2> QED  BY <1>2, <1>6, <2>1, <2>2, Positions DEF Travelled, Speed
  <1> QED  BY <1>2, <1>3, <1>7, Positions

(* What a call leaves is less than the taps.                               *)
LEMMA FinishLeaves ==
    ASSUME Inv, Finish
    PROVE  /\ buf' \in Seq(Nat) /\ Len(buf') <= Taps
           /\ pos' \in Place /\ pos'.int >= Half - 1
           /\ gone' \in Seq(Nat)
  <1>1. ~Ready
    BY FullMeansDone DEF Finish
  <1>2. /\ pos \in Place /\ buf \in Seq(Nat) /\ gone \in Seq(Nat) /\ pos.int >= Half - 1
        /\ Len(buf) \in Nat /\ pos.int \in Nat /\ Half \in Nat \ {0} /\ Unit \in Nat
    BY Sizes, Positions DEF Inv, TypeOK
  <1>3. Len(buf) <= pos.int + Half
    BY <1>1, <1>2 DEF Ready
  <1>4. Drop \in 0 .. Len(buf) /\ Drop <= pos.int - (Half - 1)
        /\ Len(buf) - Drop <= Taps
    BY <1>2, <1>3 DEF Drop, Least, Taps
  <1>5. CASE Drop > 0
    <2>1. /\ buf' = SubSeq(buf, Drop + 1, Len(buf)) /\ pos' = [pos EXCEPT !.int = @ - Drop]
          /\ gone' = gone \o SubSeq(buf, 1, Drop)
      BY <1>5 DEF Finish
    <2>2. \A i \in 1 .. Len(buf) : buf[i] \in Nat
      BY <1>2, ElementOfSeq
    <2>3. buf' \in Seq(Nat) /\ Len(buf') <= Taps
      <3>1. \A i \in Drop + 1 .. Len(buf) : buf[i] \in Nat
        BY <1>2, <1>4, <2>2
      <3>2. Drop + 1 \in Int /\ Len(buf) \in Int
        BY <1>2, <1>4
      <3>3. /\ SubSeq(buf, Drop + 1, Len(buf)) \in Seq(Nat)
            /\ Len(SubSeq(buf, Drop + 1, Len(buf))) =
                  IF Drop + 1 <= Len(buf) THEN Len(buf) - (Drop + 1) + 1 ELSE 0
        BY <3>1, <3>2, SubSeqProperties
      <3> DEFINE kept == SubSeq(buf, Drop + 1, Len(buf))
      <3>4. Len(kept) <= Taps
        <4> HIDE DEF kept
        <4>1. Len(kept) = IF Drop + 1 <= Len(buf) THEN Len(buf) - (Drop + 1) + 1 ELSE 0
          BY <3>3 DEF kept
        <4>2. Taps \in Nat
          BY Sizes DEF Taps
        <4> QED  BY <1>2, <1>4, <4>1, <4>2
      <3> QED  BY <2>1, <3>3, <3>4 DEF kept
    <2>4. SubSeq(buf, 1, Drop) \in Seq(Nat)
      BY <1>2, <1>4, <2>2, SubSeqProperties
    <2>5. gone' \in Seq(Nat)
      BY <1>2, <2>1, <2>4, ConcatProperties
    <2>6. pos' \in Place /\ pos'.int >= Half - 1
      <3>1. pos' = [int |-> pos.int - Drop, frac |-> pos.frac]
        BY <1>2, <2>1 DEF Place
      <3>2. pos.int - Drop \in Nat /\ pos.int - Drop >= Half - 1 /\ pos.frac \in 0 .. Unit - 1
        BY <1>2, <1>4 DEF Place
      <3> QED  BY <3>1, <3>2 DEF Place
    <2> QED  BY <2>3, <2>5, <2>6
  <1>6. CASE ~(Drop > 0)
    BY <1>2, <1>4, <1>6 DEF Finish
  <1> QED  BY <1>5, <1>6

----------------------------------------------------------------------------
(* The invariant holds.                                                    *)

(* The samples waiting, as a sequence.                                     *)
Slot(h, n, k) == (h + Ring - n + k - 1) % Ring
Waiting == [k \in 1 .. ringLen |-> Oldest(k)]

(* A place in the ring.                                                    *)
LEMMA SlotInside ==
    ASSUME NEW h \in 0 .. Ring - 1, NEW n \in 0 .. Ring, NEW k \in 1 .. n
    PROVE  /\ Slot(h, n, k) = IF h + k - 1 < n THEN h + Ring - n + k - 1 ELSE h - n + k - 1
           /\ Slot(h, n, k) \in 0 .. Ring - 1
  <1> DEFINE x == h + Ring - n + k - 1
  <1>1. x \in 0 .. 2 * Ring - 1
    BY Sizes
  <1>2. x % Ring = IF x < Ring THEN x ELSE x - Ring
    BY <1>1, ModOnce, Sizes
  <1> QED  BY <1>2, Sizes DEF Slot

LEMMA OldestType ==
    ASSUME Inv, NEW k \in 1 .. ringLen
    PROVE  Oldest(k) \in Nat /\ Oldest(k) = ring[Slot(ringHead, ringLen, k)]
  <1>1. ringHead \in 0 .. Ring - 1 /\ ringLen \in 0 .. Ring /\ ring \in [0 .. Ring - 1 -> Nat]
    BY DEF Inv, TypeOK
  <1>2. Slot(ringHead, ringLen, k) \in 0 .. Ring - 1
    BY <1>1, SlotInside
  <1> QED  BY <1>1, <1>2 DEF Oldest, Slot

(* Initially.                                                              *)
LEMMA InvInit == Init => Inv
  <1> SUFFICES ASSUME Init PROVE Inv
    OBVIOUS
  <1>1. pos \in Place /\ pos.int >= Half - 1
    BY Sizes DEF Init, StartPos, Place
  <1>2. buf \in Seq(Nat) /\ Len(buf) = Taps
    <2>1. Taps \in Nat /\ [k \in 1 .. Taps |-> 0] \in [1 .. Taps -> Nat]
      BY Sizes DEF Taps
    <2> QED  BY <2>1, FunctionIsSeq DEF Init
  <1>3. TypeOK
    <2>1. ring \in [0 .. Ring - 1 -> Nat] /\ ringHead \in 0 .. Ring - 1 /\ ringLen \in 0 .. Ring
      BY Sizes DEF Init
    <2>2. level \in 0 .. 4 * Target + MaxOut /\ produced \in 0 .. MaxOut
      BY Sizes DEF Init
    <2>3. Len(buf) <= MaxTake + Taps
      BY <1>2, Sizes DEF Taps
    <2>4. gone = <<>> /\ window = <<>> /\ gone \in Seq(Nat) /\ window \in Seq(Nat)
      BY DEF Init
    <2>5. made \in Nat /\ step \in Steps /\ phase = "run" /\ early \in Nat /\ playing = FALSE
      BY DEF Init
    <2> QED  BY <1>1, <1>2, <2>1, <2>2, <2>3, <2>4, <2>5 DEF TypeOK
  <1>4. phase = "run" /\ Len(buf) <= Taps
    BY <1>2, Sizes DEF Init, Taps
  <1> QED  BY <1>1, <1>3, <1>4 DEF Inv

(* An accepted input always fits.                                          *)
LEMMA RoomForInput ==
    ASSUME Inv, phase = "run", NEW n \in 0 .. MaxTake
    PROVE  Fits(n)
  BY Sizes DEF Inv, TypeOK, Fits, Taps

(* Take gives the resampler n samples.                                     *)
LEMMA TakeFeeds ==
    ASSUME Inv, Take, NEW n, n = Least(ringLen, MaxTake)
    PROVE  /\ n \in 0 .. ringLen /\ n \in 0 .. MaxTake
           /\ ringLen' = ringLen - n
           /\ phase' = "process" /\ produced' = 0 /\ step' \in Steps
           /\ [k \in 1 .. n |-> Oldest(k)] \in Seq(Nat)
           /\ Len([k \in 1 .. n |-> Oldest(k)]) = n
           /\ buf' = buf \o [k \in 1 .. n |-> Oldest(k)]
  <1>1. n \in 0 .. ringLen /\ n \in 0 .. MaxTake
    BY Sizes DEF Inv, TypeOK, Least
  <1>2. phase = "run"
    BY DEF Take
  <1>3. Fits(n)
    BY <1>1, <1>2, RoomForInput
  <1>4. [k \in 1 .. n |-> Oldest(k)] \in [1 .. n -> Nat]
    <2>1. \A k \in 1 .. n : k \in 1 .. ringLen
      BY <1>1 DEF Inv, TypeOK
    <2> QED  BY <2>1, OldestType
  <1>5. /\ [k \in 1 .. n |-> Oldest(k)] \in Seq(Nat)
        /\ Len([k \in 1 .. n |-> Oldest(k)]) = n
    BY <1>1, <1>4, FunctionIsSeq
  <1> QED  BY <1>1, <1>3, <1>5 DEF Take

(* Each action keeps the invariant.                                        *)
LEMMA DspOutInv == ASSUME Inv, DspOut PROVE Inv'
  <1>1. UNCHANGED <<buf, pos, gone, window, phase, step, produced, level, early, playing>>
    BY DEF DspOut, filterVars, callVars, sdlVars
  <1>2. ringLen' \in 0 .. Ring /\ made' \in Nat
    BY Sizes DEF Inv, TypeOK, DspOut, LenPut, Least
  <1>3. ringHead' \in 0 .. Ring - 1
    <2> DEFINE x == ringHead + 1
    <2>1. x \in 1 .. Ring /\ x \in 0 .. 2 * Ring - 1 /\ Ring \in Nat \ {0}
      BY Sizes DEF Inv, TypeOK
    <2>2. x % Ring \in 0 .. Ring - 1
      <3> HIDE DEF x
      <3>1. x % Ring = IF x < Ring THEN x ELSE x - Ring
        BY <2>1, ModOnce
      <3> QED  BY <2>1, <3>1
    <2> QED  BY <2>2 DEF DspOut
  <1>4. ring' \in [0 .. Ring - 1 -> Nat]
    BY DEF Inv, TypeOK, DspOut
  <1> QED  BY <1>1, <1>2, <1>3, <1>4 DEF Inv, TypeOK, Travelled

LEMMA TakeInv == ASSUME Inv, Take PROVE Inv'
  <1> DEFINE n == Least(ringLen, MaxTake)
             input == [k \in 1 .. n |-> Oldest(k)]
  <1>1. /\ n \in 0 .. ringLen /\ n \in 0 .. MaxTake /\ ringLen' = ringLen - n
        /\ phase' = "process" /\ produced' = 0 /\ step' \in Steps
        /\ input \in Seq(Nat) /\ Len(input) = n /\ buf' = buf \o input
    BY TakeFeeds
  <1>2. UNCHANGED <<ring, ringHead, made, pos, gone, window, level, playing>> /\ early' = level
    BY DEF Take, sdlVars
  <1>3. buf \in Seq(Nat) /\ Len(buf) <= Taps /\ Len(buf) \in Nat
    BY DEF Inv, TypeOK, Take
  <1>4. buf' \in Seq(Nat) /\ Len(buf') = Len(buf) + n
    <2> HIDE DEF input, n
    <2> QED  BY <1>1, <1>3, ConcatProperties
  <1>5. Len(buf') <= MaxTake + Taps
    <2> HIDE DEF n
    <2> QED  BY <1>1, <1>3, <1>4, Sizes DEF Taps
  <1>6. ringLen' \in 0 .. Ring
    <2> HIDE DEF n
    <2> QED  BY <1>1, Sizes DEF Inv, TypeOK
  <1>7. early' \in Nat /\ level' <= early' /\ produced' \in 0 .. MaxOut
    BY <1>1, <1>2, Sizes DEF Inv, TypeOK
  <1>8. Travelled' >= produced' * Speed(step')
    <2>1. step' \in Place
      BY <1>1, Sizes
    <2>2. Speed(step') \in Int /\ 0 * Speed(step') = 0
      BY <2>1, Sizes DEF Speed, Place
    <2>3. Travelled >= 0
      BY Positions, Sizes DEF Travelled
    <2>4. Travelled' = Travelled
      BY <1>2 DEF Travelled
    <2> QED  BY <1>1, <2>2, <2>3, <2>4
  <1>9. TypeOK'
    BY <1>1, <1>2, <1>4, <1>5, <1>6, <1>7 DEF Inv, TypeOK
  <1> QED  BY <1>1, <1>2, <1>7, <1>8, <1>9 DEF Inv, Speed

LEMMA OutputInv == ASSUME Inv, Output PROVE Inv'
  <1>1. UNCHANGED <<ring, ringHead, ringLen, made, buf, gone, phase, step, early, level, playing>>
    BY DEF Output, ringVars, sdlVars
  <1>2. produced' = produced + 1 /\ produced' \in 0 .. MaxOut
    BY Sizes DEF Output, Room, Inv, TypeOK
  <1>3. pos' \in Place /\ pos'.int >= pos.int /\ Travelled' = Travelled + Speed(step)
    BY OutputTravels
  <1>4. Travelled' >= produced' * Speed(step')
    <2>1. produced' * Speed(step) = produced * Speed(step) + 1 * Speed(step)
      <3>1. produced \in Int /\ Speed(step) \in Int
        BY Positions DEF Inv, TypeOK
      <3> HIDE DEF Speed
      <3> QED  BY <1>2, <3>1, Distribute
    <2>2. Travelled >= produced * Speed(step) /\ produced * Speed(step) \in Int
      BY Positions DEF Inv, TypeOK, Output
    <2>3. Speed(step') = Speed(step)
      BY <1>1 DEF Speed
    <2> QED  BY <1>3, <2>1, <2>2, <2>3, Positions
  <1>5. window' \in Seq(Nat)
    <2> DEFINE a == pos.int - (Half - 1) + 1
               b == pos.int + Half + 1
    <2>1. a \in 1 .. Len(buf) /\ b \in 1 .. Len(buf) /\ buf \in Seq(Nat)
      <3>1. buf \in Seq(Nat) /\ Len(buf) \in Nat
        BY DEF Inv, TypeOK
      <3>2. pos.int + Half < Len(buf)
        BY DEF Output, Ready
      <3>3. pos.int \in Nat /\ pos.int - (Half - 1) \in Nat /\ Half \in Nat \ {0}
        BY Sizes, Positions
      <3>4. a \in Int /\ b \in Int /\ 1 <= a /\ a <= Len(buf) /\ 1 <= b /\ b <= Len(buf)
        <4> DEFINE p == pos.int
                   l == Len(buf)
        <4>1. l \in Nat /\ p \in Nat /\ p - (Half - 1) \in Nat /\ p + Half < l /\ Half \in Nat \ {0}
          BY <3>1, <3>2, <3>3
        <4> HIDE DEF p, l
        <4>2. 1 <= p - (Half - 1) + 1 /\ p - (Half - 1) + 1 <= l /\ 1 <= p + Half + 1 /\ p + Half + 1 <= l
          BY <4>1
        <4> QED  BY <4>1, <4>2 DEF p, l
      <3> QED  BY <3>1, <3>4
    <2>2. \A i \in a .. b : buf[i] \in Nat
      <3> HIDE DEF a, b
      <3>1. \A i \in a .. b : i \in 1 .. Len(buf)
        BY <2>1
      <3> QED  BY <2>1, <3>1, ElementOfSeq
    <2>3. SubSeq(buf, a, b) \in Seq(Nat)
      <3> HIDE DEF a, b
      <3> QED  BY <2>1, <2>2, SubSeqProperties
    <2> QED  BY <2>3 DEF Output
  <1>6. pos'.int >= Half - 1
    BY <1>3, Positions, Sizes DEF Place
  <1>7. TypeOK'
    BY <1>1, <1>2, <1>3, <1>5 DEF Inv, TypeOK
  <1> QED  BY <1>1, <1>4, <1>6, <1>7 DEF Inv, Output, Speed

LEMMA FinishInv == ASSUME Inv, Finish PROVE Inv'
  <1>1. /\ buf' \in Seq(Nat) /\ Len(buf') <= Taps /\ pos' \in Place /\ pos'.int >= Half - 1
        /\ gone' \in Seq(Nat)
    BY FinishLeaves
  <1>2. UNCHANGED <<ring, ringHead, ringLen, made, window, step, produced, early>> /\ phase' = "run"
    BY DEF Finish, ringVars
  <1>3. level' \in 0 .. 4 * Target + MaxOut
    <2>1. /\ level \in 0 .. 4 * Target + MaxOut /\ level <= early /\ early \in Nat
          /\ produced \in 0 .. MaxOut /\ Target \in Nat /\ MaxOut \in Nat
      BY Sizes DEF Inv, TypeOK, Finish
    <2>2. level' = IF early > 4 * Target THEN level ELSE level + produced
      BY DEF Finish, Queued
    <2> QED  BY <2>1, <2>2
  <1>4. playing' \in BOOLEAN
    BY DEF Finish
  <1>5. Len(buf') <= MaxTake + Taps
    <2>1. Len(buf') \in Nat
      BY <1>1
    <2> QED  BY <1>1, <2>1, Sizes DEF Taps
  <1>6. TypeOK'
    BY <1>1, <1>2, <1>3, <1>4, <1>5 DEF Inv, TypeOK
  <1> QED  BY <1>1, <1>2, <1>6 DEF Inv

LEMMA DeviceInv == ASSUME Inv, Device PROVE Inv'
  <1>1. UNCHANGED <<ring, ringHead, ringLen, made, buf, pos, gone, window, phase, step, produced, early,
                    playing>>
    BY DEF Device, ringVars, filterVars, callVars
  <1>2. level' \in 0 .. 4 * Target + MaxOut /\ level' <= level
    BY Sizes DEF Inv, TypeOK, Device, Least
  <1>3. TypeOK'
    BY <1>1, <1>2 DEF Inv, TypeOK
  <1>4. phase = "process" => level' <= early
    BY <1>2, Sizes DEF Inv, TypeOK
  <1> QED  BY <1>1, <1>3, <1>4 DEF Inv, Travelled, Speed

LEMMA InvNext == Inv /\ [Next]_vars => Inv'
  <1> SUFFICES ASSUME Inv, [Next]_vars PROVE Inv'
    OBVIOUS
  <1>1. CASE UNCHANGED vars
    BY <1>1 DEF vars, ringVars, filterVars, callVars, sdlVars, Inv, TypeOK, Travelled, Speed
  <1>2. CASE Next
    BY <1>2, DspOutInv, TakeInv, OutputInv, FinishInv, DeviceInv DEF Next
  <1> QED  BY <1>1, <1>2

(* Every variable of the sound path has its type, the buffers are never    *)
(* more than full, and the SDL queue is bounded (queue_audio's early exit).*)
THEOREM TypeCorrect == Spec => []TypeOK
  <1>1. Inv => TypeOK
    BY DEF Inv
  <1> QED  BY <1>1, InvInit, InvNext, PTL DEF Spec

(* rs_process never reads outside its buffer, and accepts every input that *)
(* queue_audio takes from the ring.                                        *)
THEOREM NoSampleRejected == Spec => []TapsInside
  <1>1. Inv => TapsInside
    <2> SUFFICES ASSUME Inv PROVE TapsInside
      OBVIOUS
    <2>1. phase = "run" => \A n \in 0 .. MaxTake : Fits(n)
      BY RoomForInput
    <2> QED  BY <2>1 DEF Inv, TapsInside
  <1> QED  BY <1>1, InvInit, InvNext, PTL DEF Spec

----------------------------------------------------------------------------
(* The refinement of AudioStream.                                          *)

Fed == gone \o buf
At == [pos EXCEPT !.int = @ + Len(gone)]

(* Concatenation of samples may be grouped either way.                     *)
LEMMA Regroup ==
    \A a, b, c \in Seq(Nat) : (a \o b) \o c = a \o (b \o c)
  BY SMT

(* What the invariant says of the ring.                                    *)
LEMMA RingTypes ==
    ASSUME Inv
    PROVE  /\ Waiting \in Seq(Nat) /\ Len(Waiting) = ringLen
           /\ \A k \in 1 .. ringLen : Waiting[k] = ring[Slot(ringHead, ringLen, k)]
           /\ ringHead \in 0 .. Ring - 1 /\ ringLen \in 0 .. Ring
           /\ ring \in [0 .. Ring - 1 -> Nat] /\ made \in Nat
  <1>1. Waiting \in [1 .. ringLen -> Nat]
    BY OldestType DEF Waiting
  <1>2. ringLen \in Nat
    BY DEF Inv, TypeOK
  <1>3. \A k \in 1 .. ringLen : Waiting[k] = ring[Slot(ringHead, ringLen, k)]
    BY OldestType DEF Waiting
  <1> QED  BY <1>1, <1>2, <1>3, FunctionIsSeq DEF Inv, TypeOK

(* The next head.                                                          *)
LEMMA NextHead ==
    ASSUME NEW h \in 0 .. Ring - 1
    PROVE  (h + 1) % Ring = IF h = Ring - 1 THEN 0 ELSE h + 1
  <1> DEFINE x == h + 1
  <1>1. x \in 1 .. Ring /\ x \in 0 .. 2 * Ring - 1 /\ Ring \in Nat \ {0}
    BY Sizes
  <1>2. x % Ring = IF x < Ring THEN x ELSE x - Ring
    <2> HIDE DEF x
    <2> QED  BY <1>1, ModOnce
  <1> QED  BY <1>1, <1>2

(* A sample put in a ring with room leaves the others where they were.     *)
LEMMA SlotsWithRoom ==
    ASSUME NEW h \in 0 .. Ring - 1, NEW n \in 0 .. Ring - 1, NEW k \in 1 .. n + 1,
           NEW g, g = (h + 1) % Ring
    PROVE  /\ k <= n => Slot(g, n + 1, k) = Slot(h, n, k) /\ Slot(h, n, k) # h
           /\ k = n + 1 => Slot(g, n + 1, k) = h
  <1>1. g \in 0 .. Ring - 1 /\ g = IF h = Ring - 1 THEN 0 ELSE h + 1
    BY NextHead, Sizes
  <1>2. n + 1 \in 0 .. Ring /\ n \in 0 .. Ring /\ Ring \in Nat
    BY Sizes
  <1>3. Slot(g, n + 1, k) = IF g + k - 1 < n + 1 THEN g + Ring - (n + 1) + k - 1 ELSE g - (n + 1) + k - 1
    BY <1>1, <1>2, SlotInside
  <1>4. k <= n => Slot(h, n, k) = IF h + k - 1 < n THEN h + Ring - n + k - 1 ELSE h - n + k - 1
    BY <1>2, SlotInside
  <1>5. CASE h = Ring - 1
    <2>1. k <= n => Slot(h, n, k) = h - n + k - 1
      BY <1>4, <1>5, <1>2
    <2>2. Slot(g, n + 1, k) = Ring - (n + 1) + k - 1
      BY <1>1, <1>2, <1>3, <1>5
    <2> QED  BY <1>2, <1>5, <2>1, <2>2
  <1>6. CASE h # Ring - 1
    <2>1. k <= n => Slot(h, n, k) # h
      BY <1>2, <1>4
    <2>2. Slot(g, n + 1, k) = IF h + k - 1 < n THEN h + Ring - n + k - 1 ELSE h - n + k - 1
      BY <1>1, <1>2, <1>3, <1>6
    <2> QED  BY <1>2, <1>4, <2>1, <2>2
  <1> QED  BY <1>5, <1>6

(* One put in a full ring takes the place of the oldest.                   *)
LEMMA SlotsWhenFull ==
    ASSUME NEW h \in 0 .. Ring - 1, NEW k \in 1 .. Ring, NEW g, g = (h + 1) % Ring
    PROVE  /\ k < Ring => Slot(g, Ring, k) = Slot(h, Ring, k + 1) /\ Slot(h, Ring, k + 1) # h
           /\ k = Ring => Slot(g, Ring, k) = h
  <1>1. g \in 0 .. Ring - 1 /\ g = IF h = Ring - 1 THEN 0 ELSE h + 1
    BY NextHead, Sizes
  <1>2. Ring \in 0 .. Ring /\ Ring \in Nat
    BY Sizes
  <1>3. Slot(g, Ring, k) = IF g + k - 1 < Ring THEN g + Ring - Ring + k - 1 ELSE g - Ring + k - 1
    BY <1>1, <1>2, SlotInside
  <1>4. k < Ring => Slot(h, Ring, k + 1) =
             IF h + (k + 1) - 1 < Ring THEN h + Ring - Ring + (k + 1) - 1 ELSE h - Ring + (k + 1) - 1
    <2> SUFFICES ASSUME k < Ring
                 PROVE  Slot(h, Ring, k + 1) = IF h + (k + 1) - 1 < Ring
                            THEN h + Ring - Ring + (k + 1) - 1 ELSE h - Ring + (k + 1) - 1
      OBVIOUS
    <2>1. k + 1 \in 1 .. Ring
      BY <1>2
    <2> QED  BY <1>2, <2>1, SlotInside
  <1> QED  BY <1>1, <1>2, <1>3, <1>4

(* dsp_out is Make: the new sample comes last, and the oldest goes if the  *)
(* ring was full.                                                          *)
LEMMA DspOutMakes ==
    ASSUME Inv, Inv', DspOut
    PROVE  LET all == Append(Waiting, made + 1)
           IN  Waiting' = IF Len(all) > Ring THEN Tail(all) ELSE all
  <1> DEFINE all == Append(Waiting, made + 1)
             next == IF Len(all) > Ring THEN Tail(all) ELSE all
  <1>1. /\ Waiting \in Seq(Nat) /\ Len(Waiting) = ringLen
        /\ \A k \in 1 .. ringLen : Waiting[k] = ring[Slot(ringHead, ringLen, k)]
        /\ ringHead \in 0 .. Ring - 1 /\ ringLen \in 0 .. Ring
        /\ ring \in [0 .. Ring - 1 -> Nat] /\ made \in Nat
    BY RingTypes
  <1>2. /\ Waiting' \in Seq(Nat) /\ Len(Waiting') = ringLen'
        /\ \A k \in 1 .. ringLen' : Waiting'[k] = ring'[Slot(ringHead', ringLen', k)]
    <2>1. (/\ Waiting \in Seq(Nat) /\ Len(Waiting) = ringLen
           /\ \A k \in 1 .. ringLen : Waiting[k] = ring[Slot(ringHead, ringLen, k)])'
      BY RingTypes, PTL
    <2> QED  BY <2>1
  <1>3. /\ all \in Seq(Nat) /\ all # <<>> /\ Len(all) = ringLen + 1
        /\ \A k \in 1 .. ringLen : all[k] = Waiting[k]
        /\ all[ringLen + 1] = made + 1
    BY <1>1, AppendProperties
  <1>4. /\ ringHead' = (ringHead + 1) % Ring /\ ring' = [ring EXCEPT ![ringHead] = made + 1]
        /\ ringLen' = IF ringLen + 1 < Ring THEN ringLen + 1 ELSE Ring
    BY DEF DspOut, LenPut, Least
  <1>5. /\ ring'[ringHead] = made + 1
        /\ \A j \in 0 .. Ring - 1 : j # ringHead => ring'[j] = ring[j]
    BY <1>1, <1>4
  <1>6. CASE ringLen < Ring
    <2>1. next = all /\ ringLen' = ringLen + 1
      BY <1>1, <1>3, <1>4, <1>6, Sizes
    <2>2. ASSUME NEW k \in 1 .. ringLen + 1 PROVE Waiting'[k] = all[k]
      <3>1. ringLen \in 0 .. Ring - 1
        BY <1>1, <1>6, Sizes
      <3>2. Waiting'[k] = ring'[Slot(ringHead', ringLen + 1, k)]
        BY <1>2, <2>1
      <3>3. CASE k <= ringLen
        <4>1. k \in 1 .. ringLen
          BY <1>1, <3>3
        <4>2. /\ Slot(ringHead', ringLen + 1, k) = Slot(ringHead, ringLen, k)
              /\ Slot(ringHead, ringLen, k) # ringHead
          BY <1>1, <1>4, <3>1, <3>3, SlotsWithRoom
        <4>3. Slot(ringHead, ringLen, k) \in 0 .. Ring - 1
          BY <1>1, <4>1, SlotInside
        <4> QED  BY <1>1, <1>3, <1>5, <3>2, <4>1, <4>2, <4>3
      <3>4. CASE k = ringLen + 1
        <4>1. Slot(ringHead', ringLen + 1, k) = ringHead
          BY <1>1, <1>4, <3>1, <3>4, SlotsWithRoom
        <4> QED  BY <1>3, <1>5, <3>2, <3>4, <4>1
      <3> QED  BY <1>1, <3>3, <3>4
    <2> HIDE DEF all
    <2>3. Waiting' = all
      BY <1>2, <1>3, <2>1, <2>2, SeqEqual
    <2> QED  BY <2>1, <2>3 DEF all
  <1>7. CASE ringLen = Ring
    <2>1. next = Tail(all) /\ ringLen' = Ring
      <3>1. Len(all) > Ring /\ ~(ringLen + 1 < Ring)
        <4> HIDE DEF all
        <4> QED  BY <1>3, <1>7, Sizes
      <3> QED  BY <1>4, <3>1
    <2>2. Tail(all) \in Seq(Nat) /\ Len(Tail(all)) = Ring
          /\ \A k \in 1 .. Ring : Tail(all)[k] = all[k + 1]
      <3> HIDE DEF all
      <3>1. Tail(all) \in Seq(Nat) /\ Len(Tail(all)) = Len(all) - 1
            /\ \A k \in 1 .. Len(Tail(all)) : Tail(all)[k] = all[k + 1]
        BY <1>3, HeadTailProperties
      <3> QED  BY <1>3, <1>7, <3>1, Sizes
    <2>3. ASSUME NEW k \in 1 .. Ring PROVE Waiting'[k] = all[k + 1]
      <3>1. Waiting'[k] = ring'[Slot(ringHead', Ring, k)]
        BY <1>2, <2>1
      <3>2. CASE k < Ring
        <4>1. k + 1 \in 1 .. ringLen
          BY <1>7, <3>2, Sizes
        <4>2. /\ Slot(ringHead', Ring, k) = Slot(ringHead, Ring, k + 1)
              /\ Slot(ringHead, Ring, k + 1) # ringHead
          BY <1>1, <1>4, <3>2, SlotsWhenFull
        <4>3. Slot(ringHead, Ring, k + 1) \in 0 .. Ring - 1
          BY <1>1, <1>7, <4>1, SlotInside
        <4> QED  BY <1>1, <1>3, <1>5, <1>7, <3>1, <4>1, <4>2, <4>3
      <3>3. CASE k = Ring
        <4>1. Slot(ringHead', Ring, k) = ringHead
          BY <1>1, <1>4, <3>3, SlotsWhenFull
        <4> QED  BY <1>3, <1>5, <1>7, <3>1, <3>3, <4>1
      <3>4. k < Ring \/ k = Ring
        BY Sizes
      <3> QED  BY <3>2, <3>3, <3>4
    <2> HIDE DEF all
    <2>4. Waiting' = Tail(all)
      BY <1>2, <2>1, <2>2, <2>3, SeqEqual
    <2> QED  BY <2>1, <2>4 DEF all
  <1>8. ringLen < Ring \/ ringLen = Ring
    BY Sizes DEF Inv, TypeOK
  <1> QED  BY <1>6, <1>7, <1>8, Zenon

(* The first n samples of the ring and the others.                         *)
LEMMA TakeSplits ==
    ASSUME Inv, Inv', Take, NEW n, n = Least(ringLen, MaxTake)
    PROVE  /\ [k \in 1 .. n |-> Oldest(k)] = SubSeq(Waiting, 1, n)
           /\ Waiting' = SubSeq(Waiting, n + 1, Len(Waiting))
  <1>1. /\ Waiting \in Seq(Nat) /\ Len(Waiting) = ringLen
        /\ \A k \in 1 .. ringLen : Waiting[k] = ring[Slot(ringHead, ringLen, k)]
        /\ ringHead \in 0 .. Ring - 1 /\ ringLen \in 0 .. Ring
    BY RingTypes
  <1>2. /\ Waiting' \in Seq(Nat) /\ Len(Waiting') = ringLen'
        /\ \A k \in 1 .. ringLen' : Waiting'[k] = ring'[Slot(ringHead', ringLen', k)]
    <2>1. (/\ Waiting \in Seq(Nat) /\ Len(Waiting) = ringLen
           /\ \A k \in 1 .. ringLen : Waiting[k] = ring[Slot(ringHead, ringLen, k)])'
      BY RingTypes, PTL
    <2> QED  BY <2>1
  <1>3. n \in 0 .. ringLen /\ ringLen' = ringLen - n
        /\ [k \in 1 .. n |-> Oldest(k)] \in Seq(Nat) /\ Len([k \in 1 .. n |-> Oldest(k)]) = n
    BY TakeFeeds
  <1>4. ring' = ring /\ ringHead' = ringHead
    BY DEF Take
  <1>5. \A k \in 1 .. ringLen : Waiting[k] \in Nat
    BY <1>1, ElementOfSeq
  <1>6. [k \in 1 .. n |-> Oldest(k)] = SubSeq(Waiting, 1, n)
    <2> DEFINE input == [k \in 1 .. n |-> Oldest(k)]
    <2>1. \A k \in 1 .. n : input[k] = Waiting[k]
      BY <1>1, <1>3 DEF Waiting
    <2>2. /\ SubSeq(Waiting, 1, n) \in Seq(Nat) /\ Len(SubSeq(Waiting, 1, n)) = n
          /\ \A k \in 1 .. n : SubSeq(Waiting, 1, n)[k] = Waiting[k]
      <3>1. \A k \in 1 .. n : Waiting[k] \in Nat
        BY <1>1, <1>3, <1>5
      <3>2. /\ SubSeq(Waiting, 1, n) \in Seq(Nat)
            /\ Len(SubSeq(Waiting, 1, n)) = IF 1 <= n THEN n - 1 + 1 ELSE 0
            /\ \A i \in 1 .. n - 1 + 1 : SubSeq(Waiting, 1, n)[i] = Waiting[1 + i - 1]
        BY <1>3, <3>1, SubSeqProperties
      <3>3. n \in Nat
        BY <1>1, <1>3
      <3> QED  BY <3>2, <3>3
    <2> HIDE DEF input
    <2>3. input \in Seq(Nat) /\ Len(input) = n
      BY <1>3 DEF input
    <2>4. input = SubSeq(Waiting, 1, n)
      BY <2>1, <2>2, <2>3, SeqEqual
    <2> QED  BY <2>4 DEF input
  <1>7. Waiting' = SubSeq(Waiting, n + 1, Len(Waiting))
    <2> DEFINE rest == SubSeq(Waiting, n + 1, Len(Waiting))
    <2>1. /\ rest \in Seq(Nat) /\ Len(rest) = ringLen - n
          /\ \A k \in 1 .. ringLen - n : rest[k] = Waiting[n + k]
      <3>1. n \in Nat /\ ringLen \in Nat /\ n <= ringLen
        BY <1>1, <1>3
      <3>2. \A k \in n + 1 .. ringLen : Waiting[k] \in Nat
        BY <1>5, <3>1
      <3>3. /\ rest \in Seq(Nat)
            /\ Len(rest) = IF n + 1 <= ringLen THEN ringLen - (n + 1) + 1 ELSE 0
            /\ \A i \in 1 .. ringLen - (n + 1) + 1 : rest[i] = Waiting[n + 1 + i - 1]
        <4>1. n + 1 \in Int /\ ringLen \in Int
          BY <3>1
        <4>2. /\ rest \in Seq(Nat)
              /\ Len(rest) = IF n + 1 <= Len(Waiting) THEN Len(Waiting) - (n + 1) + 1 ELSE 0
              /\ \A i \in 1 .. Len(Waiting) - (n + 1) + 1 : rest[i] = Waiting[n + 1 + i - 1]
          <5>1. Len(Waiting) = ringLen
            BY <1>1
          <5>2. \A i \in n + 1 .. Len(Waiting) : Waiting[i] \in Nat
            BY <3>2, <5>1
          <5>3. Len(Waiting) \in Int
            BY <4>1, <5>1
          <5> QED  BY <4>1, <5>2, <5>3, SubSeqProperties
        <4> HIDE DEF rest
        <4> QED  BY <1>1, <4>2, Zenon
      <3> HIDE DEF rest
      <3> QED  BY <3>1, <3>3
    <2>2. ASSUME NEW k \in 1 .. ringLen - n PROVE Waiting'[k] = rest[k]
      <3>1. n + k \in 1 .. ringLen /\ n \in Nat /\ ringLen \in Nat /\ k \in Nat
        BY <1>1, <1>3
      <3>2. Slot(ringHead, ringLen - n, k) = Slot(ringHead, ringLen, n + k)
        <4>1. ringHead + Ring - (ringLen - n) + k - 1 = ringHead + Ring - ringLen + (n + k) - 1
          <5>1. ringHead \in Nat /\ Ring \in Nat
            BY Sizes DEF Inv, TypeOK
          <5> QED  BY <3>1, <5>1
        <4> QED  BY <4>1 DEF Slot
      <3>3. Waiting'[k] = ring[Slot(ringHead, ringLen - n, k)]
        BY <1>2, <1>3, <1>4
      <3>4. Waiting[n + k] = ring[Slot(ringHead, ringLen, n + k)]
        BY <1>1, <3>1
      <3> HIDE DEF rest
      <3> QED  BY <2>1, <3>2, <3>3, <3>4
    <2> HIDE DEF rest
    <2>3. Waiting' = rest
      BY <1>2, <1>3, <2>1, <2>2, SeqEqual
    <2> QED  BY <2>3 DEF rest
  <1> QED  BY <1>6, <1>7

(* The sequences of the filter.                                            *)
LEMMA FedTypes ==
    ASSUME Inv
    PROVE  /\ gone \in Seq(Nat) /\ buf \in Seq(Nat) /\ Fed \in Seq(Nat)
           /\ Len(gone) \in Nat /\ Len(buf) \in Nat /\ Len(Fed) = Len(gone) + Len(buf)
           /\ At = [int |-> pos.int + Len(gone), frac |-> pos.frac]
  <1>1. gone \in Seq(Nat) /\ buf \in Seq(Nat)
    BY DEF Inv, TypeOK
  <1>2. Len(gone) \in Nat /\ Len(buf) \in Nat
    BY <1>1
  <1>3. At = [int |-> pos.int + Len(gone), frac |-> pos.frac]
    BY Positions DEF At, Place
  <1> QED  BY <1>1, <1>2, <1>3, ConcatProperties DEF Fed

(* Take is Take: the samples go to the filter in order.                    *)
LEMMA TakeFeedsInOrder ==
    ASSUME Inv, Take, NEW n, n = Least(ringLen, MaxTake)
    PROVE  Fed' = Fed \o [k \in 1 .. n |-> Oldest(k)] /\ At' = At
  <1> DEFINE input == [k \in 1 .. n |-> Oldest(k)]
  <1>1. input \in Seq(Nat) /\ buf' = buf \o input
    BY TakeFeeds
  <1>2. gone' = gone /\ pos' = pos
    BY DEF Take
  <1> HIDE DEF input
  <1>3. (gone \o buf) \o input = gone \o (buf \o input)
    <2>1. gone \in Seq(Nat) /\ buf \in Seq(Nat)
      BY FedTypes
    <2> QED  BY <1>1, <2>1, Regroup, Zenon
  <1> QED  BY <1>1, <1>2, <1>3 DEF Fed, At, input

(* An output is Emit: the same samples, wherever the buffer begins.        *)
LEMMA OutputEmits ==
    ASSUME Inv, Output
    PROVE  /\ At.int + Half < Len(Fed)
           /\ window' = Stream!Around(Fed, At)
           /\ At' = Stream!After(At, step)
           /\ Fed' = Fed
  <1> DEFINE a == pos.int - (Half - 1) + 1
             b == pos.int + Half + 1
             g == Len(gone)
             l == Len(buf)
  <1>1. /\ pos.int \in Nat /\ pos.int - (Half - 1) \in Nat /\ Half \in Nat \ {0}
        /\ l \in Nat /\ g \in Nat /\ pos.int + Half < l
    BY Sizes, Positions, FedTypes DEF Output, Ready
  <1>2. a \in 1 .. l /\ b \in 1 .. l
    <2> DEFINE p == pos.int
    <2>1. p \in Nat /\ p - (Half - 1) \in Nat /\ p + Half < l
      BY <1>1
    <2> HIDE DEF p, l
    <2>2. p - (Half - 1) + 1 \in 1 .. l /\ p + Half + 1 \in 1 .. l
      BY <1>1, <2>1
    <2> QED  BY <2>2 DEF p
  <1>3. window' = SubSeq(buf, a, b)
    BY DEF Output
  <1>4. gone' = gone /\ buf' = buf
    BY DEF Output
  <1>5. SubSeq(Fed, g + a, g + b) = SubSeq(buf, a, b)
    <2> HIDE DEF a, b
    <2>1. g + a \in Len(gone) + 1 .. Len(gone) + Len(buf) /\ g + b \in Len(gone) + 1 .. Len(gone) + Len(buf)
      BY <1>1, <1>2
    <2>2. SubSeq(gone \o buf, g + a, g + b) = SubSeq(buf, (g + a) - Len(gone), (g + b) - Len(gone))
      BY <2>1, FedTypes, SubSeqOfConcat2
    <2>3. (g + a) - Len(gone) = a /\ (g + b) - Len(gone) = b
      BY <1>1, <1>2
    <2> QED  BY <2>2, <2>3 DEF Fed
  <1>6. At = [int |-> pos.int + g, frac |-> pos.frac]
    BY FedTypes
  <1>7. Stream!Around(Fed, At) = SubSeq(Fed, g + a, g + b)
    <2>1. At.int - (Half - 1) + 1 = g + a /\ At.int + Half + 1 = g + b
      BY <1>1, <1>6
    <2> QED  BY <2>1 DEF Stream!Around
  <1>8. At.int + Half < Len(Fed)
    BY <1>1, <1>6, FedTypes
  <1>9. At' = Stream!After(At, step)
    <2> DEFINE frac == pos.frac + step.frac
               carry == IF frac >= Unit THEN 1 ELSE 0
    <2>1. pos' = [int |-> pos.int + step.int + carry, frac |-> frac - carry * Unit]
      BY DEF Output
    <2>2. carry \in {0, 1} /\ step.int \in Nat
      BY Positions
    <2>3. Stream!After(At, step) = [int |-> At.int + step.int + carry, frac |-> frac - carry * Unit]
      BY <1>6 DEF Stream!After
    <2>4. At' = [int |-> (pos.int + step.int + carry) + g, frac |-> frac - carry * Unit]
      BY <1>4, <2>1 DEF At
    <2>5. (pos.int + step.int + carry) + g = At.int + step.int + carry
      <3> HIDE DEF carry, g
      <3> QED  BY <1>1, <1>6, <2>2
    <2> QED  BY <2>3, <2>4, <2>5
  <1> QED  BY <1>3, <1>4, <1>5, <1>7, <1>8, <1>9 DEF Fed

(* Dropping what was used changes neither the samples nor the place.       *)
LEMMA FinishStutters ==
    ASSUME Inv, Finish
    PROVE  Fed' = Fed /\ At' = At
  <1> DEFINE d == Drop
  <1>1. /\ gone \in Seq(Nat) /\ buf \in Seq(Nat) /\ Len(gone) \in Nat /\ Len(buf) \in Nat
        /\ At = [int |-> pos.int + Len(gone), frac |-> pos.frac]
    BY FedTypes
  <1>2. CASE d > 0
    <2>1. d \in 1 .. Len(buf)
      BY <1>1, <1>2, Positions DEF Drop, Least
    <2>2. /\ buf' = SubSeq(buf, d + 1, Len(buf)) /\ pos' = [pos EXCEPT !.int = @ - d]
          /\ gone' = gone \o SubSeq(buf, 1, d)
      BY <1>2 DEF Finish
    <2>3. \A i \in 1 .. Len(buf) : buf[i] \in Nat
      BY <1>1, ElementOfSeq
    <2> HIDE DEF d
    <2>4. SubSeq(buf, 1, d) \in Seq(Nat) /\ Len(SubSeq(buf, 1, d)) = d
      <3>1. \A i \in 1 .. d : buf[i] \in Nat
        BY <1>1, <2>1, <2>3
      <3>2. SubSeq(buf, 1, d) \in Seq(Nat) /\ Len(SubSeq(buf, 1, d)) = IF 1 <= d THEN d - 1 + 1 ELSE 0
        BY <2>1, <3>1, SubSeqProperties
      <3> QED  BY <2>1, <3>2
    <2>5. SubSeq(buf, d + 1, Len(buf)) \in Seq(Nat)
      <3>1. \A i \in d + 1 .. Len(buf) : buf[i] \in Nat
        BY <1>1, <2>1, <2>3
      <3> QED  BY <1>1, <2>1, <3>1, SubSeqProperties
    <2>6. SubSeq(buf, 1, d) \o SubSeq(buf, d + 1, Len(buf)) = buf
      <3>1. SubSeq(buf, 1, d) \o SubSeq(buf, d + 1, Len(buf)) = SubSeq(buf, 1, Len(buf))
        <4>1. 1 \in 1 .. Len(buf) + 1 /\ d \in 1 - 1 .. Len(buf) /\ Len(buf) \in d .. Len(buf)
          BY <1>1, <2>1
        <4> QED  BY <1>1, <4>1, ConcatAdjacentSubSeq
      <3> QED  BY <1>1, <3>1, SubSeqFull
    <2>7. Fed' = Fed
      <3>1. (gone \o SubSeq(buf, 1, d)) \o SubSeq(buf, d + 1, Len(buf)) =
               gone \o (SubSeq(buf, 1, d) \o SubSeq(buf, d + 1, Len(buf)))
        <4> DEFINE x == SubSeq(buf, 1, d)
                   y == SubSeq(buf, d + 1, Len(buf))
        <4>1. gone \in Seq(Nat) /\ x \in Seq(Nat) /\ y \in Seq(Nat)
          BY <1>1, <2>4, <2>5
        <4> HIDE DEF x, y
        <4>2. (gone \o x) \o y = gone \o (x \o y)
          BY <4>1, Regroup, Zenon
        <4> QED  BY <4>2 DEF x, y
      <3> QED  BY <2>2, <2>6, <3>1 DEF Fed
    <2>8. Len(gone') = Len(gone) + d
      BY <1>1, <2>2, <2>4, ConcatProperties
    <2>9. At' = [int |-> (pos.int - d) + (Len(gone) + d), frac |-> pos.frac]
      <3>1. pos' = [int |-> pos.int - d, frac |-> pos.frac]
        BY <2>2, Positions DEF Place
      <3> QED  BY <2>8, <3>1 DEF At
    <2>10. (pos.int - d) + (Len(gone) + d) = pos.int + Len(gone)
      BY <1>1, <2>1, Positions
    <2> QED  BY <1>1, <2>7, <2>9, <2>10
  <1>3. CASE ~(d > 0)
    BY <1>3 DEF Finish, Fed, At
  <1> QED  BY <1>2, <1>3

(* The variables of AudioStream.                                           *)
LEMMA StreamStutters ==
    ASSUME UNCHANGED <<made, Waiting, Fed, At, window>>
    PROVE  UNCHANGED Stream!vars
  BY DEF Stream!vars, Waiting, Fed, At

(* The initial states are AudioStream's.                                   *)
LEMMA StreamInit == Init => Stream!Init
  <1> SUFFICES ASSUME Init PROVE Stream!Init
    OBVIOUS
  <1>1. made = 0 /\ ringLen = 0 /\ window = <<>> /\ gone = <<>>
        /\ buf = [k \in 1 .. Taps |-> 0] /\ pos = StartPos
    BY DEF Init
  <1>2. [k \in 1 .. ringLen |-> Oldest(k)] = <<>>
    BY <1>1
  <1>3. gone \o buf = [k \in 1 .. 2 * Half |-> 0]
    <2>1. buf \in Seq(Nat)
      BY InvInit DEF Inv, TypeOK
    <2>2. <<>> \o buf = buf
      BY <2>1, ConcatEmptySeq
    <2> QED  BY <1>1, <2>2 DEF Taps
  <1>4. [pos EXCEPT !.int = @ + Len(gone)] = [int |-> Half - 1, frac |-> 0]
    <2>1. Len(gone) = 0
      BY <1>1
    <2>2. [pos EXCEPT !.int = @ + Len(gone)] = [int |-> (Half - 1) + Len(gone), frac |-> 0]
      BY <1>1 DEF StartPos
    <2>3. (Half - 1) + Len(gone) = Half - 1
      BY <2>1, Sizes
    <2> QED  BY <2>2, <2>3
  <1> QED  BY <1>1, <1>2, <1>3, <1>4 DEF Stream!Init

(* Every step is AudioStream's or leaves its variables alone.              *)
LEMMA StreamNext == Inv /\ Inv' /\ [Next]_vars => [Stream!Next]_(Stream!vars)
  <1> SUFFICES ASSUME Inv, Inv', [Next]_vars PROVE [Stream!Next]_(Stream!vars)
    OBVIOUS
  <1>1. CASE DspOut
    <2>1. made' = made + 1 /\ UNCHANGED <<gone, buf, pos, window>>
      BY <1>1 DEF DspOut, filterVars
    <2>2. Fed' = Fed /\ At' = At
      BY <2>1 DEF Fed, At
    <2>3. LET all == Append(Waiting, made + 1)
          IN  Waiting' = IF Len(all) > Ring THEN Tail(all) ELSE all
      BY <1>1, DspOutMakes
    <2>4. Stream!Make
      BY <2>1, <2>2, <2>3 DEF Stream!Make, Waiting, Fed, At
    <2> QED  BY <2>4 DEF Stream!Next
  <1>2. CASE Take
    <2> DEFINE n == Least(ringLen, MaxTake)
    <2>1. UNCHANGED <<made, window>>
      BY <1>2 DEF Take
    <2>2. /\ [k \in 1 .. n |-> Oldest(k)] = SubSeq(Waiting, 1, n)
          /\ Waiting' = SubSeq(Waiting, n + 1, Len(Waiting))
      BY <1>2, TakeSplits
    <2>3. Fed' = Fed \o SubSeq(Waiting, 1, n) /\ At' = At
      BY <1>2, <2>2, TakeFeedsInOrder
    <2>4. n = IF Len(Waiting) < MaxTake THEN Len(Waiting) ELSE MaxTake
      BY RingTypes DEF Least
    <2> HIDE DEF n
    <2>5. Stream!Take
      BY <2>1, <2>2, <2>3, <2>4 DEF Stream!Take, Waiting, Fed, At
    <2> QED  BY <2>5 DEF Stream!Next
  <1>3. CASE Output
    <2>1. UNCHANGED <<made, ring, ringHead, ringLen>>
      BY <1>3 DEF Output, ringVars
    <2>2. /\ At.int + Half < Len(Fed) /\ window' = Stream!Around(Fed, At)
          /\ At' = Stream!After(At, step) /\ Fed' = Fed
      BY <1>3, OutputEmits
    <2>3. Waiting' = Waiting
      BY <2>1 DEF Waiting, Oldest
    <2>4. step \in Steps
      BY DEF Inv, TypeOK
    <2>5. Stream!Emit
      BY <2>1, <2>2, <2>3, <2>4 DEF Stream!Emit, Waiting, Fed, At
    <2> QED  BY <2>5 DEF Stream!Next
  <1>4. CASE Finish
    <2>1. UNCHANGED <<made, ring, ringHead, ringLen, window>>
      BY <1>4 DEF Finish, ringVars
    <2>2. Waiting' = Waiting
      BY <2>1 DEF Waiting, Oldest
    <2> QED  BY <1>4, <2>1, <2>2, FinishStutters, StreamStutters
  <1>5. CASE Device \/ UNCHANGED vars
    <2>1. UNCHANGED <<made, ring, ringHead, ringLen, gone, buf, pos, window>>
      BY <1>5 DEF Device, vars, ringVars, filterVars
    <2>2. Waiting' = Waiting /\ Fed' = Fed /\ At' = At
      BY <2>1 DEF Waiting, Oldest, Fed, At
    <2> QED  BY <2>1, <2>2, StreamStutters
  <1> QED  BY <1>1, <1>2, <1>3, <1>4, <1>5 DEF Next

(* The ring and the resampler implement AudioStream: no sample is out of   *)
(* order, doubled or lost but the oldest of a full ring, and the outputs   *)
(* stand a step apart across the calls of rs_process.                      *)
THEOREM Implements == Spec => StreamSpec
  <1>1. Inv /\ [Next]_vars => [Stream!Next]_(Stream!vars)
    BY InvNext, StreamNext
  <1> QED  BY <1>1, InvInit, InvNext, StreamInit, PTL DEF Spec, StreamSpec, Stream!Spec
=============================================================================
