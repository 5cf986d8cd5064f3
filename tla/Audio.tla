------------------------------- MODULE Audio --------------------------------
(***************************************************************************)
(* The sound path: the DSP's ring (runtime/sched.c), the resampler         *)
(* (runtime/resample.c) and the frontend's queue (queue_audio of           *)
(* frontend/main.c).  The SPC700's coroutine puts a pair of samples in the *)
(* ring every 32 cycles; at each frame edge the frontend takes what there  *)
(* is, resamples it and queues it in SDL, whose own thread empties the     *)
(* queue.  A pair is its number, and an output the samples under it: the   *)
(* filter's arithmetic is left out.  pos is a whole number of samples and  *)
(* a fraction in Units.                                                    *)
(***************************************************************************)
EXTENDS Integers, Sequences

CONSTANTS
    Ring,        \* AUDIO_RING (8192)
    MaxTake,     \* 4096: queue_audio's in, and the resampler's input
    Half,        \* HALF (16): half of RS_TAPS
    Unit,        \* the fractions of pos
    Steps,       \* in_hz / (out_hz * adjust), for every adjust the rate control asks for
    MaxOut,      \* 8192: queue_audio's out
    Target,      \* AUDIO_TARGET
    Chunk,       \* AUDIO_BUFFER: what the device takes at a time
    MaxMade      \* bound: samples of a behaviour

VARIABLES
    ring, ringHead, ringLen,   \* the DSP's ring
    buf, pos,    \* resampler: buf (its first len samples) and pos
    phase,       \* "run", or queue_audio's rs_process under way
    step,        \* rs_process: its step
    produced,    \* rs_process: outputs so far
    level,       \* the SDL queue
    early,       \* queue_audio: the level it read
    playing,     \* the device runs
    made,        \* history: samples made
    gone,        \* history: samples the resampler has dropped
    window       \* history: the samples under the last output

ringVars == <<ring, ringHead, ringLen, made>>
filterVars == <<buf, pos, gone, window>>
callVars == <<phase, step, produced, early>>
sdlVars == <<level, playing>>
vars == <<ringVars, filterVars, callVars, sdlVars>>

Taps == 2 * Half
Place == [int : Nat, frac : 0 .. Unit - 1]

ASSUME AudioAssumption ==
    /\ Ring \in Nat \ {0} /\ MaxTake \in Nat \ {0} /\ Half \in Nat \ {0} /\ Unit \in Nat \ {0}
    /\ Steps \subseteq Place /\ Steps # {}
    \* Out has room for what a full input gives (8192 * 0.66 >= 4097).
    /\ \A s \in Steps : MaxOut * (s.int * Unit + s.frac) >= (MaxTake + 1) * Unit
    /\ MaxOut \in Nat /\ Target \in Nat /\ Chunk \in Nat /\ MaxMade \in Nat

Least(a, b) == IF a < b THEN a ELSE b

----------------------------------------------------------------------------
(* The ring.                                                               *)

LenPut == Least(ringLen + 1, Ring)

(* dsp_out: a full ring drops the oldest.                                  *)
DspOut ==
    /\ phase = "run" /\ made < MaxMade
    /\ made' = made + 1
    /\ ring' = [ring EXCEPT ![ringHead] = made + 1]
    /\ ringHead' = (ringHead + 1) % Ring
    /\ ringLen' = LenPut
    /\ UNCHANGED <<filterVars, callVars, sdlVars>>

(* The k-th oldest of the ring's samples (sched_audio_take's at).          *)
OldestFromHead(k) == ring[(ringHead + k - 1) % Ring]   \* mutant: as if the ring were full
Oldest(k) == ring[(ringHead + Ring - ringLen + k - 1) % Ring]

----------------------------------------------------------------------------
(* rs_process.                                                             *)

StartPos == [int |-> Half - 1, frac |-> 0]

Fits(n) == n <= MaxTake /\ Len(buf) + n <= MaxTake + Taps

(* queue_audio: the samples are taken from the ring, and the resampler     *)
(* consumes them, or rejects them and they are lost.                       *)
Take ==
    /\ phase = "run"
    /\ LET n == Least(ringLen, MaxTake) IN
       /\ ringLen' = ringLen - n
       /\ IF Fits(n)
          THEN /\ phase' = "process" /\ produced' = 0 /\ step' \in Steps
               /\ buf' = buf \o [k \in 1 .. n |-> Oldest(k)]
          ELSE /\ UNCHANGED <<phase, produced, step, buf>>
    /\ early' = level
    /\ UNCHANGED <<ring, ringHead, made, pos, gone, window, sdlVars>>

Room == produced < MaxOut
Ready == pos.int + Half < Len(buf)         \* pos + HALF < len

(* One output.                                                             *)
Output ==
    /\ phase = "process" /\ Room /\ Ready
    /\ window' = SubSeq(buf, pos.int - (Half - 1) + 1, pos.int + Half + 1)
    /\ LET frac == pos.frac + step.frac
           carry == IF frac >= Unit THEN 1 ELSE 0
       IN  pos' = [int |-> pos.int + step.int + carry, frac |-> frac - carry * Unit]
    /\ produced' = produced + 1
    /\ UNCHANGED <<ringVars, buf, gone, phase, step, early, sdlVars>>

DropLess == Least(pos.int - Taps, Len(buf))     \* mutant: all the taps before pos are kept
Drop == Least(pos.int - (Half - 1), Len(buf))

QueueAlways == level + produced            \* mutant: nothing is dropped
Queued == IF early > 4 * Target THEN level ELSE level + produced

(* The loop is over: the history the next output needs is kept, and the    *)
(* outputs go to the queue, or nowhere when it is far ahead.               *)
Finish ==
    /\ phase = "process" /\ ~(Room /\ Ready)
    /\ LET d == Drop IN
       IF d > 0
       THEN /\ buf' = SubSeq(buf, d + 1, Len(buf)) /\ pos' = [pos EXCEPT !.int = @ - d]
            /\ gone' = gone \o SubSeq(buf, 1, d)
       ELSE UNCHANGED <<buf, pos, gone>>
    /\ level' = Queued
    /\ playing' = (playing \/ level' >= Target)
    /\ phase' = "run"
    /\ UNCHANGED <<ringVars, window, step, produced, early>>

----------------------------------------------------------------------------
(* SDL's audio thread takes a buffer, or what there is.                    *)
Device ==
    /\ playing /\ level > 0
    /\ level' = level - Least(level, Chunk)
    /\ UNCHANGED <<ringVars, filterVars, callVars, playing>>

(* rs_init.                                                                *)
Init ==
    /\ ring = [k \in 0 .. Ring - 1 |-> 0] /\ ringHead = 0 /\ ringLen = 0
    /\ buf = [k \in 1 .. Taps |-> 0] /\ pos = StartPos
    /\ phase = "run" /\ produced = 0 /\ step \in Steps /\ early = 0
    /\ level = 0 /\ playing = FALSE
    /\ made = 0 /\ gone = <<>> /\ window = <<>>

Next == DspOut \/ Take \/ Output \/ Finish \/ Device

Spec == Init /\ [][Next]_vars

----------------------------------------------------------------------------
(* Properties.                                                             *)

(* Every variable has its type, and the buffers are never more than full:  *)
(* "far ahead (--fast, or the device stalled)", the SDL queue, and with it *)
(* the sound's delay, is bounded whatever the device does.                 *)
TypeOK ==
    /\ made \in Nat /\ ring \in [0 .. Ring - 1 -> Nat]
    /\ ringHead \in 0 .. Ring - 1 /\ ringLen \in 0 .. Ring
    /\ buf \in Seq(Nat) /\ Len(buf) <= MaxTake + Taps
    /\ pos \in Place /\ step \in Steps
    /\ phase \in {"run", "process"} /\ produced \in 0 .. MaxOut
    /\ level \in 0 .. 4 * Target + MaxOut /\ early \in Nat /\ playing \in BOOLEAN
    /\ gone \in Seq(Nat) /\ window \in Seq(Nat)

(* rs_process never reads a tap from before its buffer, whatever was       *)
(* dropped there (its loop's condition keeps the last tap inside); and     *)
(* "each call consumes all of its input": what a call leaves is so little  *)
(* that the next has room for all of its own, and no sample taken is lost. *)
TapsInside ==
    /\ pos.int >= Half - 1
    /\ phase = "run" => \A n \in 0 .. MaxTake : Fits(n)

Stream == INSTANCE AudioStream WITH
    waiting <- [k \in 1 .. ringLen |-> Oldest(k)],
    fed <- gone \o buf,
    place <- [pos EXCEPT !.int = @ + Len(gone)]

(* The ring and the resampler are the stream that AudioStream promises:    *)
(* samples in order, the oldest lost only to a full ring, outputs a step   *)
(* apart across calls, over the samples around them.                       *)
StreamSpec == Stream!Spec
=============================================================================
