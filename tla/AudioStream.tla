---------------------------- MODULE AudioStream -----------------------------
(***************************************************************************)
(* What the sound path promises: the DSP's samples reach the resampling    *)
(* filter in order and once each, except that the oldest are given up      *)
(* while more than Ring wait; and each output is the filter at the place   *)
(* one step after the last output's, over the samples around it.  Samples  *)
(* are numbered from 1; 0 is the silence before the first.                 *)
(***************************************************************************)
EXTENDS Integers, Sequences

CONSTANTS
    Ring,        \* samples that can wait
    MaxTake,     \* samples the frontend takes at a time
    Half,        \* half of the filter's taps
    Unit, Steps  \* see Audio

VARIABLES
    made,        \* samples made
    waiting,     \* samples not yet taken
    fed,         \* every sample given to the filter
    place,       \* the next output's place among them
    window       \* the samples under the last output

vars == <<made, waiting, fed, place, window>>

(* A place a step further.                                                 *)
After(at, step) ==
    LET frac == at.frac + step.frac
        carry == IF frac >= Unit THEN 1 ELSE 0
    IN  [int |-> at.int + step.int + carry, frac |-> frac - carry * Unit]

(* The samples under an output at a place: the Half up to it and the Half  *)
(* after (places count from 0).                                            *)
Around(samples, at) == SubSeq(samples, at.int - (Half - 1) + 1, at.int + Half + 1)

Init ==
    /\ made = 0 /\ waiting = <<>> /\ window = <<>>
    /\ fed = [k \in 1 .. 2 * Half |-> 0]
    /\ place = [int |-> Half - 1, frac |-> 0]

Make ==
    /\ made' = made + 1
    /\ LET all == Append(waiting, made + 1)
       IN  waiting' = IF Len(all) > Ring THEN Tail(all) ELSE all
    /\ UNCHANGED <<fed, place, window>>

Take ==
    /\ LET n == IF Len(waiting) < MaxTake THEN Len(waiting) ELSE MaxTake
       IN  /\ fed' = fed \o SubSeq(waiting, 1, n)
           /\ waiting' = SubSeq(waiting, n + 1, Len(waiting))
    /\ UNCHANGED <<made, place, window>>

Emit ==
    /\ place.int + Half < Len(fed)
    /\ window' = Around(fed, place)
    /\ \E step \in Steps : place' = After(place, step)
    /\ UNCHANGED <<made, waiting, fed>>

Next == Make \/ Take \/ Emit

Spec == Init /\ [][Next]_vars
=============================================================================
