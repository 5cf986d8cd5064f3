------------------------------ MODULE Compiled ------------------------------
(***************************************************************************)
(* The functions Decode compiled, run as the emitted code runs             *)
(* (recomp/emit.py, runtime/ops.h, runtime/cpu.h): each instruction in the *)
(* width it was compiled for, in C frames that call each other, with an    *)
(* interpreter beside them that always runs in the CPU's own width and     *)
(* goes native at every entry compiled for it.  Emitted code checks M at a *)
(* function's entry, after a PLP, after an interpreted call, and where a   *)
(* callee has several exits; after any other call only PC.                 *)
(***************************************************************************)
EXTENDS Decode
LOCAL INSTANCE SequencesExt

CONSTANTS
    MaxDepth,    \* bound: calls nested
    MaxPushed    \* bound: bytes a call has pushed

VARIABLES
    m,           \* the CPU's width
    run,         \* the calls under way, see Frame
    stop,        \* what ended the run: a ct_fatal, or "end"
    strayed      \* history: a function finished by the interpreter returned in a width
                 \* it was not compiled to return in

vars == <<decodeVars, m, run, stop, strayed>>

NoKey == <<>>

(* A call under way: native code of the function `key', at an instruction  *)
(* compiled for width w, or the interpreter (key = NoKey).  pushed: the P  *)
(* bytes since the call; via: the caller went through ct_call_interp; was: *)
(* the function whose rest the interpreter runs.                           *)
Frame(key, at, w, via) ==
    [key |-> key, at |-> at, w |-> w, pushed |-> <<>>, via |-> via, was |-> NoKey]

Running == phase = "run" /\ stop = "no"
Now == Last(run)
Native == Now.key # NoKey
Fn == cache[Now.key]
Here == program.code[Now.at]
Post == Fn.post[<<Now.at, Now.w>>]

Replace(f) == run' = Append(Front(run), f)

(* Where a frame goes on: native code at the label for width w.            *)
Onward(f, at, w) == [f EXCEPT !.at = at, !.w = IF f.key = NoKey THEN Unknown ELSE w]

(* ct_tail_rest, and ct_interp_rest: the rest of the function, from at.    *)
Rest(f, at) == [f EXCEPT !.key = NoKey, !.at = at, !.w = Unknown,
                         !.was = IF @ = NoKey THEN f.key ELSE @]

Halt(why) == stop' = why /\ UNCHANGED run

(* cpu_enter, of a function the caller compiled for width w.               *)
EntryOK(w) == m = w

RunUnchanged == UNCHANGED <<decodeVars, strayed>>

----------------------------------------------------------------------------

(* The dispatcher enters some compiled function in its entry state.        *)
Start ==
    /\ phase = "built" /\ phase' = "run"
    /\ \E key \in DOMAIN cache :
         /\ m' = key[2]
         /\ run' = <<Frame(key, key[1], key[2], TRUE)>>
    /\ UNCHANGED <<program, roots, frames, cache, assume, stop, strayed>>

(* exec_one, at an entry compiled for the CPU's width.                     *)
Dispatch ==
    /\ Running /\ ~Native /\ Now.at \in DOMAIN program.code /\ Registered(Now.at, m)
    /\ Replace([Now EXCEPT !.key = <<Now.at, m>>, !.w = m])
    /\ UNCHANGED <<m, stop>> /\ RunUnchanged

Executes(ops) ==
    /\ Running /\ Now.at \in DOMAIN program.code /\ Here.op \in ops
    /\ ~Native => ~Registered(Now.at, m)

TheWidth == IF Native THEN CHOOSE w \in Post : TRUE ELSE Unknown

SetWidth ==
    /\ Executes({"set", "use", "php"})
    /\ Here.op = "php" => Len(Now.pushed) < MaxPushed
    /\ m' = IF Here.op = "set" THEN Here.w ELSE m
    /\ Replace([Onward(Now, Now.at + 1, TheWidth) EXCEPT
                   !.pushed = IF Here.op = "php" THEN Append(@, m) ELSE @])
    /\ UNCHANGED stop /\ RunUnchanged

PlpOK(w) == w \in Post

(* A PLP of a byte the caller pushed is beyond the model.                  *)
Plp ==
    /\ Executes({"plp"}) /\ Now.pushed # <<>>
    /\ m' = Last(Now.pushed)
    /\ IF Native /\ ~PlpOK(m') THEN Halt("plp")
       ELSE Replace([Onward(Now, Now.at + 1, TheWidth) EXCEPT !.pushed = Front(@)])
            /\ UNCHANGED stop
    /\ RunUnchanged

Branch ==
    /\ Executes({"br"})
    /\ \E at \in {Here.to[1], Now.at + 1} : Replace(Onward(Now, at, TheWidth))
    /\ UNCHANGED <<m, stop>> /\ RunUnchanged

(* ct_tail of the function compiled for this instruction's width.          *)
TailTo(t) ==
    IF EntryOK(Now.w) THEN Replace([Now EXCEPT !.key = <<t, Now.w>>, !.at = t])
                           /\ UNCHANGED stop
    ELSE Halt("enter")

Jump ==
    /\ Executes({"jmp", "jml"})
    /\ \E t \in Targets(Here) :
         IF ~Native THEN Replace(Onward(Now, t, Unknown)) /\ UNCHANGED stop
         ELSE IF <<Now.at, Now.w, t>> \in Fn.interp THEN Replace(Rest(Now, t)) /\ UNCHANGED stop
         ELSE IF Post # {} THEN Replace(Onward(Now, t, TheWidth)) /\ UNCHANGED stop
         ELSE TailTo(t)
    /\ UNCHANGED m /\ RunUnchanged

(* ct_run of the callee, or ct_call_interp.                                *)
Call ==
    /\ Executes({"call"}) /\ Len(run) < MaxDepth
    /\ \E t \in Targets(Here) :
         IF ~Native \/ <<Now.at, Now.w, t>> \in Fn.interp
         THEN run' = Append(run, Frame(NoKey, t, Unknown, TRUE)) /\ UNCHANGED stop
         ELSE IF EntryOK(Now.w)
         THEN run' = Append(run, Frame(<<t, Now.w>>, t, Now.w, FALSE)) /\ UNCHANGED stop
         ELSE Halt("enter")
    /\ UNCHANGED m /\ RunUnchanged

(* The callee's return, in front of the caller's next instruction.         *)
BackOnly(c) == TRUE                    \* mutant: came back, in whatever width
CameBackAsAssumed(c) == c.w \in {m, Unknown}

Resume(c) ==
    LET after == cache[c.key].post[<<c.at, c.w>>]
        rest == SubSeq(run, 1, Len(run) - 2)
        On(f) == run' = Append(rest, f) /\ UNCHANGED stop
    IN  IF c.key = NoKey THEN On(Onward(c, c.at + 1, Unknown))
        ELSE IF Now.via
        THEN IF CameBackAsAssumed(c) THEN On(Onward(c, c.at + 1, c.w))
                                     ELSE On(Rest(c, c.at + 1))
        ELSE IF \E w \in after : after = {w}
        THEN On(Onward(c, c.at + 1, CHOOSE w \in after : TRUE))
        ELSE IF m \in after THEN On(Onward(c, c.at + 1, m))
        ELSE Halt("exits")

Strays(f) == /\ f.was # NoKey
             /\ {m, Unknown} \intersect cache[f.was].exits = {}

(* A return address under pushed bytes is beyond the model.                *)
Return ==
    /\ Executes({"ret"}) /\ Now.pushed = <<>>
    /\ strayed' = (strayed \/ Strays(Now))
    /\ IF Len(run) = 1 THEN Halt("end") ELSE Resume(run[Len(run) - 1])
    /\ UNCHANGED <<decodeVars, m>>

RunNext == Start \/ Dispatch \/ SetWidth \/ Plp \/ Branch \/ Jump \/ Call \/ Return

Init == DecodeInit /\ m = Unknown /\ run = <<>> /\ stop = "no" /\ strayed = FALSE

Next == (DecodeNext /\ UNCHANGED <<m, run, stop, strayed>>) \/ RunNext

(* The build runs to its end; the program may stop anywhere.               *)
Spec == Init /\ [][Next]_vars /\ WF_vars(DecodeNext /\ UNCHANGED <<m, run, stop, strayed>>)

----------------------------------------------------------------------------
(* Properties.                                                             *)

(* Native code runs each instruction in the width it was compiled for.     *)
InWidth == Running /\ Native => Now.w \in {m, Unknown}

(* Native code runs each instruction in the width it was compiled for,     *)
(* and no callee returns in a width its caller was not compiled for, as    *)
(* long as no function that the interpreter finished has strayed.          *)
RightWidth == strayed \/ (InWidth /\ stop \notin {"enter", "exits"})
=============================================================================
