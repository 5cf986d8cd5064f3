---------------------------- MODULE MCSchedClock ----------------------------
(* Small instances of SchedClock: the clocks inside a line keep the code's *)
(* residues modulo 8 and their order, on a line of about a hundred clocks  *)
(* instead of 1364 and a frame of four lines.                              *)
EXTENDS SchedClock

OneInsn == {<<8, 8, 6>>}
ShortInsn == {<<8, 6>>}
MCIntEntry == <<8, 6, 8, 8>>
NmiOnOff == {[nmi |-> TRUE, mode |-> 0], [nmi |-> FALSE, mode |-> 0]}
TimerModes == {[nmi |-> FALSE, mode |-> m] : m \in {0, 3}}
=============================================================================
