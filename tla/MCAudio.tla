------------------------------ MODULE MCAudio -------------------------------
(* A small instance of Audio: a ring of four samples, a filter of four     *)
(* taps, and steps of two thirds (32 to 48 kHz) and one and a third.       *)
EXTENDS Audio

MCSteps == {[int |-> 0, frac |-> 2], [int |-> 1, frac |-> 1]}
=============================================================================
