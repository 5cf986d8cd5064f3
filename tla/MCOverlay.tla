----------------------------- MODULE MCOverlay -----------------------------
(* A small instance of Overlay: two bytes, a page each, and at one address *)
(* a function of the first byte and another version of it that covers      *)
(* both.                                                                   *)
EXTENDS Overlay

MCAddr == <<"a", "a">>
MCLo == <<0, 0>>
MCHi == <<0, 1>>
MCImage == <<[o \in 0 .. 1 |-> 0], [o \in 0 .. 1 |-> 1]>>
=============================================================================
