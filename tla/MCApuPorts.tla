----------------------------- MODULE MCApuPorts -----------------------------
(* A small instance of ApuPorts: a port of each pair $F1 clears, and five  *)
(* clocks for two half-cycles of the SPC700, so that an access can fall at *)
(* every fifth of a half-cycle.  One instruction is longer than a line (it *)
(* sits out a DMA).                                                        *)
EXTENDS ApuPorts

MCInsnClocks == {1, 8}
=============================================================================
