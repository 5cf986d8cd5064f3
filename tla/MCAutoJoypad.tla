---------------------------- MODULE MCAutoJoypad ----------------------------
(* A small instance of AutoJoypad: two buttons, so six steps, over two of  *)
(* the frame's four lines; step 1 falls inside the line that arms the      *)
(* read, as it does in the code.  The longest instruction crosses a line   *)
(* and, started late in the line before, passes step 1.                    *)
EXTENDS AutoJoypad

MCInsnClocks == {2, 3, 25}
=============================================================================
