-------------------------------- MODULE MCCpu --------------------------------
(* Two-bit bytes: 16-bit values 0..15, sign bits and every wrap.  Families  *)
(* of executions: Timing runs all 256 opcodes at both widths, with direct   *)
(* pages and operands that do and do not cross a page and the banks' ends,  *)
(* from fast and slow ROM, both ways; Values runs the arithmetic, logic,    *)
(* shifts and bit tests on every pair of values; Registers runs the         *)
(* transfers, counts, pulls and flag instructions on registers at their     *)
(* limits, in native and emulation mode; Interrupts enters with any flags.  *)
EXTENDS Cpu

MCDataPlaces == {<<\h00, \h2100>>, <<\h00, \h4016>>}        \* 6 and 12 clocks
Fast == [at |-> <<\hC0, \h8000>>, memsel |-> TRUE]
Slow == [at |-> <<\h00, \h8000>>, memsel |-> FALSE]

Base == [A |-> 6, X |-> 3, Y |-> 3, S |-> 0, DP |-> 0, DB |-> 3, PB |-> 1, PC |-> 14,
         P |-> {}, e |-> FALSE]
With(arg, ptr, val) == [arg |-> arg, ptr |-> ptr, val |-> val, fl |-> {"m", "c"}]
Ex(op, s, in, place) ==
  [op |-> op, s |-> s, in |-> in, compiled |-> FALSE, known |-> FALSE, interrupt |-> FALSE] @@ place

(* Near: no crossing, DP's low byte 0.  Far: every crossing, wrap and penalty. *)
Timing(op) ==
  LET flags == IF op \in Branches THEN {{}, {"n", "v", "c", "z"}} ELSE {{}}
      near(mx, fl) == [Base EXCEPT !.P = mx \cup fl]
      far(mx, fl)  == [Base EXCEPT !.P = mx \cup fl, !.DP = 13]
      runs == {Ex(op, near(mx, fl), With(16, 20, 7), place) :
                 mx \in SUBSET {"m", "x"}, fl \in flags, place \in {Fast, Slow}}
              \cup {Ex(op, far(mx, fl), With(63, 63, 9), Slow) :
                      mx \in SUBSET {"m", "x"}, fl \in flags}
      tables == IF op \in {\h7C, \hFC} THEN {[x EXCEPT !.known = TRUE] : x \in runs} ELSE {}
  IN {[x EXCEPT !.compiled = c] : x \in runs \cup tables, c \in BOOLEAN}

ValueOps ==
  {\h09, \h29, \h49, \h69, \h89, \hC9, \hE9}              \* ALU and BIT, immediate
    \cup {\h06, \h26, \h46, \h66, \hE6, \hC6, \h04, \h14} \* shifts, counts, TSB, TRB in memory
Values(op) ==
  IF op \notin ValueOps THEN {}
  ELSE {Ex(op, [Base EXCEPT !.A = a, !.P = p], With(0, 0, v), Slow) :
          a \in IF op % 32 = \h09 THEN 0..15 ELSE {5, 10}, v \in 0..15, p \in SUBSET {"m", "c"}}

Limits == {0, 3, 4, 15}
Regs ==
  {s \in {[Base EXCEPT !.A = a, !.X = i, !.Y = 3 - (i % 4), !.S = sp, !.P = p, !.e = e] :
            a \in Limits, i \in Limits, sp \in {4, 15},
            p \in {{}, {"m"}, {"x"}, {"m", "x"}, {"m", "x", "c"}}, e \in BOOLEAN} : Legal(s)}
RegisterOps == {op \in 0..255 : Decode[op][2] \in {"IMP", "ACC"}}
                 \cup {\hA9, \hA2, \hA0, \hE0, \hC0}
Registers(op) ==
  IF op \notin RegisterOps THEN {}
  ELSE {Ex(op, s, [With(18, 23, 12) EXCEPT !.fl = {"x", "n"}], Slow) : s \in Regs}

Interrupts ==
  {[Ex(0, [Base EXCEPT !.P = p, !.PB = pb, !.S = sp], With(0, 9, 0), place)
      EXCEPT !.interrupt = TRUE] :
     p \in SUBSET {"m", "i", "d", "z"}, pb \in {0, 3}, sp \in {2, 15}, place \in {Fast, Slow}}

MCExecutions(op) ==
  IF op = Interrupt THEN Interrupts ELSE Timing(op) \cup Values(op) \cup Registers(op)
=============================================================================
